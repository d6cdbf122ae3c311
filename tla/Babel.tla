------------------------------- MODULE Babel -------------------------------
(***************************************************************************)
(* The babel sidecar: one task polls a node once a second, with two or     *)
(* three requests one after the other, sets the Prometheus gauges one by   *)
(* one and then replaces the cached status; the REST and RPC handlers read *)
(* the cache.  The node changes, fails and stops answering at any moment,  *)
(* also between two requests of a poll.  The clients have no timeout: a    *)
(* request that the node dropped while it was silent is waited for as long *)
(* as the process lives.                                                   *)
(***************************************************************************)
EXTENDS Naturals, Sequences

CONSTANTS NodeTypes,   \* the --node-type options to consider
          MaxPeers,    \* bound: peers told apart
          MaxBlock,    \* u64::MAX
          NodeStates,  \* the states of the node to consider
          NoStatus     \* None in cached_status

SupportedTypes == {"ethereum", "ethereum_beacon", "cosmos"}
Blocks == 0 .. MaxBlock
States == [peers : 0 .. MaxPeers, syncing : BOOLEAN, block : Blocks]
\* latest is 0 where latest_block_number is None, as in its gauge.
Statuses == [peers : 0 .. MaxPeers, block : Blocks, syncing : BOOLEAN, latest : Blocks,
             ready : BOOLEAN, healthy : BOOLEAN]

ASSUME BabelAssumption ==
    /\ NodeTypes \subseteq SupportedTypes
    /\ MaxPeers \in Nat \ {0}
    /\ MaxBlock \in Nat
    /\ NodeStates \subseteq States
    /\ NoStatus \notin Statuses

VARIABLES nodeType,  \* the --node-type option; never changes
          node,      \* the node: its peers, its block, and whether it is syncing
          mode,      \* how it answers: "up", "failing", or "silent"
          poll,      \* where the polling task is
          answers,   \* the local variables of status(): what the node answered
          written,   \* how many gauges this poll has set
          gauges,    \* the Prometheus gauges
          cached,    \* cached_status
          seen       \* history: the states of the node during this poll

vars == <<nodeType, node, mode, poll, answers, written, gauges, cached, seen>>

NoGauges == [peers |-> 0, block |-> 0, syncing |-> FALSE, latest |-> 0,
             ready |-> FALSE, healthy |-> FALSE]

Init ==
    /\ nodeType \in NodeTypes
    /\ node \in NodeStates
    /\ mode = "up"
    /\ poll = "waiting"
    /\ answers = [peers |-> 0, syncing |-> FALSE, block |-> 0]
    /\ written = 0
    /\ gauges = NoGauges
    /\ cached = NoStatus
    /\ seen = {node}

-----------------------------------------------------------------------------
(* status(): the requests of one poll, and the Status made of the answers.  *)

\* Ethereum reports is_syncing = false for SyncStatus::Info, which the node
\* returns while it is syncing, and true for SyncStatus::None.
IsSyncing(a) == IF nodeType = "ethereum" THEN ~a.syncing ELSE a.syncing

\* A node that is syncing is one block behind.  Ethereum nodes say which block
\* is the latest, of beacon nodes it is the sum of two u64; cosmos has none.
ReportsLatest(a) == nodeType # "cosmos" /\ a.syncing
Latest(a) == IF ReportsLatest(a) THEN (a.block + 1) % (MaxBlock + 1) ELSE 0
Overflows(a) == ReportsLatest(a) /\ a.block = MaxBlock

StatusWithoutPeers(a) ==
    [peers |-> a.peers, block |-> a.block, syncing |-> IsSyncing(a), latest |-> Latest(a),
     ready |-> ~IsSyncing(a), healthy |-> TRUE]

Status(a) ==
    [peers   |-> a.peers,
     block   |-> a.block,
     syncing |-> IsSyncing(a),
     latest  |-> Latest(a),
     ready   |-> a.peers > 0 /\ ~IsSyncing(a),
     healthy |-> TRUE]

TickKeepsPeers ==
    /\ poll = "waiting"
    /\ poll' = IF answers.peers > 0 THEN "asking_sync" ELSE "asking_peers"
    /\ seen' = {node}
    /\ UNCHANGED <<nodeType, node, mode, answers, written, gauges, cached>>

Tick ==
    /\ poll = "waiting"
    /\ poll' = "asking_peers"
    /\ seen' = {node}
    /\ UNCHANGED <<nodeType, node, mode, answers, written, gauges, cached>>

ReadPeers ==
    /\ poll = "asking_peers"
    /\ mode = "up"
    /\ answers' = [answers EXCEPT !.peers = node.peers]
    /\ poll' = "asking_sync"
    /\ UNCHANGED <<nodeType, node, mode, written, gauges, cached, seen>>

\* An ethereum node that is not syncing is asked for its block number too.  A
\* sum that overflows wraps in a release build.
ReadSync ==
    /\ poll = "asking_sync"
    /\ mode = "up"
    /\ ~(nodeType = "ethereum" /\ Overflows(node))
    /\ answers' = [answers EXCEPT !.syncing = node.syncing, !.block = node.block]
    /\ poll' = IF nodeType = "ethereum" /\ ~node.syncing THEN "asking_block" ELSE "writing"
    /\ written' = 0
    /\ UNCHANGED <<nodeType, node, mode, gauges, cached, seen>>

\* In a debug build the sum panics, and in every build the conversion of an
\* ethereum node's number that no u64 holds: the task is gone.
ReadPanics ==
    /\ poll = "asking_sync"
    /\ mode = "up"
    /\ Overflows(node)
    /\ poll' = "panicked"
    /\ UNCHANGED <<nodeType, node, mode, answers, written, gauges, cached, seen>>

ReadBlock ==
    /\ poll = "asking_block"
    /\ mode = "up"
    /\ answers' = [answers EXCEPT !.block = node.block]
    /\ poll' = "writing"
    /\ UNCHANGED <<nodeType, node, mode, written, gauges, cached, seen>>

Asking == {"asking_peers", "asking_sync", "asking_block"}

RequestFailsForGood ==
    /\ poll \in Asking
    /\ mode = "failing"
    /\ poll' = "stopped"
    /\ UNCHANGED <<nodeType, node, mode, answers, written, gauges, cached, seen>>

RequestFailsClearsGauges ==
    /\ poll \in Asking
    /\ mode = "failing"
    /\ poll' = "waiting"
    /\ gauges' = NoGauges
    /\ UNCHANGED <<nodeType, node, mode, answers, written, cached, seen>>

\* A failed request ends the poll: the error is logged, nothing else changes.
RequestFails ==
    /\ poll \in Asking
    /\ mode = "failing"
    /\ poll' = "waiting"
    /\ UNCHANGED <<nodeType, node, mode, answers, written, gauges, cached, seen>>

-----------------------------------------------------------------------------
(* update_metrics, one gauge after the other, then the cache.               *)

GaugeOrder == <<"peers", "block", "syncing", "latest", "ready", "healthy">>
AllWritten == poll = "writing" /\ written = Len(GaugeOrder)

SetGauge ==
    /\ poll = "writing"
    /\ written < Len(GaugeOrder)
    /\ LET g == GaugeOrder[written + 1]
       IN  gauges' = [gauges EXCEPT ![g] = Status(answers)[g]]
    /\ written' = written + 1
    /\ UNCHANGED <<nodeType, node, mode, poll, answers, cached, seen>>

StoreStatus ==
    /\ AllWritten
    /\ cached' = Status(answers)
    /\ poll' = "waiting"
    /\ UNCHANGED <<nodeType, node, mode, answers, written, gauges, seen>>

-----------------------------------------------------------------------------
(* The handlers: pure functions of the cache.                              *)

Code(flag) == IF cached = NoStatus THEN 500 ELSE IF cached[flag] THEN 200 ELSE 503
ready_handler == Code("ready")
healthy_handler == Code("healthy")

\* The RPC method status: the whole cached status, or NoStatus, an error.
rpc_status == cached

-----------------------------------------------------------------------------
(* The node.                                                               *)

NodeChanges ==
    /\ node' \in NodeStates \ {node}
    /\ seen' = seen \cup {node'}
    /\ UNCHANGED <<nodeType, mode, poll, answers, written, gauges, cached>>

ModeChanges ==
    /\ mode' \in {"up", "failing", "silent"} \ {mode}
    /\ UNCHANGED <<nodeType, node, poll, answers, written, gauges, cached, seen>>

\* A node that is silent may have dropped the request, and so may the network
\* to it: no answer and no error will ever come.  Otherwise the request waits,
\* and is answered or refused when the node is back.
RequestLost ==
    /\ poll \in Asking
    /\ mode = "silent"
    /\ poll' = "hung"
    /\ UNCHANGED <<nodeType, node, mode, answers, written, gauges, cached, seen>>

-----------------------------------------------------------------------------

Ask == ReadPeers \/ ReadSync \/ ReadPanics \/ ReadBlock \/ RequestFails

status_polling_loop == Tick \/ Ask \/ SetGauge \/ StoreStatus

Next == status_polling_loop \/ NodeChanges \/ ModeChanges \/ RequestLost

\* The polling task runs whenever its request is answered or refused, and one
\* that was not lost is when the node is there.
Fairness == WF_vars(status_polling_loop)

Spec == Init /\ [][Next]_vars
FairSpec == Spec /\ Fairness

-----------------------------------------------------------------------------
(* Properties.                                                             *)

\* The task waits for what will not come, or is gone.
Stuck == {"hung", "panicked"}

\* The variables stay in their types.
TypeOK ==
    /\ nodeType \in NodeTypes
    /\ node \in NodeStates
    /\ mode \in {"up", "failing", "silent"}
    /\ poll \in {"waiting", "writing"} \cup Asking \cup Stuck
    /\ answers \in States
    /\ written \in 0 .. Len(GaugeOrder)
    /\ gauges \in Statuses
    /\ cached \in Statuses \cup {NoStatus}
    /\ seen \subseteq NodeStates

Published == IF cached = NoStatus THEN NoGauges ELSE cached

\* Prometheus and the handlers tell the same story, also after polls that failed
\* half way, hung or panicked.  Only a scrape while a status is written sees a
\* mixture, and then of no more than two statuses: the one to come in the gauges
\* set so far, the one the handlers still answer from in the others.
MetricsMatchCache ==
    IF poll = "writing"
      THEN \A k \in 1 .. Len(GaugeOrder) :
             gauges[GaugeOrder[k]] =
                (IF k <= written THEN Status(answers) ELSE Published)[GaugeOrder[k]]
      ELSE gauges = Published

\* The handlers never answer from anything but the last completed poll, each
\* part of which the node said during that very poll.  The abstract node is
\* the node as babel reads it: what IsSyncing makes of it.
AsRead(n) == [peers |-> n.peers, syncing |-> IsSyncing(n), block |-> n.block, latest |-> Latest(n)]
View == INSTANCE HealthView WITH
    node <- AsRead(node), seen <- {AsRead(n) : n \in seen}, view <- cached
ViewSpec == View!Spec

\* A node that is and stays up, connected and in sync is reported ready, and
\* from then on at every request, over REST as over RPC, whatever it went
\* through before, except a request that was lost or a panic: no failure that
\* is noticed stops the polling.  Ethereum nodes are excepted: see
\* SyncingGaugeTruthful.
NodeReady ==
    nodeType # "ethereum" /\ mode = "up" /\ node.peers > 0 /\ ~node.syncing
SettlesReady ==
    <>[]NodeReady =>
        \/ <>[](ready_handler = 200 /\ rpc_status.ready)
        \/ <>(poll \in Stuck)

\* A node that is and stays up without peers, or up and syncing, ends up
\* reported as not ready, with the same exceptions.  That it is always one or
\* the other is not enough: the two requests of a poll may see the better half
\* of either moment.
SettlesNotReady ==
    \/ <>[](mode = "up" /\ node.peers = 0)
    \/ <>[](mode = "up" /\ node.syncing /\ nodeType # "ethereum")
    => \/ <>[](ready_handler = 503)
       \/ <>(poll \in Stuck)

\* server.rs:71: "Spawn periodic status polling task": when the node is up for
\* good, whatever it went through, the task goes on polling it.
PollsPeriodically == <>[](mode = "up") => []<>(poll = "waiting")

\* metrics.rs:16: "Whether the node is currently syncing (1 = syncing, 0 = not
\* syncing)": the gauge says what the node answered.
SyncingGaugeTruthful ==
    AllWritten => gauges.syncing = answers.syncing

\* metrics.rs:28: "Whether the node is healthy (1 = healthy, 0 = not healthy)":
\* a node that fails every request from some point on stops being healthy, if
\* the task is there to see it.
DeadNodeNotHealthy ==
    <>[](mode = "failing") /\ [](poll \notin Stuck) => <>[](~gauges.healthy /\ healthy_handler # 200)
=============================================================================
