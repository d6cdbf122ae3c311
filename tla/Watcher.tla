------------------------------ MODULE Watcher ------------------------------
(***************************************************************************)
(* The deployment watcher of a DockerRuntime: a task that listens to the   *)
(* events of the labelled containers and inspects each container that      *)
(* started, an unbounded channel, and a task that routes every message to  *)
(* the first registered deployment whose name is a prefix of the           *)
(* container's.  DockerRuntime::run registers its deployment, each time it *)
(* is called; what else it does is in Deployer.                            *)
(*                                                                         *)
(* Both tasks are spawned by DockerRuntime::new and nobody waits for them: *)
(* what happens before the listener is connected is never reported to it.  *)
(* Docker is the sequence of events so far: a container runs when its last *)
(* event is a start.  Events other than start and die are ignored by the   *)
(* listener and left out.                                                  *)
(***************************************************************************)
EXTENDS Naturals, Sequences, FiniteSets

CONSTANTS Deployments, Names, Services, Containers, StartsWith, ExitCodes, NoCode,
          Pending, Running, None, Empty,   \* as in StatusBoard
          MaxEvents,                       \* a bound on the events
          MaxRuns                          \* a bound on the calls of run

ASSUME NamesAssumption ==
    /\ Services \in [Deployments -> SUBSET Names]
    /\ Containers \subseteq Names
    /\ StartsWith \in [Names -> SUBSET Deployments]
    /\ IsFiniteSet(Deployments)
ASSUME StatesAssumption ==
    /\ Running \notin ExitCodes \cup {NoCode} /\ Pending \notin ExitCodes \cup {Running}
    /\ 1 \in ExitCodes
    /\ {None, Empty} \cap Nat = {}
    /\ MaxEvents \in Nat /\ MaxRuns \in Nat

VARIABLES
    history,     \* docker: the events of the labelled containers
    listener,    \* the state of the listening task
    next,        \* the number of the next event of its stream
    inspected,   \* the start event whose container it is inspecting, or 0
    queue,       \* the channel
    handled,     \* the event of the last message handled, or 0
    deployments, \* the keys of the map of deployments
    order,       \* their rank in the map's iteration order
    board,       \* the DeploymentState of each deployment
    runs,        \* so many calls of run have registered
    lost,        \* ghost: events the stream did not deliver
    since        \* ghost: `handled` when the deployment was registered last

watching == <<listener, next, inspected>>
registry == <<deployments, order, board, runs, since>>
vars == <<history, watching, queue, handled, registry, lost>>

Board == INSTANCE StatusBoard
         WITH happened <- history, applied <- handled, registered <- deployments

Message == [event : Nat, container_ip : {None, Empty} \cup Nat]
Ranks == 1 .. Cardinality(Deployments)
Orders == {o \in [Deployments -> Ranks] : \A d, e \in Deployments : o[d] = o[e] => d = e}

\* DeploymentState::new
DeploymentState(d) == [s \in Services[d] |-> Board!New]

Init ==
    /\ history = <<>>
    /\ listener = "connecting"
    /\ next = 1
    /\ inspected = 0
    /\ queue = <<>>
    /\ handled = 0
    /\ deployments = {}
    /\ order \in Orders
    /\ board = [d \in Deployments |-> DeploymentState(d)]
    /\ runs = 0
    /\ lost = {}
    /\ since = [d \in Deployments |-> 0]
-----------------------------------------------------------------------------
(* Docker: a container starts, runs and dies, by docker-compose or by hand. *)

EventsOf(c) == {k \in 1 .. Len(history) : history[k].container = c}
IsLast(k, ks) == k \in ks /\ \A j \in ks : j <= k
RunsSince(c, k) == IsLast(k, EventsOf(c)) /\ history[k].state = Running
IsRunning(c) == \E k \in EventsOf(c) : RunsSince(c, k)

ContainerEvent(c, state) ==
    /\ Len(history) < MaxEvents
    /\ history' = Append(history, [container |-> c, state |-> state])
    /\ UNCHANGED <<watching, queue, handled, registry, lost>>

ContainerStarts(c) == ~IsRunning(c) /\ ContainerEvent(c, Running)
ContainerDies(c) == IsRunning(c) /\ \E code \in ExitCodes \cup {NoCode} : ContainerEvent(c, code)
-----------------------------------------------------------------------------
(* listen_docker_events *)

Connect ==
    /\ listener = "connecting"
    /\ listener' = "listening"
    /\ next' = Len(history) + 1
    /\ lost' = 1 .. Len(history)
    /\ UNCHANGED <<history, inspected, queue, handled, registry>>

\* connect_with_local_defaults fails and the task panics, or the stream ends.
StreamEnds ==
    /\ listener \in {"connecting", "listening"}
    /\ listener' = "ended"
    /\ UNCHANGED <<history, next, inspected, queue, handled, registry, lost>>

\* Mutant: inspections run on their own, the listener goes on reading.
HasNextEager == listener \in {"listening", "inspecting"} /\ next <= Len(history)
HasNext == listener = "listening" /\ next <= Len(history)

ReadStart ==
    /\ HasNext
    /\ history[next].state = Running
    /\ next' = next + 1
    /\ inspected' = next
    /\ listener' = "inspecting"
    /\ UNCHANGED <<history, queue, handled, registry, lost>>

\* The exit code is looked up here, StateOf of StatusBoard; the message is the
\* event's number, by which Handle finds it.
ReadDie ==
    /\ HasNext
    /\ history[next].state # Running
    /\ next' = next + 1
    /\ queue' = Append(queue, [event |-> next, container_ip |-> None])
    /\ UNCHANGED <<history, listener, inspected, handled, registry, lost>>

\* What docker answers: the address if the container runs now.  The request
\* may also fail, as when the container was replaced, and a container may have
\* no network.
Answers(c) == {Empty} \cup {k \in EventsOf(c) : RunsSince(c, k)}

\* Mutant: an inspection without an address is given up with its event.
InspectAnsweredOrGivenUp ==
    /\ listener = "inspecting"
    /\ \E ip \in Answers(history[inspected].container) :
         queue' = IF ip = Empty THEN queue
                  ELSE Append(queue, [event |-> inspected, container_ip |-> ip])
    /\ inspected' = 0
    /\ listener' = "listening"
    /\ UNCHANGED <<history, next, handled, registry, lost>>

InspectAnswered ==
    /\ listener = "inspecting"
    /\ \E ip \in Answers(history[inspected].container) :
         queue' = Append(queue, [event |-> inspected, container_ip |-> ip])
    /\ inspected' = 0
    /\ listener' = "listening"
    /\ UNCHANGED <<history, next, handled, registry, lost>>

\* The stream yields an error in the place of an event; it is only logged.
StreamError ==
    /\ HasNext
    /\ next' = next + 1
    /\ lost' = lost \cup {next}
    /\ UNCHANGED <<history, listener, inspected, queue, handled, registry>>
-----------------------------------------------------------------------------
(* The routing task of DockerRuntime::new, and DockerRuntime::run.          *)

\* The deployment whose name the iteration over the map finds first.
Receives(d, name) ==
    /\ d \in deployments \cap StartsWith[name]
    /\ \A e \in deployments \cap StartsWith[name] : order[d] <= order[e]

\* Mutant: a status is inserted for a container that is no service's.
UpdatedOrInserted(d, k, ip) ==
    LET s == history[k].container
        old == IF s \in Services[d] THEN board[d][s] ELSE Board!New
    IN [t \in Services[d] \cup {s} |->
          IF t = s THEN Board!Shown(old, k, ip) ELSE board[d][t]]

\* handle_container_event: nothing unless a service has the very name of
\* the container.
Updated(d, k, ip) ==
    LET s == history[k].container IN
    IF s \in Services[d] THEN [board[d] EXCEPT ![s] = Board!Shown(@, k, ip)] ELSE board[d]

\* Mutant: a message waits for a deployment to be registered for it.
HandleWaits ==
    /\ queue # <<>>
    /\ LET message == Head(queue) IN
       /\ \E d \in Deployments : Receives(d, history[message.event].container)
       /\ handled' = message.event
       /\ board' = [d \in Deployments |->
                      IF Receives(d, history[message.event].container)
                        THEN Updated(d, message.event, message.container_ip)
                        ELSE board[d]]
    /\ queue' = Tail(queue)
    /\ UNCHANGED <<history, watching, deployments, order, runs, since, lost>>

Handle ==
    /\ queue # <<>>
    /\ LET message == Head(queue) IN
       /\ handled' = message.event
       /\ board' = [d \in Deployments |->
                      IF Receives(d, history[message.event].container)
                        THEN Updated(d, message.event, message.container_ip)
                        ELSE board[d]]
    /\ queue' = Tail(queue)
    /\ UNCHANGED <<history, watching, deployments, order, runs, since, lost>>

\* The insertion may rehash the map, so that any order results.
Register(d) ==
    /\ runs < MaxRuns
    /\ runs' = runs + 1
    /\ deployments' = deployments \cup {d}
    /\ order' \in Orders
    /\ board' = [board EXCEPT ![d] = DeploymentState(d)]
    /\ since' = [since EXCEPT ![d] = handled]
    /\ UNCHANGED <<history, watching, queue, handled, lost>>
-----------------------------------------------------------------------------
Read == ReadStart \/ ReadDie \/ StreamError

Next ==
    \/ \E c \in Containers : ContainerStarts(c) \/ ContainerDies(c)
    \/ Connect \/ Read \/ InspectAnswered \/ StreamEnds
    \/ Handle
    \/ \E d \in Deployments : Register(d)

\* The two tasks are scheduled again and again; the docker client gives up on
\* a request after a time limit, so that an inspection is always answered.
Fairness == WF_vars(Connect) /\ WF_vars(Read) /\ WF_vars(InspectAnswered) /\ WF_vars(Handle)

Spec == Init /\ [][Next]_vars /\ Fairness
-----------------------------------------------------------------------------
\* Every variable has its type: in particular the board of a deployment has
\* one status for each service of its compose file, whatever is routed to it.
TypeOK ==
    /\ history \in Seq(Board!Event)
    /\ listener \in {"connecting", "listening", "inspecting", "ended"}
    /\ next \in Nat /\ inspected \in Nat /\ handled \in Nat /\ runs \in Nat
    /\ queue \in Seq(Message)
    /\ deployments \in SUBSET Deployments
    /\ order \in Orders
    /\ board = [d \in Deployments |-> board[d]]
    /\ \A d \in Deployments : board[d] \in [Services[d] -> Board!ServiceStatus]
    /\ lost \in SUBSET Nat
    /\ since \in [Deployments -> Nat]

\* The watcher keeps the promise of StatusBoard: although the listener awaits
\* an answer of docker between two events and the channel delays them, events
\* are applied in the order they happened, at most once each, on one board,
\* and the address shown is one the container had at the event or later.
BoardSpec == Board!Spec

\* Events of container s that reached the routing task after d was registered.
Delivered(d, s) == {k \in EventsOf(s) : k \notin lost /\ k > since[d]}
Rivals(d, s) == StartsWith[s] \ {d}

\* When the listener has read everything and the channel is empty, a service
\* whose container bears its name shows the last event delivered since the
\* deployment was registered, and is Pending if there was none; provided no
\* other deployment's name is a prefix of the container's, whose board the
\* event may show on instead.  Here an inspection that fails, or a container
\* that is gone when it is inspected, loses nothing.
CaughtUp ==
    listener = "listening" /\ next > Len(history) /\ queue = <<>> =>
      \A d \in deployments : \A s \in Services[d] \cap Containers :
        d \in StartsWith[s] /\ Rivals(d, s) = {} =>
          /\ \A k \in Delivered(d, s) :
               IsLast(k, Delivered(d, s)) => board[d][s].state = Board!StateOf(history[k])
          /\ Delivered(d, s) = {} => board[d][s] = Board!New

Sent(k) == k = inspected \/ \E i \in 1 .. Len(queue) : queue[i].event = k

\* An event that the listener is still to read is handled, or lost by the
\* stream, or the listener ends first; and an event it has read is handled in
\* any case, whether or not some deployment is registered for it, even if the
\* stream ends.
EventsAreHandled ==
    \A k \in 1 .. MaxEvents :
      /\ (listener = "listening" /\ next <= k /\ k <= Len(history))
           ~> (handled >= k \/ k \in lost \/ listener = "ended")
      /\ Sent(k) ~> handled >= k
=============================================================================
