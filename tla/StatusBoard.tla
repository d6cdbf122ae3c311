---------------------------- MODULE StatusBoard ----------------------------
(***************************************************************************)
(* What the deployment watcher promises: each registered deployment has a  *)
(* board with one status per service, and the events of a container show   *)
(* on at most one board, in the order in which they happened and no event  *)
(* twice.  An event may show nowhere.  An address on the board is one the  *)
(* container had when the event happened or later.                         *)
(***************************************************************************)
EXTENDS Naturals, Sequences

CONSTANTS Deployments,   \* names of deployments
          Names,         \* names of services and of containers
          Services,      \* [Deployments -> SUBSET Names]
          Containers,    \* the containers that carry the label bbuilder=true
          StartsWith,    \* [Names -> SUBSET Deployments]: str::starts_with
          ExitCodes,
          NoCode,        \* a death whose exitCode is missing or no number
          Pending,       \* ContainerState::Pending
          Running,       \* ContainerState::Running
          None,          \* no address yet
          Empty          \* the address docker did not give

VARIABLES happened,      \* the events of all containers so far
          applied,       \* the number of the last event that was applied
          registered,    \* the deployments that have a board
          board          \* deployment -> service -> status

boardVars == <<happened, applied, registered, board>>

\* An event is the state it brings its container into.  An exit code is
\* ContainerState::Failed with that code; a death without one counts as 1.
Event == [container : Containers, state : {Running, NoCode} \cup ExitCodes]
StateOf(e) == IF e.state = NoCode THEN 1 ELSE e.state
ServiceStatus == [state : {Pending, Running} \cup ExitCodes,
                  container_ip : {None, Empty} \cup Nat]

\* A container gets a new address each time it starts: the address is the
\* number of that start.
AddressesSince(k) ==
    {j \in k .. Len(happened) : /\ happened[j].container = happened[k].container
                                /\ happened[j].state = Running}

New == [state |-> Pending, container_ip |-> None]

\* The status after event k, whose inspection answered ip.
Shown(status, k, ip) ==
    IF happened[k].state = Running
      THEN [state |-> Running, container_ip |-> ip]
      ELSE [status EXCEPT !.state = StateOf(happened[k])]

Init ==
    /\ happened = <<>>
    /\ applied = 0
    /\ registered = {}
    /\ board = [d \in Deployments |-> [s \in Services[d] |-> New]]

Happen ==
    /\ \E e \in Event : happened' = Append(happened, e)
    /\ UNCHANGED <<applied, registered, board>>

Enter(d) ==
    /\ registered' = registered \cup {d}
    /\ board' = [board EXCEPT ![d] = [s \in Services[d] |-> New]]
    /\ UNCHANGED <<happened, applied>>

ShowOn(d, k, ip) ==
    LET s == happened[k].container IN
    /\ d \in StartsWith[s]
    /\ s \in Services[d]
    /\ board' = [board EXCEPT ![d][s] = Shown(@, k, ip)]

Show(k) ==
    /\ applied' = k
    /\ \/ UNCHANGED board
       \/ \E d \in registered, ip \in {Empty} \cup AddressesSince(k) : ShowOn(d, k, ip)
    /\ UNCHANGED <<happened, registered>>

Next ==
    \/ Happen
    \/ \E d \in Deployments : Enter(d)
    \/ \E k \in applied + 1 .. Len(happened) : Show(k)

Spec == Init /\ [][Next]_boardVars
=============================================================================
