--------------------------- MODULE Watcher_proofs ---------------------------
(***************************************************************************)
(* For any deployments, services, containers and names, any number of      *)
(* events and of runs: the watcher implements StatusBoard.                 *)
(***************************************************************************)
EXTENDS Watcher, FiniteSetTheorems, TLAPS

-----------------------------------------------------------------------------
(* Types.                                                                  *)

\* A board of new statuses is a board.
LEMMA NewStateType ==
  ASSUME NEW d \in Deployments
  PROVE  DeploymentState(d) \in [Services[d] -> Board!ServiceStatus]
  BY DEF DeploymentState, Board!New, Board!ServiceStatus

\* The initial state is well typed.
LEMMA InitType == Init => TypeOK
  <1> SUFFICES ASSUME Init PROVE TypeOK
    OBVIOUS
  <1>1. history \in Seq(Board!Event) /\ queue \in Seq(Message)
    BY DEF Init
  <1>2. board = [d \in Deployments |-> board[d]]
    BY DEF Init
  <1>3. \A d \in Deployments : board[d] \in [Services[d] -> Board!ServiceStatus]
    BY NewStateType DEF Init
  <1> QED  BY <1>1, <1>2, <1>3 DEF Init, TypeOK

\* What shows of an event is a status.
LEMMA ShownType ==
  ASSUME TypeOK, NEW status \in Board!ServiceStatus, NEW k \in 1 .. Len(history),
         NEW ip \in {None, Empty} \cup Nat
  PROVE  Board!Shown(status, k, ip) \in Board!ServiceStatus
  <1>1. history[k].state \in {Running, NoCode} \cup ExitCodes
    <2>1. history[k] \in Board!Event
      BY DEF TypeOK
    <2> QED  BY <2>1 DEF Board!Event
  <1>2. CASE history[k].state = Running
    BY <1>2 DEF Board!Shown, Board!ServiceStatus
  <1>3. CASE history[k].state # Running
    <2>1. Board!StateOf(history[k]) \in ExitCodes
      BY <1>1, <1>3, StatesAssumption DEF Board!StateOf
    <2>2. [status EXCEPT !.state = Board!StateOf(history[k])] \in Board!ServiceStatus
      BY <2>1 DEF Board!ServiceStatus
    <2> QED  BY <1>3, <2>2 DEF Board!Shown
  <1> QED  BY <1>2, <1>3

\* The channel and the listener stay within the events that happened.
QueueTyped ==
    /\ next \in 1 .. Len(history) + 1
    /\ \A i \in 1 .. Len(queue) : queue[i].event \in 1 .. Len(history)
    /\ inspected \in 0 .. Len(history)
    /\ listener = "inspecting" <=> inspected # 0

\* Events are handled, queued, inspected and read in the order they happened.
InOrder ==
    /\ handled < next
    /\ \A i \in 1 .. Len(queue) : handled < queue[i].event /\ queue[i].event < next
    /\ \A i, j \in 1 .. Len(queue) : i < j => queue[i].event < queue[j].event
    /\ inspected # 0 =>
         /\ handled < inspected /\ inspected < next
         /\ history[inspected].state = Running
         /\ \A i \in 1 .. Len(queue) : queue[i].event < inspected

\* The address in a message about a start is one the container had since.
Honest ==
    \A i \in 1 .. Len(queue) :
      history[queue[i].event].state = Running =>
        queue[i].container_ip \in {Empty} \cup Board!AddressesSince(queue[i].event)

IInv == TypeOK /\ QueueTyped /\ InOrder /\ Honest

-----------------------------------------------------------------------------
(* The inductive invariant.                                                *)

\* It holds at the start.
LEMMA InitInv == Init => IInv
  BY InitType DEF Init, IInv, QueueTyped, InOrder, Honest

\* A further event of a container disturbs none of the earlier ones.
LEMMA EventInv ==
  ASSUME IInv, NEW c \in Containers, NEW state \in {Running, NoCode} \cup ExitCodes,
         ContainerEvent(c, state)
  PROVE  IInv'
  <1> DEFINE e == [container |-> c, state |-> state]
  <1>1. e \in Board!Event /\ history \in Seq(Board!Event) /\ history' = Append(history, e)
    BY DEF ContainerEvent, Board!Event, IInv, TypeOK
  <1>2. history' \in Seq(Board!Event) /\ Len(history') = Len(history) + 1 /\ Len(history) \in Nat
    BY <1>1
  <1>3. \A k \in 1 .. Len(history) : history'[k] = history[k]
    BY <1>1
  <1>4. UNCHANGED <<listener, next, inspected, queue, handled, deployments, order, board,
                    runs, since, lost>>
    BY DEF ContainerEvent, watching, registry
  <1>5. TypeOK'
    BY <1>2, <1>4 DEF IInv, TypeOK, Message
  <1>6. QueueTyped'
    BY <1>2, <1>4 DEF IInv, QueueTyped
  <1>7. InOrder'
    BY <1>3, <1>4 DEF IInv, QueueTyped, InOrder
  <1>8. \A k \in 1 .. Len(history) : Board!AddressesSince(k) \subseteq Board!AddressesSince(k)'
    BY <1>2, <1>3 DEF Board!AddressesSince
  <1>9. Honest'
    BY <1>3, <1>4, <1>8 DEF IInv, QueueTyped, Honest
  <1> QED  BY <1>5, <1>6, <1>7, <1>9 DEF IInv

\* Connecting, losing an event and ending leave the channel alone.
LEMMA ListenInv == ASSUME IInv, Connect \/ StreamEnds \/ StreamError \/ ReadStart PROVE IInv'
  <1>1. Len(history) \in Nat /\ history \in Seq(Board!Event)
    BY DEF IInv, TypeOK
  <1>2. UNCHANGED <<history, queue, handled, registry>>
    BY DEF Connect, StreamEnds, StreamError, ReadStart
  <1>3. next' \in next .. Len(history) + 1 /\ inspected' \in {inspected, next}
    BY <1>1 DEF Connect, StreamEnds, StreamError, ReadStart, HasNext, IInv, TypeOK, QueueTyped
  <1>4. TypeOK'
    BY <1>1, <1>2, <1>3 DEF Connect, StreamEnds, StreamError, ReadStart, IInv, TypeOK, registry
  <1>5. QueueTyped'
    BY <1>1, <1>2, <1>3 DEF Connect, StreamEnds, StreamError, ReadStart, HasNext, IInv, TypeOK, QueueTyped
  <1>6. InOrder'
    BY <1>1, <1>2, <1>3 DEF Connect, StreamEnds, StreamError, ReadStart, HasNext, IInv, TypeOK, QueueTyped, InOrder
  <1>7. Honest'
    BY <1>2 DEF IInv, Honest, Board!AddressesSince
  <1> QED  BY <1>4, <1>5, <1>6, <1>7 DEF IInv

\* A message about an event later than all in the channel is put at its end.
LEMMA SendInv ==
  ASSUME IInv, NEW k \in 1 .. Len(history), NEW ip \in {None, Empty} \cup Nat,
         queue' = Append(queue, [event |-> k, container_ip |-> ip]),
         handled < k, \A i \in 1 .. Len(queue) : queue[i].event < k,
         history[k].state = Running => ip \in {Empty} \cup Board!AddressesSince(k),
         UNCHANGED <<history, handled>>
  PROVE  /\ queue' \in Seq(Message)
         /\ \A i \in 1 .. Len(queue') : /\ queue'[i].event \in 1 .. Len(history)
                                        /\ handled < queue'[i].event
                                        /\ queue'[i].event <= k
         /\ \A i, j \in 1 .. Len(queue') : i < j => queue'[i].event < queue'[j].event
         /\ Honest'
  <1> DEFINE msg == [event |-> k, container_ip |-> ip]
  <1>1. k \in Nat /\ msg \in Message
    BY DEF Message, IInv, TypeOK
  <1>2. queue \in Seq(Message) /\ Len(queue) \in Nat
    BY DEF IInv, TypeOK
  <1>3. queue' \in Seq(Message) /\ Len(queue') = Len(queue) + 1
    BY <1>1, <1>2
  <1>4. \A i \in 1 .. Len(queue) : queue'[i] = queue[i]
    BY <1>1, <1>2
  <1>5. queue'[Len(queue) + 1] = msg
    BY <1>1, <1>2
  <1>6. \A i \in 1 .. Len(queue') : i \in 1 .. Len(queue) \/ i = Len(queue) + 1
    BY <1>2, <1>3
  <1>7. \A i \in 1 .. Len(queue) : queue[i].event \in Nat
    <2>1. \A i \in 1 .. Len(queue) : queue[i] \in Message
      BY <1>2
    <2> QED  BY <2>1 DEF Message
  <1>8. \A i, j \in 1 .. Len(queue') : i < j => queue'[i].event < queue'[j].event
    BY <1>2, <1>3, <1>4, <1>5, <1>6, <1>7 DEF IInv, InOrder
  <1>9. Honest'
    BY <1>4, <1>5, <1>6 DEF IInv, Honest, Board!AddressesSince
  <1>10. \A i \in 1 .. Len(queue') : /\ queue'[i].event \in 1 .. Len(history)
                                     /\ handled < queue'[i].event
                                     /\ queue'[i].event <= k
    <2>1. \A i \in 1 .. Len(queue) : /\ queue'[i].event \in 1 .. Len(history)
                                     /\ handled < queue'[i].event
                                     /\ queue'[i].event <= k
      BY <1>1, <1>4, <1>7 DEF IInv, InOrder, QueueTyped
    <2>2. queue'[Len(queue) + 1].event = k
      BY <1>5
    <2> QED  BY <1>1, <1>6, <2>1, <2>2
  <1> QED  BY <1>3, <1>8, <1>9, <1>10

\* The event of a container that died is sent on at once.
LEMMA DieInv == ASSUME IInv, ReadDie PROVE IInv'
  <1>1. Len(history) \in Nat /\ next \in 1 .. Len(history) /\ inspected = 0
    BY DEF ReadDie, HasNext, IInv, TypeOK, QueueTyped
  <1>2. /\ queue' = Append(queue, [event |-> next, container_ip |-> None])
        /\ next' = next + 1 /\ history[next].state # Running
        /\ UNCHANGED <<history, listener, inspected, handled, registry, lost>>
    BY DEF ReadDie
  <1>3. handled < next /\ \A i \in 1 .. Len(queue) : queue[i].event < next
    BY DEF IInv, InOrder
  <1>4. /\ queue' \in Seq(Message)
        /\ \A i \in 1 .. Len(queue') : /\ queue'[i].event \in 1 .. Len(history)
                                       /\ handled < queue'[i].event
                                       /\ queue'[i].event <= next
        /\ \A i, j \in 1 .. Len(queue') : i < j => queue'[i].event < queue'[j].event
        /\ Honest'
    BY <1>1, <1>2, <1>3, SendInv
  <1>5. TypeOK'
    BY <1>1, <1>2, <1>4 DEF IInv, TypeOK, registry
  <1>6. QueueTyped'
    BY <1>1, <1>2, <1>4 DEF IInv, QueueTyped
  <1>7. InOrder'
    BY <1>1, <1>2, <1>3, <1>4 DEF IInv, TypeOK, InOrder
  <1> QED  BY <1>4, <1>5, <1>6, <1>7 DEF IInv

\* What docker answers is an address since the start it is asked about.
LEMMA InspectInv == ASSUME IInv, InspectAnswered PROVE IInv'
  <1>1. /\ Len(history) \in Nat /\ inspected \in 1 .. Len(history)
        /\ history[inspected].state = Running
        /\ handled < inspected /\ inspected < next
        /\ \A i \in 1 .. Len(queue) : queue[i].event < inspected
    BY DEF InspectAnswered, IInv, TypeOK, QueueTyped, InOrder
  <1>2. PICK ip \in Answers(history[inspected].container) :
          queue' = Append(queue, [event |-> inspected, container_ip |-> ip])
    BY DEF InspectAnswered
  <1>3. UNCHANGED <<history, next, handled, registry, lost>> /\ inspected' = 0
        /\ listener' = "listening"
    BY DEF InspectAnswered
  <1>4. ip \in {Empty} \cup Board!AddressesSince(inspected)
    BY <1>1 DEF Answers, RunsSince, IsLast, EventsOf, Board!AddressesSince
  <1>5. ip \in {None, Empty} \cup Nat
    BY <1>1, <1>4 DEF Board!AddressesSince
  <1>6. /\ queue' \in Seq(Message)
        /\ \A i \in 1 .. Len(queue') : /\ queue'[i].event \in 1 .. Len(history)
                                       /\ handled < queue'[i].event
                                       /\ queue'[i].event <= inspected
        /\ \A i, j \in 1 .. Len(queue') : i < j => queue'[i].event < queue'[j].event
        /\ Honest'
    BY <1>1, <1>2, <1>3, <1>4, <1>5, SendInv
  <1>7. TypeOK'
    BY <1>3, <1>6 DEF IInv, TypeOK, registry
  <1>8. QueueTyped'
    BY <1>1, <1>3, <1>6 DEF IInv, QueueTyped
  <1>9. InOrder'
    BY <1>1, <1>3, <1>6 DEF IInv, TypeOK, InOrder
  <1> QED  BY <1>6, <1>7, <1>8, <1>9 DEF IInv

\* The first message is about an event that happened, and carries its address.
LEMMA HeadMessage ==
  ASSUME IInv, queue # <<>>
  PROVE  /\ Head(queue) = queue[1] /\ Head(queue) \in Message
         /\ 1 \in 1 .. Len(queue)
         /\ Head(queue).event \in handled + 1 .. Len(history)
         /\ Head(queue).container_ip \in {None, Empty} \cup Nat
  <1>1. queue \in Seq(Message) /\ handled \in Nat /\ Len(history) \in Nat
    BY DEF IInv, TypeOK
  <1>2. Len(queue) \in Nat /\ 1 \in 1 .. Len(queue) /\ Head(queue) = queue[1] /\ queue[1] \in Message
    BY <1>1
  <1>3. queue[1].event \in 1 .. Len(history) /\ handled < queue[1].event
    BY <1>2 DEF IInv, QueueTyped, InOrder
  <1> QED  BY <1>1, <1>2, <1>3 DEF Message

\* What handle_container_event leaves is a board.
LEMMA UpdatedType ==
  ASSUME TypeOK, NEW d \in Deployments, NEW k \in 1 .. Len(history),
         NEW ip \in {None, Empty} \cup Nat
  PROVE  Updated(d, k, ip) \in [Services[d] -> Board!ServiceStatus]
  <1> DEFINE s == history[k].container
  <1>1. board[d] \in [Services[d] -> Board!ServiceStatus]
    BY DEF TypeOK
  <1>2. CASE s \in Services[d]
    <2>1. Board!Shown(board[d][s], k, ip) \in Board!ServiceStatus
      BY <1>1, <1>2, ShownType
    <2>2. Updated(d, k, ip) = [board[d] EXCEPT ![s] = Board!Shown(board[d][s], k, ip)]
      BY <1>2 DEF Updated
    <2> HIDE DEF s
    <2> QED  BY <1>1, <1>2, <2>1, <2>2
  <1>3. CASE s \notin Services[d]
    BY <1>1, <1>3 DEF Updated
  <1> QED  BY <1>2, <1>3

\* Handling the first message keeps the order of the others.
LEMMA HandleInv == ASSUME IInv, Handle PROVE IInv'
  <1> DEFINE m == Head(queue)
  <1>1. queue # <<>> /\ queue \in Seq(Message) /\ Len(queue) \in Nat
    BY DEF Handle, IInv, TypeOK
  <1>2. /\ m = queue[1] /\ 1 \in 1 .. Len(queue)
        /\ m.event \in handled + 1 .. Len(history)
        /\ m.container_ip \in {None, Empty} \cup Nat
    BY <1>1, HeadMessage
  <1>3. handled' = m.event /\ queue' = Tail(queue)
        /\ UNCHANGED <<history, watching, deployments, order, runs, since, lost>>
    BY DEF Handle
  <1>4. queue' \in Seq(Message) /\ Len(queue') = Len(queue) - 1
        /\ \A i \in 1 .. Len(queue') : i + 1 \in 1 .. Len(queue) /\ queue'[i] = queue[i + 1]
    BY <1>1, <1>3
  <1>5. handled \in Nat /\ Len(history) \in Nat
    BY DEF IInv, TypeOK
  <1>6. m.event \in 1 .. Len(history)
    BY <1>2, <1>5
  <1>7. /\ board' = [d \in Deployments |-> board'[d]]
        /\ \A d \in Deployments : board'[d] \in [Services[d] -> Board!ServiceStatus]
    <2>1. board' = [d \in Deployments |->
                     IF Receives(d, history[m.event].container)
                       THEN Updated(d, m.event, m.container_ip) ELSE board[d]]
      BY DEF Handle
    <2>2. \A d \in Deployments :
            Updated(d, m.event, m.container_ip) \in [Services[d] -> Board!ServiceStatus]
      BY <1>2, <1>6, UpdatedType DEF IInv
    <2>3. \A d \in Deployments : board[d] \in [Services[d] -> Board!ServiceStatus]
      BY DEF IInv, TypeOK
    <2> QED  BY <2>1, <2>2, <2>3
  <1>8. TypeOK'
    BY <1>3, <1>4, <1>6, <1>7 DEF IInv, TypeOK, watching
  <1>9. QueueTyped'
    BY <1>3, <1>4 DEF IInv, QueueTyped, watching
  <1>10. InOrder'
    <2>1. handled' < next'
      BY <1>2, <1>3 DEF IInv, InOrder, watching
    <2>2. \A i \in 1 .. Len(queue') : handled' < queue'[i].event /\ queue'[i].event < next'
      BY <1>1, <1>2, <1>3, <1>4 DEF IInv, InOrder, watching
    <2>3. \A i, j \in 1 .. Len(queue') : i < j => queue'[i].event < queue'[j].event
      BY <1>1, <1>3, <1>4 DEF IInv, InOrder
    <2>4. inspected # 0 => \A i \in 1 .. Len(queue) : queue[i].event < inspected
      BY DEF IInv, InOrder
    <2> QED  BY <1>1, <1>2, <1>3, <1>4, <2>1, <2>2, <2>3, <2>4 DEF IInv, InOrder, watching
  <1>11. Honest'
    BY <1>3, <1>4 DEF IInv, Honest, Board!AddressesSince
  <1> QED  BY <1>8, <1>9, <1>10, <1>11 DEF IInv

\* Registering gives one deployment a new board.
LEMMA RegisterInv == ASSUME IInv, NEW d \in Deployments, Register(d) PROVE IInv'
  <1>1. UNCHANGED <<history, watching, queue, handled, lost>>
    BY DEF Register
  <1>2. board' = [e \in Deployments |-> board'[e]]
        /\ \A e \in Deployments : board'[e] \in [Services[e] -> Board!ServiceStatus]
    <2>1. board' = [board EXCEPT ![d] = DeploymentState(d)]
      BY DEF Register
    <2>2. board = [e \in Deployments |-> board[e]]
          /\ \A e \in Deployments : board[e] \in [Services[e] -> Board!ServiceStatus]
      BY DEF IInv, TypeOK
    <2> QED  BY <2>1, <2>2, NewStateType
  <1>3. runs' \in Nat /\ deployments' \in SUBSET Deployments /\ order' \in Orders
        /\ since' \in [Deployments -> Nat]
    BY DEF Register, IInv, TypeOK
  <1>4. TypeOK'
    BY <1>1, <1>2, <1>3 DEF IInv, TypeOK, watching
  <1> QED  BY <1>1, <1>4 DEF IInv, QueueTyped, InOrder, Honest, watching, Board!AddressesSince

\* Every step keeps the invariant.
LEMMA NextInv == IInv /\ [Next]_vars => IInv'
  <1> SUFFICES ASSUME IInv, [Next]_vars PROVE IInv'
    OBVIOUS
  <1>1. CASE UNCHANGED vars
    BY <1>1 DEF vars, watching, registry, IInv, TypeOK, QueueTyped, InOrder, Honest,
                Board!AddressesSince
  <1>2. ASSUME NEW c \in Containers, ContainerStarts(c) \/ ContainerDies(c) PROVE IInv'
    BY <1>2, EventInv DEF ContainerStarts, ContainerDies
  <1>3. CASE Connect \/ Read \/ StreamEnds
    BY <1>3, ListenInv, DieInv DEF Read
  <1>4. CASE InspectAnswered
    BY <1>4, InspectInv
  <1>5. CASE Handle
    BY <1>5, HandleInv
  <1>6. ASSUME NEW d \in Deployments, Register(d) PROVE IInv'
    BY <1>6, RegisterInv
  <1> QED  BY <1>1, <1>2, <1>3, <1>4, <1>5, <1>6 DEF Next

\* The type invariant, for any deployments, containers and bounds.
THEOREM TypeCorrect == Spec => []TypeOK
  <1>1. Spec => []IInv
    BY InitInv, NextInv, PTL DEF Spec
  <1>2. IInv => TypeOK
    BY DEF IInv
  <1> QED  BY <1>1, <1>2, PTL

-----------------------------------------------------------------------------
(* The watcher implements StatusBoard.                                     *)

\* At most one deployment receives a message.
LEMMA OneReceives ==
  ASSUME TypeOK, NEW name, NEW d \in Deployments, NEW e \in Deployments,
         Receives(d, name), Receives(e, name)
  PROVE  d = e
  <1>1. order \in [Deployments -> Ranks] /\ (order[d] = order[e] => d = e)
    BY DEF TypeOK, Orders
  <1>2. order[d] <= order[e] /\ order[e] <= order[d]
    BY DEF Receives
  <1>3. Cardinality(Deployments) \in Nat
    BY NamesAssumption, FS_CardinalityType
  <1>4. order[d] \in Nat /\ order[e] \in Nat
    BY <1>1, <1>3 DEF Ranks
  <1> QED  BY <1>1, <1>2, <1>4

\* Handling a message is showing its event.
LEMMA HandleShows ==
  ASSUME IInv, Handle
  PROVE  \E k \in handled + 1 .. Len(history) : Board!Show(k)
  <1> DEFINE k == Head(queue).event
             ip == Head(queue).container_ip
             s == history[k].container
  <1>1. k \in handled + 1 .. Len(history)
    BY HeadMessage DEF Handle
  <1>2. handled' = k /\ UNCHANGED <<history, deployments>>
    BY DEF Handle
  <1>3. board' = [d \in Deployments |-> IF Receives(d, s) THEN Updated(d, k, ip) ELSE board[d]]
    BY DEF Handle
  <1>4. board = [d \in Deployments |-> board[d]]
    BY DEF IInv, TypeOK
  <1>5. CASE \E d \in Deployments : Receives(d, s) /\ s \in Services[d]
    <2>1. PICK d \in Deployments : Receives(d, s) /\ s \in Services[d]
      BY <1>5
    <2>2. \A e \in Deployments : Receives(e, s) => e = d
      BY <2>1, OneReceives DEF IInv
    <2>3. d \in deployments /\ d \in StartsWith[s]
      BY <2>1 DEF Receives
    <2>4. PICK jp \in {Empty} \cup Board!AddressesSince(k) :
            Board!Shown(board[d][s], k, ip) = Board!Shown(board[d][s], k, jp)
      <3>1. CASE history[k].state = Running
        <4>1. ip \in {Empty} \cup Board!AddressesSince(k)
          BY <3>1, HeadMessage DEF Handle, IInv, Honest
        <4> QED  BY <4>1
      <3>2. CASE history[k].state # Running
        BY <3>2 DEF Board!Shown
      <3> QED  BY <3>1, <3>2
    <2>5. Updated(d, k, ip) = [board[d] EXCEPT ![s] = Board!Shown(board[d][s], k, jp)]
      BY <2>1, <2>4 DEF Updated
    <2>6. board' = [e \in Deployments |->
                     IF e = d THEN [board[d] EXCEPT ![s] = Board!Shown(board[d][s], k, jp)]
                              ELSE board[e]]
      BY <1>3, <2>1, <2>2, <2>5
    <2>7. board' = [board EXCEPT ![d] = [board[d] EXCEPT ![s] = Board!Shown(board[d][s], k, jp)]]
      BY <1>4, <2>6
    <2>8. Board!ShowOn(d, k, jp)
      BY <2>1, <2>3, <2>7 DEF Board!ShowOn
    <2> QED  BY <1>1, <1>2, <2>3, <2>8 DEF Board!Show
  <1>6. CASE ~ \E d \in Deployments : Receives(d, s) /\ s \in Services[d]
    <2>1. \A d \in Deployments : Receives(d, s) => Updated(d, k, ip) = board[d]
      BY <1>6 DEF Updated
    <2>2. board' = board
      BY <1>3, <1>4, <2>1
    <2> QED  BY <1>1, <1>2, <2>2 DEF Board!Show
  <1> QED  BY <1>5, <1>6

\* Every step is one of StatusBoard, or changes nothing it can see.
LEMMA StepRefines == IInv /\ [Next]_vars => [Board!Next]_Board!boardVars
  <1> SUFFICES ASSUME IInv, [Next]_vars PROVE [Board!Next]_Board!boardVars
    OBVIOUS
  <1>1. CASE UNCHANGED vars
    BY <1>1 DEF vars, registry, Board!boardVars
  <1>2. ASSUME NEW c \in Containers, ContainerStarts(c) \/ ContainerDies(c) PROVE Board!Happen
    <2>1. PICK state \in {Running, NoCode} \cup ExitCodes : ContainerEvent(c, state)
      BY <1>2 DEF ContainerStarts, ContainerDies
    <2>2. [container |-> c, state |-> state] \in Board!Event
      BY DEF Board!Event
    <2> QED  BY <2>1, <2>2 DEF ContainerEvent, registry, Board!Happen
  <1>3. CASE Connect \/ Read \/ StreamEnds \/ InspectAnswered
    BY <1>3 DEF Connect, Read, ReadStart, ReadDie, StreamError, StreamEnds, InspectAnswered,
                registry, Board!boardVars
  <1>4. CASE Handle
    BY <1>4, HandleShows DEF Board!Next
  <1>5. ASSUME NEW d \in Deployments, Register(d) PROVE Board!Enter(d)
    BY <1>5 DEF Register, DeploymentState, Board!Enter
  <1> QED  BY <1>1, <1>2, <1>3, <1>4, <1>5 DEF Next, Board!Next

\* The watcher implements StatusBoard: however long docker takes to answer and
\* whatever the map's order is, events show in order, at most once, on at most
\* one board, with an address the container had.
THEOREM Refinement == Spec => BoardSpec
  <1>1. Init => Board!Init
    BY DEF Init, DeploymentState, Board!Init
  <1>2. Spec => []IInv
    BY InitInv, NextInv, PTL DEF Spec
  <1> QED  BY <1>1, <1>2, StepRefines, PTL DEF Spec, BoardSpec, Board!Spec

-----------------------------------------------------------------------------
(* Nothing that was delivered is missing from the boards.                   *)

\* An event that was read and is not yet handled is on its way, or was lost;
\* what is on its way was not lost.
OnItsWay ==
    /\ \A k \in handled + 1 .. next - 1 : k \in lost \/ Sent(k)
    /\ \A k \in lost : k \in 1 .. next - 1 /\ ~Sent(k)
    /\ listener = "connecting" => handled = 0 /\ queue = <<>>
    /\ \A d \in Deployments : since[d] <= handled

\* The delivered events that have been handled.
Through(d, s) == {k \in Delivered(d, s) : k <= handled}

Shows(d, s) ==
    /\ \A k \in Through(d, s) :
         IsLast(k, Through(d, s)) => board[d][s].state = Board!StateOf(history[k])
    /\ Through(d, s) = {} => board[d][s] = Board!New

Alone(d, s) == s \in Services[d] \cap Containers /\ d \in StartsWith[s] /\ Rivals(d, s) = {}

UpToDate == \A d \in deployments, s \in Names : Alone(d, s) => Shows(d, s)

CInv == IInv /\ OnItsWay /\ UpToDate

\* It holds at the start.
LEMMA InitCaught == Init => CInv
  <1> SUFFICES ASSUME Init PROVE CInv
    OBVIOUS
  <1>1. OnItsWay
    BY DEF Init, OnItsWay, Sent
  <1>2. UpToDate
    BY DEF Init, UpToDate
  <1> QED  BY <1>1, <1>2, InitInv DEF CInv

\* Steps that handle nothing and register nothing leave what is through.
LEMMA SameThrough ==
  ASSUME CInv, UNCHANGED <<handled, deployments, board, since>>,
         \A k \in 1 .. handled : /\ k \in lost' <=> k \in lost
                                 /\ k \in 1 .. Len(history) <=> k \in 1 .. Len(history')
                                 /\ k \in 1 .. Len(history) => history'[k] = history[k],
         since \in [Deployments -> Nat], Len(history) \in Nat, Len(history') \in Nat
  PROVE  UpToDate'
  <1> SUFFICES ASSUME NEW d \in deployments, NEW s \in Names, Alone(d, s)
               PROVE  Shows(d, s)'
    BY DEF UpToDate, Alone, Rivals
  <1>1. Through(d, s)' = Through(d, s)
    BY DEF Through, Delivered, EventsOf
  <1>2. \A k \in Through(d, s) : history'[k] = history[k]
    BY DEF Through, Delivered, EventsOf
  <1> QED  BY <1>1, <1>2 DEF CInv, UpToDate, Shows, IsLast

\* Docker and the listener: what they change is not yet handled.
LEMMA ListenCaught ==
  ASSUME CInv,
         \/ \E c \in Containers : ContainerStarts(c) \/ ContainerDies(c)
         \/ Connect \/ Read \/ StreamEnds \/ InspectAnswered
  PROVE  OnItsWay' /\ UpToDate'
  <1>1. Len(history) \in Nat /\ handled \in Nat /\ next \in Nat /\ next <= Len(history) + 1
        /\ handled < next /\ queue \in Seq(Message) /\ history \in Seq(Board!Event)
        /\ since \in [Deployments -> Nat]
    BY DEF CInv, IInv, TypeOK, QueueTyped, InOrder
  <1>2. CASE \E c \in Containers : ContainerStarts(c) \/ ContainerDies(c)
    <2>1. PICK c \in Containers, state \in {Running, NoCode} \cup ExitCodes : ContainerEvent(c, state)
      BY <1>2 DEF ContainerStarts, ContainerDies
    <2>2. UNCHANGED <<watching, queue, handled, registry, lost>>
          /\ history' = Append(history, [container |-> c, state |-> state])
      BY <2>1 DEF ContainerEvent
    <2>3. Len(history') = Len(history) + 1 /\ \A k \in 1 .. Len(history) : history'[k] = history[k]
      BY <1>1, <2>2
    <2>4. OnItsWay'
      BY <2>2 DEF CInv, OnItsWay, Sent, watching, registry
    <2>5. UpToDate'
      BY <1>1, <2>2, <2>3, SameThrough DEF registry
    <2> QED  BY <2>4, <2>5
  <1>3. CASE Connect
    <2>1. handled = 0 /\ queue = <<>> /\ inspected = 0
      BY <1>3 DEF Connect, CInv, OnItsWay, IInv, QueueTyped
    <2>2. OnItsWay'
      BY <1>1, <1>3, <2>1 DEF Connect, CInv, OnItsWay, Sent, registry
    <2>3. UpToDate'
      BY <1>1, <1>3, <2>1, SameThrough DEF Connect, registry
    <2> QED  BY <2>2, <2>3
  <1>4. CASE StreamEnds
    <2>1. OnItsWay'
      BY <1>4 DEF StreamEnds, CInv, OnItsWay, Sent, registry
    <2>2. UpToDate'
      BY <1>1, <1>4, SameThrough DEF StreamEnds, registry
    <2> QED  BY <2>1, <2>2
  <1>5. CASE StreamError
    <2>1. \A k : Sent(k) => k < next
      BY <1>5 DEF StreamError, HasNext, CInv, IInv, QueueTyped, InOrder, Sent
    <2>2. /\ next' = next + 1 /\ lost' = lost \cup {next} /\ listener # "connecting"
          /\ UNCHANGED <<history, listener, inspected, queue, handled, registry>>
      BY <1>5 DEF StreamError, HasNext
    <2>3. \A k : Sent(k)' <=> Sent(k)
      BY <2>2 DEF Sent
    <2>4. ~Sent(next)
      BY <1>1, <2>1
    <2>5. OnItsWay'
      BY <1>1, <2>2, <2>3, <2>4 DEF CInv, OnItsWay, registry
    <2>6. UpToDate'
      BY <1>1, <2>2, SameThrough DEF registry
    <2> QED  BY <2>5, <2>6
  <1>6. CASE ReadStart
    <2>1. inspected = 0 /\ next \notin lost /\ inspected' = next /\ next' = next + 1
          /\ UNCHANGED <<history, queue, handled, registry, lost>>
          /\ listener' = "inspecting"
      BY <1>1, <1>6 DEF ReadStart, HasNext, CInv, IInv, QueueTyped, OnItsWay
    <2>2. \A k : Sent(k)' <=> k = next \/ \E i \in 1 .. Len(queue) : queue[i].event = k
      BY <2>1 DEF Sent
    <2>3. \A k : k # 0 /\ Sent(k) => Sent(k)'
      BY <2>1, <2>2 DEF Sent
    <2>4. \A k \in lost : ~Sent(k)'
      BY <2>1, <2>2 DEF CInv, OnItsWay, Sent
    <2>5. OnItsWay'
      BY <1>1, <2>1, <2>2, <2>3, <2>4 DEF CInv, OnItsWay, registry
    <2>6. UpToDate'
      BY <1>1, <2>1, SameThrough DEF registry
    <2> QED  BY <2>5, <2>6
  <1>7. CASE ReadDie
    <2>1. next \notin lost /\ next' = next + 1 /\ listener' = "listening"
          /\ queue' = Append(queue, [event |-> next, container_ip |-> None])
          /\ UNCHANGED <<history, inspected, handled, registry, lost>>
      BY <1>1, <1>7 DEF ReadDie, HasNext, CInv, OnItsWay
    <2>2. \A k : Sent(k)' <=> Sent(k) \/ k = next
      <3> DEFINE msg == [event |-> next, container_ip |-> None]
      <3>1. msg \in Message
        BY <1>1 DEF Message
      <3>2. Len(queue') = Len(queue) + 1 /\ queue'[Len(queue) + 1] = msg
            /\ \A i \in 1 .. Len(queue) : queue'[i] = queue[i]
        BY <1>1, <2>1, <3>1
      <3>3. \A i : i \in 1 .. Len(queue') <=> i \in 1 .. Len(queue) \/ i = Len(queue) + 1
        BY <1>1, <3>2
      <3> QED  BY <2>1, <3>2, <3>3 DEF Sent
    <2>3. OnItsWay'
      BY <1>1, <2>1, <2>2 DEF CInv, OnItsWay, registry
    <2>4. UpToDate'
      BY <1>1, <2>1, SameThrough DEF registry
    <2> QED  BY <2>3, <2>4
  <1>8. CASE InspectAnswered
    <2>1. PICK ip \in Answers(history[inspected].container) :
            queue' = Append(queue, [event |-> inspected, container_ip |-> ip])
      BY <1>8 DEF InspectAnswered
    <2>2. inspected' = 0 /\ listener' = "listening" /\ inspected \in Nat
          /\ UNCHANGED <<history, next, handled, registry, lost>>
      BY <1>8 DEF InspectAnswered, CInv, IInv, TypeOK
    <2>3. \A k : k # 0 => (Sent(k)' <=> Sent(k))
      <3> DEFINE msg == [event |-> inspected, container_ip |-> ip]
      <3>1. msg \in Message
        BY <1>1, <2>2 DEF Message, Answers, EventsOf
      <3>2. Len(queue') = Len(queue) + 1 /\ queue'[Len(queue) + 1] = msg
            /\ \A i \in 1 .. Len(queue) : queue'[i] = queue[i]
        BY <1>1, <2>1, <3>1
      <3>3. \A i : i \in 1 .. Len(queue') <=> i \in 1 .. Len(queue) \/ i = Len(queue) + 1
        BY <1>1, <3>2
      <3> QED  BY <2>2, <3>2, <3>3 DEF Sent
    <2>4. OnItsWay'
      BY <1>1, <2>2, <2>3 DEF CInv, OnItsWay, registry
    <2>5. UpToDate'
      BY <1>1, <2>2, SameThrough DEF registry
    <2> QED  BY <2>4, <2>5
  <1> QED  BY <1>2, <1>3, <1>4, <1>5, <1>6, <1>7, <1>8 DEF Read

\* Registering starts a board on which nothing is through yet.
LEMMA RegisterCaught ==
  ASSUME CInv, NEW e \in Deployments, Register(e) PROVE OnItsWay' /\ UpToDate'
  <1>1. /\ UNCHANGED <<history, watching, queue, handled, lost>>
        /\ deployments' = deployments \cup {e}
        /\ board' = [board EXCEPT ![e] = DeploymentState(e)]
        /\ since' = [since EXCEPT ![e] = handled]
    BY DEF Register
  <1>2. handled \in Nat /\ since \in [Deployments -> Nat]
        /\ board = [d \in Deployments |-> board[d]] /\ deployments \subseteq Deployments
        /\ Len(history) \in Nat
    BY DEF CInv, IInv, TypeOK
  <1>3. OnItsWay'
    <2>1. \A k : Sent(k)' <=> Sent(k)
      BY <1>1 DEF Sent, watching
    <2>2. \A d \in Deployments : since'[d] <= handled
      BY <1>1, <1>2 DEF CInv, OnItsWay
    <2> QED  BY <1>1, <2>1, <2>2 DEF CInv, OnItsWay, watching
  <1>4. UpToDate'
    <2> SUFFICES ASSUME NEW d \in deployments', NEW s \in Names, Alone(d, s) PROVE Shows(d, s)'
      BY DEF UpToDate, Alone, Rivals
    <2>1. CASE d = e
      <3>1. Through(d, s)' = {}
        BY <1>1, <1>2, <2>1 DEF Through, Delivered, EventsOf
      <3>2. board'[d][s] = Board!New
        BY <1>1, <1>2, <2>1 DEF DeploymentState, Alone
      <3> QED  BY <3>1, <3>2 DEF Shows, Board!New
    <2>2. CASE d # e
      <3>1. d \in deployments /\ board'[d] = board[d] /\ since'[d] = since[d]
        BY <1>1, <1>2, <2>2
      <3>2. Through(d, s)' = Through(d, s)
        BY <1>1, <3>1 DEF Through, Delivered, EventsOf
      <3>3. Shows(d, s)
        BY <3>1 DEF CInv, UpToDate
      <3> QED  BY <1>1, <3>1, <3>2, <3>3 DEF Shows, IsLast, Board!New
    <2> QED  BY <2>1, <2>2
  <1> QED  BY <1>3, <1>4

\* Between the last event handled and the one of the first message everything
\* was lost: what the message shows is the last that is through.
LEMMA HandleCaught == ASSUME CInv, Handle PROVE OnItsWay' /\ UpToDate'
  <1> DEFINE k == Head(queue).event
             ip == Head(queue).container_ip
             c == history[k].container
  <1>1. /\ k \in handled + 1 .. Len(history) /\ Head(queue) = queue[1]
        /\ 1 \in 1 .. Len(queue)
    BY HeadMessage DEF Handle, CInv
  <1>2. /\ handled' = k /\ queue' = Tail(queue)
        /\ UNCHANGED <<history, watching, deployments, order, runs, since, lost>>
        /\ board' = [d \in Deployments |->
                       IF Receives(d, c) THEN Updated(d, k, ip) ELSE board[d]]
    BY DEF Handle
  <1>3. /\ handled \in Nat /\ since \in [Deployments -> Nat] /\ Len(history) \in Nat
        /\ next \in Nat /\ deployments \subseteq Deployments
        /\ queue \in Seq(Message) /\ Len(queue) \in Nat /\ queue # <<>>
        /\ \A d \in Deployments : board[d] \in [Services[d] -> Board!ServiceStatus]
        /\ history \in Seq(Board!Event)
    BY DEF Handle, CInv, IInv, TypeOK
  <1>4. /\ Len(queue') = Len(queue) - 1
        /\ \A i \in 1 .. Len(queue') : i + 1 \in 1 .. Len(queue) /\ queue'[i] = queue[i + 1]
    BY <1>2, <1>3
  <1>5. k \notin lost /\ k < next /\ Sent(k)
    BY <1>1 DEF CInv, IInv, InOrder, OnItsWay, Sent
  <1>6. \A j : Sent(j)' => Sent(j)
    BY <1>2, <1>4 DEF Sent, watching
  <1>7. \A j : Sent(j) => j = k \/ Sent(j)'
    <2>1. \A i \in 2 .. Len(queue) : i - 1 \in 1 .. Len(queue') /\ queue'[i - 1] = queue[i]
      BY <1>3, <1>4
    <2>2. \A i \in 1 .. Len(queue) : i = 1 \/ i \in 2 .. Len(queue)
      BY <1>3
    <2> QED  BY <1>1, <1>2, <2>1, <2>2 DEF Sent, watching
  <1>8. \A j \in handled + 1 .. k - 1 : j \in lost
    <2> SUFFICES ASSUME NEW j \in handled + 1 .. k - 1, Sent(j) PROVE FALSE
      BY <1>1, <1>3, <1>5 DEF CInv, OnItsWay
    <2>1. \A i \in 1 .. Len(queue) : k <= queue[i].event
      BY <1>1, <1>3 DEF CInv, IInv, InOrder, QueueTyped
    <2>2. inspected # 0 => k < inspected
      BY <1>1 DEF CInv, IInv, InOrder
    <2>3. CASE j = inspected
      BY <1>1, <1>3, <2>2, <2>3
    <2>4. ASSUME NEW i \in 1 .. Len(queue), queue[i].event = j PROVE FALSE
      BY <1>1, <1>3, <2>1, <2>4
    <2> QED  BY <2>3, <2>4 DEF Sent
  <1>9. OnItsWay'
    <2>1. \A j \in handled' + 1 .. next' - 1 : j \in lost' \/ Sent(j)'
      BY <1>1, <1>2, <1>3, <1>7 DEF CInv, OnItsWay, watching
    <2>2. \A j \in lost' : j \in 1 .. next' - 1 /\ ~Sent(j)'
      BY <1>2, <1>6 DEF CInv, OnItsWay, watching
    <2>3. listener' # "connecting"
      BY <1>2, <1>3 DEF CInv, OnItsWay, watching
    <2>4. \A d \in Deployments : since'[d] <= handled'
      BY <1>1, <1>2, <1>3 DEF CInv, OnItsWay
    <2> QED  BY <2>1, <2>2, <2>3, <2>4 DEF OnItsWay
  <1>10. UpToDate'
    <2> SUFFICES ASSUME NEW d \in deployments, NEW s \in Names, Alone(d, s) PROVE Shows(d, s)'
      BY <1>2 DEF UpToDate, Alone, Rivals
    <2>1. d \in Deployments /\ since[d] <= handled /\ s \in Services[d]
      BY <1>3 DEF CInv, OnItsWay, Alone
    <2>2. CASE c = s
      <3>1. Receives(d, s)
        <4>1. \A e \in deployments \cap StartsWith[s] : e = d
          BY DEF Alone, Rivals
        <4>2. order[d] \in Nat
          <5>1. Cardinality(Deployments) \in Nat
            BY NamesAssumption, FS_CardinalityType
          <5> QED  BY <2>1, <5>1 DEF CInv, IInv, TypeOK, Orders, Ranks
        <4> QED  BY <4>1, <4>2 DEF Receives, Alone
      <3>2. board'[d] = [board[d] EXCEPT ![s] = Board!Shown(board[d][s], k, ip)]
        BY <1>2, <2>1, <2>2, <3>1 DEF Updated
      <3>3. board'[d][s] = Board!Shown(board[d][s], k, ip)
        BY <1>3, <2>1, <3>2
      <3>4. Board!Shown(board[d][s], k, ip).state = Board!StateOf(history[k])
        <4>1. CASE history[k].state = Running
          BY <4>1, StatesAssumption DEF Board!Shown, Board!StateOf
        <4>2. CASE history[k].state # Running
          <5>1. board[d][s] \in Board!ServiceStatus
            BY <1>3, <2>1
          <5>2. [board[d][s] EXCEPT !.state = Board!StateOf(history[k])].state = Board!StateOf(history[k])
            BY <5>1 DEF Board!ServiceStatus
          <5> QED  BY <4>2, <5>2 DEF Board!Shown
        <4> QED  BY <4>1, <4>2
      <3>5. k \in Through(d, s)'
        BY <1>1, <1>2, <1>3, <1>5, <2>1, <2>2 DEF Through, Delivered, EventsOf
      <3>6. \A j \in Through(d, s)' : j \in Nat /\ j <= k
        BY <1>2, <1>3 DEF Through, Delivered, EventsOf
      <3>7. \A j \in Through(d, s)' : IsLast(j, Through(d, s)') => j = k
        BY <1>1, <1>3, <3>5, <3>6 DEF IsLast
      <3> QED  BY <1>2, <3>3, <3>4, <3>5, <3>7 DEF Shows, IsLast
    <2>3. CASE c # s
      <3>1. board'[d][s] = board[d][s]
        BY <1>2, <1>3, <2>1, <2>3 DEF Updated
      <3>2. Through(d, s)' = Through(d, s)
        <4>1. \A j \in 1 .. Len(history) : j <= k => j <= handled \/ j = k \/ j \in lost
          BY <1>1, <1>3, <1>8
        <4> QED  BY <1>1, <1>2, <1>3, <2>3, <4>1 DEF Through, Delivered, EventsOf
      <3>3. Shows(d, s)
        BY DEF CInv, UpToDate
      <3> QED  BY <1>2, <3>1, <3>2, <3>3 DEF Shows, IsLast, Board!New
    <2> QED  BY <2>2, <2>3
  <1> QED  BY <1>9, <1>10

\* Every step keeps the boards up to date.
LEMMA NextCaught == CInv /\ [Next]_vars => CInv'
  <1> SUFFICES ASSUME CInv, [Next]_vars PROVE OnItsWay' /\ UpToDate'
    BY NextInv DEF CInv
  <1>1. CASE UNCHANGED vars
    <2>1. OnItsWay'
      BY <1>1 DEF vars, watching, registry, CInv, OnItsWay, Sent
    <2>2. Len(history) \in Nat /\ since \in [Deployments -> Nat]
      BY DEF CInv, IInv, TypeOK
    <2>3. UpToDate'
      BY <1>1, <2>2, SameThrough DEF vars, registry
    <2> QED  BY <2>1, <2>3
  <1>2. CASE Next
    BY <1>2, ListenCaught, HandleCaught, RegisterCaught DEF Next
  <1> QED  BY <1>1, <1>2

\* When the listener and the channel have nothing left, every service whose
\* container bears its name, and no rival deployment's, shows the last event
\* delivered since its deployment was registered: for any number of
\* deployments, containers, events and runs.
THEOREM BoardsCatchUp == Spec => []CaughtUp
  <1>1. Spec => []CInv
    BY InitCaught, NextCaught, PTL DEF Spec
  <1>2. CInv => CaughtUp
    <2> SUFFICES ASSUME CInv, listener = "listening", next > Len(history), queue = <<>>,
                        NEW d \in deployments, NEW s \in Services[d] \cap Containers,
                        d \in StartsWith[s], Rivals(d, s) = {}
                 PROVE  /\ \A k \in Delivered(d, s) :
                             IsLast(k, Delivered(d, s)) => board[d][s].state = Board!StateOf(history[k])
                        /\ Delivered(d, s) = {} => board[d][s] = Board!New
      BY DEF CaughtUp
    <2>1. inspected = 0 /\ Len(history) \in Nat /\ handled \in Nat /\ next \in Nat
          /\ since \in [Deployments -> Nat] /\ d \in Deployments
      BY DEF CInv, IInv, TypeOK, QueueTyped
    <2>2. \A k \in 1 .. Len(history) : k <= handled \/ k \in lost
      BY <2>1 DEF CInv, OnItsWay, Sent
    <2>3. Through(d, s) = Delivered(d, s)
      BY <2>2 DEF Through, Delivered, EventsOf
    <2>4. s \in Names
      BY NamesAssumption
    <2>5. Shows(d, s)
      BY <2>4 DEF CInv, UpToDate, Alone
    <2> QED  BY <2>3, <2>5 DEF Shows
  <1> QED  BY <1>1, <1>2, PTL
=============================================================================
