----------------------------- MODULE Babel_proofs -----------------------------
(***************************************************************************)
(* Theorems about Babel, for any set of supported node types and any       *)
(* number of peers and blocks: the types, the agreement of gauges and      *)
(* cache, and that babel implements HealthView.                            *)
(***************************************************************************)
EXTENDS Babel, TLAPS

USE DEF Asking, Stuck

-----------------------------------------------------------------------------
(* Types.                                                                  *)

\* The status made of typed answers is a status.
LEMMA StatusType ==
    ASSUME TypeOK
    PROVE  Status(answers) \in Statuses
<1>1. Latest(answers) \in Blocks
  BY BabelAssumption DEF TypeOK, States, Blocks, Latest
<1> QED
  BY <1>1 DEF TypeOK, States, Statuses, Status, IsSyncing

\* Each gauge is a field of the status, and is set once.
LEMMA Gauges ==
    /\ Len(GaugeOrder) = 6
    /\ \A j, k \in 1 .. 6 : j # k => GaugeOrder[j] # GaugeOrder[k]
    /\ \A k \in 1 .. 6 :
         GaugeOrder[k] \in {"peers", "block", "syncing", "latest", "ready", "healthy"}
  BY DEF GaugeOrder

\* Setting one gauge leaves the others.
LEMMA OneGauge ==
    ASSUME NEW s \in Statuses, NEW t \in Statuses, NEW k \in 1 .. 6,
           NEW r, r = [s EXCEPT ![GaugeOrder[k]] = t[GaugeOrder[k]]]
    PROVE  /\ r \in Statuses
           /\ r[GaugeOrder[k]] = t[GaugeOrder[k]]
           /\ \A j \in 1 .. 6 : j # k => r[GaugeOrder[j]] = s[GaugeOrder[j]]
<1> DEFINE g == GaugeOrder[k]
<1>1. g \in {"peers", "block", "syncing", "latest", "ready", "healthy"}
  BY Gauges
<1>2. g \in DOMAIN s
  BY <1>1 DEF Statuses
<1>3. r \in Statuses
  BY <1>1 DEF Statuses
<1>4. \A j \in 1 .. 6 : j # k => GaugeOrder[j] # g /\ GaugeOrder[j] \in DOMAIN s
  <2>1. DOMAIN s = {"peers", "block", "syncing", "latest", "ready", "healthy"}
    BY DEF Statuses
  <2> QED
    BY <2>1, Gauges
<1> QED
  BY <1>2, <1>3, <1>4

\* The initial states are typed.
LEMMA TypeInit == Init => TypeOK
  BY BabelAssumption, Gauges DEF Init, TypeOK, States, Statuses, Blocks, NoGauges

\* Every step keeps the types.
LEMMA TypeStep ==
    ASSUME TypeOK, [Next]_vars
    PROVE  TypeOK'
<1> USE DEF TypeOK
<1>0. node \in States
  BY BabelAssumption
<1>1. ASSUME Tick PROVE TypeOK'
  BY <1>1 DEF Tick
<1>2. ASSUME ReadPeers PROVE TypeOK'
  BY <1>0, <1>2 DEF ReadPeers, States
<1>3. ASSUME ReadSync PROVE TypeOK'
  <2>1. answers' \in States
    BY <1>0, <1>3 DEF ReadSync, States
  <2>2. poll' \in {"asking_block", "writing"} /\ written' \in 0 .. Len(GaugeOrder)
    BY <1>3, Gauges DEF ReadSync
  <2> QED
    BY <1>3, <2>1, <2>2 DEF ReadSync
<1>4. ASSUME ReadBlock PROVE TypeOK'
  BY <1>0, <1>4 DEF ReadBlock, States
<1>5. ASSUME RequestFails \/ ReadPanics \/ RequestLost PROVE TypeOK'
  BY <1>5 DEF RequestFails, ReadPanics, RequestLost
<1>6. ASSUME SetGauge PROVE TypeOK'
  <2>1. written + 1 \in 1 .. 6 /\ written' \in 0 .. Len(GaugeOrder)
    BY <1>6, Gauges DEF SetGauge
  <2>2. gauges' \in Statuses
    BY <1>6, <2>1, StatusType, OneGauge DEF SetGauge
  <2> QED
    BY <1>6, <2>1, <2>2 DEF SetGauge
<1>7. ASSUME StoreStatus PROVE TypeOK'
  BY <1>7, StatusType DEF StoreStatus
<1>8. ASSUME NodeChanges PROVE TypeOK'
  BY <1>8 DEF NodeChanges
<1>9. ASSUME ModeChanges PROVE TypeOK'
  BY <1>9 DEF ModeChanges
<1>10. ASSUME UNCHANGED vars PROVE TypeOK'
  BY <1>10 DEF vars
<1> QED
  BY <1>1, <1>2, <1>3, <1>4, <1>5, <1>6, <1>7, <1>8, <1>9, <1>10
  DEF Next, status_polling_loop, Ask

\* The variables of babel stay in their types, for any number of peers and blocks.
THEOREM TypeCorrect == Spec => []TypeOK
<1>1. Init => TypeOK
  BY TypeInit
<1>2. TypeOK /\ [Next]_vars => TypeOK'
  BY TypeStep
<1> QED
  BY <1>1, <1>2, PTL DEF Spec

-----------------------------------------------------------------------------
(* Gauges and cache.                                                       *)

\* Two statuses that agree in every gauge are the same.
LEMMA SameStatus ==
    ASSUME NEW s \in Statuses, NEW t \in Statuses,
           \A k \in 1 .. 6 : s[GaugeOrder[k]] = t[GaugeOrder[k]]
    PROVE  s = t
<1>1. /\ s.peers = t.peers /\ s.block = t.block /\ s.syncing = t.syncing
      /\ s.latest = t.latest /\ s.ready = t.ready /\ s.healthy = t.healthy
  BY DEF GaugeOrder
<1> QED
  BY <1>1 DEF Statuses

\* A poll that begins to write finds the gauges as the last one left them.
LEMMA WritingBegins ==
    ASSUME TypeOK, MetricsMatchCache, poll # "writing",
           UNCHANGED <<gauges, cached>>, poll' = "writing" => written' = 0
    PROVE  MetricsMatchCache'
<1>1. \A k \in 1 .. Len(GaugeOrder) : ~(k <= 0)
  BY Gauges
<1> QED
  BY <1>1 DEF MetricsMatchCache, Published

\* The agreement is inductive: each gauge is written from the same answers as
\* the status stored.
LEMMA GaugesStep ==
    ASSUME TypeOK, MetricsMatchCache, [Next]_vars, poll = "asking_block" => written = 0
    PROVE  MetricsMatchCache'
<1>1. ASSUME Tick \/ Ask \/ RequestLost PROVE MetricsMatchCache'
  <2>1. /\ poll # "writing" /\ UNCHANGED <<gauges, cached>>
        /\ poll' = "writing" => written' = 0
    BY <1>1 DEF Tick, Ask, ReadPeers, ReadSync, ReadPanics, ReadBlock, RequestFails, RequestLost
  <2> QED
    BY <2>1, WritingBegins
<1>2. ASSUME SetGauge PROVE MetricsMatchCache'
  <2> DEFINE g == GaugeOrder[written + 1]
             Wanted(k) == (IF k <= written' THEN Status(answers) ELSE Published)[GaugeOrder[k]]
  <2>1. /\ poll = "writing" /\ poll' = "writing" /\ written + 1 \in 1 .. 6 /\ written \in 0 .. 6
        /\ gauges' = [gauges EXCEPT ![g] = Status(answers)[g]]
        /\ written' = written + 1
        /\ UNCHANGED <<nodeType, answers, cached>>
    BY <1>2, Gauges DEF SetGauge, TypeOK
  <2>2. /\ gauges'[g] = Status(answers)[g]
        /\ \A j \in 1 .. 6 : j # written + 1 => gauges'[GaugeOrder[j]] = gauges[GaugeOrder[j]]
    <3> DEFINE k == written + 1
    <3>1. k \in 1 .. 6 /\ gauges \in Statuses /\ Status(answers) \in Statuses
      BY <2>1, StatusType DEF TypeOK
    <3>2. gauges' = [gauges EXCEPT ![GaugeOrder[k]] = Status(answers)[GaugeOrder[k]]]
      BY <2>1
    <3> HIDE DEF k
    <3>3. /\ gauges'[GaugeOrder[k]] = Status(answers)[GaugeOrder[k]]
          /\ \A j \in 1 .. 6 : j # k => gauges'[GaugeOrder[j]] = gauges[GaugeOrder[j]]
      BY <3>1, <3>2, OneGauge
    <3> QED
      BY <3>3 DEF k
  <2>3. Status(answers)' = Status(answers) /\ Published' = Published
    BY <2>1 DEF Status, IsSyncing, Latest, ReportsLatest, Published
  <2>4. ASSUME NEW k \in 1 .. 6 PROVE gauges'[GaugeOrder[k]] = Wanted(k)
    <3>1. CASE k = written + 1
      BY <2>1, <2>2, <3>1
    <3>2. CASE k # written + 1
      <4>1. gauges[GaugeOrder[k]] =
              (IF k <= written THEN Status(answers) ELSE Published)[GaugeOrder[k]]
        BY <2>1, Gauges DEF MetricsMatchCache
      <4>2. k <= written' <=> k <= written
        BY <2>1, <3>2
      <4> QED
        BY <2>2, <3>2, <4>1, <4>2
    <3> QED
      BY <3>1, <3>2
  <2> QED
    BY <2>1, <2>3, <2>4, Gauges DEF MetricsMatchCache
<1>3. ASSUME StoreStatus PROVE MetricsMatchCache'
  <2>1. \A k \in 1 .. 6 : k <= written
    BY <1>3, Gauges DEF StoreStatus, AllWritten
  <2>2. \A k \in 1 .. 6 : gauges[GaugeOrder[k]] = Status(answers)[GaugeOrder[k]]
    BY <1>3, <2>1, Gauges DEF StoreStatus, AllWritten, MetricsMatchCache
  <2>3. gauges = Status(answers)
    BY <2>2, StatusType, SameStatus DEF TypeOK
  <2>4. Status(answers) # NoStatus
    BY StatusType, BabelAssumption
  <2> QED
    BY <1>3, <2>3, <2>4 DEF StoreStatus, MetricsMatchCache, Published
<1>4. ASSUME NodeChanges \/ ModeChanges \/ UNCHANGED vars PROVE MetricsMatchCache'
  <2>1. UNCHANGED <<nodeType, poll, answers, written, gauges, cached>>
    BY <1>4 DEF NodeChanges, ModeChanges, vars
  <2>2. Status(answers)' = Status(answers) /\ Published' = Published
    BY <2>1 DEF Status, IsSyncing, Latest, ReportsLatest, Published
  <2> QED
    BY <2>1, <2>2 DEF MetricsMatchCache
<1> QED
  BY <1>1, <1>2, <1>3, <1>4 DEF Next, status_polling_loop

\* No gauge is set before the answers are complete.
NoneWritten == poll = "asking_block" => written = 0

\* A scrape sees what the handlers answer from, or, while a status is written,
\* that one in the gauges set so far.
THEOREM MetricsAgree == Spec => []MetricsMatchCache
<1>1. Init => MetricsMatchCache /\ NoneWritten
  BY DEF Init, MetricsMatchCache, Published, NoneWritten
<1>2. TypeOK /\ NoneWritten /\ [Next]_vars => NoneWritten'
  BY DEF NoneWritten, Next, status_polling_loop, Tick, Ask, ReadPeers, ReadSync, ReadPanics, ReadBlock,
      RequestFails, SetGauge, StoreStatus, NodeChanges, ModeChanges, RequestLost, vars
<1>3. TypeOK /\ MetricsMatchCache /\ NoneWritten /\ [Next]_vars => MetricsMatchCache'
  BY GaugesStep DEF NoneWritten
<1> QED
  BY <1>1, <1>2, <1>3, TypeCorrect, PTL DEF Spec

-----------------------------------------------------------------------------
(* Refinement.                                                             *)

\* What the polling task has been told so far, the node said during this poll.
AnswersInv ==
    /\ node \in seen
    /\ poll \in {"asking_sync", "asking_block", "writing"} =>
         \E n \in seen : answers.peers = n.peers
    /\ poll \in {"asking_block", "writing"} =>
         /\ \E n \in seen : answers.block = n.block
         /\ \E n \in seen :
              /\ answers.syncing = n.syncing
              /\ ReportsLatest(answers) => answers.block = n.block
    /\ poll = "asking_block" => ~ReportsLatest(answers)

\* AnswersInv holds initially.
LEMMA AnswersInit == Init => AnswersInv
  BY DEF Init, AnswersInv

\* AnswersInv is inductive: an answer is a state of the node since the tick.
LEMMA AnswersStep ==
    ASSUME TypeOK, AnswersInv, [Next]_vars
    PROVE  AnswersInv'
<1> USE DEF AnswersInv, ReportsLatest
<1>0. node \in States
  BY BabelAssumption DEF TypeOK
<1>1. ASSUME Tick PROVE AnswersInv'
  BY <1>1 DEF Tick
<1>2. ASSUME ReadPeers PROVE AnswersInv'
  BY <1>0, <1>2 DEF ReadPeers, TypeOK, States
<1>3. ASSUME ReadSync PROVE AnswersInv'
  <2>1. /\ answers'.peers = answers.peers /\ answers'.syncing = node.syncing
        /\ answers'.block = node.block /\ seen' = seen /\ nodeType' = nodeType
        /\ poll = "asking_sync" /\ poll' \in {"asking_block", "writing"}
        /\ poll' = "asking_block" => ~node.syncing
        /\ node' = node
    BY <1>0, <1>3 DEF ReadSync, TypeOK, States
  <2> QED
    BY <2>1
<1>4. ASSUME ReadBlock PROVE AnswersInv'
  <2>1. /\ answers'.peers = answers.peers /\ answers'.syncing = answers.syncing
        /\ answers'.block = node.block /\ seen' = seen /\ nodeType' = nodeType
        /\ poll = "asking_block" /\ poll' = "writing" /\ node' = node
    BY <1>0, <1>4 DEF ReadBlock, TypeOK, States
  <2> QED
    BY <2>1
<1>5. ASSUME ReadPanics \/ RequestFails \/ RequestLost PROVE AnswersInv'
  BY <1>5 DEF ReadPanics, RequestFails, RequestLost
<1>6. ASSUME SetGauge \/ StoreStatus PROVE AnswersInv'
  BY <1>6 DEF SetGauge, StoreStatus
<1>7. ASSUME NodeChanges PROVE AnswersInv'
  BY <1>7 DEF NodeChanges
<1>8. ASSUME ModeChanges \/ UNCHANGED vars PROVE AnswersInv'
  BY <1>8 DEF ModeChanges, vars
<1> QED
  BY <1>1, <1>2, <1>3, <1>4, <1>5, <1>6, <1>7, <1>8 DEF Next, status_polling_loop, Ask

SeenAsRead == {AsRead(n) : n \in seen}

\* A state of the node as babel reads it is a state of the abstract node.
LEMMA AsReadState ==
    ASSUME NEW n \in States
    PROVE  AsRead(n) \in View!States
<1>1. Latest(n) \in Blocks
  BY BabelAssumption DEF States, Blocks, Latest
<1> QED
  BY <1>1 DEF AsRead, States, View!States, IsSyncing, Blocks

\* The mapping changes only with what it maps.
LEMMA SameReading ==
    ASSUME nodeType' = nodeType
    PROVE  /\ node' = node => AsRead(node)' = AsRead(node)
           /\ seen' = seen => SeenAsRead' = SeenAsRead
  BY DEF SeenAsRead, AsRead, IsSyncing, Latest, ReportsLatest

\* Storing the status publishes it: its parts are what the node was in three of
\* the states seen.
LEMMA StorePublishes ==
    ASSUME TypeOK, AnswersInv, StoreStatus
    PROVE  View!Publish
<1>1. /\ nodeType' = nodeType /\ node' = node /\ seen' = seen /\ cached' = Status(answers)
      /\ poll = "writing"
  BY DEF StoreStatus, AllWritten
<1>2. PICK m \in seen : answers.peers = m.peers
  BY <1>1 DEF AnswersInv
<1>. DEFINE SyncingAsOf(n) == answers.syncing = n.syncing
           BlockAsOf(n) == ReportsLatest(answers) => answers.block = n.block
<1>3. PICK n \in seen : SyncingAsOf(n) /\ BlockAsOf(n)
  BY <1>1, Zenon DEF AnswersInv
<1>4. PICK k \in seen : answers.block = k.block
  BY <1>1 DEF AnswersInv
<1>5. IsSyncing(answers) = IsSyncing(n) /\ Latest(answers) = Latest(n)
  <2>0. answers.syncing = n.syncing
    BY <1>3, Zenon DEF SyncingAsOf
  <2>1. IsSyncing(answers) = IsSyncing(n)
    BY <2>0, Zenon DEF IsSyncing
  <2>2. CASE ReportsLatest(answers)
    <3>1. ReportsLatest(n)
      BY <2>0, <2>2, Zenon DEF ReportsLatest
    <3>2. answers.block = n.block
      BY <1>3, <2>2, Zenon DEF BlockAsOf
    <3> QED
      BY <2>1, <2>2, <3>1, <3>2 DEF Latest
  <2>3. CASE ~ReportsLatest(answers)
    <3>1. ~ReportsLatest(n)
      BY <2>0, <2>3, Zenon DEF ReportsLatest
    <3> QED
      BY <2>1, <2>3, <3>1 DEF Latest
  <2> QED
    BY <2>2, <2>3
<1>6. Status(answers) = View!Report(AsRead(m), AsRead(n), AsRead(k))
  BY <1>2, <1>4, <1>5 DEF Status, View!Report, AsRead
<1>7. \E a, b, c \in SeenAsRead : cached' = View!Report(a, b, c)
  BY <1>1, <1>6 DEF SeenAsRead
<1> QED
  BY <1>1, <1>7, SameReading DEF View!Publish, SeenAsRead

\* A change of the node is a change of what babel would read.
LEMMA ChangeMaps ==
    ASSUME TypeOK, NodeChanges
    PROVE  View!Change
<1>1. nodeType' = nodeType /\ node' \in States /\ seen' = seen \cup {node'} /\ cached' = cached
  BY BabelAssumption DEF NodeChanges
<1>2. AsRead(node)' = AsRead(node') /\ SeenAsRead' = {AsRead(n) : n \in seen'}
  BY <1>1 DEF SeenAsRead, AsRead, IsSyncing, Latest, ReportsLatest
<1>3. AsRead(node)' \in View!States
  BY <1>1, <1>2, AsReadState
<1>4. SeenAsRead' = SeenAsRead \cup {AsRead(node)'}
  BY <1>1, <1>2 DEF SeenAsRead
<1> QED
  BY <1>1, <1>3, <1>4 DEF View!Change, SeenAsRead

\* Every step of babel is a step of HealthView or a stutter.
LEMMA ViewStep ==
    ASSUME TypeOK, AnswersInv, [Next]_vars
    PROVE  [View!Next]_(View!vars)
<1>1. ASSUME Tick PROVE View!Begin
  <2>1. nodeType' = nodeType /\ node' = node /\ seen' = {node} /\ cached' = cached
    BY <1>1 DEF Tick
  <2>2. SeenAsRead' = {AsRead(node)}
    BY <2>1 DEF SeenAsRead, AsRead, IsSyncing, Latest, ReportsLatest
  <2> QED
    BY <2>1, <2>2, SameReading DEF View!Begin, SeenAsRead
<1>2. ASSUME Ask \/ SetGauge \/ ModeChanges \/ RequestLost \/ UNCHANGED vars PROVE UNCHANGED View!vars
  <2>1. nodeType' = nodeType /\ node' = node /\ seen' = seen /\ cached' = cached
    BY <1>2 DEF Ask, ReadPeers, ReadSync, ReadPanics, ReadBlock, RequestFails, SetGauge,
        ModeChanges, RequestLost, vars
  <2> QED
    BY <2>1, SameReading DEF View!vars, SeenAsRead
<1> QED
  BY <1>1, <1>2, StorePublishes, ChangeMaps DEF Next, status_polling_loop, View!Next

\* Babel implements HealthView: what the handlers answer was put together from
\* what the node said during the poll that stored it.
THEOREM Refinement == Spec => ViewSpec
<1>1. Init => View!Init
  <2> SUFFICES ASSUME Init PROVE View!Init
    OBVIOUS
  <2>1. AsRead(node) \in View!States
    BY BabelAssumption, AsReadState DEF Init
  <2>2. SeenAsRead = {AsRead(node)}
    BY DEF Init, SeenAsRead
  <2> QED
    BY <2>1, <2>2 DEF Init, View!Init, SeenAsRead
<1>2. Init => AnswersInv
  BY AnswersInit
<1>3. TypeOK /\ AnswersInv /\ [Next]_vars => AnswersInv'
  BY AnswersStep
<1>4. TypeOK /\ AnswersInv /\ [Next]_vars => [View!Next]_(View!vars)
  BY ViewStep
<1> QED
  BY <1>1, <1>2, <1>3, <1>4, TypeCorrect, PTL DEF Spec, ViewSpec, View!Spec
=============================================================================
