----------------------- MODULE ReservedPorts_proofs -----------------------
(***************************************************************************)
(* For any number of tasks and of calls, any range of ports and any        *)
(* behaviour of the host: reserve_port never grants a port twice, never    *)
(* passes over a usable one, and implements the atomic PortPool.           *)
(***************************************************************************)
EXTENDS ReservedPorts, TLAPS

USE DEF Ports

-----------------------------------------------------------------------------
(* Types.                                                                  *)

\* The initial state is well typed.
LEMMA InitType == Init => TypeOK
  <1> SUFFICES ASSUME Init PROVE TypeOK
    OBVIOUS
  <1>1. poisoned \in BOOLEAN /\ checked \in BOOLEAN
    BY BuildAssumption DEF Init
  <1>2. grants \in [Ports -> Nat] /\ calls \in [Callers -> 0 .. MaxCalls]
    BY BoundsAssumption DEF Init
  <1>3. preferred \in [Callers -> Ports] /\ cursor \in [Callers -> Ports]
    BY PortsAssumption DEF Init
  <1> QED  BY <1>1, <1>2, <1>3 DEF Init, TypeOK

\* The increment stays within the range of ports.
LEMMA StepUpType ==
  ASSUME TypeOK, NEW c \in Callers, StepUp(c)
  PROVE  cursor' \in [Callers -> Ports]
  <1>1. cursor[c] \in 0 .. MaxPort /\ cursor[c] < MaxPort
    BY DEF TypeOK, StepUp, Ports
  <1>2. cursor[c] + 1 \in Ports
    BY <1>1, PortsAssumption, SMTT(30) DEF Ports
  <1> QED  BY <1>2 DEF TypeOK, StepUp

\* Every iteration of the probing loop keeps the types.
LEMMA IterateType == ASSUME TypeOK, NEW c \in Callers, Iterate(c) PROVE TypeOK'
  <1> USE PortsAssumption
  <1>1. CASE SkipReserved(c)
    <2>1. CASE StepUp(c)
      BY <1>1, <2>1, StepUpType DEF SkipReserved, StepUp, TypeOK
    <2>2. CASE WrapAround(c)
      BY <1>1, <2>2 DEF SkipReserved, WrapAround, TypeOK
    <2>3. CASE OverflowPanic(c)
      BY <1>1, <2>3 DEF SkipReserved, OverflowPanic, TypeOK
    <2> QED  BY <1>1, <2>1, <2>2, <2>3 DEF SkipReserved, NextPort
  <1>2. CASE ProbeFails(c)
    <2>1. CASE StepUp(c)
      BY <1>2, <2>1, StepUpType DEF ProbeFails, StepUp, TypeOK
    <2>2. CASE WrapAround(c)
      BY <1>2, <2>2 DEF ProbeFails, WrapAround, TypeOK
    <2>3. CASE OverflowPanic(c)
      BY <1>2, <2>3 DEF ProbeFails, OverflowPanic, TypeOK
    <2> QED  BY <1>2, <2>1, <2>2, <2>3 DEF ProbeFails, NextPort
  <1>3. CASE Grant(c)
    <2>1. grants[cursor[c]] + 1 \in Nat
      BY DEF TypeOK
    <2>2. grants' \in [Ports -> Nat]
      BY <1>3, <2>1 DEF Grant, TypeOK
    <2>3. reserved' \subseteq Ports /\ answer' \in [Callers -> Ports \cup {NoPort}]
      <3>1. cursor[c] \in Ports
        BY DEF TypeOK
      <3>2. reserved' \subseteq Ports
        BY <1>3, <3>1 DEF Grant, TypeOK
      <3>3. answer' \in [Callers -> Ports \cup {NoPort}]
        BY <1>3, <3>1 DEF Grant, TypeOK
      <3> QED  BY <3>2, <3>3
    <2>4. pc' \in [Callers -> {"idle", "waiting", "probing", "panicked"}]
      BY <1>3 DEF Grant, TypeOK
    <2>5. holder' \in Callers \cup {NoCaller} /\ UNCHANGED <<checked, poisoned, preferred, cursor, busy, calls>>
      BY <1>3 DEF Grant
    <2> QED  BY <2>2, <2>3, <2>4, <2>5 DEF TypeOK
  <1> QED  BY <1>1, <1>2, <1>3 DEF Iterate

\* So does every other step.
LEMMA NextType == TypeOK /\ [Next]_vars => TypeOK'
  <1> SUFFICES ASSUME TypeOK, [Next]_vars PROVE TypeOK'
    OBVIOUS
  <1>1. CASE UNCHANGED vars
    BY <1>1 DEF vars, callVars, TypeOK
  <1>2. ASSUME NEW c \in Callers, NEW p \in Ports, Call(c, p) PROVE TypeOK'
    <2>1. calls' \in [Callers -> 0 .. MaxCalls]
      <3>1. calls[c] \in 0 .. MaxCalls /\ calls[c] < MaxCalls
        BY <1>2 DEF Call, TypeOK
      <3>2. calls[c] + 1 \in 0 .. MaxCalls
        BY <3>1, BoundsAssumption, SMTT(30)
      <3> QED  BY <1>2, <3>2 DEF Call, TypeOK
    <2>2. /\ pc' \in [Callers -> {"idle", "waiting", "probing", "panicked"}]
          /\ preferred' \in [Callers -> Ports]
          /\ answer' \in [Callers -> Ports \cup {NoPort}]
      BY <1>2 DEF Call, TypeOK
    <2> QED  BY <1>2, <2>1, <2>2 DEF Call, TypeOK
  <1>3. ASSUME NEW c \in Callers, Lock(c) PROVE TypeOK'
    BY <1>3 DEF Lock, TypeOK
  <1>4. ASSUME NEW c \in Callers, LockPoisoned(c) PROVE TypeOK'
    BY <1>4 DEF LockPoisoned, TypeOK
  <1>5. ASSUME NEW c \in Callers, Iterate(c) PROVE TypeOK'
    BY <1>5, IterateType
  <1>6. ASSUME NEW p \in HostPorts, HostBinds(p) \/ HostReleases(p) PROVE TypeOK'
    BY <1>6 DEF HostBinds, HostReleases, callVars, TypeOK
  <1> QED  BY <1>1, <1>2, <1>3, <1>4, <1>5, <1>6 DEF Next

\* The type invariant of the pool of ports (runtime.rs:18-58).
THEOREM TypeCorrect == Spec => []TypeOK
  BY InitType, NextType, PTL DEF Spec

-----------------------------------------------------------------------------
(* Exclusive grants.  By itself GrantedOnce is not inductive: it needs that *)
(* the set and the grants agree.                                           *)

GrantsAreReserved == \A p \in Ports : grants[p] = IF p \in reserved THEN 1 ELSE 0

\* Only Grant touches the set and the counts, and it touches both.
LEMMA GrantsStep == TypeOK /\ GrantsAreReserved /\ [Next]_vars => GrantsAreReserved'
  <1> SUFFICES ASSUME TypeOK, GrantsAreReserved, [Next]_vars
               PROVE  GrantsAreReserved'
    OBVIOUS
  <1>1. CASE \E c \in Callers : Grant(c)
    BY <1>1 DEF Grant, GrantsAreReserved, TypeOK
  <1>2. CASE UNCHANGED <<reserved, grants>>
    BY <1>2 DEF GrantsAreReserved
  <1>3. (\E c \in Callers : Grant(c)) \/ UNCHANGED <<reserved, grants>>
    BY DEF Next, Iterate, Call, Lock, LockPoisoned, SkipReserved, ProbeFails,
           HostBinds, HostReleases, vars, callVars
  <1> QED  BY <1>1, <1>2, <1>3

\* No port is granted to two calls of reserve_port.
THEOREM ExclusiveGrants == Spec => []GrantedOnce
  <1>1. Init => GrantsAreReserved
    BY DEF Init, GrantsAreReserved
  <1>2. GrantsAreReserved => GrantedOnce
    BY DEF GrantsAreReserved, GrantedOnce
  <1> QED  BY <1>1, <1>2, GrantsStep, TypeCorrect, PTL DEF Spec

-----------------------------------------------------------------------------
(* First fit.                                                              *)

\* What a call in progress knows: it has no answer yet, and its cursor has
\* not fallen behind the port it prefers.
CallInv ==
    \A c \in Callers :
        /\ pc[c] \in {"waiting", "probing"} => answer[c] = NoPort
        /\ pc[c] = "probing" => preferred[c] <= cursor[c]

FirstFitInv == CallInv /\ FirstFit

\* An iteration that moves on from a port that is reserved or busy keeps
\* everything passed over accounted for.
LEMMA PassStep ==
  ASSUME TypeOK, FirstFitInv, NEW c \in Callers,
         pc[c] = "probing",
         cursor[c] \in reserved \cup HostPorts,
         NextPort(c),
         UNCHANGED <<checked, reserved, preferred, answer, busy, calls, grants>>
  PROVE  FirstFitInv'
  <1> USE PortsAssumption
  <1>1. preferred[c] .. cursor[c] - 1 \subseteq reserved \cup HostPorts
    BY DEF FirstFitInv, FirstFit, PassedOver
  <1>2. preferred[c] .. cursor[c] \subseteq reserved \cup HostPorts
    BY <1>1 DEF TypeOK
  <1>3. ASSUME NEW d \in Callers, d # c
        PROVE  /\ pc'[d] = pc[d] /\ cursor'[d] = cursor[d]
               /\ PassedOver(d)' = PassedOver(d)
    BY <1>3 DEF NextPort, StepUp, WrapAround, OverflowPanic, PassedOver, TypeOK
  <1>4. CallInv'
    BY <1>3 DEF FirstFitInv, CallInv, NextPort, StepUp, WrapAround,
                OverflowPanic, TypeOK
  <1>5. PassedOver(c)' \subseteq preferred[c] .. cursor[c]
    <2>1. CASE StepUp(c)
      <3>1. pc'[c] = "probing" /\ cursor'[c] = cursor[c] + 1 /\ preferred'[c] = preferred[c]
        BY <2>1 DEF StepUp, TypeOK
      <3>2. PassedOver(c)' = preferred[c] .. (cursor[c] + 1) - 1
        BY <3>1 DEF PassedOver
      <3> QED  BY <3>2 DEF TypeOK
    <2>2. CASE WrapAround(c)
      <3>1. pc'[c] = "idle" /\ answer'[c] = NoPort /\ cursor[c] = MaxPort
        BY <2>2 DEF WrapAround, FirstFitInv, CallInv, TypeOK
      <3>2. PassedOver(c)' \subseteq preferred[c] .. MaxPort
        BY <3>1 DEF PassedOver
      <3> QED  BY <3>1, <3>2
    <2>3. CASE OverflowPanic(c)
      BY <2>3 DEF OverflowPanic, PassedOver, TypeOK
    <2> QED  BY <2>1, <2>2, <2>3 DEF NextPort
  <1>6. FirstFit'
    BY <1>2, <1>3, <1>5 DEF FirstFitInv, FirstFit
  <1> QED  BY <1>4, <1>6 DEF FirstFitInv

\* Every step keeps the passed-over ports accounted for.
LEMMA FirstFitStep == TypeOK /\ FirstFitInv /\ [Next]_vars => FirstFitInv'
  <1> SUFFICES ASSUME TypeOK, FirstFitInv, [Next]_vars PROVE FirstFitInv'
    OBVIOUS
  <1> USE PortsAssumption DEF FirstFitInv, CallInv, FirstFit, PassedOver
  <1>1. CASE UNCHANGED vars
    BY <1>1 DEF vars, callVars
  <1>2. ASSUME NEW c \in Callers, NEW p \in Ports, Call(c, p) PROVE FirstFitInv'
    BY <1>2 DEF Call, TypeOK
  <1>3. ASSUME NEW c \in Callers, Lock(c) PROVE FirstFitInv'
    BY <1>3, SMTT(30) DEF Lock, TypeOK
  <1>4. ASSUME NEW c \in Callers, LockPoisoned(c) PROVE FirstFitInv'
    BY <1>4 DEF LockPoisoned, TypeOK
  <1>5. ASSUME NEW c \in Callers, SkipReserved(c) PROVE FirstFitInv'
    <2> USE DEF SkipReserved
    <2> QED  BY <1>5, PassStep
  <1>6. ASSUME NEW c \in Callers, ProbeFails(c) PROVE FirstFitInv'
    <2>1. cursor[c] \in HostPorts
      BY <1>6 DEF ProbeFails, BindSucceeds, TypeOK
    <2> QED  BY <1>6, <2>1, PassStep DEF ProbeFails
  <1>7. ASSUME NEW c \in Callers, Grant(c) PROVE FirstFitInv'
    <2>1. CallInv'
      BY <1>7 DEF Grant, TypeOK
    <2>2. ASSUME NEW d \in Callers PROVE PassedOver(d)' \subseteq reserved' \cup HostPorts
      <3>1. CASE d = c
        <4>1. PassedOver(c)' = PassedOver(c)
          BY <1>7, SMTT(30) DEF Grant, TypeOK
        <4> QED  BY <1>7, <3>1, <4>1 DEF Grant
      <3>2. CASE d # c
        <4>1. PassedOver(d)' = PassedOver(d)
          BY <1>7, <3>2, SMTT(30) DEF Grant, TypeOK
        <4> QED  BY <1>7, <4>1 DEF Grant
      <3> QED  BY <3>1, <3>2
    <2> QED  BY <2>1, <2>2
  <1>8. ASSUME NEW p \in HostPorts, HostBinds(p) \/ HostReleases(p)
        PROVE  FirstFitInv'
    BY <1>8 DEF HostBinds, HostReleases, callVars
  <1> QED  BY <1>1, <1>2, <1>3, <1>4, <1>5, <1>6, <1>7, <1>8 DEF Next, Iterate

\* reserve_port answers with the first port, from the preferred one up, that
\* is neither reserved nor possibly held by the host, and with None only when
\* there is none.
THEOREM AnswersFirstFit == Spec => []FirstFit
  <1>1. Init => FirstFitInv
    BY DEF Init, FirstFitInv, CallInv, FirstFit, PassedOver
  <1>2. FirstFitInv => FirstFit
    BY DEF FirstFitInv
  <1> QED  BY <1>1, <1>2, FirstFitStep, TypeCorrect, PTL DEF Spec

-----------------------------------------------------------------------------
(* Refinement.  The abstract pool sees what each task wants, what it was    *)
(* answered and who is gone; the mutex, the cursor and the host are hidden. *)

Want == [c \in Callers |->
            IF pc[c] \in {"waiting", "probing"} THEN preferred[c] ELSE NoPort]
Gone == {c \in Callers : pc[c] = "panicked"}

\* Asking for a port is visible at once.
LEMMA CallAsks ==
  ASSUME TypeOK, NEW c \in Callers, NEW p \in Ports, Call(c, p)
  PROVE  Pool!Ask(c, p)
  <1>1. c \notin Gone /\ Want[c] = NoPort
    BY DEF Call, Gone, Want
  <1>2. Want' = [Want EXCEPT ![c] = p]
    BY DEF Call, Want, TypeOK
  <1>3. Gone' = Gone
    BY DEF Call, Gone, TypeOK
  <1> QED  BY <1>1, <1>2, <1>3 DEF Call, Pool!Ask, Want, Gone

\* The step of reserve_port that inserts the port is the one that serves.
LEMMA GrantServes ==
  ASSUME TypeOK, GrantsAreReserved, CallInv, NEW c \in Callers, Grant(c)
  PROVE  Pool!Serve(c, cursor[c])
  <1>1. Want[c] = preferred[c] /\ Want[c] # NoPort
    BY PortsAssumption DEF Grant, Want, TypeOK
  <1>2. grants[cursor[c]] = 0
    BY DEF Grant, GrantsAreReserved, TypeOK
  <1>3. cursor[c] >= Want[c]
    BY <1>1, PortsAssumption DEF Grant, CallInv, TypeOK
  <1>4. Want' = [Want EXCEPT ![c] = NoPort]
    BY DEF Grant, Want, TypeOK
  <1>5. Gone' = Gone
    BY DEF Grant, Gone, TypeOK
  <1>6. grants' = [grants EXCEPT ![cursor[c]] = 1]
    BY <1>2 DEF Grant
  <1>7. answer' = [answer EXCEPT ![c] = cursor[c]]
    BY DEF Grant
  <1> QED  BY <1>1, <1>2, <1>3, <1>4, <1>5, <1>6, <1>7 DEF Pool!Serve, Want, Gone

\* Moving on to the next port hides, refuses or kills.
LEMMA NextPortMaps ==
  ASSUME TypeOK, NEW c \in Callers, pc[c] = "probing", NextPort(c),
         UNCHANGED <<checked, reserved, preferred, answer, busy, calls, grants>>
  PROVE  Pool!Refuse(c) \/ Pool!Die(c) \/ UNCHANGED Pool!vars
  <1>0. Want[c] # NoPort
    BY PortsAssumption DEF Want, TypeOK
  <1>1. CASE StepUp(c)
    <2>1. Want' = Want /\ Gone' = Gone
      BY <1>1 DEF StepUp, Want, Gone
    <2> QED  BY <2>1 DEF Pool!vars, Want, Gone
  <1>2. CASE WrapAround(c)
    <2>1. Want' = [Want EXCEPT ![c] = NoPort]
      BY <1>2 DEF WrapAround, Want, TypeOK
    <2>2. Gone' = Gone
      BY <1>2 DEF WrapAround, Gone, TypeOK
    <2> QED  BY <1>0, <2>1, <2>2 DEF Pool!Refuse, Want, Gone
  <1>3. CASE OverflowPanic(c)
    <2>1. Want' = [Want EXCEPT ![c] = NoPort]
      BY <1>3 DEF OverflowPanic, Want, TypeOK
    <2>2. Gone' = Gone \cup {c}
      BY <1>3 DEF OverflowPanic, Gone, TypeOK
    <2> QED  BY <1>0, <2>1, <2>2 DEF Pool!Die, Want, Gone
  <1> QED  BY <1>1, <1>2, <1>3 DEF NextPort

\* A task that finds the mutex poisoned dies asking.
LEMMA PoisonKills ==
  ASSUME TypeOK, NEW c \in Callers, LockPoisoned(c)
  PROVE  Pool!Die(c)
  <1>1. Want[c] # NoPort
    BY PortsAssumption DEF LockPoisoned, Want, TypeOK
  <1>2. Want' = [Want EXCEPT ![c] = NoPort]
    BY DEF LockPoisoned, Want, TypeOK
  <1>3. Gone' = Gone \cup {c}
    BY DEF LockPoisoned, Gone, TypeOK
  <1> QED  BY <1>1, <1>2, <1>3 DEF LockPoisoned, Pool!Die, Want, Gone

\* Every step of the loop is a step of the abstract pool or hidden from it.
LEMMA PoolStep ==
  TypeOK /\ GrantsAreReserved /\ FirstFitInv /\ [Next]_vars => [Pool!Next]_(Pool!vars)
  <1> SUFFICES ASSUME TypeOK, GrantsAreReserved, FirstFitInv, [Next]_vars
               PROVE  [Pool!Next]_(Pool!vars)
    OBVIOUS
  <1>1. CASE UNCHANGED vars
    BY <1>1 DEF vars, callVars, Pool!vars
  <1>2. ASSUME NEW c \in Callers, NEW p \in Ports, Call(c, p) PROVE Pool!Next
    BY <1>2, CallAsks DEF Pool!Next
  <1>3. ASSUME NEW c \in Callers, Lock(c) PROVE UNCHANGED Pool!vars
    <2>1. Want' = Want /\ Gone' = Gone
      BY <1>3 DEF Lock, Want, Gone, TypeOK
    <2> QED  BY <1>3, <2>1 DEF Lock, Pool!vars, Want, Gone
  <1>4. ASSUME NEW c \in Callers, LockPoisoned(c) PROVE Pool!Next
    BY <1>4, PoisonKills DEF Pool!Next
  <1>5. ASSUME NEW c \in Callers, SkipReserved(c) \/ ProbeFails(c)
        PROVE  Pool!Next \/ UNCHANGED Pool!vars
    <2>1. pc[c] = "probing" /\ NextPort(c)
          /\ UNCHANGED <<checked, reserved, preferred, answer, busy, calls, grants>>
      BY <1>5 DEF SkipReserved, ProbeFails
    <2> QED  BY <2>1, NextPortMaps DEF Pool!Next
  <1>6. ASSUME NEW c \in Callers, Grant(c) PROVE Pool!Next
    <2>1. Pool!Serve(c, cursor[c]) /\ cursor[c] \in Ports
      BY <1>6, GrantServes DEF FirstFitInv, TypeOK
    <2>2. \E p \in Ports : Pool!Ask(c, p) \/ Pool!Serve(c, p)
      BY <2>1 DEF Pool!Ask, Pool!Serve
    <2> QED  BY <2>2 DEF Pool!Next
  <1>7. ASSUME NEW p \in HostPorts, HostBinds(p) \/ HostReleases(p)
        PROVE  UNCHANGED Pool!vars
    BY <1>7 DEF HostBinds, HostReleases, callVars, Pool!vars
  <1> QED  BY <1>1, <1>2, <1>3, <1>4, <1>5, <1>6, <1>7 DEF Next, Iterate

\* The loop under the mutex implements the atomic pool of PortPool: whatever
\* the host does, a call takes effect in one step.
THEOREM Refinement == Spec => PoolSpec
  <1>1. Init => GrantsAreReserved /\ FirstFitInv
    BY DEF Init, GrantsAreReserved, FirstFitInv, CallInv, FirstFit, PassedOver
  <1>2. Init => Pool!Init
    BY DEF Init, Pool!Init
  <1> QED  BY <1>1, <1>2, TypeCorrect, GrantsStep, FirstFitStep, PoolStep, PTL
           DEF Spec, PoolSpec, Pool!Spec

-----------------------------------------------------------------------------
(* A release build.                                                        *)

\* Without overflow checks no reservation panics: the end of the range is the
\* answer None, as runtime.rs:38-41 has it, and the mutex is never poisoned.
THEOREM ReleaseBuildNeverPanics ==
  ASSUME TRUE \notin Builds
  PROVE  Spec => [](NeverPanics /\ ~poisoned)
  <1> DEFINE Inv == NeverPanics /\ ~poisoned /\ ~checked
  <1>1. Init => Inv
    BY BuildAssumption DEF Init, NeverPanics
  <1>2. TypeOK /\ Inv /\ [Next]_vars => Inv'
    BY DEF TypeOK, NeverPanics, Next, Call, Lock, LockPoisoned, Iterate,
           SkipReserved, ProbeFails, Grant, NextPort, StepUp, WrapAround,
           OverflowPanic, HostBinds, HostReleases, vars, callVars
  <1>3. Inv => NeverPanics /\ ~poisoned
    OBVIOUS
  <1> QED  BY <1>1, <1>2, <1>3, TypeCorrect, PTL DEF Spec

-----------------------------------------------------------------------------
(* A build with overflow checks.                                           *)

\* While the mutex is poisoned nobody holds it: the panic that poisoned it
\* released it, and it is not taken again.
PoisonInv ==
    /\ \A c \in Callers : pc[c] = "probing" => holder = c
    /\ poisoned => holder = NoCaller

\* Once a reservation has panicked no port is ever granted again.
THEOREM NoGrantAfterPanic == Spec => PoisonIsFinal
  <1>1. Init => PoisonInv
    BY DEF Init, PoisonInv
  <1>2. TypeOK /\ PoisonInv /\ [Next]_vars => PoisonInv'
    BY CallersAssumption DEF TypeOK, PoisonInv, Next, Call, Lock, LockPoisoned,
           Iterate, SkipReserved, ProbeFails, Grant, NextPort, StepUp,
           WrapAround, OverflowPanic, HostBinds, HostReleases, vars, callVars
  <1>3. PoisonInv /\ [Next]_vars => [poisoned => grants' = grants /\ reserved' = reserved]_vars
    BY CallersAssumption DEF PoisonInv, Next, Call, Lock, LockPoisoned, Iterate,
           SkipReserved, ProbeFails, Grant, HostBinds, HostReleases, vars, callVars
  <1> QED  BY <1>1, <1>2, <1>3, TypeCorrect, PTL DEF Spec, PoisonIsFinal
=============================================================================
