--------------------------- MODULE ReservedPorts ---------------------------
(***************************************************************************)
(* ReservedPorts::reserve_port of the docker-compose runtime: the set of   *)
(* host ports handed out so far, behind a std::sync::Mutex, and the loop   *)
(* that walks up from the preferred port until a port is neither reserved  *)
(* nor bound by another process of the host.  One action is one iteration  *)
(* of the loop; the mutex is held from the first to the last.              *)
(*                                                                         *)
(* The probe binds 127.0.0.1:port and drops the listener at once, so other *)
(* processes of the host may take or release a port of HostPorts between   *)
(* any two steps.  Binding port 0 asks the kernel for any port and always  *)
(* succeeds.  The increment is on a u16: past MaxPort it wraps to 0 in a   *)
(* release build and panics, poisoning the mutex, in a build with overflow *)
(* checks (cargo run).                                                     *)
(***************************************************************************)
EXTENDS Naturals

CONSTANTS MaxPort,         \* u16::MAX
          Callers,         \* the tasks that share the pool
          HostPorts,       \* the ports other processes of the host may bind
          Builds,          \* which builds to consider: overflow checks or not
          MaxCalls,        \* bound: calls of one task
          NoPort,          \* None
          NoCaller         \* nobody holds the mutex

Ports == 0 .. MaxPort

ASSUME PortsAssumption ==
    /\ MaxPort \in Nat
    /\ HostPorts \subseteq 1 .. MaxPort
    /\ NoPort \notin Ports
ASSUME CallersAssumption == NoCaller \notin Callers
ASSUME BoundsAssumption == MaxCalls \in Nat
ASSUME BuildAssumption == Builds \subseteq BOOLEAN

VARIABLES checked,    \* the build has overflow checks
          reserved,   \* the HashSet
          holder,     \* the task that holds the mutex
          poisoned,   \* a task panicked while it held the mutex
          pc,         \* where each task is
          preferred,  \* the argument of each task's call
          cursor,     \* the local variable port of the loop
          answer,     \* what the last call of each task returned
          busy,       \* the host's ports bound by other processes
          calls,      \* calls made by each task
          grants      \* how many calls were answered with each port

callVars == <<pc, preferred, cursor, answer, calls>>
vars == <<checked, reserved, holder, poisoned, callVars, busy, grants>>

Init ==
    /\ checked \in Builds
    /\ reserved = {}
    /\ holder = NoCaller
    /\ poisoned = FALSE
    /\ pc = [c \in Callers |-> "idle"]
    /\ preferred = [c \in Callers |-> 0]
    /\ cursor = [c \in Callers |-> 0]
    /\ answer = [c \in Callers |-> NoPort]
    /\ busy = {}
    /\ calls = [c \in Callers |-> 0]
    /\ grants = [p \in Ports |-> 0]

-----------------------------------------------------------------------------
(* The call and the mutex.                                                 *)

Call(c, p) ==
    /\ pc[c] = "idle"
    /\ calls[c] < MaxCalls
    /\ pc' = [pc EXCEPT ![c] = "waiting"]
    /\ preferred' = [preferred EXCEPT ![c] = p]
    /\ answer' = [answer EXCEPT ![c] = NoPort]
    /\ calls' = [calls EXCEPT ![c] = @ + 1]
    /\ UNCHANGED <<checked, reserved, holder, poisoned, cursor, busy, grants>>

Highest(S) == CHOOSE p \in S : \A q \in S : q <= p

LockResumesAtHighest(c) ==
    /\ pc[c] = "waiting"
    /\ holder = NoCaller
    /\ ~poisoned
    /\ holder' = c
    /\ pc' = [pc EXCEPT ![c] = "probing"]
    /\ cursor' = [cursor EXCEPT ![c] = Highest({preferred[c]} \cup reserved)]
    /\ UNCHANGED <<checked, reserved, poisoned, preferred, answer, busy, calls, grants>>

LockIgnoresPoison(c) ==
    /\ pc[c] = "waiting"
    /\ holder = NoCaller
    /\ holder' = c
    /\ pc' = [pc EXCEPT ![c] = "probing"]
    /\ cursor' = [cursor EXCEPT ![c] = preferred[c]]
    /\ UNCHANGED <<checked, reserved, poisoned, preferred, answer, busy, calls, grants>>

Lock(c) ==
    /\ pc[c] = "waiting"
    /\ holder = NoCaller
    /\ ~poisoned
    /\ holder' = c
    /\ pc' = [pc EXCEPT ![c] = "probing"]
    /\ cursor' = [cursor EXCEPT ![c] = preferred[c]]
    /\ UNCHANGED <<checked, reserved, poisoned, preferred, answer, busy, calls, grants>>

\* lock() of a poisoned mutex is an Err, which unwrap turns into a panic.
LockPoisoned(c) ==
    /\ pc[c] = "waiting"
    /\ holder = NoCaller
    /\ poisoned
    /\ pc' = [pc EXCEPT ![c] = "panicked"]
    /\ UNCHANGED <<checked, reserved, holder, poisoned, preferred, cursor, answer, busy,
                   calls, grants>>

-----------------------------------------------------------------------------
(* The loop.                                                               *)

BindSucceeds(p) == p = 0 \/ p \notin busy

StepUpOffByOne(c) ==
    /\ cursor[c] <= MaxPort
    /\ cursor' = [cursor EXCEPT ![c] = @ + 1]
    /\ UNCHANGED <<holder, poisoned, pc>>

\* `port += 1` below the last port.
StepUp(c) ==
    /\ cursor[c] < MaxPort
    /\ cursor' = [cursor EXCEPT ![c] = @ + 1]
    /\ UNCHANGED <<holder, poisoned, pc>>

WrapAroundLeaksLock(c) ==
    /\ cursor[c] = MaxPort
    /\ ~checked
    /\ pc' = [pc EXCEPT ![c] = "idle"]
    /\ UNCHANGED <<holder, poisoned, cursor>>

WrapAroundGoesOn(c) ==
    /\ cursor[c] = MaxPort
    /\ ~checked
    /\ cursor' = [cursor EXCEPT ![c] = 0]
    /\ UNCHANGED <<holder, poisoned, pc>>

\* `port += 1` at the last port: the sum wraps to 0 and the call returns None.
WrapAround(c) ==
    /\ cursor[c] = MaxPort
    /\ ~checked
    /\ pc' = [pc EXCEPT ![c] = "idle"]
    /\ holder' = NoCaller
    /\ UNCHANGED <<poisoned, cursor>>

OverflowPanicKeepsLock(c) ==
    /\ cursor[c] = MaxPort
    /\ checked
    /\ pc' = [pc EXCEPT ![c] = "panicked"]
    /\ poisoned' = TRUE
    /\ UNCHANGED <<holder, cursor>>

\* `port += 1` at the last port: the checked addition panics under the lock.
OverflowPanic(c) ==
    /\ cursor[c] = MaxPort
    /\ checked
    /\ pc' = [pc EXCEPT ![c] = "panicked"]
    /\ holder' = NoCaller
    /\ poisoned' = TRUE
    /\ UNCHANGED cursor

NextPort(c) == StepUp(c) \/ WrapAround(c) \/ OverflowPanic(c)

SkipReserved(c) ==
    /\ pc[c] = "probing"
    /\ cursor[c] \in reserved
    /\ NextPort(c)
    /\ UNCHANGED <<checked, reserved, preferred, answer, busy, calls, grants>>

ProbeFails(c) ==
    /\ pc[c] = "probing"
    /\ cursor[c] \notin reserved
    /\ ~BindSucceeds(cursor[c])
    /\ NextPort(c)
    /\ UNCHANGED <<checked, reserved, preferred, answer, busy, calls, grants>>

GrantForgetsInsert(c) ==
    /\ pc[c] = "probing"
    /\ cursor[c] \notin reserved
    /\ BindSucceeds(cursor[c])
    /\ answer' = [answer EXCEPT ![c] = cursor[c]]
    /\ grants' = [grants EXCEPT ![cursor[c]] = @ + 1]
    /\ pc' = [pc EXCEPT ![c] = "idle"]
    /\ holder' = NoCaller
    /\ UNCHANGED <<checked, reserved, poisoned, preferred, cursor, busy, calls>>

Grant(c) ==
    /\ pc[c] = "probing"
    /\ cursor[c] \notin reserved
    /\ BindSucceeds(cursor[c])
    /\ reserved' = reserved \cup {cursor[c]}
    /\ answer' = [answer EXCEPT ![c] = cursor[c]]
    /\ grants' = [grants EXCEPT ![cursor[c]] = @ + 1]
    /\ pc' = [pc EXCEPT ![c] = "idle"]
    /\ holder' = NoCaller
    /\ UNCHANGED <<checked, poisoned, preferred, cursor, busy, calls>>

-----------------------------------------------------------------------------
(* The other processes of the host.                                        *)

HostBinds(p) ==
    /\ p \notin busy
    /\ busy' = busy \cup {p}
    /\ UNCHANGED <<checked, reserved, holder, poisoned, callVars, grants>>

HostReleases(p) ==
    /\ p \in busy
    /\ busy' = busy \ {p}
    /\ UNCHANGED <<checked, reserved, holder, poisoned, callVars, grants>>

Iterate(c) == SkipReserved(c) \/ ProbeFails(c) \/ Grant(c)

Next ==
    \/ \E c \in Callers :
        \/ \E p \in Ports : Call(c, p)
        \/ Lock(c)
        \/ LockPoisoned(c)
        \/ Iterate(c)
    \/ \E p \in HostPorts : HostBinds(p) \/ HostReleases(p)

\* A task that can run does; the host owes nothing.
Fairness ==
    \A c \in Callers : WF_vars(Lock(c) \/ LockPoisoned(c)) /\ WF_vars(Iterate(c))

Spec == Init /\ [][Next]_vars
FairSpec == Spec /\ Fairness

-----------------------------------------------------------------------------
(* Properties.                                                             *)

\* The variables stay in their types.
TypeOK ==
    /\ checked \in BOOLEAN
    /\ reserved \subseteq Ports
    /\ holder \in Callers \cup {NoCaller}
    /\ poisoned \in BOOLEAN
    /\ pc \in [Callers -> {"idle", "waiting", "probing", "panicked"}]
    /\ preferred \in [Callers -> Ports]
    /\ cursor \in [Callers -> Ports]
    /\ answer \in [Callers -> Ports \cup {NoPort}]
    /\ busy \subseteq HostPorts
    /\ calls \in [Callers -> 0 .. MaxCalls]
    /\ grants \in [Ports -> Nat]

\* No two calls of reserve_port, of one task or of two, are ever answered
\* with the same port, whatever the host does between the probes.
GrantedOnce == \A p \in Ports : grants[p] <= 1

\* The ports the current or the last call of c decided not to hand out.
PassedOver(c) ==
    CASE pc[c] = "probing" -> preferred[c] .. cursor[c] - 1
      [] pc[c] = "idle" /\ answer[c] # NoPort -> preferred[c] .. answer[c] - 1
      [] pc[c] = "idle" /\ answer[c] = NoPort /\ calls[c] > 0 -> preferred[c] .. MaxPort
      [] OTHER -> {}

\* The loop never jumps over a usable port: every port it passes over was
\* reserved, or is one that another process may have held.  So the answer is
\* the first usable port, and None means that no usable port was left.
FirstFit == \A c \in Callers : PassedOver(c) \subseteq reserved \cup HostPorts

\* After a panic under the lock no call is granted a port any more: the set is
\* never used in the state the panic left it in.
PoisonIsFinal == [][poisoned => grants' = grants /\ reserved' = reserved]_vars

\* Every call returns or panics: a waiting task gets the mutex and its walk
\* ends, though the host binds and releases ports for ever.
CallReturns ==
    \A c \in Callers : pc[c] \in {"waiting", "probing"} ~> pc[c] \in {"idle", "panicked"}

\* runtime.rs:38-41 and 51-55 treat the end of the port range as an ordinary
\* outcome ("Wrapped around", return None): a call never brings its task down.
NeverPanics == \A c \in Callers : pc[c] # "panicked"

\* The pool implements the promise of PortPool: a call is answered by one
\* fresh port not below the preferred one, or refused, in a single step.
Pool == INSTANCE PortPool WITH
    want <- [c \in Callers |->
                IF pc[c] \in {"waiting", "probing"} THEN preferred[c] ELSE NoPort],
    gone <- {c \in Callers : pc[c] = "panicked"}
PoolSpec == Pool!Spec
=============================================================================
