------------------------------ MODULE PortPool ------------------------------
(***************************************************************************)
(* What the pool of reserved host ports promises its callers, with no      *)
(* mutex, no probing loop and no host: a caller asks for a port and gets   *)
(* either one that nobody was given before, no smaller than the one it     *)
(* prefers, or a refusal, or it dies asking.  ReservedPorts implements it. *)
(***************************************************************************)
EXTENDS Naturals

CONSTANTS Ports,      \* the port numbers
          Callers,    \* the tasks that ask for ports
          NoPort      \* the answer None, and the absence of a request

VARIABLES want,       \* want[c]: the port c is asking for, or NoPort
          answer,     \* answer[c]: what the last call of c returned
          gone,       \* the callers that died asking
          grants      \* grants[p]: how many calls were answered with p

vars == <<want, answer, gone, grants>>

Init ==
    /\ want = [c \in Callers |-> NoPort]
    /\ answer = [c \in Callers |-> NoPort]
    /\ gone = {}
    /\ grants = [p \in Ports |-> 0]

Ask(c, p) ==
    /\ c \notin gone
    /\ want[c] = NoPort
    /\ want' = [want EXCEPT ![c] = p]
    /\ answer' = [answer EXCEPT ![c] = NoPort]
    /\ UNCHANGED <<gone, grants>>

Serve(c, q) ==
    /\ want[c] # NoPort
    /\ grants[q] = 0
    /\ q >= want[c]
    /\ want' = [want EXCEPT ![c] = NoPort]
    /\ answer' = [answer EXCEPT ![c] = q]
    /\ grants' = [grants EXCEPT ![q] = 1]
    /\ UNCHANGED gone

Refuse(c) ==
    /\ want[c] # NoPort
    /\ want' = [want EXCEPT ![c] = NoPort]
    /\ UNCHANGED <<answer, gone, grants>>

Die(c) ==
    /\ want[c] # NoPort
    /\ want' = [want EXCEPT ![c] = NoPort]
    /\ gone' = gone \cup {c}
    /\ UNCHANGED <<answer, grants>>

Next ==
    \E c \in Callers :
        \/ \E p \in Ports : Ask(c, p) \/ Serve(c, p)
        \/ Refuse(c)
        \/ Die(c)

Spec == Init /\ [][Next]_vars
=============================================================================
