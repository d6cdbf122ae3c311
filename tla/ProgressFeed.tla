---------------------------- MODULE ProgressFeed ----------------------------
(***************************************************************************)
(* The progress feed of the fetcher: a tokio broadcast channel and one     *)
(* forwarding task per WebSocket subscriber.  A subscriber sees what is    *)
(* sent after it subscribed; one that falls more than Capacity messages    *)
(* behind loses the oldest of them (RecvError::Lagged) and goes on.        *)
(* Sends never wait and never fail.                                        *)
(***************************************************************************)
EXTENDS Naturals, Sequences

CONSTANTS Subscribers,
          Capacity     \* messages the channel retains

VARIABLES sent,   \* the messages sent since the process started
          next,   \* next[s]: the number of the message s takes next, or 0
          got     \* history: the messages forwarded to each subscriber

feedVars == <<sent, next, got>>

InitFeed ==
    /\ sent = <<>>
    /\ next = [s \in Subscribers |-> 0]
    /\ got = [s \in Subscribers |-> <<>>]

\* A new process: a new channel without subscribers.
ResetFeed ==
    /\ sent' = <<>>
    /\ next' = [s \in Subscribers |-> 0]
    /\ got' = [s \in Subscribers |-> <<>>]

Send(msg) ==
    /\ sent' = Append(sent, msg)
    /\ UNCHANGED <<next, got>>

Subscribe(s) ==
    /\ next[s] = 0
    /\ next' = [next EXCEPT ![s] = Len(sent) + 1]
    /\ UNCHANGED <<sent, got>>

Lags(s) == next[s] + Capacity <= Len(sent)

\* The message found in s's slot of the ring, whichever lap it is of.
Slot(s) == sent[next[s] + Capacity * ((Len(sent) - next[s]) \div Capacity)]

ForwardAnyLap(s) ==
    /\ next[s] \in 1 .. Len(sent)
    /\ got' = [got EXCEPT ![s] = Append(@, Slot(s))]
    /\ next' = [next EXCEPT ![s] = @ + 1]
    /\ UNCHANGED sent

Forward(s) ==
    /\ next[s] \in 1 .. Len(sent)
    /\ ~Lags(s)
    /\ got' = [got EXCEPT ![s] = Append(@, sent[next[s]])]
    /\ next' = [next EXCEPT ![s] = @ + 1]
    /\ UNCHANGED sent

\* RecvError::Lagged: the receiver resumes at the oldest retained message.
Lag(s) ==
    /\ next[s] # 0
    /\ Lags(s)
    /\ next' = [next EXCEPT ![s] = Len(sent) - Capacity + 1]
    /\ UNCHANGED <<sent, got>>

\* The client went away: sending to it fails and the task ends.
Unsubscribe(s) ==
    /\ next[s] # 0
    /\ next' = [next EXCEPT ![s] = 0]
    /\ got' = [got EXCEPT ![s] = <<>>]
    /\ UNCHANGED sent

FeedTypeOK(Messages) ==
    /\ sent \in Seq(Messages)
    /\ next \in [Subscribers -> 0 .. Len(sent) + 1]
    /\ got \in [Subscribers -> Seq(Messages)]
=============================================================================
