---------------------------- MODULE ComposeFile ----------------------------
(***************************************************************************)
(* How compose.rs writes ports, volumes and dependencies into a compose    *)
(* file, and how it reads them back in a later run.  A text is the         *)
(* sequence of its colon-free pieces: joining two texts with a colon       *)
(* concatenates them, split(':') gives the pieces.  A piece parses as a    *)
(* u16 when it spells one: plainly, as it is written here, or with a plus  *)
(* or zeros before it ("+80", "0080").                                     *)
(***************************************************************************)
EXTENDS Naturals, Sequences

CONSTANTS PortNumbers,  \* u16
          Words,        \* the pieces that do not parse as a u16
          NoPort        \* None

Plain == "plain"
Spellings == {Plain, "padded"}
PortPieces == PortNumbers \X Spellings
Pieces == PortPieces \cup Words

Port == [host : PortNumbers \cup {NoPort}, container : PortNumbers]
Text == Seq(Pieces) \ {<<>>}
ServiceVolume == [host : Text, target : Text]

\* The error of a text that does not parse.
Invalid == [error |-> "invalid"]

Written(n) == <<n, Plain>>
SerializePort(p) ==
    IF p.host = NoPort THEN <<Written(p.container)>>
                       ELSE <<Written(p.host), Written(p.container)>>

Number(piece) == piece[1]
DeserializePort(text) ==
    CASE Len(text) = 1 /\ text[1] \in PortPieces ->
           [host |-> NoPort, container |-> Number(text[1])]
      [] Len(text) = 2 /\ text[1] \in PortPieces /\ text[2] \in PortPieces ->
           [host |-> Number(text[1]), container |-> Number(text[2])]
      [] OTHER -> Invalid

SerializeVolume(v) == v.host \o v.target

\* Whatever follows the second piece is dropped.
DeserializeVolume(text) ==
    IF Len(text) >= 2 THEN [host |-> <<text[1]>>, target |-> <<text[2]>>] ELSE Invalid

\* The one DependsOnCondition, and its absence.  What is written for a
\* dependency is the set of its conditions: null has none.
Completed == "service_completed_successfully"
NoCondition == "none"

\* Mutant: the condition is not written.
SerializeDependsOnName(condition) == {}

SerializeDependsOn(condition) == {condition} \ {NoCondition}

\* What is not a map with the known condition is a dependency without one.
DeserializeDependsOn(value) == IF value = {Completed} THEN Completed ELSE NoCondition
=============================================================================
