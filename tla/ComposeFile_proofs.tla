------------------------ MODULE ComposeFile_proofs ------------------------
(***************************************************************************)
(* What the codecs of compose.rs preserve, for all values.                 *)
(***************************************************************************)
EXTENDS ComposeFile, SequenceTheorems, TLAPS

\* A port that was written is read back unchanged, whether or not it has a host
\* port: load_reserved_ports sees the port that convert_to_docker_compose_spec
\* assigned.
THEOREM PortRoundTrip ==
    ASSUME NEW p \in Port
    PROVE  DeserializePort(SerializePort(p)) = p
<1>1. \A n \in PortNumbers : Written(n) \in PortPieces /\ Number(Written(n)) = n
  BY DEF Written, Number, PortPieces, Spellings
<1>2. CASE p.host = NoPort
  BY <1>1, <1>2 DEF Port, SerializePort, DeserializePort
<1>3. CASE p.host # NoPort
  BY <1>1, <1>3 DEF Port, SerializePort, DeserializePort
<1> QED
  BY <1>2, <1>3

\* A piece that parses is written back as it was exactly when it is spelled
\* plainly.
LEMMA PieceWritten ==
    ASSUME NEW piece \in PortPieces
    PROVE  /\ Number(piece) \in PortNumbers
           /\ Written(Number(piece)) = piece <=> piece[2] = Plain
  BY DEF PortPieces, Spellings, Number, Written

\* What is read as a port is one, whatever its spelling: it may be written
\* back as another text ("+80" as "80"), and is then read as the same port;
\* the text itself comes back exactly when its numbers are spelled plainly, as
\* in the fixtures and in every file the program has written.
THEOREM PortTextRoundTrip ==
    ASSUME NoPort \notin PortNumbers,
           NEW t \in Text, DeserializePort(t) # Invalid
    PROVE  LET p == DeserializePort(t)
           IN  /\ DeserializePort(SerializePort(p)) = p
               /\ SerializePort(p) = t <=> \A i \in 1 .. Len(t) : t[i][2] = Plain
<1> DEFINE p == DeserializePort(t)
<1>1. Len(t) \in Nat /\ t \in Seq(Pieces)
  BY DEF Text
<1>2. CASE Len(t) = 1 /\ t[1] \in PortPieces
  <2>1. p = [host |-> NoPort, container |-> Number(t[1])]
    BY <1>2 DEF DeserializePort
  <2>2. t = <<t[1]>> /\ 1 .. Len(t) = {1}
    BY <1>1, <1>2
  <2>3. p \in Port /\ SerializePort(p) = <<Written(Number(t[1]))>>
    BY <1>2, <2>1, PieceWritten DEF Port, SerializePort
  <2>4. SerializePort(p) = t <=> Written(Number(t[1])) = t[1]
    BY <2>2, <2>3
  <2> QED
    BY <1>2, <2>2, <2>3, <2>4, PieceWritten, PortRoundTrip
<1>3. CASE Len(t) = 2 /\ t[1] \in PortPieces /\ t[2] \in PortPieces
  <2>1. p = [host |-> Number(t[1]), container |-> Number(t[2])]
    BY <1>3 DEF DeserializePort
  <2>2. t = <<t[1], t[2]>> /\ 1 .. Len(t) = {1, 2}
    BY <1>1, <1>3
  <2>3. p \in Port /\ SerializePort(p) = <<Written(Number(t[1])), Written(Number(t[2]))>>
    BY <1>3, <2>1, PieceWritten DEF Port, SerializePort
  <2>4. SerializePort(p) = t <=>
          Written(Number(t[1])) = t[1] /\ Written(Number(t[2])) = t[2]
    BY <2>2, <2>3
  <2> QED
    BY <1>3, <2>2, <2>3, <2>4, PieceWritten, PortRoundTrip
<1> QED
  BY <1>1, <1>2, <1>3 DEF DeserializePort

\* The pieces of two texts joined by a colon.
LEMMA Joined ==
    ASSUME NEW h \in Text, NEW g \in Text
    PROVE  /\ Len(h) \in Nat /\ Len(g) \in Nat /\ Len(h) >= 1 /\ Len(g) >= 1
           /\ Len(h \o g) = Len(h) + Len(g)
           /\ (h \o g)[1] = h[1]
           /\ Len(h) = 1 => (h \o g)[2] = g[1]
<1>1. h \in Seq(Pieces) /\ g \in Seq(Pieces) /\ h # <<>> /\ g # <<>>
  BY DEF Text
<1>2. Len(h) \in Nat /\ Len(g) \in Nat /\ Len(h) # 0 /\ Len(g) # 0
  BY <1>1, EmptySeq
<1>3. Len(h \o g) = Len(h) + Len(g)
  BY <1>1, ConcatProperties
<1>4. \A i \in 1 .. Len(h) + Len(g) :
        (h \o g)[i] = IF i <= Len(h) THEN h[i] ELSE g[i - Len(h)]
  BY <1>1, ConcatProperties
<1> QED
  BY <1>2, <1>3, <1>4

\* A volume is read back unchanged exactly when neither of its paths contains
\* a colon: a config folder with one in its path would be cut.
THEOREM VolumeRoundTrip ==
    ASSUME NEW v \in ServiceVolume
    PROVE  DeserializeVolume(SerializeVolume(v)) = v
             <=> Len(v.host) = 1 /\ Len(v.target) = 1
<1> DEFINE t == v.host \o v.target
<1>1. v.host \in Text /\ v.target \in Text /\ v = [host |-> v.host, target |-> v.target]
  BY DEF ServiceVolume
<1>2. /\ Len(t) >= 2 /\ t[1] = v.host[1]
      /\ Len(v.host) = 1 => t[2] = v.target[1]
  BY <1>1, Joined
<1>3. DeserializeVolume(SerializeVolume(v)) = [host |-> <<t[1]>>, target |-> <<t[2]>>]
  BY <1>2 DEF DeserializeVolume, SerializeVolume
<1>4. ASSUME v.host = <<t[1]>>, v.target = <<t[2]>> PROVE Len(v.host) = 1 /\ Len(v.target) = 1
  BY <1>4
<1>5. ASSUME Len(v.host) = 1, Len(v.target) = 1 PROVE v.host = <<t[1]>> /\ v.target = <<t[2]>>
  BY <1>1, <1>2, <1>5 DEF Text
<1> HIDE DEF t
<1> QED
  BY <1>1, <1>3, <1>4, <1>5

\* A dependency keeps its condition.
THEOREM DependsOnRoundTrip ==
    ASSUME NEW c \in {Completed, NoCondition}
    PROVE  DeserializeDependsOn(SerializeDependsOn(c)) = c
  BY DEF DeserializeDependsOn, SerializeDependsOn, Completed, NoCondition
=============================================================================
