--------------------------- MODULE Fetcher_proofs ---------------------------
(***************************************************************************)
(* For any versions, sizes of bodies, archives and buffers, any number of  *)
(* runs and of subscribers: what a run of the fetcher that succeeds leaves *)
(* on disk, and what its subscribers are told.                             *)
(***************************************************************************)
EXTENDS Fetcher, SequenceTheorems, TLAPS

-----------------------------------------------------------------------------
(* The inductive invariant, by the stages of a run.                        *)

Whole == response.framing \in {"length", "chunked"}

\* Until the request is answered nothing was read or sent, and until the file
\* is created nothing but the total was sent.
BeforeCopy ==
    /\ pc \in {"checking", "requesting"} =>
         response = Unanswered /\ buffered = 0 /\ downloaded = 0 /\ entry = 0 /\ sent = <<>>
    /\ pc = "creating" =>
         response \in Responses /\ left = Size /\ buffered = 0 /\ downloaded = 0 /\ entry = 0

\* Each unit is in the stream, in the buffer, in the copy loop or on disk, and
\* a framed body leaves the copy only when all of it was read.
WhileCopying ==
    pc \in {"copying", "flushing"} =>
      /\ response \in Responses
      /\ file \in Contents /\ file.version = response.version
      /\ file.bytes <= downloaded
      /\ downloaded + buffered + left = Size
      /\ entry = 0
      /\ pc = "flushing" /\ Whole => downloaded = Size

\* From the end of the copy on, the file holds what was read.
AfterCopying ==
    pc \in {"verifying", "extracting", "removing"} =>
      /\ file \in Contents /\ file.bytes = downloaded
      /\ Whole => file.bytes = Size
      /\ pc = "verifying" => args.checked /\ entry = 0
      /\ pc \in {"extracting", "removing"} =>
           /\ args.archive
           /\ args.checked => MatchesChecksum
           /\ entry <= Entries[file.version]
           /\ \A e \in 1 .. entry : tree[e] = file.version
      /\ pc = "removing" => entry = Entries[file.version]

\* A run that goes on was started.
RunCounted == pc # "idle" => runs \in 1 .. MaxRuns

\* A run with --skip-if-valid-checksum that reaches the download found no good
\* file, or could not read it.
OnlyBadIsReplaced ==
    args.skip /\ ~args.archive /\ pc \in {"requesting", "creating"} =>
        ~MatchesChecksum \/ unread = runs

\* Each message tells of more progress than those before it.
Growing(messages) ==
    \A i, j \in 1 .. Len(messages) : i < j => Rank(messages[i]) < Rank(messages[j])

\* What was sent grows and never exceeds what was read; Finished is the last
\* message, sent when everything read is on disk.
SentGrows ==
    /\ Growing(sent)
    /\ pc \in {"requesting", "creating", "copying", "flushing"} =>
         \A i \in 1 .. Len(sent) : Rank(sent[i]) <= downloaded
    /\ \A i \in 1 .. Len(sent) : sent[i] = Finished =>
         /\ pc \notin {"checking", "requesting", "creating", "copying", "flushing"}
         /\ file.bytes = downloaded

\* A subscriber got some of the messages before its position, in their order.
GotSome ==
    \A s \in Subscribers :
      /\ Growing(got[s])
      /\ \A i \in 1 .. Len(got[s]) :
           \E k \in 1 .. Len(sent) : k < next[s] /\ got[s][i] = sent[k]

DiskInv == BeforeCopy /\ WhileCopying /\ AfterCopying /\ RunCounted /\ OnlyBadIsReplaced
FeedInv == SentGrows /\ GotSome
Promises == CheckedSuccess /\ UncheckedSuccess /\ OnlyGoodUnpacked
IInv == TypeOK /\ DiskInv /\ FeedInv /\ Promises

-----------------------------------------------------------------------------
(* The feed.                                                               *)

\* The ranks of messages are numbers, and only Finished has the highest.
LEMMA Ranks ==
  ASSUME NEW m \in Messages
  PROVE  Rank(m) \in 0 .. Size + 1 /\ (m = Finished <=> Rank(m) = Size + 1)
  <1>1. Size \in Nat
    BY FetcherAssumption
  <1>2. CASE m = SetTotal
    BY <1>1, <1>2 DEF Rank, SetTotal, Finished
  <1>3. CASE m = Finished
    BY <1>1, <1>3 DEF Rank, Finished
  <1>4. ASSUME NEW n \in 1 .. Size, m = Update(n)
        PROVE  Rank(m) \in 0 .. Size + 1 /\ (m = Finished <=> Rank(m) = Size + 1)
    BY <1>1, <1>4 DEF Rank, Update, Finished
  <1> QED  BY <1>2, <1>3, <1>4 DEF Messages

\* A message of more progress than all before it keeps the feed in order.
LEMMA SendGrows ==
  ASSUME FeedTypeOK(Messages), Growing(sent), GotSome,
         NEW m \in Messages, \A i \in 1 .. Len(sent) : Rank(sent[i]) < Rank(m), Send(m)
  PROVE  /\ FeedTypeOK(Messages)' /\ Growing(sent') /\ GotSome'
         /\ \A i \in 1 .. Len(sent') : sent'[i] = m \/ \E j \in 1 .. Len(sent) : sent'[i] = sent[j]
  <1>1. sent \in Seq(Messages) /\ sent' = Append(sent, m) /\ next' = next /\ got' = got
    BY DEF FeedTypeOK, Send
  <1>2. /\ sent' \in Seq(Messages) /\ Len(sent') = Len(sent) + 1 /\ Len(sent) \in Nat
        /\ sent'[Len(sent) + 1] = m
        /\ \A i \in 1 .. Len(sent) : sent'[i] = sent[i]
    BY <1>1
  <1>3. FeedTypeOK(Messages)'
    BY <1>1, <1>2 DEF FeedTypeOK
  <1>4. Growing(sent')
    BY <1>2 DEF Growing
  <1>5. GotSome'
    BY <1>1, <1>2 DEF GotSome
  <1> QED  BY <1>2, <1>3, <1>4, <1>5

\* It is enough to look at the subscriber whose task runs.
LEMMA OneSubscriber ==
  ASSUME GotSome, NEW s \in Subscribers, sent' = sent,
         \A t \in Subscribers : t # s => got'[t] = got[t] /\ next'[t] = next[t],
         Growing(got'[s]),
         \A i \in 1 .. Len(got'[s]) :
           \E n \in 1 .. Len(sent') : n < next'[s] /\ got'[s][i] = sent'[n]
  PROVE  GotSome'
  <1> SUFFICES ASSUME NEW t \in Subscribers
               PROVE  /\ Growing(got'[t])
                      /\ \A i \in 1 .. Len(got'[t]) :
                           \E n \in 1 .. Len(sent') : n < next'[t] /\ got'[t][i] = sent'[n]
    BY DEF GotSome
  <1>1. CASE t = s
    BY <1>1
  <1>2. CASE t # s
    <2>1. got'[t] = got[t] /\ next'[t] = next[t] /\ sent' = sent
      BY <1>2
    <2>2. /\ Growing(got[t])
          /\ \A i \in 1 .. Len(got[t]) :
               \E n \in 1 .. Len(sent) : n < next[t] /\ got[t][i] = sent[n]
      BY DEF GotSome
    <2> QED  BY <2>1, <2>2
  <1> QED  BY <1>1, <1>2

\* A message taken from the channel is later than those taken before.
LEMMA ForwardGrows ==
  ASSUME FeedTypeOK(Messages), Growing(sent), GotSome, NEW s \in Subscribers, Forward(s)
  PROVE  FeedTypeOK(Messages)' /\ GotSome'
  <1> DEFINE k == next[s]
  <1>1. /\ sent \in Seq(Messages) /\ Len(sent) \in Nat /\ sent' = sent
        /\ k \in 1 .. Len(sent) /\ sent[k] \in Messages
    BY DEF FeedTypeOK, Forward
  <1>2. got[s] \in Seq(Messages) /\ Len(got[s]) \in Nat
    BY DEF FeedTypeOK
  <1>3. /\ got' = [got EXCEPT ![s] = Append(got[s], sent[k])]
        /\ next' = [next EXCEPT ![s] = k + 1]
    BY DEF Forward
  <1>4. /\ got'[s] = Append(got[s], sent[k]) /\ next'[s] = k + 1
        /\ \A t \in Subscribers : t # s => got'[t] = got[t] /\ next'[t] = next[t]
    BY <1>3 DEF FeedTypeOK
  <1>5. /\ got'[s] \in Seq(Messages) /\ Len(got'[s]) = Len(got[s]) + 1
        /\ got'[s][Len(got[s]) + 1] = sent[k]
        /\ \A i \in 1 .. Len(got[s]) : got'[s][i] = got[s][i]
    BY <1>1, <1>2, <1>4
  <1>6. FeedTypeOK(Messages)'
    <2>1. next' \in [Subscribers -> 0 .. Len(sent') + 1]
      BY <1>1, <1>3 DEF FeedTypeOK
    <2>2. got' \in [Subscribers -> Seq(Messages)]
      BY <1>3, <1>4, <1>5 DEF FeedTypeOK
    <2> QED  BY <1>1, <2>1, <2>2 DEF FeedTypeOK
  <1>7. \A i \in 1 .. Len(got[s]) : Rank(got[s][i]) < Rank(sent[k])
    BY <1>1 DEF GotSome, Growing
  <1>8. Growing(got'[s])
    <2>1. Growing(got[s])
      BY DEF GotSome
    <2> SUFFICES ASSUME NEW i \in 1 .. Len(got[s]) + 1, NEW j \in 1 .. Len(got[s]) + 1, i < j
                 PROVE  Rank(got'[s][i]) < Rank(got'[s][j])
      BY <1>5 DEF Growing
    <2>2. i \in 1 .. Len(got[s]) /\ got'[s][i] = got[s][i]
      BY <1>2, <1>5
    <2>3. CASE j = Len(got[s]) + 1
      BY <1>5, <1>7, <2>2, <2>3
    <2>4. CASE j \in 1 .. Len(got[s])
      BY <1>5, <2>1, <2>2, <2>4 DEF Growing
    <2> QED  BY <1>2, <2>3, <2>4
  <1>9. \A i \in 1 .. Len(got'[s]) :
          \E n \in 1 .. Len(sent') : n < next'[s] /\ got'[s][i] = sent'[n]
    <2> SUFFICES ASSUME NEW i \in 1 .. Len(got[s]) + 1
                 PROVE  \E n \in 1 .. Len(sent) : n < k + 1 /\ got'[s][i] = sent[n]
      BY <1>1, <1>4, <1>5
    <2>1. CASE i = Len(got[s]) + 1
      BY <1>1, <1>5, <2>1
    <2>2. CASE i \in 1 .. Len(got[s])
      <3>1. PICK n \in 1 .. Len(sent) : n < k /\ got[s][i] = sent[n]
        BY <2>2 DEF GotSome
      <3> QED  BY <1>1, <1>5, <2>2, <3>1
    <2> QED  BY <1>2, <2>1, <2>2
  <1>10. GotSome'
    BY <1>1, <1>4, <1>8, <1>9, OneSubscriber
  <1> QED  BY <1>6, <1>10

\* Whatever the progress server does, nothing is sent, and subscribers get
\* messages in order.
LEMMA ServeGrows ==
  ASSUME FeedTypeOK(Messages), Growing(sent), GotSome, Serve
  PROVE  FeedTypeOK(Messages)' /\ GotSome' /\ sent' = sent
  <1>1. PICK s \in Subscribers : Subscribe(s) \/ Forward(s) \/ Lag(s) \/ Unsubscribe(s)
    BY DEF Serve
  <1>2. Len(sent) \in Nat /\ next[s] \in 0 .. Len(sent) + 1 /\ Capacity \in Nat \ {0}
    BY FetcherAssumption DEF FeedTypeOK
  <1>3. CASE Subscribe(s)
    BY <1>2, <1>3 DEF Subscribe, FeedTypeOK, GotSome
  <1>4. CASE Forward(s)
    BY <1>4, ForwardGrows DEF Forward
  <1>5. CASE Lag(s)
    <2>1. next' = [next EXCEPT ![s] = Len(sent) - Capacity + 1] /\ sent' = sent /\ got' = got
      BY <1>5 DEF Lag
    <2>2. next[s] < Len(sent) - Capacity + 1 /\ Len(sent) - Capacity + 1 \in 0 .. Len(sent)
      BY <1>2, <1>5 DEF Lag, Lags
    <2> QED  BY <1>2, <2>1, <2>2 DEF FeedTypeOK, GotSome
  <1>6. CASE Unsubscribe(s)
    <2>1. /\ got' \in [Subscribers -> Seq(Messages)] /\ next' \in [Subscribers -> 0 .. Len(sent) + 1]
          /\ sent' = sent
      BY <1>2, <1>6 DEF Unsubscribe, FeedTypeOK
    <2>2. got'[s] = <<>> /\ \A t \in Subscribers : t # s => got'[t] = got[t] /\ next'[t] = next[t]
      BY <1>6 DEF Unsubscribe, FeedTypeOK
    <2>3. Growing(got'[s]) /\ Len(got'[s]) = 0
      BY <2>2 DEF Growing
    <2>4. GotSome'
      BY <2>1, <2>2, <2>3, OneSubscriber
    <2> QED  BY <2>1, <2>4 DEF FeedTypeOK
  <1> QED  BY <1>1, <1>3, <1>4, <1>5, <1>6

\* A new channel has nothing in it.
LEMMA ResetGrows ==
  ASSUME ResetFeed
  PROVE  FeedTypeOK(Messages)' /\ Growing(sent') /\ GotSome' /\ sent' = <<>>
  BY DEF ResetFeed, FeedTypeOK, Growing, GotSome

\* A step that leaves the feed alone.
LEMMA FeedStays ==
  ASSUME FeedTypeOK(Messages), Growing(sent), GotSome, UNCHANGED feedVars
  PROVE  FeedTypeOK(Messages)' /\ Growing(sent') /\ GotSome' /\ sent' = sent
  BY DEF feedVars, FeedTypeOK, GotSome

-----------------------------------------------------------------------------
(* The steps of a run.                                                     *)

\* The constants are positive numbers, and no archive has more files than units.
LEMMA Sizes ==
  /\ Size \in Nat \ {0} /\ Pipe \in Nat \ {0} /\ MaxRuns \in Nat \ {0}
  /\ \A v \in Versions : Entries[v] \in 1 .. Size
  /\ Good \in Versions
  BY FetcherAssumption

LEMMA StartInv == ASSUME IInv, Start PROVE IInv'
  <1> USE Sizes DEF IInv
  <1>1. FeedTypeOK(Messages)' /\ Growing(sent') /\ GotSome' /\ sent' = <<>>
    BY ResetGrows DEF Start
  <1>2. pc' \in {"checking", "requesting"} /\ (args.skip => pc' = "checking")
    BY DEF Start
  <1>3. TypeOK'
    BY <1>1 DEF Start, diskVars, TypeOK, Fetching
  <1>4. DiskInv'
    BY <1>1, <1>2 DEF Start, DiskInv, BeforeCopy, WhileCopying, AfterCopying, OnlyBadIsReplaced,
                RunCounted, TypeOK
  <1>5. FeedInv'
    BY <1>1 DEF FeedInv, SentGrows
  <1>6. Promises'
    BY <1>2 DEF Start, diskVars, Promises, CheckedSuccess, UncheckedSuccess, OnlyGoodUnpacked
  <1> QED  BY <1>3, <1>4, <1>5, <1>6

LEMMA SkipInv == ASSUME IInv, SkipIfValid PROVE IInv'
  <1> USE Sizes DEF IInv
  <1>1. FeedTypeOK(Messages)' /\ Growing(sent') /\ GotSome' /\ sent' = sent
    BY FeedStays DEF SkipIfValid, TypeOK, FeedInv, SentGrows
  <1>2. /\ UNCHANGED <<args, runs, runVars, diskVars>>
        /\ pc = "checking"
        /\ pc' = IF ~args.archive /\ MatchesChecksum THEN "succeeded" ELSE "requesting"
    BY DEF SkipIfValid
  <1>3. TypeOK'
    BY <1>1, <1>2 DEF runVars, diskVars, TypeOK, Over, Fetching
  <1>4. DiskInv'
    BY <1>1, <1>2 DEF runVars, diskVars, DiskInv, BeforeCopy, WhileCopying, AfterCopying,
                OnlyBadIsReplaced, RunCounted, MatchesChecksum
  <1>5. FeedInv'
    BY <1>1, <1>2 DEF FeedInv, SentGrows, DiskInv, BeforeCopy
  <1>6. Promises'
    BY <1>2 DEF runVars, diskVars, Promises, CheckedSuccess, UncheckedSuccess,
                OnlyGoodUnpacked, MatchesChecksum, DiskInv, BeforeCopy, Unanswered
  <1> QED  BY <1>3, <1>4, <1>5, <1>6

LEMMA CheckFailsInv == ASSUME IInv, CheckFails PROVE IInv'
  <1> USE Sizes DEF IInv
  <1>1. FeedTypeOK(Messages)' /\ Growing(sent') /\ GotSome' /\ sent' = sent
    BY FeedStays DEF CheckFails, TypeOK, FeedInv, SentGrows
  <1>2. /\ UNCHANGED <<args, runs, response, left, buffered, downloaded, entry, diskVars>>
        /\ pc = "checking" /\ pc' = "requesting" /\ unread' = runs
    BY DEF CheckFails
  <1>3. TypeOK'
    BY <1>1, <1>2 DEF diskVars, TypeOK, Over, Fetching
  <1>4. DiskInv'
    BY <1>1, <1>2 DEF diskVars, DiskInv, BeforeCopy, WhileCopying, AfterCopying,
                OnlyBadIsReplaced, RunCounted, MatchesChecksum
  <1>5. FeedInv'
    BY <1>1, <1>2 DEF FeedInv, SentGrows, DiskInv, BeforeCopy
  <1>6. Promises'
    BY <1>2 DEF diskVars, Promises, CheckedSuccess, UncheckedSuccess, OnlyGoodUnpacked
  <1> QED  BY <1>3, <1>4, <1>5, <1>6

LEMMA RequestInv ==
  ASSUME IInv, NEW v \in Versions, NEW framing \in Framings, Request(v, framing)
  PROVE  IInv'
  <1> USE Sizes DEF IInv
  <1>1. sent = <<>> /\ pc = "requesting" /\ downloaded = 0 /\ entry = 0
    BY DEF Request, DiskInv, BeforeCopy
  <1>2. SetTotal \in Messages /\ Rank(SetTotal) = 0
    BY DEF Messages, Rank, SetTotal
  <1>3. /\ FeedTypeOK(Messages)' /\ Growing(sent') /\ GotSome'
        /\ \A i \in 1 .. Len(sent') : sent'[i] = SetTotal
    <2>1. CASE Send(SetTotal)
      BY <1>1, <1>2, <2>1, SendGrows DEF TypeOK, FeedInv, SentGrows
    <2>2. CASE UNCHANGED feedVars
      BY <1>1, <2>2, FeedStays DEF TypeOK, FeedInv, SentGrows
    <2> QED  BY <2>1, <2>2 DEF Request
  <1>4. /\ response' = [version |-> v, framing |-> framing] /\ left' = Size /\ pc' = "creating"
        /\ UNCHANGED <<args, runs, buffered, downloaded, entry, unread, diskVars>>
    BY DEF Request
  <1>5. response' \in Responses
    BY <1>4 DEF Responses
  <1>6. TypeOK'
    BY <1>3, <1>4, <1>5 DEF diskVars, TypeOK, Fetching
  <1>7. DiskInv'
    BY <1>1, <1>4, <1>5 DEF diskVars, DiskInv, BeforeCopy, WhileCopying, AfterCopying,
                OnlyBadIsReplaced, RunCounted, MatchesChecksum
  <1>8. FeedInv'
    BY <1>1, <1>2, <1>3, <1>4 DEF FeedInv, SentGrows, SetTotal, Finished
  <1>9. Promises'
    BY <1>4 DEF diskVars, Promises, CheckedSuccess, UncheckedSuccess, OnlyGoodUnpacked
  <1> QED  BY <1>6, <1>7, <1>8, <1>9

LEMMA CreateInv == ASSUME IInv, Create PROVE IInv'
  <1> USE Sizes DEF IInv
  <1>1. FeedTypeOK(Messages)' /\ Growing(sent') /\ GotSome' /\ sent' = sent
    BY FeedStays DEF Create, TypeOK, FeedInv, SentGrows
  <1>2. /\ pc = "creating" /\ pc' = "copying"
        /\ file' = [version |-> response.version, bytes |-> 0]
        /\ temps' \subseteq temps \union {runs}
        /\ UNCHANGED <<args, runs, runVars, tree>>
    BY DEF Create
  <1>3. response \in Responses /\ downloaded = 0 /\ buffered = 0 /\ left = Size /\ entry = 0
    BY <1>2 DEF DiskInv, BeforeCopy
  <1>4. file' \in Contents /\ file'.version = response'.version /\ file'.bytes = 0
    BY <1>2, <1>3 DEF runVars, Contents, Responses
  <1>5. runs \in 1 .. MaxRuns
    BY <1>2 DEF DiskInv, RunCounted
  <1>6. TypeOK'
    BY <1>1, <1>2, <1>4, <1>5 DEF runVars, TypeOK, Fetching
  <1>7. DiskInv'
    BY <1>2, <1>3, <1>4, <1>5 DEF runVars, DiskInv, BeforeCopy, WhileCopying, AfterCopying,
                OnlyBadIsReplaced, RunCounted
  <1>8. FeedInv'
    BY <1>1, <1>2, <1>4 DEF runVars, FeedInv, SentGrows
  <1>9. Promises'
    BY <1>2 DEF runVars, Promises, CheckedSuccess, UncheckedSuccess, OnlyGoodUnpacked
  <1> QED  BY <1>6, <1>7, <1>8, <1>9

\* Reading n units, of which the stream and the buffer give up as many.
LEMMA PollInv ==
  ASSUME IInv, pc = "copying", NEW n \in 1 .. Size,
         downloaded' = downloaded + n, Send(Update(downloaded + n)),
         left' \in Nat, buffered' \in Nat,
         downloaded' + buffered' + left' = Size,
         UNCHANGED <<args, pc, runs, response, entry, unread, diskVars>>
  PROVE  IInv'
  <1> USE Sizes DEF IInv
  <1>1. /\ downloaded \in 0 .. Size /\ downloaded' \in 1 .. Size
        /\ left' \in 0 .. Size /\ buffered' \in 0 .. Size
    <2>1. downloaded \in 0 .. Size
      BY DEF TypeOK
    <2>2. downloaded' \in Nat /\ downloaded' >= 1
      BY <2>1
    <2>3. downloaded' <= Size /\ left' <= Size /\ buffered' <= Size
      BY <2>2
    <2> QED  BY <2>1, <2>2, <2>3
  <1>2. file.bytes \in 0 .. Size /\ file.bytes <= downloaded
    BY DEF DiskInv, WhileCopying, Contents
  <1>3. Update(downloaded') \in Messages /\ Rank(Update(downloaded')) = downloaded'
    BY <1>1 DEF Messages, Rank, Update
  <1>4. /\ FeedTypeOK(Messages)' /\ Growing(sent') /\ GotSome'
        /\ \A i \in 1 .. Len(sent') :
             sent'[i] = Update(downloaded') \/ \E j \in 1 .. Len(sent) : sent'[i] = sent[j]
    <2>1. FeedTypeOK(Messages) /\ Growing(sent) /\ GotSome
      BY DEF TypeOK, FeedInv, SentGrows
    <2>2. \A i \in 1 .. Len(sent) : Rank(sent[i]) < Rank(Update(downloaded'))
      <3> SUFFICES ASSUME NEW i \in 1 .. Len(sent) PROVE Rank(sent[i]) < downloaded'
        BY <1>3
      <3>1. Rank(sent[i]) <= downloaded
        BY DEF FeedInv, SentGrows
      <3>2. Rank(sent[i]) \in 0 .. Size + 1
        BY <2>1, Ranks DEF FeedTypeOK
      <3> QED  BY <1>1, <3>1, <3>2
    <2> QED  BY <1>3, <2>1, <2>2, SendGrows
  <1>5. TypeOK'
    BY <1>1, <1>4 DEF diskVars, TypeOK
  <1>6. DiskInv'
    <2>1. WhileCopying'
      <3>1. file' = file /\ file.bytes <= downloaded' /\ response' = response /\ entry' = entry
        BY <1>1, <1>2 DEF diskVars
      <3> QED  BY <3>1 DEF DiskInv, WhileCopying
    <2>2. BeforeCopy' /\ AfterCopying' /\ RunCounted' /\ OnlyBadIsReplaced'
      BY DEF diskVars, DiskInv, BeforeCopy, AfterCopying, RunCounted, OnlyBadIsReplaced
    <2> QED  BY <2>1, <2>2 DEF DiskInv
  <1>7. \A i \in 1 .. Len(sent') : Rank(sent'[i]) <= downloaded' /\ sent'[i] # Finished
    <2> SUFFICES ASSUME NEW i \in 1 .. Len(sent')
                 PROVE  Rank(sent'[i]) <= downloaded' /\ sent'[i] # Finished
      OBVIOUS
    <2>1. sent'[i] \in Messages /\ Rank(sent'[i]) \in 0 .. Size + 1
      <3>1. sent' \in Seq(Messages)
        BY <1>4 DEF FeedTypeOK
      <3> QED  BY <3>1, Ranks, ElementOfSeq
    <2>2. Rank(sent'[i]) <= downloaded'
      <3>1. CASE sent'[i] = Update(downloaded')
        BY <1>1, <1>3, <3>1
      <3>2. ASSUME NEW j \in 1 .. Len(sent), sent'[i] = sent[j] PROVE Rank(sent'[i]) <= downloaded'
        <4>1. Rank(sent[j]) <= downloaded
          BY DEF FeedInv, SentGrows
        <4> QED  BY <1>1, <2>1, <3>2, <4>1
      <3> QED  BY <1>4, <3>1, <3>2
    <2> QED  BY <1>1, <2>1, <2>2, Ranks
  <1>8. FeedInv'
    BY <1>4, <1>7 DEF FeedInv, SentGrows
  <1>9. Promises'
    BY DEF diskVars, Promises, CheckedSuccess, UncheckedSuccess, OnlyGoodUnpacked
  <1> QED  BY <1>5, <1>6, <1>8, <1>9

LEMMA PollBufferedInv == ASSUME IInv, PollBuffered PROVE IInv'
  <1> USE Sizes
  <1> DEFINE n == Lesser(buffered, Room)
  <1>1. /\ pc = "copying" /\ Room > 0 /\ buffered > 0
        /\ buffered' = buffered - n /\ downloaded' = downloaded + n
        /\ Send(Update(downloaded + n))
        /\ UNCHANGED <<args, pc, runs, response, left, entry, unread, diskVars>>
    BY DEF PollBuffered
  <1>2. /\ left \in Nat /\ buffered \in 0 .. Size /\ downloaded \in Nat /\ file.bytes \in Nat
        /\ downloaded + buffered + left = Size
    BY <1>1 DEF IInv, TypeOK, DiskInv, WhileCopying, Contents
  <1>3. n \in 1 .. Size /\ n <= buffered
    BY <1>1, <1>2 DEF Lesser, Room, Piped
  <1>4. left' \in Nat /\ buffered' \in Nat /\ downloaded' + buffered' + left' = Size
    BY <1>1, <1>2, <1>3
  <1> HIDE DEF n
  <1> QED  BY <1>1, <1>3, <1>4, PollInv

LEMMA PollChunkInv == ASSUME IInv, NEW k \in 1 .. Size, PollChunk(k) PROVE IInv'
  <1> USE Sizes
  <1> DEFINE n == Lesser(k, Room)
  <1>1. /\ pc = "copying" /\ Room > 0 /\ buffered = 0 /\ k \in 1 .. left
        /\ left' = left - k /\ buffered' = k - n /\ downloaded' = downloaded + n
        /\ Send(Update(downloaded + n))
        /\ UNCHANGED <<args, pc, runs, response, entry, unread, diskVars>>
    BY DEF PollChunk
  <1>2. /\ left \in Nat /\ downloaded \in Nat /\ file.bytes \in Nat
        /\ downloaded + buffered + left = Size
    BY <1>1 DEF IInv, TypeOK, DiskInv, WhileCopying, Contents
  <1>3. n \in 1 .. Size /\ n <= k
    BY <1>1, <1>2 DEF Lesser, Room, Piped
  <1>4. left' \in Nat /\ buffered' \in Nat /\ downloaded' + buffered' + left' = Size
    BY <1>1, <1>2, <1>3
  <1> HIDE DEF n
  <1> QED  BY <1>1, <1>3, <1>4, PollInv

LEMMA PollNothingInv == ASSUME IInv, PollNothing PROVE IInv'
  <1> USE Sizes DEF IInv
  <1>1. FeedTypeOK(Messages)' /\ Growing(sent') /\ GotSome' /\ sent' = sent
    BY FeedStays DEF PollNothing, TypeOK, FeedInv, SentGrows
  <1>2. /\ pc = "copying" /\ pc' = "flushing" /\ buffered = 0
        /\ left = 0 \/ response.framing \in {"close", "padded"}
        /\ UNCHANGED <<args, runs, runVars, diskVars>>
    BY DEF PollNothing
  <1>3. TypeOK'
    BY <1>1, <1>2 DEF runVars, diskVars, TypeOK, Fetching
  <1>4. Whole => downloaded = Size
    BY <1>2 DEF Whole, DiskInv, WhileCopying, TypeOK
  <1>5. DiskInv'
    BY <1>2, <1>4 DEF runVars, diskVars, DiskInv, BeforeCopy, WhileCopying, AfterCopying,
                OnlyBadIsReplaced, RunCounted, Whole
  <1>6. FeedInv'
    BY <1>1, <1>2 DEF runVars, diskVars, FeedInv, SentGrows
  <1>7. Promises'
    BY <1>2 DEF runVars, diskVars, Promises, CheckedSuccess, UncheckedSuccess, OnlyGoodUnpacked
  <1> QED  BY <1>3, <1>5, <1>6, <1>7

LEMMA WriteInv == ASSUME IInv, Write PROVE IInv'
  <1> USE Sizes DEF IInv
  <1>1. FeedTypeOK(Messages)' /\ Growing(sent') /\ GotSome' /\ sent' = sent
    BY FeedStays DEF Write, TypeOK, FeedInv, SentGrows
  <1>2. /\ pc \in {"copying", "flushing"}
        /\ UNCHANGED <<args, pc, runs, runVars, temps, tree>>
    BY DEF Write
  <1>3. PICK n \in 1 .. Piped : file' = [file EXCEPT !.bytes = @ + n]
    BY DEF Write
  <1>4. file \in Contents /\ downloaded \in 0 .. Size /\ file.bytes <= downloaded
    BY <1>2 DEF DiskInv, WhileCopying, TypeOK
  <1>5. /\ file' \in Contents /\ file'.version = file.version
        /\ file'.bytes <= downloaded
    BY <1>3, <1>4 DEF Contents, Piped
  <1>6. TypeOK'
    BY <1>1, <1>2, <1>5 DEF runVars, TypeOK
  <1>7. DiskInv'
    BY <1>2, <1>5 DEF runVars, DiskInv, BeforeCopy, WhileCopying, AfterCopying,
                OnlyBadIsReplaced, RunCounted, Whole
  <1>8. FeedInv'
    BY <1>1, <1>2 DEF runVars, FeedInv, SentGrows
  <1>9. Promises'
    BY <1>2 DEF runVars, Promises, CheckedSuccess, UncheckedSuccess, OnlyGoodUnpacked
  <1> QED  BY <1>6, <1>7, <1>8, <1>9

LEMMA CopyEndsInv == ASSUME IInv, CopyEnds PROVE IInv'
  <1> USE Sizes DEF IInv
  <1>1. /\ pc = "flushing" /\ pc' = AfterCopy
        /\ Send(Finished)
        /\ UNCHANGED <<args, runs, runVars, diskVars>>
    BY DEF CopyEnds
  <1>2. file \in Contents /\ file.bytes = downloaded /\ (Whole => file.bytes = Size)
    BY DEF CopyEnds, Piped, DiskInv, WhileCopying, TypeOK, Contents
  <1>3. /\ FeedTypeOK(Messages)' /\ Growing(sent') /\ GotSome'
    <2>1. FeedTypeOK(Messages) /\ Growing(sent) /\ GotSome
      BY DEF TypeOK, FeedInv, SentGrows
    <2>2. Finished \in Messages /\ Rank(Finished) = Size + 1
      BY DEF Messages, Rank, Finished
    <2>3. \A i \in 1 .. Len(sent) : Rank(sent[i]) < Rank(Finished)
      <3> SUFFICES ASSUME NEW i \in 1 .. Len(sent) PROVE Rank(sent[i]) < Size + 1
        BY <2>2
      <3>1. Rank(sent[i]) <= downloaded
        BY <1>1 DEF FeedInv, SentGrows
      <3>2. sent[i] \in Messages
        BY <2>1, ElementOfSeq DEF FeedTypeOK
      <3>3. Rank(sent[i]) \in 0 .. Size + 1 /\ downloaded \in 0 .. Size
        BY <3>2, Ranks DEF TypeOK
      <3> QED  BY <3>1, <3>3
    <2> QED  BY <1>1, <2>1, <2>2, <2>3, SendGrows
  <1>4. TypeOK'
    BY <1>1, <1>3 DEF runVars, diskVars, TypeOK, AfterCopy, Over, Fetching
  <1>5. pc' \in {"verifying", "extracting", "succeeded"}
    BY <1>1 DEF AfterCopy
  <1>6. DiskInv'
    <2>1. AfterCopying'
      BY <1>1, <1>2 DEF runVars, diskVars, DiskInv, WhileCopying, AfterCopying, AfterCopy,
                Whole, MatchesChecksum, Contents
    <2> QED  BY <1>1, <1>5, <2>1 DEF runVars, diskVars, DiskInv, BeforeCopy, WhileCopying,
                OnlyBadIsReplaced, RunCounted
  <1>7. FeedInv'
    BY <1>1, <1>2, <1>3, <1>5 DEF runVars, diskVars, FeedInv, SentGrows
  <1>8. Promises'
    BY <1>1, <1>2 DEF runVars, diskVars, Promises, CheckedSuccess, UncheckedSuccess, OnlyGoodUnpacked,
                MatchesChecksum, AfterCopy, Whole
  <1> QED  BY <1>4, <1>6, <1>7, <1>8

LEMMA VerifyInv == ASSUME IInv, Verify PROVE IInv'
  <1> USE Sizes DEF IInv
  <1>1. FeedTypeOK(Messages)' /\ Growing(sent') /\ GotSome' /\ sent' = sent
    BY FeedStays DEF Verify, TypeOK, FeedInv, SentGrows
  <1>2. /\ pc = "verifying"
        /\ pc' = IF ~MatchesChecksum THEN "failed"
                 ELSE IF args.archive THEN "extracting" ELSE "succeeded"
        /\ UNCHANGED <<args, runs, runVars, diskVars>>
    BY DEF Verify
  <1>3. TypeOK'
    BY <1>1, <1>2 DEF runVars, diskVars, TypeOK, Over, Fetching
  <1>4. DiskInv'
    BY <1>2 DEF runVars, diskVars, DiskInv, BeforeCopy, WhileCopying, AfterCopying,
                OnlyBadIsReplaced, RunCounted, Whole, MatchesChecksum, Contents
  <1>5. FeedInv'
    BY <1>1, <1>2 DEF runVars, diskVars, FeedInv, SentGrows
  <1>6. Promises'
    BY <1>2 DEF runVars, diskVars, Promises, CheckedSuccess, UncheckedSuccess, OnlyGoodUnpacked,
                MatchesChecksum, DiskInv, AfterCopying
  <1> QED  BY <1>3, <1>4, <1>5, <1>6

LEMMA ExtractEntryInv == ASSUME IInv, ExtractEntry PROVE IInv'
  <1> USE Sizes DEF IInv
  <1>1. FeedTypeOK(Messages)' /\ Growing(sent') /\ GotSome' /\ sent' = sent
    BY FeedStays DEF ExtractEntry, TypeOK, FeedInv, SentGrows
  <1>2. /\ pc = "extracting" /\ entry' = entry + 1
        /\ tree' = [tree EXCEPT ![entry + 1] = file.version]
        /\ UNCHANGED <<args, pc, runs, response, left, buffered, downloaded, unread, file, temps>>
    BY DEF ExtractEntry
  <1>3. /\ file \in Contents
        /\ args.checked => MatchesChecksum
        /\ entry \in 0 .. Size
        /\ \A e \in 1 .. entry : tree[e] = file.version
    BY <1>2 DEF DiskInv, AfterCopying, TypeOK
  <1>4. file.version \in Versions /\ file.bytes \in 0 .. Size /\ Entries[file.version] \in 1 .. Size
    BY <1>3 DEF Contents
  <1>5. entry + 1 \in 1 .. Size /\ entry + 1 <= Entries[file.version]
    BY <1>3, <1>4 DEF ExtractEntry, Lesser
  <1>6. /\ tree' \in [1 .. Size -> Versions \union {"absent", "torn"}]
        /\ tree'[entry + 1] = file.version
        /\ \A e \in 1 .. Size : e # entry + 1 => tree'[e] = tree[e]
    BY <1>2, <1>4, <1>5 DEF TypeOK
  <1>7. TypeOK'
    BY <1>1, <1>2, <1>5, <1>6 DEF TypeOK
  <1>8. DiskInv'
    <2>1. \A e \in 1 .. entry' : tree'[e] = file.version
      BY <1>2, <1>3, <1>4, <1>5, <1>6
    <2>2. AfterCopying'
      BY <1>2, <1>3, <1>5, <2>1 DEF DiskInv, AfterCopying, Whole, MatchesChecksum
    <2> QED  BY <1>2, <2>2 DEF DiskInv, BeforeCopy, WhileCopying, OnlyBadIsReplaced, RunCounted
  <1>9. FeedInv'
    BY <1>1, <1>2 DEF FeedInv, SentGrows
  <1>10. Promises'
    <2>1. args.checked => file.version = Good
      BY <1>3 DEF MatchesChecksum
    <2> QED  BY <1>2, <1>6, <2>1 DEF Promises, CheckedSuccess, UncheckedSuccess, OnlyGoodUnpacked
  <1> QED  BY <1>7, <1>8, <1>9, <1>10

LEMMA ExtractedInv == ASSUME IInv, Extracted PROVE IInv'
  <1> USE Sizes DEF IInv
  <1>1. FeedTypeOK(Messages)' /\ Growing(sent') /\ GotSome' /\ sent' = sent
    BY FeedStays DEF Extracted, TypeOK, FeedInv, SentGrows
  <1>2. /\ pc = "extracting" /\ pc' = "removing" /\ entry = Entries[file.version]
        /\ UNCHANGED <<args, runs, runVars, diskVars>>
    BY DEF Extracted
  <1>3. TypeOK'
    BY <1>1, <1>2 DEF runVars, diskVars, TypeOK, Over, Fetching
  <1>4. DiskInv'
    BY <1>2 DEF runVars, diskVars, DiskInv, BeforeCopy, WhileCopying, AfterCopying,
                OnlyBadIsReplaced, RunCounted, Whole, MatchesChecksum
  <1>5. FeedInv'
    BY <1>1, <1>2 DEF runVars, diskVars, FeedInv, SentGrows
  <1>6. Promises'
    BY <1>2 DEF runVars, diskVars, Promises, CheckedSuccess, UncheckedSuccess, OnlyGoodUnpacked,
                MatchesChecksum
  <1> QED  BY <1>3, <1>4, <1>5, <1>6

LEMMA RemoveTempInv == ASSUME IInv, RemoveTemp PROVE IInv'
  <1> USE Sizes DEF IInv
  <1>1. FeedTypeOK(Messages)' /\ Growing(sent') /\ GotSome' /\ sent' = sent
    BY FeedStays DEF RemoveTemp, TypeOK, FeedInv, SentGrows
  <1>2. /\ pc = "removing" /\ pc' = "succeeded" /\ temps' = temps \ {runs}
        /\ UNCHANGED <<args, runs, runVars, file, tree>>
    BY DEF RemoveTemp
  <1>3. TypeOK'
    BY <1>1, <1>2 DEF runVars, TypeOK, Over
  <1>4. DiskInv'
    BY <1>2 DEF runVars, diskVars, DiskInv, BeforeCopy, WhileCopying, AfterCopying,
                OnlyBadIsReplaced, RunCounted, Whole, MatchesChecksum
  <1>5. FeedInv'
    BY <1>1, <1>2 DEF runVars, FeedInv, SentGrows
  <1>6. args.archive /\ Unpacked(file.version) /\ (args.checked => file.version = Good)
    BY <1>2 DEF DiskInv, AfterCopying, Unpacked, MatchesChecksum
  <1>7. Promises'
    BY <1>2, <1>6 DEF runVars, Promises, CheckedSuccess, UncheckedSuccess, OnlyGoodUnpacked, Unpacked
  <1> QED  BY <1>3, <1>4, <1>5, <1>7

\* The torn entry is the only change of the unpacked files.
LEMMA TreeTorn ==
    ASSUME TypeOK, TearEntry
    PROVE  /\ tree' \in [1 .. Size -> Versions \union {"absent", "torn"}]
           /\ \A e \in 1 .. Size : tree'[e] \in {tree[e], "torn"}
  <1>1. CASE UNCHANGED tree
    BY <1>1 DEF TypeOK
  <1>2. CASE tree' = [tree EXCEPT ![entry + 1] = "torn"]
    BY <1>2 DEF TypeOK
  <1> QED  BY <1>1, <1>2 DEF TearEntry

\* Whatever ends a run before its success keeps the invariant.
LEMMA EndsInv == ASSUME IInv, ExtractFails \/ Fails \/ Crash PROVE IInv'
  <1> USE Sizes DEF IInv
  <1>1. FeedTypeOK(Messages)' /\ Growing(sent') /\ GotSome' /\ sent' = sent
    BY FeedStays DEF ExtractFails, Fails, Crash, TypeOK, FeedInv, SentGrows
  <1>2. /\ pc \notin Over /\ pc' \in {"failed", "crashed"}
        /\ UNCHANGED <<args, runs, runVars, file, temps>>
        /\ TearEntry
    BY DEF ExtractFails, Fails, Crash, Over, Fetching
  <1>3. TypeOK'
    BY <1>1, <1>2, TreeTorn DEF runVars, TypeOK, Over
  <1>4. DiskInv'
    BY <1>2 DEF runVars, DiskInv, BeforeCopy, WhileCopying, AfterCopying,
                OnlyBadIsReplaced, RunCounted, Whole, MatchesChecksum, Over
  <1>5. FeedInv'
    BY <1>1, <1>2 DEF runVars, FeedInv, SentGrows
  <1>6. Promises'
    <2>1. OnlyGoodUnpacked'
      BY <1>2, TreeTorn DEF Promises, OnlyGoodUnpacked
    <2> QED  BY <1>2, <2>1 DEF runVars, Promises, CheckedSuccess, UncheckedSuccess
  <1> QED  BY <1>3, <1>4, <1>5, <1>6

LEMMA ServeInv == ASSUME IInv, Serve PROVE IInv'
  <1> USE DEF IInv
  <1>1. FeedTypeOK(Messages)' /\ GotSome' /\ sent' = sent
    BY ServeGrows DEF TypeOK, FeedInv, SentGrows
  <1>2. UNCHANGED <<args, pc, runs, runVars, diskVars>> /\ pc \in Fetching
    BY DEF Serve
  <1>3. TypeOK'
    BY <1>1, <1>2 DEF runVars, diskVars, TypeOK
  <1>4. DiskInv'
    BY <1>1, <1>2 DEF runVars, diskVars, DiskInv, BeforeCopy, WhileCopying, AfterCopying,
                OnlyBadIsReplaced, RunCounted, Whole, MatchesChecksum
  <1>5. FeedInv'
    BY <1>1, <1>2 DEF runVars, diskVars, FeedInv, SentGrows
  <1>6. Promises'
    BY <1>2 DEF runVars, diskVars, Promises, CheckedSuccess, UncheckedSuccess, OnlyGoodUnpacked,
                MatchesChecksum, Unpacked
  <1> QED  BY <1>3, <1>4, <1>5, <1>6

LEMMA StutterInv == ASSUME IInv, UNCHANGED vars PROVE IInv'
  <1> USE DEF IInv
  <1>1. UNCHANGED <<args, pc, runs, runVars, diskVars, feedVars>>
    BY DEF vars
  <1>2. FeedTypeOK(Messages)' /\ Growing(sent') /\ GotSome' /\ sent' = sent
    BY <1>1, FeedStays DEF TypeOK, FeedInv, SentGrows
  <1>3. TypeOK'
    BY <1>1, <1>2 DEF runVars, diskVars, TypeOK
  <1>4. DiskInv'
    BY <1>1, <1>2 DEF runVars, diskVars, DiskInv, BeforeCopy, WhileCopying, AfterCopying,
                OnlyBadIsReplaced, RunCounted, Whole, MatchesChecksum
  <1>5. FeedInv'
    BY <1>1, <1>2 DEF runVars, diskVars, FeedInv, SentGrows
  <1>6. Promises'
    BY <1>1 DEF runVars, diskVars, Promises, CheckedSuccess, UncheckedSuccess, OnlyGoodUnpacked,
                MatchesChecksum, Unpacked
  <1> QED  BY <1>3, <1>4, <1>5, <1>6

\* The initial state: nothing was fetched yet.
LEMMA InitInv == Init => IInv
  <1> SUFFICES ASSUME Init PROVE IInv
    OBVIOUS
  <1> USE Sizes
  <1>1. FeedTypeOK(Messages) /\ Growing(sent) /\ GotSome
    BY DEF Init, InitFeed, FeedTypeOK, Growing, GotSome
  <1>2. TypeOK
    BY <1>1 DEF Init, TypeOK, Over
  <1>3. DiskInv
    BY DEF Init, DiskInv, BeforeCopy, WhileCopying, AfterCopying, OnlyBadIsReplaced, RunCounted
  <1>4. FeedInv
    BY <1>1 DEF Init, InitFeed, FeedInv, SentGrows
  <1>5. Promises
    BY DEF Init, Promises, CheckedSuccess, UncheckedSuccess, OnlyGoodUnpacked
  <1> QED  BY <1>2, <1>3, <1>4, <1>5 DEF IInv

\* Every step keeps it.
LEMMA StepInv == IInv /\ [Next]_vars => IInv'
  <1> SUFFICES ASSUME IInv, [Next]_vars PROVE IInv'
    OBVIOUS
  <1>1. CASE Start
    BY <1>1, StartInv
  <1>2. CASE SkipIfValid
    BY <1>2, SkipInv
  <1>3. ASSUME NEW v \in Versions, NEW f \in Framings, Request(v, f) PROVE IInv'
    BY <1>3, RequestInv
  <1>4. CASE Create
    BY <1>4, CreateInv
  <1>5. CASE PollBuffered
    BY <1>5, PollBufferedInv
  <1>6. ASSUME NEW k \in 1 .. Size, PollChunk(k) PROVE IInv'
    BY <1>6, PollChunkInv
  <1>7. CASE PollNothing
    BY <1>7, PollNothingInv
  <1>8. CASE Write
    BY <1>8, WriteInv
  <1>9. CASE CopyEnds
    BY <1>9, CopyEndsInv
  <1>10. CASE Verify
    BY <1>10, VerifyInv
  <1>11. CASE ExtractEntry
    BY <1>11, ExtractEntryInv
  <1>12. CASE Extracted
    BY <1>12, ExtractedInv
  <1>13. CASE RemoveTemp
    BY <1>13, RemoveTempInv
  <1>14. CASE ExtractFails \/ Fails \/ Crash
    BY <1>14, EndsInv
  <1>15. CASE Serve
    BY <1>15, ServeInv
  <1>16. CASE UNCHANGED vars
    BY <1>16, StutterInv
  <1>17. CASE CheckFails
    BY <1>17, CheckFailsInv
  <1> QED  BY <1>1, <1>2, <1>3, <1>4, <1>5, <1>6, <1>7, <1>8, <1>9, <1>10, <1>11, <1>12,
              <1>13, <1>14, <1>15, <1>16, <1>17 DEF Next, Proceed

LEMMA Invariance == Spec => []IInv
  <1> QED  BY InitInv, StepInv, PTL DEF Spec

-----------------------------------------------------------------------------
(* The results.                                                            *)

\* The variables stay in their types.
THEOREM TypeCorrect == Spec => []TypeOK
  <1>1. IInv => TypeOK
    BY DEF IInv
  <1> QED  BY <1>1, Invariance, PTL

\* AsyncProgressReader and the copy loop neither lose nor double a unit, for any
\* sizes of chunks and of reads.
THEOREM NothingIsLost == Spec => []NothingLostOnTheWay
  <1>1. IInv => NothingLostOnTheWay
    BY DEF IInv, DiskInv, WhileCopying, NothingLostOnTheWay
  <1> QED  BY <1>1, Invariance, PTL

\* With a checksum, a run that exits 0 leaves the whole good version, whatever
\* framing the server chose and whatever earlier runs left behind.
THEOREM CheckedRunsAreGood == Spec => []CheckedSuccess
  <1>1. IInv => CheckedSuccess
    BY DEF IInv, Promises
  <1> QED  BY <1>1, Invariance, PTL

\* Without one, it leaves a whole version unless the body could end early unnoticed.
THEOREM UncheckedRunsAreWhole == Spec => []UncheckedSuccess
  <1>1. IInv => UncheckedSuccess
    BY DEF IInv, Promises
  <1> QED  BY <1>1, Invariance, PTL

\* With a checksum, no archive of another version is unpacked, not even in part.
THEOREM UnpacksOnlyGood == Spec => []OnlyGoodUnpacked
  <1>1. IInv => OnlyGoodUnpacked
    BY DEF IInv, Promises
  <1> QED  BY <1>1, Invariance, PTL

\* No subscriber sees progress twice or going back, however far it lags.
THEOREM SubscribersSeeGrowth == Spec => []ProgressOnlyGrows
  <1>1. IInv => ProgressOnlyGrows
    BY DEF IInv, FeedInv, GotSome, Growing, ProgressOnlyGrows
  <1> QED  BY <1>1, Invariance, PTL

\* Who was told Finished can read all that was downloaded.
THEOREM FinishedIsWritten == Spec => []FinishedMeansWritten
  <1>1. IInv => FinishedMeansWritten
    <2> SUFFICES ASSUME IInv, NEW s \in Subscribers, NEW i \in 1 .. Len(got[s]),
                        got[s][i] = Finished
                 PROVE  file.bytes = downloaded
      BY DEF FinishedMeansWritten
    <2>1. PICK k \in 1 .. Len(sent) : got[s][i] = sent[k]
      BY DEF IInv, FeedInv, GotSome
    <2> QED  BY <2>1 DEF IInv, FeedInv, SentGrows
  <1> QED  BY <1>1, Invariance, PTL

\* A complete good file is never truncated by a run that may skip the download,
\* as long as that run could read the file.
THEOREM GoodFilesAreKept == Spec => GoodFileIsKept
  <1> DEFINE Kept == args.skip /\ ~args.archive /\ MatchesChecksum => MatchesChecksum' \/ unread = runs
  <1>1. IInv /\ [Next]_vars => [Kept]_vars
    <2> SUFFICES ASSUME IInv, Next, args.skip, ~args.archive, MatchesChecksum, unread # runs
                 PROVE  MatchesChecksum'
      OBVIOUS
    <2> USE Sizes
    <2>1. file' = file => MatchesChecksum'
      BY DEF MatchesChecksum
    <2>2. ~Create
      BY DEF IInv, DiskInv, OnlyBadIsReplaced, Create
    <2>3. ~Write
      <3> SUFFICES ASSUME Write PROVE FALSE
        OBVIOUS
      <3>1. PICK n \in 1 .. Piped : TRUE
        BY DEF Write
      <3>2. downloaded \in 0 .. Size /\ file.bytes = Size
        BY DEF IInv, TypeOK, MatchesChecksum
      <3> QED  BY <3>1, <3>2 DEF Piped
    <2>4. file' = file
      BY <2>2, <2>3 DEF Next, Proceed, Start, SkipIfValid, Request, PollBuffered, PollNothing,
                        CopyEnds, PollChunk, Verify, ExtractEntry, Extracted, ExtractFails,
                        RemoveTemp, CheckFails, Fails, Crash, Serve, diskVars
    <2> QED  BY <2>1, <2>4
  <1> QED  BY <1>1, Invariance, PTL DEF Spec, GoodFileIsKept
=============================================================================
