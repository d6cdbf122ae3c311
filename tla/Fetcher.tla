------------------------------- MODULE Fetcher -------------------------------
(***************************************************************************)
(* The fetcher program (crates/fetcher): one run downloads a URL to a      *)
(* destination, or to a temporary file that it unpacks there when the URL  *)
(* names a .tar.gz; it may verify a checksum, before the download (to skip *)
(* it) and after.  Runs follow one another and may crash at any step; the  *)
(* disk outlives them, the progress feed (ProgressFeed) does not.          *)
(*                                                                         *)
(* Contents are a version and a length: a prefix of Size units of what     *)
(* that version of the source is.  Only Good matches the checksum.         *)
(***************************************************************************)
EXTENDS ProgressFeed, FiniteSets

CONSTANTS Versions,     \* what the URL may serve, over time
          Good,         \* the version the checksum was computed from
          Size,         \* units in a whole body
          Entries,      \* Entries[v]: files in the archive of version v
          Pipe,         \* units the copy loop holds between stream and disk
          MaxRuns       \* bound: runs of the program

ASSUME FetcherAssumption ==
    /\ Good \in Versions
    /\ {Size, Pipe, MaxRuns, Capacity} \subseteq Nat \ {0}
    /\ Entries \in [Versions -> 1 .. Size]

\* How a body is delimited.  A "length" or "chunked" body that breaks off is
\* an error of the stream; a "close" body that breaks off just ends; a "padded"
\* body is framed as well but has zero-length data frames (HTTP/2) in it.
Framings == {"length", "chunked", "close", "padded"}
Contents == [version : Versions, bytes : 0 .. Size]
Absent == [version |-> "absent", bytes |-> 0]
Unanswered == [version |-> "absent", framing |-> "absent"]
Responses == [version : Versions, framing : Framings]

VARIABLES
    args,        \* the command line, the same for every run
    pc,          \* where the current run stands
    runs,        \* how many runs were started
    response,    \* the answer being read
    left,        \* units still in the stream
    buffered,    \* units of a chunk kept in AsyncProgressReader::buffer
    downloaded,  \* AsyncProgressReader::downloaded
    file,        \* the file at download_path
    temps,       \* temporary files on disk, named after the run that made them
    tree,        \* unpacked files: entry -> version, "torn", or "absent"
    entry,       \* entries unpacked by this run
    unread       \* history: the last run that could not read the file it found

runVars == <<response, left, buffered, downloaded, entry, unread>>
diskVars == <<file, temps, tree>>
vars == <<args, pc, runs, runVars, diskVars, feedVars>>

Over == {"idle", "succeeded", "failed", "crashed"}
Fetching == {"requesting", "creating", "copying", "flushing",
             "verifying", "extracting", "removing"}

SetTotal == [type |-> "SetTotal", downloaded |-> 0]
Update(n) == [type |-> "Update", downloaded |-> n]
Finished == [type |-> "Finished", downloaded |-> Size]
Messages == {SetTotal, Finished} \union {Update(n) : n \in 1 .. Size}

\* --skip-if-valid-checksum requires --checksum.
CommandLines ==
    {a \in [archive : BOOLEAN, checked : BOOLEAN, skip : BOOLEAN] :
        a.skip => a.checked}

Init ==
    /\ args \in CommandLines
    /\ pc = "idle" /\ runs = 0
    /\ response = Unanswered
    /\ left = 0 /\ buffered = 0 /\ downloaded = 0 /\ entry = 0 /\ unread = 0
    /\ file = Absent /\ temps = {}
    /\ tree = [e \in 1 .. Size |-> "absent"]
    /\ InitFeed

-----------------------------------------------------------------------------
(* One run. *)

Start ==
    /\ pc \in Over
    /\ runs < MaxRuns
    /\ runs' = runs + 1
    /\ pc' = IF args.skip THEN "checking" ELSE "requesting"
    /\ response' = Unanswered
    /\ left' = 0 /\ buffered' = 0 /\ downloaded' = 0 /\ entry' = 0
    /\ ResetFeed
    /\ UNCHANGED <<args, unread, diskVars>>

MatchesChecksum == file = [version |-> Good, bytes |-> Size]

SkipUnread ==
    /\ pc = "checking"
    /\ pc' = IF ~args.archive /\ file.bytes = Size THEN "succeeded" ELSE "requesting"
    /\ UNCHANGED <<args, runs, runVars, diskVars, feedVars>>

SkipNever ==
    /\ pc = "checking"
    /\ pc' = "requesting"
    /\ UNCHANGED <<args, runs, runVars, diskVars, feedVars>>

\* verify_checksum of a destination that exists; of the directory of an
\* earlier archive it is an error, which counts as a mismatch.
SkipIfValid ==
    /\ pc = "checking"
    /\ pc' = IF ~args.archive /\ MatchesChecksum THEN "succeeded" ELSE "requesting"
    /\ UNCHANGED <<args, runs, runVars, diskVars, feedVars>>

\* The destination exists, but it cannot be looked up, opened or read: that is
\* taken for a mismatch, and the run goes on to replace it.
CheckFails ==
    /\ pc = "checking"
    /\ ~args.archive /\ file # Absent
    /\ pc' = "requesting"
    /\ unread' = runs
    /\ UNCHANGED <<args, runs, response, left, buffered, downloaded, entry,
                   diskVars, feedVars>>

Request(v, framing) ==
    /\ pc = "requesting"
    /\ response' = [version |-> v, framing |-> framing]
    /\ left' = Size
    /\ pc' = "creating"
    /\ IF framing = "length" THEN Send(SetTotal) ELSE UNCHANGED feedVars
    /\ UNCHANGED <<args, runs, buffered, downloaded, entry, unread, diskVars>>

\* File::create truncates the destination, or makes the temporary file.
Create ==
    /\ pc = "creating"
    /\ pc' = "copying"
    /\ file' = [version |-> response.version, bytes |-> 0]
    /\ temps' = IF args.archive THEN temps \union {runs} ELSE temps
    /\ UNCHANGED <<args, runs, runVars, tree, feedVars>>

Piped == downloaded - file.bytes
Room == Pipe - Piped
Lesser(m, n) == IF m < n THEN m ELSE n

PollBufferedDropsRest ==
    /\ pc = "copying" /\ Room > 0 /\ buffered > 0
    /\ LET n == Lesser(buffered, Room) IN
         /\ buffered' = 0
         /\ downloaded' = downloaded + n
         /\ Send(Update(downloaded + n))
    /\ UNCHANGED <<args, pc, runs, response, left, entry, unread, diskVars>>

PollBuffered ==
    /\ pc = "copying" /\ Room > 0 /\ buffered > 0
    /\ LET n == Lesser(buffered, Room) IN
         /\ buffered' = buffered - n
         /\ downloaded' = downloaded + n
         /\ Send(Update(downloaded + n))
    /\ UNCHANGED <<args, pc, runs, response, left, entry, unread, diskVars>>

PollChunkCountsAll(k) ==
    /\ pc = "copying" /\ Room > 0 /\ buffered = 0
    /\ k \in 1 .. left
    /\ left' = left - k
    /\ buffered' = k - Lesser(k, Room)
    /\ downloaded' = downloaded + k
    /\ Send(Update(downloaded + k))
    /\ UNCHANGED <<args, pc, runs, response, entry, unread, diskVars>>

PollChunk(k) ==
    /\ pc = "copying" /\ Room > 0 /\ buffered = 0
    /\ k \in 1 .. left
    /\ left' = left - k
    /\ LET n == Lesser(k, Room) IN
         /\ buffered' = k - n
         /\ downloaded' = downloaded + n
         /\ Send(Update(downloaded + n))
    /\ UNCHANGED <<args, pc, runs, response, entry, unread, diskVars>>

\* Nothing was put into the buffer, which tokio::io::copy takes for the end:
\* the stream is over, or a close-delimited body broke off, or a zero-length
\* chunk arrived.
PollNothing ==
    /\ pc = "copying" /\ Room > 0 /\ buffered = 0
    /\ left = 0 \/ response.framing \in {"close", "padded"}
    /\ pc' = "flushing"
    /\ UNCHANGED <<args, runs, runVars, diskVars, feedVars>>

\* The copy loop and tokio's File pass what was read on to the disk.
Write ==
    /\ pc \in {"copying", "flushing"}
    /\ \E n \in 1 .. Piped : file' = [file EXCEPT !.bytes = @ + n]
    /\ UNCHANGED <<args, pc, runs, runVars, temps, tree, feedVars>>

AfterCopy == IF args.checked THEN "verifying"
             ELSE IF args.archive THEN "extracting" ELSE "succeeded"

CopyEndsUnflushed ==
    /\ pc = "flushing"
    /\ pc' = AfterCopy
    /\ Send(Finished)
    /\ UNCHANGED <<args, runs, runVars, diskVars>>

CopyEndsWhenComplete ==
    /\ pc = "flushing" /\ Piped = 0 /\ downloaded = Size
    /\ pc' = AfterCopy
    /\ Send(Finished)
    /\ UNCHANGED <<args, runs, runVars, diskVars>>

\* copy flushes, then progress.finish() -- before the checksum is verified.
CopyEnds ==
    /\ pc = "flushing" /\ Piped = 0
    /\ pc' = AfterCopy
    /\ Send(Finished)
    /\ UNCHANGED <<args, runs, runVars, diskVars>>

VerifyAfterwards ==
    /\ pc = "verifying"
    /\ pc' = IF args.archive THEN "extracting"
             ELSE IF MatchesChecksum THEN "succeeded" ELSE "failed"
    /\ UNCHANGED <<args, runs, runVars, diskVars, feedVars>>

Verify ==
    /\ pc = "verifying"
    /\ pc' = IF ~MatchesChecksum THEN "failed"
             ELSE IF args.archive THEN "extracting" ELSE "succeeded"
    /\ UNCHANGED <<args, runs, runVars, diskVars, feedVars>>

\* unpack writes the entries in their order, each over what was there.  Entry
\* e takes the e-th unit of the archive; the rest is its end and trailer.
ExtractEntry ==
    /\ pc = "extracting"
    /\ entry < Lesser(Entries[file.version], file.bytes)
    /\ entry' = entry + 1
    /\ tree' = [tree EXCEPT ![entry + 1] = file.version]
    /\ UNCHANGED <<args, pc, runs, response, left, buffered, downloaded,
                   unread, file, temps, feedVars>>

ExtractedAsFarAsItGoes ==
    /\ pc = "extracting"
    /\ entry = Lesser(Entries[file.version], file.bytes)
    /\ pc' = "removing"
    /\ UNCHANGED <<args, runs, runVars, diskVars, feedVars>>

Extracted ==
    /\ pc = "extracting"
    /\ entry = Entries[file.version]
    /\ pc' = "removing"
    /\ UNCHANGED <<args, runs, runVars, diskVars, feedVars>>

RemoveTemp ==
    /\ pc = "removing"
    /\ pc' = "succeeded"
    /\ temps' = temps \ {runs}
    /\ UNCHANGED <<args, runs, runVars, file, tree, feedVars>>

\* A run that ends while it unpacks may leave the entry at hand torn.
TearEntry ==
    \/ UNCHANGED tree
    \/ /\ pc = "extracting" /\ entry < Entries[file.version]
       /\ tree' = [tree EXCEPT ![entry + 1] = "torn"]

\* An archive that breaks off cannot be unpacked to its end.
ExtractFails ==
    /\ pc = "extracting"
    /\ file.bytes < Size
    /\ entry = Lesser(Entries[file.version], file.bytes)
    /\ pc' = "failed"
    /\ TearEntry
    /\ UNCHANGED <<args, runs, runVars, file, temps, feedVars>>

\* The error returns the surroundings cause: the request fails, or the stream,
\* or the disk does, at the creation of the file as at its removal.
Fails ==
    /\ pc \in Fetching
    /\ pc' = "failed"
    /\ TearEntry
    /\ UNCHANGED <<args, runs, runVars, file, temps, feedVars>>

Crash ==
    /\ pc \notin Over
    /\ pc' = "crashed"
    /\ TearEntry
    /\ UNCHANGED <<args, runs, runVars, file, temps, feedVars>>

-----------------------------------------------------------------------------
(* The progress server, up from the end of the check to the end of the run. *)

Serve ==
    /\ pc \in Fetching
    /\ \E s \in Subscribers : Subscribe(s) \/ Forward(s) \/ Lag(s) \/ Unsubscribe(s)
    /\ UNCHANGED <<args, pc, runs, runVars, diskVars>>

Proceed ==
    \/ SkipIfValid
    \/ \E v \in Versions, f \in Framings : Request(v, f)
    \/ Create \/ PollBuffered \/ PollNothing \/ Write \/ CopyEnds
    \/ \E k \in 1 .. Size : PollChunk(k)
    \/ Verify \/ ExtractEntry \/ Extracted \/ ExtractFails \/ RemoveTemp

Next == Start \/ Proceed \/ CheckFails \/ Fails \/ Crash \/ Serve

\* The runtime polls the task until it is done, and the server answers and goes
\* on sending (the fetcher itself has no timeout).  No error need ever happen.
Fairness == WF_vars(Proceed)

Spec == Init /\ [][Next]_vars
FairSpec == Spec /\ Fairness

-----------------------------------------------------------------------------
(* Properties. *)

\* The variables stay in their types.
TypeOK ==
    /\ args \in CommandLines
    /\ pc \in Over \union Fetching \union {"checking"}
    /\ runs \in 0 .. MaxRuns
    /\ response \in Responses \union {Unanswered}
    /\ {left, buffered, downloaded, entry} \subseteq 0 .. Size
    /\ file \in Contents \union {Absent}
    /\ temps \subseteq 1 .. runs
    /\ tree \in [1 .. Size -> Versions \union {"absent", "torn"}]
    /\ unread \in 0 .. runs
    /\ FeedTypeOK(Messages)

\* What the stream has delivered is on disk, in the copy loop or in the buffer,
\* once, whatever the sizes of chunks and of the copy's reads.
NothingLostOnTheWay ==
    pc \in {"copying", "flushing"} =>
        /\ file.bytes <= downloaded
        /\ downloaded + buffered + left = Size

Unpacked(v) == \A e \in 1 .. Entries[v] : tree[e] = v

\* A run that was given a checksum and exits 0 leaves the version it names,
\* whole: however the body was framed, whatever earlier runs left behind.
CheckedSuccess ==
    pc = "succeeded" /\ args.checked =>
        IF args.archive THEN Unpacked(Good) ELSE MatchesChecksum

\* Without a checksum, a run that exits 0 leaves one whole version, unless a
\* plain body could end early unnoticed; an archive is whole even then.
UncheckedSuccess ==
    pc = "succeeded" =>
        IF args.archive THEN Unpacked(file.version)
        ELSE response.framing \in {"length", "chunked"} => file.bytes = Size

\* With a checksum, no file is unpacked from an archive of another version
\* (a torn one is what is left of an entry of the good archive).
OnlyGoodUnpacked ==
    args.checked => \A e \in 1 .. Size : tree[e] \in {Good, "absent", "torn"}

\* Each subscriber is told of ever more progress: late or lagging, it misses
\* messages but sees none twice or out of order, and nothing after Finished.
Rank(m) == IF m.type = "Finished" THEN Size + 1 ELSE m.downloaded
ProgressOnlyGrows ==
    \A s \in Subscribers : \A i, j \in 1 .. Len(got[s]) :
        i < j => Rank(got[s][i]) < Rank(got[s][j])

\* Who was told Finished can read all that was downloaded, on disk.
FinishedMeansWritten ==
    \A s \in Subscribers : \A i \in 1 .. Len(got[s]) :
        got[s][i] = Finished => file.bytes = downloaded

\* With --skip-if-valid-checksum, a complete good file is never given up again:
\* however the earlier run ended, no later one truncates it, unless it could not
\* read the file when it checked it.
GoodFileIsKept ==
    [][args.skip /\ ~args.archive /\ MatchesChecksum => MatchesChecksum' \/ unread = runs]_vars

\* Every run ends, also on a body that breaks off.
RunsEnd == pc \notin Over ~> pc \in Over
=============================================================================
