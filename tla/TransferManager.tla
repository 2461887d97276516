--------------------------- MODULE TransferManager ---------------------------
(***************************************************************************)
(* The transfer manager of the server crates                               *)
(* (server/transfer/src/manager.rs): uploads and downloads in chunks for   *)
(* any number of concurrent callers, over the rate controller and the      *)
(* storage engine.  The session table is behind a lock that no call keeps  *)
(* across an await: a call reads the session, works on the disk, and       *)
(* writes to the session later, whatever others did in between.            *)
(*                                                                         *)
(* A chunk comes with the hash its sender computed, so its data are either *)
(* right or found to be damaged; an index may be one the file lacks.       *)
(***************************************************************************)
EXTENDS ChunkLayout, RateController, FiniteSets

CONSTANTS
    Callers,   \* tasks that call the manager, one call after another
    Files,     \* file ids
    FileOf,    \* the file of each session
    FileSize,  \* the size of each file
    Roles,     \* Roles[s]: the directions s may be initiated in
    Retried,   \* bound: the chunks received by receive_chunk_with_retry too
    MaxRetries,
    MaxWrites, \* max_concurrent_writes, the permits of the storage engine
    Bounds     \* how many calls, how many failures: damaged chunks, failed
               \* operations, crashes

ASSUME ManagerAssumption ==
    /\ IsFiniteSet(Callers) /\ Callers # {}
    /\ FileOf \in [Sessions -> Files]
    /\ FileSize \in [Files -> SafeSizes]
    /\ Roles \in [Sessions -> SUBSET {"Upload", "Download"}]
    /\ Retried \subseteq Nat
    /\ MaxRetries \in Nat
    /\ MaxWrites \in Nat \ {0}
    /\ Bounds \in [{"call", "failure"} -> Nat]

VARIABLES
    direction, \* direction[s]: of a session that somebody tried to initiate
    status,    \* status[s]: "none" before it is listed, "lost" after a crash
    size,      \* size[s]: file_meta.size
    progress,  \* progress[s]: the chunks and retry counts of s
    stored,    \* stored[f]: the chunks of which the disk has the right bytes
    call,      \* call[c]: the call that c is in
    reported,  \* uploads whose caller was told that they are complete
    trusting,  \* downloads initiated when the upload of their file was
    spent      \* how many of each bounded thing happened so far

sessionVars == <<direction, status, size, progress>>
vars == <<rateVars, sessionVars, stored, call, reported, trusting, spent>>

\* Chunk indices, with the one past the end that a client counting from one
\* would send: nothing compares an index with the number of chunks.
Indices(f)  == 0 .. TotalChunks(FileSize[f])
AllIndices  == UNION {Indices(f) : f \in Files}
Right(f)    == ChunksOf(FileSize[f])
Length(s, i) == ChunkLength(size[s], i)

\* The length of a file on disk, which a chunk past the end extends.
DiskSize(f) ==
    LET past == TotalChunks(FileSize[f])
    IN  IF past \in stored[f] THEN ChunkOffset(past) + ChunkSize ELSE FileSize[f]

Allocated(f) == \E s \in Sessions : FileOf[s] = f /\ direction[s] = "Upload"
Listed(s)    == status[s] \notin {"none", "lost"}

\* completed_chunks are the keys of chunk_hashes too; spoiled are those whose
\* recorded hash is that of other bytes than the file's.
Fresh == [completed |-> {}, spoiled |-> {}, retries |-> [i \in AllIndices |-> 0]]
Progress == [completed : SUBSET AllIndices, spoiled : SUBSET AllIndices,
             retries : [AllIndices -> Nat]]

\* What a call is about; the chunks that it has still to read back, and those
\* whose hash in its copy of the session is odd.
Receiving == {"receive_chunk", "receive_chunk_with_retry"}
Reading   == {"finalize_upload", "resume_transfer"}
Stages    == {"acquire", "check", "permit", "write", "failed", "record", "read"}
Calls == [op : Receiving \cup Reading \cup {"send_chunk"}, session : Sessions,
          index : AllIndices, sound : BOOLEAN, left : SUBSET AllIndices,
          odd : SUBSET AllIndices, at : Stages]
Idle == [at |-> "idle"]

TypeOK ==
    /\ RateTypeOK
    /\ direction \in [Sessions -> {"none", "Upload", "Download"}]
    /\ status \in [Sessions -> {"none", "InProgress", "Paused", "Completed", "lost"}]
    /\ size \in [Sessions -> Nat]
    /\ progress \in [Sessions -> Progress]
    /\ stored \in [Files -> SUBSET AllIndices]
    /\ call \in [Callers -> Calls \cup {Idle}]
    /\ reported \subseteq Sessions
    /\ trusting \subseteq Sessions
    /\ spent \in [DOMAIN Bounds -> Nat]
    /\ \A what \in DOMAIN Bounds : spent[what] <= Bounds[what]

Init ==
    /\ RateInit
    /\ direction = [s \in Sessions |-> "none"]
    /\ status = [s \in Sessions |-> "none"]
    /\ size = [s \in Sessions |-> 0]
    /\ progress = [s \in Sessions |-> Fresh]
    /\ stored = [f \in Files |-> {}]
    /\ call = [c \in Callers |-> Idle]
    /\ reported = {} /\ trusting = {}
    /\ spent = [what \in DOMAIN Bounds |-> 0]

BeginChunk(c, op, s, i, sound, stage) ==
    call' = [call EXCEPT ![c] = [op |-> op, session |-> s, index |-> i, sound |-> sound,
                                 left |-> {}, odd |-> {}, at |-> stage]]
BeginRead(c, op, s, left, odd) ==
    call' = [call EXCEPT ![c] = [op |-> op, session |-> s, index |-> 0, sound |-> TRUE,
                                 left |-> left, odd |-> odd, at |-> "read"]]
GoTo(c, stage) == call' = [call EXCEPT ![c].at = stage]
Return(c)      == call' = [call EXCEPT ![c] = Idle]

\* A call returns an error; receive_chunk_with_retry counts it first.
Fail(c) ==
    IF call[c].op = "receive_chunk_with_retry" THEN GoTo(c, "failed") ELSE Return(c)

\* Calls begin and things go wrong a bounded number of times.
Spend(kinds) ==
    /\ \A what \in kinds : spent[what] < Bounds[what]
    /\ spent' = [what \in DOMAIN Bounds |-> spent[what] + (IF what \in kinds THEN 1 ELSE 0)]

-----------------------------------------------------------------------------
(* Sessions begin. *)

\* allocate_file truncates, whoever had the file.  When it fails after that
\* there is no session.
initiate_upload(s) ==
    /\ "Upload" \in Roles[s]
    /\ direction[s] = "none"
    /\ direction' = [direction EXCEPT ![s] = "Upload"]
    /\ stored' = [stored EXCEPT ![FileOf[s]] = {}]
    /\ \/ /\ status' = [status EXCEPT ![s] = "InProgress"]
          /\ size' = [size EXCEPT ![s] = FileSize[FileOf[s]]]
          /\ UNCHANGED spent
       \/ /\ Spend({"failure"})
          /\ UNCHANGED <<status, size>>
    /\ UNCHANGED <<rateVars, progress, call, reported, trusting>>

\* Any file that is there will do, an upload in progress too.
initiate_download(s) ==
    /\ "Download" \in Roles[s]
    /\ direction[s] = "none"
    /\ Allocated(FileOf[s])
    /\ direction' = [direction EXCEPT ![s] = "Download"]
    /\ status' = [status EXCEPT ![s] = "InProgress"]
    /\ size' = [size EXCEPT ![s] = DiskSize(FileOf[s])]
    /\ trusting' = IF \E u \in reported : FileOf[u] = FileOf[s]
                     THEN trusting \cup {s} ELSE trusting
    /\ UNCHANGED <<rateVars, progress, stored, call, reported, spent>>

-----------------------------------------------------------------------------
(* receive_chunk, alone or with retries. *)

\* receive_chunk_with_retry gives up on a chunk that has failed too often.
\* Mutant: one more time.
MayTryOnceMore(s, i) == Listed(s) /\ progress[s].retries[i] <= MaxRetries

MayTry(s, i) == Listed(s) /\ progress[s].retries[i] < MaxRetries

\* The chunk arrives; with retries, the count of its failures is looked at now.
\* Chunks are received for uploads only, although the code would for any session.
CallReceive(c) ==
    /\ call[c] = Idle
    /\ \E op \in Receiving, s \in Sessions, sound \in BOOLEAN : \E i \in Indices(FileOf[s]) :
         /\ direction[s] = "Upload"
         /\ op = "receive_chunk_with_retry" => i \in Retried /\ MayTry(s, i)
         /\ Spend(IF sound THEN {"call"} ELSE {"call", "failure"})
         /\ BeginChunk(c, op, s, i, sound, "acquire")
    /\ UNCHANGED <<rateVars, sessionVars, stored, reported, trusting>>

\* It asks for its bytes.
Acquire(c) ==
    LET bytes == Length(call[c].session, call[c].index)
    IN  /\ call[c].at = "acquire"
        /\ \/ Grant(call[c].session, bytes) /\ GoTo(c, "check")
           \/ Refuse(call[c].session, bytes) /\ Fail(c)
        /\ UNCHANGED <<sessionVars, stored, reported, trusting, spent>>

\* verify_chunk, and the status; an error here keeps the budget.
Check(c) ==
    /\ call[c].at = "check"
    /\ IF call[c].sound /\ status[call[c].session] = "InProgress"
         THEN GoTo(c, "permit")
         ELSE Fail(c)
    /\ UNCHANGED <<rateVars, sessionVars, stored, reported, trusting, spent>>

\* The semaphore of write_chunk.
TakePermit(c) ==
    /\ call[c].at = "permit"
    /\ Cardinality({d \in Callers : call[d].at = "write"}) < MaxWrites
    /\ GoTo(c, "write")
    /\ UNCHANGED <<rateVars, sessionVars, stored, reported, trusting, spent>>

\* Mutant: reports a whole chunk, for the last one too.
WriteWhole(c) ==
    LET s == call[c].session  i == call[c].index
    IN  /\ call[c].at = "write"
        /\ stored' = [stored EXCEPT ![FileOf[s]] = @ \cup {i}]
        /\ report_transferred(ChunkSize)
        /\ GoTo(c, "record")
        /\ UNCHANGED <<sessionVars, reported, trusting, spent>>

Write(c) ==
    LET s == call[c].session  i == call[c].index
    IN  /\ call[c].at = "write"
        /\ stored' = [stored EXCEPT ![FileOf[s]] = @ \cup {i}]
        /\ report_transferred(Length(s, i))
        /\ GoTo(c, "record")
        /\ UNCHANGED <<sessionVars, reported, trusting, spent>>

\* The budget is kept here too.
\* Mutant: the error is overlooked.
WriteFailsUnseen(c) ==
    /\ call[c].at = "write"
    /\ Spend({"failure"})
    /\ GoTo(c, "record")
    /\ UNCHANGED <<rateVars, sessionVars, stored, reported, trusting>>

WriteFails(c) ==
    /\ call[c].at = "write"
    /\ Spend({"failure"})
    /\ Fail(c)
    /\ UNCHANGED <<rateVars, sessionVars, stored, reported, trusting>>

\* The chunk and its hash enter the session, whatever its status is by now.
Record(c) ==
    LET s == call[c].session  i == call[c].index
    IN  /\ call[c].at = "record"
        /\ progress' = [progress EXCEPT
             ![s].completed = @ \cup {i},
             ![s].spoiled = IF call[c].sound THEN @ \ {i} ELSE @ \cup {i}]
        /\ Return(c)
        /\ UNCHANGED <<rateVars, direction, status, size, stored, reported, trusting, spent>>

CountFailure(c) ==
    LET s == call[c].session  i == call[c].index
    IN  /\ call[c].at = "failed"
        /\ progress' = [progress EXCEPT ![s].retries[i] = @ + 1]
        /\ Return(c)
        /\ UNCHANGED <<rateVars, direction, status, size, stored, reported, trusting, spent>>

-----------------------------------------------------------------------------
(* send_chunk. *)

\* A chunk that the file lacks is asked for a bounded number of times.
CallSend(c) ==
    /\ call[c] = Idle
    /\ \E s \in Sessions : \E i \in Indices(FileOf[s]) :
         /\ direction[s] = "Download"
         /\ status[s] = "InProgress"
         /\ \/ /\ Grant(s, Length(s, i))
               /\ BeginChunk(c, "send_chunk", s, i, TRUE, "read")
               /\ Spend(IF i \in ChunksOf(size[s]) THEN {"call"} ELSE {"call", "failure"})
            \/ Refuse(s, Length(s, i)) /\ UNCHANGED <<call, spent>>
    /\ UNCHANGED <<sessionVars, stored, reported, trusting>>

\* read_exact, within the file; what it reads is hashed as it is.
SendRead(c) ==
    LET s == call[c].session  i == call[c].index  f == FileOf[call[c].session]
    IN  /\ call[c].at = "read"
        /\ call[c].op = "send_chunk"
        /\ IF ChunkOffset(i) + Length(s, i) <= DiskSize(f)
             THEN /\ report_transferred(Length(s, i))
                  /\ call' = [call EXCEPT ![c].at = "record", ![c].sound = i \in stored[f]]
             ELSE Return(c) /\ UNCHANGED rateVars
        /\ UNCHANGED <<sessionVars, stored, reported, trusting, spent>>

-----------------------------------------------------------------------------
(* finalize_upload and resume_transfer, which read chunks back. *)

\* Mutant: as many chunks as there are will do.
NothingToRead(s) == {}
ToRead(s) == Right(FileOf[s])

\* All chunks are there by their number, and are read for the hash of the whole.
CallFinalize(c) ==
    /\ call[c] = Idle
    /\ \E s \in Sessions :
         /\ direction[s] = "Upload"
         /\ status[s] = "InProgress"
         /\ Cardinality(progress[s].completed) = TotalChunks(size[s])
         /\ BeginRead(c, "finalize_upload", s, ToRead(s), {})
    /\ Spend({"call"})
    /\ UNCHANGED <<rateVars, sessionVars, stored, reported, trusting>>

\* The session is copied, in whatever status, and its chunks are to be read.
\* A caller that passes another size than the session's gets an error at once.
CallResume(c) ==
    /\ call[c] = Idle
    /\ \E s \in Sessions :
         /\ Listed(s)
         /\ BeginRead(c, "resume_transfer", s, progress[s].completed, progress[s].spoiled)
    /\ Spend({"call"})
    /\ UNCHANGED <<rateVars, sessionVars, stored, reported, trusting>>

\* The bytes read may be those that the hash was taken of: the file's, or for
\* an odd chunk whatever was there then, if it still is.
\* Mutant: whatever is read will do.
MayMatchAnyway(c, i) == TRUE
MayMatch(c, i) == (i \in stored[FileOf[call[c].session]]) = (i \notin call[c].odd)
MayDiffer(c, i) == i \notin stored[FileOf[call[c].session]] \/ i \in call[c].odd

ReadBack(c) ==
    /\ call[c].at = "read"
    /\ call[c].op \in Reading
    /\ \E i \in call[c].left :
         \/ MayMatch(c, i) /\ call' = [call EXCEPT ![c].left = @ \ {i}]
         \/ MayDiffer(c, i) /\ Return(c)
    /\ UNCHANGED <<rateVars, sessionVars, stored, reported, trusting, spent>>

Finalize(c) ==
    LET s == call[c].session
    IN  /\ call[c].at = "read"
        /\ call[c].op = "finalize_upload"
        /\ call[c].left = {}
        /\ status' = [status EXCEPT ![s] = "Completed"]
        /\ reported' = reported \cup {s}
        /\ Return(c)
        /\ UNCHANGED <<rateVars, direction, size, progress, stored, trusting, spent>>

Resume(c) ==
    /\ call[c].at = "read"
    /\ call[c].op = "resume_transfer"
    /\ call[c].left = {}
    /\ status' = [status EXCEPT ![call[c].session] = "InProgress"]
    /\ Return(c)
    /\ UNCHANGED <<rateVars, direction, size, progress, stored, reported, trusting, spent>>

-----------------------------------------------------------------------------
(* The process may end, and the owner of a session insert a copy of it. *)

Crash ==
    /\ Spend({"failure"})
    /\ tokens' = [s \in Sessions |-> SessionLimit]
    /\ globalTokens' = GlobalLimit
    /\ pending' = 0
    /\ engaged' = FALSE
    /\ status' = [s \in Sessions |-> IF Listed(s) THEN "lost" ELSE status[s]]
    /\ call' = [c \in Callers |-> Idle]
    /\ UNCHANGED <<direction, size, progress, stored, reported, trusting>>

\* What get_session returned at some time before the crash.
Copies(s) ==
    {[completed |-> some, spoiled |-> progress[s].spoiled \cap some, retries |-> counts] :
       some \in SUBSET progress[s].completed, counts \in {progress[s].retries, Fresh.retries}}

\* It is inserted as Paused, as the tests of resume_transfer do.
insert_session(s) ==
    /\ status[s] = "lost"
    /\ status' = [status EXCEPT ![s] = "Paused"]
    /\ \E copy \in Copies(s) : progress' = [progress EXCEPT ![s] = copy]
    /\ UNCHANGED <<rateVars, direction, size, stored, call, reported, trusting, spent>>

-----------------------------------------------------------------------------
Tick ==
    /\ Refill
    /\ UNCHANGED <<sessionVars, stored, call, reported, trusting, spent>>

receive_chunk(c)   ==
    Acquire(c) \/ Check(c) \/ TakePermit(c) \/ Write(c) \/ WriteFails(c) \/ CountFailure(c)
send_chunk(c)      == SendRead(c)
finalize_upload(c) == Finalize(c)
resume_transfer(c) == Resume(c)

Run(c) ==
    \/ Record(c) \/ ReadBack(c)
    \/ receive_chunk(c) \/ send_chunk(c) \/ finalize_upload(c) \/ resume_transfer(c)

Call(c) == CallReceive(c) \/ CallSend(c) \/ CallFinalize(c) \/ CallResume(c)

Next ==
    \/ \E c \in Callers : Call(c) \/ Run(c)
    \/ \E s \in Sessions :
         initiate_upload(s) \/ initiate_download(s) \/ insert_session(s)
    \/ Tick
    \/ Crash

Spec == Init /\ [][Next]_vars

-----------------------------------------------------------------------------
(* Properties. *)

\* No other upload of the file was ever begun: nobody else truncates it.
Alone(s) ==
    \A t \in Sessions \ {s} : FileOf[t] = FileOf[s] => direction[t] # "Upload"

\* What an upload counts is on disk, also in the copy that is
\* inserted after a crash: it is counted after its write, whatever happens between.
CountedIsStored ==
    \A s \in Sessions :
        direction[s] = "Upload" /\ Alone(s) =>
            progress[s].completed \subseteq stored[FileOf[s]]

\* An upload that was reported complete is whole, and stays so, although the
\* count of its chunks may have included indices that the file does not have,
\* and although a resume sets it to InProgress again.
ReportedIsWhole ==
    \A s \in reported : Alone(s) => Right(FileOf[s]) \subseteq stored[FileOf[s]]

\* Whoever downloads a file after its upload was reported complete never gets
\* bytes that are not the file's.
TrustedIsRight ==
    \A s \in trusting :
        (\E u \in reported : FileOf[u] = FileOf[s] /\ Alone(u)) =>
            Right(FileOf[s]) \cap progress[s].spoiled = {}

\* A call was granted the bytes of its chunk, and has neither moved nor dropped them.
Holds(c) ==
    \/ call[c].at \in {"check", "permit", "write"}
    \/ call[c].at = "read" /\ call[c].op = "send_chunk"

HeldBy(c) ==
    IF Holds(c) THEN {c} \X (1 .. Length(call[c].session, call[c].index)) ELSE {}

Granted == Cardinality(UNION {HeldBy(c) : c \in Callers})

\* The queue counts every byte on its way: with any calls at once, chunks of
\* any length, and errors, it is never too low, so that a report never
\* takes away what another call was granted.
QueueCoversGranted == pending >= Granted

\* Backpressure bounds the queue by the high mark and one more chunk.
QueueIsBounded == pending <= HighWater + ChunkSize

\* Attempts with retries fail no more often than the limit allows, but for
\* those that had begun when it was reached.
RetriesBounded ==
    \A s \in Sessions : \A i \in AllIndices :
        progress[s].retries[i] < MaxRetries + Cardinality(Callers)

\* Whatever leaves a bucket enters the queue, and leaves both buckets: a call
\* that the bucket for all refuses has not cost its session anything.
SpentIsQueued ==
    [][\A s \in Sessions :
         tokens'[s] < tokens[s] =>
             /\ tokens[s] - tokens'[s] = pending' - pending
             /\ globalTokens - globalTokens' = pending' - pending]_vars
=============================================================================
