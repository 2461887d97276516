----------------------------- MODULE P2PTransfer -----------------------------
(***************************************************************************)
(* One file transfer from end to end (frontend/src-tauri/src/p2p_engine.rs): *)
(* the task that runs send_file at the sending peer, the task that runs     *)
(* handle_incoming_transfer at the receiving peer, the commands the two     *)
(* users give while those tasks run, the QUIC stream between them and the   *)
(* files at the receiver.  A set of sessions runs side by side; sessions    *)
(* meet on disk, when their users choose the same save path, and on the     *)
(* connection that carries the streams of several of them.                  *)
(*                                                                         *)
(* An action is what a task does between two points where another actor    *)
(* can be seen: an await, or a release of the session entry in the DashMap. *)
(* A chunk is its index, its bytes are the session they come from, and a   *)
(* hash comparison is the comparison of what was hashed.                   *)
(***************************************************************************)
EXTENDS Naturals, Sequences, FiniteSets

CONSTANTS
    Sessions,         \* transfer sessions
    Connection,       \* the connection that each session's stream belongs to
    TotalChunks,      \* the number of chunks of each session's file
    Paths,            \* save paths at the receiver
    PathChoices,      \* the paths the user may choose for each session
    NoPath,           \* save_path is None
    Hole,             \* bytes that no session has written
    OldChunks,        \* the length, in chunks, of a file already at each path
    MaxRetries,       \* P2PConfig.max_retries
    MaxDamage,        \* bound: chunks whose bytes arrive not matching their hash
    SenderCommands,   \* commands the sending user may give
    ReceiverCommands, \* commands the receiving user may give
    LossPossible,     \* may the connection be lost while packets flow
    DiskMayFail       \* may a disk operation of the receiver fail

Commands == {"reject", "pause", "resume", "cancel"}

ASSUME ConstantsAssumption ==
    /\ DOMAIN Connection = Sessions
    /\ TotalChunks \in [Sessions -> Nat]
    /\ PathChoices \in [Sessions -> SUBSET Paths]
    /\ NoPath \notin Paths
    /\ Hole \notin Sessions
    /\ OldChunks \in Nat
    /\ MaxRetries \in Nat
    /\ MaxDamage \in Nat
    /\ SenderCommands \subseteq Commands \ {"reject"}
    /\ ReceiverCommands \subseteq Commands
    /\ LossPossible \in BOOLEAN
    /\ DiskMayFail \in BOOLEAN

VARIABLES
    sndPc,      \* where send_file stands
    sndIdx,     \* its chunk_index
    sndStatus,  \* the sender's session: status
    sndDone,    \* the sender's session: completed_chunks
    rcvPc,      \* where handle_incoming_transfer stands
    rcvIdx,     \* the index of the loop it is in
    rcvCur,     \* the index of the chunk it is handling
    rcvGood,    \* all chunks read back so far hold this session's bytes
    rcvStatus,  \* the receiver's session: status
    rcvDone,    \* the receiver's session: completed_chunks
    rcvRetries, \* the receiver's session: retry_counts
    savePath,   \* the save path the user chose, as the channel hands it over
    choice,     \* pending_incoming and the oneshot channel it holds
    disk,       \* the files at the receiver
    link,       \* is the connection that each session runs over up
    toRcv,      \* the stream from the sender to the receiver
    toSnd,      \* the stream from the receiver to the sender
    damage      \* chunks damaged so far

sndVars  == <<sndPc, sndIdx, sndStatus, sndDone>>
taskVars == <<rcvPc, rcvIdx, rcvCur, rcvGood>>
bookVars == <<rcvStatus, rcvDone, rcvRetries>>
userVars == <<savePath, choice>>
rcvVars  == <<taskVars, bookVars, userVars, disk>>
netVars  == <<link, toRcv, toSnd, damage>>
vars     == <<sndVars, rcvVars, netVars>>

-----------------------------------------------------------------------------
(* Values *)

Chunks(s) == 0 .. TotalChunks[s] - 1

\* "absent": the session is not in the engine's sessions map
Statuses == {"absent", "PendingAccept", "InProgress", "Paused", "Completed",
             "Cancelled", "Failed"}

Request        == [type |-> "TransferRequest"]
TransferAccept == [type |-> "TransferAccept"]
TransferReject == [type |-> "TransferReject"]
ChunkData(i)   == [type |-> "ChunkData", index |-> i, intact |-> TRUE]
Damaged(i)     == [type |-> "ChunkData", index |-> i, intact |-> FALSE]
ChunkAck(i)    == [type |-> "ChunkAck", index |-> i]

ToReceiver(s) ==
    {Request} \cup {ChunkData(i) : i \in Chunks(s)} \cup {Damaged(i) : i \in Chunks(s)}
ToSender(s) ==
    {TransferAccept, TransferReject} \cup {ChunkAck(i) : i \in Chunks(s)}

\* how send_file has returned: Ok at the end, Ok on Paused or Cancelled, Err
SenderEnd   == {"sent", "stopped", "error"}
SenderPcs   == {"idle", "awaitResponse", "nextChunk", "awaitAck"} \cup SenderEnd
ReceiverPcs == {"none", "awaitDecision", "accepted", "refused", "allocate", "check",
                "recv", "write", "ack", "mark", "readBack", "returned"}

\* A file whose n chunks no session has written.
Allocated(n) == [i \in 0 .. n - 1 |-> Hole]

SenderEnded(s)   == sndPc[s] \in SenderEnd
ReceiverEnded(s) == rcvPc[s] = "returned"

Init ==
    /\ sndPc = [s \in Sessions |-> "idle"]
    /\ sndIdx = [s \in Sessions |-> 0]
    /\ sndStatus = [s \in Sessions |-> "absent"]
    /\ sndDone = [s \in Sessions |-> {}]
    /\ rcvPc = [s \in Sessions |-> "none"]
    /\ rcvIdx = [s \in Sessions |-> 0]
    /\ rcvCur = [s \in Sessions |-> 0]
    /\ rcvGood = [s \in Sessions |-> TRUE]
    /\ rcvStatus = [s \in Sessions |-> "absent"]
    /\ rcvDone = [s \in Sessions |-> {}]
    /\ rcvRetries = [s \in Sessions |-> [i \in Chunks(s) |-> 0]]
    /\ savePath = [s \in Sessions |-> NoPath]
    /\ choice = [s \in Sessions |-> "none"]
    /\ disk = [p \in Paths |-> Allocated(OldChunks)]
    /\ link = [s \in Sessions |-> TRUE]
    /\ toRcv = [s \in Sessions |-> << >>]
    /\ toSnd = [s \in Sessions |-> << >>]
    /\ damage = 0

-----------------------------------------------------------------------------
(* The QUIC stream, as the two tasks use it.  Messages of one direction     *)
(* arrive once and in order.  A write on a lost connection, or to a peer    *)
(* whose task has dropped its receiving half, fails or is swallowed; a read *)
(* fails once nothing is left and the connection is lost or the peer's task *)
(* has dropped its sending half.                                            *)

Sent(q, s, m) == IF link[s] THEN [q EXCEPT ![s] = Append(@, m)] ELSE q
Received(q, s) == [q EXCEPT ![s] = Tail(@)]

\* Mutants: that the other task has dropped its end goes unnoticed.
SenderReadFailsOnLoss(s)   == toSnd[s] = << >> /\ ~link[s]
ReceiverReadFailsOnLoss(s) == toRcv[s] = << >> /\ ~link[s]

SenderWriteFails(s)   == ~link[s] \/ ReceiverEnded(s)
ReceiverWriteFails(s) == ~link[s] \/ SenderEnded(s)
SenderReadFails(s)    == toSnd[s] = << >> /\ (~link[s] \/ ReceiverEnded(s))
ReceiverReadFails(s)  == toRcv[s] = << >> /\ (~link[s] \/ SenderEnded(s))

\* Nothing of the session is in flight, and neither task is about to send.
Silent(s) ==
    /\ sndPc[s] # "nextChunk"
    /\ \/ rcvPc[s] \in {"none", "recv", "returned"}
       \/ rcvPc[s] = "awaitDecision" /\ choice[s] = "open"
    /\ toRcv[s] = << >>
    /\ toSnd[s] = << >>

\* The sessions whose streams share the connection of session s: all transfers
\* to a peer use its one entry of active_connections.
Sharing(s) == {t \in Sessions : Connection[t] = Connection[s]}

\* Mutant: the transport is given a keep-alive, and no connection idles.
KeptAlive(s) == FALSE

\* No session keeps the connection busy: with no keep-alive, QUIC's idle timeout
\* closes it.  One session that still sends keeps it open for all of them.
Quiet(s) == \A t \in Sharing(s) : Silent(t)

\* The connection is lost, for all its sessions and with all that is in flight:
\* by the idle timeout, a network failure, a peer that shuts down, a newer
\* connection to the same peer that replaces this one.
LinkLost(s) ==
    /\ link[s]
    /\ LossPossible \/ Quiet(s)
    /\ link' = [t \in Sessions |-> link[t] /\ t \notin Sharing(s)]
    /\ toRcv' = [t \in Sessions |-> IF t \in Sharing(s) THEN << >> ELSE toRcv[t]]
    /\ toSnd' = [t \in Sessions |-> IF t \in Sharing(s) THEN << >> ELSE toSnd[t]]
    /\ UNCHANGED <<sndVars, rcvVars, damage>>

\* The bytes of a chunk no longer match the hash it carries.
DamageChunk(s) ==
    /\ damage < MaxDamage
    /\ toRcv[s] # << >>
    /\ Head(toRcv[s]).type = "ChunkData"
    /\ Head(toRcv[s]).intact
    /\ toRcv' = [toRcv EXCEPT ![s][1] = Damaged(@.index)]
    /\ damage' = damage + 1
    /\ UNCHANGED <<sndVars, rcvVars, link, toSnd>>

-----------------------------------------------------------------------------
(* The sending peer: send_file *)

\* The session is created and the request goes out on a new stream.
BeginSend(s) ==
    /\ sndPc[s] = "idle"
    /\ sndStatus' = [sndStatus EXCEPT ![s] = "PendingAccept"]
    /\ \/ /\ sndPc' = [sndPc EXCEPT ![s] = "awaitResponse"]
          /\ toRcv' = Sent(toRcv, s, Request)
       \/ /\ SenderWriteFails(s)
          /\ sndPc' = [sndPc EXCEPT ![s] = "error"]
          /\ UNCHANGED toRcv
    /\ UNCHANGED <<sndIdx, sndDone, rcvVars, link, toSnd, damage>>

\* Mutant: any response is taken for an accept.
RecvAnyResponse(s) ==
    /\ sndPc[s] = "awaitResponse"
    /\ toSnd[s] # << >>
    /\ sndStatus' = [sndStatus EXCEPT ![s] = "InProgress"]
    /\ sndPc' = [sndPc EXCEPT ![s] = "nextChunk"]
    /\ toSnd' = Received(toSnd, s)
    /\ UNCHANGED <<sndIdx, sndDone, rcvVars, link, toRcv, damage>>

RecvResponse(s) ==
    /\ sndPc[s] = "awaitResponse"
    /\ toSnd[s] # << >>
    /\ \/ /\ Head(toSnd[s]) = TransferAccept
          /\ sndStatus' = [sndStatus EXCEPT ![s] = "InProgress"]
          /\ sndPc' = [sndPc EXCEPT ![s] = "nextChunk"]
       \/ /\ Head(toSnd[s]) = TransferReject
          /\ sndStatus' = [sndStatus EXCEPT ![s] = "Failed"]
          /\ sndPc' = [sndPc EXCEPT ![s] = "error"]
    /\ toSnd' = Received(toSnd, s)
    /\ UNCHANGED <<sndIdx, sndDone, rcvVars, link, toRcv, damage>>

\* Mutant: the loop runs over 0..=total_chunks.
SendChunkPastEnd(s) ==
    /\ sndPc[s] = "nextChunk"
    /\ sndStatus[s] \notin {"Paused", "Cancelled"}
    /\ sndPc' = [sndPc EXCEPT ![s] = "awaitAck"]
    /\ toRcv' = Sent(toRcv, s, ChunkData(sndIdx[s]))
    /\ UNCHANGED <<sndIdx, sndStatus, sndDone, rcvVars, link, toSnd, damage>>

\* Mutant: the next chunk goes out without waiting for the acknowledgement.
SendChunkPipelined(s) ==
    /\ sndPc[s] = "nextChunk"
    /\ sndIdx[s] < TotalChunks[s]
    /\ toRcv' = Sent(toRcv, s, ChunkData(sndIdx[s]))
    /\ sndIdx' = [sndIdx EXCEPT ![s] = @ + 1]
    /\ UNCHANGED <<sndPc, sndStatus, sndDone, rcvVars, link, toSnd, damage>>

\* The head of the chunk loop, with the status check and the write.
SendChunk(s) ==
    /\ sndPc[s] = "nextChunk"
    /\ sndIdx[s] < TotalChunks[s]
    /\ sndStatus[s] \notin {"Paused", "Cancelled"}
    /\ \/ /\ sndPc' = [sndPc EXCEPT ![s] = "awaitAck"]
          /\ toRcv' = Sent(toRcv, s, ChunkData(sndIdx[s]))
       \/ /\ SenderWriteFails(s)
          /\ sndPc' = [sndPc EXCEPT ![s] = "error"]
          /\ UNCHANGED toRcv
    /\ UNCHANGED <<sndIdx, sndStatus, sndDone, rcvVars, link, toSnd, damage>>

StopSending(s) ==
    /\ sndPc[s] = "nextChunk"
    /\ sndIdx[s] < TotalChunks[s]
    /\ sndStatus[s] \in {"Paused", "Cancelled"}
    /\ sndPc' = [sndPc EXCEPT ![s] = "stopped"]
    /\ UNCHANGED <<sndIdx, sndStatus, sndDone, rcvVars, netVars>>

RecvAck(s) ==
    /\ sndPc[s] = "awaitAck"
    /\ toSnd[s] # << >>
    /\ Head(toSnd[s]) = ChunkAck(sndIdx[s])
    /\ sndDone' = [sndDone EXCEPT ![s] = @ \cup {sndIdx[s]}]
    /\ sndIdx' = [sndIdx EXCEPT ![s] = @ + 1]
    /\ sndPc' = [sndPc EXCEPT ![s] = "nextChunk"]
    /\ toSnd' = Received(toSnd, s)
    /\ UNCHANGED <<sndStatus, rcvVars, link, toRcv, damage>>

\* A failed read ends send_file with an error; the session keeps its status.
SenderReadError(s) ==
    /\ sndPc[s] \in {"awaitResponse", "awaitAck"}
    /\ SenderReadFails(s)
    /\ sndPc' = [sndPc EXCEPT ![s] = "error"]
    /\ UNCHANGED <<sndIdx, sndStatus, sndDone, rcvVars, netVars>>

\* Mutant: the last acknowledgement is not waited for.
FinishSendEarly(s) ==
    /\ sndPc[s] = "awaitAck"
    /\ sndIdx[s] + 1 = TotalChunks[s]
    /\ sndStatus' = [sndStatus EXCEPT ![s] = "Completed"]
    /\ sndPc' = [sndPc EXCEPT ![s] = "sent"]
    /\ UNCHANGED <<sndIdx, sndDone, rcvVars, netVars>>

\* All chunks are acknowledged: the session is Completed, whatever it was.
FinishSend(s) ==
    /\ sndPc[s] = "nextChunk"
    /\ sndIdx[s] = TotalChunks[s]
    /\ sndStatus' = [sndStatus EXCEPT ![s] = "Completed"]
    /\ sndPc' = [sndPc EXCEPT ![s] = "sent"]
    /\ UNCHANGED <<sndIdx, sndDone, rcvVars, netVars>>

-----------------------------------------------------------------------------
(* The receiving peer: handle_incoming_transfer *)

\* The stream's first message starts the task, which records the session and
\* leaves a channel for the user's decision in pending_incoming.
RecvRequest(s) ==
    /\ rcvPc[s] = "none"
    /\ toRcv[s] # << >>
    /\ Head(toRcv[s]) = Request
    /\ toRcv' = Received(toRcv, s)
    /\ rcvStatus' = [rcvStatus EXCEPT ![s] = "PendingAccept"]
    /\ choice' = [choice EXCEPT ![s] = "open"]
    /\ rcvPc' = [rcvPc EXCEPT ![s] = "awaitDecision"]
    /\ UNCHANGED <<sndVars, rcvIdx, rcvCur, rcvGood, rcvDone, rcvRetries, savePath,
                   disk, link, toSnd, damage>>

\* The task's return; nothing else of its state changes.
Return(s) == rcvPc' = [rcvPc EXCEPT ![s] = "returned"]
FailReceive(s) ==
    /\ Return(s)
    /\ rcvStatus' = [rcvStatus EXCEPT ![s] = "Failed"]

\* The user's decision is written to the stream; if writing an accept fails the
\* task returns and the status stays.
HandleAccept(s) ==
    /\ rcvPc[s] = "awaitDecision"
    /\ choice[s] = "accept"
    /\ \/ /\ toSnd' = Sent(toSnd, s, TransferAccept)
          /\ rcvPc' = [rcvPc EXCEPT ![s] = "accepted"]
       \/ /\ ReceiverWriteFails(s)
          /\ Return(s)
          /\ UNCHANGED toSnd
    /\ UNCHANGED <<sndVars, rcvIdx, rcvCur, rcvGood, bookVars, userVars, disk, link, toRcv,
                   damage>>

HandleReject(s) ==
    /\ rcvPc[s] = "awaitDecision"
    /\ choice[s] \in {"reject", "rejected"}
    /\ toSnd' = Sent(toSnd, s, TransferReject)
    /\ rcvPc' = [rcvPc EXCEPT ![s] = "refused"]
    /\ UNCHANGED <<sndVars, rcvIdx, rcvCur, rcvGood, bookVars, userVars, disk, link, toRcv,
                   damage>>

\* Once the answer is written the status becomes InProgress or Failed, whatever
\* a command made of it in the meantime.
BeginReceive(s) ==
    /\ rcvPc[s] = "accepted"
    /\ rcvStatus' = [rcvStatus EXCEPT ![s] = "InProgress"]
    /\ rcvPc' = [rcvPc EXCEPT ![s] = "allocate"]
    /\ UNCHANGED <<sndVars, rcvIdx, rcvCur, rcvGood, rcvDone, rcvRetries, userVars, disk,
                   netVars>>

EndRefused(s) ==
    /\ rcvPc[s] = "refused"
    /\ FailReceive(s)
    /\ UNCHANGED <<sndVars, rcvIdx, rcvCur, rcvGood, rcvDone, rcvRetries, userVars, disk,
                   netVars>>

\* Mutant: an existing file is opened without being truncated.
AllocateFileInPlace(s) ==
    /\ rcvPc[s] = "allocate"
    /\ disk' = [disk EXCEPT ![savePath[s]] =
                    [i \in DOMAIN @ \cup Chunks(s) |-> IF i \in DOMAIN @ THEN @[i] ELSE Hole]]
    /\ rcvPc' = [rcvPc EXCEPT ![s] = "check"]
    /\ UNCHANGED <<sndVars, rcvIdx, rcvCur, rcvGood, bookVars, userVars, netVars>>

\* allocate_file creates or truncates the file and gives it the session's size;
\* when it fails the file may have been truncated.
AllocateFile(s) ==
    /\ rcvPc[s] = "allocate"
    /\ \/ /\ disk' = [disk EXCEPT ![savePath[s]] = Allocated(TotalChunks[s])]
          /\ rcvPc' = [rcvPc EXCEPT ![s] = "check"]
          /\ UNCHANGED rcvStatus
       \/ /\ DiskMayFail
          /\ FailReceive(s)
          /\ UNCHANGED disk \/ disk' = [disk EXCEPT ![savePath[s]] = Allocated(0)]
    /\ UNCHANGED <<sndVars, rcvIdx, rcvCur, rcvGood, rcvDone, rcvRetries, userVars, netVars>>

\* The head of the receive loop: it runs total_chunks times, and stops at once
\* when it finds the session paused or cancelled.
CheckReceive(s) ==
    /\ rcvPc[s] = "check"
    /\ rcvIdx[s] < TotalChunks[s]
    /\ rcvPc' = [rcvPc EXCEPT ![s] =
                    IF rcvStatus[s] \in {"Cancelled", "Paused"} THEN "returned" ELSE "recv"]
    /\ UNCHANGED <<sndVars, rcvIdx, rcvCur, rcvGood, bookVars, userVars, disk, netVars>>

RecvChunk(s) ==
    /\ rcvPc[s] = "recv"
    /\ toRcv[s] # << >>
    /\ Head(toRcv[s]).type = "ChunkData"
    /\ Head(toRcv[s]).intact
    /\ rcvCur' = [rcvCur EXCEPT ![s] = Head(toRcv[s]).index]
    /\ toRcv' = Received(toRcv, s)
    /\ rcvPc' = [rcvPc EXCEPT ![s] = "write"]
    /\ UNCHANGED <<sndVars, rcvIdx, rcvGood, bookVars, userVars, disk, link, toSnd, damage>>

\* Mutant: the damaged chunk is logged, counted and then handled as the others.
RecvDamagedChunkAnyway(s) ==
    /\ rcvPc[s] = "recv"
    /\ toRcv[s] # << >>
    /\ Head(toRcv[s]).type = "ChunkData"
    /\ ~Head(toRcv[s]).intact
    /\ LET i == Head(toRcv[s]).index IN
         /\ rcvRetries' = [rcvRetries EXCEPT ![s][i] = @ + 1]
         /\ rcvCur' = [rcvCur EXCEPT ![s] = i]
    /\ toRcv' = Received(toRcv, s)
    /\ rcvPc' = [rcvPc EXCEPT ![s] = "write"]
    /\ UNCHANGED <<sndVars, rcvIdx, rcvGood, rcvStatus, rcvDone, userVars, disk, link, toSnd,
                   damage>>

\* A chunk that fails its hash check is counted against max_retries and uses up
\* an iteration of the loop; the sender is told nothing.
RecvDamagedChunk(s) ==
    /\ rcvPc[s] = "recv"
    /\ toRcv[s] # << >>
    /\ Head(toRcv[s]).type = "ChunkData"
    /\ ~Head(toRcv[s]).intact
    /\ LET i == Head(toRcv[s]).index IN
         /\ rcvRetries' = [rcvRetries EXCEPT ![s][i] = @ + 1]
         /\ \/ /\ rcvRetries[s][i] + 1 > MaxRetries
               /\ FailReceive(s)
               /\ UNCHANGED rcvIdx
            \/ /\ rcvRetries[s][i] + 1 <= MaxRetries
               /\ rcvIdx' = [rcvIdx EXCEPT ![s] = @ + 1]
               /\ rcvPc' = [rcvPc EXCEPT ![s] = "check"]
               /\ UNCHANGED rcvStatus
    /\ toRcv' = Received(toRcv, s)
    /\ UNCHANGED <<sndVars, rcvCur, rcvGood, rcvDone, userVars, disk, link, toSnd, damage>>

ReceiverReadError(s) ==
    /\ rcvPc[s] = "recv"
    /\ ReceiverReadFails(s)
    /\ FailReceive(s)
    /\ UNCHANGED <<sndVars, rcvIdx, rcvCur, rcvGood, rcvDone, rcvRetries, userVars, disk,
                   netVars>>

\* A write past the end extends the file; the gap reads as zeros.
Written(file, i, bytes) ==
    [j \in DOMAIN file \cup 0 .. i |->
        IF j = i THEN bytes ELSE IF j \in DOMAIN file THEN file[j] ELSE Hole]

\* Mutant: a failed write is logged and the chunk acknowledged all the same.
WriteChunkRegardless(s) ==
    /\ rcvPc[s] = "write"
    /\ \/ disk' = [disk EXCEPT ![savePath[s]] = Written(@, rcvCur[s], s)]
       \/ DiskMayFail /\ UNCHANGED disk
    /\ rcvPc' = [rcvPc EXCEPT ![s] = "ack"]
    /\ UNCHANGED <<sndVars, rcvIdx, rcvCur, rcvGood, bookVars, userVars, netVars>>

\* A write that fails may have left a part of the chunk behind.
WriteChunk(s) ==
    /\ rcvPc[s] = "write"
    /\ \/ /\ disk' = [disk EXCEPT ![savePath[s]] = Written(@, rcvCur[s], s)]
          /\ rcvPc' = [rcvPc EXCEPT ![s] = "ack"]
          /\ UNCHANGED rcvStatus
       \/ /\ DiskMayFail
          /\ FailReceive(s)
          /\ \/ UNCHANGED disk
             \/ disk' = [disk EXCEPT ![savePath[s]] = Written(@, rcvCur[s], Hole)]
    /\ UNCHANGED <<sndVars, rcvIdx, rcvCur, rcvGood, rcvDone, rcvRetries, userVars, netVars>>

\* A failed acknowledgement ends the task; the status stays InProgress.
AckChunk(s) ==
    /\ rcvPc[s] = "ack"
    /\ \/ /\ toSnd' = Sent(toSnd, s, ChunkAck(rcvCur[s]))
          /\ rcvPc' = [rcvPc EXCEPT ![s] = "mark"]
       \/ /\ ReceiverWriteFails(s)
          /\ Return(s)
          /\ UNCHANGED toSnd
    /\ UNCHANGED <<sndVars, rcvIdx, rcvCur, rcvGood, bookVars, userVars, disk, link, toRcv,
                   damage>>

\* Mutant: progress is recorded only while the session is InProgress.
MarkChunkInProgress(s) ==
    /\ rcvPc[s] = "mark"
    /\ rcvDone' = [rcvDone EXCEPT ![s] =
                      IF rcvStatus[s] = "InProgress" THEN @ \cup {rcvCur[s]} ELSE @]
    /\ rcvIdx' = [rcvIdx EXCEPT ![s] = @ + 1]
    /\ rcvPc' = [rcvPc EXCEPT ![s] = "check"]
    /\ UNCHANGED <<sndVars, rcvCur, rcvGood, rcvStatus, rcvRetries, userVars, disk, netVars>>

MarkChunk(s) ==
    /\ rcvPc[s] = "mark"
    /\ rcvDone' = [rcvDone EXCEPT ![s] = @ \cup {rcvCur[s]}]
    /\ rcvIdx' = [rcvIdx EXCEPT ![s] = @ + 1]
    /\ rcvPc' = [rcvPc EXCEPT ![s] = "check"]
    /\ UNCHANGED <<sndVars, rcvCur, rcvGood, rcvStatus, rcvRetries, userVars, disk, netVars>>

\* Mutant: chunks are counted from zero.
IsAllChunksCompleteOffByOne(s) ==
    TotalChunks[s] > 0 /\ Cardinality(rcvDone[s]) = TotalChunks[s] - 1

IsAllChunksComplete(s) ==
    TotalChunks[s] > 0 /\ Cardinality(rcvDone[s]) = TotalChunks[s]

\* After the loop the file is verified, but only if every chunk is complete;
\* otherwise the task returns and the session keeps its status.
EndReceiveLoop(s) ==
    /\ rcvPc[s] = "check"
    /\ rcvIdx[s] = TotalChunks[s]
    /\ rcvPc' = [rcvPc EXCEPT ![s] = IF IsAllChunksComplete(s) THEN "readBack" ELSE "returned"]
    /\ rcvIdx' = [rcvIdx EXCEPT ![s] = 0]
    /\ UNCHANGED <<sndVars, rcvCur, rcvGood, bookVars, userVars, disk, netVars>>

\* Mutant: the bytes read back are not compared with the session's.
ReadBackUnchecked(s) ==
    /\ rcvPc[s] = "readBack"
    /\ rcvIdx[s] < TotalChunks[s]
    /\ rcvIdx[s] \in DOMAIN disk[savePath[s]]
    /\ rcvIdx' = [rcvIdx EXCEPT ![s] = @ + 1]
    /\ UNCHANGED <<sndVars, rcvPc, rcvCur, rcvGood, bookVars, userVars, disk, netVars>>

\* One read of the verification; past the end of the file it fails.
ReadBack(s) ==
    /\ rcvPc[s] = "readBack"
    /\ rcvIdx[s] < TotalChunks[s]
    /\ \/ /\ rcvIdx[s] \in DOMAIN disk[savePath[s]]
          /\ rcvGood' = [rcvGood EXCEPT ![s] = @ /\ disk[savePath[s]][rcvIdx[s]] = s]
          /\ rcvIdx' = [rcvIdx EXCEPT ![s] = @ + 1]
          /\ UNCHANGED <<rcvPc, rcvStatus>>
       \/ /\ DiskMayFail \/ rcvIdx[s] \notin DOMAIN disk[savePath[s]]
          /\ FailReceive(s)
          /\ UNCHANGED <<rcvGood, rcvIdx>>
    /\ UNCHANGED <<sndVars, rcvCur, rcvDone, rcvRetries, userVars, disk, netVars>>

\* The whole-file hash decides; Completed replaces whatever the status was.
FinishReceive(s) ==
    /\ rcvPc[s] = "readBack"
    /\ rcvIdx[s] = TotalChunks[s]
    /\ rcvStatus' = [rcvStatus EXCEPT ![s] = IF rcvGood[s] THEN "Completed" ELSE "Failed"]
    /\ Return(s)
    /\ UNCHANGED <<sndVars, rcvIdx, rcvCur, rcvGood, rcvDone, rcvRetries, userVars, disk,
                   netVars>>

-----------------------------------------------------------------------------
(* The users' commands *)

\* The path goes to the task through the channel; the session's save_path is set
\* to the same path by the command and by the task, and nobody reads it before.
Accept(s, p) ==
    /\ choice[s] = "open"
    /\ choice' = [choice EXCEPT ![s] = "accept"]
    /\ savePath' = [savePath EXCEPT ![s] = p]
    /\ UNCHANGED <<sndVars, taskVars, bookVars, disk, netVars>>

\* The task may act on the reject before the command has set the status.
Reject(s) ==
    /\ "reject" \in ReceiverCommands
    /\ choice[s] = "open"
    /\ choice' = [choice EXCEPT ![s] = "reject"]
    /\ UNCHANGED <<sndVars, taskVars, bookVars, savePath, disk, netVars>>

RejectStatus(s) ==
    /\ choice[s] = "reject"
    /\ choice' = [choice EXCEPT ![s] = "rejected"]
    /\ rcvStatus' = [rcvStatus EXCEPT ![s] = "Failed"]
    /\ UNCHANGED <<sndVars, taskVars, rcvDone, rcvRetries, savePath, disk, netVars>>

\* The status a session has after a command that its status allows; any other
\* command is refused and changes nothing.
PauseStatus(status)  == IF status = "InProgress" THEN "Paused" ELSE status
ResumeStatus(status) == IF status = "Paused" THEN "InProgress" ELSE status
\* Mutant: anything that is not cancelled yet can be cancelled.
CancelAnyStatus(status) == IF status = "absent" THEN status ELSE "Cancelled"

CancelStatus(status) ==
    IF status \in {"InProgress", "Paused", "PendingAccept"} THEN "Cancelled" ELSE status

AfterCommand(c, status) ==
    CASE c = "pause"  -> PauseStatus(status)
      [] c = "resume" -> ResumeStatus(status)
      [] c = "cancel" -> CancelStatus(status)

SenderCommand(s) ==
    /\ sndPc[s] # "idle"
    /\ \E c \in SenderCommands :
          sndStatus' = [sndStatus EXCEPT ![s] = AfterCommand(c, @)]
    /\ UNCHANGED <<sndPc, sndIdx, sndDone, rcvVars, netVars>>

ReceiverCommand(s) ==
    /\ rcvPc[s] # "none"
    /\ \E c \in ReceiverCommands \ {"reject"} :
          rcvStatus' = [rcvStatus EXCEPT ![s] = AfterCommand(c, @)]
    /\ UNCHANGED <<sndVars, taskVars, rcvDone, rcvRetries, userVars, disk, netVars>>

-----------------------------------------------------------------------------
SenderStep(s) ==
    \/ RecvResponse(s) \/ SendChunk(s) \/ StopSending(s) \/ RecvAck(s)
    \/ SenderReadError(s) \/ FinishSend(s)

ReceiverStep(s) ==
    \/ RecvRequest(s) \/ HandleAccept(s) \/ HandleReject(s) \/ BeginReceive(s)
    \/ EndRefused(s) \/ AllocateFile(s) \/ CheckReceive(s) \/ RecvChunk(s) \/ RecvDamagedChunk(s)
    \/ ReceiverReadError(s) \/ WriteChunk(s) \/ AckChunk(s) \/ MarkChunk(s) \/ EndReceiveLoop(s)
    \/ ReadBack(s) \/ FinishReceive(s)

UserStep(s) ==
    \/ BeginSend(s) \/ Reject(s) \/ RejectStatus(s) \/ SenderCommand(s) \/ ReceiverCommand(s)
    \/ \E p \in PathChoices[s] : Accept(s, p)

NetworkStep(s) == LinkLost(s) \/ DamageChunk(s)

Step(s) == SenderStep(s) \/ ReceiverStep(s) \/ UserStep(s) \/ NetworkStep(s)

Next == \E s \in Sessions : Step(s)

Spec == Init /\ [][Next]_vars

\* The runtime keeps running a task that can move, and a connection times out once
\* none of its sessions keeps it busy.  Users and the network owe nothing.
Fairness ==
    \A s \in Sessions :
        /\ WF_vars(SenderStep(s))
        /\ WF_vars(ReceiverStep(s))
        /\ WF_vars(Quiet(s) /\ LinkLost(s))

FairSpec == Spec /\ Fairness

-----------------------------------------------------------------------------
(* What the transfer guarantees *)

SenderTypeOK ==
    /\ sndPc \in [Sessions -> SenderPcs]
    /\ sndIdx \in [Sessions -> Nat]
    /\ sndStatus \in [Sessions -> Statuses]
    /\ sndDone \in [Sessions -> SUBSET Nat]
    /\ \A s \in Sessions : sndIdx[s] <= TotalChunks[s] /\ sndDone[s] \subseteq Chunks(s)

ReceiverTypeOK ==
    /\ rcvPc \in [Sessions -> ReceiverPcs]
    /\ rcvIdx \in [Sessions -> Nat]
    /\ rcvCur \in [Sessions -> Nat]
    /\ rcvGood \in [Sessions -> BOOLEAN]
    /\ rcvStatus \in [Sessions -> Statuses]
    /\ rcvDone \in [Sessions -> SUBSET Nat]
    /\ DOMAIN rcvRetries = Sessions
    /\ savePath \in [Sessions -> Paths \cup {NoPath}]
    /\ choice \in [Sessions -> {"none", "open", "accept", "reject", "rejected"}]
    /\ \A s \in Sessions : /\ rcvIdx[s] <= TotalChunks[s]
                           /\ rcvDone[s] \subseteq Chunks(s)
                           /\ rcvRetries[s] \in [Chunks(s) -> Nat]

\* The chunks of a file, counted from 0 without a gap.
IsFile(file) ==
    /\ file \in [DOMAIN file -> Sessions \cup {Hole}]
    /\ \A i \in DOMAIN file : i \in Nat /\ 0 .. i \subseteq DOMAIN file

DiskTypeOK == DOMAIN disk = Paths /\ \A p \in Paths : IsFile(disk[p])

NetTypeOK ==
    /\ link \in [Sessions -> BOOLEAN]
    /\ DOMAIN toRcv = Sessions
    /\ DOMAIN toSnd = Sessions
    /\ \A s \in Sessions : /\ toRcv[s] \in Seq(ToReceiver(s))
                           /\ toSnd[s] \in Seq(ToSender(s))
    /\ damage \in 0 .. MaxDamage

\* The type of every variable (P2PTransferSession, the indices of the loops, the
\* messages the two tasks exchange, the files): no index, no chunk in a ledger and
\* no chunk on the wire is outside the session's file.
TypeOK == SenderTypeOK /\ ReceiverTypeOK /\ DiskTypeOK /\ NetTypeOK

\* The chunks of session s that the file at its save path holds.
Stored(s) == {i \in Chunks(s) : /\ savePath[s] \in Paths
                                /\ i \in DOMAIN disk[savePath[s]]
                                /\ disk[savePath[s]][i] = s}

\* No other session of the receiver was given the save path of s.
Exclusive(s) == \A t \in Sessions \ {s} : savePath[t] # savePath[s]

\* A chunk that either peer counts as completed, and a chunk whose
\* acknowledgement is on its way, is on the receiver's disk: the receiver writes
\* before it acknowledges, and nothing but a session with the same save path
\* takes the chunk away again.
CountedIsStored ==
    \A s \in Sessions : Exclusive(s) =>
        /\ sndDone[s] \cup rcvDone[s] \subseteq Stored(s)
        /\ \A k \in DOMAIN toSnd[s] :
              toSnd[s][k].type = "ChunkAck" => toSnd[s][k].index \in Stored(s)

\* When the sender's session is Completed the receiver holds the whole file,
\* whatever the users commanded and whatever failed in the meantime.
SentIsStored ==
    \A s \in Sessions :
        sndStatus[s] = "Completed" /\ Exclusive(s) => Stored(s) = Chunks(s)

\* When the receiver's session is Completed the file at its save path is the
\* session's file and nothing more: what was at the path before is gone.
ReceivedFileIsExact ==
    \A s \in Sessions :
        rcvStatus[s] = "Completed" /\ Exclusive(s) =>
            disk[savePath[s]] = [i \in Chunks(s) |-> s]

\* Two transfers that were given the same save path write over each other, but
\* when all of them report completion, and their files are equally long, the path
\* holds the whole file of one of them: a mixture never passes two verifications.
OneWriterWins ==
    \A p \in Paths : LET writers == {s \in Sessions : savePath[s] = p} IN
        /\ writers # {}
        /\ \A s, t \in writers : /\ rcvStatus[s] = "Completed"
                                /\ TotalChunks[s] = TotalChunks[t]
        => \E s \in writers : disk[p] = [i \in Chunks(s) |-> s]

\* The two ledgers differ by at most the chunk being acknowledged: the sender
\* counts nothing the receiver does not count, but for a chunk the receiver has
\* acknowledged and not yet marked, and the receiver is at most that one ahead.
LedgersAgree ==
    \A s \in Sessions :
        /\ sndDone[s] \ rcvDone[s] \subseteq (IF rcvPc[s] = "mark" THEN {rcvCur[s]} ELSE {})
        /\ rcvDone[s] \ sndDone[s] \subseteq {sndIdx[s]}

\* No file data leaves the sender before the receiving user has accepted, and
\* none ever does after a reject.
NoDataWithoutConsent ==
    \A s \in Sessions : choice[s] # "accept" =>
        /\ sndPc[s] \notin {"nextChunk", "awaitAck", "sent"}
        /\ \A k \in DOMAIN toRcv[s] : toRcv[s][k].type # "ChunkData"

\* The stream is used in turns: at most one message is in flight on it, either
\* way, so neither peer ever buffers more than one chunk of a session.  This is
\* what send_file does ("Use the same bi-directional stream for simplicity"), and
\* not what its comment and the repository's README say, chunks in parallel over
\* several streams: nothing here speaks of such streams, there are none.
OneMessageInFlight ==
    \A s \in Sessions : Len(toRcv[s]) + Len(toSnd[s]) <= 1

\* A chunk that failed its hash check counts as completed at neither peer.
DamagedIsNotCounted ==
    \A s \in Sessions : \A i \in Chunks(s) :
        rcvRetries[s][i] > 0 => i \notin sndDone[s] \cup rcvDone[s]

\* The sender's, and the receiver's, task can take its next step now.
SenderCanMove(s) ==
    \/ sndPc[s] = "nextChunk"
    \/ /\ sndPc[s] = "awaitResponse" /\ toSnd[s] # << >>
       /\ Head(toSnd[s]) \in {TransferAccept, TransferReject}
    \/ sndPc[s] = "awaitAck" /\ toSnd[s] # << >> /\ Head(toSnd[s]) = ChunkAck(sndIdx[s])
    \/ sndPc[s] \in {"awaitResponse", "awaitAck"} /\ SenderReadFails(s)

ReceiverCanMove(s) ==
    \/ rcvPc[s] \in {"accepted", "refused", "allocate", "check", "write", "ack", "mark",
                    "readBack"}
    \/ rcvPc[s] = "none" /\ toRcv[s] # << >> /\ Head(toRcv[s]) = Request
    \/ rcvPc[s] = "awaitDecision" /\ choice[s] \in {"accept", "reject", "rejected"}
    \/ rcvPc[s] = "recv" /\ toRcv[s] # << >> /\ Head(toRcv[s]).type = "ChunkData"
    \/ rcvPc[s] = "recv" /\ ReceiverReadFails(s)

\* Both tasks wait, for each other or for the user, and nothing is in flight: only
\* the idle timeout ends this, when the other sessions have fallen silent too.
BothWait(s) ==
    /\ Silent(s)
    /\ sndPc[s] \in {"awaitResponse", "awaitAck"}
    /\ rcvPc[s] \in {"awaitDecision", "recv"}

\* While a task of a session is at work, and not just waiting for its user, one of
\* the two can move or both leave the connection to its idle timeout: no
\* acknowledgement, no missing chunk, no message that nobody expects and no peer
\* that stopped leaves one of the two waiting for the other.
NobodyWaitsInVain ==
    \A s \in Sessions :
        \/ sndPc[s] \in {"awaitResponse", "nextChunk", "awaitAck"}
        \/ rcvPc[s] \notin {"none", "returned"} /\ choice[s] # "open"
        => SenderCanMove(s) \/ ReceiverCanMove(s) \/ BothWait(s)

\* Completed and Failed are final at both peers, whichever command or late
\* message comes after them.
OutcomeIsFinal ==
    [][\A s \in Sessions :
         /\ sndStatus[s] \in {"Completed", "Failed"} => sndStatus'[s] = sndStatus[s]
         /\ rcvStatus[s] \in {"Completed", "Failed"} => rcvStatus'[s] = rcvStatus[s]]_vars

\* The send_file call returns, whatever the receiving peer and its user do: the
\* idle timeout ends every wait.
SendReturns ==
    \A s \in Sessions : sndPc[s] = "awaitResponse" ~> SenderEnded(s)

\* The receiver's task returns once its user has decided.
ReceiveReturns ==
    \A s \in Sessions : choice[s] \in {"accept", "reject"} ~> ReceiverEnded(s)

\* A transfer accepted on a live connection completes at both peers, unless a
\* user pauses or cancels it, the disk fails or a chunk arrives damaged.
Interrupted(s) ==
    \/ {sndStatus[s], rcvStatus[s]} \cap {"Paused", "Cancelled", "Failed"} # {}
    \/ \E i \in Chunks(s) : rcvRetries[s][i] > 0

AcceptedIsDelivered ==
    \A s \in Sessions :
        choice[s] = "accept" /\ link[s] ~>
            (sndStatus[s] = "Completed" /\ rcvStatus[s] = "Completed") \/ Interrupted(s)

-----------------------------------------------------------------------------
(* What a test says and the code does not do: it is violated.                *)

\* p2p_properties.rs: a chunk that fails gets max_retries more attempts.  The
\* receiver counts the failure and waits; nobody sends the chunk again.
DamagedIsRetried ==
    \A s \in Sessions : \A i \in Chunks(s) :
        rcvRetries[s][i] \in 1 .. MaxRetries ~> i \in rcvDone[s]
=============================================================================
