-------------------------- MODULE P2PTransferProofs --------------------------
(***************************************************************************)
(* Proofs about P2PTransfer, for any number of sessions, chunks, paths and  *)
(* faults: first that every variable has its type, then that the two tasks *)
(* of a session take turns.  The stream never carries more than one        *)
(* message, that message says where both tasks stand, and the two ledgers  *)
(* follow it.                                                              *)
(***************************************************************************)
EXTENDS P2PTransfer, FiniteSetTheorems, TLAPS

-----------------------------------------------------------------------------
(* Type correctness.  It is not inductive by itself: an index may be         *)
(* incremented only because the task has checked it before.                  *)

LoopsInBounds ==
    \A s \in Sessions :
        /\ sndPc[s] = "awaitAck" => sndIdx[s] < TotalChunks[s]
        /\ rcvPc[s] \in {"recv", "write", "ack", "mark"} => rcvIdx[s] < TotalChunks[s]
        /\ rcvPc[s] \in {"write", "ack", "mark"} => rcvCur[s] \in Chunks(s)

TypeInv == TypeOK /\ LoopsInBounds

\* A stream keeps its type when a message is written to it or read from it.
LEMMA SentType ==
    ASSUME NetTypeOK, NEW s \in Sessions
    PROVE  /\ \A m \in ToReceiver(s) :
                 /\ DOMAIN Sent(toRcv, s, m) = Sessions
                 /\ \A t \in Sessions : Sent(toRcv, s, m)[t] \in Seq(ToReceiver(t))
           /\ \A m \in ToSender(s) :
                 /\ DOMAIN Sent(toSnd, s, m) = Sessions
                 /\ \A t \in Sessions : Sent(toSnd, s, m)[t] \in Seq(ToSender(t))
BY DEF Sent, NetTypeOK

LEMMA ReceivedType ==
    ASSUME NEW q, DOMAIN q = Sessions, NEW s \in Sessions,
           NEW t \in Sessions, NEW S, q[t] \in Seq(S), q[s] # << >>
    PROVE  DOMAIN Received(q, s) = Sessions /\ Received(q, s)[t] \in Seq(S)
<1>1. Tail(q[t]) \in Seq(S) \/ t # s
  OBVIOUS
<1> QED
  BY <1>1 DEF Received

LEMMA TypeInit == Init => TypeInv
<1> SUFFICES ASSUME Init PROVE TypeInv
  OBVIOUS
<1> USE ConstantsAssumption DEF Init, Chunks
<1>1. SenderTypeOK
  BY DEF SenderTypeOK, SenderPcs, Statuses
<1>2. ReceiverTypeOK
  BY DEF ReceiverTypeOK, ReceiverPcs, Statuses
<1>3. DiskTypeOK
  BY DEF DiskTypeOK, IsFile, Allocated
<1>4. NetTypeOK
  BY DEF NetTypeOK
<1>5. LoopsInBounds
  BY DEF LoopsInBounds
<1> QED
  BY <1>1, <1>2, <1>3, <1>4, <1>5 DEF TypeInv, TypeOK

\* A file is a file after a write too.
LEMMA WrittenType ==
    ASSUME NEW file, IsFile(file), NEW i \in Nat, NEW b \in Sessions \cup {Hole}
    PROVE  /\ IsFile(Written(file, i, b))
           /\ DOMAIN Written(file, i, b) = DOMAIN file \cup 0 .. i
           /\ Written(file, i, b)[i] = b
           /\ \A j \in DOMAIN file : j # i => Written(file, i, b)[j] = file[j]
BY DEF Written, IsFile

\* The sender's variables.
SenderInv == SenderTypeOK /\ \A s \in Sessions : sndPc[s] = "awaitAck" => sndIdx[s] < TotalChunks[s]

LEMMA SenderStepType == TypeInv /\ [Next]_vars => SenderInv'
<1> SUFFICES ASSUME TypeInv, [Next]_vars PROVE SenderInv'
  OBVIOUS
<1> USE ConstantsAssumption DEF SenderPcs, SenderEnd, Statuses
<1>0. SenderInv
  BY DEF TypeInv, TypeOK, LoopsInBounds, SenderInv
<1> USE DEF SenderInv, SenderTypeOK
<1>1. CASE UNCHANGED sndVars
  BY <1>0, <1>1 DEF sndVars
<1>2. ASSUME NEW s \in Sessions, BeginSend(s) \/ SenderReadError(s) \/ StopSending(s) PROVE SenderInv'
  BY <1>0, <1>2 DEF BeginSend, SenderReadError, StopSending
<1>3. ASSUME NEW s \in Sessions, RecvResponse(s) PROVE SenderInv'
  BY <1>0, <1>3 DEF RecvResponse
<1>4. ASSUME NEW s \in Sessions, SendChunk(s) PROVE SenderInv'
  BY <1>0, <1>4 DEF SendChunk
<1>5. ASSUME NEW s \in Sessions, RecvAck(s) PROVE SenderInv'
  BY <1>0, <1>5 DEF RecvAck, Chunks
<1>6. ASSUME NEW s \in Sessions, FinishSend(s) PROVE SenderInv'
  BY <1>0, <1>6 DEF FinishSend
<1>7. ASSUME NEW s \in Sessions, SenderCommand(s) PROVE SenderInv'
  BY <1>0, <1>7 DEF SenderCommand, AfterCommand, PauseStatus, ResumeStatus, CancelStatus, Commands
<1> QED
  BY <1>1, <1>2, <1>3, <1>4, <1>5, <1>6, <1>7
  DEF Next, Step, SenderStep, ReceiverStep, UserStep, NetworkStep, vars,
      RecvRequest, HandleAccept, HandleReject, BeginReceive, EndRefused, AllocateFile, CheckReceive, RecvChunk,
      RecvDamagedChunk, ReceiverReadError, WriteChunk, AckChunk, MarkChunk, EndReceiveLoop,
      ReadBack, FinishReceive, Accept, Reject, RejectStatus, ReceiverCommand, LinkLost, DamageChunk

\* A chunk on the wire is a chunk of the session.
LEMMA HeadIsChunk ==
    ASSUME NetTypeOK, NEW s \in Sessions, toRcv[s] # << >>, Head(toRcv[s]).type = "ChunkData"
    PROVE  Head(toRcv[s]).index \in Chunks(s)
<1>1. Head(toRcv[s]) \in ToReceiver(s)
  BY DEF NetTypeOK
<1> QED
  BY <1>1 DEF ToReceiver, Request, ChunkData, Damaged

\* The receiver's variables.
ReceiverInv ==
    /\ ReceiverTypeOK
    /\ \A s \in Sessions :
          /\ rcvPc[s] \in {"recv", "write", "ack", "mark"} => rcvIdx[s] < TotalChunks[s]
          /\ rcvPc[s] \in {"write", "ack", "mark"} => rcvCur[s] \in Chunks(s)

LEMMA ReceiverStepType == TypeInv /\ [Next]_vars => ReceiverInv'
<1> SUFFICES ASSUME TypeInv, [Next]_vars PROVE ReceiverInv'
  OBVIOUS
<1> USE ConstantsAssumption DEF ReceiverPcs, Statuses, FailReceive, Return
<1>0. ReceiverInv /\ NetTypeOK
  BY DEF TypeInv, TypeOK, LoopsInBounds, ReceiverInv
<1>a. \A s \in Sessions : Chunks(s) \subseteq Nat
  BY DEF Chunks
<1> USE DEF ReceiverInv, ReceiverTypeOK
<1>1. CASE UNCHANGED rcvVars
  BY <1>0, <1>1 DEF rcvVars, taskVars, bookVars, userVars
<1>2. ASSUME NEW s \in Sessions, HandleAccept(s) \/ HandleReject(s) PROVE ReceiverInv'
  BY <1>0, <1>2 DEF HandleAccept, HandleReject, userVars, bookVars
<1>3. ASSUME NEW s \in Sessions, BeginReceive(s) \/ EndRefused(s) PROVE ReceiverInv'
  BY <1>0, <1>3 DEF BeginReceive, EndRefused, userVars
<1>4. ASSUME NEW s \in Sessions, AllocateFile(s) \/ WriteChunk(s) PROVE ReceiverInv'
  BY <1>0, <1>4 DEF AllocateFile, WriteChunk, userVars
<1>5. ASSUME NEW s \in Sessions, RecvRequest(s) PROVE ReceiverInv'
  BY <1>0, <1>5 DEF RecvRequest
<1>6. ASSUME NEW s \in Sessions, CheckReceive(s) \/ AckChunk(s) PROVE ReceiverInv'
  BY <1>0, <1>6 DEF CheckReceive, AckChunk, userVars, bookVars
<1>7. ASSUME NEW s \in Sessions, RecvChunk(s) PROVE ReceiverInv'
  BY <1>0, <1>7, <1>a, HeadIsChunk DEF RecvChunk, userVars, bookVars
<1>8. ASSUME NEW s \in Sessions, RecvDamagedChunk(s) PROVE ReceiverInv'
  <2> DEFINE i == Head(toRcv[s]).index
  <2>1. i \in Chunks(s)
    BY <1>0, <1>8, HeadIsChunk DEF RecvDamagedChunk
  <2>2. rcvRetries' = [rcvRetries EXCEPT ![s][i] = @ + 1]
    BY <1>8 DEF RecvDamagedChunk
  <2>3. /\ DOMAIN rcvRetries' = Sessions
        /\ \A t \in Sessions : rcvRetries'[t] \in [Chunks(t) -> Nat]
    <3> HIDE DEF i
    <3> QED
      BY <1>0, <2>1, <2>2
  <2> HIDE DEF i
  <2>4. UNCHANGED <<rcvCur, rcvGood, rcvDone, userVars>>
    BY <1>8 DEF RecvDamagedChunk
  <2>5. CASE FailReceive(s) /\ UNCHANGED rcvIdx
    BY <1>0, <2>3, <2>4, <2>5 DEF userVars
  <2>6. CASE /\ rcvIdx' = [rcvIdx EXCEPT ![s] = @ + 1]
             /\ rcvPc' = [rcvPc EXCEPT ![s] = "check"]
             /\ UNCHANGED rcvStatus
    <3>1. rcvIdx[s] < TotalChunks[s]
      BY <1>0, <1>8 DEF RecvDamagedChunk
    <3> QED
      BY <1>0, <2>3, <2>4, <2>6, <3>1 DEF userVars
  <2> QED
    BY <1>8, <2>5, <2>6 DEF RecvDamagedChunk
<1>9. ASSUME NEW s \in Sessions, ReceiverReadError(s) PROVE ReceiverInv'
  BY <1>0, <1>9 DEF ReceiverReadError, userVars
<1>10. ASSUME NEW s \in Sessions, MarkChunk(s) PROVE ReceiverInv'
  BY <1>0, <1>10, <1>a DEF MarkChunk, userVars
<1>11. ASSUME NEW s \in Sessions, EndReceiveLoop(s) PROVE ReceiverInv'
  BY <1>0, <1>11 DEF EndReceiveLoop, userVars, bookVars
<1>12. ASSUME NEW s \in Sessions, FinishReceive(s) PROVE ReceiverInv'
  BY <1>0, <1>12 DEF FinishReceive, userVars
<1>16. ASSUME NEW s \in Sessions, ReadBack(s) PROVE ReceiverInv'
  <2>1. CASE UNCHANGED <<rcvGood, rcvIdx>>
    BY <1>0, <1>16, <2>1, SMTT(30) DEF ReadBack, userVars
  <2>2. CASE /\ UNCHANGED <<rcvPc, rcvStatus>>
             /\ rcvIdx' = [rcvIdx EXCEPT ![s] = @ + 1]
             /\ rcvGood' = [rcvGood EXCEPT ![s] = @ /\ disk[savePath[s]][rcvIdx[s]] = s]
    <3>1. rcvGood' \in [Sessions -> BOOLEAN]
      BY <1>0, <2>2, Zenon
    <3> QED
      BY <1>0, <1>16, <2>2, <3>1 DEF ReadBack, userVars
  <2> QED
    BY <1>16, <2>1, <2>2 DEF ReadBack
<1>13. ASSUME NEW s \in Sessions, Reject(s) \/ RejectStatus(s) PROVE ReceiverInv'
  BY <1>0, <1>13 DEF Reject, RejectStatus, taskVars, bookVars
<1>14. ASSUME NEW s \in Sessions, NEW p \in PathChoices[s], Accept(s, p) PROVE ReceiverInv'
  BY <1>0, <1>14 DEF Accept, taskVars, bookVars
<1>15. ASSUME NEW s \in Sessions, ReceiverCommand(s) PROVE ReceiverInv'
  BY <1>0, <1>15 DEF ReceiverCommand, AfterCommand, PauseStatus, ResumeStatus, CancelStatus,
                     Commands, taskVars, userVars
<1> QED
  BY <1>1, <1>2, <1>3, <1>4, <1>5, <1>6, <1>7, <1>8, <1>9, <1>10, <1>11, <1>12, <1>13, <1>14,
     <1>15, <1>16
  DEF Next, Step, SenderStep, ReceiverStep, UserStep, NetworkStep, vars,
      RecvResponse, SendChunk, StopSending, RecvAck, SenderReadError, FinishSend,
      BeginSend, SenderCommand, LinkLost, DamageChunk

LEMMA DiskStepType == TypeInv /\ [Next]_vars => DiskTypeOK'
<1> SUFFICES ASSUME TypeInv, [Next]_vars PROVE DiskTypeOK'
  OBVIOUS
<1> USE ConstantsAssumption
<1>0. DiskTypeOK /\ ReceiverTypeOK
  BY DEF TypeInv, TypeOK
<1> USE DEF DiskTypeOK
<1>1. CASE UNCHANGED disk
  BY <1>0, <1>1
<1>2. ASSUME NEW s \in Sessions, AllocateFile(s) PROVE DiskTypeOK'
  <2>1. \A n \in Nat : IsFile(Allocated(n))
    BY DEF Allocated, IsFile
  <2>2. \/ \E n \in Nat : disk' = [disk EXCEPT ![savePath[s]] = Allocated(n)]
        \/ UNCHANGED disk
    BY <1>2 DEF AllocateFile
  <2> QED
    BY <1>0, <2>1, <2>2
<1>3. ASSUME NEW s \in Sessions, WriteChunk(s) PROVE DiskTypeOK'
  <2>1. \/ \E b \in Sessions \cup {Hole} :
              disk' = [disk EXCEPT ![savePath[s]] = Written(disk[savePath[s]], rcvCur[s], b)]
        \/ UNCHANGED disk
    BY <1>3 DEF WriteChunk
  <2>2. SUFFICES ASSUME NEW p \in Paths, p = savePath[s], NEW b \in Sessions \cup {Hole},
                        disk' = [disk EXCEPT ![p] = Written(disk[p], rcvCur[s], b)]
                 PROVE  DiskTypeOK'
    BY <1>0, <2>1
  <2>3. IsFile(Written(disk[p], rcvCur[s], b))
    BY <1>0, WrittenType DEF ReceiverTypeOK
  <2> QED
    BY <1>0, <2>2, <2>3
<1>4. ASSUME NEW s \in Sessions, Step(s), ~AllocateFile(s), ~WriteChunk(s) PROVE UNCHANGED disk
  <2>1. CASE SenderStep(s)
    BY <2>1 DEF SenderStep, rcvVars, RecvResponse, SendChunk, StopSending, RecvAck,
      SenderReadError, FinishSend
  <2>2. CASE ReceiverStep(s)
    BY <1>4, <2>2 DEF ReceiverStep, RecvRequest, HandleAccept, HandleReject, BeginReceive,
      EndRefused, CheckReceive, RecvChunk, RecvDamagedChunk, ReceiverReadError, AckChunk,
      MarkChunk, EndReceiveLoop, ReadBack, FinishReceive
  <2>3. CASE UserStep(s) \/ NetworkStep(s)
    BY <2>3 DEF UserStep, NetworkStep, rcvVars, BeginSend, Accept, Reject, RejectStatus,
      SenderCommand, ReceiverCommand, LinkLost, DamageChunk
  <2> QED
    BY <1>4, <2>1, <2>2, <2>3 DEF Step
<1>5. UNCHANGED vars => UNCHANGED disk
  BY DEF vars, rcvVars
<1> QED
  BY <1>1, <1>2, <1>3, <1>4, <1>5 DEF Next

LEMMA NetStepType == TypeInv /\ [Next]_vars => NetTypeOK'
<1> SUFFICES ASSUME TypeInv, [Next]_vars PROVE NetTypeOK'
  OBVIOUS
<1> USE ConstantsAssumption
<1>0. SenderInv /\ ReceiverInv /\ NetTypeOK
  BY DEF TypeInv, TypeOK, LoopsInBounds, SenderInv, ReceiverInv
<1>1. \A s \in Sessions : /\ TransferAccept \in ToSender(s)
                          /\ TransferReject \in ToSender(s)
                          /\ Request \in ToReceiver(s)
                          /\ \A i \in Chunks(s) : /\ ChunkAck(i) \in ToSender(s)
                                                  /\ ChunkData(i) \in ToReceiver(s)
                                                  /\ Damaged(i) \in ToReceiver(s)
  BY DEF ToSender, ToReceiver
<1>a. ASSUME NEW s \in Sessions, NEW m \in ToReceiver(s),
             toRcv' = Sent(toRcv, s, m), UNCHANGED <<link, toSnd, damage>>
      PROVE  NetTypeOK'
  BY <1>0, <1>a, SentType DEF NetTypeOK
<1>b. ASSUME NEW s \in Sessions, NEW m \in ToSender(s),
             toSnd' = Sent(toSnd, s, m), UNCHANGED <<link, toRcv, damage>>
      PROVE  NetTypeOK'
  BY <1>0, <1>b, SentType DEF NetTypeOK
<1>c. UNCHANGED netVars => NetTypeOK'
  BY <1>0 DEF NetTypeOK, netVars
<1> USE DEF NetTypeOK
<1>2. CASE UNCHANGED netVars
  BY <1>0, <1>2 DEF netVars
<1>3. ASSUME NEW s \in Sessions, RecvResponse(s) \/ RecvAck(s) PROVE NetTypeOK'
  <2>1. toSnd[s] # << >> /\ toSnd' = Received(toSnd, s) /\ UNCHANGED <<link, toRcv, damage>>
    BY <1>3 DEF RecvResponse, RecvAck
  <2> QED
    BY <1>0, <2>1, ReceivedType
<1>4. ASSUME NEW s \in Sessions, SendChunk(s) PROVE NetTypeOK'
  <2>1. ChunkData(sndIdx[s]) \in ToReceiver(s)
    BY <1>0, <1>1, <1>4 DEF SendChunk, SenderInv, SenderTypeOK, Chunks
  <2>2. /\ toRcv' = Sent(toRcv, s, ChunkData(sndIdx[s])) \/ UNCHANGED toRcv
        /\ UNCHANGED <<link, toSnd, damage>>
    BY <1>4 DEF SendChunk
  <2> QED
    BY <1>a, <1>c, <2>1, <2>2 DEF netVars
<1>5. ASSUME NEW s \in Sessions, RecvRequest(s) \/ RecvChunk(s) \/ RecvDamagedChunk(s)
      PROVE NetTypeOK'
  <2>1. toRcv[s] # << >> /\ toRcv' = Received(toRcv, s) /\ UNCHANGED <<link, toSnd, damage>>
    BY <1>5 DEF RecvRequest, RecvChunk, RecvDamagedChunk
  <2> QED
    BY <1>0, <2>1, ReceivedType
<1>6. ASSUME NEW s \in Sessions, HandleAccept(s) \/ HandleReject(s) \/ AckChunk(s)
      PROVE NetTypeOK'
  <2>1. rcvPc[s] = "ack" => ChunkAck(rcvCur[s]) \in ToSender(s)
    BY <1>0, <1>1 DEF ReceiverInv
  <2>2. /\ \/ \E m \in ToSender(s) : toSnd' = Sent(toSnd, s, m)
           \/ UNCHANGED toSnd
        /\ UNCHANGED <<link, toRcv, damage>>
    BY <1>1, <1>6, <2>1 DEF HandleAccept, HandleReject, BeginReceive, EndRefused, AckChunk
  <2> QED
    BY <1>b, <1>c, <2>2 DEF netVars
<1>7. ASSUME NEW s \in Sessions, BeginSend(s) PROVE NetTypeOK'
  <2>1. /\ toRcv' = Sent(toRcv, s, Request) \/ UNCHANGED toRcv
        /\ UNCHANGED <<link, toSnd, damage>>
    BY <1>7 DEF BeginSend
  <2> QED
    BY <1>1, <1>a, <1>c, <2>1 DEF netVars
<1>8. ASSUME NEW s \in Sessions, LinkLost(s) PROVE NetTypeOK'
  BY <1>0, <1>8 DEF LinkLost
<1>9. ASSUME NEW s \in Sessions, DamageChunk(s) PROVE NetTypeOK'
  <2>1. Head(toRcv[s]).index \in Chunks(s)
    BY <1>0, <1>9, HeadIsChunk DEF DamageChunk
  <2> QED
    BY <1>0, <1>1, <1>9, <2>1 DEF DamageChunk
<1> QED
  BY <1>2, <1>3, <1>4, <1>5, <1>6, <1>7, <1>8, <1>9
  DEF Next, Step, SenderStep, ReceiverStep, UserStep, NetworkStep, vars, netVars,
      StopSending, SenderReadError, FinishSend, BeginReceive, EndRefused, AllocateFile, CheckReceive,
      ReceiverReadError, WriteChunk, MarkChunk, EndReceiveLoop, ReadBack, FinishReceive,
      Accept, Reject, RejectStatus, SenderCommand, ReceiverCommand

LEMMA TypeStep == TypeInv /\ [Next]_vars => TypeInv'
BY SenderStepType, ReceiverStepType, DiskStepType, NetStepType
DEF TypeInv, TypeOK, LoopsInBounds, SenderInv, ReceiverInv

\* In every state of every instance each variable has its type, and no index, no
\* chunk of a ledger and no chunk on the wire is outside the file (TypeOK).
THEOREM TypeCorrect == Spec => []TypeOK
<1>1. TypeInv => TypeOK
  BY DEF TypeInv
<1> QED
  BY TypeInit, TypeStep, <1>1, PTL DEF Spec

-----------------------------------------------------------------------------
(* Taking turns: the inductive invariant, one session at a time *)

\* the receiver's task is past the user's accept and works on the file
WithFile == {"check", "recv", "write", "ack", "mark", "readBack"}

\* The user has rejected the request.
Rejected(s) == choice[s] \in {"reject", "rejected"}

\* The save path is known from the accept on, and the task is ahead of the accept
\* as long as the user may still decide.
ConsentAt(s) ==
    /\ savePath[s] \in Paths <=> choice[s] = "accept"
    /\ choice[s] = "open" => rcvPc[s] = "awaitDecision"
    /\ rcvPc[s] = "none" => choice[s] = "none"
    /\ rcvPc[s] \in {"accepted", "allocate"} \cup WithFile => choice[s] = "accept"
    /\ rcvPc[s] = "refused" => Rejected(s)
    /\ rcvStatus[s] = "Completed" => rcvPc[s] = "returned" /\ choice[s] = "accept"

\* The user has not accepted, or the task has not allocated the file yet.
Early(s) == choice[s] # "accept" \/ rcvPc[s] \in {"none", "awaitDecision", "accepted", "allocate"}

Quieted(s) == toRcv[s] = << >> /\ toSnd[s] = << >>

ChunkInFlight(s) == toRcv[s] \in {<<ChunkData(sndIdx[s])>>, <<Damaged(sndIdx[s])>>}

AckInFlight(s) == toSnd[s] = <<ChunkAck(sndIdx[s])>>

\* What the message in flight says about the two tasks.
StreamAt(s) ==
    /\ toRcv[s] = << >> \/ toSnd[s] = << >>
    /\ ~link[s] => Quieted(s)
    /\ toRcv[s] = << >> \/ toRcv[s] = <<Request>> \/ ChunkInFlight(s)
    /\ \/ toSnd[s] \in {<< >>, <<TransferAccept>>, <<TransferReject>>}
       \/ AckInFlight(s)
    /\ toRcv[s] = <<Request>> => sndPc[s] = "awaitResponse" /\ rcvPc[s] = "none"
    /\ ChunkInFlight(s) =>
         /\ sndPc[s] \in {"awaitAck", "error"}
         /\ choice[s] = "accept"
         /\ rcvPc[s] \notin {"none", "awaitDecision", "write", "ack"}
         /\ sndIdx[s] \notin rcvDone[s]
    /\ toSnd[s] = <<TransferAccept>> =>
         /\ sndPc[s] = "awaitResponse"
         /\ choice[s] = "accept"
         /\ rcvPc[s] \notin {"none", "awaitDecision"}
    /\ toSnd[s] = <<TransferReject>> =>
         sndPc[s] = "awaitResponse" /\ rcvPc[s] \in {"refused", "returned"} /\ Rejected(s)
    /\ AckInFlight(s) =>
         /\ sndPc[s] = "awaitAck"
         /\ ~Early(s)
         /\ rcvPc[s] \notin {"write", "ack"}
         /\ sndIdx[s] \in rcvDone[s] \/ (rcvPc[s] = "mark" /\ rcvCur[s] = sndIdx[s])

\* What the place of the sender's task says about the receiver's.
SenderAt(s) ==
    /\ sndPc[s] = "idle" => Quieted(s) /\ rcvPc[s] = "none"
    /\ sndPc[s] = "awaitResponse" => sndIdx[s] = 0 /\ rcvPc[s] \notin {"write", "ack", "mark"}
    /\ sndPc[s] \in {"nextChunk", "stopped", "sent"} => Quieted(s)
    /\ sndPc[s] \in {"nextChunk", "awaitAck", "stopped", "sent"} =>
         choice[s] = "accept" /\ rcvPc[s] \notin {"none", "awaitDecision"}
    /\ sndPc[s] = "error" /\ link[s] => rcvPc[s] \in {"refused", "returned"}

\* What the place of the receiver's task says about the sender's.
ReceiverAt(s) ==
    /\ Early(s) => sndIdx[s] = 0 /\ rcvDone[s] = {}
    /\ rcvPc[s] \in {"awaitDecision", "write", "ack"} => Quieted(s)
    /\ rcvPc[s] \in {"write", "ack"} =>
         /\ sndPc[s] \in {"awaitAck", "error"}
         /\ rcvCur[s] = sndIdx[s]
         /\ sndIdx[s] \notin rcvDone[s]
    /\ rcvPc[s] = "mark" =>
         /\ sndIdx[s] \notin rcvDone[s]
         /\ \/ /\ rcvCur[s] = sndIdx[s]
               /\ sndPc[s] \in {"awaitAck", "error"}
               /\ toRcv[s] = << >>
            \/ rcvCur[s] + 1 = sndIdx[s]

\* The sender's ledger is the chunks before its index; the receiver's has these
\* too, but for the one being marked, and at most the next one besides.
LedgerAt(s) ==
    /\ sndDone[s] = 0 .. sndIdx[s] - 1
    /\ rcvDone[s] \subseteq 0 .. sndIdx[s]
    /\ \A i \in 0 .. sndIdx[s] - 1 : i \in rcvDone[s] \/ (rcvPc[s] = "mark" /\ rcvCur[s] = i)
    /\ sndPc[s] \notin {"awaitAck", "error"} => sndIdx[s] \notin rcvDone[s]
    /\ sndStatus[s] = "Completed" => sndIdx[s] = TotalChunks[s]
    /\ rcvPc[s] = "readBack" \/ rcvStatus[s] = "Completed" => rcvDone[s] = Chunks(s)

\* After a damaged chunk nothing moves on the stream any more.
DamageAt(s) ==
    \A i \in Chunks(s) : rcvRetries[s][i] > 0 =>
        /\ i = sndIdx[s]
        /\ i \notin rcvDone[s]
        /\ Quieted(s)
        /\ sndPc[s] \in {"awaitAck", "error"}
        /\ rcvPc[s] \in {"check", "recv", "readBack", "returned"}

SessionAt(s) ==
    ConsentAt(s) /\ StreamAt(s) /\ SenderAt(s) /\ ReceiverAt(s) /\ LedgerAt(s) /\ DamageAt(s)

TurnInv == TypeInv /\ \A s \in Sessions : SessionAt(s)

-----------------------------------------------------------------------------
(* A step of one session leaves the others as they are, unless it takes the  *)
(* connection away from them.                                              *)

SameTasks(s) ==
    /\ sndPc'[s] = sndPc[s]
    /\ sndIdx'[s] = sndIdx[s]
    /\ sndStatus'[s] = sndStatus[s]
    /\ sndDone'[s] = sndDone[s]
    /\ rcvPc'[s] = rcvPc[s]
    /\ rcvIdx'[s] = rcvIdx[s]
    /\ rcvCur'[s] = rcvCur[s]
    /\ rcvGood'[s] = rcvGood[s]
    /\ rcvStatus'[s] = rcvStatus[s]
    /\ rcvDone'[s] = rcvDone[s]
    /\ rcvRetries'[s] = rcvRetries[s]
    /\ savePath'[s] = savePath[s]
    /\ choice'[s] = choice[s]

Same(s) ==
    /\ SameTasks(s)
    /\ link'[s] = link[s]
    /\ toRcv'[s] = toRcv[s]
    /\ toSnd'[s] = toSnd[s]

LEMMA Frame ==
    ASSUME TypeInv, NEW s \in Sessions, NEW t \in Sessions \ {s}, Step(t)
    PROVE  Same(s) \/ LinkLost(t)
<1> USE DEF Same, SameTasks, Sent, Received, FailReceive, Return, TypeInv, TypeOK, SenderTypeOK,
            ReceiverTypeOK, NetTypeOK, sndVars, rcvVars, netVars, taskVars, bookVars, userVars
<1>1. CASE BeginSend(t) \/ RecvResponse(t) \/ SendChunk(t)
  BY <1>1 DEF BeginSend, RecvResponse, SendChunk
<1>2. CASE StopSending(t) \/ RecvAck(t) \/ SenderReadError(t) \/ FinishSend(t)
  BY <1>2 DEF StopSending, RecvAck, SenderReadError, FinishSend
<1>3. CASE RecvRequest(t) \/ HandleAccept(t) \/ HandleReject(t)
  BY <1>3 DEF RecvRequest, HandleAccept, HandleReject
<1>9. CASE BeginReceive(t) \/ EndRefused(t) \/ AllocateFile(t)
  BY <1>9 DEF BeginReceive, EndRefused, AllocateFile
<1>4. CASE CheckReceive(t) \/ RecvChunk(t) \/ RecvDamagedChunk(t) \/ ReceiverReadError(t)
  BY <1>4 DEF CheckReceive, RecvChunk, RecvDamagedChunk, ReceiverReadError
<1>5. CASE WriteChunk(t) \/ AckChunk(t) \/ MarkChunk(t) \/ EndReceiveLoop(t)
  BY <1>5 DEF WriteChunk, AckChunk, MarkChunk, EndReceiveLoop
<1>6. CASE ReadBack(t) \/ FinishReceive(t) \/ Reject(t) \/ RejectStatus(t)
  BY <1>6 DEF ReadBack, FinishReceive, Reject, RejectStatus
<1>7. CASE SenderCommand(t) \/ ReceiverCommand(t) \/ \E p \in PathChoices[t] : Accept(t, p)
  BY <1>7 DEF SenderCommand, ReceiverCommand, Accept
<1>8. CASE DamageChunk(t)
  BY <1>8 DEF DamageChunk
<1> QED
  BY <1>1, <1>2, <1>3, <1>4, <1>5, <1>6, <1>7, <1>8, <1>9
  DEF Step, SenderStep, ReceiverStep, UserStep, NetworkStep

\* A connection that is lost takes the messages of all its sessions with it.
LEMMA LossAt ==
    ASSUME TypeInv, NEW s \in Sessions, NEW t \in Sessions, LinkLost(t)
    PROVE  /\ UNCHANGED <<sndVars, rcvVars>>
           /\ \/ link'[s] = FALSE /\ toRcv'[s] = << >> /\ toSnd'[s] = << >>
              \/ link'[s] = link[s] /\ toRcv'[s] = toRcv[s] /\ toSnd'[s] = toSnd[s]
BY DEF LinkLost, TypeInv, TypeOK, NetTypeOK

LEMMA TaskFrame ==
    ASSUME TypeInv, NEW s \in Sessions, NEW t \in Sessions \ {s}, Step(t)
    PROVE  SameTasks(s)
<1>1. CASE LinkLost(t)
  BY <1>1, LossAt DEF SameTasks, sndVars, rcvVars, taskVars, bookVars, userVars
<1> QED
  BY <1>1, Frame DEF Same

LEMMA SessionFrame ==
    ASSUME NEW s \in Sessions, Same(s), SessionAt(s)
    PROVE  SessionAt(s)'
<1> USE DEF Same, SameTasks, SessionAt, Quieted, ChunkInFlight, AckInFlight, Early, Rejected
<1>1. ConsentAt(s)'
  BY DEF ConsentAt
<1>2. StreamAt(s)'
  BY DEF StreamAt
<1>3. SenderAt(s)' /\ ReceiverAt(s)'
  BY DEF SenderAt, ReceiverAt
<1>4. LedgerAt(s)'
  BY DEF LedgerAt
<1>5. DamageAt(s)'
  BY DEF DamageAt
<1> QED
  BY <1>1, <1>2, <1>3, <1>4, <1>5

-----------------------------------------------------------------------------
(* The step of a session itself, one action at a time *)

LEMMA OneMessage ==
    ASSUME NEW m
    PROVE  /\ Append(<< >>, m) = <<m>>
           /\ Head(<<m>>) = m
           /\ Tail(<<m>>) = << >>
           /\ <<m>> # << >>
           /\ \A n : <<m>> = <<n>> <=> m = n
OBVIOUS

LEMMA Messages ==
    /\ Request.type = "TransferRequest"
    /\ TransferAccept.type = "TransferAccept"
    /\ TransferReject.type = "TransferReject"
    /\ TransferAccept # TransferReject
    /\ \A i : /\ ChunkData(i).type = "ChunkData" /\ ChunkData(i).index = i /\ ChunkData(i).intact
              /\ Damaged(i).type = "ChunkData" /\ Damaged(i).index = i /\ ~Damaged(i).intact
              /\ ChunkAck(i).type = "ChunkAck" /\ ChunkAck(i).index = i
              /\ ChunkData(i) # Request /\ Damaged(i) # Request
              /\ ChunkAck(i) \notin {TransferAccept, TransferReject}
              /\ \A j : /\ ChunkData(i) # Damaged(j)
                        /\ ChunkData(i) = ChunkData(j) => i = j
                        /\ Damaged(i) = Damaged(j) => i = j
                        /\ ChunkAck(i) = ChunkAck(j) => i = j
BY DEF Request, TransferAccept, TransferReject, ChunkData, Damaged, ChunkAck

\* A message written to an empty stream.
LEMMA SentOne ==
    ASSUME NEW q, DOMAIN q = Sessions, NEW s \in Sessions, q[s] = << >>, NEW m
    PROVE  Sent(q, s, m)[s] = IF link[s] THEN <<m>> ELSE << >>
BY OneMessage DEF Sent

\* The only message of a stream is read.
LEMMA ReceivedOne ==
    ASSUME NEW q, DOMAIN q = Sessions, NEW s \in Sessions, NEW m, q[s] = <<m>>
    PROVE  Received(q, s)[s] = << >>
BY OneMessage DEF Received

\* The part of the type invariant that the values after a step depend on.
LEMMA Types ==
    ASSUME TypeInv
    PROVE  /\ sndPc \in [Sessions -> SenderPcs]
           /\ sndIdx \in [Sessions -> Nat]
           /\ sndStatus \in [Sessions -> Statuses]
           /\ sndDone \in [Sessions -> SUBSET Nat]
           /\ rcvPc \in [Sessions -> ReceiverPcs]
           /\ rcvCur \in [Sessions -> Nat]
           /\ rcvStatus \in [Sessions -> Statuses]
           /\ rcvDone \in [Sessions -> SUBSET Nat]
           /\ DOMAIN rcvRetries = Sessions
           /\ savePath \in [Sessions -> Paths \cup {NoPath}]
           /\ choice \in [Sessions -> {"none", "open", "accept", "reject", "rejected"}]
           /\ link \in [Sessions -> BOOLEAN]
           /\ DOMAIN toRcv = Sessions
           /\ DOMAIN toSnd = Sessions
BY DEF TypeInv, TypeOK, SenderTypeOK, ReceiverTypeOK, NetTypeOK

LEMMA BeginSendTurn ==
    ASSUME TypeInv, NEW s \in Sessions, SessionAt(s), BeginSend(s)
    PROVE  SessionAt(s)'
<1> USE DEF SessionAt, Rejected
<1>1. Quieted(s) /\ rcvPc[s] = "none" /\ choice[s] = "none" /\ sndIdx[s] = 0 /\ rcvDone[s] = {}
  BY DEF BeginSend, SenderAt, ConsentAt, ReceiverAt, Early
<1>2. Sent(toRcv, s, Request)[s] = IF link[s] THEN <<Request>> ELSE << >>
  BY <1>1, Types, SentOne DEF Quieted
<1>3. /\ sndStatus'[s] = "PendingAccept"
      /\ UNCHANGED <<sndIdx, sndDone, rcvVars, link, toSnd>>
      /\ \/ sndPc'[s] = "awaitResponse" /\ toRcv'[s] = (IF link[s] THEN <<Request>> ELSE << >>)
         \/ sndPc'[s] = "error" /\ toRcv'[s] = << >> /\ ~link[s]
  BY <1>1, <1>2, Types DEF BeginSend, SenderWriteFails, ReceiverEnded, Quieted
<1> USE DEF rcvVars, taskVars, bookVars, userVars
<1>4. ConsentAt(s)'
  BY <1>1, <1>3 DEF ConsentAt
<1>5. StreamAt(s)'
  BY <1>1, <1>3, OneMessage, Messages DEF StreamAt, Quieted, ChunkInFlight, AckInFlight
<1>6. SenderAt(s)'
  BY <1>1, <1>3 DEF SenderAt, Quieted
<1>7. ReceiverAt(s)'
  BY <1>1, <1>3 DEF ReceiverAt, Early, Quieted
<1>8. LedgerAt(s)'
  BY <1>1, <1>3 DEF LedgerAt
<1>9. DamageAt(s)'
  BY <1>1, <1>3 DEF DamageAt, BeginSend
<1> QED
  BY <1>4, <1>5, <1>6, <1>7, <1>8, <1>9

LEMMA RecvResponseTurn ==
    ASSUME TypeInv, NEW s \in Sessions, SessionAt(s), RecvResponse(s)
    PROVE  SessionAt(s)'
<1> USE DEF SessionAt, Rejected
<1>1. PICK m \in {TransferAccept, TransferReject} : toSnd[s] = <<m>>
  BY OneMessage, Messages DEF RecvResponse, StreamAt, AckInFlight
<1>2. /\ UNCHANGED <<sndIdx, sndDone, rcvVars, link, toRcv>>
      /\ toSnd'[s] = << >>
      /\ sndStatus'[s] # "Completed"
      /\ \/ m = TransferAccept /\ sndPc'[s] = "nextChunk"
         \/ m = TransferReject /\ sndPc'[s] = "error"
  <2>1. Head(toSnd[s]) = m
    BY <1>1, OneMessage
  <2>2. Received(toSnd, s)[s] = << >>
    BY <1>1, Types, ReceivedOne
  <2> QED
    BY <2>1, <2>2, Types, Messages DEF RecvResponse
<1>3. /\ sndPc[s] = "awaitResponse"
      /\ toRcv[s] = << >>
      /\ m = TransferAccept => choice[s] = "accept" /\ rcvPc[s] \notin {"none", "awaitDecision"}
      /\ m = TransferReject => rcvPc[s] \in {"refused", "returned"}
  BY <1>1, OneMessage DEF StreamAt, RecvResponse
<1> USE DEF rcvVars, taskVars, bookVars, userVars
<1>4. ConsentAt(s)'
  BY <1>2 DEF ConsentAt
<1>5. StreamAt(s)'
  BY <1>2, <1>3, OneMessage, Messages DEF StreamAt, Quieted, ChunkInFlight, AckInFlight
<1>6. SenderAt(s)'
  BY <1>2, <1>3 DEF SenderAt, Quieted
<1>7. ReceiverAt(s)'
  BY <1>2, <1>3 DEF ReceiverAt, SenderAt, Early, Quieted
<1>8. LedgerAt(s)'
  BY <1>2, <1>3 DEF LedgerAt
<1>9. DamageAt(s)'
  BY <1>2, <1>3 DEF DamageAt
<1> QED
  BY <1>4, <1>5, <1>6, <1>7, <1>8, <1>9

LEMMA SendChunkTurn ==
    ASSUME TypeInv, NEW s \in Sessions, SessionAt(s), SendChunk(s)
    PROVE  SessionAt(s)'
<1> USE DEF SessionAt, Rejected
<1>1. /\ Quieted(s)
      /\ choice[s] = "accept"
      /\ sndPc[s] = "nextChunk"
      /\ rcvPc[s] \notin {"none", "awaitDecision", "write", "ack"}
      /\ sndIdx[s] \notin rcvDone[s]
  BY DEF SendChunk, SenderAt, ReceiverAt, LedgerAt
<1>2. Sent(toRcv, s, ChunkData(sndIdx[s]))[s] = IF link[s] THEN <<ChunkData(sndIdx[s])>> ELSE << >>
  BY <1>1, Types, SentOne DEF Quieted
<1>3. /\ UNCHANGED <<sndIdx, sndStatus, sndDone, rcvVars, link, toSnd>>
      /\ \/ /\ sndPc'[s] = "awaitAck"
            /\ toRcv'[s] = IF link[s] THEN <<ChunkData(sndIdx[s])>> ELSE << >>
         \/ sndPc'[s] = "error" /\ toRcv'[s] = << >> /\ (link[s] => rcvPc[s] = "returned")
  BY <1>1, <1>2, Types DEF SendChunk, SenderWriteFails, ReceiverEnded, Quieted
<1> USE DEF rcvVars, taskVars, bookVars, userVars
<1>4. ConsentAt(s)'
  BY <1>3 DEF ConsentAt
<1>5. StreamAt(s)'
  BY <1>1, <1>3, OneMessage, Messages DEF StreamAt, Quieted, ChunkInFlight, AckInFlight
<1>6. SenderAt(s)'
  BY <1>1, <1>3 DEF SenderAt, Quieted
<1>7. ReceiverAt(s)'
  BY <1>1, <1>3 DEF ReceiverAt, Early, Quieted
<1>8. LedgerAt(s)'
  BY <1>1, <1>3 DEF LedgerAt
<1>9. DamageAt(s)'
  BY <1>1, <1>3 DEF DamageAt
<1> QED
  BY <1>4, <1>5, <1>6, <1>7, <1>8, <1>9

\* send_file stops, fails or finishes without writing to the stream.
LEMMA SenderEndsTurn ==
    ASSUME TypeInv, NEW s \in Sessions, SessionAt(s),
           StopSending(s) \/ SenderReadError(s) \/ FinishSend(s)
    PROVE  SessionAt(s)'
<1> USE DEF SessionAt, Rejected
<1>1. /\ UNCHANGED <<sndIdx, sndDone, rcvVars, netVars>>
      /\ \/ /\ sndPc[s] = "nextChunk"
            /\ sndPc'[s] \in {"stopped", "sent"}
            /\ \/ UNCHANGED sndStatus
               \/ sndIdx[s] = TotalChunks[s]
         \/ /\ sndPc[s] \in {"awaitResponse", "awaitAck"}
            /\ sndPc'[s] = "error"
            /\ toSnd[s] = << >>
            /\ link[s] => rcvPc[s] = "returned"
            /\ UNCHANGED sndStatus
  BY Types DEF StopSending, SenderReadError, FinishSend, SenderReadFails, ReceiverEnded
<1> USE DEF rcvVars, taskVars, bookVars, userVars, netVars
<1>2. ConsentAt(s)'
  BY <1>1 DEF ConsentAt
<1>3. StreamAt(s)'
  BY <1>1, OneMessage, Messages DEF StreamAt, SenderAt, Quieted, ChunkInFlight, AckInFlight, Early
<1>4. SenderAt(s)'
  BY <1>1 DEF SenderAt, Quieted
<1>5. ReceiverAt(s)'
  BY <1>1 DEF ReceiverAt, SenderAt, Early, Quieted
<1>6. LedgerAt(s)'
  BY <1>1 DEF LedgerAt
<1>7. DamageAt(s)'
  BY <1>1 DEF DamageAt, Quieted
<1> QED
  BY <1>2, <1>3, <1>4, <1>5, <1>6, <1>7

LEMMA RecvAckTurn ==
    ASSUME TypeInv, NEW s \in Sessions, SessionAt(s), RecvAck(s)
    PROVE  SessionAt(s)'
<1> USE DEF SessionAt, Rejected
<1>1. AckInFlight(s)
  BY OneMessage, Messages DEF RecvAck, StreamAt
<1>2. /\ sndPc'[s] = "nextChunk"
      /\ sndIdx'[s] = sndIdx[s] + 1
      /\ sndDone'[s] = sndDone[s] \cup {sndIdx[s]}
      /\ toSnd'[s] = << >>
      /\ UNCHANGED <<sndStatus, rcvVars, link, toRcv>>
  BY <1>1, Types, ReceivedOne DEF RecvAck, AckInFlight
<1>3. /\ toRcv[s] = << >>
      /\ sndPc[s] = "awaitAck"
      /\ sndIdx[s] \in Nat
      /\ sndIdx[s] < TotalChunks[s]
      /\ ~Early(s)
      /\ rcvPc[s] \notin {"none", "awaitDecision", "write", "ack"}
      /\ sndIdx[s] \in rcvDone[s] \/ (rcvPc[s] = "mark" /\ rcvCur[s] = sndIdx[s])
  BY <1>1, OneMessage, Types DEF RecvAck, StreamAt, AckInFlight, Early, TypeInv, LoopsInBounds
<1> USE DEF rcvVars, taskVars, bookVars, userVars
<1>4. ConsentAt(s)'
  BY <1>2 DEF ConsentAt
<1>5. StreamAt(s)'
  BY <1>2, <1>3, OneMessage, Messages DEF StreamAt, Quieted, ChunkInFlight, AckInFlight
<1>6. SenderAt(s)'
  BY <1>2, <1>3 DEF SenderAt, Quieted, Early
<1>7. ReceiverAt(s)'
  BY <1>2, <1>3 DEF ReceiverAt, LedgerAt, Early, Quieted
<1>8. LedgerAt(s)'
  <2>1. rcvPc[s] = "mark" => rcvCur[s] = sndIdx[s]
    BY <1>3, Types DEF ReceiverAt
  <2> QED
    BY <1>2, <1>3, <2>1, ConstantsAssumption DEF LedgerAt
<1>9. DamageAt(s)'
  BY <1>1, <1>2, <1>3, OneMessage DEF DamageAt, Quieted, AckInFlight
<1> QED
  BY <1>4, <1>5, <1>6, <1>7, <1>8, <1>9

\* A command of either user changes a status, and never to Completed.
LEMMA CommandTurn ==
    ASSUME TypeInv, NEW s \in Sessions, SessionAt(s), SenderCommand(s) \/ ReceiverCommand(s)
    PROVE  SessionAt(s)'
<1> USE DEF SessionAt, Rejected
<1>1. /\ UNCHANGED <<sndPc, sndIdx, sndDone, taskVars, rcvDone, rcvRetries, userVars, netVars>>
      /\ sndStatus'[s] = "Completed" => sndStatus[s] = "Completed"
      /\ rcvStatus'[s] = "Completed" => rcvStatus[s] = "Completed"
  <2>1. \A c \in Commands \ {"reject"} :
           \A status : AfterCommand(c, status) = "Completed" => status = "Completed"
    BY DEF AfterCommand, PauseStatus, ResumeStatus, CancelStatus, Commands
  <2>2. CASE SenderCommand(s)
    BY <2>1, <2>2, Types, ConstantsAssumption DEF SenderCommand, rcvVars, bookVars
  <2>3. CASE ReceiverCommand(s)
    BY <2>1, <2>3, Types, ConstantsAssumption DEF ReceiverCommand, sndVars
  <2> QED
    BY <2>2, <2>3
<1> USE DEF taskVars, userVars, netVars
<1>2. ConsentAt(s)'
  BY <1>1 DEF ConsentAt
<1>3. StreamAt(s)'
  BY <1>1 DEF StreamAt, Quieted, ChunkInFlight, AckInFlight, Early
<1>4. SenderAt(s)' /\ ReceiverAt(s)'
  BY <1>1 DEF SenderAt, ReceiverAt, Early, Quieted
<1>5. LedgerAt(s)'
  BY <1>1 DEF LedgerAt
<1>6. DamageAt(s)'
  BY <1>1 DEF DamageAt, Quieted
<1> QED
  BY <1>2, <1>3, <1>4, <1>5, <1>6

LEMMA RecvRequestTurn ==
    ASSUME TypeInv, NEW s \in Sessions, SessionAt(s), RecvRequest(s)
    PROVE  SessionAt(s)'
<1> USE DEF SessionAt, Rejected
<1>1. toRcv[s] = <<Request>>
  BY OneMessage, Messages DEF RecvRequest, StreamAt, ChunkInFlight
<1>2. /\ rcvPc[s] = "none" /\ rcvPc'[s] = "awaitDecision"
      /\ rcvStatus'[s] = "PendingAccept"
      /\ choice'[s] = "open"
      /\ toRcv'[s] = << >>
      /\ UNCHANGED <<sndVars, rcvCur, rcvDone, rcvRetries, savePath, link, toSnd>>
  BY <1>1, Types, ReceivedOne DEF RecvRequest
<1>3. /\ toSnd[s] = << >>
      /\ sndPc[s] = "awaitResponse"
      /\ choice[s] = "none"
      /\ sndIdx[s] = 0 /\ rcvDone[s] = {}
  BY <1>1, <1>2, OneMessage DEF StreamAt, ConsentAt, ReceiverAt, Early
<1> USE DEF sndVars
<1>4. ConsentAt(s)'
  BY <1>2, <1>3 DEF ConsentAt, WithFile
<1>5. StreamAt(s)'
  BY <1>2, <1>3, OneMessage, Messages DEF StreamAt, Quieted, ChunkInFlight, AckInFlight
<1>6. SenderAt(s)'
  BY <1>2, <1>3 DEF SenderAt, Quieted
<1>7. ReceiverAt(s)'
  BY <1>2, <1>3 DEF ReceiverAt, Early, Quieted
<1>8. LedgerAt(s)'
  BY <1>2, <1>3 DEF LedgerAt
<1>9. DamageAt(s)'
  BY <1>2, <1>3 DEF DamageAt
<1> QED
  BY <1>4, <1>5, <1>6, <1>7, <1>8, <1>9

\* The answer to the request: the sender waits for it if the connection is up.
LEMMA HandleDecisionTurn ==
    ASSUME TypeInv, NEW s \in Sessions, SessionAt(s), HandleAccept(s) \/ HandleReject(s)
    PROVE  SessionAt(s)'
<1> USE DEF SessionAt, Return, Rejected
<1>1. /\ rcvPc[s] = "awaitDecision"
      /\ Quieted(s)
      /\ sndIdx[s] = 0 /\ rcvDone[s] = {}
      /\ link[s] => sndPc[s] = "awaitResponse"
      /\ sndPc[s] \in {"awaitResponse", "error"}
  BY Types DEF HandleAccept, HandleReject, ReceiverAt, SenderAt, Early, SenderPcs, SenderEnd
<1>2. \A m : Sent(toSnd, s, m)[s] = IF link[s] THEN <<m>> ELSE << >>
  BY <1>1, Types, SentOne DEF Quieted
<1>3. /\ UNCHANGED <<sndVars, rcvCur, bookVars, userVars, link, toRcv>>
      /\ \/ /\ choice[s] = "accept" /\ rcvPc'[s] = "accepted"
            /\ toSnd'[s] = IF link[s] THEN <<TransferAccept>> ELSE << >>
         \/ choice[s] = "accept" /\ rcvPc'[s] = "returned" /\ toSnd'[s] = << >> /\ ~link[s]
         \/ /\ choice[s] \in {"reject", "rejected"} /\ rcvPc'[s] = "refused"
            /\ toSnd'[s] = IF link[s] THEN <<TransferReject>> ELSE << >>
  <2>1. CASE HandleAccept(s)
    BY <1>1, <1>2, <2>1, Types DEF HandleAccept, ReceiverWriteFails, SenderEnded, SenderEnd, Quieted
  <2>2. CASE HandleReject(s)
    BY <1>1, <1>2, <2>2, Types DEF HandleReject
  <2> QED
    BY <2>1, <2>2
<1> USE DEF sndVars, bookVars, userVars
<1>4. ConsentAt(s)'
  BY <1>1, <1>3 DEF ConsentAt, WithFile
<1>5. StreamAt(s)'
  BY <1>1, <1>3, OneMessage, Messages DEF StreamAt, Quieted, ChunkInFlight, AckInFlight
<1>6. SenderAt(s)'
  BY <1>1, <1>3 DEF SenderAt, Quieted
<1>7. ReceiverAt(s)'
  BY <1>1, <1>3 DEF ReceiverAt, Early, Quieted
<1>8. LedgerAt(s)'
  BY <1>1, <1>3 DEF LedgerAt, ConsentAt
<1>9. DamageAt(s)'
  BY <1>1, <1>3 DEF DamageAt
<1> QED
  BY <1>4, <1>5, <1>6, <1>7, <1>8, <1>9

\* The status after the answer, while the sender may be sending already.
LEMMA AnsweredTurn ==
    ASSUME TypeInv, NEW s \in Sessions, SessionAt(s), BeginReceive(s) \/ EndRefused(s)
    PROVE  SessionAt(s)'
<1> USE DEF SessionAt, Return, FailReceive, Rejected
<1>1. /\ UNCHANGED <<sndVars, rcvCur, rcvDone, rcvRetries, userVars, netVars>>
      /\ rcvStatus'[s] # "Completed"
      /\ \/ rcvPc[s] = "accepted" /\ rcvPc'[s] = "allocate" /\ choice[s] = "accept"
         \/ rcvPc[s] = "refused" /\ rcvPc'[s] = "returned" /\ choice[s] \in {"reject", "rejected"}
  BY Types DEF BeginReceive, EndRefused, ConsentAt
<1> USE DEF sndVars, userVars, netVars
<1>2. ConsentAt(s)'
  BY <1>1 DEF ConsentAt, WithFile
<1>3. StreamAt(s)'
  BY <1>1, OneMessage, Messages DEF StreamAt, Quieted, ChunkInFlight, AckInFlight, Early
<1>4. SenderAt(s)'
  BY <1>1 DEF SenderAt, Quieted
<1>5. ReceiverAt(s)'
  BY <1>1 DEF ReceiverAt, Early, Quieted
<1>6. LedgerAt(s)'
  BY <1>1 DEF LedgerAt
<1>7. DamageAt(s)'
  BY <1>1 DEF DamageAt, Quieted
<1> QED
  BY <1>2, <1>3, <1>4, <1>5, <1>6, <1>7

\* The receiver's task moves on, or returns, without touching the stream or its
\* ledger.
LEMMA ReceiverMovesTurn ==
    ASSUME TypeInv, NEW s \in Sessions, SessionAt(s),
           AllocateFile(s) \/ CheckReceive(s) \/ ReceiverReadError(s) \/ WriteChunk(s)
               \/ ReadBack(s) \/ FinishReceive(s)
    PROVE  SessionAt(s)'
<1> USE DEF SessionAt, Rejected, Return, FailReceive
<1>1. /\ UNCHANGED <<sndVars, rcvCur, rcvDone, rcvRetries, userVars, netVars>>
      /\ rcvPc[s] \in {"allocate", "check", "recv", "write", "readBack"}
      /\ \/ rcvPc[s] = "write" /\ rcvPc'[s] = "ack"
         \/ rcvPc[s] \in {"allocate", "check"} /\ rcvPc'[s] \in {"check", "recv"}
         \/ rcvPc[s] = "readBack" /\ rcvPc'[s] = "readBack"
         \/ rcvPc'[s] = "returned"
      /\ rcvStatus'[s] = "Completed" =>
            \/ rcvStatus[s] = "Completed"
            \/ rcvPc[s] = "readBack" /\ rcvPc'[s] = "returned"
  <2>1. CASE AllocateFile(s) \/ CheckReceive(s) \/ ReceiverReadError(s)
    BY <2>1, Types DEF AllocateFile, CheckReceive, ReceiverReadError, bookVars
  <2>2. CASE WriteChunk(s) \/ ReadBack(s) \/ FinishReceive(s)
    BY <2>2, Types DEF WriteChunk, ReadBack, FinishReceive
  <2> QED
    BY <2>1, <2>2
<1> USE DEF sndVars, userVars, netVars
<1>2. choice[s] = "accept"
  BY <1>1 DEF ConsentAt, WithFile
<1>3. ConsentAt(s)'
  BY <1>1, <1>2 DEF ConsentAt, WithFile
<1>4. StreamAt(s)'
  BY <1>1, <1>2 DEF StreamAt, ReceiverAt, Quieted, ChunkInFlight, AckInFlight, Early
<1>5. SenderAt(s)'
  BY <1>1, <1>2 DEF SenderAt, Quieted
<1>6. ReceiverAt(s)'
  BY <1>1, <1>2 DEF ReceiverAt, Early, Quieted
<1>7. LedgerAt(s)'
  BY <1>1, <1>2 DEF LedgerAt, ConsentAt
<1>8. DamageAt(s)'
  BY <1>1, <1>2 DEF DamageAt, Quieted
<1> QED
  BY <1>3, <1>4, <1>5, <1>6, <1>7, <1>8

LEMMA RecvChunkTurn ==
    ASSUME TypeInv, NEW s \in Sessions, SessionAt(s), RecvChunk(s)
    PROVE  SessionAt(s)'
<1> USE DEF SessionAt, Rejected
<1>1. toRcv[s] = <<ChunkData(sndIdx[s])>>
  BY OneMessage, Messages DEF RecvChunk, StreamAt, ChunkInFlight
<1>2. /\ rcvPc[s] = "recv" /\ rcvPc'[s] = "write"
      /\ rcvCur'[s] = sndIdx[s]
      /\ toRcv'[s] = << >>
      /\ UNCHANGED <<sndVars, bookVars, userVars, link, toSnd>>
  <2>1. Head(toRcv[s]).index = sndIdx[s]
    BY <1>1, OneMessage, Messages
  <2>2. Received(toRcv, s)[s] = << >>
    BY <1>1, Types, ReceivedOne
  <2> QED
    BY <2>1, <2>2, Types DEF RecvChunk
<1>3. /\ toSnd[s] = << >>
      /\ sndPc[s] \in {"awaitAck", "error"}
      /\ sndIdx[s] \notin rcvDone[s]
      /\ choice[s] = "accept"
  BY <1>1, <1>2, OneMessage DEF StreamAt, ChunkInFlight, ConsentAt, WithFile
<1> USE DEF sndVars, userVars, bookVars
<1>4. ConsentAt(s)'
  BY <1>2, <1>3 DEF ConsentAt, WithFile
<1>5. StreamAt(s)'
  BY <1>2, <1>3, OneMessage, Messages DEF StreamAt, Quieted, ChunkInFlight, AckInFlight
<1>6. SenderAt(s)'
  BY <1>2, <1>3 DEF SenderAt, Quieted
<1>7. ReceiverAt(s)'
  BY <1>2, <1>3 DEF ReceiverAt, Early, Quieted
<1>8. LedgerAt(s)'
  BY <1>2, <1>3 DEF LedgerAt
<1>9. DamageAt(s)'
  BY <1>1, <1>2, <1>3, OneMessage DEF DamageAt, Quieted
<1> QED
  BY <1>4, <1>5, <1>6, <1>7, <1>8, <1>9

LEMMA RecvDamagedChunkTurn ==
    ASSUME TypeInv, NEW s \in Sessions, SessionAt(s), RecvDamagedChunk(s)
    PROVE  SessionAt(s)'
<1> USE DEF SessionAt, Rejected, Return, FailReceive
<1>1. toRcv[s] = <<Damaged(sndIdx[s])>>
  BY OneMessage, Messages DEF RecvDamagedChunk, StreamAt, ChunkInFlight
<1>2. /\ rcvPc[s] = "recv" /\ rcvPc'[s] \in {"check", "returned"}
      /\ rcvStatus'[s] = "Completed" => rcvStatus[s] = "Completed"
      /\ rcvRetries' = [rcvRetries EXCEPT ![s][sndIdx[s]] = @ + 1]
      /\ toRcv'[s] = << >>
      /\ UNCHANGED <<sndVars, rcvCur, rcvDone, userVars, link, toSnd>>
  <2>1. Head(toRcv[s]).index = sndIdx[s]
    BY <1>1, OneMessage, Messages
  <2>2. Received(toRcv, s)[s] = << >>
    BY <1>1, Types, ReceivedOne
  <2>3. rcvRetries' = [rcvRetries EXCEPT ![s][sndIdx[s]] = @ + 1]
    BY <2>1 DEF RecvDamagedChunk
  <2> QED
    BY <2>2, <2>3, Types DEF RecvDamagedChunk
<1>3. /\ toSnd[s] = << >>
      /\ sndPc[s] \in {"awaitAck", "error"}
      /\ sndIdx[s] \notin rcvDone[s]
      /\ choice[s] = "accept"
  BY <1>1, <1>2, OneMessage DEF StreamAt, ChunkInFlight, ConsentAt, WithFile
<1> USE DEF sndVars, userVars
<1>4. ConsentAt(s)'
  BY <1>2, <1>3 DEF ConsentAt, WithFile
<1>5. StreamAt(s)'
  BY <1>2, <1>3, OneMessage, Messages DEF StreamAt, Quieted, ChunkInFlight, AckInFlight
<1>6. SenderAt(s)'
  BY <1>2, <1>3 DEF SenderAt, Quieted
<1>7. ReceiverAt(s)'
  BY <1>2, <1>3 DEF ReceiverAt, Early, Quieted
<1>8. LedgerAt(s)'
  BY <1>2, <1>3 DEF LedgerAt, ConsentAt
<1>9. DamageAt(s)'
  <2>1. \A i \in Chunks(s) : rcvRetries'[s][i] > 0 => i = sndIdx[s] \/ rcvRetries[s][i] > 0
    BY <1>2, Types
  <2>2. \A i \in Chunks(s) : ~(rcvRetries[s][i] > 0)
    BY <1>1, OneMessage DEF DamageAt, Quieted
  <2> QED
    BY <1>2, <1>3, <2>1, <2>2 DEF DamageAt, Quieted
<1> QED
  BY <1>4, <1>5, <1>6, <1>7, <1>8, <1>9

LEMMA AckChunkTurn ==
    ASSUME TypeInv, NEW s \in Sessions, SessionAt(s), AckChunk(s)
    PROVE  SessionAt(s)'
<1> USE DEF SessionAt, Rejected, Return
<1>1. /\ rcvPc[s] = "ack"
      /\ Quieted(s)
      /\ rcvCur[s] = sndIdx[s]
      /\ sndIdx[s] \notin rcvDone[s]
      /\ sndPc[s] \in {"awaitAck", "error"}
      /\ link[s] => sndPc[s] = "awaitAck"
      /\ choice[s] = "accept"
  BY DEF AckChunk, ReceiverAt, SenderAt, ConsentAt, WithFile
<1>2. Sent(toSnd, s, ChunkAck(rcvCur[s]))[s] = IF link[s] THEN <<ChunkAck(sndIdx[s])>> ELSE << >>
  BY <1>1, Types, SentOne DEF Quieted
<1>3. /\ UNCHANGED <<sndVars, rcvCur, bookVars, userVars, link, toRcv>>
      /\ \/ rcvPc'[s] = "mark" /\ toSnd'[s] = (IF link[s] THEN <<ChunkAck(sndIdx[s])>> ELSE << >>)
         \/ rcvPc'[s] = "returned" /\ toSnd'[s] = << >>
  BY <1>1, <1>2, Types DEF AckChunk, Quieted
<1> USE DEF sndVars, userVars, bookVars
<1>4. ConsentAt(s)'
  BY <1>1, <1>3 DEF ConsentAt, WithFile
<1>5. StreamAt(s)'
  BY <1>1, <1>3, OneMessage, Messages DEF StreamAt, Quieted, ChunkInFlight, AckInFlight, Early
<1>6. SenderAt(s)'
  BY <1>1, <1>3 DEF SenderAt, Quieted
<1>7. ReceiverAt(s)'
  BY <1>1, <1>3 DEF ReceiverAt, Early, Quieted
<1>8. LedgerAt(s)'
  BY <1>1, <1>3 DEF LedgerAt
<1>9. DamageAt(s)'
  BY <1>1, <1>3 DEF DamageAt
<1> QED
  BY <1>4, <1>5, <1>6, <1>7, <1>8, <1>9

LEMMA MarkChunkTurn ==
    ASSUME TypeInv, NEW s \in Sessions, SessionAt(s), MarkChunk(s)
    PROVE  SessionAt(s)'
<1> USE DEF SessionAt, Rejected
<1>1. /\ rcvPc[s] = "mark" /\ rcvPc'[s] = "check"
      /\ rcvDone'[s] = rcvDone[s] \cup {rcvCur[s]}
      /\ UNCHANGED <<sndVars, rcvCur, rcvStatus, rcvRetries, userVars, netVars>>
  BY Types DEF MarkChunk
<1>2. /\ choice[s] = "accept"
      /\ sndIdx[s] \notin rcvDone[s]
      /\ rcvCur[s] \in Nat /\ sndIdx[s] \in Nat
      /\ \/ rcvCur[s] = sndIdx[s] /\ sndPc[s] \in {"awaitAck", "error"} /\ toRcv[s] = << >>
         \/ rcvCur[s] + 1 = sndIdx[s]
  BY <1>1, Types DEF ReceiverAt, ConsentAt, WithFile
<1> USE DEF sndVars, userVars, netVars
<1>3. ConsentAt(s)'
  BY <1>1, <1>2 DEF ConsentAt, WithFile
<1>4. StreamAt(s)'
  BY <1>1, <1>2, OneMessage DEF StreamAt, Quieted, ChunkInFlight, AckInFlight, Early
<1>5. SenderAt(s)'
  BY <1>1, <1>2 DEF SenderAt, Quieted
<1>6. ReceiverAt(s)'
  BY <1>1, <1>2 DEF ReceiverAt, Early
<1>7. LedgerAt(s)'
  BY <1>1, <1>2 DEF LedgerAt, ConsentAt
<1>8. DamageAt(s)'
  BY <1>1, <1>2 DEF DamageAt
<1> QED
  BY <1>3, <1>4, <1>5, <1>6, <1>7, <1>8

\* A set of the chunks of a session with as many members as the file has chunks
\* is all of them.
LEMMA FullLedger ==
    ASSUME NEW s \in Sessions, NEW S \in SUBSET Chunks(s), Cardinality(S) = TotalChunks[s]
    PROVE  S = Chunks(s)
<1>1. TotalChunks[s] \in Nat
  BY ConstantsAssumption
<1>2. IsFiniteSet(Chunks(s)) /\ Cardinality(Chunks(s)) = TotalChunks[s]
  <2>1. 0 \in Int /\ TotalChunks[s] - 1 \in Int
    BY <1>1
  <2>2. /\ IsFiniteSet(0 .. TotalChunks[s] - 1)
        /\ Cardinality(0 .. TotalChunks[s] - 1) =
              IF 0 > TotalChunks[s] - 1 THEN 0 ELSE TotalChunks[s] - 1 - 0 + 1
    BY <2>1, FS_Interval, Zenon
  <2> QED
    BY <1>1, <2>2 DEF Chunks
<1> QED
  BY <1>1, <1>2, FS_Subset

LEMMA EndReceiveLoopTurn ==
    ASSUME TypeInv, NEW s \in Sessions, SessionAt(s), EndReceiveLoop(s)
    PROVE  SessionAt(s)'
<1> USE DEF SessionAt, Rejected
<1>1. /\ rcvPc[s] = "check"
      /\ UNCHANGED <<sndVars, rcvCur, bookVars, userVars, netVars>>
      /\ \/ rcvPc'[s] = "readBack" /\ IsAllChunksComplete(s)
         \/ rcvPc'[s] = "returned"
  BY Types DEF EndReceiveLoop
<1>2. IsAllChunksComplete(s) => rcvDone[s] = Chunks(s)
  BY FullLedger DEF IsAllChunksComplete, TypeInv, TypeOK, ReceiverTypeOK
<1> USE DEF sndVars, userVars, netVars, bookVars
<1>3. ConsentAt(s)'
  BY <1>1 DEF ConsentAt, WithFile
<1>4. StreamAt(s)'
  BY <1>1 DEF StreamAt, Quieted, ChunkInFlight, AckInFlight, Early
<1>5. SenderAt(s)' /\ ReceiverAt(s)'
  BY <1>1 DEF SenderAt, ReceiverAt, Early, Quieted
<1>6. LedgerAt(s)'
  BY <1>1, <1>2 DEF LedgerAt
<1>7. DamageAt(s)'
  BY <1>1 DEF DamageAt, Quieted
<1> QED
  BY <1>3, <1>4, <1>5, <1>6, <1>7

\* The receiving user's decision.
LEMMA DecisionTurn ==
    ASSUME TypeInv, NEW s \in Sessions, SessionAt(s),
           Reject(s) \/ \E p \in PathChoices[s] : Accept(s, p)
    PROVE  SessionAt(s)'
<1> USE DEF SessionAt, Rejected
<1>1. /\ choice[s] = "open" /\ rcvPc[s] = "awaitDecision"
      /\ UNCHANGED <<sndVars, taskVars, rcvDone, rcvRetries, netVars>>
      /\ rcvStatus'[s] = "Completed" => rcvStatus[s] = "Completed"
      /\ \/ choice'[s] = "reject" /\ savePath'[s] = savePath[s]
         \/ choice'[s] = "accept" /\ savePath'[s] \in Paths
  <2>1. PathChoices[s] \subseteq Paths
    BY ConstantsAssumption
  <2>2. CASE Reject(s)
    BY <2>2, Types DEF Reject, ConsentAt, bookVars
  <2>3. CASE \E p \in PathChoices[s] : Accept(s, p)
    BY <2>1, <2>3, Types DEF Accept, ConsentAt, bookVars
  <2> QED
    BY <2>2, <2>3
<1> USE DEF sndVars, taskVars, netVars
<1>2. Quieted(s)
  BY <1>1 DEF ReceiverAt
<1>3. ConsentAt(s)'
  BY <1>1 DEF ConsentAt, WithFile
<1>4. StreamAt(s)'
  BY <1>1, <1>2, OneMessage, Messages DEF StreamAt, Quieted, ChunkInFlight, AckInFlight
<1>5. SenderAt(s)'
  BY <1>1 DEF SenderAt, Quieted
<1>6. ReceiverAt(s)'
  BY <1>1 DEF ReceiverAt, Early, Quieted
<1>7. LedgerAt(s)'
  BY <1>1 DEF LedgerAt, ConsentAt
<1>8. DamageAt(s)'
  BY <1>1 DEF DamageAt, Quieted
<1> QED
  BY <1>3, <1>4, <1>5, <1>6, <1>7, <1>8

\* The rest of a reject sets the status only.
LEMMA RejectStatusTurn ==
    ASSUME TypeInv, NEW s \in Sessions, SessionAt(s), RejectStatus(s)
    PROVE  SessionAt(s)'
<1> USE DEF SessionAt, Rejected
<1>1. /\ UNCHANGED <<sndVars, taskVars, rcvDone, rcvRetries, savePath, netVars>>
      /\ choice[s] = "reject" /\ choice'[s] = "rejected"
      /\ rcvStatus'[s] = "Failed"
  BY Types DEF RejectStatus
<1> USE DEF sndVars, taskVars, netVars
<1>2. ConsentAt(s)'
  BY <1>1 DEF ConsentAt, WithFile
<1>3. StreamAt(s)'
  BY <1>1 DEF StreamAt, Quieted, ChunkInFlight, AckInFlight, Early
<1>4. SenderAt(s)'
  BY <1>1 DEF SenderAt, Quieted
<1>5. ReceiverAt(s)'
  BY <1>1 DEF ReceiverAt, Early, Quieted
<1>6. LedgerAt(s)'
  BY <1>1 DEF LedgerAt, ConsentAt
<1>7. DamageAt(s)'
  BY <1>1 DEF DamageAt, Quieted
<1> QED
  BY <1>2, <1>3, <1>4, <1>5, <1>6, <1>7

LEMMA LossTurn ==
    ASSUME TypeInv, NEW s \in Sessions, NEW t \in Sessions, SessionAt(s), LinkLost(t)
    PROVE  SessionAt(s)'
<1> USE DEF SessionAt, Rejected, sndVars, rcvVars, taskVars, bookVars, userVars
<1>1. UNCHANGED <<sndVars, rcvVars>>
  BY LossAt
<1>2. CASE link'[s] = FALSE /\ toRcv'[s] = << >> /\ toSnd'[s] = << >>
  <2>2. ConsentAt(s)' /\ SenderAt(s)'
    BY <1>1, <1>2 DEF ConsentAt, SenderAt, Quieted, Rejected
  <2>3. StreamAt(s)'
    BY <1>1, <1>2, OneMessage, Messages DEF StreamAt, Quieted, ChunkInFlight, AckInFlight
  <2>4. ReceiverAt(s)' /\ LedgerAt(s)'
    BY <1>1, <1>2 DEF ReceiverAt, LedgerAt, Early, Quieted
  <2>5. DamageAt(s)'
    BY <1>1, <1>2 DEF DamageAt, Quieted
  <2> QED
    BY <2>2, <2>3, <2>4, <2>5
<1>3. CASE link'[s] = link[s] /\ toRcv'[s] = toRcv[s] /\ toSnd'[s] = toSnd[s]
  <2>1. Same(s)
    BY <1>1, <1>3 DEF Same, SameTasks
  <2> QED
    BY <2>1, SessionFrame
<1> QED
  BY <1>2, <1>3, LossAt

\* The connection is lost, or a chunk is damaged on its way.
LEMMA NetworkTurn ==
    ASSUME TypeInv, NEW s \in Sessions, SessionAt(s), NetworkStep(s)
    PROVE  SessionAt(s)'
<1> USE DEF SessionAt, Rejected, sndVars, rcvVars, taskVars, bookVars, userVars
<1>1. CASE LinkLost(s)
  BY <1>1, LossTurn
<1>2. CASE DamageChunk(s)
  <2>1. toRcv[s] = <<ChunkData(sndIdx[s])>>
    BY <1>2, OneMessage, Messages DEF DamageChunk, StreamAt, ChunkInFlight
  <2>2. /\ UNCHANGED <<sndVars, rcvVars, link, toSnd>>
        /\ toRcv'[s] = <<Damaged(sndIdx[s])>>
    BY <1>2, <2>1, Types, Messages DEF DamageChunk
  <2>3. ConsentAt(s)'
    BY <2>2 DEF ConsentAt, Rejected
  <2>4. StreamAt(s)'
    BY <2>1, <2>2, OneMessage, Messages
    DEF StreamAt, Quieted, ChunkInFlight, AckInFlight, Early, Rejected
  <2>5. SenderAt(s)' /\ ReceiverAt(s)'
    BY <2>1, <2>2, OneMessage DEF SenderAt, ReceiverAt, Early, Quieted
  <2>6. LedgerAt(s)'
    BY <2>2 DEF LedgerAt
  <2>7. DamageAt(s)'
    BY <2>1, <2>2, OneMessage DEF DamageAt, Quieted
  <2> QED
    BY <2>3, <2>4, <2>5, <2>6, <2>7
<1> QED
  BY <1>1, <1>2 DEF NetworkStep

LEMMA SessionStep ==
    ASSUME TypeInv, NEW s \in Sessions, SessionAt(s), Step(s)
    PROVE  SessionAt(s)'
BY BeginSendTurn, RecvResponseTurn, SendChunkTurn, SenderEndsTurn, RecvAckTurn, CommandTurn,
   RecvRequestTurn, HandleDecisionTurn, AnsweredTurn, RejectStatusTurn, ReceiverMovesTurn, RecvChunkTurn, RecvDamagedChunkTurn,
   AckChunkTurn, MarkChunkTurn, EndReceiveLoopTurn, DecisionTurn, NetworkTurn
DEF Step, SenderStep, ReceiverStep, UserStep

-----------------------------------------------------------------------------
(* The invariant and what follows from it *)

LEMMA TurnInit == Init => TurnInv
<1> SUFFICES ASSUME Init, NEW s \in Sessions PROVE SessionAt(s)
  BY TypeInit DEF TurnInv
<1> USE ConstantsAssumption DEF Init, Quieted, Early
<1>1. ConsentAt(s)
  BY DEF ConsentAt, WithFile
<1>2. StreamAt(s)
  BY OneMessage DEF StreamAt, ChunkInFlight, AckInFlight
<1>3. SenderAt(s) /\ ReceiverAt(s)
  BY DEF SenderAt, ReceiverAt
<1>4. LedgerAt(s)
  BY DEF LedgerAt
<1>5. DamageAt(s)
  BY DEF DamageAt
<1> QED
  BY <1>1, <1>2, <1>3, <1>4, <1>5 DEF SessionAt

LEMMA TurnStep == TurnInv /\ [Next]_vars => TurnInv'
<1> SUFFICES ASSUME TurnInv, [Next]_vars, NEW s \in Sessions PROVE SessionAt(s)'
  BY TypeStep DEF TurnInv
<1>1. TypeInv /\ SessionAt(s)
  BY DEF TurnInv
<1>2. CASE UNCHANGED vars
  <2>1. Same(s)
    BY <1>2 DEF vars, sndVars, rcvVars, netVars, taskVars, bookVars, userVars, Same, SameTasks
  <2> QED
    BY <1>1, <2>1, SessionFrame
<1>3. CASE Step(s)
  BY <1>1, <1>3, SessionStep
<1>4. ASSUME NEW t \in Sessions \ {s}, Step(t) PROVE SessionAt(s)'
  BY <1>1, <1>4, Frame, SessionFrame, LossTurn
<1> QED
  BY <1>2, <1>3, <1>4 DEF Next

LEMMA TurnCorrect == Spec => []TurnInv
BY TurnInit, TurnStep, PTL DEF Spec

\* The stream is used in turns (OneMessageInFlight): with any number of sessions
\* and chunks, and through every failure, it carries one message at a time.
THEOREM StreamInTurns == Spec => []OneMessageInFlight
<1>1. TurnInv => OneMessageInFlight
  <2> SUFFICES ASSUME NEW s \in Sessions, StreamAt(s)
               PROVE  Len(toRcv[s]) + Len(toSnd[s]) <= 1
    BY DEF TurnInv, SessionAt, OneMessageInFlight
  <2>1. Len(<< >>) = 0 /\ \A m : Len(<<m>>) = 1
    OBVIOUS
  <2>2. toRcv[s] = << >> \/ \E m : toRcv[s] = <<m>>
    BY DEF StreamAt, ChunkInFlight
  <2>3. toSnd[s] = << >> \/ \E m : toSnd[s] = <<m>>
    BY DEF StreamAt, AckInFlight
  <2>4. toRcv[s] = << >> \/ toSnd[s] = << >>
    BY DEF StreamAt
  <2>5. \A m, n \in {0, 1} : m = 0 \/ n = 0 => m + n <= 1
    OBVIOUS
  <2>6. Len(toRcv[s]) \in {0, 1} /\ Len(toSnd[s]) \in {0, 1}
    BY <2>1, <2>2, <2>3, Zenon
  <2>7. Len(toRcv[s]) = 0 \/ Len(toSnd[s]) = 0
    BY <2>1, <2>4, Zenon
  <2> QED
    BY <2>5, <2>6, <2>7, Zenon
<1> QED
  BY TurnCorrect, <1>1, PTL

\* The ledgers of the two peers (LedgersAgree) differ by one chunk at most.
THEOREM LedgersInStep == Spec => []LedgersAgree
<1>1. TurnInv => LedgersAgree
  <2> SUFFICES ASSUME TurnInv, NEW s \in Sessions
               PROVE  /\ sndDone[s] \ rcvDone[s] \subseteq
                           (IF rcvPc[s] = "mark" THEN {rcvCur[s]} ELSE {})
                      /\ rcvDone[s] \ sndDone[s] \subseteq {sndIdx[s]}
    BY DEF LedgersAgree
  <2>1. LedgerAt(s) /\ sndIdx[s] \in Nat
    BY Types DEF TurnInv, SessionAt
  <2> QED
    BY <2>1 DEF LedgerAt
<1> QED
  BY TurnCorrect, <1>1, PTL

\* File data moves only after the receiving user's accept (NoDataWithoutConsent).
THEOREM ConsentFirst == Spec => []NoDataWithoutConsent
<1>1. TurnInv => NoDataWithoutConsent
  <2> SUFFICES ASSUME TurnInv, NEW s \in Sessions, choice[s] # "accept"
               PROVE  /\ sndPc[s] \notin {"nextChunk", "awaitAck", "sent"}
                      /\ \A k \in DOMAIN toRcv[s] : toRcv[s][k].type # "ChunkData"
    BY DEF NoDataWithoutConsent
  <2>1. ConsentAt(s) /\ SenderAt(s) /\ StreamAt(s)
    BY DEF TurnInv, SessionAt
  <2>2. sndPc[s] \notin {"nextChunk", "awaitAck", "sent"}
    BY <2>1 DEF SenderAt
  <2>3. toRcv[s] = << >> \/ toRcv[s] = <<Request>>
    BY <2>1 DEF StreamAt
  <2> QED
    BY <2>2, <2>3, Messages
<1> QED
  BY TurnCorrect, <1>1, PTL

\* A chunk that failed its hash check is in neither ledger (DamagedIsNotCounted).
THEOREM DamageUncounted == Spec => []DamagedIsNotCounted
<1>1. TurnInv => DamagedIsNotCounted
  <2> SUFFICES ASSUME TurnInv, NEW s \in Sessions, NEW i \in Chunks(s), rcvRetries[s][i] > 0
               PROVE  i \notin sndDone[s] \cup rcvDone[s]
    BY DEF DamagedIsNotCounted
  <2>1. DamageAt(s) /\ LedgerAt(s) /\ sndIdx[s] \in Nat
    BY Types DEF TurnInv, SessionAt
  <2> QED
    BY <2>1 DEF DamageAt, LedgerAt
<1> QED
  BY TurnCorrect, <1>1, PTL

-----------------------------------------------------------------------------
(* Who waits for what: TurnInv says where the two tasks may stand, and of the *)
(* request and of the decision it leaves open whether they will ever come.    *)

\* A request is on its way until the receiver has taken it, and the task that
\* has taken it left a channel for the decision.
WaitAt(s) ==
    /\ sndPc[s] = "awaitResponse" /\ rcvPc[s] = "none" /\ link[s] => toRcv[s] = <<Request>>
    /\ rcvPc[s] # "none" => choice[s] # "none"

WaitInv == TurnInv /\ \A s \in Sessions : WaitAt(s)

LEMMA SenderWait ==
    ASSUME TypeInv, NEW s \in Sessions, SessionAt(s), WaitAt(s), SenderStep(s) \/ BeginSend(s)
    PROVE  WaitAt(s)'
<1> USE DEF WaitAt, rcvVars, taskVars, userVars
<1>1. UNCHANGED <<rcvPc, choice, link>>
  BY DEF SenderStep, RecvResponse, SendChunk, StopSending, RecvAck, SenderReadError,
         FinishSend, BeginSend, netVars
<1>2. CASE SenderStep(s)
  <2>1. sndPc'[s] # "awaitResponse"
    BY <1>2, Types DEF SenderStep, RecvResponse, SendChunk, StopSending, RecvAck,
                       SenderReadError, FinishSend
  <2> QED
    BY <1>1, <2>1
<1>3. CASE BeginSend(s)
  <2>1. toRcv[s] = << >>
    BY <1>3 DEF BeginSend, SessionAt, SenderAt, Quieted
  <2>2. sndPc'[s] = "awaitResponse" => toRcv' = Sent(toRcv, s, Request)
    BY <1>3, Types DEF BeginSend
  <2>3. link[s] => Sent(toRcv, s, Request)[s] = <<Request>>
    BY <2>1, SentOne, Types
  <2> QED
    BY <1>1, <2>2, <2>3
<1> QED
  BY <1>2, <1>3

LEMMA ReceiverWait ==
    ASSUME TypeInv, NEW s \in Sessions, SessionAt(s), WaitAt(s), ReceiverStep(s)
    PROVE  WaitAt(s)'
<1>1. CASE RecvRequest(s)
  BY <1>1, Types DEF RecvRequest, WaitAt
<1>2. CASE ~RecvRequest(s)
  <2>1. UNCHANGED choice
    BY <1>2 DEF ReceiverStep, HandleAccept, HandleReject, BeginReceive, EndRefused, AllocateFile, CheckReceive, RecvChunk,
         RecvDamagedChunk, ReceiverReadError, WriteChunk, AckChunk, MarkChunk, EndReceiveLoop,
         ReadBack, FinishReceive, userVars
  <2>2. rcvPc[s] # "none"
    BY <1>2 DEF ReceiverStep, HandleAccept, HandleReject, BeginReceive, EndRefused, AllocateFile, CheckReceive, RecvChunk,
         RecvDamagedChunk, ReceiverReadError, WriteChunk, AckChunk, MarkChunk, EndReceiveLoop,
         ReadBack, FinishReceive
  <2>3. rcvPc'[s] # "none"
    BY <1>2, <2>2, Types
    DEF ReceiverStep, HandleAccept, HandleReject, BeginReceive, EndRefused, AllocateFile, CheckReceive, RecvChunk,
        RecvDamagedChunk, ReceiverReadError, WriteChunk, AckChunk, MarkChunk, EndReceiveLoop,
        ReadBack, FinishReceive, FailReceive, Return
  <2> QED
    BY <2>1, <2>2, <2>3 DEF WaitAt
<1> QED
  BY <1>1, <1>2

LEMMA LossWait ==
    ASSUME TypeInv, NEW s \in Sessions, NEW t \in Sessions, WaitAt(s), LinkLost(t)
    PROVE  WaitAt(s)'
BY LossAt DEF WaitAt, sndVars, rcvVars, taskVars, userVars

LEMMA OthersWait ==
    ASSUME TypeInv, NEW s \in Sessions, SessionAt(s), WaitAt(s),
           \/ Reject(s) \/ RejectStatus(s) \/ SenderCommand(s) \/ ReceiverCommand(s)
           \/ \E p \in PathChoices[s] : Accept(s, p)
           \/ NetworkStep(s)
    PROVE  WaitAt(s)'
<1> USE DEF WaitAt, sndVars, rcvVars, netVars, taskVars, userVars
<1>1. CASE Reject(s) \/ RejectStatus(s) \/ \E p \in PathChoices[s] : Accept(s, p)
  BY <1>1, Types DEF Reject, RejectStatus, Accept
<1>2. CASE SenderCommand(s) \/ ReceiverCommand(s)
  BY <1>2 DEF SenderCommand, ReceiverCommand
<1>3. CASE LinkLost(s)
  BY <1>3, LossWait
<1>4. CASE DamageChunk(s)
  <2>1. toRcv[s] # <<Request>>
    BY <1>4, OneMessage, Messages DEF DamageChunk
  <2> QED
    BY <1>4, <2>1 DEF DamageChunk
<1> QED
  BY <1>1, <1>2, <1>3, <1>4 DEF NetworkStep

LEMMA WaitCorrect == Spec => []WaitInv
<1>1. Init => WaitInv
  BY TurnInit DEF WaitInv, WaitAt, Init
<1>2. WaitInv /\ [Next]_vars => WaitInv'
  <2> SUFFICES ASSUME WaitInv, [Next]_vars, NEW s \in Sessions PROVE WaitAt(s)'
    BY TurnStep DEF WaitInv
  <2>1. TypeInv /\ SessionAt(s) /\ WaitAt(s)
    BY DEF WaitInv, TurnInv
  <2>2. CASE UNCHANGED vars
    BY <2>1, <2>2 DEF vars, sndVars, rcvVars, netVars, taskVars, userVars, WaitAt
  <2>3. CASE Step(s)
    BY <2>1, <2>3, SenderWait, ReceiverWait, OthersWait DEF Step, UserStep
  <2>4. ASSUME NEW t \in Sessions \ {s}, Step(t) PROVE WaitAt(s)'
    BY <2>1, <2>4, Frame, LossWait DEF Same, SameTasks, WaitAt
  <2> QED
    BY <2>2, <2>3, <2>4 DEF Next
<1> QED
  BY <1>1, <1>2, PTL DEF Spec

\* A task at work can move, or its peer, or both leave it to the idle timeout
\* (NobodyWaitsInVain): by the turns of the stream, a task that waits has its
\* message in flight, or a peer that is at work, has stopped or waits as well.
THEOREM SomebodyMoves == Spec => []NobodyWaitsInVain
<1>1. WaitInv => NobodyWaitsInVain
  <2> SUFFICES ASSUME WaitInv, NEW s \in Sessions, ~SenderCanMove(s), ~ReceiverCanMove(s),
                      \/ sndPc[s] \in {"awaitResponse", "nextChunk", "awaitAck"}
                      \/ rcvPc[s] \notin {"none", "returned"} /\ choice[s] # "open"
               PROVE  BothWait(s)
    BY DEF NobodyWaitsInVain
  <2>1. ConsentAt(s) /\ StreamAt(s) /\ SenderAt(s) /\ WaitAt(s) /\ TypeInv
    BY DEF WaitInv, TurnInv, SessionAt
  <2>2. /\ sndPc[s] \in SenderPcs /\ rcvPc[s] \in ReceiverPcs
        /\ choice[s] \in {"none", "open", "accept", "reject", "rejected"}
    BY <2>1, Types
  <2>3. \A m : Head(<<m>>) = m /\ <<m>> # << >>
    BY OneMessage
  <2>4. sndPc[s] = "awaitResponse" => toSnd[s] = << >>
    BY <2>1, <2>3 DEF StreamAt, AckInFlight, SenderCanMove
  <2>5. sndPc[s] = "awaitAck" => toSnd[s] = << >>
    BY <2>1, <2>3 DEF StreamAt, AckInFlight, SenderCanMove
  <2>6. rcvPc[s] = "recv" => toRcv[s] = << >>
    <3>1. toRcv[s] # <<Request>> \/ rcvPc[s] # "recv"
      BY <2>1 DEF StreamAt
    <3>2. ChunkInFlight(s) => toRcv[s] # << >> /\ Head(toRcv[s]).type = "ChunkData"
      BY <2>3, Messages DEF ChunkInFlight
    <3> QED
      BY <2>1, <3>1, <3>2 DEF StreamAt, ReceiverCanMove
  <2>7. rcvPc[s] \in {"none", "awaitDecision", "recv", "returned"}
    BY <2>2 DEF ReceiverPcs, ReceiverCanMove
  <2>8. rcvPc[s] = "awaitDecision" => choice[s] = "open"
    BY <2>1, <2>2 DEF WaitAt, ReceiverCanMove
  <2>9. CASE sndPc[s] \in {"awaitResponse", "awaitAck"}
    <3>1. link[s] /\ rcvPc[s] # "returned" /\ toSnd[s] = << >>
      BY <2>4, <2>5, <2>9 DEF SenderCanMove, SenderReadFails, ReceiverEnded
    <3>2. rcvPc[s] # "none"
      BY <2>1, <2>3, <2>9, <3>1 DEF SenderAt, WaitAt, ReceiverCanMove
    <3>3. rcvPc[s] = "awaitDecision" => toRcv[s] = << >>
      BY <2>1 DEF StreamAt
    <3> QED
      BY <2>6, <2>7, <2>8, <2>9, <3>1, <3>2, <3>3 DEF BothWait, Silent
  <2>10. CASE sndPc[s] \notin {"awaitResponse", "awaitAck"}
    <3>1. sndPc[s] \in {"idle"} \cup SenderEnd
      BY <2>2, <2>10 DEF SenderPcs, SenderCanMove
    <3>2. rcvPc[s] = "recv"
      BY <2>7, <2>8, <3>1 DEF SenderEnd
    <3> QED
      BY <2>1, <2>6, <3>1, <3>2 DEF SenderAt, ReceiverCanMove, ReceiverReadFails, SenderEnded
  <2> QED
    BY <2>9, <2>10
<1> QED
  BY <1>1, WaitCorrect, PTL

-----------------------------------------------------------------------------
(* A terminal status says that the task has ended, and the commands respect it. *)

OutcomeAt(s) ==
    /\ sndStatus[s] = "Completed" => sndPc[s] = "sent"
    /\ sndStatus[s] = "Failed" => sndPc[s] = "error"
    /\ rcvStatus[s] = "Failed" => rcvPc[s] = "returned" \/ choice[s] = "rejected"

OutcomeInv == TurnInv /\ \A s \in Sessions : OutcomeAt(s)

Final(s) ==
    /\ sndStatus[s] \in {"Completed", "Failed"} => sndStatus'[s] = sndStatus[s]
    /\ rcvStatus[s] \in {"Completed", "Failed"} => rcvStatus'[s] = rcvStatus[s]

LEMMA OutcomeSessionStep ==
    ASSUME TypeInv, NEW s \in Sessions, SessionAt(s), OutcomeAt(s), Step(s)
    PROVE  OutcomeAt(s)' /\ Final(s)
<1> USE DEF OutcomeAt, Final, Return, FailReceive
<1>0. ConsentAt(s) /\ SenderAt(s)
  BY DEF SessionAt
<1>a. \A c \in Commands \ {"reject"} : \A status :
         /\ status \in {"Completed", "Failed"} => AfterCommand(c, status) = status
         /\ AfterCommand(c, status) \in {"Completed", "Failed"} => AfterCommand(c, status) = status
  BY DEF AfterCommand, PauseStatus, ResumeStatus, CancelStatus, Commands
<1>1. CASE SenderStep(s) \/ BeginSend(s)
  BY <1>0, <1>1, Types
  DEF SenderStep, RecvResponse, SendChunk, StopSending, RecvAck, SenderReadError, FinishSend,
      BeginSend, rcvVars, bookVars, taskVars, userVars
<1>2. CASE SenderCommand(s)
  BY <1>a, <1>2, Types, ConstantsAssumption
  DEF SenderCommand, rcvVars, bookVars, taskVars, userVars
<1>3. CASE ReceiverCommand(s)
  BY <1>a, <1>3, Types, ConstantsAssumption DEF ReceiverCommand, sndVars, taskVars, userVars
<1>4. CASE Reject(s) \/ RejectStatus(s) \/ \E p \in PathChoices[s] : Accept(s, p)
  BY <1>0, <1>4, Types DEF ConsentAt, Reject, RejectStatus, Accept, sndVars, taskVars, bookVars
<1>5. CASE NetworkStep(s)
  BY <1>5 DEF NetworkStep, LinkLost, DamageChunk, sndVars, rcvVars, bookVars, taskVars, userVars
<1>6. CASE RecvRequest(s) \/ HandleAccept(s) \/ HandleReject(s) \/ BeginReceive(s)
             \/ EndRefused(s) \/ AllocateFile(s)
  BY <1>0, <1>6, Types
  DEF ConsentAt, RecvRequest, HandleAccept, HandleReject, BeginReceive, EndRefused, AllocateFile, sndVars,
      bookVars, userVars, WithFile, Rejected
<1>7. CASE CheckReceive(s) \/ RecvChunk(s) \/ AckChunk(s) \/ MarkChunk(s) \/ EndReceiveLoop(s)
  BY <1>0, <1>7, Types
  DEF ConsentAt, CheckReceive, RecvChunk, AckChunk, MarkChunk, EndReceiveLoop, sndVars,
      bookVars, userVars, WithFile
<1>8. CASE RecvDamagedChunk(s) \/ ReceiverReadError(s) \/ WriteChunk(s) \/ ReadBack(s)
             \/ FinishReceive(s)
  BY <1>0, <1>8, Types
  DEF ConsentAt, RecvDamagedChunk, ReceiverReadError, WriteChunk, ReadBack, FinishReceive,
      sndVars, userVars, WithFile
<1> QED
  BY <1>1, <1>2, <1>3, <1>4, <1>5, <1>6, <1>7, <1>8 DEF Step, ReceiverStep, UserStep

LEMMA OutcomeStep ==
    OutcomeInv /\ [Next]_vars => OutcomeInv' /\ \A s \in Sessions : Final(s)
<1> SUFFICES ASSUME OutcomeInv, [Next]_vars, NEW s \in Sessions PROVE OutcomeAt(s)' /\ Final(s)
  BY TurnStep DEF OutcomeInv
<1>1. TypeInv /\ SessionAt(s) /\ OutcomeAt(s)
  BY DEF OutcomeInv, TurnInv
<1>2. CASE UNCHANGED vars
  BY <1>1, <1>2 DEF vars, sndVars, rcvVars, taskVars, bookVars, userVars, OutcomeAt, Final
<1>3. CASE Step(s)
  BY <1>1, <1>3, OutcomeSessionStep
<1>4. ASSUME NEW t \in Sessions \ {s}, Step(t) PROVE OutcomeAt(s)' /\ Final(s)
  BY <1>1, <1>4, TaskFrame DEF SameTasks, OutcomeAt, Final
<1> QED
  BY <1>2, <1>3, <1>4 DEF Next

LEMMA OutcomeCorrect == Spec => []OutcomeInv
<1>1. Init => OutcomeInv
  BY TurnInit DEF OutcomeInv, OutcomeAt, Init
<1>2. OutcomeInv /\ [Next]_vars => OutcomeInv'
  BY OutcomeStep
<1> QED
  BY <1>1, <1>2, PTL DEF Spec

\* No command, late message or failure changes an outcome (OutcomeIsFinal).
THEOREM OutcomesFinal == Spec => OutcomeIsFinal
<1>1. OutcomeInv /\ [Next]_vars =>
         [\A s \in Sessions :
            /\ sndStatus[s] \in {"Completed", "Failed"} => sndStatus'[s] = sndStatus[s]
            /\ rcvStatus[s] \in {"Completed", "Failed"} => rcvStatus'[s] = rcvStatus[s]]_vars
  BY OutcomeStep DEF Final
<1> QED
  BY OutcomeCorrect, <1>1, PTL DEF Spec, OutcomeIsFinal
=============================================================================
