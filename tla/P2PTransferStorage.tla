-------------------------- MODULE P2PTransferStorage --------------------------
(***************************************************************************)
(* Proofs about P2PTransfer: what the peers count is on the receiver's disk, *)
(* and a completed file is the session's file.  Sessions share the disk: a   *)
(* session is safe from the others as long as no other has its save path;   *)
(* of those that share one and all complete, one has its file there.        *)
(***************************************************************************)
EXTENDS P2PTransferProofs

\* The receiver's ledger, and the chunk it is acknowledging, are on disk, and the
\* file has the session's length.
StoredAt(s) ==
    /\ rcvDone[s] \subseteq Stored(s)
    /\ rcvPc[s] \in {"ack", "mark"} => rcvCur[s] \in Stored(s)
    /\ rcvPc[s] \in WithFile \/ rcvStatus[s] = "Completed" =>
          DOMAIN disk[savePath[s]] = Chunks(s)

StoreInv == TurnInv /\ \A s \in Sessions : Exclusive(s) => StoredAt(s)

\* A save path is given once and a step of a session writes to no other path.
LEMMA PathFrame ==
    ASSUME TypeInv, NEW t \in Sessions, SessionAt(t), Step(t)
    PROVE  /\ savePath[t] \in Paths => savePath'[t] = savePath[t]
           /\ \A p \in Paths : p # savePath[t] => disk'[p] = disk[p]
<1> USE DEF rcvVars, userVars
<1>0. DOMAIN disk = Paths
  BY DEF TypeInv, TypeOK, DiskTypeOK
<1>1. CASE UNCHANGED <<savePath, disk>>
  BY <1>1
<1>2. CASE \E p \in PathChoices[t] : Accept(t, p)
  BY <1>2, ConstantsAssumption DEF Accept, SessionAt, ConsentAt
<1>3. CASE AllocateFile(t)
  BY <1>0, <1>3 DEF AllocateFile
<1>4. CASE WriteChunk(t)
  BY <1>0, <1>4 DEF WriteChunk
<1> QED
  BY <1>1, <1>2, <1>3, <1>4
  DEF Step, SenderStep, ReceiverStep, UserStep, NetworkStep,
      RecvResponse, SendChunk, StopSending, RecvAck, SenderReadError, FinishSend,
      RecvRequest, HandleAccept, HandleReject, BeginReceive, EndRefused, CheckReceive, RecvChunk, RecvDamagedChunk,
      ReceiverReadError, AckChunk, MarkChunk, EndReceiveLoop, ReadBack, FinishReceive,
      BeginSend, Reject, RejectStatus, SenderCommand, ReceiverCommand, LinkLost, DamageChunk

\* Before the file is allocated nothing is counted.
LEMMA EarlyStored ==
    ASSUME NEW s \in Sessions, SessionAt(s)', Early(s)'
    PROVE  StoredAt(s)'
<1>1. ConsentAt(s)' /\ ReceiverAt(s)'
  BY DEF SessionAt
<1>2. rcvDone'[s] = {} /\ rcvPc'[s] \notin WithFile /\ rcvStatus'[s] # "Completed"
  BY <1>1 DEF ConsentAt, ReceiverAt, Early, WithFile
<1> QED
  BY <1>2 DEF StoredAt, WithFile

\* Nothing happens to a session and its file.
LEMMA StoredFrame ==
    ASSUME NEW s \in Sessions, SameTasks(s), disk'[savePath[s]] = disk[savePath[s]], StoredAt(s)
    PROVE  StoredAt(s)'
BY DEF SameTasks, StoredAt, Stored

\* The task of the session works on its file.
LEMMA StoredStep ==
    ASSUME TypeInv, NEW s \in Sessions, SessionAt(s), StoredAt(s), Step(s), ~Early(s)'
    PROVE  StoredAt(s)'
<1> USE DEF SessionAt, Return, FailReceive
<1>1. CASE SenderStep(s) \/ BeginSend(s) \/ SenderCommand(s) \/ NetworkStep(s)
  <2>1. UNCHANGED rcvVars
    BY <1>1 DEF SenderStep, RecvResponse, SendChunk, StopSending, RecvAck, SenderReadError,
                FinishSend, BeginSend, SenderCommand, NetworkStep, LinkLost, DamageChunk
  <2> QED
    BY <2>1 DEF rcvVars, taskVars, bookVars, userVars, StoredAt, Stored
<1>2. CASE ReceiverCommand(s)
  <2>1. /\ UNCHANGED <<taskVars, rcvDone, userVars, disk>>
        /\ rcvStatus'[s] = "Completed" => rcvStatus[s] = "Completed"
    BY <1>2, ConstantsAssumption, Types
    DEF ReceiverCommand, AfterCommand, PauseStatus, ResumeStatus, CancelStatus, Commands
  <2> QED
    BY <2>1 DEF taskVars, userVars, StoredAt, Stored
<1>3. CASE RecvRequest(s) \/ Reject(s) \/ RejectStatus(s) \/ \E p \in PathChoices[s] : Accept(s, p)
  BY <1>3, Types DEF RecvRequest, Reject, RejectStatus, Accept, taskVars, ConsentAt, Early
<1>4. CASE HandleAccept(s) \/ HandleReject(s) \/ BeginReceive(s) \/ EndRefused(s)
  <2>1. /\ UNCHANGED <<rcvDone, disk, userVars, rcvStatus>>
        /\ rcvPc'[s] = "returned"
    BY <1>4, Types
    DEF HandleAccept, HandleReject, BeginReceive, EndRefused, Early, ConsentAt, Rejected,
        userVars, bookVars
  <2> QED
    BY <2>1 DEF userVars, StoredAt, Stored, WithFile
<1>5. CASE CheckReceive(s) \/ RecvChunk(s) \/ RecvDamagedChunk(s) \/ ReceiverReadError(s)
             \/ EndReceiveLoop(s) \/ ReadBack(s) \/ FinishReceive(s)
  <2>1. /\ UNCHANGED <<rcvDone, disk, savePath>>
        /\ rcvPc'[s] \notin {"ack", "mark"}
        /\ rcvPc[s] \in WithFile
    BY <1>5, Types
    DEF CheckReceive, RecvChunk, RecvDamagedChunk, ReceiverReadError, EndReceiveLoop,
        ReadBack, FinishReceive, bookVars, userVars, WithFile
  <2> QED
    BY <2>1 DEF StoredAt, Stored
<1>6. CASE AckChunk(s)
  <2>1. /\ UNCHANGED <<rcvCur, bookVars, disk, userVars>>
        /\ rcvPc[s] = "ack"
    BY <1>6 DEF AckChunk
  <2> QED
    BY <2>1 DEF bookVars, userVars, StoredAt, Stored, WithFile
<1>7. CASE MarkChunk(s)
  <2>1. /\ UNCHANGED <<rcvCur, disk, userVars>>
        /\ rcvPc[s] = "mark" /\ rcvPc'[s] = "check"
        /\ rcvDone'[s] = rcvDone[s] \cup {rcvCur[s]}
    BY <1>7, Types DEF MarkChunk
  <2> QED
    BY <2>1 DEF userVars, StoredAt, Stored, WithFile
<1>8. CASE AllocateFile(s)
  <2>1. rcvDone'[s] = {} /\ savePath'[s] = savePath[s] /\ savePath[s] \in Paths
    BY <1>8 DEF AllocateFile, ReceiverAt, ConsentAt, Early, WithFile, userVars
  <2>2. \/ /\ rcvPc'[s] = "check"
           /\ disk' = [disk EXCEPT ![savePath[s]] = Allocated(TotalChunks[s])]
        \/ rcvPc'[s] = "returned" /\ rcvStatus'[s] = "Failed"
    BY <1>8, Types DEF AllocateFile
  <2>3. DOMAIN Allocated(TotalChunks[s]) = Chunks(s)
    BY DEF Allocated, Chunks
  <2>4. DOMAIN disk = Paths
    BY DEF TypeInv, TypeOK, DiskTypeOK
  <2> QED
    BY <2>1, <2>2, <2>3, <2>4 DEF StoredAt, WithFile
<1>9. CASE WriteChunk(s)
  <2> DEFINE p == savePath[s]
             i == rcvCur[s]
  <2>1. /\ savePath'[s] = p /\ p \in Paths
        /\ rcvPc[s] = "write"
        /\ rcvDone'[s] = rcvDone[s]
        /\ i \in Chunks(s) /\ i \in Nat /\ i \notin rcvDone[s]
        /\ rcvCur'[s] = i
        /\ DOMAIN disk[p] = Chunks(s)
        /\ rcvDone[s] \subseteq Stored(s)
    <3>1. savePath'[s] = p /\ rcvPc[s] = "write" /\ rcvDone'[s] = rcvDone[s] /\ rcvCur'[s] = i
      BY <1>9 DEF WriteChunk, userVars
    <3>2. p \in Paths /\ i \notin rcvDone[s]
      BY <3>1 DEF ConsentAt, ReceiverAt, WithFile
    <3>3. i \in Chunks(s) /\ i \in Nat
      <4>1. LoopsInBounds /\ rcvCur \in [Sessions -> Nat]
        BY Types DEF TypeInv
      <4> QED
        BY <3>1, <4>1 DEF LoopsInBounds
    <3>4. DOMAIN disk[p] = Chunks(s) /\ rcvDone[s] \subseteq Stored(s)
      BY <3>1 DEF StoredAt, WithFile
    <3> QED
      BY <3>1, <3>2, <3>3, <3>4
  <2>2. IsFile(disk[p]) /\ DOMAIN disk = Paths
    BY <2>1 DEF TypeInv, TypeOK, DiskTypeOK
  <2>3. 0 .. i \subseteq Chunks(s)
    BY <2>1, ConstantsAssumption DEF Chunks
  <2>4. \A b \in Sessions \cup {Hole} :
           /\ DOMAIN Written(disk[p], i, b) = Chunks(s)
           /\ Written(disk[p], i, b)[i] = b
           /\ \A j \in Chunks(s) : j # i => Written(disk[p], i, b)[j] = disk[p][j]
    <3> HIDE DEF p, i
    <3> TAKE b \in Sessions \cup {Hole}
    <3> DEFINE file == Written(disk[p], i, b)
    <3>1. IsFile(disk[p]) /\ i \in Nat
      BY <2>1, <2>2
    <3>2. /\ DOMAIN file = DOMAIN disk[p] \cup 0 .. i
          /\ file[i] = b
          /\ \A j \in DOMAIN disk[p] : j # i => file[j] = disk[p][j]
      BY <3>1, WrittenType
    <3> HIDE DEF file
    <3>3. DOMAIN file = Chunks(s)
      BY <2>1, <2>3, <3>2
    <3> QED
      BY <2>1, <3>2, <3>3 DEF file
  <2>5. \/ /\ disk' = [disk EXCEPT ![p] = Written(disk[p], i, s)]
           /\ rcvPc'[s] = "ack"
        \/ /\ rcvPc'[s] = "returned" /\ rcvStatus'[s] = "Failed"
           /\ \/ UNCHANGED disk
              \/ disk' = [disk EXCEPT ![p] = Written(disk[p], i, Hole)]
    BY <1>9, Types DEF WriteChunk
  <2>6. rcvDone[s] \subseteq Stored(s)'
    <3> HIDE DEF p, i
    <3>1. \A j \in rcvDone[s] : j \in Chunks(s) /\ j # i /\ disk[p][j] = s
      BY <2>1 DEF Stored, p
    <3>2. \A j \in rcvDone[s] : j \in DOMAIN disk'[p] /\ disk'[p][j] = s
      BY <2>1, <2>2, <2>4, <2>5, <3>1
    <3> QED
      BY <2>1, <3>1, <3>2 DEF Stored
  <2>7. CASE rcvPc'[s] = "ack"
    <3>1. disk'[p] = Written(disk[p], i, s)
      BY <2>1, <2>2, <2>5, <2>7
    <3>2. i \in Stored(s)' /\ DOMAIN disk'[savePath'[s]] = Chunks(s)
      BY <2>1, <2>4, <3>1 DEF Stored
    <3> QED
      BY <2>1, <2>6, <3>2 DEF StoredAt
  <2>8. CASE rcvPc'[s] = "returned" /\ rcvStatus'[s] = "Failed"
    BY <2>1, <2>6, <2>8 DEF StoredAt, WithFile
  <2> QED
    BY <2>5, <2>7, <2>8
<1> QED
  BY <1>1, <1>2, <1>3, <1>4, <1>5, <1>6, <1>7, <1>8, <1>9 DEF Step, ReceiverStep, UserStep

LEMMA StoreInit == Init => StoreInv
<1> SUFFICES ASSUME Init, NEW s \in Sessions PROVE StoredAt(s)
  BY TurnInit DEF StoreInv
<1> QED
  BY DEF Init, StoredAt, WithFile

LEMMA StoreStep == StoreInv /\ [Next]_vars => StoreInv'
<1> SUFFICES ASSUME StoreInv, [Next]_vars, NEW s \in Sessions, Exclusive(s)'
             PROVE  StoredAt(s)'
  BY TurnStep DEF StoreInv
<1>1. TypeInv /\ TurnInv' /\ SessionAt(s)' /\ \A t \in Sessions : SessionAt(t)
  BY TurnStep DEF StoreInv, TurnInv
<1>2. CASE Early(s)'
  BY <1>1, <1>2, EarlyStored
<1>3. CASE UNCHANGED vars
  <2>1. UNCHANGED savePath /\ SameTasks(s) /\ UNCHANGED disk
    BY <1>3 DEF vars, sndVars, rcvVars, netVars, taskVars, bookVars, userVars, SameTasks
  <2>2. Exclusive(s)
    BY <2>1 DEF Exclusive
  <2> QED
    BY <2>1, <2>2, StoredFrame DEF StoreInv
<1>4. ASSUME NEW t \in Sessions, Step(t), ~Early(s)' PROVE StoredAt(s)'
  <2>1. /\ savePath'[s] \in Paths
        /\ rcvPc'[s] \notin {"none", "awaitDecision", "accepted", "allocate"}
    BY <1>1, <1>4 DEF SessionAt, ConsentAt, Early
  <2>2. savePath[s] \in Paths /\ savePath'[s] = savePath[s]
    <3>1. CASE t = s
      <4>1. savePath[s] \in Paths \/ UNCHANGED savePath
        BY <1>1, <1>4, <2>1, <3>1, Types
        DEF Step, SenderStep, ReceiverStep, UserStep, NetworkStep, rcvVars, userVars, taskVars,
            RecvResponse, SendChunk, StopSending, RecvAck, SenderReadError, FinishSend,
            RecvRequest, HandleAccept, HandleReject, BeginReceive, EndRefused, AllocateFile, CheckReceive, RecvChunk,
            RecvDamagedChunk, ReceiverReadError, WriteChunk, AckChunk, MarkChunk,
            EndReceiveLoop, ReadBack, FinishReceive, BeginSend, Reject, RejectStatus, Accept, SenderCommand,
            ReceiverCommand, LinkLost, DamageChunk, SessionAt, ConsentAt
      <4> QED
        BY <1>1, <1>4, <2>1, <3>1, <4>1, PathFrame
    <3>2. CASE t # s
      BY <1>1, <1>4, <2>1, <3>2, TaskFrame DEF SameTasks
    <3> QED
      BY <3>1, <3>2
  <2>3. \A u \in Sessions : savePath[u] \in Paths => savePath'[u] = savePath[u]
    <3> SUFFICES ASSUME NEW u \in Sessions, savePath[u] \in Paths
                 PROVE  savePath'[u] = savePath[u]
      OBVIOUS
    <3>1. CASE u = t
      BY <1>1, <1>4, <3>1, PathFrame
    <3>2. CASE u # t
      BY <1>1, <1>4, <3>2, TaskFrame DEF SameTasks
    <3> QED
      BY <3>1, <3>2
  <2>4. Exclusive(s)
    BY <2>2, <2>3 DEF Exclusive
  <2>5. StoredAt(s)
    BY <2>4 DEF StoreInv
  <2>6. CASE t = s
    BY <1>1, <1>4, <2>5, <2>6, StoredStep
  <2>7. CASE t # s
    <3>1. SameTasks(s)
      BY <1>1, <1>4, <2>7, TaskFrame
    <3>2. savePath[s] # savePath[t]
      BY <2>4, <2>7 DEF Exclusive
    <3>3. disk'[savePath[s]] = disk[savePath[s]]
      BY <1>1, <1>4, <2>2, <3>2, PathFrame
    <3> QED
      BY <2>5, <3>1, <3>3, StoredFrame
  <2> QED
    BY <2>6, <2>7
<1> QED
  BY <1>2, <1>3, <1>4 DEF Next

LEMMA StoreCorrect == Spec => []StoreInv
BY StoreInit, StoreStep, PTL DEF Spec

\* What either peer counts as completed is on the receiver's disk (CountedIsStored).
THEOREM NothingLost == Spec => []CountedIsStored
<1>1. StoreInv => CountedIsStored
  <2> SUFFICES ASSUME StoreInv, NEW s \in Sessions, Exclusive(s)
               PROVE  /\ sndDone[s] \cup rcvDone[s] \subseteq Stored(s)
                      /\ \A k \in DOMAIN toSnd[s] :
                            toSnd[s][k].type = "ChunkAck" => toSnd[s][k].index \in Stored(s)
    BY DEF CountedIsStored
  <2>1. StoredAt(s) /\ LedgerAt(s) /\ StreamAt(s)
    BY DEF StoreInv, TurnInv, SessionAt
  <2>2. sndDone[s] \cup rcvDone[s] \subseteq Stored(s)
    BY <2>1 DEF StoredAt, LedgerAt
  <2>3. AckInFlight(s) => sndIdx[s] \in Stored(s)
    BY <2>1 DEF StreamAt, StoredAt
  <2>4. \A k \in DOMAIN toSnd[s] :
           toSnd[s][k].type = "ChunkAck" => toSnd[s][k].index \in Stored(s)
    BY <2>1, <2>3, Messages DEF StreamAt, AckInFlight
  <2> QED
    BY <2>2, <2>4
<1> QED
  BY StoreCorrect, <1>1, PTL

\* A session that is Completed at the sender is whole at the receiver
\* (SentIsStored).
THEOREM SentIsWhole == Spec => []SentIsStored
<1>1. StoreInv => SentIsStored
  <2> SUFFICES ASSUME StoreInv, NEW s \in Sessions, sndStatus[s] = "Completed", Exclusive(s)
               PROVE  Stored(s) = Chunks(s)
    BY DEF SentIsStored
  <2>1. StoredAt(s) /\ LedgerAt(s)
    BY DEF StoreInv, TurnInv, SessionAt
  <2> QED
    BY <2>1 DEF StoredAt, LedgerAt, Stored, Chunks
<1> QED
  BY StoreCorrect, <1>1, PTL

\* A session that is Completed at the receiver has exactly its file at its save
\* path, whatever was there before (ReceivedFileIsExact).
THEOREM ReceivedIsExact == Spec => []ReceivedFileIsExact
<1>1. StoreInv => ReceivedFileIsExact
  <2> SUFFICES ASSUME StoreInv, NEW s \in Sessions, rcvStatus[s] = "Completed", Exclusive(s)
               PROVE  disk[savePath[s]] = [i \in Chunks(s) |-> s]
    BY DEF ReceivedFileIsExact
  <2>1. StoredAt(s) /\ LedgerAt(s) /\ ConsentAt(s)
    BY DEF StoreInv, TurnInv, SessionAt
  <2>2. savePath[s] \in Paths
    BY <2>1 DEF ConsentAt
  <2>3. IsFile(disk[savePath[s]])
    BY <2>2 DEF StoreInv, TurnInv, TypeInv, TypeOK, DiskTypeOK
  <2>4. DOMAIN disk[savePath[s]] = Chunks(s)
    BY <2>1 DEF StoredAt
  <2>5. \A i \in Chunks(s) : disk[savePath[s]][i] = s
    BY <2>1 DEF StoredAt, LedgerAt, Stored
  <2> QED
    BY <2>3, <2>4, <2>5 DEF IsFile
<1> QED
  BY StoreCorrect, <1>1, PTL

-----------------------------------------------------------------------------
(* Two writers of one path.  A session reads back only after its own writes,  *)
(* so of two sessions that verify the same path one wrote all of it last.     *)

\* The session has read its chunk j back, and never writes again.
Verified(s, j) ==
    /\ j \in Chunks(s)
    /\ \/ rcvStatus[s] = "Completed"
       \/ rcvPc[s] = "readBack" /\ rcvGood[s] /\ j < rcvIdx[s]

Holds(p, i, s) == i \in DOMAIN disk[p] /\ disk[p][i] = s

Writers(p) == {s \in Sessions : savePath[s] = p}

\* A session that verified all its chunks before another overwrote one of them
\* has lost every chunk that the other has verified as well.
NoMixture ==
    \A p \in Paths : \A s, t \in Writers(p) : \A i, j \in Nat :
        s # t /\ Verified(s, i) /\ Verified(t, j) /\ Holds(p, i, t) => ~Holds(p, j, s)

\* A chunk that all writers have verified belongs to one of them.
VerifiedIsHeld ==
    \A p \in Paths : \A j \in Nat :
        Writers(p) # {} /\ (\A t \in Writers(p) : Verified(t, j))
            => \E s \in Writers(p) : Holds(p, j, s)

\* The file is no longer than the writers' files, if these are equally long.
NoTail ==
    \A p \in Paths : \A s \in Writers(p) :
        /\ \A t \in Writers(p) : TotalChunks[t] = TotalChunks[s]
        /\ rcvPc[s] \in WithFile \/ rcvStatus[s] = "Completed"
        => DOMAIN disk[p] \subseteq Chunks(s)

WriterInv == TurnInv /\ NoMixture /\ VerifiedIsHeld /\ NoTail

\* What a step of a session does to the files.
LEMMA DiskEffect ==
    ASSUME TypeInv, NEW t \in Sessions, SessionAt(t), Step(t), NEW p \in Paths
    PROVE  \/ disk'[p] = disk[p] /\ rcvPc[t] # "allocate"
           \/ disk'[p] = disk[p] /\ rcvPc'[t] \notin WithFile /\ rcvStatus'[t] # "Completed"
           \/ disk'[p] = disk[p] /\ savePath[t] # p
           \/ /\ savePath[t] = p
              /\ rcvPc[t] \in {"allocate", "write"}
              /\ rcvPc'[t] # "readBack" /\ rcvStatus'[t] # "Completed"
              /\ \A i \in Nat : \A s \in Sessions \ {t} : Holds(p, i, s)' => Holds(p, i, s)
              /\ DOMAIN disk'[p] \subseteq
                    Chunks(t) \cup (IF rcvPc[t] = "write" THEN DOMAIN disk[p] ELSE {})
<1> USE DEF rcvVars, userVars
<1>0. DOMAIN disk = Paths /\ Hole \notin Sessions /\ TotalChunks[t] \in Nat
  BY ConstantsAssumption DEF TypeInv, TypeOK, DiskTypeOK
<1>1. CASE UNCHANGED disk /\ ~AllocateFile(t)
  <2>1. rcvPc[t] = "allocate" => UNCHANGED rcvPc
    BY <1>1, Types
    DEF Step, SenderStep, ReceiverStep, UserStep, NetworkStep, taskVars,
      RecvResponse, SendChunk, StopSending, RecvAck, SenderReadError, FinishSend,
      RecvRequest, HandleAccept, HandleReject, BeginReceive, EndRefused, CheckReceive, RecvChunk,
      RecvDamagedChunk, ReceiverReadError, WriteChunk, AckChunk, MarkChunk, EndReceiveLoop,
      ReadBack, FinishReceive, BeginSend, Reject, RejectStatus, Accept, SenderCommand,
      ReceiverCommand, LinkLost, DamageChunk
  <2>2. rcvStatus'[t] = "Completed" => rcvPc'[t] = "returned"
    BY SessionStep DEF SessionAt, ConsentAt
  <2> QED
    BY <1>1, <2>1, <2>2 DEF WithFile
<1>2. CASE AllocateFile(t)
  <2>1. rcvPc[t] = "allocate" /\ savePath[t] \in Paths
    BY <1>2 DEF AllocateFile, SessionAt, ConsentAt
  <2>2. \/ /\ disk' = [disk EXCEPT ![savePath[t]] = Allocated(TotalChunks[t])]
           /\ rcvPc'[t] = "check" /\ rcvStatus'[t] = rcvStatus[t]
        \/ /\ rcvPc'[t] = "returned" /\ rcvStatus'[t] = "Failed"
           /\ UNCHANGED disk \/ disk' = [disk EXCEPT ![savePath[t]] = Allocated(0)]
    BY <1>2, Types DEF AllocateFile, FailReceive, Return
  <2>3. rcvStatus'[t] # "Completed"
    BY <2>1, <2>2 DEF SessionAt, ConsentAt
  <2>4. \A n \in {0, TotalChunks[t]} :
           /\ DOMAIN Allocated(n) \subseteq Chunks(t)
           /\ \A i \in DOMAIN Allocated(n) : Allocated(n)[i] = Hole
    BY <1>0 DEF Allocated, Chunks
  <2>5. CASE savePath[t] # p \/ (UNCHANGED disk /\ rcvPc'[t] = "returned")
    BY <1>0, <2>2, <2>3, <2>5 DEF WithFile
  <2>6. CASE savePath[t] = p /\ ~(UNCHANGED disk /\ rcvPc'[t] = "returned")
    <3>1. PICK n \in {0, TotalChunks[t]} : disk'[p] = Allocated(n)
      BY <1>0, <2>2, <2>6
    <3> QED
      BY <1>0, <2>1, <2>2, <2>3, <2>4, <2>6, <3>1 DEF Holds
  <2> QED
    BY <2>5, <2>6
<1>3. CASE WriteChunk(t)
  <2> DEFINE k == rcvCur[t]
  <2>1. rcvPc[t] = "write" /\ savePath[t] \in Paths /\ k \in Chunks(t) /\ k \in Nat
    <3>1. LoopsInBounds /\ rcvCur \in [Sessions -> Nat]
      BY Types DEF TypeInv
    <3> QED
      BY <1>3, <3>1 DEF WriteChunk, SessionAt, ConsentAt, WithFile, LoopsInBounds
  <2>2. /\ \/ UNCHANGED disk
           \/ \E b \in {t, Hole} : disk' = [disk EXCEPT ![savePath[t]] = Written(disk[savePath[t]], k, b)]
        /\ rcvPc'[t] \in {"ack", "returned"}
        /\ rcvStatus'[t] \in {rcvStatus[t], "Failed"}
    BY <1>3, Types DEF WriteChunk, FailReceive, Return
  <2>3. rcvStatus'[t] # "Completed"
    BY <2>1, <2>2 DEF SessionAt, ConsentAt
  <2>4. CASE savePath[t] # p \/ UNCHANGED disk
    BY <1>0, <2>1, <2>2, <2>4
  <2>5. CASE savePath[t] = p /\ ~UNCHANGED disk
    <3>1. PICK b \in {t, Hole} : disk'[p] = Written(disk[p], k, b)
      BY <1>0, <2>2, <2>5
    <3>2. IsFile(disk[p])
      BY DEF TypeInv, TypeOK, DiskTypeOK
    <3>3. 0 .. k \subseteq Chunks(t)
      BY <1>0, <2>1 DEF Chunks
    <3> HIDE DEF k
    <3>4. /\ DOMAIN disk'[p] = DOMAIN disk[p] \cup 0 .. k
          /\ \A j \in DOMAIN disk'[p] :
                disk'[p][j] = IF j = k THEN b ELSE IF j \in DOMAIN disk[p] THEN disk[p][j] ELSE Hole
      BY <3>1 DEF Written
    <3>5. \A i \in Nat : \A s \in Sessions \ {t} : Holds(p, i, s)' => Holds(p, i, s)
      BY <1>0, <3>4 DEF Holds
    <3> QED
      BY <2>1, <2>2, <2>3, <2>5, <3>3, <3>4, <3>5
  <2> QED
    BY <2>4, <2>5
<1> QED
  BY <1>1, <1>2, <1>3
  DEF Step, SenderStep, ReceiverStep, UserStep, NetworkStep,
      RecvResponse, SendChunk, StopSending, RecvAck, SenderReadError, FinishSend,
      RecvRequest, HandleAccept, HandleReject, BeginReceive, EndRefused, CheckReceive, RecvChunk,
      RecvDamagedChunk, ReceiverReadError, AckChunk, MarkChunk, EndReceiveLoop, ReadBack,
      FinishReceive, BeginSend, Reject, RejectStatus, Accept, SenderCommand, ReceiverCommand,
      LinkLost, DamageChunk

\* A step of a session verifies nothing but a chunk that it finds on disk.
LEMMA VerifyEffect ==
    ASSUME TypeInv, NEW t \in Sessions, SessionAt(t), Step(t)
    PROVE  /\ \A j \in Nat : Verified(t, j)' =>
                Verified(t, j) \/ (Holds(savePath[t], j, t) /\ UNCHANGED disk)
           /\ rcvPc'[t] \in WithFile \/ rcvStatus'[t] = "Completed" =>
                /\ savePath'[t] = savePath[t]
                /\ \/ rcvPc[t] \in WithFile \cup {"allocate"}
                   \/ rcvStatus[t] = "Completed"
<1> USE DEF Verified, FailReceive, Return
<1>1. CASE SenderStep(t) \/ BeginSend(t) \/ SenderCommand(t) \/ NetworkStep(t)
  <2>1. UNCHANGED rcvVars
    BY <1>1 DEF SenderStep, RecvResponse, SendChunk, StopSending, RecvAck, SenderReadError,
                FinishSend, BeginSend, SenderCommand, NetworkStep, LinkLost, DamageChunk
  <2> QED
    BY <2>1 DEF rcvVars, taskVars, bookVars, userVars
<1>2. CASE ReceiverCommand(t)
  <2>1. /\ UNCHANGED <<taskVars, userVars>>
        /\ rcvStatus'[t] = "Completed" => rcvStatus[t] = "Completed"
    BY <1>2, ConstantsAssumption, Types
    DEF ReceiverCommand, AfterCommand, PauseStatus, ResumeStatus, CancelStatus, Commands
  <2> QED
    BY <2>1 DEF taskVars, userVars
<1>3. CASE RecvRequest(t) \/ Reject(t) \/ RejectStatus(t) \/ \E p \in PathChoices[t] : Accept(t, p)
  BY <1>3, Types
  DEF RecvRequest, Reject, RejectStatus, Accept, taskVars, bookVars, SessionAt, ConsentAt, WithFile
<1>4. CASE HandleAccept(t) \/ HandleReject(t) \/ BeginReceive(t) \/ EndRefused(t)
  BY <1>4, Types
  DEF HandleAccept, HandleReject, BeginReceive, EndRefused, bookVars, userVars, SessionAt,
      ConsentAt, WithFile
<1>5. CASE AllocateFile(t) \/ CheckReceive(t) \/ RecvChunk(t) \/ AckChunk(t) \/ MarkChunk(t)
             \/ WriteChunk(t) \/ RecvDamagedChunk(t) \/ ReceiverReadError(t)
  BY <1>5, Types
  DEF AllocateFile, CheckReceive, RecvChunk, AckChunk, MarkChunk, WriteChunk, RecvDamagedChunk,
      ReceiverReadError, bookVars, userVars, SessionAt, ConsentAt, WithFile
<1>6. CASE EndReceiveLoop(t)
  <2>1. rcvIdx'[t] = 0 /\ UNCHANGED <<bookVars, userVars>> /\ rcvPc[t] = "check"
    BY <1>6 DEF EndReceiveLoop, TypeInv, TypeOK, ReceiverTypeOK
  <2> QED
    BY <2>1 DEF bookVars, userVars, SessionAt, ConsentAt, WithFile
<1>7. CASE ReadBack(t)
  <2>1. /\ rcvPc[t] = "readBack" /\ rcvIdx[t] \in Nat
        /\ UNCHANGED <<userVars, disk>>
        /\ \/ /\ rcvPc'[t] = "readBack" /\ rcvStatus'[t] = rcvStatus[t]
              /\ rcvIdx[t] \in DOMAIN disk[savePath[t]]
              /\ rcvGood'[t] => rcvGood[t] /\ disk[savePath[t]][rcvIdx[t]] = t
              /\ rcvIdx'[t] = rcvIdx[t] + 1
           \/ rcvPc'[t] = "returned" /\ rcvStatus'[t] = "Failed"
    <3>1. rcvGood' = [rcvGood EXCEPT ![t] = @ /\ disk[savePath[t]][rcvIdx[t]] = t]
             => (rcvGood'[t] => rcvGood[t] /\ disk[savePath[t]][rcvIdx[t]] = t)
      BY Zenon DEF TypeInv, TypeOK, ReceiverTypeOK
    <3> QED
      BY <1>7, <3>1 DEF ReadBack, TypeInv, TypeOK, ReceiverTypeOK
  <2>2. rcvStatus[t] # "Completed"
    BY <2>1 DEF SessionAt, ConsentAt
  <2> QED
    BY <2>1, <2>2 DEF userVars, Holds, WithFile
<1>8. CASE FinishReceive(t)
  <2>1. /\ rcvPc[t] = "readBack" /\ rcvIdx[t] = TotalChunks[t]
        /\ UNCHANGED <<userVars, disk>>
        /\ rcvPc'[t] = "returned"
        /\ rcvStatus'[t] = "Completed" => rcvGood[t]
    BY <1>8, Types DEF FinishReceive
  <2>2. \A j \in Chunks(t) : j < TotalChunks[t]
    BY ConstantsAssumption DEF Chunks
  <2> QED
    BY <2>1, <2>2 DEF userVars, WithFile
<1> QED
  BY <1>1, <1>2, <1>3, <1>4, <1>5, <1>6, <1>7, <1>8 DEF Step, ReceiverStep, UserStep

\* A step of a session leaves what the others have verified.
LEMMA VerifyFrame ==
    ASSUME NEW s \in Sessions, SameTasks(s), NEW j
    PROVE  Verified(s, j)' <=> Verified(s, j)
BY DEF SameTasks, Verified

\* What the steps of a writer, and of any session, change for the writers of a path.
LEMMA WriterEffect ==
    ASSUME TurnInv, NEW t \in Sessions, Step(t), NEW p \in Paths
    PROVE  /\ \A s \in Sessions \ {t} :
                /\ savePath'[s] = savePath[s] /\ rcvPc'[s] = rcvPc[s]
                /\ rcvStatus'[s] = rcvStatus[s]
                /\ \A j : Verified(s, j)' <=> Verified(s, j)
           /\ \A s \in Sessions : savePath[s] \in Paths => savePath'[s] = savePath[s]
           /\ \A j \in Nat : Verified(t, j)' =>
                /\ savePath'[t] = savePath[t]
                /\ Verified(t, j) \/ (Holds(savePath[t], j, t) /\ UNCHANGED disk)
<1>1. TypeInv /\ SessionAt(t)
  BY DEF TurnInv
<1>2. ASSUME NEW s \in Sessions \ {t}
      PROVE  /\ savePath'[s] = savePath[s] /\ rcvPc'[s] = rcvPc[s]
             /\ rcvStatus'[s] = rcvStatus[s]
             /\ \A j : Verified(s, j)' <=> Verified(s, j)
  BY <1>1, TaskFrame, VerifyFrame DEF SameTasks
<1>3. savePath[t] \in Paths => savePath'[t] = savePath[t]
  BY <1>1, PathFrame
<1>4. ASSUME NEW j \in Nat, Verified(t, j)'
      PROVE  /\ savePath'[t] = savePath[t]
             /\ Verified(t, j) \/ (Holds(savePath[t], j, t) /\ UNCHANGED disk)
  <2>1. rcvPc'[t] \in WithFile \/ rcvStatus'[t] = "Completed"
    BY <1>4 DEF Verified, WithFile
  <2> QED
    BY <1>1, <1>4, <2>1, VerifyEffect
<1> QED
  BY <1>2, <1>3, <1>4

LEMMA NoMixtureStep ==
    ASSUME WriterInv, NEW t \in Sessions, Step(t)
    PROVE  NoMixture'
<1> SUFFICES ASSUME NEW p \in Paths, NEW u \in Writers(p)', NEW v \in Writers(p)',
                    NEW i \in Nat, NEW j \in Nat, u # v,
                    Verified(u, i)', Verified(v, j)', Holds(p, i, v)', Holds(p, j, u)'
             PROVE  FALSE
  BY DEF NoMixture
<1>1. TurnInv /\ TypeInv /\ SessionAt(t)
  BY DEF WriterInv, TurnInv
<1>2. u \in Writers(p) /\ v \in Writers(p)
  BY <1>1, WriterEffect DEF Writers
<1>3. /\ u # t => Verified(u, i)
      /\ v # t => Verified(v, j)
  BY <1>1, WriterEffect DEF Writers
<1>4. CASE disk'[p] = disk[p]
  <2>1. Holds(p, i, v) /\ Holds(p, j, u)
    BY <1>4 DEF Holds
  <2>2. Verified(u, i)
    BY <1>1, <1>2, <1>3, <2>1, WriterEffect DEF Writers, Holds
  <2>3. Verified(v, j)
    BY <1>1, <1>2, <1>3, <2>1, WriterEffect DEF Writers, Holds
  <2> QED
    BY <1>2, <2>1, <2>2, <2>3 DEF WriterInv, NoMixture
<1>5. CASE /\ rcvPc'[t] # "readBack" /\ rcvStatus'[t] # "Completed"
           /\ \A k \in Nat : \A s \in Sessions \ {t} : Holds(p, k, s)' => Holds(p, k, s)
  <2>1. u # t /\ v # t
    BY <1>5 DEF Verified
  <2>2. Holds(p, i, v) /\ Holds(p, j, u)
    BY <1>2, <1>5, <2>1 DEF Writers
  <2> QED
    BY <1>2, <1>3, <2>1, <2>2 DEF WriterInv, NoMixture
<1> QED
  BY <1>1, <1>4, <1>5, DiskEffect

LEMMA VerifiedIsHeldStep ==
    ASSUME WriterInv, NEW t \in Sessions, Step(t)
    PROVE  VerifiedIsHeld'
<1> SUFFICES ASSUME NEW p \in Paths, NEW j \in Nat, NEW u \in Writers(p)',
                    \A s \in Writers(p)' : Verified(s, j)'
             PROVE  \E s \in Writers(p)' : Holds(p, j, s)'
  BY DEF VerifiedIsHeld
<1>1. TurnInv /\ TypeInv /\ SessionAt(t)
  BY DEF WriterInv, TurnInv
<1>2. Writers(p)' = Writers(p)
  BY <1>1, WriterEffect DEF Writers
<1>3. disk'[p] = disk[p] \/ t \notin Writers(p)
  <2>1. t \in Writers(p)' => rcvPc'[t] = "readBack" \/ rcvStatus'[t] = "Completed"
    BY DEF Verified
  <2> QED
    BY <1>1, <1>2, <2>1, DiskEffect DEF Writers
<1>4. disk'[p] = disk[p]
  BY <1>1, <1>3, DiskEffect DEF Writers
<1>5. CASE \A s \in Writers(p) : Verified(s, j)
  <2>1. PICK s \in Writers(p) : Holds(p, j, s)
    BY <1>2, <1>5 DEF WriterInv, VerifiedIsHeld
  <2> QED
    BY <1>2, <1>4, <2>1 DEF Holds
<1>6. CASE \E s \in Writers(p) : ~Verified(s, j)
  <2>1. t \in Writers(p) /\ Holds(savePath[t], j, t)
    BY <1>1, <1>2, <1>6, WriterEffect DEF Writers
  <2> QED
    BY <1>2, <1>4, <2>1 DEF Holds, Writers
<1> QED
  BY <1>5, <1>6

LEMMA NoTailStep ==
    ASSUME WriterInv, NEW t \in Sessions, Step(t)
    PROVE  NoTail'
<1> SUFFICES ASSUME NEW p \in Paths, NEW s \in Writers(p)',
                    \A u \in Writers(p)' : TotalChunks[u] = TotalChunks[s],
                    rcvPc'[s] \in WithFile \/ rcvStatus'[s] = "Completed"
             PROVE  DOMAIN disk'[p] \subseteq Chunks(s)
  BY DEF NoTail
<1>1. TurnInv /\ TypeInv /\ SessionAt(t)
  BY DEF WriterInv, TurnInv
<1>2. Writers(p) \subseteq Writers(p)'
  BY <1>1, WriterEffect DEF Writers
<1>3. s \in Writers(p)
  BY <1>1, WriterEffect, VerifyEffect DEF Writers
<1>4. \/ rcvPc[s] \in WithFile \/ rcvStatus[s] = "Completed"
      \/ s = t /\ rcvPc[s] = "allocate"
  BY <1>1, WriterEffect, VerifyEffect DEF Writers
<1>5. rcvPc[s] \in WithFile \/ rcvStatus[s] = "Completed" => DOMAIN disk[p] \subseteq Chunks(s)
  BY <1>2, <1>3 DEF WriterInv, NoTail
<1>6. CASE rcvPc[t] \notin {"allocate", "write"} \/ savePath[t] # p
  BY <1>1, <1>3, <1>4, <1>5, <1>6, DiskEffect DEF Writers
<1>7. CASE rcvPc[t] \in {"allocate", "write"} /\ savePath[t] = p
  <2>1. t \in Writers(p) /\ Chunks(t) = Chunks(s)
    BY <1>2, <1>7 DEF Writers, Chunks
  <2>2. rcvStatus[t] # "Completed"
    BY <1>1, <1>7 DEF SessionAt, ConsentAt
  <2>3. rcvPc[t] = "write" => DOMAIN disk[p] \subseteq Chunks(s)
    BY <1>4, <1>5, <1>7, <2>2
  <2>4. CASE disk'[p] = disk[p]
    <3>1. (s = t /\ rcvPc[t] = "allocate") \/ DOMAIN disk[p] \subseteq Chunks(s)
      BY <1>4, <1>5
    <3>2. s = t /\ rcvPc[t] = "allocate" => DOMAIN disk'[p] \subseteq Chunks(s)
      BY <1>1, <1>7, <2>1, DiskEffect
    <3> QED
      BY <2>4, <3>1, <3>2
  <2>5. CASE disk'[p] # disk[p]
    BY <1>1, <1>7, <2>1, <2>3, <2>5, DiskEffect
  <2> QED
    BY <2>4, <2>5
<1> QED
  BY <1>6, <1>7

LEMMA WriterCorrect == Spec => []WriterInv
<1>1. Init => WriterInv
  <2> SUFFICES ASSUME Init PROVE NoMixture /\ VerifiedIsHeld /\ NoTail
    BY TurnInit DEF WriterInv
  <2>1. \A p \in Paths : Writers(p) = {}
    BY ConstantsAssumption DEF Init, Writers
  <2> QED
    BY <2>1 DEF NoMixture, VerifiedIsHeld, NoTail
<1>2. WriterInv /\ [Next]_vars => WriterInv'
  <2> SUFFICES ASSUME WriterInv, [Next]_vars PROVE NoMixture' /\ VerifiedIsHeld' /\ NoTail'
    BY TurnStep DEF WriterInv
  <2>1. CASE UNCHANGED vars
    BY <2>1
    DEF vars, rcvVars, taskVars, bookVars, userVars, WriterInv, NoMixture, VerifiedIsHeld,
        NoTail, Writers, Verified, Holds
  <2>2. CASE \E t \in Sessions : Step(t)
    BY <2>2, NoMixtureStep, VerifiedIsHeldStep, NoTailStep
  <2> QED
    BY <2>1, <2>2 DEF Next
<1> QED
  BY <1>1, <1>2, PTL DEF Spec

\* Of several equally long transfers to one path that all report completion, one
\* has written the whole file (OneWriterWins), for any number of them.
THEOREM WinnerTakesAll == Spec => []OneWriterWins
<1>1. WriterInv => OneWriterWins
  <2> SUFFICES ASSUME WriterInv, NEW p \in Paths, NEW u \in Writers(p),
                      \A s, t \in Writers(p) :
                          rcvStatus[s] = "Completed" /\ TotalChunks[s] = TotalChunks[t]
               PROVE  \E s \in Writers(p) : disk[p] = [i \in Chunks(s) |-> s]
    BY DEF OneWriterWins, Writers
  <2>1. \A s \in Writers(p) : Chunks(s) = Chunks(u)
    BY DEF Chunks
  <2>2. DOMAIN disk[p] \subseteq Chunks(u) /\ Chunks(u) \subseteq Nat
    BY DEF WriterInv, NoTail, Chunks
  <2>3. \A s \in Writers(p) : \A j \in Chunks(u) : Verified(s, j)
    BY <2>1 DEF Verified
  <2>4. \A j \in Chunks(u) : \E s \in Writers(p) : Holds(p, j, s)
    BY <2>2, <2>3 DEF WriterInv, VerifiedIsHeld
  <2>5. IsFile(disk[p])
    BY DEF WriterInv, TurnInv, TypeInv, TypeOK, DiskTypeOK
  <2>6. \E w \in Writers(p) : \A j \in Chunks(u) : Holds(p, j, w)
    <3>1. CASE Chunks(u) = {}
      BY <3>1
    <3>2. CASE Chunks(u) # {}
      <4>1. PICK i \in Chunks(u) : TRUE
        BY <3>2
      <4>2. PICK w \in Writers(p) : Holds(p, i, w)
        BY <2>4
      <4>3. ASSUME NEW j \in Chunks(u) PROVE Holds(p, j, w)
        <5>1. PICK v \in Writers(p) : Holds(p, j, v)
          BY <2>4
        <5>2. i \in Nat /\ j \in Nat /\ Verified(w, j) /\ Verified(v, i)
          BY <2>2, <2>3
        <5>3. v = w
          BY <4>2, <5>1, <5>2 DEF WriterInv, NoMixture
        <5> QED
          BY <5>1, <5>3
      <4> QED
        BY <4>3
    <3> QED
      BY <3>1, <3>2
  <2>7. PICK w \in Writers(p) : \A j \in Chunks(u) : Holds(p, j, w)
    BY <2>6
  <2>8. DOMAIN disk[p] = Chunks(w) /\ \A j \in Chunks(w) : disk[p][j] = w
    BY <2>1, <2>2, <2>7 DEF Holds
  <2>9. disk[p] = [i \in Chunks(w) |-> w]
    BY <2>5, <2>8 DEF IsFile
  <2> QED
    BY <2>9
<1> QED
  BY WriterCorrect, <1>1, PTL
=============================================================================
