---------------------- MODULE P2PTransferRefinementProofs ----------------------
(***************************************************************************)
(* The proof that P2PTransfer implements FileDelivery.                     *)
(***************************************************************************)
EXTENDS P2PTransferRefinement, P2PTransferStorage

-----------------------------------------------------------------------------
(* What the refinement needs beyond the storage invariant: the file holds no  *)
(* chunk of the session that the receiver has not handled.                  *)

OwnAt(s) ==
    /\ savePath[s] \in PathChoices[s] \cup {NoPath}
    /\ \A p \in Paths : \A i \in DOMAIN disk[p] : disk[p][i] = s => savePath[s] = p /\ ~Early(s)
    /\ rcvPc[s] \in {"check", "recv", "write"} => Stored(s) \subseteq rcvDone[s]
    /\ rcvPc[s] \in {"ack", "mark"} => Stored(s) \subseteq rcvDone[s] \cup {rcvCur[s]}
    /\ rcvPc[s] = "readBack" => TotalChunks[s] > 0

DeliveryInv == OutcomeInv /\ StoreInv /\ \A s \in Sessions : OwnAt(s)

\* What a step may put on disk: nothing, no bytes of a session, or the chunk that
\* the session of the step is writing.
LEMMA DiskStep ==
    ASSUME TypeInv, NEW t \in Sessions, SessionAt(t), Step(t)
    PROVE  /\ DOMAIN disk = Paths
           /\ \/ UNCHANGED disk
              \/ /\ AllocateFile(t) \/ WriteChunk(t)
                 /\ savePath[t] \in Paths
                 /\ \E file :
                       /\ disk' = [disk EXCEPT ![savePath[t]] = file]
                       /\ \A i \in DOMAIN file :
                             \/ file[i] = Hole
                             \/ i \in DOMAIN disk[savePath[t]] /\ file[i] = disk[savePath[t]][i]
                             \/ WriteChunk(t) /\ rcvPc'[t] = "ack" /\ i = rcvCur[t] /\ file[i] = t
<1>0. DOMAIN disk = Paths
  BY DEF TypeInv, TypeOK, DiskTypeOK
<1>1. CASE UNCHANGED disk
  BY <1>0, <1>1
<1>2. CASE AllocateFile(t)
  <2>1. savePath[t] \in Paths
    BY <1>2 DEF AllocateFile, SessionAt, ConsentAt
  <2>2. \/ UNCHANGED disk
        \/ \E n : disk' = [disk EXCEPT ![savePath[t]] = Allocated(n)]
    BY <1>2 DEF AllocateFile
  <2>3. \A n : \A i \in DOMAIN Allocated(n) : Allocated(n)[i] = Hole
    BY DEF Allocated
  <2> QED
    BY <1>0, <1>2, <2>1, <2>2, <2>3
<1>3. CASE WriteChunk(t)
  <2> DEFINE f == disk[savePath[t]]
             j == rcvCur[t]
  <2>1. savePath[t] \in Paths
    BY <1>3 DEF WriteChunk, SessionAt, ConsentAt, WithFile
  <2>2. \/ UNCHANGED disk
        \/ disk' = [disk EXCEPT ![savePath[t]] = Written(f, j, t)] /\ rcvPc'[t] = "ack"
        \/ disk' = [disk EXCEPT ![savePath[t]] = Written(f, j, Hole)]
    BY <1>3, Types DEF WriteChunk
  <2>3. \A b : \A i \in DOMAIN Written(f, j, b) :
           \/ i = j /\ Written(f, j, b)[i] = b
           \/ i \in DOMAIN f /\ Written(f, j, b)[i] = f[i]
           \/ Written(f, j, b)[i] = Hole
    BY DEF Written
  <2> HIDE DEF f, j
  <2>4. CASE UNCHANGED disk
    BY <1>0, <2>4
  <2>5. CASE disk' = [disk EXCEPT ![savePath[t]] = Written(f, j, t)] /\ rcvPc'[t] = "ack"
    <3> DEFINE g == Written(f, j, t)
    <3>1. \A i \in DOMAIN g : \/ g[i] = Hole
                              \/ i \in DOMAIN f /\ g[i] = f[i]
                              \/ i = j /\ g[i] = t
      BY <2>3
    <3>2. disk' = [disk EXCEPT ![savePath[t]] = g] /\ rcvPc'[t] = "ack"
      BY <2>5
    <3> HIDE DEF g
    <3> QED
      BY <1>0, <1>3, <2>1, <3>1, <3>2 DEF f, j
  <2>6. CASE disk' = [disk EXCEPT ![savePath[t]] = Written(f, j, Hole)]
    <3> DEFINE g == Written(f, j, Hole)
    <3>1. \A i \in DOMAIN g : g[i] = Hole \/ (i \in DOMAIN f /\ g[i] = f[i])
      BY <2>3
    <3>2. disk' = [disk EXCEPT ![savePath[t]] = g]
      BY <2>6
    <3> HIDE DEF g
    <3> QED
      BY <1>0, <1>3, <2>1, <3>1, <3>2 DEF f, j
  <2> QED
    BY <2>2, <2>4, <2>5, <2>6
<1> QED
  BY <1>1, <1>2, <1>3
  DEF Step, SenderStep, ReceiverStep, UserStep, NetworkStep, rcvVars,
      RecvResponse, SendChunk, StopSending, RecvAck, SenderReadError, FinishSend,
      RecvRequest, HandleAccept, HandleReject, BeginReceive, EndRefused, CheckReceive, RecvChunk, RecvDamagedChunk,
      ReceiverReadError, AckChunk, MarkChunk, EndReceiveLoop, ReadBack, FinishReceive,
      BeginSend, Accept, Reject, RejectStatus, SenderCommand, ReceiverCommand, LinkLost, DamageChunk

LEMMA EarlyOnce ==
    ASSUME TypeInv, NEW t \in Sessions, SessionAt(t), Step(t), ~Early(t)
    PROVE  ~Early(t)'
<1> USE Types DEF Early, Return, FailReceive, rcvVars, taskVars, userVars
<1>0. ConsentAt(t)
  BY DEF SessionAt
<1>1. CASE SenderStep(t) \/ BeginSend(t) \/ SenderCommand(t) \/ NetworkStep(t)
  BY <1>1 DEF SenderStep, RecvResponse, SendChunk, StopSending, RecvAck, SenderReadError,
              FinishSend, BeginSend, SenderCommand, NetworkStep, LinkLost, DamageChunk
<1>2. CASE \/ RecvRequest(t) \/ HandleAccept(t) \/ HandleReject(t) \/ BeginReceive(t)
           \/ EndRefused(t) \/ AllocateFile(t)
  BY <1>2 DEF RecvRequest, HandleAccept, HandleReject, BeginReceive, EndRefused, AllocateFile
<1>3. CASE CheckReceive(t) \/ RecvChunk(t) \/ RecvDamagedChunk(t) \/ ReceiverReadError(t)
  BY <1>3 DEF CheckReceive, RecvChunk, RecvDamagedChunk, ReceiverReadError
<1>4. CASE WriteChunk(t) \/ AckChunk(t) \/ MarkChunk(t)
  BY <1>4 DEF WriteChunk, AckChunk, MarkChunk
<1>5. CASE EndReceiveLoop(t) \/ ReadBack(t) \/ FinishReceive(t)
  BY <1>5 DEF EndReceiveLoop, ReadBack, FinishReceive
<1>6. CASE \/ Reject(t) \/ RejectStatus(t) \/ ReceiverCommand(t)
           \/ \E p \in PathChoices[t] : Accept(t, p)
  BY <1>0, <1>6 DEF Reject, RejectStatus, ReceiverCommand, Accept, ConsentAt
<1> QED
  BY <1>1, <1>2, <1>3, <1>4, <1>5, <1>6 DEF Step, ReceiverStep, UserStep

\* A session that has a save path has it alone.
LEMMA OwnExclusive ==
    ASSUME DeliveryInv, NEW s \in Sessions, savePath[s] \in Paths
    PROVE  Exclusive(s) /\ StoredAt(s)
<1>1. \A u \in Sessions : savePath[u] \in PathChoices[u] \cup {NoPath}
  BY DEF DeliveryInv, OwnAt
<1>2. Exclusive(s)
  BY <1>1, OwnPathAssumption, ConstantsAssumption DEF Exclusive
<1> QED
  BY <1>2 DEF DeliveryInv, StoreInv

\* The steps of a session leave what the others have stored.
LEMMA StoredOther ==
    ASSUME DeliveryInv, NEW t \in Sessions, Step(t), NEW u \in Sessions \ {t}
    PROVE  Stored(u)' = Stored(u)
<1>1. TypeInv /\ SessionAt(t)
  BY DEF DeliveryInv, StoreInv, TurnInv
<1>2. savePath'[u] = savePath[u]
  BY <1>1, TaskFrame DEF SameTasks
<1>3. CASE savePath[u] \in Paths
  <2>1. savePath[u] # savePath[t]
    BY <1>3, OwnExclusive DEF Exclusive
  <2>2. disk'[savePath[u]] = disk[savePath[u]]
    BY <1>1, <1>3, <2>1, PathFrame
  <2> QED
    BY <1>2, <2>2 DEF Stored
<1>4. CASE savePath[u] \notin Paths
  BY <1>2, <1>4 DEF Stored
<1> QED
  BY <1>3, <1>4

\* The place and the ledger of a task that writes a chunk.
LEMMA WritePlace ==
    ASSUME DeliveryInv, NEW t \in Sessions, rcvPc[t] = "write"
    PROVE  /\ savePath[t] \in Paths
           /\ rcvCur[t] = sndIdx[t] /\ rcvCur[t] \in Chunks(t)
           /\ rcvCur[t] \notin Stored(t)
           /\ \A j \in 0 .. rcvCur[t] - 1 : j \in Stored(t)
<1>1. TypeInv /\ SessionAt(t) /\ OwnAt(t)
  BY DEF DeliveryInv, StoreInv, TurnInv
<1>2. savePath[t] \in Paths
  BY <1>1 DEF SessionAt, ConsentAt, WithFile
<1>3. rcvDone[t] = Stored(t)
  BY <1>1, <1>2, OwnExclusive DEF OwnAt, StoredAt
<1>4. rcvCur[t] = sndIdx[t] /\ rcvCur[t] \notin rcvDone[t]
  BY <1>1 DEF SessionAt, ReceiverAt
<1>5. \A j \in 0 .. sndIdx[t] - 1 : j \in rcvDone[t]
  BY <1>1 DEF SessionAt, LedgerAt
<1>6. rcvCur[t] \in Chunks(t)
  BY <1>1 DEF TypeInv, LoopsInBounds
<1> QED
  BY <1>2, <1>3, <1>4, <1>5, <1>6

\* What a session has stored changes when it writes a chunk, and in no other way.
LEMMA StoredOwn ==
    ASSUME DeliveryInv, NEW t \in Sessions, Step(t)
    PROVE  \/ Stored(t)' = Stored(t) /\ (rcvPc[t] = "write" => rcvPc'[t] # "ack")
           \/ /\ WriteChunk(t) /\ rcvPc'[t] = "ack"
              /\ Stored(t)' = Stored(t) \cup {rcvCur[t]}
<1>1. TypeInv /\ SessionAt(t) /\ OwnAt(t)
  BY DEF DeliveryInv, StoreInv, TurnInv
<1>2. DOMAIN disk = Paths
  BY <1>1 DEF TypeInv, TypeOK, DiskTypeOK
<1>3. CASE AllocateFile(t)
  <2>1. savePath[t] \in Paths /\ savePath'[t] = savePath[t] /\ Early(t) /\ rcvPc[t] = "allocate"
    BY <1>1, <1>3 DEF AllocateFile, SessionAt, ConsentAt, Early, userVars
  <2>2. \/ UNCHANGED disk
        \/ \E n : disk' = [disk EXCEPT ![savePath[t]] = Allocated(n)]
    BY <1>3 DEF AllocateFile
  <2>3. \A n : \A i \in DOMAIN Allocated(n) : Allocated(n)[i] = Hole
    BY DEF Allocated
  <2>4. Stored(t) = {}
    BY <1>1, <2>1 DEF OwnAt, Stored
  <2>5. Stored(t)' = {}
    BY <1>2, <2>1, <2>2, <2>3, <2>4, ConstantsAssumption DEF Stored
  <2> QED
    BY <2>1, <2>4, <2>5
<1>4. CASE WriteChunk(t)
  <2> DEFINE f == disk[savePath[t]]
             j == rcvCur[t]
  <2>1. /\ savePath[t] \in Paths /\ savePath'[t] = savePath[t]
        /\ j \in Chunks(t) /\ j \in Nat /\ j \notin Stored(t)
        /\ IsFile(f)
    <3>1. rcvPc[t] = "write" /\ savePath'[t] = savePath[t]
      BY <1>4 DEF WriteChunk, userVars
    <3>2. savePath[t] \in Paths /\ j \in Chunks(t) /\ j \notin Stored(t)
      BY <3>1, WritePlace
    <3> QED
      BY <1>1, <3>1, <3>2, Types DEF TypeInv, TypeOK, DiskTypeOK
  <2>2. \/ disk' = [disk EXCEPT ![savePath[t]] = Written(f, j, t)] /\ rcvPc'[t] = "ack"
        \/ /\ rcvPc'[t] = "returned"
           /\ UNCHANGED disk \/ disk' = [disk EXCEPT ![savePath[t]] = Written(f, j, Hole)]
    BY <1>1, <1>4, Types DEF WriteChunk, FailReceive, Return
  <2>3. \A b : \A i \in DOMAIN Written(f, j, b) :
           \/ i = j /\ Written(f, j, b)[i] = b
           \/ i # j /\ i \in DOMAIN f /\ Written(f, j, b)[i] = f[i]
           \/ i # j /\ i \notin DOMAIN f /\ Written(f, j, b)[i] = Hole
    BY DEF Written
  <2>4. \A b \in Sessions \cup {Hole} :
           /\ j \in DOMAIN Written(f, j, b)
           /\ DOMAIN f \subseteq DOMAIN Written(f, j, b)
    <3> HIDE DEF f, j
    <3> TAKE b \in Sessions \cup {Hole}
    <3>1. DOMAIN Written(f, j, b) = DOMAIN f \cup 0 .. j
      BY <2>1, WrittenType
    <3> QED
      BY <2>1, <3>1
  <2> HIDE DEF f, j
  <2>5. Stored(t) = {i \in Chunks(t) : i \in DOMAIN f /\ f[i] = t}
    BY <2>1 DEF Stored, f
  <2>6. CASE UNCHANGED disk /\ rcvPc'[t] = "returned"
    BY <2>1, <2>6 DEF Stored
  <2>7. CASE disk' = [disk EXCEPT ![savePath[t]] = Written(f, j, Hole)] /\ rcvPc'[t] = "returned"
    <3> DEFINE g == Written(f, j, Hole)
    <3>1. Stored(t)' = {i \in Chunks(t) : i \in DOMAIN g /\ g[i] = t}
      BY <1>2, <2>1, <2>7 DEF Stored
    <3>2. \A i \in DOMAIN g : g[i] = Hole \/ (i # j /\ i \in DOMAIN f /\ g[i] = f[i])
      BY <2>3
    <3>3. \A i \in DOMAIN f : i \in DOMAIN g /\ (i # j => g[i] = f[i])
      BY <2>3, <2>4
    <3> HIDE DEF g
    <3>4. Stored(t)' = Stored(t)
      BY <2>1, <2>5, <3>1, <3>2, <3>3, ConstantsAssumption
    <3> QED
      BY <2>7, <3>4
  <2>8. CASE disk' = [disk EXCEPT ![savePath[t]] = Written(f, j, t)] /\ rcvPc'[t] = "ack"
    <3> DEFINE g == Written(f, j, t)
    <3>1. Stored(t)' = {i \in Chunks(t) : i \in DOMAIN g /\ g[i] = t}
      BY <1>2, <2>1, <2>8 DEF Stored
    <3>2. \A i \in DOMAIN g : i # j => g[i] = Hole \/ (i \in DOMAIN f /\ g[i] = f[i])
      BY <2>3
    <3>3. \A i \in DOMAIN f : i \in DOMAIN g /\ (i # j => g[i] = f[i])
      BY <2>3, <2>4
    <3>4. j \in DOMAIN g /\ g[j] = t
      BY <2>3, <2>4
    <3> HIDE DEF g
    <3>5. Stored(t)' = Stored(t) \cup {j}
      BY <2>1, <2>5, <3>1, <3>2, <3>3, <3>4, ConstantsAssumption
    <3> QED
      BY <1>4, <2>8, <3>5 DEF j
  <2> QED
    BY <2>2, <2>6, <2>7, <2>8
<1>5. CASE \E p \in PathChoices[t] : Accept(t, p)
  <2>1. Early(t) /\ UNCHANGED disk /\ rcvPc[t] = "awaitDecision"
    BY <1>1, <1>5 DEF Accept, Early, SessionAt, ConsentAt
  <2> QED
    BY <1>1, <2>1 DEF OwnAt, Stored
<1>6. CASE UNCHANGED <<savePath, disk>> /\ ~WriteChunk(t)
  <2>1. rcvPc[t] = "write" => rcvPc'[t] # "ack"
    BY <1>1, <1>6, Types
    DEF Step, SenderStep, ReceiverStep, UserStep, NetworkStep, rcvVars, userVars, taskVars,
        RecvResponse, SendChunk, StopSending, RecvAck, SenderReadError, FinishSend,
        RecvRequest, HandleAccept, HandleReject, BeginReceive, EndRefused, AllocateFile, CheckReceive, RecvChunk,
        RecvDamagedChunk, ReceiverReadError, AckChunk, MarkChunk,
        EndReceiveLoop, ReadBack, FinishReceive, BeginSend, Reject, RejectStatus, Accept, SenderCommand,
        ReceiverCommand, LinkLost, DamageChunk
  <2> QED
    BY <1>6, <2>1 DEF Stored
<1> QED
  BY <1>3, <1>4, <1>5, <1>6
  DEF Step, SenderStep, ReceiverStep, UserStep, NetworkStep, rcvVars, userVars,
      RecvResponse, SendChunk, StopSending, RecvAck, SenderReadError, FinishSend,
      RecvRequest, HandleAccept, HandleReject, BeginReceive, EndRefused, CheckReceive, RecvChunk, RecvDamagedChunk,
      ReceiverReadError, AckChunk, MarkChunk, EndReceiveLoop, ReadBack, FinishReceive,
      BeginSend, Reject, RejectStatus, SenderCommand, ReceiverCommand, LinkLost, DamageChunk

LEMMA OwnInit == Init => DeliveryInv
<1> SUFFICES ASSUME Init, NEW s \in Sessions PROVE OwnAt(s)
  BY StoreInit, TurnInit DEF DeliveryInv, OutcomeInv, OutcomeAt, Init
<1>1. \A p \in Paths : \A i \in DOMAIN disk[p] : disk[p][i] # s
  BY ConstantsAssumption DEF Init, Allocated
<1> QED
  BY <1>1 DEF Init, OwnAt

\* The bytes of a session are found at its own path, and only once it writes.
LEMMA OwnBytes ==
    ASSUME DeliveryInv, NEW t \in Sessions, Step(t), NEW s \in Sessions,
           NEW p \in Paths, NEW i \in DOMAIN disk'[p], disk'[p][i] = s
    PROVE  savePath'[s] = p /\ ~Early(s)'
<1>1. TypeInv /\ SessionAt(t) /\ SessionAt(s) /\ OwnAt(s)
  BY DEF DeliveryInv, StoreInv, TurnInv
<1>2. \/ i \in DOMAIN disk[p] /\ disk[p][i] = s
      \/ WriteChunk(t) /\ rcvPc'[t] = "ack" /\ p = savePath[t] /\ t = s /\ savePath[t] \in Paths
  <2>1. CASE disk'[p] = disk[p]
    BY <2>1
  <2>2. CASE disk'[p] # disk[p]
    <3>1. savePath[t] = p
      BY <1>1, <2>2, PathFrame
    <3>2. PICK file :
             /\ disk' = [disk EXCEPT ![savePath[t]] = file]
             /\ \A k \in DOMAIN file :
                   \/ file[k] = Hole
                   \/ k \in DOMAIN disk[savePath[t]] /\ file[k] = disk[savePath[t]][k]
                   \/ WriteChunk(t) /\ rcvPc'[t] = "ack" /\ k = rcvCur[t] /\ file[k] = t
      BY <1>1, <2>2, DiskStep
    <3>3. disk'[p] = file
      BY <1>1, <3>1, <3>2, DiskStep
    <3> QED
      BY <3>1, <3>2, <3>3, ConstantsAssumption
  <2> QED
    BY <2>1, <2>2
<1>3. CASE i \in DOMAIN disk[p] /\ disk[p][i] = s
  <2>1. savePath[s] = p /\ ~Early(s)
    BY <1>1, <1>3 DEF OwnAt
  <2>2. CASE s = t
    BY <1>1, <2>1, <2>2, PathFrame, EarlyOnce
  <2>3. CASE s # t
    BY <1>1, <2>1, <2>3, TaskFrame DEF SameTasks, Early
  <2> QED
    BY <2>2, <2>3
<1>4. CASE WriteChunk(t) /\ p = savePath[t] /\ t = s /\ savePath[t] \in Paths
  <2>1. rcvPc[t] = "write"
    BY <1>4 DEF WriteChunk
  <2>2. ~Early(t)
    BY <1>1, <2>1 DEF SessionAt, ConsentAt, Early, WithFile
  <2> QED
    BY <1>1, <1>4, <2>2, PathFrame, EarlyOnce
<1> QED
  BY <1>2, <1>3, <1>4

LEMMA OwnStep == DeliveryInv /\ [Next]_vars => DeliveryInv'
<1> SUFFICES ASSUME DeliveryInv, [Next]_vars, NEW s \in Sessions PROVE OwnAt(s)'
  BY OutcomeStep, StoreStep DEF DeliveryInv
<1>1. TypeInv /\ SessionAt(s) /\ OwnAt(s)
  BY DEF DeliveryInv, StoreInv, TurnInv
<1>2. CASE UNCHANGED vars
  <2>1. UNCHANGED <<savePath, disk, choice, rcvPc, rcvDone, rcvCur>>
    BY <1>2 DEF vars, rcvVars, taskVars, bookVars, userVars
  <2> QED
    BY <1>1, <2>1 DEF OwnAt, Early, Stored
<1>3. ASSUME NEW t \in Sessions \ {s}, Step(t) PROVE OwnAt(s)'
  <2>1. SameTasks(s) /\ Stored(s)' = Stored(s)
    BY <1>1, <1>3, TaskFrame, StoredOther
  <2>2. \A p \in Paths : \A i \in DOMAIN disk'[p] :
           disk'[p][i] = s => savePath'[s] = p /\ ~Early(s)'
    BY <1>3, OwnBytes
  <2> QED
    BY <1>1, <2>1, <2>2 DEF OwnAt, SameTasks
<1>4. CASE Step(s)
  <2> USE DEF Return, FailReceive, rcvVars, taskVars, bookVars, userVars
  <2>1. \A p \in Paths : \A i \in DOMAIN disk'[p] :
           disk'[p][i] = s => savePath'[s] = p /\ ~Early(s)'
    BY <1>4, OwnBytes
  <2>2. savePath'[s] \in PathChoices[s] \cup {NoPath}
    <3>1. savePath'[s] = savePath[s] \/ \E p \in PathChoices[s] : savePath'[s] = p
      BY <1>4, Types, <1>1
      DEF Step, SenderStep, ReceiverStep, UserStep, NetworkStep,
          RecvResponse, SendChunk, StopSending, RecvAck, SenderReadError, FinishSend,
          RecvRequest, HandleAccept, HandleReject, BeginReceive, EndRefused, AllocateFile, CheckReceive, RecvChunk,
          RecvDamagedChunk, ReceiverReadError, WriteChunk, AckChunk, MarkChunk,
          EndReceiveLoop, ReadBack, FinishReceive, BeginSend, Reject, RejectStatus, Accept, SenderCommand,
          ReceiverCommand, LinkLost, DamageChunk
    <3> QED
      BY <1>1, <3>1 DEF OwnAt
  <2>3. \/ Stored(s)' = Stored(s) /\ (rcvPc[s] = "write" => rcvPc'[s] # "ack")
        \/ /\ WriteChunk(s) /\ rcvPc'[s] = "ack"
           /\ Stored(s)' = Stored(s) \cup {rcvCur[s]}
    BY <1>4, StoredOwn
  <2>4. CASE WriteChunk(s) /\ rcvPc'[s] = "ack" /\ Stored(s)' = Stored(s) \cup {rcvCur[s]}
    <3>1. rcvPc[s] = "write" /\ rcvDone'[s] = rcvDone[s] /\ rcvCur'[s] = rcvCur[s]
      BY <2>4 DEF WriteChunk
    <3> QED
      BY <1>1, <2>1, <2>2, <2>4, <3>1 DEF OwnAt
  <2>5. CASE Stored(s)' = Stored(s) /\ (rcvPc[s] = "write" => rcvPc'[s] # "ack")
    <3>1. /\ rcvPc'[s] \in {"check", "recv", "write"} => Stored(s) \subseteq rcvDone'[s]
          /\ rcvPc'[s] \in {"ack", "mark"} => Stored(s) \subseteq rcvDone'[s] \cup {rcvCur'[s]}
          /\ rcvPc'[s] = "readBack" => TotalChunks[s] > 0
      <4> USE <1>1, Types DEF OwnAt
      <4>1. CASE SenderStep(s) \/ BeginSend(s) \/ SenderCommand(s) \/ NetworkStep(s)
        BY <4>1 DEF SenderStep, RecvResponse, SendChunk, StopSending, RecvAck, SenderReadError,
                    FinishSend, BeginSend, SenderCommand, NetworkStep, LinkLost, DamageChunk
      <4>2. CASE \/ RecvRequest(s) \/ HandleAccept(s) \/ HandleReject(s)
               \/ BeginReceive(s) \/ EndRefused(s)
        BY <4>2 DEF RecvRequest, HandleAccept, HandleReject, BeginReceive, EndRefused
      <4>3. CASE AllocateFile(s)
        <5>1. Early(s)
          BY <4>3 DEF AllocateFile, Early
        <5>2. Stored(s) = {}
          BY <5>1 DEF Stored
        <5> QED
          BY <4>3, <5>2 DEF AllocateFile
      <4>4. CASE CheckReceive(s) \/ RecvChunk(s) \/ RecvDamagedChunk(s) \/ ReceiverReadError(s)
        BY <4>4 DEF CheckReceive, RecvChunk, RecvDamagedChunk, ReceiverReadError
      <4>5. CASE WriteChunk(s) \/ AckChunk(s) \/ MarkChunk(s)
        BY <2>5, <4>5 DEF WriteChunk, AckChunk, MarkChunk
      <4>6. CASE EndReceiveLoop(s) \/ ReadBack(s) \/ FinishReceive(s)
        BY <4>6 DEF EndReceiveLoop, ReadBack, FinishReceive, IsAllChunksComplete
      <4>7. CASE \/ Reject(s) \/ RejectStatus(s) \/ ReceiverCommand(s)
               \/ \E p \in PathChoices[s] : Accept(s, p)
        BY <4>7 DEF Reject, RejectStatus, ReceiverCommand, Accept
      <4> QED
        BY <1>4, <4>1, <4>2, <4>3, <4>4, <4>5, <4>6, <4>7 DEF Step, ReceiverStep, UserStep
    <3> QED
      BY <2>1, <2>2, <2>5, <3>1 DEF OwnAt
  <2> QED
    BY <2>3, <2>4, <2>5
<1> QED
  BY <1>2, <1>3, <1>4 DEF Next

LEMMA DeliveryCorrect == Spec => []DeliveryInv
BY OwnInit, OwnStep, PTL DEF Spec

-----------------------------------------------------------------------------
(* Each step is a step of FileDelivery or changes nothing of it. *)

\* The reports of a session change only when its task ends.
LEMMA Reports ==
    ASSUME DeliveryInv, NEW t \in Sessions, Step(t), NEW s \in Sessions
    PROVE  /\ sndStatus'[s] = "Completed" <=>
                 sndStatus[s] = "Completed" \/ (s = t /\ FinishSend(t))
           /\ rcvStatus'[s] = "Completed" <=>
                 rcvStatus[s] = "Completed" \/ (s = t /\ FinishReceive(t) /\ rcvGood[t])
<1>1. TypeInv /\ \A u \in Sessions : Final(u)
  BY OutcomeStep DEF DeliveryInv, OutcomeInv, TurnInv, Next
<1>2. CASE s # t
  BY <1>1, <1>2, TaskFrame DEF SameTasks
<1>3. ASSUME s = t, sndStatus'[t] = "Completed", sndStatus[t] # "Completed" PROVE FinishSend(t)
  <2>1. \A c \in Commands \ {"reject"} : \A status :
           AfterCommand(c, status) = "Completed" => status = "Completed"
    BY DEF AfterCommand, PauseStatus, ResumeStatus, CancelStatus, Commands
  <2>2. ~SenderCommand(t)
    BY <1>1, <1>3, <2>1, Types, ConstantsAssumption DEF SenderCommand
  <2> QED
    BY <1>1, <1>3, <2>2, Types
    DEF Step, SenderStep, ReceiverStep, UserStep, NetworkStep, sndVars,
        RecvResponse, SendChunk, StopSending, RecvAck, SenderReadError,
        RecvRequest, HandleAccept, HandleReject, BeginReceive, EndRefused, AllocateFile, CheckReceive, RecvChunk,
        RecvDamagedChunk, ReceiverReadError, WriteChunk, AckChunk, MarkChunk,
        EndReceiveLoop, ReadBack, FinishReceive, BeginSend, Reject, RejectStatus, Accept,
        ReceiverCommand, LinkLost, DamageChunk
<1>4. ASSUME s = t, rcvStatus'[t] = "Completed", rcvStatus[t] # "Completed"
      PROVE  FinishReceive(t) /\ rcvGood[t]
  <2>1. \A c \in Commands \ {"reject"} : \A status :
           AfterCommand(c, status) = "Completed" => status = "Completed"
    BY DEF AfterCommand, PauseStatus, ResumeStatus, CancelStatus, Commands
  <2>2. ~ReceiverCommand(t)
    BY <1>1, <1>4, <2>1, Types, ConstantsAssumption DEF ReceiverCommand
  <2>3. FinishReceive(t)
    BY <1>1, <1>4, <2>2, Types
    DEF Step, SenderStep, ReceiverStep, UserStep, NetworkStep, rcvVars, bookVars, FailReceive,
        RecvResponse, SendChunk, StopSending, RecvAck, SenderReadError, FinishSend,
        RecvRequest, HandleAccept, HandleReject, BeginReceive, EndRefused, AllocateFile, CheckReceive, RecvChunk,
        RecvDamagedChunk, ReceiverReadError, WriteChunk, AckChunk, MarkChunk,
        EndReceiveLoop, ReadBack, BeginSend, Reject, RejectStatus, Accept, SenderCommand,
        LinkLost, DamageChunk
  <2> QED
    BY <1>1, <1>4, <2>3, Types DEF FinishReceive
<1>5. FinishSend(t) => sndStatus'[t] = "Completed"
  BY <1>1, Types DEF FinishSend
<1>6. FinishReceive(t) /\ rcvGood[t] => rcvStatus'[t] = "Completed"
  BY <1>1, Types DEF FinishReceive
<1> QED
  BY <1>1, <1>2, <1>3, <1>4, <1>5, <1>6 DEF Final

LEMMA DeliveryStep == DeliveryInv /\ [Next]_vars => [Delivery!Next]_Delivery!deliveryVars
<1> SUFFICES ASSUME DeliveryInv, [Next]_vars
             PROVE  Delivery!Next \/ UNCHANGED Delivery!deliveryVars
  OBVIOUS
<1>0. TypeInv /\ \A s \in Sessions : SessionAt(s) /\ OwnAt(s)
  BY DEF DeliveryInv, StoreInv, TurnInv
<1>a. \A s \in Sessions : Delivery!Chunks(s) = Chunks(s)
  BY DEF Delivery!Chunks, Chunks
<1>1. CASE UNCHANGED vars
  <2>1. \A s \in Sessions : Stored(s)' = Stored(s)
    BY <1>1 DEF vars, rcvVars, userVars, Stored
  <2> QED
    BY <1>1, <2>1 DEF Delivery!deliveryVars, vars, sndVars, rcvVars, bookVars
<1>2. ASSUME NEW t \in Sessions, Step(t)
      PROVE  Delivery!Next \/ UNCHANGED Delivery!deliveryVars
  <2>1. /\ \A s \in Sessions \ {t} : Stored(s)' = Stored(s)
        /\ \/ Stored(t)' = Stored(t) /\ (rcvPc[t] = "write" => rcvPc'[t] # "ack")
           \/ /\ WriteChunk(t) /\ rcvPc'[t] = "ack"
              /\ Stored(t)' = Stored(t) \cup {rcvCur[t]}
    BY <1>2, StoredOther, StoredOwn
  <2>2. \A s \in Sessions :
           /\ sndStatus'[s] = "Completed" <=>
                 sndStatus[s] = "Completed" \/ (s = t /\ FinishSend(t))
           /\ rcvStatus'[s] = "Completed" <=>
                 rcvStatus[s] = "Completed" \/ (s = t /\ FinishReceive(t) /\ rcvGood[t])
    BY <1>2, Reports
  <2>3. CASE WriteChunk(t) /\ rcvPc'[t] = "ack" /\ Stored(t)' = Stored(t) \cup {rcvCur[t]}
    <3>1. /\ rcvCur[t] \in Chunks(t)
          /\ rcvCur[t] \notin Stored(t)
          /\ \A j \in 0 .. rcvCur[t] - 1 : j \in Stored(t)
      BY <2>3, WritePlace DEF WriteChunk
    <3>2. UNCHANGED sndDone /\ ~FinishSend(t) /\ ~FinishReceive(t)
      BY <2>3 DEF WriteChunk, FinishReceive, FinishSend, sndVars, rcvVars, taskVars
    <3>3. Delivery!Store(t, rcvCur[t])
      BY <1>0, <2>1, <2>2, <2>3, <3>1, <3>2 DEF Delivery!Store, Delivery!IsNext
    <3> QED
      BY <1>a, <3>1, <3>3 DEF Delivery!Next
  <2>4. CASE RecvAck(t)
    <3>1. /\ sndDone' = [sndDone EXCEPT ![t] = @ \cup {sndIdx[t]}]
          /\ UNCHANGED rcvVars
          /\ sndPc[t] = "awaitAck"
          /\ AckInFlight(t)
      <4>1. /\ sndDone' = [sndDone EXCEPT ![t] = @ \cup {sndIdx[t]}]
            /\ UNCHANGED rcvVars
            /\ sndPc[t] = "awaitAck"
            /\ toSnd[t] # << >> /\ Head(toSnd[t]) = ChunkAck(sndIdx[t])
        BY <2>4 DEF RecvAck
      <4> QED
        BY <1>0, <4>1, OneMessage, Messages DEF SessionAt, StreamAt, AckInFlight
    <3>2. sndIdx[t] \in Stored(t)
      <4>1. /\ ~Early(t)
            /\ sndIdx[t] \in rcvDone[t] \/ (rcvPc[t] = "mark" /\ rcvCur[t] = sndIdx[t])
        BY <1>0, <3>1 DEF SessionAt, StreamAt
      <4>2. savePath[t] \in Paths
        BY <1>0, <4>1 DEF SessionAt, ConsentAt, Early
      <4> QED
        BY <4>1, <4>2, OwnExclusive DEF StoredAt
    <3>3. sndDone[t] = 0 .. sndIdx[t] - 1 /\ sndIdx[t] \in Nat
      BY <1>0, Types DEF SessionAt, LedgerAt
    <3>4. /\ sndIdx[t] \in Chunks(t)
          /\ sndIdx[t] \notin sndDone[t]
          /\ \A j \in 0 .. sndIdx[t] - 1 : j \in sndDone[t]
      BY <3>2, <3>3 DEF Stored
    <3>5. /\ \A s \in Sessions : Stored(s)' = Stored(s)
          /\ ~FinishSend(t) /\ ~FinishReceive(t)
      BY <1>0, <2>4, <3>1, Types
      DEF rcvVars, taskVars, userVars, bookVars, Stored, FinishSend, FinishReceive, RecvAck, Return
    <3>6. Delivery!Count(t, sndIdx[t])
      BY <1>0, <2>2, <3>1, <3>2, <3>4, <3>5 DEF Delivery!Count, Delivery!IsNext
    <3> QED
      BY <1>a, <3>4, <3>6 DEF Delivery!Next
  <2>5. CASE FinishSend(t)
    <3>1. UNCHANGED <<sndDone, rcvVars>> /\ sndIdx[t] = TotalChunks[t]
      BY <2>5 DEF FinishSend
    <3>2. sndDone[t] = Chunks(t)
      BY <1>0, <3>1 DEF SessionAt, LedgerAt, Chunks
    <3>3. (\A s \in Sessions : Stored(s)' = Stored(s)) /\ ~FinishReceive(t)
      BY <1>0, <2>5, <3>1, Types
      DEF rcvVars, taskVars, bookVars, userVars, Stored, FinishSend, FinishReceive, sndVars, Return
    <3>4. Delivery!ReportSent(t)
      BY <1>0, <1>a, <2>2, <2>5, <3>1, <3>2, <3>3 DEF Delivery!ReportSent
    <3> QED
      BY <3>4 DEF Delivery!Next
  <2>6. CASE FinishReceive(t) /\ rcvGood[t]
    <3>1. UNCHANGED <<sndDone, savePath, disk>> /\ rcvPc[t] = "readBack"
      BY <2>6 DEF FinishReceive, sndVars, userVars
    <3>2. TotalChunks[t] > 0 /\ rcvDone[t] = Chunks(t)
      BY <1>0, <3>1 DEF OwnAt, SessionAt, LedgerAt
    <3>3. savePath[t] \in Paths
      BY <1>0, <3>1 DEF SessionAt, ConsentAt, WithFile
    <3>4. Stored(t) = Chunks(t)
      BY <3>2, <3>3, OwnExclusive DEF StoredAt, Stored
    <3>5. (\A s \in Sessions : Stored(s)' = Stored(s)) /\ ~FinishSend(t)
      BY <1>0, <2>6, <3>1, Types
      DEF FinishSend, FinishReceive, Stored, rcvVars, taskVars, bookVars, userVars, Return
    <3>6. Delivery!ReportReceived(t)
      BY <1>0, <1>a, <2>2, <2>6, <3>1, <3>2, <3>4, <3>5 DEF Delivery!ReportReceived
    <3> QED
      BY <3>6 DEF Delivery!Next
  <2>7. CASE /\ Stored(t)' = Stored(t)
             /\ ~RecvAck(t) /\ ~FinishSend(t) /\ ~(FinishReceive(t) /\ rcvGood[t])
    <3>1. UNCHANGED sndDone
      BY <1>2, <2>7
      DEF Step, SenderStep, ReceiverStep, UserStep, NetworkStep, sndVars,
          RecvResponse, SendChunk, StopSending, SenderReadError,
          RecvRequest, HandleAccept, HandleReject, BeginReceive, EndRefused, AllocateFile, CheckReceive, RecvChunk,
          RecvDamagedChunk, ReceiverReadError, WriteChunk, AckChunk, MarkChunk, FinishReceive,
          EndReceiveLoop, ReadBack, BeginSend, Reject, RejectStatus, Accept, SenderCommand, ReceiverCommand,
          LinkLost, DamageChunk
    <3> QED
      BY <2>1, <2>2, <2>7, <3>1 DEF Delivery!deliveryVars
  <2> QED
    BY <2>1, <2>3, <2>4, <2>5, <2>6, <2>7
<1> QED
  BY <1>1, <1>2 DEF Next

\* The transfer implements the abstract promise FileDelivery (DeliversFile), for
\* any number of sessions whose users choose save paths of their own.
THEOREM TransferDelivers == Spec => DeliversFile
<1>1. Init => Delivery!Init
  <2> SUFFICES ASSUME Init PROVE Delivery!Init
    OBVIOUS
  <2>1. \A s \in Sessions : Stored(s) = {}
    BY ConstantsAssumption DEF Init, Stored
  <2>2. \A s \in Sessions : sndStatus[s] # "Completed" /\ rcvStatus[s] # "Completed"
    BY DEF Init
  <2> QED
    BY <2>1, <2>2 DEF Delivery!Init, Init
<1> QED
  BY <1>1, DeliveryCorrect, DeliveryStep, PTL DEF Spec, DeliversFile, Delivery!Spec
=============================================================================
