------------------------ MODULE TransferManagerProofs ------------------------
(***************************************************************************)
(* Proofs about the chunk layout, the rate controller and the transfer     *)
(* manager, for any files, sessions, callers and limits.  The layout needs *)
(* no state.  ShapeInv says which session a call is on and at what stages; *)
(* upon it, each promise about the disk has an inductive invariant of two  *)
(* parts: the promise, and what the calls on their way know of the disk    *)
(* although they hold no lock.                                             *)
(***************************************************************************)
EXTENDS Integers, TransferManager, FiniteSetTheorems, TLAPS

-----------------------------------------------------------------------------
(* Division. *)

LEMMA Divided ==
  ASSUME NEW a \in Int, NEW b \in Int, b > 0
  PROVE  /\ a = (a \div b) * b + (a % b)
         /\ a \div b \in Int /\ a % b \in Int /\ 0 <= a % b /\ a % b < b
<1>1. a = (a \div b) * b + (a % b)
  BY Z3T(30)
<1> QED
  BY <1>1

LEMMA Times ==
  ASSUME NEW p \in Int, NEW q \in Int, NEW b \in Int, b > 0, p < q
  PROVE  p * b + b <= q * b
<1>1. (q - p - 1) * b >= 0
  BY Z3T(30)
<1>2. (q - p - 1) * b = q * b - p * b - b
  BY Z3T(30)
<1> QED
  BY <1>1, <1>2, Z3T(30)

\* Quotient and remainder are the only ones there are.
LEMMA Quotient ==
  ASSUME NEW a \in Int, NEW b \in Int, b > 0,
         NEW q \in Int, q * b <= a, a < q * b + b
  PROVE  a \div b = q /\ a % b = a - q * b
<1> DEFINE p == a \div b
           r == a % b
<1>1. p \in Int /\ r \in Int /\ a = p * b + r /\ 0 <= r /\ r < b
  BY Divided
<1> HIDE DEF p, r
<1>2. p * b \in Int /\ q * b \in Int
  BY <1>1
<1>3. ~(p < q)
  <2>1. p < q => p * b + b <= q * b
    BY <1>1, Times
  <2> QED
    BY <1>1, <1>2, <2>1
<1>4. ~(q < p)
  <2>1. q < p => q * b + b <= p * b
    BY <1>1, Times
  <2> QED
    BY <1>1, <1>2, <2>1
<1>5. p = q
  BY <1>1, <1>3, <1>4
<1>6. r = a - q * b
  BY <1>1, <1>2, <1>5
<1> QED
  BY <1>5, <1>6 DEF p, r

-----------------------------------------------------------------------------
(* The layout of chunks. *)

\* The bytes of one chunk.
Within(bytes, byte, i) ==
    ChunkOffset(i) <= byte /\ byte < ChunkOffset(i) + ChunkLength(bytes, i)

\* The chunks before the last are full, and the last ends where the file does.
LEMMA LastEndsFile ==
  ASSUME NEW bytes \in SafeSizes, bytes > 0
  PROVE  /\ TotalChunks(bytes) \in Nat \ {0}
         /\ LastChunkSize(bytes) \in 1 .. ChunkSize
         /\ (TotalChunks(bytes) - 1) * ChunkSize + LastChunkSize(bytes) = bytes
<1> DEFINE q == bytes \div ChunkSize
           r == bytes % ChunkSize
<1>1. /\ ChunkSize \in Int /\ ChunkSize > 0 /\ SizeLimit \in Int
      /\ bytes \in Int /\ bytes + ChunkSize <= SizeLimit
  BY LayoutAssumption DEF SafeSizes, Sizes
<1>2. bytes = q * ChunkSize + r /\ q \in Int /\ r \in Int /\ 0 <= r /\ r < ChunkSize
  BY <1>1, Divided
<1>3. (bytes + ChunkSize - 1) % SizeLimit = bytes + ChunkSize - 1
  BY <1>1
<1>4. q >= 0
  BY <1>1
<1>5. TotalChunks(bytes) = (bytes + ChunkSize - 1) \div ChunkSize
  BY <1>3 DEF TotalChunks
<1> HIDE DEF q, r
<1>6. q * ChunkSize \in Int
  BY <1>1, <1>2
<1>7. CASE r = 0
  <2>1. q * ChunkSize <= bytes + ChunkSize - 1 /\ bytes + ChunkSize - 1 < q * ChunkSize + ChunkSize
    BY <1>1, <1>2, <1>6, <1>7
  <2>2. TotalChunks(bytes) = q
    BY <1>1, <1>2, <1>5, <2>1, Quotient
  <2>3. LastChunkSize(bytes) = ChunkSize
    BY <1>7 DEF LastChunkSize, r
  <2>4. (q - 1) * ChunkSize = q * ChunkSize - ChunkSize
    BY <1>1, <1>2, Z3T(30)
  <2>5. q # 0
    BY <1>1, <1>2, <1>7
  <2> QED
    BY <1>1, <1>2, <1>4, <1>6, <1>7, <2>2, <2>3, <2>4, <2>5
<1>8. CASE r # 0
  <2>1. (q + 1) * ChunkSize = q * ChunkSize + ChunkSize
    BY <1>1, <1>2, Z3T(30)
  <2>2. /\ (q + 1) * ChunkSize <= bytes + ChunkSize - 1
        /\ bytes + ChunkSize - 1 < (q + 1) * ChunkSize + ChunkSize
    BY <1>1, <1>2, <1>6, <1>8, <2>1
  <2>3. TotalChunks(bytes) = q + 1
    BY <1>1, <1>2, <1>5, <2>2, Quotient
  <2>4. LastChunkSize(bytes) = r
    BY <1>8 DEF LastChunkSize, r
  <2>5. q + 1 \in Nat \ {0} /\ q + 1 - 1 = q
    BY <1>2, <1>4
  <2>6. r \in 1 .. ChunkSize
    BY <1>1, <1>2, <1>8
  <2> QED
    BY <1>2, <2>3, <2>4, <2>5, <2>6
<1> QED
  BY <1>7, <1>8

\* The wrapped sum is short of a chunk: such a file gets none.
LEMMA WrappedHasNone ==
  ASSUME NEW bytes \in Sizes \ SafeSizes
  PROVE  bytes > SizeLimit - ChunkSize /\ TotalChunks(bytes) = 0
<1> DEFINE over == bytes + ChunkSize - 1 - SizeLimit
<1>1. /\ ChunkSize \in Int /\ ChunkSize > 0 /\ SizeLimit \in Int /\ ChunkSize < SizeLimit
      /\ bytes \in Int /\ bytes >= 0 /\ bytes < SizeLimit /\ bytes + ChunkSize > SizeLimit
  BY LayoutAssumption DEF SafeSizes, Sizes
<1>2. over \in Int /\ 0 <= over /\ over < ChunkSize
  BY <1>1
<1>3. (bytes + ChunkSize - 1) % SizeLimit = over
  <2>1. 1 * SizeLimit = SizeLimit
    BY <1>1
  <2> QED
    BY <1>1, <2>1, Quotient
<1>4. over \div ChunkSize = 0
  <2>1. 0 * ChunkSize = 0
    BY <1>1
  <2> QED
    BY <1>1, <1>2, <2>1, Quotient
<1> QED
  BY <1>1, <1>3, <1>4 DEF TotalChunks

LEMMA TotalIsNat == ASSUME NEW bytes \in Sizes PROVE TotalChunks(bytes) \in Nat
<1>1. CASE bytes \in SafeSizes /\ bytes > 0
  BY <1>1, LastEndsFile
<1>2. CASE bytes = 0
  BY <1>2 DEF TotalChunks
<1>3. CASE bytes \notin SafeSizes
  BY <1>3, WrappedHasNone
<1> QED
  BY <1>1, <1>2, <1>3, LayoutAssumption DEF Sizes

\* The chunks that a size has are those below its number of chunks.
LEMMA ChunksAre ==
  ASSUME NEW bytes \in Sizes
  PROVE  \A i : i \in ChunksOf(bytes) <=> i \in Nat /\ i < TotalChunks(bytes)
  BY TotalIsNat DEF ChunksOf

\* No chunk reaches into the next one, or past the end of the file.
LEMMA ChunkEnds ==
  ASSUME NEW bytes \in SafeSizes, bytes > 0, NEW i \in ChunksOf(bytes)
  PROVE  /\ ChunkOffset(i) \in Nat /\ ChunkLength(bytes, i) \in 1 .. ChunkSize
         /\ ChunkOffset(i) + ChunkLength(bytes, i) <= bytes
<1> DEFINE n == TotalChunks(bytes)
<1>1. /\ n \in Nat \ {0} /\ LastChunkSize(bytes) \in 1 .. ChunkSize
      /\ (n - 1) * ChunkSize + LastChunkSize(bytes) = bytes
  BY LastEndsFile
<1>2. i \in Nat /\ i < n
  BY ChunksAre DEF SafeSizes
<1>3. ChunkSize \in Int /\ ChunkSize > 0 /\ bytes \in Int
  BY LayoutAssumption DEF SafeSizes, Sizes
<1> HIDE DEF n
<1>4. i * ChunkSize \in Nat /\ (n - 1) * ChunkSize \in Int
  BY <1>1, <1>2, <1>3, Z3T(30)
<1>5. CASE i + 1 = n
  <2>1. i = n - 1 /\ ChunkLength(bytes, i) = LastChunkSize(bytes)
    BY <1>1, <1>2, <1>5 DEF ChunkLength, n
  <2> QED
    BY <1>1, <1>3, <1>4, <2>1 DEF ChunkOffset
<1>6. CASE i + 1 # n
  <2>1. ChunkLength(bytes, i) = ChunkSize
    BY <1>6 DEF ChunkLength, n
  <2>2. i * ChunkSize + ChunkSize <= (n - 1) * ChunkSize
    <3>1. i \in Int /\ n - 1 \in Int /\ i < n - 1
      BY <1>1, <1>2, <1>6
    <3> QED
      BY <1>3, <3>1, Times
  <2> QED
    BY <1>1, <1>3, <1>4, <2>1, <2>2 DEF ChunkOffset
<1> QED
  BY <1>5, <1>6

\* The chunk of a byte is the quotient of its position.
LEMMA ByteHasChunk ==
  ASSUME NEW bytes \in SafeSizes, NEW byte \in Sizes, byte < bytes
  PROVE  \E i \in ChunksOf(bytes) :
           Within(bytes, byte, i) /\ \A j \in ChunksOf(bytes) : Within(bytes, byte, j) => j = i
<1> DEFINE n == TotalChunks(bytes)
           i == byte \div ChunkSize
<1>1. /\ ChunkSize \in Int /\ ChunkSize > 0
      /\ bytes \in Int /\ bytes > 0 /\ byte \in Int /\ byte >= 0
  BY LayoutAssumption DEF SafeSizes, Sizes
<1>2. /\ n \in Nat \ {0} /\ LastChunkSize(bytes) \in 1 .. ChunkSize
      /\ (n - 1) * ChunkSize + LastChunkSize(bytes) = bytes
  BY <1>1, LastEndsFile
<1>3. /\ i \in Int /\ i >= 0 /\ i * ChunkSize \in Int
      /\ i * ChunkSize <= byte /\ byte < i * ChunkSize + ChunkSize
  <2>1. byte = i * ChunkSize + (byte % ChunkSize)
        /\ i \in Int /\ byte % ChunkSize \in Int /\ 0 <= byte % ChunkSize /\ byte % ChunkSize < ChunkSize
    BY <1>1, Divided
  <2>2. i >= 0
    BY <1>1
  <2> HIDE DEF i
  <2>3. i * ChunkSize \in Int
    BY <1>1, <2>1
  <2> QED
    BY <1>1, <2>1, <2>2, <2>3
<1>4. ASSUME NEW j \in Nat, j * ChunkSize <= byte, byte < j * ChunkSize + ChunkSize
      PROVE  j = i
  BY <1>1, <1>4, Quotient
<1> HIDE DEF n, i
<1>5. n - 1 \in Int /\ (n - 1) * ChunkSize \in Int
  BY <1>1, <1>2
<1>6. i < n
  <2>1. n - 1 < i => (n - 1) * ChunkSize + ChunkSize <= i * ChunkSize
    BY <1>1, <1>3, <1>5, Times
  <2>2. ~(n - 1 < i)
    BY <1>1, <1>2, <1>3, <1>5, <2>1
  <2> QED
    BY <1>2, <1>3, <2>2
<1>7. i \in ChunksOf(bytes)
  BY <1>3, <1>6, ChunksAre DEF SafeSizes, n
<1>8. Within(bytes, byte, i)
  <2>1. CASE i + 1 = n
    <3>1. i = n - 1 /\ ChunkLength(bytes, i) = LastChunkSize(bytes)
      BY <1>2, <1>3, <2>1 DEF ChunkLength, n
    <3> QED
      BY <1>1, <1>2, <1>3, <1>5, <3>1 DEF Within, ChunkOffset
  <2>2. CASE i + 1 # n
    <3>1. ChunkLength(bytes, i) = ChunkSize
      BY <2>2 DEF ChunkLength, n
    <3> QED
      BY <1>1, <1>3, <3>1 DEF Within, ChunkOffset
  <2> QED
    BY <2>1, <2>2
<1>9. ASSUME NEW j \in ChunksOf(bytes), Within(bytes, byte, j) PROVE j = i
  <2>1. j \in Nat
    BY ChunksAre DEF SafeSizes
  <2>2. ChunkOffset(j) \in Nat /\ ChunkLength(bytes, j) \in 1 .. ChunkSize
    BY <1>1, ChunkEnds
  <2>3. j * ChunkSize <= byte /\ byte < j * ChunkSize + ChunkSize
    BY <1>1, <1>9, <2>2 DEF Within, ChunkOffset
  <2> QED
    BY <1>4, <2>1, <2>3
<1> QED
  BY <1>7, <1>8, <1>9

\* Every byte of a file is in exactly one chunk, and no chunk reaches past its
\* end, for every size but the last ChunkSize - 1 of the type.
THEOREM Layout == LayoutTiles
<1>1. ASSUME NEW bytes \in SafeSizes PROVE Tiles(bytes)
  <2>1. ASSUME NEW i \in ChunksOf(bytes) PROVE ChunkOffset(i) + ChunkLength(bytes, i) <= bytes
    <3>1. bytes > 0
      <4>1. TotalChunks(bytes) # 0
        BY ChunksAre DEF SafeSizes
      <4> QED
        BY <4>1, LayoutAssumption DEF TotalChunks, SafeSizes, Sizes
    <3> QED
      BY <3>1, ChunkEnds
  <2>2. ASSUME NEW byte \in Sizes, byte < bytes
        PROVE  \E i \in ChunksOf(bytes) :
                 /\ ChunkOffset(i) <= byte /\ byte < ChunkOffset(i) + ChunkLength(bytes, i)
                 /\ \A j \in ChunksOf(bytes) :
                      ChunkOffset(j) <= byte /\ byte < ChunkOffset(j) + ChunkLength(bytes, j)
                        => j = i
    BY <2>2, ByteHasChunk DEF Within
  <2> QED
    BY <2>1, <2>2 DEF Tiles
<1>2. ASSUME NEW bytes \in Sizes \ SafeSizes
      PROVE  bytes > SizeLimit - ChunkSize /\ ChunksOf(bytes) = {}
  BY WrappedHasNone, ChunksAre
<1> QED
  BY <1>1, <1>2 DEF LayoutTiles

-----------------------------------------------------------------------------
(* The rate controller. *)

LEMMA LengthBounded ==
  ASSUME NEW bytes \in Nat, NEW i PROVE ChunkLength(bytes, i) \in 0 .. ChunkSize
<1>1. ChunkSize \in Nat \ {0}
  BY LayoutAssumption
<1>2. bytes % ChunkSize \in 0 .. ChunkSize
  BY <1>1
<1> QED
  BY <1>1, <1>2 DEF ChunkLength, LastChunkSize

LEMMA LengthOfChunk ==
  ASSUME TypeOK, NEW s \in Sessions, NEW i PROVE Length(s, i) \in 0 .. ChunkSize /\ Length(s, i) \in Nat
<1>1. size[s] \in Nat /\ ChunkSize \in Nat
  BY LayoutAssumption DEF TypeOK
<1>2. Length(s, i) \in 0 .. ChunkSize
  BY <1>1, LengthBounded DEF Length
<1> QED
  BY <1>1, <1>2

LEMMA CappedBounded ==
  ASSUME NEW amount \in Nat, NEW limit \in Nat
  PROVE  Capped(amount, limit) \in 0 .. limit
  BY DEF Capped

\* acquire, either way: only what it grants leaves a bucket, and it enters the queue.
LEMMA Granting ==
  ASSUME RateTypeOK, NEW s \in Sessions, NEW bytes \in Nat, Grant(s, bytes)
  PROVE  /\ RateTypeOK'
         /\ globalTokens' = globalTokens - bytes /\ pending' = pending + bytes
         /\ tokens'[s] = tokens[s] - bytes
         /\ \A t \in Sessions \ {s} : tokens'[t] = tokens[t]
<1>1. /\ tokens[s] \in 0 .. SessionLimit /\ bytes <= tokens[s] /\ SessionLimit \in Nat
      /\ globalTokens \in 0 .. GlobalLimit /\ bytes <= globalTokens /\ GlobalLimit \in Nat
      /\ pending \in Nat
  BY LimitsAssumption DEF RateTypeOK, Grant
<1>2. /\ tokens[s] - bytes \in 0 .. SessionLimit /\ globalTokens - bytes \in 0 .. GlobalLimit
      /\ pending + bytes \in Nat
  BY <1>1
<1> QED
  BY <1>2 DEF RateTypeOK, Grant

LEMMA Refusing ==
  ASSUME RateTypeOK, NEW s \in Sessions, NEW bytes \in Nat, Refuse(s, bytes)
  PROVE  RateTypeOK' /\ UNCHANGED <<tokens, globalTokens, pending>>
<1>1. UNCHANGED <<globalTokens, pending>> /\ engaged' \in BOOLEAN
  BY DEF Refuse, RefuseQueue, RefuseSession, RefuseGlobal
<1>2. UNCHANGED tokens
  <2>1. CASE RefuseGlobal(s, bytes)
    <3>1. tokens[s] \in 0 .. SessionLimit /\ bytes <= tokens[s] /\ SessionLimit \in Nat
      BY <2>1, LimitsAssumption DEF RateTypeOK, RefuseGlobal
    <3>2. Refunded(tokens[s] - bytes, bytes) = tokens[s]
      BY <3>1 DEF Refunded, Capped
    <3> QED
      BY <2>1, <3>2 DEF RefuseGlobal, RateTypeOK
  <2> QED
    BY <2>1 DEF Refuse, RefuseQueue, RefuseSession
<1> QED
  BY <1>1, <1>2 DEF RateTypeOK

LEMMA Reporting ==
  ASSUME RateTypeOK, NEW bytes \in Nat, report_transferred(bytes)
  PROVE  /\ RateTypeOK' /\ pending' <= pending
         /\ UNCHANGED <<tokens, globalTokens, engaged>>
<1>1. pending \in Nat
  BY DEF RateTypeOK
<1>2. pending' \in Nat /\ pending' <= pending
  BY <1>1 DEF report_transferred, Reported
<1> QED
  BY <1>2 DEF RateTypeOK, report_transferred

LEMMA Refilling ==
  ASSUME RateTypeOK, Refill
  PROVE  /\ RateTypeOK' /\ UNCHANGED <<pending, engaged>>
         /\ \A s \in Sessions : tokens'[s] >= tokens[s]
<1>1. /\ SessionLimit \in Nat /\ SessionRefill \in Nat
      /\ GlobalLimit \in Nat /\ GlobalRefill \in Nat /\ globalTokens \in 0 .. GlobalLimit
  BY LimitsAssumption DEF RateTypeOK
<1>2. ASSUME NEW s \in Sessions
      PROVE  tokens'[s] \in 0 .. SessionLimit /\ tokens'[s] >= tokens[s]
  <2>1. tokens[s] \in 0 .. SessionLimit
    BY DEF RateTypeOK
  <2>2. tokens'[s] = Capped(tokens[s] + SessionRefill, SessionLimit)
    BY DEF Refill
  <2> QED
    BY <1>1, <2>1, <2>2 DEF Capped
<1>3. globalTokens' \in 0 .. GlobalLimit
  <2>1. globalTokens + GlobalRefill \in Nat
    BY <1>1
  <2> QED
    BY <1>1, <2>1, CappedBounded DEF Refill
<1> QED
  BY <1>2, <1>3 DEF RateTypeOK, Refill

-----------------------------------------------------------------------------
(* Types. *)

SpentOK ==
    /\ spent \in [DOMAIN Bounds -> Nat]
    /\ \A what \in DOMAIN Bounds : spent[what] <= Bounds[what]

LEMMA Spending == ASSUME SpentOK, NEW kinds, Spend(kinds) PROVE SpentOK'
<1>1. ASSUME NEW what \in DOMAIN Bounds
      PROVE  spent'[what] \in Nat /\ spent'[what] <= Bounds[what]
  <2>1. spent[what] \in Nat /\ spent[what] <= Bounds[what] /\ Bounds[what] \in Nat
    BY ManagerAssumption DEF SpentOK
  <2>2. CASE what \in kinds
    BY <2>1, <2>2 DEF Spend
  <2>3. CASE what \notin kinds
    BY <2>1, <2>3 DEF Spend
  <2> QED
    BY <2>2, <2>3
<1> QED
  BY <1>1 DEF SpentOK, Spend

LEMMA FileOfSession ==
  ASSUME NEW s \in Sessions
  PROVE  FileOf[s] \in Files /\ FileSize[FileOf[s]] \in SafeSizes /\ FileSize[FileOf[s]] \in Nat
  BY ManagerAssumption DEF SafeSizes, Sizes

LEMMA IndexOfSession ==
  ASSUME NEW s \in Sessions
  PROVE  Indices(FileOf[s]) \subseteq AllIndices /\ Right(FileOf[s]) \subseteq AllIndices
  BY FileOfSession DEF AllIndices, Indices, Right, ChunksOf

LEMMA DiskSizeIsNat == ASSUME NEW s \in Sessions PROVE DiskSize(FileOf[s]) \in Nat
<1>1. FileSize[FileOf[s]] \in Nat /\ TotalChunks(FileSize[FileOf[s]]) \in Nat /\ ChunkSize \in Nat
  BY FileOfSession, TotalIsNat, LayoutAssumption DEF SafeSizes
<1>2. ChunkOffset(TotalChunks(FileSize[FileOf[s]])) + ChunkSize \in Nat
  BY <1>1 DEF ChunkOffset
<1> QED
  BY <1>1, <1>2 DEF DiskSize

LEMMA IdleAt == Idle.at = "idle"
  BY DEF Idle

LEMMA OnItsWay ==
  ASSUME TypeOK, NEW c \in Callers, call[c] # Idle
  PROVE  call[c] \in Calls
  BY DEF TypeOK

LEMMA FreshIsProgress == Fresh \in Progress
  BY DEF Fresh, Progress

LEMMA InitTypes == Init => TypeOK
<1> SUFFICES ASSUME Init PROVE TypeOK
  OBVIOUS
<1>1. RateTypeOK
  <2>1. SessionLimit \in 0 .. SessionLimit /\ GlobalLimit \in 0 .. GlobalLimit
    BY LimitsAssumption
  <2> QED
    BY <2>1 DEF Init, RateInit, RateTypeOK
<1>2. SpentOK
  BY ManagerAssumption DEF Init, SpentOK
<1> QED
  BY <1>1, <1>2, FreshIsProgress DEF Init, TypeOK, SpentOK

\* What the steps of a call do to the call.
LEMMA BeginningChunk ==
  ASSUME TypeOK, NEW c \in Callers, NEW op \in Receiving \cup {"send_chunk"}, NEW s \in Sessions,
         NEW i \in Indices(FileOf[s]), NEW sound \in BOOLEAN, NEW stage \in Stages,
         BeginChunk(c, op, s, i, sound, stage)
  PROVE  call' \in [Callers -> Calls \cup {Idle}]
<1>1. [op |-> op, session |-> s, index |-> i, sound |-> sound,
       left |-> {}, odd |-> {}, at |-> stage] \in Calls
  BY IndexOfSession DEF Calls
<1> QED
  BY <1>1 DEF BeginChunk, TypeOK

LEMMA BeginningRead ==
  ASSUME TypeOK, NEW c \in Callers, NEW op \in Reading, NEW s \in Sessions,
         NEW left \in SUBSET AllIndices, NEW odd \in SUBSET AllIndices,
         BeginRead(c, op, s, left, odd)
  PROVE  call' \in [Callers -> Calls \cup {Idle}]
<1>1. 0 \in AllIndices
  <2>1. TotalChunks(FileSize[FileOf[s]]) \in Nat
    BY FileOfSession, TotalIsNat DEF SafeSizes
  <2>2. 0 \in Indices(FileOf[s])
    BY <2>1 DEF Indices
  <2> QED
    BY <2>2, IndexOfSession
<1>2. [op |-> op, session |-> s, index |-> 0, sound |-> TRUE,
       left |-> left, odd |-> odd, at |-> "read"] \in Calls
  BY <1>1 DEF Calls, Stages
<1> QED
  BY <1>2 DEF BeginRead, TypeOK

LEMMA Going ==
  ASSUME TypeOK, NEW c \in Callers, call[c] # Idle, NEW stage \in Stages, GoTo(c, stage)
  PROVE  call' \in [Callers -> Calls \cup {Idle}]
<1>1. [call[c] EXCEPT !.at = stage] \in Calls
  BY OnItsWay DEF Calls
<1> QED
  BY <1>1 DEF GoTo, TypeOK

LEMMA Returning ==
  ASSUME TypeOK, NEW c \in Callers, Return(c)
  PROVE  call' \in [Callers -> Calls \cup {Idle}]
  BY DEF Return, TypeOK

LEMMA Failing ==
  ASSUME TypeOK, NEW c \in Callers, call[c] # Idle, Fail(c)
  PROVE  call' \in [Callers -> Calls \cup {Idle}]
  BY Going, Returning DEF Fail, Stages

LEMMA InitiateTypes ==
  ASSUME TypeOK, NEW s \in Sessions, initiate_upload(s) \/ initiate_download(s) \/ insert_session(s)
  PROVE  TypeOK'
<1>1. FileOf[s] \in Files /\ FileSize[FileOf[s]] \in Nat /\ DiskSize(FileOf[s]) \in Nat
  BY FileOfSession, DiskSizeIsNat
<1>2. SpentOK
  BY DEF TypeOK, SpentOK
<1>3. RateTypeOK /\ SpentOK'
  <2>1. spent' = spent \/ Spend({"failure"})
    BY DEF initiate_upload, initiate_download, insert_session
  <2> QED
    BY <1>2, <2>1, Spending DEF SpentOK, TypeOK
<1>4. CASE initiate_upload(s)
  BY <1>1, <1>3, <1>4 DEF initiate_upload, TypeOK, SpentOK, RateTypeOK, rateVars
<1>5. CASE initiate_download(s)
  BY <1>1, <1>3, <1>5 DEF initiate_download, TypeOK, SpentOK, RateTypeOK, rateVars
<1>6. CASE insert_session(s)
  <2>1. PICK copy \in Copies(s) : progress' = [progress EXCEPT ![s] = copy]
    BY <1>6 DEF insert_session
  <2>2. copy \in Progress
    BY FreshIsProgress DEF Copies, Progress, TypeOK
  <2> QED
    BY <1>3, <1>6, <2>1, <2>2 DEF insert_session, TypeOK, SpentOK, RateTypeOK, rateVars
<1> QED
  BY <1>4, <1>5, <1>6

LEMMA CallTypes ==
  ASSUME TypeOK, NEW c \in Callers, Call(c)
  PROVE  TypeOK'
<1>1. SpentOK
  BY DEF TypeOK, SpentOK
<1>2. CASE CallReceive(c)
  <2>1. PICK op \in Receiving, s \in Sessions, sound \in BOOLEAN : \E i \in Indices(FileOf[s]) :
          /\ Spend(IF sound THEN {"call"} ELSE {"call", "failure"})
          /\ BeginChunk(c, op, s, i, sound, "acquire")
    BY <1>2 DEF CallReceive
  <2>2. call' \in [Callers -> Calls \cup {Idle}] /\ SpentOK'
    BY <1>1, <2>1, BeginningChunk, Spending DEF Stages
  <2> QED
    BY <1>2, <2>2 DEF CallReceive, TypeOK, SpentOK, sessionVars, RateTypeOK, rateVars
<1>3. CASE CallSend(c)
  <2>1. PICK s \in Sessions : \E i \in Indices(FileOf[s]) :
         \/ /\ Grant(s, Length(s, i))
            /\ BeginChunk(c, "send_chunk", s, i, TRUE, "read")
            /\ Spend(IF i \in ChunksOf(size[s]) THEN {"call"} ELSE {"call", "failure"})
         \/ Refuse(s, Length(s, i)) /\ UNCHANGED <<call, spent>>
    BY <1>3 DEF CallSend
  <2>2. RateTypeOK'
    BY <2>1, Granting, Refusing, LengthOfChunk DEF TypeOK
  <2>3. SpentOK'
    BY <1>1, <2>1, Spending DEF SpentOK
  <2>4. call' \in [Callers -> Calls \cup {Idle}]
    BY <2>1, BeginningChunk DEF TypeOK, Stages
  <2> QED
    BY <1>3, <2>2, <2>3, <2>4 DEF CallSend, TypeOK, SpentOK, sessionVars
<1>4. CASE CallFinalize(c)
  <2>1. PICK s \in Sessions : BeginRead(c, "finalize_upload", s, ToRead(s), {})
    BY <1>4 DEF CallFinalize
  <2>2. ToRead(s) \in SUBSET AllIndices
    BY IndexOfSession DEF ToRead
  <2>3. call' \in [Callers -> Calls \cup {Idle}] /\ SpentOK'
    BY <1>1, <1>4, <2>1, <2>2, BeginningRead, Spending DEF CallFinalize, Reading
  <2> QED
    BY <1>4, <2>3 DEF CallFinalize, TypeOK, SpentOK, sessionVars, RateTypeOK, rateVars
<1>5. CASE CallResume(c)
  <2>1. PICK s \in Sessions :
          BeginRead(c, "resume_transfer", s, progress[s].completed, progress[s].spoiled)
    BY <1>5 DEF CallResume
  <2>2. progress[s].completed \in SUBSET AllIndices /\ progress[s].spoiled \in SUBSET AllIndices
    BY DEF TypeOK, Progress
  <2>3. call' \in [Callers -> Calls \cup {Idle}] /\ SpentOK'
    BY <1>1, <1>5, <2>1, <2>2, BeginningRead, Spending DEF CallResume, Reading
  <2> QED
    BY <1>5, <2>3 DEF CallResume, TypeOK, SpentOK, sessionVars, RateTypeOK, rateVars
<1> QED
  BY <1>2, <1>3, <1>4, <1>5 DEF Call

\* A chunk enters a session, with its hash.
LEMMA Entering ==
  ASSUME TypeOK, NEW s \in Sessions, NEW i \in AllIndices, NEW spoiled \in SUBSET AllIndices,
         progress' = [progress EXCEPT ![s].completed = @ \cup {i}, ![s].spoiled = spoiled]
  PROVE  /\ progress' \in [Sessions -> Progress]
         /\ progress'[s].completed = progress[s].completed \cup {i}
         /\ progress'[s].spoiled = spoiled
         /\ progress'[s].retries = progress[s].retries
         /\ \A t \in Sessions \ {s} : progress'[t] = progress[t]
<1>1. /\ progress'[s].completed = progress[s].completed \cup {i}
      /\ progress'[s].spoiled = spoiled
      /\ progress'[s].retries = progress[s].retries
      /\ progress'[s] \in Progress
  BY DEF TypeOK, Progress
<1>2. DOMAIN progress' = Sessions /\ \A t \in Sessions \ {s} : progress'[t] = progress[t]
  BY DEF TypeOK
<1>3. progress' = [t \in Sessions |-> progress'[t]]
  BY <1>2 DEF TypeOK
<1>4. \A t \in Sessions : progress'[t] \in Progress
  BY <1>1, <1>2 DEF TypeOK
<1> QED
  BY <1>1, <1>2, <1>3, <1>4

LEMMA Recording ==
  ASSUME TypeOK, NEW c \in Callers, Record(c)
  PROVE  LET s == call[c].session  i == call[c].index
         IN  /\ s \in Sessions /\ i \in AllIndices
             /\ progress' \in [Sessions -> Progress]
             /\ progress'[s].completed = progress[s].completed \cup {i}
             /\ progress'[s].spoiled = IF call[c].sound THEN progress[s].spoiled \ {i}
                                       ELSE progress[s].spoiled \cup {i}
             /\ progress'[s].retries = progress[s].retries
             /\ \A t \in Sessions \ {s} : progress'[t] = progress[t]
<1> DEFINE s == call[c].session
           i == call[c].index
           spoiled == IF call[c].sound THEN progress[s].spoiled \ {i}
                      ELSE progress[s].spoiled \cup {i}
<1>1. s \in Sessions /\ i \in AllIndices
  BY OnItsWay, IdleAt DEF Record, Calls
<1>2. spoiled \in SUBSET AllIndices
  BY <1>1 DEF TypeOK, Progress
<1>3. progress' = [progress EXCEPT ![s].completed = @ \cup {i}, ![s].spoiled = spoiled]
  BY <1>1 DEF Record, TypeOK, Progress
<1> HIDE DEF spoiled
<1>4. /\ progress' \in [Sessions -> Progress]
      /\ progress'[s].completed = progress[s].completed \cup {i}
      /\ progress'[s].spoiled = spoiled
      /\ progress'[s].retries = progress[s].retries
      /\ \A t \in Sessions \ {s} : progress'[t] = progress[t]
  BY <1>1, <1>2, <1>3, Entering
<1> QED
  BY <1>1, <1>4 DEF spoiled

LEMMA RunTypes ==
  ASSUME TypeOK, NEW c \in Callers, Run(c)
  PROVE  TypeOK'
<1> DEFINE s == call[c].session
           i == call[c].index
<1>1. call[c] # Idle
  BY IdleAt DEF Run, receive_chunk, send_chunk, finalize_upload, resume_transfer, Acquire, Check, TakePermit,
         Write, WriteFails, Record, CountFailure, SendRead, ReadBack, Finalize, Resume, Receiving
<1>2. call[c] \in Calls /\ s \in Sessions /\ i \in AllIndices
  BY <1>1, OnItsWay DEF Calls
<1>3. SpentOK
  BY DEF TypeOK, SpentOK
<1>11. CASE Acquire(c)
  <2>1. call' \in [Callers -> Calls \cup {Idle}]
    BY <1>1, <1>11, Going, Failing DEF Acquire, Stages
  <2>2. RateTypeOK'
    BY <1>2, <1>11, Granting, Refusing, LengthOfChunk DEF Acquire, TypeOK
  <2> QED
    BY <1>11, <2>1, <2>2 DEF Acquire, TypeOK, sessionVars
<1>4. CASE Check(c) \/ TakePermit(c)
  <2>1. call' \in [Callers -> Calls \cup {Idle}]
    BY <1>1, <1>4, Going, Failing DEF Check, TakePermit, Stages
  <2> QED
    BY <1>4, <2>1 DEF Check, TakePermit, TypeOK, sessionVars, RateTypeOK, rateVars
<1>5. CASE Write(c)
  <2>1. RateTypeOK'
    BY <1>2, <1>5, Reporting, LengthOfChunk DEF Write, TypeOK
  <2>2. call' \in [Callers -> Calls \cup {Idle}]
    BY <1>1, <1>5, Going DEF Write, Stages
  <2>3. stored' \in [Files -> SUBSET AllIndices]
    BY <1>2, <1>5, FileOfSession DEF Write, TypeOK
  <2> QED
    BY <1>5, <2>1, <2>2, <2>3 DEF Write, TypeOK, sessionVars
<1>6. CASE WriteFails(c)
  <2>1. call' \in [Callers -> Calls \cup {Idle}] /\ SpentOK'
    BY <1>1, <1>3, <1>6, Failing, Spending DEF WriteFails
  <2> QED
    BY <1>6, <2>1 DEF WriteFails, TypeOK, SpentOK, sessionVars, RateTypeOK, rateVars
<1>7. CASE Record(c) \/ CountFailure(c)
  <2>1. call' \in [Callers -> Calls \cup {Idle}]
    BY <1>7, Returning DEF Record, CountFailure
  <2>2. progress[s] \in Progress /\ progress[s].retries \in [AllIndices -> Nat]
    BY <1>2 DEF TypeOK, Progress
  <2>3. progress' \in [Sessions -> Progress]
    <3>1. CASE Record(c)
      BY <3>1, Recording
    <3>2. CASE CountFailure(c)
      <4>1. progress[s].retries[i] + 1 \in Nat
        BY <1>2, <2>2
      <4> QED
        BY <1>2, <2>2, <3>2, <4>1 DEF CountFailure, TypeOK, Progress
    <3> QED
      BY <1>7, <3>1, <3>2
  <2> QED
    BY <1>7, <2>1, <2>3 DEF Record, CountFailure, TypeOK, RateTypeOK, rateVars
<1>8. CASE SendRead(c)
  <2>1. RateTypeOK'
    BY <1>2, <1>8, Reporting, LengthOfChunk DEF SendRead, TypeOK, RateTypeOK, rateVars
  <2>2. call' \in [Callers -> Calls \cup {Idle}]
    <3> DEFINE ok == i \in stored[FileOf[s]]
    <3>1. ok \in BOOLEAN
      OBVIOUS
    <3> HIDE DEF ok
    <3>2. [call[c] EXCEPT !.at = "record", !.sound = ok] \in Calls
      BY <1>2, <3>1 DEF Calls, Stages
    <3>3. [call[c] EXCEPT !.at = "record", !.sound = i \in stored[FileOf[s]]] \in Calls
      BY <3>2, Zenon DEF ok
    <3> QED
      BY <1>8, <3>3, Returning DEF SendRead, TypeOK
  <2> QED
    BY <1>8, <2>1, <2>2 DEF SendRead, TypeOK, sessionVars
<1>9. CASE ReadBack(c)
  <2>1. call' \in [Callers -> Calls \cup {Idle}]
    <3>1. ASSUME NEW j PROVE [call[c] EXCEPT !.left = @ \ {j}] \in Calls
      <4>1. call[c].left \ {j} \in SUBSET AllIndices
        BY <1>2 DEF Calls
      <4> QED
        BY <1>2, <4>1 DEF Calls
    <3>2. ASSUME NEW j, call' = [call EXCEPT ![c].left = @ \ {j}]
          PROVE  call' \in [Callers -> Calls \cup {Idle}]
      BY <3>1, <3>2 DEF TypeOK
    <3>3. Return(c) \/ \E j \in call[c].left : call' = [call EXCEPT ![c].left = @ \ {j}]
      BY <1>9 DEF ReadBack
    <3> QED
      BY <3>2, <3>3, Returning
  <2> QED
    BY <1>9, <2>1 DEF ReadBack, TypeOK, sessionVars, RateTypeOK, rateVars
<1>10. CASE Finalize(c) \/ Resume(c)
  <2>1. call' \in [Callers -> Calls \cup {Idle}]
    BY <1>10, Returning DEF Finalize, Resume
  <2> QED
    BY <1>2, <1>10, <2>1 DEF Finalize, Resume, TypeOK, RateTypeOK, rateVars
<1> QED
  BY <1>4, <1>5, <1>6, <1>7, <1>8, <1>9, <1>10, <1>11
     DEF Run, receive_chunk, send_chunk, finalize_upload, resume_transfer

LEMMA CrashTypes == ASSUME TypeOK, Crash PROVE TypeOK'
<1>1. SpentOK'
  BY Spending DEF Crash, TypeOK, SpentOK
<1>2. RateTypeOK'
  <2>1. SessionLimit \in 0 .. SessionLimit /\ GlobalLimit \in 0 .. GlobalLimit
    BY LimitsAssumption
  <2> QED
    BY <2>1 DEF Crash, RateTypeOK
<1> QED
  BY <1>1, <1>2 DEF Crash, TypeOK, SpentOK

\* Every step of the system is of one of these kinds.
LEMMA StepKinds ==
  [Next]_vars =>
    \/ \E c \in Callers : Call(c) \/ Run(c)
    \/ \E s \in Sessions : initiate_upload(s) \/ initiate_download(s) \/ insert_session(s)
    \/ Tick \/ Crash \/ UNCHANGED vars
  BY DEF Next

LEMMA StepTypes == TypeOK /\ [Next]_vars => TypeOK'
<1> SUFFICES ASSUME TypeOK, [Next]_vars PROVE TypeOK'
  OBVIOUS
<1>1. CASE Tick
  BY <1>1, Refilling DEF Tick, TypeOK, sessionVars
<1>2. CASE UNCHANGED vars
  BY <1>2 DEF vars, sessionVars, rateVars, TypeOK, RateTypeOK
<1> QED
  BY <1>1, <1>2, CallTypes, RunTypes, InitiateTypes, CrashTypes, StepKinds

\* Every variable keeps its type, and no bucket holds more than it may.
THEOREM TypeCorrect == Spec => []TypeOK
  BY InitTypes, StepTypes, PTL DEF Spec

-----------------------------------------------------------------------------
(* The budget. *)

\* All that a step may do to the rate controller.
RateStep ==
    \/ \E s \in Sessions : \E bytes \in 0 .. ChunkSize : Grant(s, bytes)
    \/ pending' <= pending /\ \A s \in Sessions : tokens'[s] >= tokens[s]

LEMMA StepRates == TypeOK /\ [Next]_vars => RateStep
<1> SUFFICES ASSUME TypeOK, [Next]_vars PROVE RateStep
  OBVIOUS
<1>1. pending \in Nat /\ \A s \in Sessions : tokens[s] \in 0 .. SessionLimit
  BY DEF TypeOK, RateTypeOK
<1>2. CASE UNCHANGED <<tokens, pending>>
  BY <1>1, <1>2, LimitsAssumption DEF RateStep
<1>3. ASSUME NEW c \in Callers, Acquire(c) \/ CallSend(c) PROVE RateStep
  <2>0. Acquire(c) => call[c].session \in Sessions
    BY OnItsWay, IdleAt DEF Acquire, Calls
  <2>1. PICK s \in Sessions : \E i : Grant(s, Length(s, i)) \/ Refuse(s, Length(s, i))
    BY <1>3, <2>0 DEF Acquire, CallSend
  <2>5. PICK i : Grant(s, Length(s, i)) \/ Refuse(s, Length(s, i))
    BY <2>1
  <2>2. Length(s, i) \in 0 .. ChunkSize /\ Length(s, i) \in Nat
    BY LengthOfChunk
  <2>3. CASE Grant(s, Length(s, i))
    BY <2>2, <2>3 DEF RateStep
  <2>4. CASE Refuse(s, Length(s, i))
    BY <1>2, <2>2, <2>4, Refusing DEF TypeOK
  <2> QED
    BY <2>5, <2>3, <2>4
<1>4. ASSUME NEW c \in Callers, Write(c) \/ SendRead(c) PROVE RateStep
  <2>1. call[c].session \in Sessions
    BY <1>4, OnItsWay, IdleAt DEF Write, SendRead, Calls
  <2>2. \/ \E bytes \in Nat : report_transferred(bytes)
        \/ UNCHANGED rateVars
    BY <1>4, <2>1, LengthOfChunk DEF Write, SendRead
  <2>3. CASE UNCHANGED rateVars
    BY <1>2, <2>3 DEF rateVars
  <2>4. ASSUME NEW bytes \in Nat, report_transferred(bytes) PROVE RateStep
    <3>1. pending' <= pending /\ UNCHANGED tokens
      BY <2>4, Reporting DEF TypeOK
    <3> QED
      BY <1>1, <3>1, LimitsAssumption DEF RateStep
  <2> QED
    BY <2>2, <2>3, <2>4
<1>5. CASE Tick
  <2>1. UNCHANGED pending /\ \A s \in Sessions : tokens'[s] >= tokens[s]
    BY <1>5, Refilling DEF Tick, TypeOK
  <2> QED
    BY <1>1, <2>1 DEF RateStep
<1>6. CASE Crash
  BY <1>1, <1>6, LimitsAssumption DEF Crash, RateStep
<1>7. ASSUME NEW c \in Callers, CallReceive(c) \/ CallFinalize(c) \/ CallResume(c) \/ Run(c),
             ~Acquire(c), ~Write(c), ~SendRead(c)
      PROVE  RateStep
  <2>1. UNCHANGED rateVars
    BY <1>7 DEF CallReceive, CallFinalize, CallResume, Run, receive_chunk, send_chunk, finalize_upload,
           resume_transfer, Check, TakePermit, WriteFails, Record, CountFailure, ReadBack,
           Finalize, Resume
  <2> QED
    BY <1>2, <2>1 DEF rateVars
<1>8. ASSUME NEW s \in Sessions, initiate_upload(s) \/ initiate_download(s) \/ insert_session(s)
      PROVE  RateStep
  BY <1>2, <1>8 DEF initiate_upload, initiate_download, insert_session, rateVars
<1>9. CASE UNCHANGED vars
  BY <1>2, <1>9 DEF vars, rateVars
<1> QED
  BY <1>3, <1>4, <1>5, <1>6, <1>7, <1>8, <1>9, StepKinds DEF Call

\* Backpressure bounds the queue by the high mark and one more chunk, if the
\* marks are in order, which no constructor checks.
THEOREM QueueBounded ==
  ASSUME LowWater <= HighWater
  PROVE  Spec => []QueueIsBounded
<1>1. Init => QueueIsBounded
  BY LimitsAssumption, LayoutAssumption DEF Init, RateInit, QueueIsBounded
<1>2. TypeOK /\ QueueIsBounded /\ [Next]_vars => QueueIsBounded'
  <2> SUFFICES ASSUME TypeOK, QueueIsBounded, RateStep, TypeOK' PROVE QueueIsBounded'
    BY StepRates, StepTypes
  <2>1. /\ pending \in Nat /\ HighWater \in Nat /\ LowWater \in Nat /\ LowWater <= HighWater
        /\ ChunkSize \in Nat /\ pending <= HighWater + ChunkSize
    BY LimitsAssumption, LayoutAssumption DEF TypeOK, RateTypeOK, QueueIsBounded
  <2>2. ASSUME NEW s \in Sessions, NEW bytes \in 0 .. ChunkSize, Grant(s, bytes)
        PROVE  QueueIsBounded'
    <3>1. pending' = pending + bytes /\ ~Throttled
      BY <2>2 DEF Grant
    <3>2. pending <= HighWater
      BY <2>1, <3>1 DEF Throttled
    <3> QED
      BY <2>1, <3>1, <3>2 DEF QueueIsBounded
  <2>3. CASE pending' <= pending /\ \A s \in Sessions : tokens'[s] >= tokens[s]
    <3>1. pending' \in Nat
      BY DEF TypeOK, RateTypeOK
    <3> QED
      BY <2>1, <2>3, <3>1 DEF QueueIsBounded
  <2> QED
    BY <2>2, <2>3 DEF RateStep
<1> QED
  BY <1>1, <1>2, InitTypes, StepTypes, PTL DEF Spec

\* Whatever leaves a bucket enters the queue, and leaves both buckets.
THEOREM SpentQueued == Spec => SpentIsQueued
<1> DEFINE Queued == \A s \in Sessions :
             tokens'[s] < tokens[s] =>
                 /\ tokens[s] - tokens'[s] = pending' - pending
                 /\ globalTokens - globalTokens' = pending' - pending
<1>1. TypeOK /\ [Next]_vars => [Queued]_vars
  <2> SUFFICES ASSUME TypeOK, RateStep, NEW s \in Sessions, TypeOK', tokens'[s] < tokens[s]
               PROVE  /\ tokens[s] - tokens'[s] = pending' - pending
                      /\ globalTokens - globalTokens' = pending' - pending
    BY StepRates, StepTypes
  <2>1. /\ tokens[s] \in Nat /\ tokens'[s] \in Nat
        /\ pending \in Nat /\ pending' \in Nat /\ globalTokens \in Nat
    BY LimitsAssumption DEF TypeOK, RateTypeOK
  <2>2. PICK t \in Sessions, bytes \in 0 .. ChunkSize : Grant(t, bytes)
    <3>1. ~(tokens'[s] >= tokens[s])
      BY <2>1
    <3> QED
      BY <3>1 DEF RateStep
  <2>3. bytes \in Nat
    BY LayoutAssumption
  <2>4. /\ globalTokens' = globalTokens - bytes /\ pending' = pending + bytes
        /\ tokens'[t] = tokens[t] - bytes
        /\ \A u \in Sessions \ {t} : tokens'[u] = tokens[u]
    BY <2>2, <2>3, Granting DEF TypeOK
  <2>5. s = t
    BY <2>1, <2>4
  <2> QED
    BY <2>1, <2>3, <2>4, <2>5
<1> QED
  BY <1>1, InitTypes, StepTypes, PTL DEF Spec, SpentIsQueued

-----------------------------------------------------------------------------
(* What a step does to the calls. *)

OthersSame(c) == \A d \in Callers \ {c} : call'[d] = call[d]

\* The call is at another stage, of the same chunk of the same session.
SameChunk(c) ==
    /\ call'[c] # Idle
    /\ call'[c].op = call[c].op
    /\ call'[c].session = call[c].session
    /\ call'[c].index = call[c].index

Moved(c, stage) ==
    /\ SameChunk(c)
    /\ call'[c].at = stage
    /\ call'[c].sound = call[c].sound
    /\ call'[c].left = call[c].left
    /\ call'[c].odd = call[c].odd

LEMMA GoneTo ==
  ASSUME TypeOK, NEW c \in Callers, call[c] # Idle, NEW stage \in Stages, GoTo(c, stage)
  PROVE  Moved(c, stage) /\ OthersSame(c)
<1>1. call[c] \in Calls
  BY OnItsWay
<1>2. call' = [call EXCEPT ![c].at = stage]
  BY DEF GoTo
<1>3. OthersSame(c)
  BY <1>2 DEF OthersSame, TypeOK
<1>4. call'[c] = [call[c] EXCEPT !.at = stage]
  BY <1>2 DEF TypeOK
<1>5. call'[c].at = stage /\ stage # "idle"
  BY <1>1, <1>4 DEF Calls, Stages
<1>6. call'[c] # Idle
  BY <1>5, IdleAt
<1> QED
  BY <1>1, <1>3, <1>4, <1>5, <1>6 DEF Moved, SameChunk, Calls

LEMMA Returned ==
  ASSUME TypeOK, NEW c \in Callers, Return(c)
  PROVE  call'[c] = Idle /\ OthersSame(c)
  BY DEF Return, OthersSame, TypeOK

LEMMA Failed ==
  ASSUME TypeOK, NEW c \in Callers, call[c] # Idle, Fail(c)
  PROVE  /\ OthersSame(c)
         /\ \/ call'[c] = Idle
            \/ call[c].op = "receive_chunk_with_retry" /\ Moved(c, "failed")
  BY GoneTo, Returned DEF Fail, Stages

\* What send_chunk read, and what finalize_upload or resume_transfer did.
Sent(c) ==
    /\ call[c].at = "read" /\ call[c].op = "send_chunk"
    /\ SameChunk(c)
    /\ call'[c].at = "record"
    /\ call[c].index \in stored[FileOf[call[c].session]] => call'[c].sound

ReadOne(c) ==
    /\ call[c].at = "read" /\ call[c].op \in Reading
    /\ SameChunk(c)
    /\ call'[c].at = "read" /\ call'[c].odd = call[c].odd
    /\ \E j \in call[c].left : MayMatch(c, j) /\ call'[c].left = call[c].left \ {j}

LEMMA Sending ==
  ASSUME TypeOK, NEW c \in Callers, SendRead(c)
  PROVE  OthersSame(c) /\ (call'[c] = Idle \/ Sent(c))
<1>1. call[c] \in Calls
  BY OnItsWay, IdleAt DEF SendRead
<1> DEFINE ok == call[c].index \in stored[FileOf[call[c].session]]
<1>2. CASE Return(c)
  BY <1>2, Returned
<1>3. CASE call' = [call EXCEPT ![c].at = "record", ![c].sound = ok]
  <2>1. ok \in BOOLEAN
    OBVIOUS
  <2> HIDE DEF ok
  <2>2. OthersSame(c)
    BY <1>3 DEF OthersSame, TypeOK
  <2>3. /\ call'[c].at = "record" /\ call'[c].sound = ok
        /\ call'[c].op = call[c].op /\ call'[c].session = call[c].session
        /\ call'[c].index = call[c].index
    BY <1>1, <1>3, <2>1 DEF Calls, TypeOK
  <2>4. call'[c] # Idle
    BY <2>3, IdleAt
  <2>5. ok => call'[c].sound
    BY <2>3
  <2>6. call[c].at = "read" /\ call[c].op = "send_chunk"
    BY DEF SendRead
  <2> QED
    BY <2>2, <2>3, <2>4, <2>5, <2>6 DEF Sent, SameChunk, ok
<1> QED
  BY <1>2, <1>3 DEF SendRead

LEMMA ReadingBack ==
  ASSUME TypeOK, NEW c \in Callers, ReadBack(c)
  PROVE  OthersSame(c) /\ (call'[c] = Idle \/ ReadOne(c))
<1>1. call[c] \in Calls /\ call[c].at = "read" /\ call[c].op \in Reading
  BY OnItsWay, IdleAt DEF ReadBack
<1>2. CASE Return(c)
  BY <1>2, Returned
<1>3. ASSUME NEW j \in call[c].left, MayMatch(c, j), call' = [call EXCEPT ![c].left = @ \ {j}]
      PROVE  OthersSame(c) /\ ReadOne(c)
  <2>1. OthersSame(c)
    BY <1>3 DEF OthersSame, TypeOK
  <2>2. /\ call'[c].at = "read" /\ call'[c].odd = call[c].odd
        /\ call'[c].left = call[c].left \ {j}
        /\ call'[c].op = call[c].op /\ call'[c].session = call[c].session
        /\ call'[c].index = call[c].index
    BY <1>1, <1>3 DEF Calls, TypeOK
  <2>3. call'[c] # Idle
    BY <2>2, IdleAt
  <2> QED
    BY <1>1, <1>3, <2>1, <2>2, <2>3 DEF ReadOne, SameChunk
<1> QED
  BY <1>2, <1>3 DEF ReadBack

\* How far a step of a call takes it.
LEMMA RunMoves ==
  ASSUME TypeOK, NEW c \in Callers, Run(c)
  PROVE  /\ call[c] # Idle /\ call[c] \in Calls
         /\ OthersSame(c)
         /\ \/ call'[c] = Idle
            \/ call[c].op = "receive_chunk_with_retry" /\ call[c].at # "failed" /\ Moved(c, "failed")
            \/ call[c].at = "acquire" /\ Moved(c, "check")
            \/ call[c].at = "check" /\ Moved(c, "permit")
            \/ call[c].at = "permit" /\ Moved(c, "write")
            \/ Write(c) /\ Moved(c, "record")
            \/ SendRead(c) /\ Sent(c)
            \/ ReadBack(c) /\ ReadOne(c)
<1>1. call[c] # Idle /\ call[c] \in Calls
  BY OnItsWay, IdleAt
     DEF Run, receive_chunk, send_chunk, finalize_upload, resume_transfer, Acquire, Check, TakePermit,
         Write, WriteFails, Record, CountFailure, SendRead, ReadBack, Finalize, Resume, Receiving
<1>2. CASE Acquire(c) \/ Check(c) \/ WriteFails(c)
  <2>1. call[c].at \in {"acquire", "check", "write"}
    BY <1>2 DEF Acquire, Check, WriteFails
  <2>2. \/ Fail(c)
        \/ call[c].at = "acquire" /\ GoTo(c, "check")
        \/ call[c].at = "check" /\ GoTo(c, "permit")
    BY <1>2 DEF Acquire, Check, WriteFails
  <2> QED
    BY <1>1, <2>1, <2>2, Failed, GoneTo DEF Stages
<1>3. CASE TakePermit(c)
  BY <1>1, <1>3, GoneTo DEF TakePermit, Stages
<1>4. CASE Write(c)
  BY <1>1, <1>4, GoneTo DEF Write, Stages
<1>5. CASE Record(c) \/ CountFailure(c) \/ Finalize(c) \/ Resume(c)
  <2>1. Return(c)
    BY <1>5 DEF Record, CountFailure, Finalize, Resume
  <2> QED
    BY <1>1, <2>1, Returned
<1>6. CASE SendRead(c)
  BY <1>1, <1>6, Sending
<1>7. CASE ReadBack(c)
  BY <1>1, <1>7, ReadingBack
<1> QED
  BY <1>2, <1>3, <1>4, <1>5, <1>6, <1>7
     DEF Run, receive_chunk, send_chunk, finalize_upload, resume_transfer

\* How a call begins.
BeganReceive(c) ==
    /\ call'[c].op \in Receiving
    /\ direction[call'[c].session] = "Upload"
    /\ call'[c].at = "acquire"
    /\ call'[c].op = "receive_chunk_with_retry" => MayTry(call'[c].session, call'[c].index)

BeganSend(c) ==
    /\ call'[c].op = "send_chunk" /\ call'[c].at = "read"
    /\ direction[call'[c].session] = "Download"

BeganFinalize(c) ==
    /\ call'[c].op = "finalize_upload" /\ call'[c].at = "read"
    /\ direction[call'[c].session] = "Upload"
    /\ call'[c].left = Right(FileOf[call'[c].session]) /\ call'[c].odd = {}

BeganResume(c) ==
    /\ call'[c].op = "resume_transfer" /\ call'[c].at = "read"
    /\ Listed(call'[c].session)

LEMMA CallMoves ==
  ASSUME TypeOK, NEW c \in Callers, Call(c)
  PROVE  /\ call[c] = Idle /\ OthersSame(c)
         /\ UNCHANGED <<direction, status, size, progress, stored, reported, trusting>>
         /\ \/ UNCHANGED call
            \/ BeganReceive(c) \/ BeganSend(c) \/ BeganFinalize(c) \/ BeganResume(c)
<1>1. call[c] = Idle /\ UNCHANGED <<direction, status, size, progress, stored, reported, trusting>>
  BY DEF Call, CallReceive, CallSend, CallFinalize, CallResume, sessionVars
<1>2. CASE UNCHANGED call
  BY <1>1, <1>2 DEF OthersSame
<1>3. ASSUME NEW op, NEW s \in Sessions, NEW i, NEW sound, NEW stage,
             BeginChunk(c, op, s, i, sound, stage)
      PROVE  /\ OthersSame(c)
             /\ call'[c].op = op /\ call'[c].session = s /\ call'[c].index = i
             /\ call'[c].at = stage
  BY <1>3 DEF BeginChunk, OthersSame, TypeOK
<1>4. ASSUME NEW op, NEW s \in Sessions, NEW left, NEW odd, BeginRead(c, op, s, left, odd)
      PROVE  /\ OthersSame(c)
             /\ call'[c].op = op /\ call'[c].session = s /\ call'[c].at = "read"
             /\ call'[c].left = left /\ call'[c].odd = odd
  BY <1>4 DEF BeginRead, OthersSame, TypeOK
<1>5. ASSUME CallReceive(c) PROVE OthersSame(c) /\ BeganReceive(c)
  <2>1. PICK op \in Receiving, s \in Sessions, sound \in BOOLEAN : \E i \in Indices(FileOf[s]) :
          /\ direction[s] = "Upload"
          /\ op = "receive_chunk_with_retry" => MayTry(s, i)
          /\ BeginChunk(c, op, s, i, sound, "acquire")
    BY <1>5 DEF CallReceive
  <2> QED
    BY <1>3, <2>1 DEF BeganReceive
<1>6. ASSUME CallSend(c), call' # call PROVE OthersSame(c) /\ BeganSend(c)
  <2>1. PICK s \in Sessions : \E i \in Indices(FileOf[s]) :
          direction[s] = "Download" /\ BeginChunk(c, "send_chunk", s, i, TRUE, "read")
    BY <1>6 DEF CallSend
  <2> QED
    BY <1>3, <2>1 DEF BeganSend
<1>7. ASSUME CallFinalize(c) PROVE OthersSame(c) /\ BeganFinalize(c)
  <2>1. PICK s \in Sessions :
          direction[s] = "Upload" /\ BeginRead(c, "finalize_upload", s, Right(FileOf[s]), {})
    BY <1>7 DEF CallFinalize, ToRead
  <2> QED
    BY <1>4, <2>1 DEF BeganFinalize
<1>8. ASSUME CallResume(c) PROVE OthersSame(c) /\ BeganResume(c)
  <2>1. PICK s \in Sessions : Listed(s) /\
          BeginRead(c, "resume_transfer", s, progress[s].completed, progress[s].spoiled)
    BY <1>8 DEF CallResume
  <2> QED
    BY <1>4, <2>1 DEF BeganResume
<1> QED
  BY <1>1, <1>2, <1>5, <1>6, <1>7, <1>8 DEF Call

-----------------------------------------------------------------------------
(* Which sessions there are, and what a call may be doing. *)

\* A session that nobody tried to initiate has nothing.
SessionsBegin ==
    \A s \in Sessions :
        direction[s] = "none" =>
            status[s] = "none" /\ progress[s].completed = {} /\ progress[s].spoiled = {}

\* Only uploads are reported, and a download that trusts has one to trust.
Reports ==
    /\ \A s \in reported : direction[s] = "Upload"
    /\ \A s \in trusting : direction[s] = "Download" /\ \E u \in reported : FileOf[u] = FileOf[s]

\* A call works on a session of its own direction, at the stages of its own.
Fits(c) ==
    /\ direction[call[c].session] # "none"
    /\ call[c].op \in Receiving =>
         /\ direction[call[c].session] = "Upload"
         /\ call[c].at # "read"
         /\ call[c].at = "failed" => call[c].op = "receive_chunk_with_retry"
    /\ call[c].op = "send_chunk" =>
         /\ direction[call[c].session] = "Download"
         /\ call[c].at \in {"read", "record"}
    /\ call[c].op \in Reading => call[c].at = "read"
    /\ call[c].op = "finalize_upload" =>
         direction[call[c].session] = "Upload" /\ call[c].odd = {}

CallsFit == \A c \in Callers : call[c] # Idle => Fits(c)

ShapeInv == SessionsBegin /\ Reports /\ CallsFit

LEMMA InitShape == Init => ShapeInv
  BY DEF Init, Fresh, ShapeInv, SessionsBegin, Reports, CallsFit

\* Of a session that has a direction the direction stays.
LEMMA DirectionStays ==
  ASSUME TypeOK, [Next]_vars, NEW s \in Sessions, direction[s] # "none"
  PROVE  direction'[s] = direction[s]
<1>1. ASSUME NEW t \in Sessions,
             initiate_upload(t) \/ initiate_download(t) \/ insert_session(t)
      PROVE  direction'[s] = direction[s]
  BY <1>1 DEF initiate_upload, initiate_download, insert_session, TypeOK
<1>2. ASSUME NEW c \in Callers, Run(c) PROVE UNCHANGED direction
  BY <1>2 DEF Run, receive_chunk, send_chunk, finalize_upload, resume_transfer, Acquire, Check, TakePermit,
         Write, WriteFails, Record, CountFailure, SendRead, ReadBack, Finalize, Resume, sessionVars
<1>3. CASE Tick \/ Crash \/ UNCHANGED vars
  BY <1>3 DEF Tick, Crash, vars, sessionVars
<1> QED
  BY <1>1, <1>2, <1>3, CallMoves, StepKinds

\* A session that was begun before a step stays so.
LEMMA InitiateShape ==
  ASSUME TypeOK, ShapeInv, [Next]_vars, NEW s \in Sessions,
         initiate_upload(s) \/ initiate_download(s) \/ insert_session(s)
  PROVE  ShapeInv'
<1>1. UNCHANGED <<call, reported>> /\ \A c \in Callers : call[c] # Idle => call[c] \in Calls
  BY OnItsWay DEF initiate_upload, initiate_download, insert_session
<1>2. CallsFit'
  <2> SUFFICES ASSUME NEW c \in Callers, call[c] # Idle PROVE Fits(c)'
    BY <1>1 DEF CallsFit
  <2>1. Fits(c) /\ call[c].session \in Sessions
    BY <1>1 DEF ShapeInv, CallsFit, Calls
  <2>2. direction'[call[c].session] = direction[call[c].session]
    BY <2>1, DirectionStays DEF Fits
  <2> QED
    BY <1>1, <2>1, <2>2 DEF Fits
<1>3. SessionsBegin'
  <2>1. CASE initiate_upload(s) \/ initiate_download(s)
    BY <2>1 DEF initiate_upload, initiate_download, ShapeInv, SessionsBegin, TypeOK
  <2>2. CASE insert_session(s)
    <3>1. direction[s] # "none" /\ UNCHANGED direction
      BY <2>2 DEF insert_session, ShapeInv, SessionsBegin
    <3>2. \A t \in Sessions \ {s} : status'[t] = status[t] /\ progress'[t] = progress[t]
      BY <2>2 DEF insert_session, TypeOK
    <3> QED
      BY <3>1, <3>2 DEF ShapeInv, SessionsBegin
  <2> QED
    BY <2>1, <2>2
<1>4. Reports'
  <2>1. \A t \in reported \cup trusting : t \in Sessions /\ direction[t] # "none"
    BY DEF TypeOK, ShapeInv, Reports
  <2>2. \A t \in reported \cup trusting : direction'[t] = direction[t]
    BY <2>1, DirectionStays
  <2>3. CASE UNCHANGED trusting
    BY <1>1, <2>2, <2>3 DEF ShapeInv, Reports
  <2>4. CASE initiate_download(s) /\ trusting' # trusting
    <3>1. /\ trusting' = trusting \cup {s} /\ \E u \in reported : FileOf[u] = FileOf[s]
          /\ direction'[s] = "Download"
      BY <2>4 DEF initiate_download, TypeOK
    <3> QED
      BY <1>1, <2>2, <3>1 DEF ShapeInv, Reports
  <2> QED
    BY <2>3, <2>4 DEF initiate_upload, insert_session
<1> QED
  BY <1>2, <1>3, <1>4 DEF ShapeInv

LEMMA CallShape ==
  ASSUME TypeOK, ShapeInv, NEW c \in Callers, Call(c)
  PROVE  ShapeInv'
<1>1. /\ call[c] = Idle /\ OthersSame(c)
      /\ UNCHANGED <<direction, status, progress, reported, trusting>>
      /\ \/ UNCHANGED call
         \/ BeganReceive(c) \/ BeganSend(c) \/ BeganFinalize(c) \/ BeganResume(c)
  BY CallMoves
<1>2. ASSUME NEW d \in Callers \ {c}, call'[d] # Idle PROVE Fits(d)'
  BY <1>1, <1>2 DEF OthersSame, ShapeInv, CallsFit, Fits
<1>3. ASSUME call'[c] # Idle PROVE Fits(c)'
  <2>1. call' # call
    BY <1>1, <1>3
  <2>2. call'[c].session \in Sessions
    <3>1. TypeOK'
      BY CallTypes
    <3> QED
      BY <1>3, <3>1 DEF TypeOK, Calls
  <2>3. CASE BeganReceive(c)
    BY <1>1, <2>3 DEF BeganReceive, Fits, Receiving, Reading
  <2>4. CASE BeganSend(c)
    BY <1>1, <2>4 DEF BeganSend, Fits, Receiving, Reading
  <2>5. CASE BeganFinalize(c)
    BY <1>1, <2>5 DEF BeganFinalize, Fits, Receiving, Reading
  <2>6. CASE BeganResume(c)
    BY <1>1, <2>2, <2>6
       DEF BeganResume, Fits, Receiving, Reading, Listed, ShapeInv, SessionsBegin
  <2> QED
    BY <1>1, <2>1, <2>3, <2>4, <2>5, <2>6
<1>4. CallsFit'
  BY <1>2, <1>3 DEF CallsFit
<1> QED
  BY <1>1, <1>4 DEF ShapeInv, SessionsBegin, Reports

LEMMA RunShape ==
  ASSUME TypeOK, ShapeInv, NEW c \in Callers, Run(c)
  PROVE  ShapeInv'
<1> DEFINE s == call[c].session
<1>1. /\ call[c] # Idle /\ call[c] \in Calls /\ OthersSame(c)
      /\ \/ call'[c] = Idle
         \/ call[c].op = "receive_chunk_with_retry" /\ call[c].at # "failed" /\ Moved(c, "failed")
         \/ call[c].at = "acquire" /\ Moved(c, "check")
         \/ call[c].at = "check" /\ Moved(c, "permit")
         \/ call[c].at = "permit" /\ Moved(c, "write")
         \/ Write(c) /\ Moved(c, "record")
         \/ SendRead(c) /\ Sent(c)
         \/ ReadBack(c) /\ ReadOne(c)
  BY RunMoves
<1>2. Fits(c) /\ s \in Sessions /\ direction[s] # "none"
  BY <1>1 DEF ShapeInv, CallsFit, Calls, Fits
<1>3. UNCHANGED <<direction, trusting>>
  BY DEF Run, receive_chunk, send_chunk, finalize_upload, resume_transfer, Acquire, Check, TakePermit,
         Write, WriteFails, Record, CountFailure, SendRead, ReadBack, Finalize, Resume, sessionVars
<1>4. ASSUME NEW d \in Callers \ {c}, call'[d] # Idle PROVE Fits(d)'
  BY <1>1, <1>3, <1>4 DEF OthersSame, ShapeInv, CallsFit, Fits
<1>5. ASSUME call'[c] # Idle PROVE Fits(c)'
  <2>1. CASE ReadBack(c) /\ ReadOne(c)
    BY <1>2, <1>3, <2>1 DEF ReadOne, SameChunk, Fits, Reading, Receiving
  <2>2. CASE SendRead(c) /\ Sent(c)
    BY <1>2, <1>3, <2>2 DEF Sent, SameChunk, Fits, Reading, Receiving
  <2>3. CASE Write(c) /\ Moved(c, "record")
    BY <1>2, <1>3, <2>3 DEF Write, Moved, SameChunk, Fits, Reading, Receiving
  <2>4. CASE call[c].op = "receive_chunk_with_retry" /\ Moved(c, "failed")
    BY <1>2, <1>3, <2>4 DEF Moved, SameChunk, Fits, Reading, Receiving
  <2>5. CASE \/ call[c].at = "acquire" /\ Moved(c, "check")
             \/ call[c].at = "check" /\ Moved(c, "permit")
             \/ call[c].at = "permit" /\ Moved(c, "write")
    BY <1>2, <1>3, <2>5 DEF Moved, SameChunk, Fits, Reading, Receiving
  <2> QED
    BY <1>1, <1>5, <2>1, <2>2, <2>3, <2>4, <2>5
<1>6. CallsFit'
  BY <1>4, <1>5 DEF CallsFit
<1>7. \A t \in Sessions \ {s} : status'[t] = status[t] /\ progress'[t] = progress[t]
  <2>1. CASE Record(c)
    BY <2>1, Recording DEF Record
  <2>2. CASE CountFailure(c) \/ Finalize(c) \/ Resume(c)
    BY <1>2, <2>2 DEF CountFailure, Finalize, Resume, TypeOK
  <2>3. CASE UNCHANGED <<status, progress>>
    BY <2>3
  <2> QED
    BY <2>1, <2>2, <2>3
       DEF Run, receive_chunk, send_chunk, finalize_upload, resume_transfer, Acquire, Check, TakePermit,
           Write, WriteFails, SendRead, ReadBack, sessionVars
<1>8. SessionsBegin'
  BY <1>2, <1>3, <1>7 DEF ShapeInv, SessionsBegin
<1>9. Reports'
  <2>1. CASE Finalize(c)
    <3>1. reported' = reported \cup {s} /\ direction[s] = "Upload"
      BY <1>2, <2>1 DEF Finalize, Fits
    <3> QED
      BY <1>3, <3>1 DEF ShapeInv, Reports
  <2>2. CASE UNCHANGED reported
    BY <1>3, <2>2 DEF ShapeInv, Reports
  <2> QED
    BY <2>1, <2>2
       DEF Run, receive_chunk, send_chunk, finalize_upload, resume_transfer, Acquire, Check, TakePermit,
           Write, WriteFails, Record, CountFailure, SendRead, ReadBack, Resume
<1> QED
  BY <1>6, <1>8, <1>9 DEF ShapeInv

LEMMA StepShape == TypeOK /\ ShapeInv /\ [Next]_vars => ShapeInv'
<1> SUFFICES ASSUME TypeOK, ShapeInv, [Next]_vars PROVE ShapeInv'
  OBVIOUS
<1>1. CASE Tick \/ UNCHANGED vars
  BY <1>1 DEF Tick, vars, sessionVars, ShapeInv, SessionsBegin, Reports, CallsFit, Fits
<1>2. CASE Crash
  <2>1. (\A c \in Callers : call'[c] = Idle) /\ UNCHANGED <<direction, progress, reported, trusting>>
    BY <1>2 DEF Crash
  <2>2. \A s \in Sessions : status[s] = "none" => status'[s] = "none"
    BY <1>2 DEF Crash, Listed
  <2> QED
    BY <2>1, <2>2 DEF ShapeInv, SessionsBegin, Reports, CallsFit
<1> QED
  BY <1>1, <1>2, CallShape, RunShape, InitiateShape, StepKinds

-----------------------------------------------------------------------------
(* Retries. *)

\* The calls that may still count a failure of a chunk.
Tries(s, i) ==
    {c \in Callers : /\ call[c] # Idle
                     /\ call[c].op = "receive_chunk_with_retry"
                     /\ call[c].session = s
                     /\ call[c].index = i}

\* Those, and the failures counted, were at most this many when the last began.
TriesBounded ==
    \A s \in Sessions : \A i \in AllIndices :
        progress[s].retries[i] + Cardinality(Tries(s, i)) < MaxRetries + Cardinality(Callers)

LEMMA TriesCounted ==
  ASSUME NEW s, NEW i
  PROVE  /\ Tries(s, i) \subseteq Callers /\ IsFiniteSet(Tries(s, i))
         /\ Cardinality(Tries(s, i)) \in Nat /\ Cardinality(Callers) \in Nat \ {0}
         /\ Cardinality(Tries(s, i)) <= Cardinality(Callers)
<1>1. IsFiniteSet(Callers) /\ Callers # {} /\ Tries(s, i) \subseteq Callers
  BY ManagerAssumption DEF Tries
<1>2. Cardinality(Callers) \in Nat /\ Cardinality(Callers) # 0
  BY <1>1, FS_CardinalityType, FS_EmptySet
<1> QED
  BY <1>1, <1>2, FS_Subset, FS_CardinalityType

LEMMA RetriesAreNat ==
  ASSUME TypeOK, NEW s \in Sessions, NEW i \in AllIndices
  PROVE  progress[s].retries[i] \in Nat
  BY DEF TypeOK, Progress

LEMMA InitTries == Init => TriesBounded
<1> SUFFICES ASSUME Init, NEW s \in Sessions, NEW i \in AllIndices
             PROVE  progress[s].retries[i] + Cardinality(Tries(s, i))
                      < MaxRetries + Cardinality(Callers)
  BY DEF TriesBounded
<1>1. progress[s].retries[i] = 0
  BY DEF Init, Fresh
<1>2. Tries(s, i) = {}
  BY DEF Init, Tries
<1>3. Cardinality(Tries(s, i)) = 0
  BY <1>2, FS_EmptySet
<1> QED
  BY <1>1, <1>3, TriesCounted, ManagerAssumption

\* Nothing is lost when calls end and no failure is counted.
LEMMA FewerTries ==
  ASSUME TypeOK, TriesBounded, TypeOK', NEW s \in Sessions, NEW i \in AllIndices,
         progress'[s].retries[i] <= progress[s].retries[i], Tries(s, i)' \subseteq Tries(s, i)
  PROVE  progress'[s].retries[i] + Cardinality(Tries(s, i)')
           < MaxRetries + Cardinality(Callers)
<1>1. Cardinality(Tries(s, i)') <= Cardinality(Tries(s, i)) /\ Cardinality(Tries(s, i)') \in Nat
  BY TriesCounted, FS_Subset, FS_CardinalityType
<1>2. progress[s].retries[i] \in Nat /\ progress'[s].retries[i] \in Nat
  <2>1. progress'[s] \in Progress
    BY DEF TypeOK
  <2> QED
    BY <2>1, RetriesAreNat DEF Progress
<1>3. progress[s].retries[i] + Cardinality(Tries(s, i)) < MaxRetries + Cardinality(Callers)
  BY DEF TriesBounded
<1> QED
  BY <1>1, <1>2, <1>3, TriesCounted, ManagerAssumption

LEMMA CallTries ==
  ASSUME TypeOK, TriesBounded, TypeOK', NEW c \in Callers, Call(c)
  PROVE  TriesBounded'
<1> SUFFICES ASSUME NEW s \in Sessions, NEW i \in AllIndices
             PROVE  progress'[s].retries[i] + Cardinality(Tries(s, i)')
                      < MaxRetries + Cardinality(Callers)
  BY DEF TriesBounded
<1>1. /\ call[c] = Idle /\ OthersSame(c) /\ UNCHANGED progress
      /\ \/ UNCHANGED call
         \/ BeganReceive(c) \/ BeganSend(c) \/ BeganFinalize(c) \/ BeganResume(c)
  BY CallMoves
<1>2. progress[s].retries[i] \in Nat
  BY RetriesAreNat
<1>3. CASE c \in Tries(s, i)'
  <2>1. /\ call'[c] # Idle /\ call'[c].op = "receive_chunk_with_retry"
        /\ call'[c].session = s /\ call'[c].index = i
    BY <1>3 DEF Tries
  <2>2. BeganReceive(c)
    BY <1>1, <2>1 DEF BeganSend, BeganFinalize, BeganResume
  <2>3. progress[s].retries[i] < MaxRetries
    BY <2>1, <2>2 DEF BeganReceive, MayTry
  <2>4. Tries(s, i)' \subseteq Callers
    BY DEF Tries
  <2>5. Cardinality(Tries(s, i)') <= Cardinality(Callers) /\ Cardinality(Tries(s, i)') \in Nat
    BY <2>4, ManagerAssumption, FS_Subset, FS_CardinalityType
  <2>6. progress'[s].retries[i] = progress[s].retries[i]
    BY <1>1
  <2>7. MaxRetries \in Nat /\ Cardinality(Callers) \in Nat
    BY ManagerAssumption, TriesCounted
  <2>8. \A n, m, t, k \in Nat : n < m /\ t <= k => n + t < m + k
    OBVIOUS
  <2> QED
    BY <1>2, <2>3, <2>5, <2>6, <2>7, <2>8
<1>4. CASE c \notin Tries(s, i)'
  <2>1. Tries(s, i)' \subseteq Tries(s, i)
    BY <1>1, <1>4 DEF Tries, OthersSame
  <2> QED
    BY <1>1, <1>2, <2>1, FewerTries
<1> QED
  BY <1>3, <1>4

LEMMA RunTries ==
  ASSUME TypeOK, ShapeInv, TriesBounded, TypeOK', NEW c \in Callers, Run(c)
  PROVE  TriesBounded'
<1> SUFFICES ASSUME NEW s \in Sessions, NEW i \in AllIndices
             PROVE  progress'[s].retries[i] + Cardinality(Tries(s, i)')
                      < MaxRetries + Cardinality(Callers)
  BY DEF TriesBounded
<1>1. call[c] # Idle /\ call[c] \in Calls /\ OthersSame(c) /\ (call'[c] = Idle \/ SameChunk(c))
  BY RunMoves DEF Moved, Sent, ReadOne
<1>2. Tries(s, i)' \subseteq Tries(s, i)
  BY <1>1 DEF Tries, OthersSame, SameChunk
<1>3. progress[s].retries[i] \in Nat
  BY RetriesAreNat
<1>4. CASE CountFailure(c) /\ call[c].session = s /\ call[c].index = i
  <2>1. progress'[s].retries[i] = progress[s].retries[i] + 1
    BY <1>4 DEF CountFailure, TypeOK, Progress
  <2>2. c \in Tries(s, i)
    BY <1>1, <1>4 DEF CountFailure, Tries, ShapeInv, CallsFit, Fits, Calls, Receiving, Reading
  <2>3. c \notin Tries(s, i)'
    BY <1>1, <1>4, Returned DEF CountFailure, Tries
  <2>4. Tries(s, i)' \subseteq Tries(s, i) \ {c}
    BY <1>2, <2>3
  <2>5. Cardinality(Tries(s, i)') <= Cardinality(Tries(s, i)) - 1 /\ Cardinality(Tries(s, i)') \in Nat
    <3>1. /\ IsFiniteSet(Tries(s, i) \ {c})
          /\ Cardinality(Tries(s, i) \ {c}) = Cardinality(Tries(s, i)) - 1
      BY <2>2, TriesCounted, FS_RemoveElement
    <3> QED
      BY <2>4, <3>1, FS_Subset, FS_CardinalityType
  <2>6. progress[s].retries[i] + Cardinality(Tries(s, i)) < MaxRetries + Cardinality(Callers)
    BY DEF TriesBounded
  <2> QED
    BY <1>3, <2>1, <2>5, <2>6, TriesCounted, ManagerAssumption
<1>5. CASE progress'[s].retries[i] = progress[s].retries[i]
  BY <1>2, <1>3, <1>5, FewerTries
<1>6. CASE Record(c)
  BY <1>5, <1>6, Recording
<1>7. CASE CountFailure(c) /\ ~(call[c].session = s /\ call[c].index = i)
  BY <1>1, <1>5, <1>7 DEF CountFailure, TypeOK, Progress, Calls
<1>8. CASE UNCHANGED progress
  BY <1>5, <1>8
<1> QED
  BY <1>4, <1>6, <1>7, <1>8
     DEF Run, receive_chunk, send_chunk, finalize_upload, resume_transfer, Acquire, Check, TakePermit,
         Write, WriteFails, SendRead, ReadBack, Finalize, Resume, sessionVars

LEMMA StepTries == TypeOK /\ ShapeInv /\ TriesBounded /\ [Next]_vars => TriesBounded'
<1> SUFFICES ASSUME TypeOK, ShapeInv, TriesBounded, [Next]_vars, TypeOK' PROVE TriesBounded'
  BY StepTypes
<1>1. ASSUME (\A s \in Sessions : \A i \in AllIndices :
                progress'[s].retries[i] <= progress[s].retries[i]),
             (\A c \in Callers : call'[c] = Idle \/ call'[c] = call[c])
      PROVE  TriesBounded'
  <2>1. \A s \in Sessions : \A i \in AllIndices : Tries(s, i)' \subseteq Tries(s, i)
    BY <1>1 DEF Tries
  <2> QED
    BY <1>1, <2>1, FewerTries DEF TriesBounded
<1>2. \A s \in Sessions : \A i \in AllIndices : progress[s].retries[i] \in Nat
  BY RetriesAreNat
<1>3. CASE Tick \/ Crash \/ UNCHANGED vars
  BY <1>1, <1>2, <1>3 DEF Tick, Crash, vars, sessionVars
<1>4. ASSUME NEW s \in Sessions, initiate_upload(s) \/ initiate_download(s)
      PROVE  TriesBounded'
  BY <1>1, <1>2, <1>4 DEF initiate_upload, initiate_download
<1>5. ASSUME NEW s \in Sessions, insert_session(s) PROVE TriesBounded'
  <2>1. PICK copy \in Copies(s) : progress' = [progress EXCEPT ![s] = copy]
    BY <1>5 DEF insert_session
  <2>2. copy.retries \in {progress[s].retries, Fresh.retries}
    BY <2>1 DEF Copies
  <2>3. \A i \in AllIndices : copy.retries[i] <= progress[s].retries[i]
    BY <1>2, <2>2 DEF Fresh
  <2>4. \A t \in Sessions : \A i \in AllIndices : progress'[t].retries[i] <= progress[t].retries[i]
    BY <1>2, <2>1, <2>3 DEF TypeOK
  <2> QED
    BY <1>1, <1>5, <2>4 DEF insert_session
<1> QED
  BY <1>3, <1>4, <1>5, CallTries, RunTries, StepKinds

\* A chunk fails no more often than the limit, but for attempts on their way
\* when it was reached.
THEOREM RetriesAreBounded == Spec => []RetriesBounded
<1>1. TypeOK /\ TriesBounded => RetriesBounded
  <2> SUFFICES ASSUME TypeOK, TriesBounded, NEW s \in Sessions, NEW i \in AllIndices
               PROVE  progress[s].retries[i] < MaxRetries + Cardinality(Callers)
    BY DEF RetriesBounded
  <2> QED
    BY RetriesAreNat, TriesCounted, ManagerAssumption DEF TriesBounded
<1> QED
  BY <1>1, InitTypes, StepTypes, InitShape, StepShape, InitTries, StepTries, PTL DEF Spec

-----------------------------------------------------------------------------
(* The disk. *)

\* Nobody takes anything from the file of an upload that is alone.
LEMMA DiskStays ==
  ASSUME TypeOK, [Next]_vars, NEW s \in Sessions, direction[s] = "Upload", Alone(s)'
  PROVE  Alone(s) /\ stored[FileOf[s]] \subseteq stored'[FileOf[s]]
<1>1. Alone(s)
  <2> SUFFICES ASSUME NEW t \in Sessions \ {s}, FileOf[t] = FileOf[s], direction[t] = "Upload"
               PROVE  FALSE
    BY DEF Alone
  <2>1. direction'[t] = "Upload"
    BY DirectionStays
  <2> QED
    BY <2>1 DEF Alone
<1>2. FileOf[s] \in Files
  BY FileOfSession
<1>3. ASSUME NEW t \in Sessions, initiate_upload(t)
      PROVE  stored[FileOf[s]] \subseteq stored'[FileOf[s]]
  <2>1. t # s /\ direction'[t] = "Upload"
    BY <1>3 DEF initiate_upload, TypeOK
  <2>2. FileOf[t] # FileOf[s]
    BY <2>1 DEF Alone
  <2> QED
    BY <1>2, <1>3, <2>2, FileOfSession DEF initiate_upload, TypeOK
<1>4. ASSUME NEW c \in Callers, Write(c)
      PROVE  stored[FileOf[s]] \subseteq stored'[FileOf[s]]
  BY <1>2, <1>4 DEF Write, TypeOK
<1>5. CASE UNCHANGED stored
  BY <1>1, <1>5
<1>6. ASSUME NEW c \in Callers, Run(c), ~Write(c) PROVE UNCHANGED stored
  BY <1>6 DEF Run, receive_chunk, send_chunk, finalize_upload, resume_transfer, Acquire, Check, TakePermit,
         WriteFails, Record, CountFailure, SendRead, ReadBack, Finalize, Resume
<1>7. ASSUME NEW t \in Sessions, initiate_download(t) \/ insert_session(t) PROVE UNCHANGED stored
  BY <1>7 DEF initiate_download, insert_session
<1>8. CASE Tick \/ Crash \/ UNCHANGED vars
  BY <1>5, <1>8 DEF Tick, Crash, vars
<1> QED
  BY <1>1, <1>3, <1>4, <1>5, <1>6, <1>7, <1>8, CallMoves, StepKinds

\* Only Record adds to what a session has.
LEMMA ProgressMoves ==
  ASSUME TypeOK, [Next]_vars, NEW s \in Sessions
  PROVE  \/ /\ progress'[s].completed \subseteq progress[s].completed
            /\ progress'[s].spoiled \subseteq progress[s].spoiled
         \/ \E c \in Callers : Record(c) /\ call[c].session = s
<1>1. CASE UNCHANGED progress
  BY <1>1
<1>2. ASSUME NEW c \in Callers, Run(c)
      PROVE  \/ UNCHANGED <<progress[s].completed, progress[s].spoiled>>
             \/ Record(c) /\ call[c].session = s
  <2>1. CASE Record(c) /\ call[c].session # s
    BY <2>1, Recording
  <2>2. CASE CountFailure(c)
    BY <2>2 DEF CountFailure, TypeOK, Progress
  <2>3. CASE UNCHANGED progress
    BY <2>3
  <2> QED
    BY <1>2, <2>1, <2>2, <2>3
       DEF Run, receive_chunk, send_chunk, finalize_upload, resume_transfer, Acquire, Check, TakePermit,
           Write, WriteFails, SendRead, ReadBack, Finalize, Resume, sessionVars
<1>3. ASSUME NEW t \in Sessions, insert_session(t)
      PROVE  /\ progress'[s].completed \subseteq progress[s].completed
             /\ progress'[s].spoiled \subseteq progress[s].spoiled
  <2>1. PICK copy \in Copies(t) : progress' = [progress EXCEPT ![t] = copy]
    BY <1>3 DEF insert_session
  <2>2. copy.completed \subseteq progress[t].completed /\ copy.spoiled \subseteq progress[t].spoiled
    BY <2>1 DEF Copies
  <2> QED
    BY <2>1, <2>2 DEF TypeOK
<1>4. CASE Tick \/ Crash \/ UNCHANGED vars
  BY <1>1, <1>4 DEF Tick, Crash, vars, sessionVars
<1>5. ASSUME NEW t \in Sessions, initiate_upload(t) \/ initiate_download(t) PROVE UNCHANGED progress
  BY <1>5 DEF initiate_upload, initiate_download
<1> QED
  BY <1>1, <1>2, <1>3, <1>4, <1>5, CallMoves, StepKinds

\* A call changes by steps of its own, or ends with the process.
LEMMA OwnStep ==
  ASSUME TypeOK, [Next]_vars, NEW d \in Callers, call'[d] # Idle, call'[d] # call[d]
  PROVE  Call(d) \/ Run(d)
<1>1. ASSUME NEW c \in Callers, c # d, Call(c) \/ Run(c) PROVE FALSE
  BY <1>1, CallMoves, RunMoves DEF OthersSame
<1>2. ASSUME NEW t \in Sessions, initiate_upload(t) \/ initiate_download(t) \/ insert_session(t)
      PROVE  FALSE
  BY <1>2 DEF initiate_upload, initiate_download, insert_session
<1>3. CASE Tick \/ Crash \/ UNCHANGED vars
  BY <1>3 DEF Tick, Crash, vars
<1> QED
  BY <1>1, <1>2, <1>3, StepKinds

\* A session gets its direction before it gets anything else.
LEMMA DirectionFirst ==
  ASSUME TypeOK, ShapeInv, [Next]_vars, NEW s \in Sessions,
         direction[s] = "none", direction'[s] # "none"
  PROVE  /\ progress'[s].completed = {} /\ progress'[s].spoiled = {}
         /\ s \notin reported' /\ UNCHANGED <<call, reported>>
<1>1. PICK t \in Sessions : initiate_upload(t) \/ initiate_download(t)
  <2>1. direction' # direction
    OBVIOUS
  <2>2. ASSUME NEW c \in Callers, Run(c) PROVE FALSE
    BY <2>1, <2>2
       DEF Run, receive_chunk, send_chunk, finalize_upload, resume_transfer, Acquire, Check, TakePermit,
           Write, WriteFails, Record, CountFailure, SendRead, ReadBack, Finalize, Resume, sessionVars
  <2>3. ~Tick /\ ~Crash /\ ~UNCHANGED vars /\ \A t \in Sessions : ~insert_session(t)
    BY <2>1 DEF Tick, Crash, vars, sessionVars, insert_session
  <2> QED
    BY <2>1, <2>2, <2>3, CallMoves, StepKinds
<1>2. UNCHANGED <<progress, call, reported>>
  BY <1>1 DEF initiate_upload, initiate_download
<1> QED
  BY <1>2 DEF ShapeInv, SessionsBegin, Reports

-----------------------------------------------------------------------------
(* What is counted. *)

\* A chunk that is about to be counted is on disk.
Written ==
    \A c \in Callers :
        /\ call[c] # Idle /\ call[c].op \in Receiving /\ call[c].at = "record"
        /\ Alone(call[c].session)
        => call[c].index \in stored[FileOf[call[c].session]]

CountedInv == CountedIsStored /\ Written

LEMMA InitCounted == Init => CountedInv
  BY DEF Init, CountedInv, CountedIsStored, Written

LEMMA StepCounted == TypeOK /\ ShapeInv /\ CountedInv /\ [Next]_vars => CountedInv'
<1> SUFFICES ASSUME TypeOK, ShapeInv, CountedInv, [Next]_vars PROVE CountedInv'
  OBVIOUS
<1>1. CountedIsStored'
  <2> SUFFICES ASSUME NEW s \in Sessions, direction'[s] = "Upload", Alone(s)'
               PROVE  progress'[s].completed \subseteq stored'[FileOf[s]]
    BY DEF CountedIsStored
  <2>1. CASE direction[s] = "none"
    BY <2>1, DirectionFirst
  <2>2. CASE direction[s] = "Upload"
    <3>1. Alone(s) /\ stored[FileOf[s]] \subseteq stored'[FileOf[s]]
      BY <2>2, DiskStays
    <3>2. progress[s].completed \subseteq stored[FileOf[s]]
      BY <2>2, <3>1 DEF CountedInv, CountedIsStored
    <3>3. ASSUME NEW c \in Callers, Record(c), call[c].session = s
          PROVE  progress'[s].completed \subseteq stored'[FileOf[s]]
      <4>1. call[c] # Idle /\ call[c].at = "record" /\ call[c] \in Calls
        BY <3>3, OnItsWay, IdleAt DEF Record
      <4>2. call[c].op \in Receiving
        BY <2>2, <3>3, <4>1 DEF ShapeInv, CallsFit, Fits, Calls
      <4>3. call[c].index \in stored[FileOf[s]]
        BY <3>1, <3>3, <4>1, <4>2 DEF CountedInv, Written
      <4>4. progress'[s].completed = progress[s].completed \cup {call[c].index}
        BY <3>3, Recording
      <4> QED
        BY <3>1, <3>2, <4>3, <4>4
    <3> QED
      BY <3>1, <3>2, <3>3, ProgressMoves
  <2>3. direction[s] \in {"none", "Upload"}
    BY DirectionStays
  <2> QED
    BY <2>1, <2>2, <2>3
<1>2. Written'
  <2> SUFFICES ASSUME NEW c \in Callers, call'[c] # Idle, call'[c].op \in Receiving,
                      call'[c].at = "record", NEW s \in Sessions, call'[c].session = s, Alone(s)'
               PROVE  call'[c].index \in stored'[FileOf[s]]
    <3>1. \A c \in Callers : call'[c] # Idle => call'[c].session \in Sessions
      BY StepTypes DEF TypeOK, Calls
    <3> QED
      BY <3>1 DEF Written, Alone
  <2>1. CASE call'[c] = call[c]
    <3>1. direction[s] = "Upload"
      BY <2>1 DEF ShapeInv, CallsFit, Fits
    <3> QED
      BY <2>1, <3>1, DiskStays DEF CountedInv, Written
  <2>2. CASE Call(c)
    BY <2>2, CallMoves DEF BeganReceive, BeganSend, BeganFinalize, BeganResume
  <2>3. CASE Run(c)
    <3>1. Write(c) /\ Moved(c, "record")
      BY <2>3, RunMoves DEF Moved, SameChunk, Sent, ReadOne, Receiving
    <3>2. call'[c].index \in stored'[FileOf[call'[c].session]]
      <4>1. call[c].session \in Sessions /\ FileOf[call[c].session] \in Files
        BY <2>3, RunMoves, FileOfSession DEF Calls
      <4> QED
        BY <3>1, <4>1 DEF Write, Moved, SameChunk, TypeOK
    <3> QED
      BY <3>2
  <2> QED
    BY <2>1, <2>2, <2>3, OwnStep
<1> QED
  BY <1>1, <1>2 DEF CountedInv

\* What an upload counts is on disk.
THEOREM CountedStored == Spec => []CountedIsStored
<1>1. CountedInv => CountedIsStored
  BY DEF CountedInv
<1> QED
  BY <1>1, InitTypes, StepTypes, InitShape, StepShape, InitCounted, StepCounted, PTL DEF Spec

-----------------------------------------------------------------------------
(* What is reported complete. *)

\* What finalize_upload has read back is on disk.
ReadIsStored ==
    \A c \in Callers :
        /\ call[c] # Idle /\ call[c].op = "finalize_upload"
        /\ Alone(call[c].session)
        => Right(FileOf[call[c].session]) \ call[c].left \subseteq stored[FileOf[call[c].session]]

WholeInv == ReportedIsWhole /\ ReadIsStored

LEMMA InitWhole == Init => WholeInv
  BY DEF Init, WholeInv, ReportedIsWhole, ReadIsStored

LEMMA StepWhole == TypeOK /\ ShapeInv /\ WholeInv /\ [Next]_vars => WholeInv'
<1> SUFFICES ASSUME TypeOK, ShapeInv, WholeInv, [Next]_vars PROVE WholeInv'
  OBVIOUS
<1>1. ReportedIsWhole'
  <2> SUFFICES ASSUME NEW s \in reported', Alone(s)'
               PROVE  Right(FileOf[s]) \subseteq stored'[FileOf[s]]
    BY DEF ReportedIsWhole
  <2>1. CASE s \in reported
    <3>1. s \in Sessions /\ direction[s] = "Upload"
      BY <2>1 DEF TypeOK, ShapeInv, Reports
    <3> QED
      BY <2>1, <3>1, DiskStays DEF WholeInv, ReportedIsWhole
  <2>2. ASSUME NEW c \in Callers, Finalize(c), s \notin reported
        PROVE  Right(FileOf[s]) \subseteq stored'[FileOf[s]]
    <3>1. /\ call[c].session = s /\ call[c].left = {} /\ call[c].op = "finalize_upload"
          /\ call[c] # Idle
      BY <2>2, IdleAt DEF Finalize
    <3>2. s \in Sessions /\ direction[s] = "Upload"
      BY <3>1, OnItsWay DEF Calls, ShapeInv, CallsFit, Fits
    <3>3. Alone(s) /\ stored[FileOf[s]] \subseteq stored'[FileOf[s]]
      BY <3>2, DiskStays
    <3> QED
      BY <3>1, <3>3 DEF WholeInv, ReadIsStored
  <2>3. CASE UNCHANGED reported
    BY <2>1, <2>3
  <2>4. ASSUME NEW c \in Callers, Run(c), ~Finalize(c) PROVE UNCHANGED reported
    BY <2>4 DEF Run, receive_chunk, send_chunk, finalize_upload, resume_transfer, Acquire, Check, TakePermit,
           Write, WriteFails, Record, CountFailure, SendRead, ReadBack, Resume
  <2>5. ASSUME NEW t \in Sessions, initiate_upload(t) \/ initiate_download(t) \/ insert_session(t)
        PROVE  UNCHANGED reported
    BY <2>5 DEF initiate_upload, initiate_download, insert_session
  <2>6. CASE Tick \/ Crash \/ UNCHANGED vars
    BY <2>3, <2>6 DEF Tick, Crash, vars
  <2> QED
    BY <2>1, <2>2, <2>3, <2>4, <2>5, <2>6, CallMoves, StepKinds
<1>2. ReadIsStored'
  <2> SUFFICES ASSUME NEW c \in Callers, call'[c] # Idle, call'[c].op = "finalize_upload",
                      NEW s \in Sessions, call'[c].session = s, Alone(s)'
               PROVE  Right(FileOf[s]) \ call'[c].left \subseteq stored'[FileOf[s]]
    <3>1. \A c \in Callers : call'[c] # Idle => call'[c].session \in Sessions
      BY StepTypes DEF TypeOK, Calls
    <3> QED
      BY <3>1 DEF ReadIsStored, Alone
  <2>1. CASE call'[c] = call[c]
    <3>1. direction[s] = "Upload"
      BY <2>1 DEF ShapeInv, CallsFit, Fits
    <3> QED
      BY <2>1, <3>1, DiskStays DEF WholeInv, ReadIsStored
  <2>2. CASE Call(c)
    BY <2>2, CallMoves DEF BeganReceive, BeganSend, BeganFinalize, BeganResume, Receiving
  <2>3. CASE Run(c)
    <3>1. call[c] # Idle /\ SameChunk(c)
      BY <2>3, RunMoves DEF Moved, Sent, ReadOne
    <3>2. call[c].op = "finalize_upload" /\ call[c].session = s
      BY <3>1 DEF SameChunk
    <3>3. call[c].at = "read" /\ call[c].odd = {} /\ direction[s] = "Upload"
      BY <3>1, <3>2 DEF ShapeInv, CallsFit, Fits, Reading
    <3>4. ReadOne(c)
      BY <2>3, <3>2, <3>3, RunMoves DEF Moved, Write, Sent
    <3>5. Alone(s) /\ stored[FileOf[s]] \subseteq stored'[FileOf[s]]
      BY <3>3, DiskStays
    <3>6. PICK j \in call[c].left : MayMatch(c, j) /\ call'[c].left = call[c].left \ {j}
      BY <3>4 DEF ReadOne
    <3>7. j \in stored[FileOf[s]]
      BY <3>2, <3>3, <3>6 DEF MayMatch
    <3>8. Right(FileOf[s]) \ call[c].left \subseteq stored[FileOf[s]]
      BY <3>1, <3>2, <3>5 DEF WholeInv, ReadIsStored
    <3> QED
      BY <3>5, <3>6, <3>7, <3>8
  <2> QED
    BY <2>1, <2>2, <2>3, OwnStep
<1> QED
  BY <1>1, <1>2 DEF WholeInv

\* An upload that was reported complete is whole, and stays so.
THEOREM ReportedWhole == Spec => []ReportedIsWhole
<1>1. WholeInv => ReportedIsWhole
  BY DEF WholeInv
<1> QED
  BY <1>1, InitTypes, StepTypes, InitShape, StepShape, InitWhole, StepWhole, PTL DEF Spec

-----------------------------------------------------------------------------
(* What a download may trust. *)

Trusts(s) == s \in trusting /\ \E u \in reported : FileOf[u] = FileOf[s] /\ Alone(u)

\* What send_chunk is about to hash is the file's.
SentIsSound ==
    \A c \in Callers :
        /\ call[c] # Idle /\ call[c].op = "send_chunk" /\ call[c].at = "record"
        /\ Trusts(call[c].session)
        /\ call[c].index \in Right(FileOf[call[c].session])
        => call[c].sound

TrustInv == TrustedIsRight /\ SentIsSound

LEMMA InitTrust == Init => TrustInv
  BY DEF Init, TrustInv, TrustedIsRight, SentIsSound

\* A download trusts from its beginning, and the upload it trusts was reported.
LEMMA TrustBefore ==
  ASSUME TypeOK, ShapeInv, [Next]_vars, NEW s \in Sessions, direction[s] # "none", Trusts(s)'
  PROVE  Trusts(s)
<1>1. s \in trusting
  <2>1. ASSUME NEW t \in Sessions, initiate_download(t) PROVE trusting' \subseteq trusting \cup {t} /\ t # s
    BY <2>1 DEF initiate_download
  <2>2. ASSUME NEW t \in Sessions, initiate_upload(t) \/ insert_session(t) PROVE UNCHANGED trusting
    BY <2>2 DEF initiate_upload, insert_session
  <2>3. ASSUME NEW c \in Callers, Run(c) PROVE UNCHANGED trusting
    BY <2>3 DEF Run, receive_chunk, send_chunk, finalize_upload, resume_transfer, Acquire, Check, TakePermit,
           Write, WriteFails, Record, CountFailure, SendRead, ReadBack, Finalize, Resume
  <2>4. CASE Tick \/ Crash \/ UNCHANGED vars
    BY <2>4 DEF Tick, Crash, vars, Trusts
  <2>5. s \in trusting'
    BY DEF Trusts
  <2> QED
    BY <2>1, <2>2, <2>3, <2>4, <2>5, CallMoves, StepKinds
<1>2. PICK u \in reported' : FileOf[u] = FileOf[s] /\ Alone(u)'
  BY DEF Trusts
<1>3. PICK v \in reported : FileOf[v] = FileOf[s]
  BY <1>1 DEF ShapeInv, Reports
<1>4. u \in Sessions /\ v \in Sessions /\ direction[v] = "Upload"
  <2>1. TypeOK'
    BY StepTypes
  <2> QED
    BY <2>1 DEF TypeOK, ShapeInv, Reports
<1>5. direction'[v] = "Upload"
  BY <1>4, DirectionStays
<1>6. u = v
  BY <1>2, <1>3, <1>4, <1>5 DEF Alone
<1>7. Alone(v)
  BY <1>2, <1>4, <1>6, DiskStays
<1> QED
  BY <1>1, <1>3, <1>7 DEF Trusts

LEMMA StepTrust == TypeOK /\ ShapeInv /\ WholeInv /\ TrustInv /\ [Next]_vars => TrustInv'
<1> SUFFICES ASSUME TypeOK, ShapeInv, WholeInv, TrustInv, [Next]_vars, TypeOK', ShapeInv'
             PROVE  TrustInv'
  BY StepTypes, StepShape
<1>1. TrustedIsRight'
  <2> SUFFICES ASSUME NEW s \in Sessions, Trusts(s)'
               PROVE  Right(FileOf[s]) \cap progress'[s].spoiled = {}
    BY DEF TrustedIsRight, Trusts, TypeOK
  <2>1. CASE direction[s] = "none"
    <3>1. direction'[s] # "none"
      BY DEF Trusts, ShapeInv, Reports
    <3> QED
      BY <2>1, <3>1, DirectionFirst
  <2>2. CASE direction[s] # "none"
    <3>1. Trusts(s)
      BY <2>2, TrustBefore
    <3>2. Right(FileOf[s]) \cap progress[s].spoiled = {} /\ direction[s] = "Download"
      BY <3>1 DEF Trusts, TrustInv, TrustedIsRight, ShapeInv, Reports
    <3>3. ASSUME NEW c \in Callers, Record(c), call[c].session = s
          PROVE  Right(FileOf[s]) \cap progress'[s].spoiled = {}
      <4>1. call[c] # Idle /\ call[c].at = "record" /\ call[c] \in Calls
        BY <3>3, OnItsWay, IdleAt DEF Record
      <4>2. call[c].op = "send_chunk"
        BY <3>2, <3>3, <4>1 DEF ShapeInv, CallsFit, Fits, Calls
      <4>3. call[c].index \in Right(FileOf[s]) => call[c].sound
        BY <3>1, <3>3, <4>1, <4>2 DEF TrustInv, SentIsSound
      <4>4. CASE call[c].sound
        <5>1. progress'[s].spoiled = progress[s].spoiled \ {call[c].index}
          BY <3>3, <4>4, Recording
        <5> QED
          BY <3>2, <5>1
      <4>5. CASE ~call[c].sound
        <5>1. progress'[s].spoiled = progress[s].spoiled \cup {call[c].index}
          BY <3>3, <4>5, Recording
        <5> QED
          BY <3>2, <4>3, <4>5, <5>1
      <4> QED
        BY <4>4, <4>5
    <3> QED
      BY <3>2, <3>3, ProgressMoves
  <2> QED
    BY <2>1, <2>2
<1>2. SentIsSound'
  <2> SUFFICES ASSUME NEW c \in Callers, call'[c] # Idle, call'[c].op = "send_chunk",
                      call'[c].at = "record", NEW s \in Sessions, call'[c].session = s, Trusts(s)',
                      call'[c].index \in Right(FileOf[s])
               PROVE  call'[c].sound
    <3>1. \A c \in Callers : call'[c] # Idle => call'[c].session \in Sessions
      BY DEF TypeOK, Calls
    <3> QED
      BY <3>1 DEF SentIsSound, Trusts, Alone
  <2>1. CASE call'[c] = call[c]
    <3>1. direction[s] # "none"
      BY <2>1 DEF ShapeInv, CallsFit, Fits
    <3>2. Trusts(s)
      BY <3>1, TrustBefore
    <3> QED
      BY <2>1, <3>2 DEF TrustInv, SentIsSound
  <2>2. CASE Call(c)
    BY <2>2, CallMoves DEF BeganReceive, BeganSend, BeganFinalize, BeganResume
  <2>3. CASE Run(c)
    <3>1. call[c] # Idle /\ SameChunk(c)
      BY <2>3, RunMoves DEF Moved, Sent, ReadOne
    <3>2. /\ call[c].op = "send_chunk" /\ call[c].session = s
          /\ call'[c].index = call[c].index /\ call[c].index \in Right(FileOf[s])
      BY <3>1 DEF SameChunk
    <3>3. call[c].at \in {"read", "record"} /\ direction[s] # "none"
      BY <3>1, <3>2 DEF ShapeInv, CallsFit, Fits
    <3>4. Sent(c)
      BY <2>3, <3>2, <3>3, RunMoves DEF Moved, Write, ReadOne
    <3>5. PICK u \in reported : FileOf[u] = FileOf[s] /\ Alone(u)
      BY <3>3, TrustBefore DEF Trusts
    <3>6. Right(FileOf[s]) \subseteq stored[FileOf[s]]
      BY <3>5 DEF WholeInv, ReportedIsWhole
    <3> QED
      BY <3>2, <3>4, <3>6 DEF Sent
  <2> QED
    BY <2>1, <2>2, <2>3, OwnStep
<1> QED
  BY <1>1, <1>2 DEF TrustInv

\* A download begun after its upload was reported complete is of the file.
THEOREM TrustedRight == Spec => []TrustedIsRight
<1>1. TrustInv => TrustedIsRight
  BY DEF TrustInv
<1> QED
  BY <1>1, InitTypes, StepTypes, InitShape, StepShape, InitWhole, StepWhole, InitTrust, StepTrust,
     PTL DEF Spec

-----------------------------------------------------------------------------
(* What the queue counts.  A call alone moves the bytes it holds; those of the *)
(* others stay, although a session may be initiated meanwhile: not theirs.    *)

Bytes(c) == IF Holds(c) THEN Length(call[c].session, call[c].index) ELSE 0

HeldByOthers(c) == UNION {HeldBy(d) : d \in Callers \ {c}}

LEMMA BytesAreNat == ASSUME TypeOK, NEW c \in Callers PROVE Bytes(c) \in Nat
<1>1. Holds(c) => call[c].session \in Sessions
  BY OnItsWay, IdleAt DEF Holds, Calls
<1> QED
  BY <1>1, LengthOfChunk DEF Bytes

LEMMA HeldBytes ==
  ASSUME TypeOK, NEW c \in Callers
  PROVE  IsFiniteSet(HeldBy(c)) /\ Cardinality(HeldBy(c)) = Bytes(c)
<1> DEFINE n == Bytes(c)
<1>1. CASE Holds(c)
  <2>1. n \in Nat /\ HeldBy(c) = {c} \X (1 .. n)
    BY <1>1, BytesAreNat DEF HeldBy, Bytes
  <2> HIDE DEF n
  <2>2. IsFiniteSet(1 .. n) /\ Cardinality(1 .. n) = n
    BY <2>1, FS_Interval
  <2>3. IsFiniteSet({c}) /\ Cardinality({c}) = 1
    BY FS_Singleton
  <2>4. /\ IsFiniteSet({c} \X (1 .. n))
        /\ Cardinality({c} \X (1 .. n)) = Cardinality({c}) * Cardinality(1 .. n)
    BY <2>2, <2>3, FS_Product, Zenon
  <2>5. Cardinality({c} \X (1 .. n)) = n
    BY <2>1, <2>2, <2>3, <2>4
  <2> QED
    BY <2>1, <2>4, <2>5 DEF n
<1>2. CASE ~Holds(c)
  BY <1>2, FS_EmptySet DEF HeldBy, Bytes
<1> QED
  BY <1>1, <1>2

LEMMA GrantedParts ==
  ASSUME TypeOK, NEW c \in Callers
  PROVE  /\ Cardinality(HeldByOthers(c)) \in Nat
         /\ Granted = Cardinality(HeldByOthers(c)) + Bytes(c)
<1> DEFINE all == UNION {HeldBy(d) : d \in Callers}
<1>1. IsFiniteSet(Callers \X (1 .. ChunkSize))
  <2>1. IsFiniteSet(1 .. ChunkSize)
    BY LayoutAssumption, FS_Interval
  <2> QED
    BY <2>1, ManagerAssumption, FS_Product
<1>2. \A d \in Callers : HeldBy(d) \subseteq {d} \X (1 .. ChunkSize)
  <2> SUFFICES ASSUME NEW d \in Callers, Holds(d)
               PROVE  HeldBy(d) \subseteq {d} \X (1 .. ChunkSize)
    BY DEF HeldBy
  <2>1. call[d].session \in Sessions
    BY OnItsWay, IdleAt DEF Holds, Calls
  <2>2. Length(call[d].session, call[d].index) \in 0 .. ChunkSize
    BY <2>1, LengthOfChunk
  <2> QED
    BY <2>2, LayoutAssumption DEF HeldBy
<1>3. /\ all \subseteq Callers \X (1 .. ChunkSize)
      /\ all = HeldByOthers(c) \cup HeldBy(c) /\ HeldByOthers(c) \subseteq all
  BY <1>2 DEF HeldByOthers
<1>4. HeldByOthers(c) \cap HeldBy(c) = {}
  <2>1. \A x \in HeldBy(c) : x[1] = c
    BY <1>2
  <2>2. \A x \in HeldByOthers(c) : x[1] # c
    BY <1>2 DEF HeldByOthers
  <2> QED
    BY <2>1, <2>2
<1>5. IsFiniteSet(HeldByOthers(c))
  BY <1>1, <1>3, FS_Subset
<1>6. Cardinality(HeldByOthers(c)) \in Nat
  BY <1>5, FS_CardinalityType
<1>7. IsFiniteSet(HeldBy(c)) /\ Cardinality(HeldBy(c)) = Bytes(c)
  BY HeldBytes
<1>8. Cardinality({}) = 0
  BY FS_EmptySet
<1>9. Cardinality(all) = Cardinality(HeldByOthers(c)) + Cardinality(HeldBy(c)) - 0
  BY <1>3, <1>4, <1>5, <1>7, <1>8, FS_Union
<1> QED
  BY <1>6, <1>7, <1>9, BytesAreNat DEF Granted

LEMMA Parts ==
  TypeOK => \A c \in Callers :
              /\ Bytes(c) \in Nat /\ Cardinality(HeldByOthers(c)) \in Nat
              /\ Granted = Cardinality(HeldByOthers(c)) + Bytes(c)
  BY BytesAreNat, GrantedParts

LEMMA PartsNext ==
  TypeOK' => (\A c \in Callers :
                /\ Bytes(c) \in Nat /\ Cardinality(HeldByOthers(c)) \in Nat
                /\ Granted = Cardinality(HeldByOthers(c)) + Bytes(c))'
  BY Parts, PTL

\* While a call is on its way, the size of its session stays.
LEMMA SizeStays ==
  ASSUME TypeOK, [Next]_vars, NEW s \in Sessions, direction[s] # "none"
  PROVE  size'[s] = size[s]
<1>1. ASSUME NEW t \in Sessions,
             initiate_upload(t) \/ initiate_download(t) \/ insert_session(t)
      PROVE  size'[s] = size[s]
  BY <1>1 DEF initiate_upload, initiate_download, insert_session, TypeOK
<1>2. ASSUME NEW c \in Callers, Run(c) PROVE UNCHANGED size
  BY <1>2 DEF Run, receive_chunk, send_chunk, finalize_upload, resume_transfer, Acquire, Check, TakePermit,
         Write, WriteFails, Record, CountFailure, SendRead, ReadBack, Finalize, Resume, sessionVars
<1>3. CASE Tick \/ Crash \/ UNCHANGED vars
  BY <1>3 DEF Tick, Crash, vars, sessionVars
<1> QED
  BY <1>1, <1>2, <1>3, CallMoves, StepKinds

LEMMA SameHeld ==
  ASSUME TypeOK, ShapeInv, [Next]_vars, NEW d \in Callers, call'[d] = call[d]
  PROVE  HeldBy(d)' = HeldBy(d)
<1>1. CASE Holds(d)
  <2>1. call[d] # Idle /\ call[d].session \in Sessions
    BY <1>1, OnItsWay, IdleAt DEF Holds, Calls
  <2>2. direction[call[d].session] # "none"
    BY <2>1 DEF ShapeInv, CallsFit, Fits
  <2>3. size'[call[d].session] = size[call[d].session]
    BY <2>1, <2>2, SizeStays
  <2> QED
    BY <1>1, <2>3 DEF HeldBy, Holds, Length
<1>2. CASE ~Holds(d)
  BY <1>2 DEF HeldBy, Holds
<1> QED
  BY <1>1, <1>2

\* A call that gets bytes puts them into the queue, and takes no more out of it
\* than it lets go.
LEMMA BytesMove ==
  ASSUME TypeOK, TypeOK', ShapeInv, [Next]_vars, NEW c \in Callers, Call(c) \/ Run(c)
  PROVE  pending' - Bytes(c)' >= pending - Bytes(c)
<1>1. /\ pending \in Nat /\ pending' \in Nat /\ Bytes(c) \in Nat /\ Bytes(c)' \in Nat
  <2>1. Bytes(c)' \in Nat
    BY PartsNext
  <2> QED
    BY <2>1, BytesAreNat DEF TypeOK, RateTypeOK
<1>2. CASE UNCHANGED pending /\ ~Holds(c)'
  BY <1>1, <1>2 DEF Bytes
<1>3. ASSUME call[c] # Idle, SameChunk(c)
      PROVE  Bytes(c)' \in {0, Length(call[c].session, call[c].index)}
  <2>1. call[c].session \in Sessions /\ direction[call[c].session] # "none"
    BY <1>3, OnItsWay DEF Calls, ShapeInv, CallsFit, Fits
  <2>2. size'[call[c].session] = size[call[c].session]
    BY <2>1, SizeStays
  <2> QED
    BY <1>3, <2>2 DEF Bytes, SameChunk, Length
<1>4. ASSUME call[c] # Idle, UNCHANGED pending,
             (Holds(c) /\ SameChunk(c)) \/ ~Holds(c)'
      PROVE  pending' - Bytes(c)' >= pending - Bytes(c)
  BY <1>1, <1>2, <1>3, <1>4 DEF Bytes
<1>5. ASSUME Fail(c), call[c] # Idle, UNCHANGED pending
      PROVE  pending' - Bytes(c)' >= pending - Bytes(c)
  <2>1. call'[c].at \in {"idle", "failed"}
    BY <1>5, Failed, IdleAt DEF Moved
  <2> QED
    BY <1>2, <1>5, <2>1 DEF Holds
<1>6. ASSUME NEW s \in Sessions, NEW i, Grant(s, Length(s, i)) PROVE pending' = pending + Length(s, i)
  BY <1>6 DEF Grant
<1>7. ASSUME NEW s \in Sessions, NEW i, Refuse(s, Length(s, i)) PROVE UNCHANGED pending
  BY <1>7, LengthOfChunk, Refusing DEF TypeOK
<1>8. ASSUME Holds(c), ~Holds(c)', report_transferred(Length(call[c].session, call[c].index))
      PROVE  pending' - Bytes(c)' >= pending - Bytes(c)
  <2>1. Bytes(c)' = 0 /\ Bytes(c) = Length(call[c].session, call[c].index)
    BY <1>8 DEF Bytes
  <2>2. pending' = IF Bytes(c) < pending THEN pending - Bytes(c) ELSE 0
    BY <1>8, <2>1 DEF report_transferred, Reported
  <2> QED
    BY <1>1, <2>1, <2>2
<1>9. CASE Acquire(c)
  <2>1. call[c] # Idle /\ call[c].session \in Sessions /\ ~Holds(c)
    BY <1>9, OnItsWay, IdleAt DEF Acquire, Holds, Calls
  <2>2. CASE Grant(call[c].session, Length(call[c].session, call[c].index)) /\ GoTo(c, "check")
    <3>1. SameChunk(c)
      BY <2>1, <2>2, GoneTo DEF Moved, Stages
    <3> DEFINE n == Length(call[c].session, call[c].index)
    <3>2. n \in Nat /\ pending' = pending + n
      BY <1>6, <2>1, <2>2, LengthOfChunk
    <3>3. Bytes(c) = 0 /\ Bytes(c)' \in {0, n}
      BY <1>3, <2>1, <3>1 DEF Bytes
    <3> HIDE DEF n
    <3> QED
      BY <1>1, <3>2, <3>3
  <2>3. CASE Refuse(call[c].session, Length(call[c].session, call[c].index)) /\ Fail(c)
    BY <1>5, <1>7, <2>1, <2>3
  <2> QED
    BY <1>9, <2>2, <2>3 DEF Acquire
<1>10. CASE Check(c) \/ TakePermit(c) \/ WriteFails(c)
  <2>1. call[c] # Idle /\ Holds(c) /\ UNCHANGED pending
    BY <1>10, IdleAt DEF Check, TakePermit, WriteFails, Holds, rateVars
  <2>2. Fail(c) \/ \E stage \in Stages : GoTo(c, stage)
    BY <1>10 DEF Check, TakePermit, WriteFails, Stages
  <2>3. Fail(c) \/ SameChunk(c)
    BY <2>1, <2>2, GoneTo DEF Moved
  <2> QED
    BY <1>4, <1>5, <2>1, <2>3
<1>11. CASE Write(c)
  <2>1. call[c] # Idle /\ Holds(c) /\ report_transferred(Length(call[c].session, call[c].index))
    BY <1>11, IdleAt DEF Write, Holds
  <2>2. call'[c].at = "record"
    BY <1>11, <2>1, GoneTo DEF Write, Moved, Stages
  <2> QED
    BY <1>8, <2>1, <2>2 DEF Holds
<1>12. CASE SendRead(c)
  <2>1. call[c] # Idle /\ Holds(c)
    BY <1>12, IdleAt DEF SendRead, Holds
  <2>2. call'[c].at \in {"idle", "record"}
    BY <1>12, Sending, IdleAt DEF Sent
  <2>3. \/ report_transferred(Length(call[c].session, call[c].index))
        \/ UNCHANGED pending
    BY <1>12 DEF SendRead, rateVars
  <2> QED
    BY <1>2, <1>8, <2>1, <2>2, <2>3 DEF Holds
<1>13. CASE Record(c) \/ CountFailure(c) \/ Finalize(c) \/ Resume(c)
  <2>1. Return(c) /\ UNCHANGED pending
    BY <1>13 DEF Record, CountFailure, Finalize, Resume, rateVars
  <2> QED
    BY <1>2, <2>1, Returned, IdleAt DEF Holds
<1>14. CASE ReadBack(c)
  <2>1. UNCHANGED pending
    BY <1>14 DEF ReadBack, rateVars
  <2>2. call'[c] = Idle \/ (call'[c].at = "read" /\ call'[c].op \in Reading)
    BY <1>14, ReadingBack DEF ReadOne, SameChunk
  <2> QED
    BY <1>2, <2>1, <2>2, IdleAt DEF Holds, Reading
<1>15. CASE CallReceive(c) \/ CallFinalize(c) \/ CallResume(c)
  <2>1. UNCHANGED pending
    BY <1>15 DEF CallReceive, CallFinalize, CallResume, rateVars
  <2>2. \/ call'[c].at = "acquire"
        \/ call'[c].op \in Reading /\ call'[c].at = "read"
    BY <1>15 DEF CallReceive, CallFinalize, CallResume, BeginChunk, BeginRead, Reading, TypeOK
  <2> QED
    BY <1>2, <2>1, <2>2 DEF Holds, Reading
<1>16. CASE CallSend(c)
  <2>1. call[c].at = "idle" /\ ~Holds(c)
    BY <1>16, IdleAt DEF CallSend, Holds
  <2>2. PICK s \in Sessions : \E i \in Indices(FileOf[s]) :
          \/ Grant(s, Length(s, i)) /\ BeginChunk(c, "send_chunk", s, i, TRUE, "read")
          \/ Refuse(s, Length(s, i)) /\ UNCHANGED call
    BY <1>16 DEF CallSend
  <2>3. PICK i \in Indices(FileOf[s]) :
          \/ Grant(s, Length(s, i)) /\ BeginChunk(c, "send_chunk", s, i, TRUE, "read")
          \/ Refuse(s, Length(s, i)) /\ UNCHANGED call
    BY <2>2
  <2>4. CASE Grant(s, Length(s, i)) /\ BeginChunk(c, "send_chunk", s, i, TRUE, "read")
    <3>1. call'[c].session = s /\ call'[c].index = i
      BY <2>4 DEF BeginChunk, TypeOK
    <3>2. UNCHANGED size
      BY <1>16 DEF CallSend, sessionVars
    <3>3. Bytes(c)' \in {0, Length(s, i)}
      BY <3>1, <3>2 DEF Bytes, Length
    <3> DEFINE n == Length(s, i)
    <3>4. n \in Nat /\ pending' = pending + n
      BY <1>6, <2>4, LengthOfChunk
    <3>5. Bytes(c) = 0
      BY <2>1 DEF Bytes
    <3> HIDE DEF n
    <3> QED
      BY <1>1, <3>3, <3>4, <3>5 DEF n
  <2>5. CASE Refuse(s, Length(s, i)) /\ UNCHANGED call
    BY <1>2, <1>7, <2>1, <2>5 DEF Holds
  <2> QED
    BY <2>3, <2>4, <2>5
<1> QED
  BY <1>9, <1>10, <1>11, <1>12, <1>13, <1>14, <1>15, <1>16
     DEF Call, Run, receive_chunk, send_chunk, finalize_upload, resume_transfer

LEMMA StepQueue == TypeOK /\ ShapeInv /\ QueueCoversGranted /\ [Next]_vars => QueueCoversGranted'
<1> SUFFICES ASSUME TypeOK, TypeOK', ShapeInv, QueueCoversGranted, [Next]_vars
             PROVE  QueueCoversGranted'
  BY StepTypes
<1>1. CASE UNCHANGED <<call, pending>>
  <2>1. \A d \in Callers : HeldBy(d)' = HeldBy(d)
    BY <1>1, SameHeld
  <2>2. UNION {HeldBy(d)' : d \in Callers} = UNION {HeldBy(d) : d \in Callers}
    BY <2>1
  <2> QED
    BY <1>1, <2>2 DEF QueueCoversGranted, Granted
<1>2. ASSUME NEW c \in Callers, Call(c) \/ Run(c)
      PROVE  QueueCoversGranted'
  <2>1. \A d \in Callers \ {c} : HeldBy(d)' = HeldBy(d)
    BY <1>2, CallMoves, RunMoves, SameHeld DEF OthersSame
  <2>2. HeldByOthers(c)' = HeldByOthers(c)
    BY <2>1 DEF HeldByOthers
  <2>3. /\ Cardinality(HeldByOthers(c)) \in Nat
        /\ Granted = Cardinality(HeldByOthers(c)) + Bytes(c)
        /\ Bytes(c) \in Nat
    BY GrantedParts, BytesAreNat
  <2>4. Granted' = Cardinality(HeldByOthers(c)) + Bytes(c)' /\ Bytes(c)' \in Nat
    BY <2>2, PartsNext
  <2>5. pending' - Bytes(c)' >= pending - Bytes(c) /\ pending \in Nat /\ pending' \in Nat
    BY <1>2, BytesMove DEF TypeOK, RateTypeOK
  <2>6. pending >= Granted
    BY DEF QueueCoversGranted
  <2>7. pending' >= Granted'
    BY <2>3, <2>4, <2>5, <2>6
  <2> QED
    BY <2>7 DEF QueueCoversGranted
<1>3. CASE Crash
  <2>1. pending' = 0 /\ \A d \in Callers : call'[d] = Idle
    BY <1>3 DEF Crash
  <2>2. UNION {HeldBy(d)' : d \in Callers} = {}
    BY <2>1, IdleAt DEF HeldBy, Holds
  <2>3. Cardinality({}) = 0
    BY FS_EmptySet
  <2>4. Granted' = 0
    BY <2>2, <2>3 DEF Granted
  <2> QED
    BY <2>1, <2>4 DEF QueueCoversGranted
<1>4. ASSUME NEW s \in Sessions, initiate_upload(s) \/ initiate_download(s) \/ insert_session(s)
      PROVE  UNCHANGED <<call, pending>>
  BY <1>4 DEF initiate_upload, initiate_download, insert_session, rateVars
<1>5. Tick \/ UNCHANGED vars => UNCHANGED <<call, pending>>
  BY DEF Tick, Refill, vars, rateVars
<1> QED
  BY <1>1, <1>2, <1>3, <1>4, <1>5, StepKinds

\* With any calls at once, chunks of any length, damaged chunks, failed writes
\* and crashes, the queue counts at least the bytes that calls were granted and
\* have neither moved nor dropped (QueueCoversGranted): no report takes away
\* what another call was granted.
THEOREM GrantedIsQueued == Spec => []QueueCoversGranted
<1>1. Init => QueueCoversGranted
  <2> SUFFICES ASSUME Init PROVE QueueCoversGranted
    OBVIOUS
  <2>1. \A d \in Callers : HeldBy(d) = {}
    BY IdleAt DEF Init, HeldBy, Holds
  <2>2. UNION {HeldBy(d) : d \in Callers} = {} /\ Cardinality({}) = 0
    BY <2>1, FS_EmptySet
  <2>3. pending = 0
    BY DEF Init, RateInit
  <2> QED
    BY <2>2, <2>3 DEF QueueCoversGranted, Granted
<1> QED
  BY <1>1, InitTypes, StepTypes, InitShape, StepShape, StepQueue, PTL DEF Spec
=============================================================================
