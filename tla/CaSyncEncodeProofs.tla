------------------------- MODULE CaSyncEncodeProofs -------------------------
(***************************************************************************)
(* Proofs about the encode direction of the driver (CaSyncEncode), for    *)
(* every value of the constants.                                           *)
(***************************************************************************)
EXTENDS CaSyncEncode, SequenceTheorems, TLAPS

\* A unit of encoder output is a sequence of bytes.
LEMMA BlocksAreSeqs == Blocks \subseteq Seq(Bytes)
  BY ConstantsAssumption DEF Blocks

\* The archive-write outcomes of a unit leave a sequence of bytes written.
LEMMA WriteArchiveOutcomesType ==
  ASSUME NEW blk \in Seq(Bytes), written \in Seq(Bytes),
         NEW w \in WriteArchiveOutcomes(blk)
  PROVE  w.written \in Seq(Bytes)
  <1>1. CASE archiveFd' = "none"
    BY <1>1 DEF WriteArchiveOutcomes
  <1>2. CASE archiveFd' # "none" /\ w = [written |-> written \o blk, ok |-> TRUE]
    BY <1>2
  <1>3. CASE archiveFd' # "none" /\ w # [written |-> written \o blk, ok |-> TRUE]
    <2>1. PICK n \in 0..Len(blk) - 1 :
            w = [written |-> written \o SubSeq(blk, 1, n), ok |-> FALSE]
      BY <1>3 DEF WriteArchiveOutcomes
    <2>2. SubSeq(blk, 1, n) \in Seq(Bytes)
      BY SubSeqProperties
    <2>3. QED
      BY <2>1, <2>2
  <1>4. QED
    BY <1>1, <1>2, <1>3

\* A step whose ca_sync_start succeeds leaves the start's variables typed.
LEMMA StartedType ==
  ASSUME TypeOK, Started
  PROVE  /\ archiveFd' \in {"none", "user", "temp"}
         /\ temporaryArchivePath' \in BOOLEAN
         /\ tmpOnDisk' \in BOOLEAN
         /\ encoder' \in {"none", "created"}
         /\ baseFd' \in BOOLEAN
         /\ indexState' \in {"none", "new", "open", "sealed"}
  <1>1. /\ archiveFd' \in {"none", "user", "temp"}
        /\ temporaryArchivePath' \in BOOLEAN
        /\ tmpOnDisk' \in BOOLEAN
    BY DEF Started, ArchiveStarted, TypeOK
  <1>2. encoder' \in {"none", "created"} /\ baseFd' \in BOOLEAN
    BY DEF Started, EncoderStarted, TypeOK
  <1>3. indexState' \in {"none", "new", "open", "sealed"}
    BY DEF Started, IndexStarted, TypeOK
  <1>4. QED
    BY <1>1, <1>2, <1>3

\* A step that fails in ca_sync_start leaves the start's variables typed.
LEMMA StartFailsType ==
  ASSUME TypeOK, StartFails
  PROVE  /\ archiveFd' \in {"none", "user", "temp"}
         /\ temporaryArchivePath' \in BOOLEAN
         /\ tmpOnDisk' \in BOOLEAN
         /\ encoder' \in {"none", "created"}
         /\ baseFd' \in BOOLEAN
         /\ indexState' \in {"none", "new", "open", "sealed"}
  <1>1. /\ archiveFd' \in {"none", "user", "temp"}
        /\ temporaryArchivePath' \in BOOLEAN
        /\ tmpOnDisk' \in BOOLEAN
    BY DEF StartFails, ArchiveStarted, TypeOK
  <1>2. encoder' \in {"none", "created"} /\ baseFd' \in BOOLEAN
    BY DEF StartFails, EncoderStarted, TypeOK
  <1>3. indexState' \in {"none", "new", "open", "sealed"}
    BY DEF StartFails, IndexStarted, TypeOK
  <1>4. QED
    BY <1>1, <1>2, <1>3

\* The record indexed for a non-empty chunk is an index record.
LEMMA ChunkRecordType ==
  ASSUME NEW obj \in Seq(Bytes), obj # <<>>
  PROVE  ChunkRecord(obj) \in IndexRecords
  <1>1. Len(obj) \in Nat \ {0}
    BY EmptySeq
  <1>2. ObjectId(obj) \in ObjectIds
    BY DEF ObjectId, ObjectIds
  <1>3. QED
    BY <1>1, <1>2 DEF ChunkRecord, IndexRecords

\* ca_sync_write_one_chunk of a non-empty chunk keeps the store, the index
\* and the chunk history typed, whatever its outcome.
LEMMA WriteOneChunkType ==
  ASSUME TypeOK, NEW obj \in Seq(Bytes), obj # <<>>, NEW outcome,
         WriteOneChunk(obj, outcome)
  PROVE  /\ store' \subseteq Seq(Bytes)
         /\ index' \in Seq(IndexRecords)
         /\ chunked' \in Seq(Bytes)
  <1>1. store' \subseteq Seq(Bytes)
    BY DEF WriteOneChunk, TypeOK
  <1>2. index' \in Seq(IndexRecords)
    <2>1. Append(index, ChunkRecord(obj)) \in Seq(IndexRecords)
      BY ChunkRecordType, AppendProperties DEF TypeOK
    <2>2. QED
      BY <2>1 DEF WriteOneChunk, TypeOK
  <1>3. chunked' \in Seq(Bytes)
    BY ConcatProperties DEF WriteOneChunk, TypeOK
  <1>4. QED
    BY <1>1, <1>2, <1>3

\* A chunk cut at k >= 1 of the pending input is a non-empty byte sequence.
LEMMA ChunkObjectType ==
  ASSUME TypeOK, NEW k \in 1..Len(pending)
  PROVE  ChunkObject(k) \in Seq(Bytes) /\ ChunkObject(k) # <<>>
  <1>1. SubSeq(pending, 1, k) \in Seq(Bytes) /\ Len(SubSeq(pending, 1, k)) = k
    BY SubSeqProperties DEF TypeOK
  <1>2. buffer \o SubSeq(pending, 1, k) \in Seq(Bytes)
       /\ Len(buffer \o SubSeq(pending, 1, k)) = Len(buffer) + k
    BY <1>1, ConcatProperties DEF TypeOK
  <1>3. Len(buffer \o SubSeq(pending, 1, k)) # 0
    BY <1>2 DEF TypeOK
  <1>4. QED
    BY <1>2, <1>3, EmptySeq DEF ChunkObject

-----------------------------------------------------------------------------
(* Type correctness.                                                       *)

LEMMA InitTypeOK == Init => TypeOK
  <1> SUFFICES ASSUME Init PROVE TypeOK
    OBVIOUS
  <1>1. cfg \in ConfigRecords
    BY ConstantsAssumption DEF Init
  <1>2. /\ baseFd \in BOOLEAN
        /\ archiveFd \in {"none", "user", "temp"}
        /\ indexState \in {"none", "new", "open", "sealed"}
    BY <1>1 DEF Init, ConfigRecords
  <1>3. indexDigest \in ObjectIds \cup {NoDigest}
    BY DEF Init
  <1>4. /\ written \in Seq(Bytes) /\ archiveDigest \in Seq(Bytes)
        /\ buffer \in Seq(Bytes) /\ pending \in Seq(Bytes)
        /\ stream \in Seq(Bytes) /\ chunked \in Seq(Bytes)
        /\ index \in Seq(IndexRecords) /\ store \subseteq Seq(Bytes)
    BY EmptySeq DEF Init
  <1>5. /\ encoder \in {"none", "created"} /\ pc \in {"idle", "chunks"}
        /\ temporaryArchivePath \in BOOLEAN /\ tmpOnDisk \in BOOLEAN
        /\ atPath \in BOOLEAN /\ eof \in BOOLEAN
        /\ failed \in BOOLEAN /\ destroyed \in BOOLEAN
    BY DEF Init
  <1>6. QED
    BY <1>1, <1>2, <1>3, <1>4, <1>5 DEF TypeOK

LEMMA NextTypeOK == TypeOK /\ [Next]_vars => TypeOK'
  <1> SUFFICES ASSUME TypeOK, [Next]_vars PROVE TypeOK'
    OBVIOUS
  <1>1. CASE StepStartFails
    BY <1>1, StartFailsType DEF StepStartFails, TypeOK
  <1>2. CASE StepEncoderFails
    BY <1>2, StartedType DEF StepEncoderFails, TypeOK
  <1>3. CASE StepData
    <2>1. PICK blk \in Blocks : 
            /\ Len(stream) + Len(blk) <= MaxStream
            /\ stream' = stream \o blk
            /\ \E w \in WriteArchiveOutcomes(blk) :
                 /\ written' = w.written
                 /\ \/ /\ w.ok
                       /\ WriteArchiveDigest(blk)
                       /\ WriteChunksBegin(blk)
                       /\ UNCHANGED failed
                    \/ /\ ~w.ok
                       /\ failed' = TRUE
                       /\ UNCHANGED <<archiveDigest, pending, pc>>
      BY <1>3 DEF StepData
    <2>2. blk \in Seq(Bytes)
      BY BlocksAreSeqs
    <2>3. Started
      BY <1>3 DEF StepData
    <2>4. /\ archiveFd' \in {"none", "user", "temp"}
          /\ temporaryArchivePath' \in BOOLEAN
          /\ tmpOnDisk' \in BOOLEAN
          /\ encoder' \in {"none", "created"}
          /\ baseFd' \in BOOLEAN
          /\ indexState' \in {"none", "new", "open", "sealed"}
      BY <2>3, StartedType
    <2>5. PICK w \in WriteArchiveOutcomes(blk) :
            /\ written' = w.written
            /\ \/ /\ w.ok
                  /\ WriteArchiveDigest(blk)
                  /\ WriteChunksBegin(blk)
                  /\ UNCHANGED failed
               \/ /\ ~w.ok
                  /\ failed' = TRUE
                  /\ UNCHANGED <<archiveDigest, pending, pc>>
      BY <2>1
    <2>6. written' \in Seq(Bytes)
      BY <2>2, <2>5, WriteArchiveOutcomesType DEF TypeOK
    <2>7. /\ archiveDigest' \in Seq(Bytes)
          /\ pending' \in Seq(Bytes)
          /\ pc' \in {"idle", "chunks"}
          /\ failed' \in BOOLEAN
      <3>1. CASE WriteArchiveDigest(blk) /\ WriteChunksBegin(blk) /\ UNCHANGED failed
        BY <3>1, <2>2, ConcatProperties DEF WriteArchiveDigest, WriteChunksBegin, TypeOK
      <3>2. CASE failed' = TRUE /\ UNCHANGED <<archiveDigest, pending, pc>>
        BY <3>2 DEF TypeOK
      <3>3. QED
        BY <2>5, <3>1, <3>2
    <2>8. stream' \in Seq(Bytes)
      BY <2>1, <2>2 DEF TypeOK
    <2>9. QED
      BY <1>3, <2>4, <2>6, <2>7, <2>8 DEF StepData, TypeOK
  <1>4. CASE ChunkerNoBoundary
    BY <1>4 DEF ChunkerNoBoundary, TypeOK
  <1>5. CASE WriteChunk
    <2>1. PICK k \in 1..Len(pending) :
            /\ WriteOneChunk(ChunkObject(k), "ok")
            /\ buffer' = <<>>
            /\ pending' = SubSeq(pending, k + 1, Len(pending))
            /\ pc' = IF k = Len(pending) THEN "idle" ELSE "chunks"
      BY <1>5 DEF WriteChunk
    <2>2. ChunkObject(k) \in Seq(Bytes) /\ ChunkObject(k) # <<>>
      BY ChunkObjectType
    <2>3. /\ store' \subseteq Seq(Bytes)
          /\ index' \in Seq(IndexRecords)
          /\ chunked' \in Seq(Bytes)
      BY <2>1, <2>2, WriteOneChunkType
    <2>4. pending' \in Seq(Bytes)
      BY <2>1, SubSeqProperties DEF TypeOK
    <2>5. QED
      BY <1>5, <2>1, <2>3, <2>4 DEF WriteChunk, TypeOK
  <1>6. CASE WriteChunkFails
    <2>1. PICK k \in 1..Len(pending), outcome \in ChunkOutcomes \ {"ok"} :
            /\ WriteOneChunk(ChunkObject(k), outcome)
            /\ buffer' = IF buffer = <<>> THEN <<>> ELSE ChunkObject(k)
      BY <1>6 DEF WriteChunkFails
    <2>2. ChunkObject(k) \in Seq(Bytes) /\ ChunkObject(k) # <<>>
      BY ChunkObjectType
    <2>3. /\ store' \subseteq Seq(Bytes)
          /\ index' \in Seq(IndexRecords)
          /\ chunked' \in Seq(Bytes)
          /\ buffer' \in Seq(Bytes)
      BY <2>1, <2>2, WriteOneChunkType DEF TypeOK
    <2>4. QED
      BY <1>6, <2>3 DEF WriteChunkFails, TypeOK
  <1>7. CASE StepFinished
    <2>1. /\ atPath' \in BOOLEAN
          /\ tmpOnDisk' \in BOOLEAN
          /\ temporaryArchivePath' \in BOOLEAN
      BY <1>7 DEF StepFinished, RenameArchive, TypeOK
    <2>2. CASE RenameArchive /\ WriteFinalChunk
      <3>1. CASE /\ ~cfg.wstore \/ buffer = <<>>
                 /\ eof' = TRUE
                 /\ UNCHANGED <<store, index, chunked, indexState, indexDigest, failed>>
        BY <1>7, <2>1, <3>1 DEF StepFinished, TypeOK
      <3>2. CASE /\ cfg.wstore
                 /\ buffer # <<>>
                 /\ \E outcome \in ChunkOutcomes \ {"ok"} : WriteOneChunk(buffer, outcome)
                 /\ failed' = TRUE
                 /\ UNCHANGED <<indexState, indexDigest, eof>>
        BY <1>7, <2>1, <3>2, WriteOneChunkType DEF StepFinished, TypeOK
      <3>3. CASE /\ cfg.wstore
                 /\ buffer # <<>>
                 /\ WriteOneChunk(buffer, "ok")
                 /\ \/ /\ indexState = "none"
                       /\ eof' = TRUE
                       /\ UNCHANGED <<indexState, indexDigest, failed>>
                    \/ /\ indexState # "none"
                       /\ indexState' = "sealed"
                       /\ indexDigest' = ObjectId(archiveDigest)
                       /\ eof' = TRUE
                       /\ UNCHANGED failed
                    \/ /\ indexState # "none"
                       /\ MayFail("index_seal")
                       /\ failed' = TRUE
                       /\ UNCHANGED <<indexState, indexDigest, eof>>
        <4>1. /\ store' \subseteq Seq(Bytes)
              /\ index' \in Seq(IndexRecords)
              /\ chunked' \in Seq(Bytes)
          BY <3>3, WriteOneChunkType DEF TypeOK
        <4>2. /\ indexState' \in {"none", "new", "open", "sealed"}
              /\ indexDigest' \in ObjectIds \cup {NoDigest}
              /\ eof' \in BOOLEAN
              /\ failed' \in BOOLEAN
          <5>1. ObjectId(archiveDigest) \in ObjectIds
            BY DEF ObjectId, ObjectIds, TypeOK
          <5>2. QED
            BY <3>3, <5>1 DEF TypeOK
        <4>3. QED
          BY <1>7, <2>1, <4>1, <4>2 DEF StepFinished, TypeOK
      <3>4. QED
        BY <2>2, <3>1, <3>2, <3>3 DEF WriteFinalChunk
    <2>3. CASE /\ NeedRename
               /\ MayFail("rename")
               /\ failed' = TRUE
               /\ UNCHANGED <<atPath, tmpOnDisk, temporaryArchivePath, store, index,
                              chunked, indexState, indexDigest, eof>>
      BY <1>7, <2>3 DEF StepFinished, TypeOK
    <2>4. QED
      BY <1>7, <2>2, <2>3 DEF StepFinished
  <1>8. CASE Destroy
    <2>1. tmpOnDisk' \in BOOLEAN /\ temporaryArchivePath' \in BOOLEAN
          /\ destroyed' \in BOOLEAN
      BY <1>8, Zenon DEF Destroy, UnlinkTemporary, TypeOK
    <2> QED
      BY <1>8, <2>1 DEF Destroy, TypeOK
  <1>9. CASE UNCHANGED vars
    BY <1>9 DEF vars, TypeOK
  <1>10. QED
    BY <1>1, <1>2, <1>3, <1>4, <1>5, <1>6, <1>7, <1>8, <1>9 DEF Next, DriverStep

-----------------------------------------------------------------------------
(* The chunk partition.  ChunkPartition alone is not inductive: a step     *)
(* that starts ca_sync_write_chunks needs to know that no input is left    *)
(* pending between steps, and a turn of the loop needs to know that the    *)
(* loop only runs for a writable store, before eof and after no error.     *)

PartitionInv ==
    /\ pc = "idle" => pending = <<>>
    /\ pc = "chunks" => cfg.wstore /\ ~failed /\ ~eof
    /\ ChunkPartition

IInv == TypeOK /\ PartitionInv

\* Concatenation of byte sequences is associative.
LEMMA BytesConcatAssociative ==
  ASSUME NEW s \in Seq(Bytes), NEW t \in Seq(Bytes), NEW u \in Seq(Bytes)
  PROVE  (s \o t) \o u = s \o (t \o u)
  BY ConcatAssociative

\* Between steps, with a writable store and no error, the stored chunks
\* followed by the chunker's buffer are the whole stream emitted so far.
LEMMA IdlePartition ==
  ASSUME TypeOK, PartitionInv, pc = "idle", cfg.wstore, ~failed, ~eof
  PROVE  chunked \o buffer = stream
  <1>1. (chunked \o buffer) \o <<>> = stream
    BY DEF PartitionInv, ChunkPartition
  <1>2. chunked \o buffer \in Seq(Bytes)
    BY ConcatProperties DEF TypeOK
  <1>3. QED
    BY <1>1, <1>2, ConcatEmptySeq

LEMMA InitIInv == Init => IInv
  <1> SUFFICES ASSUME Init PROVE IInv
    OBVIOUS
  <1>1. TypeOK
    BY InitTypeOK
  <1>2. PartitionInv
    BY DEF Init, PartitionInv, ChunkPartition
  <1>3. QED
    BY <1>1, <1>2 DEF IInv

\* The failing steps set the error latch and leave the loop idle.
LEMMA FailedStepPartition ==
  ASSUME TypeOK, PartitionInv, pc = "idle", failed' = TRUE,
         UNCHANGED <<pc, pending>>
  PROVE  PartitionInv'
  BY DEF PartitionInv, ChunkPartition

LEMMA NextIInv == IInv /\ [Next]_vars => IInv'
  <1> SUFFICES ASSUME TypeOK, PartitionInv, [Next]_vars PROVE IInv'
    BY DEF IInv
  <1>0. TypeOK'
    BY NextTypeOK
  <1> SUFFICES PartitionInv'
    BY <1>0 DEF IInv
  <1>1. CASE StepStartFails
    BY <1>1, FailedStepPartition DEF StepStartFails, CanStep
  <1>2. CASE StepEncoderFails
    BY <1>2, FailedStepPartition DEF StepEncoderFails, CanStep
  <1>3. CASE StepData
    <2>1. PICK blk \in Blocks :
            /\ stream' = stream \o blk
            /\ \E w \in WriteArchiveOutcomes(blk) :
                 \/ /\ w.ok
                    /\ WriteArchiveDigest(blk)
                    /\ WriteChunksBegin(blk)
                    /\ UNCHANGED failed
                 \/ /\ ~w.ok
                    /\ failed' = TRUE
                    /\ UNCHANGED <<archiveDigest, pending, pc>>
      BY <1>3 DEF StepData
    <2>2. blk \in Seq(Bytes)
      BY BlocksAreSeqs
    <2>3. CASE WriteChunksBegin(blk) /\ UNCHANGED failed /\ cfg.wstore
      <3>1. pending' = blk /\ pc' = "chunks"
        BY <2>3 DEF WriteChunksBegin
      <3>2. chunked \o buffer = stream
        BY <1>3, <2>3, IdlePartition DEF StepData, CanStep
      <3>3. (chunked \o buffer) \o blk = stream \o blk
        BY <3>2
      <3>4. QED
        BY <1>3, <2>1, <2>3, <3>1, <3>3 DEF StepData, CanStep, PartitionInv, ChunkPartition
    <2>4. CASE WriteChunksBegin(blk) /\ UNCHANGED failed /\ ~cfg.wstore
      BY <1>3, <2>4 DEF StepData, CanStep, WriteChunksBegin, PartitionInv, ChunkPartition
    <2>5. CASE failed' = TRUE /\ UNCHANGED <<pending, pc>>
      BY <1>3, <2>5, FailedStepPartition DEF StepData, CanStep
    <2>6. QED
      BY <2>1, <2>3, <2>4, <2>5
  <1>4. CASE ChunkerNoBoundary
    <2>1. (chunked \o buffer) \o pending = chunked \o (buffer \o pending)
      BY BytesConcatAssociative DEF TypeOK
    <2>2. (chunked \o (buffer \o pending)) \o <<>> = chunked \o (buffer \o pending)
      BY ConcatProperties, ConcatEmptySeq DEF TypeOK
    <2>3. QED
      BY <1>4, <2>1, <2>2 DEF ChunkerNoBoundary, PartitionInv, ChunkPartition
  <1>5. CASE WriteChunk
    <2>1. PICK k \in 1..Len(pending) :
            /\ WriteOneChunk(ChunkObject(k), "ok")
            /\ buffer' = <<>>
            /\ pending' = SubSeq(pending, k + 1, Len(pending))
            /\ pc' = IF k = Len(pending) THEN "idle" ELSE "chunks"
      BY <1>5 DEF WriteChunk
    <2> DEFINE head == SubSeq(pending, 1, k)
               rest == SubSeq(pending, k + 1, Len(pending))
    <2>2. head \in Seq(Bytes) /\ rest \in Seq(Bytes)
      BY SubSeqProperties DEF TypeOK
    <2>3. head \o rest = pending
      BY ConcatAdjacentSubSeq, SubSeqFull DEF TypeOK
    <2>4. chunked' = chunked \o (buffer \o head)
      BY <2>1 DEF WriteOneChunk, ChunkObject
    <2>5. (chunked' \o buffer') \o pending' = (chunked \o buffer) \o pending
      <3>1. chunked \o (buffer \o head) = (chunked \o buffer) \o head
        <4>1. chunked \in Seq(Bytes) /\ buffer \in Seq(Bytes)
          BY DEF TypeOK
        <4>2. QED
          BY <2>2, <4>1, BytesConcatAssociative, Zenon
      <3>2. ((chunked \o buffer) \o head) \o rest = (chunked \o buffer) \o (head \o rest)
        <4>1. chunked \o buffer \in Seq(Bytes)
          BY ConcatProperties DEF TypeOK
        <4>2. QED
          BY <2>2, <4>1, BytesConcatAssociative
      <3>3. (chunked \o (buffer \o head)) \o <<>> = chunked \o (buffer \o head)
        BY <2>2, ConcatProperties, ConcatEmptySeq DEF TypeOK
      <3>4. (chunked' \o buffer') \o pending' = (chunked \o (buffer \o head)) \o rest
        BY <2>1, <2>4, <3>3
      <3>5. QED
        BY <2>3, <3>1, <3>2, <3>4
    <2>6. k = Len(pending) => rest = <<>>
      BY SubSeqEmpty DEF TypeOK
    <2>7. QED
      BY <1>5, <2>1, <2>5, <2>6 DEF WriteChunk, PartitionInv, ChunkPartition
  <1>6. CASE WriteChunkFails
    BY <1>6 DEF WriteChunkFails, PartitionInv, ChunkPartition
  <1>7. CASE StepFinished
    <2>1. pc = "idle" /\ pending = <<>> /\ ~eof /\ ~failed
          /\ UNCHANGED <<cfg, pc, pending, stream>>
      BY <1>7 DEF StepFinished, CanStep, PartitionInv
    <2>2. CASE failed' = TRUE
      BY <2>1, <2>2 DEF PartitionInv, ChunkPartition
    <2>3. CASE ~cfg.wstore
      BY <2>1, <2>3 DEF PartitionInv, ChunkPartition
    <2>4. CASE cfg.wstore /\ failed' = FALSE
      <3>1. chunked \o buffer = stream
        BY <2>1, <2>4, IdlePartition
      <3>2. RenameArchive /\ WriteFinalChunk
        BY <1>7, <2>4 DEF StepFinished
      <3>3. CASE buffer = <<>> /\ eof' = TRUE /\ UNCHANGED chunked
        <4>1. chunked = stream
          BY <3>1, <3>3, ConcatEmptySeq DEF TypeOK
        <4>2. QED
          BY <2>1, <2>4, <3>3, <4>1 DEF PartitionInv, ChunkPartition
      <3>4. CASE WriteOneChunk(buffer, "ok") /\ eof' = TRUE
        BY <2>1, <2>4, <3>1, <3>4 DEF WriteOneChunk, PartitionInv, ChunkPartition
      <3>5. QED
        BY <2>4, <3>2, <3>3, <3>4 DEF WriteFinalChunk
    <2>5. QED
      BY <1>0, <2>2, <2>3, <2>4 DEF TypeOK
  <1>8. CASE Destroy
    BY <1>8 DEF Destroy, PartitionInv, ChunkPartition
  <1>9. CASE UNCHANGED vars
    BY <1>9 DEF vars, PartitionInv, ChunkPartition
  <1>10. QED
    BY <1>1, <1>2, <1>3, <1>4, <1>5, <1>6, <1>7, <1>8, <1>9 DEF Next, DriverStep

\* Every byte the encoder hands to ca_sync_write_chunks ends up, in order,
\* in exactly one place: a stored chunk, the chunker's buffer or the input
\* still pending in the loop; at eof the stored chunks are the whole
\* archive stream.  This is the property a wrong cut offset, a lost
\* zero-copy chunk or a buffer not reset after a cut would break.
THEOREM PartitionCorrect == Spec => []ChunkPartition
  <1>1. IInv => ChunkPartition
    BY DEF IInv, PartitionInv
  <1>2. QED
    BY InitIInv, NextIInv, <1>1, PTL DEF Spec

\* Every reachable state of the encode driver is well typed.
THEOREM TypeCorrect == Spec => []TypeOK
  BY InitTypeOK, NextTypeOK, PTL DEF Spec
====
