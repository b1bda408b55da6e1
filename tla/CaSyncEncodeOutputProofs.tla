---------------------- MODULE CaSyncEncodeOutputProofs ----------------------
(***************************************************************************)
(* Proofs about the outputs of the encode driver (CaSyncEncode): the      *)
(* archive file, the temporary archive and the index, for every value of  *)
(* the constants.                                                          *)
(***************************************************************************)
EXTENDS CaSyncEncodeProofs, CaSyncFlattenProofs

(***************************************************************************)
(* ArchiveOutputFaithful and NoLeakedTemp are not inductive.  A step that *)
(* opens the temporary archive must know that nothing was written and     *)
(* nothing emitted before it; a rename must know that the temporary path  *)
(* belongs to an open archive fd that saw every byte; and once the file   *)
(* is at archive_path (or eof latched) the driver must take no more data  *)
(* steps, which holds because every such state has latched eof or an     *)
(* error.                                                                  *)
(***************************************************************************)
OutputInv ==
    /\ NoLeakedTemp
    /\ temporaryArchivePath => archiveFd = "temp"
    /\ archiveFd = "none" => written = <<>>
    /\ NeedTemporaryArchive => stream = <<>>
    /\ archiveFd # "none" /\ ~failed => written = stream
    /\ atPath => written = stream /\ (eof \/ failed)
    /\ eof => ~failed

OInv == IInv /\ OutputInv /\ IndexRecordsStored

LEMMA InitOInv == Init => OInv
  <1> SUFFICES ASSUME Init PROVE OInv
    OBVIOUS
  <1>1. IInv
    BY InitIInv
  <1>2. OutputInv /\ IndexRecordsStored
    BY DEF Init, OutputInv, NoLeakedTemp, NeedTemporaryArchive, IndexRecordsStored
  <1>3. QED
    BY <1>1, <1>2 DEF OInv

\* A ca_sync_start that gets past the archive (casync.c:379-392) leaves no
\* temporary archive to create, and an open archive fd has seen the stream.
LEMMA ArchiveStartedOut ==
  ASSUME OutputInv, ~failed, ArchiveStarted, cfg' = cfg
  PROVE  /\ NoLeakedTemp'
         /\ temporaryArchivePath' => archiveFd' = "temp"
         /\ archiveFd' = "none" => archiveFd = "none"
         /\ ~NeedTemporaryArchive'
         /\ archiveFd' # "none" => written = stream
  <1>1. CASE NeedTemporaryArchive
    <2>1. written = <<>> /\ stream = <<>>
      BY <1>1 DEF OutputInv, NeedTemporaryArchive
    <2> QED BY <1>1, <2>1 DEF ArchiveStarted, NoLeakedTemp, NeedTemporaryArchive
  <1>2. CASE ~NeedTemporaryArchive
    BY <1>2 DEF ArchiveStarted, OutputInv, NoLeakedTemp, NeedTemporaryArchive
  <1> QED BY <1>1, <1>2

\* ca_sync_write_one_chunk puts the object before it indexes it
\* (casync.c:520-546): whatever the outcome, every record, old or new,
\* still names an object the store holds, of the recorded size.
LEMMA WriteOneChunkStored ==
  ASSUME NEW obj, NEW outcome, index \in Seq(IndexRecords), IndexRecordsStored,
         WriteOneChunk(obj, outcome)
  PROVE  IndexRecordsStored'
  <1>1. store \subseteq store'
    BY DEF WriteOneChunk
  <1>2. CASE outcome = "ok" /\ indexState # "none"
    <2>1. index' = Append(index, ChunkRecord(obj)) /\ obj \in store'
      BY <1>2 DEF WriteOneChunk
    <2>2. ASSUME NEW i \in DOMAIN index'
          PROVE  \E p \in store' : ObjectId(p) = index'[i].id /\ Len(p) = index'[i].size
      <3>1. CASE i \in DOMAIN index
        <4>1. index'[i] = index[i]
          BY <2>1, <3>1
        <4>2. PICK p \in store : ObjectId(p) = index[i].id /\ Len(p) = index[i].size
          BY <3>1 DEF IndexRecordsStored
        <4> QED BY <1>1, <4>1, <4>2
      <3>2. CASE i \notin DOMAIN index
        <4>1. index'[i] = ChunkRecord(obj)
          BY <2>1, <3>2
        <4> QED BY <2>1, <4>1 DEF ChunkRecord
      <3> QED BY <3>1, <3>2
    <2> QED BY <2>2 DEF IndexRecordsStored
  <1>3. CASE ~(outcome = "ok" /\ indexState # "none")
    <2>1. index' = index
      BY <1>3 DEF WriteOneChunk
    <2> QED BY <1>1, <2>1 DEF IndexRecordsStored
  <1> QED BY <1>2, <1>3

LEMMA NextIndexStored ==
  ASSUME TypeOK, IndexRecordsStored, [Next]_vars
  PROVE  IndexRecordsStored'
  <1> USE DEF TypeOK
  <1>1. CASE UNCHANGED <<store, index>>
    BY <1>1 DEF IndexRecordsStored
  <1>2. CASE WriteChunk
    BY <1>2, WriteOneChunkStored DEF WriteChunk
  <1>3. CASE WriteChunkFails
    BY <1>3, WriteOneChunkStored DEF WriteChunkFails
  <1>4. CASE StepFinished /\ ~UNCHANGED <<store, index>>
    <2>1. WriteFinalChunk
      BY <1>4 DEF StepFinished
    <2> QED BY <1>4, <2>1, WriteOneChunkStored DEF WriteFinalChunk
  <1> QED
    BY <1>1, <1>2, <1>3, <1>4
       DEF Next, DriverStep, StepStartFails, StepEncoderFails, StepData,
           ChunkerNoBoundary, Destroy, vars

\* Between steps the caller may step only while no file is published yet.
LEMMA CanStepNotPublished ==
  ASSUME OutputInv, CanStep
  PROVE  ~atPath /\ ~eof /\ ~failed
  BY DEF OutputInv, CanStep

LEMMA NextOutputInv ==
  ASSUME IInv, OutputInv, [Next]_vars
  PROVE  OutputInv'
  <1>1. CASE StepStartFails
    <2>1. ~atPath /\ ~eof /\ ~failed
      BY <1>1, CanStepNotPublished DEF StepStartFails
    <2>2. failed' = TRUE /\ UNCHANGED <<cfg, atPath, written, eof, stream>>
      BY <1>1 DEF StepStartFails
    <2>3. CASE UNCHANGED <<archiveFd, temporaryArchivePath, tmpOnDisk>>
      BY <2>1, <2>2, <2>3 DEF OutputInv, NoLeakedTemp, NeedTemporaryArchive
    <2>4. CASE ArchiveStarted
      <3>1. /\ NoLeakedTemp'
            /\ temporaryArchivePath' => archiveFd' = "temp"
            /\ archiveFd' = "none" => archiveFd = "none"
            /\ ~NeedTemporaryArchive'
        BY <2>1, <2>2, <2>4, ArchiveStartedOut
      <3> QED BY <2>1, <2>2, <3>1 DEF OutputInv
    <2> QED BY <1>1, <2>3, <2>4 DEF StepStartFails, StartFails
  <1>2. CASE StepEncoderFails
    <2>1. ~atPath /\ ~eof /\ ~failed
      BY <1>2, CanStepNotPublished DEF StepEncoderFails
    <2>2. failed' = TRUE /\ UNCHANGED <<cfg, atPath, written, eof, stream>>
          /\ ArchiveStarted
      BY <1>2 DEF StepEncoderFails, Started
    <2>3. /\ NoLeakedTemp'
          /\ temporaryArchivePath' => archiveFd' = "temp"
          /\ archiveFd' = "none" => archiveFd = "none"
          /\ ~NeedTemporaryArchive'
      BY <2>1, <2>2, ArchiveStartedOut
    <2> QED BY <2>1, <2>2, <2>3 DEF OutputInv
  <1>3. CASE StepData
    <2>1. ~atPath /\ ~eof /\ ~failed /\ ArchiveStarted
          /\ UNCHANGED <<cfg, atPath, eof>>
      BY <1>3, CanStepNotPublished DEF StepData, Started
    <2>2. /\ NoLeakedTemp'
          /\ temporaryArchivePath' => archiveFd' = "temp"
          /\ archiveFd' = "none" => archiveFd = "none"
          /\ ~NeedTemporaryArchive'
          /\ archiveFd' # "none" => written = stream
      BY <2>1, ArchiveStartedOut
    <2>0. PICK blk \in Blocks :
            /\ stream' = stream \o blk
            /\ \E w \in WriteArchiveOutcomes(blk) :
                 /\ written' = w.written
                 /\ \/ w.ok /\ UNCHANGED failed
                    \/ ~w.ok /\ failed' = TRUE
      BY <1>3 DEF StepData
    <2>3. PICK w \in WriteArchiveOutcomes(blk) :
            /\ stream' = stream \o blk
            /\ written' = w.written
            /\ \/ w.ok /\ UNCHANGED failed
               \/ ~w.ok /\ failed' = TRUE
      BY <2>0
    <2>4. CASE w.ok /\ archiveFd' = "none"
      <3>1. written' = written /\ written = <<>>
        BY <2>2, <2>3, <2>4 DEF WriteArchiveOutcomes, OutputInv
      <3> QED BY <2>1, <2>2, <2>3, <2>4, <3>1 DEF OutputInv
    <2>5. CASE w.ok /\ archiveFd' # "none"
      <3>1. written' = written \o blk
        BY <2>3, <2>5 DEF WriteArchiveOutcomes
      <3>2. written' = stream'
        BY <2>2, <2>3, <2>5, <3>1
      <3> QED BY <2>1, <2>2, <2>3, <2>5, <3>2 DEF OutputInv
    <2>6. CASE ~w.ok
      <3>1. archiveFd' # "none" /\ failed' = TRUE
        BY <2>3, <2>6 DEF WriteArchiveOutcomes
      <3> QED BY <2>1, <2>2, <3>1 DEF OutputInv
    <2> QED BY <2>3, <2>4, <2>5, <2>6
  <1>4. CASE ChunkerNoBoundary \/ WriteChunk
    BY <1>4 DEF ChunkerNoBoundary, WriteChunk, OutputInv, NoLeakedTemp, NeedTemporaryArchive
  <1>5. CASE WriteChunkFails
    <2>1. ~eof
      BY <1>5 DEF WriteChunkFails, IInv, PartitionInv
    <2> QED BY <1>5, <2>1 DEF WriteChunkFails, OutputInv, NoLeakedTemp, NeedTemporaryArchive
  <1>6. CASE StepFinished
    <2>1. ~atPath /\ ~eof /\ ~failed
          /\ UNCHANGED <<cfg, archiveFd, written, stream>>
      BY <1>6, CanStepNotPublished DEF StepFinished
    <2>2. CASE NeedRename /\ failed' = TRUE
               /\ UNCHANGED <<atPath, tmpOnDisk, temporaryArchivePath, eof>>
      BY <2>1, <2>2 DEF OutputInv, NoLeakedTemp, NeedTemporaryArchive
    <2>3. CASE RenameArchive /\ WriteFinalChunk
      <3>1. eof' \/ failed'
        BY <2>3 DEF WriteFinalChunk
      <3>2. eof' => ~failed'
        BY <2>1, <2>3 DEF WriteFinalChunk
      <3>3. CASE NeedRename
        <4>1. archiveFd = "temp"
          BY <3>3 DEF NeedRename, OutputInv
        <4>2. written = stream
          BY <2>1, <4>1 DEF OutputInv
        <4>3. atPath' /\ ~tmpOnDisk' /\ ~temporaryArchivePath'
          BY <2>3, <3>3 DEF RenameArchive
        <4> QED BY <2>1, <3>1, <3>2, <4>2, <4>3 DEF OutputInv, NoLeakedTemp, NeedTemporaryArchive
      <3>4. CASE ~NeedRename
        <4>1. UNCHANGED <<atPath, tmpOnDisk, temporaryArchivePath>>
          BY <2>3, <3>4 DEF RenameArchive
        <4> QED BY <2>1, <3>2, <4>1 DEF OutputInv, NoLeakedTemp, NeedTemporaryArchive
      <3> QED BY <3>3, <3>4
    <2> QED BY <1>6, <2>2, <2>3 DEF StepFinished
  <1>7. CASE Destroy
    BY <1>7 DEF Destroy, UnlinkTemporary, OutputInv, NoLeakedTemp, NeedTemporaryArchive
  <1>8. CASE UNCHANGED vars
    BY <1>8 DEF vars, OutputInv, NoLeakedTemp, NeedTemporaryArchive
  <1> QED BY <1>1, <1>2, <1>3, <1>4, <1>5, <1>6, <1>7, <1>8 DEF Next, DriverStep

LEMMA NextOInv == OInv /\ [Next]_vars => OInv'
  <1> SUFFICES ASSUME OInv, [Next]_vars PROVE OInv'
    OBVIOUS
  <1>1. IInv'
    BY NextIInv DEF OInv
  <1>2. OutputInv'
    BY NextOutputInv DEF OInv
  <1>3. IndexRecordsStored'
    BY NextIndexStored DEF OInv, IInv
  <1> QED BY <1>1, <1>2, <1>3 DEF OInv

LEMMA OInvCorrect == Spec => []OInv
  BY InitOInv, NextOInv, PTL DEF Spec

\* The archive output of a successful encode is exactly the stream the
\* encoder handed out (ArchiveOutputFaithful, checked by encode_safety):
\* a user archive fd at eof, and a file renamed to archive_path even when
\* the step that renamed it failed afterwards.  It rests on the temporary
\* archive being created before the first byte, loop_write reporting a
\* short write as an error, and no data step after eof or an error.
THEOREM ArchiveFaithful == Spec => []ArchiveOutputFaithful
  <1>1. OInv => ArchiveOutputFaithful
    BY DEF OInv, OutputInv, ArchiveOutputFaithful
  <1> QED BY <1>1, OInvCorrect, PTL

\* A temporary archive on disk always has its path kept (NoLeakedTemp,
\* checked by encode_safety): the rename at FINISHED clears both, and
\* ca_sync_unref unlinks the file whose path it still holds.
THEOREM TempArchiveCleaned == Spec => []NoLeakedTemp
  <1>1. OInv => NoLeakedTemp
    BY DEF OInv, OutputInv
  <1> QED BY <1>1, OInvCorrect, PTL

\* Every index record names an object the writable store holds, of the
\* recorded size (IndexRecordsStored, checked by encode_safety): in
\* ca_sync_write_one_chunk ca_store_put precedes ca_index_write_object,
\* whichever of the calls fails.
THEOREM IndexedChunksStored == Spec => []IndexRecordsStored
  <1>1. OInv => IndexRecordsStored
    BY DEF OInv
  <1> QED BY <1>1, OInvCorrect, PTL

-----------------------------------------------------------------------------
(* The index digest.                                                       *)

\* The digest half of SealedIndexDescribesArchive (spec.md invariant 9): a
\* sealed index carries SHA-256 of the whole archive stream.
SealedDigest == indexState = "sealed" => indexDigest = ObjectId(stream)

\* Its inductive form: until an error the archive digest has absorbed
\* every byte handed out, and the index is sealed only by the step that
\* latches eof, after which nothing is absorbed.
DigestInv ==
    /\ ~failed => archiveDigest = stream
    /\ indexState = "sealed" => eof /\ indexDigest = ObjectId(stream)

\* ca_sync_start never seals the index.
LEMMA StartNeverSeals ==
  ASSUME Started \/ StartFails, indexState # "sealed"
  PROVE  indexState' # "sealed"
  BY DEF Started, StartFails, IndexStarted

LEMMA NextDigestInv ==
  ASSUME OInv, DigestInv, [Next]_vars
  PROVE  DigestInv'
  <1> USE DEF DigestInv
  <1>0. ASSUME CanStep PROVE ~eof /\ ~failed /\ indexState # "sealed"
    BY <1>0 DEF CanStep
  <1>1. CASE StepStartFails \/ StepEncoderFails
    <2>1. indexState' # "sealed" /\ failed' = TRUE
      BY <1>0, <1>1, StartNeverSeals DEF StepStartFails, StepEncoderFails
    <2> QED BY <2>1
  <1>2. CASE StepData
    <2>1. indexState' # "sealed"
      BY <1>0, <1>2, StartNeverSeals DEF StepData
    <2>2. PICK blk \in Blocks :
            /\ stream' = stream \o blk
            /\ \E w \in WriteArchiveOutcomes(blk) :
                 \/ w.ok /\ WriteArchiveDigest(blk) /\ UNCHANGED failed
                 \/ ~w.ok /\ failed' = TRUE
      BY <1>2 DEF StepData
    <2> QED BY <1>0, <1>2, <2>1, <2>2 DEF StepData, WriteArchiveDigest
  <1>3. CASE ChunkerNoBoundary \/ WriteChunk \/ WriteChunkFails
    BY <1>3 DEF ChunkerNoBoundary, WriteChunk, WriteChunkFails
  <1>4. CASE StepFinished
    <2>1. ~eof /\ ~failed /\ indexState # "sealed" /\ archiveDigest = stream
          /\ UNCHANGED <<archiveDigest, stream>>
      BY <1>0, <1>4 DEF StepFinished
    <2>2. CASE UNCHANGED <<indexState, indexDigest>>
      BY <2>1, <2>2
    <2>3. CASE indexState' = "sealed" /\ indexDigest' = ObjectId(archiveDigest)
               /\ eof' = TRUE
      BY <2>1, <2>3
    <2> QED BY <1>4, <2>2, <2>3 DEF StepFinished, WriteFinalChunk
  <1>5. CASE Destroy \/ UNCHANGED vars
    BY <1>5 DEF Destroy, vars
  <1> QED BY <1>1, <1>2, <1>3, <1>4, <1>5 DEF Next, DriverStep

\* Once ca_index_close has sealed the index, its digest is SHA-256 of the
\* archive stream (spec.md invariant 9): the archive digest absorbs every
\* unit, with or without an archive file, before the chunker sees it, and
\* ca_sync_write_final_chunk copies it into the index only on the step
\* that latches eof.
THEOREM IndexDigestCorrect == Spec => []SealedDigest
  <1>1. Init => DigestInv
    BY DEF Init, DigestInv
  <1>2. OInv /\ DigestInv /\ [Next]_vars => DigestInv'
    BY NextDigestInv
  <1>3. DigestInv => SealedDigest
    BY DEF DigestInv, SealedDigest
  <1> QED BY <1>1, <1>2, <1>3, OInvCorrect, PTL DEF Spec

-----------------------------------------------------------------------------
(* The index resolved through the store.                                   *)

\* The chunks the index records name, in index order.  An object id is
\* SHA-256 of the chunk, taken as injective, so it determines the chunk.
IndexChunks == [i \in DOMAIN index |-> index[i].id.sha256]

\* The inductive invariant: while an index is kept and no step has failed,
\* the chunks it names concatenate to the chunks put to the store, in the
\* order they were put; and only a driver with a writable store seals it.
ReasmInv ==
    /\ indexState # "none" /\ ~failed => FlattenSeq(IndexChunks) = chunked
    /\ indexState = "sealed" => cfg.wstore

\* The chunks of a typed index are byte sequences.
LEMMA IndexChunksType ==
  ASSUME index \in Seq(IndexRecords)
  PROVE  IndexChunks \in Seq(Seq(Bytes))
  <1>1. ASSUME NEW i \in 1..Len(index) PROVE index[i].id.sha256 \in Seq(Bytes)
    <2>1. index[i] \in IndexRecords
      OBVIOUS
    <2>2. index[i].id \in ObjectIds
      BY <2>1 DEF IndexRecords
    <2> QED BY <2>2 DEF ObjectIds
  <1>2. DOMAIN index = 1..Len(index) /\ Len(index) \in Nat
    OBVIOUS
  <1> QED BY <1>1, <1>2 DEF IndexChunks

\* ca_index_write_object of a chunk's record appends the chunk.
LEMMA IndexChunksAppend ==
  ASSUME index \in Seq(IndexRecords), NEW obj \in Seq(Bytes),
         index' = Append(index, ChunkRecord(obj))
  PROVE  IndexChunks' = Append(IndexChunks, obj)
  BY DEF IndexChunks, ChunkRecord, ObjectId, IndexRecords, ObjectIds

\* A chunk put to the store and recorded in the index keeps the two in
\* step: the index's chunks grow by the chunk the history grows by.
LEMMA ChunkRecordedReasm ==
  ASSUME index \in Seq(IndexRecords), FlattenSeq(IndexChunks) = chunked,
         NEW obj \in Seq(Bytes),
         index' = Append(index, ChunkRecord(obj)), chunked' = chunked \o obj
  PROVE  FlattenSeq(IndexChunks') = chunked'
  <1>1. IndexChunks' = Append(IndexChunks, obj)
    BY IndexChunksAppend
  <1>2. FlattenSeq(Append(IndexChunks, obj)) = FlattenSeq(IndexChunks) \o obj
    BY IndexChunksType, FlattenSeqAppend
  <1> QED BY <1>1, <1>2

\* ca_sync_write_one_chunk with outcome "ok" keeps ReasmInv's first part:
\* with an index both grow by the chunk; without one there is nothing to
\* keep.
LEMMA WriteOkReasm ==
  ASSUME TypeOK, NEW obj \in Seq(Bytes), WriteOneChunk(obj, "ok"),
         indexState # "none" => FlattenSeq(IndexChunks) = chunked,
         indexState' = indexState
  PROVE  indexState' # "none" => FlattenSeq(IndexChunks') = chunked'
  <1> SUFFICES ASSUME indexState # "none" PROVE FlattenSeq(IndexChunks') = chunked'
    OBVIOUS
  <1>1. index' = Append(index, ChunkRecord(obj)) /\ chunked' = chunked \o obj
    BY DEF WriteOneChunk
  <1> QED BY <1>1, ChunkRecordedReasm DEF TypeOK

\* ca_sync_start neither drops nor seals the index.
LEMMA StartKeepsIndex ==
  ASSUME Started \/ StartFails
  PROVE  /\ indexState' # "none" => indexState # "none"
         /\ indexState' = "sealed" => indexState = "sealed"
  BY DEF Started, StartFails, IndexStarted

LEMMA NextReasmInv ==
  ASSUME OInv, ReasmInv, [Next]_vars
  PROVE  ReasmInv'
  <1> USE DEF ReasmInv
  <1>0. TypeOK /\ PartitionInv
    BY DEF OInv, IInv
  <1>1. CASE StepStartFails \/ StepEncoderFails
    <2>1. failed' = TRUE /\ cfg' = cfg
          /\ (indexState' = "sealed" => indexState = "sealed")
      BY <1>1, StartKeepsIndex DEF StepStartFails, StepEncoderFails, Started
    <2> QED BY <2>1
  <1>2. CASE StepData
    <2>1. /\ ~failed /\ UNCHANGED <<cfg, index, chunked>>
          /\ indexState' # "none" => indexState # "none"
          /\ indexState' = "sealed" => indexState = "sealed"
      BY <1>2, StartKeepsIndex DEF StepData, CanStep, Started
    <2>2. IndexChunks' = IndexChunks
      BY <2>1 DEF IndexChunks
    <2> QED BY <2>1, <2>2
  <1>3. CASE ChunkerNoBoundary
    <2>1. UNCHANGED <<cfg, index, chunked, indexState, failed>>
      BY <1>3 DEF ChunkerNoBoundary
    <2>2. IndexChunks' = IndexChunks
      BY <2>1 DEF IndexChunks
    <2> QED BY <2>1, <2>2
  <1>4. CASE WriteChunkFails
    BY <1>4 DEF WriteChunkFails
  <1>5. CASE WriteChunk
    <2>1. PICK k \in 1..Len(pending) : WriteOneChunk(ChunkObject(k), "ok")
      BY <1>5 DEF WriteChunk
    <2>2. ChunkObject(k) \in Seq(Bytes)
      BY <1>0, ChunkObjectType
    <2>3. ~failed /\ UNCHANGED <<cfg, indexState, failed>>
      BY <1>0, <1>5 DEF WriteChunk, PartitionInv
    <2>4. indexState' # "none" => FlattenSeq(IndexChunks') = chunked'
      BY <1>0, <2>1, <2>2, <2>3, WriteOkReasm
    <2> QED BY <2>3, <2>4
  <1>6. CASE StepFinished
    <2>1. ~failed /\ UNCHANGED cfg
      BY <1>6 DEF StepFinished, CanStep
    <2>2. CASE failed' = TRUE /\ UNCHANGED indexState
      BY <2>1, <2>2
    <2>3. CASE UNCHANGED <<index, chunked, indexState, failed>>
      <3>1. IndexChunks' = IndexChunks
        BY <2>3 DEF IndexChunks
      <3> QED BY <2>1, <2>3, <3>1
    <2>4. CASE /\ cfg.wstore
               /\ WriteOneChunk(buffer, "ok")
               /\ failed' = failed
               /\ indexState' \in {indexState, "sealed"}
               /\ indexState' = "sealed" => indexState # "none"
      <3>1. indexState' # "none" => indexState # "none"
        BY <2>4
      <3>2. indexState # "none" => FlattenSeq(IndexChunks') = chunked'
        <4>1. buffer \in Seq(Bytes) /\ index \in Seq(IndexRecords)
          BY <1>0 DEF TypeOK
        <4> SUFFICES ASSUME indexState # "none" PROVE FlattenSeq(IndexChunks') = chunked'
          OBVIOUS
        <4>2. index' = Append(index, ChunkRecord(buffer)) /\ chunked' = chunked \o buffer
          BY <2>4 DEF WriteOneChunk
        <4> QED BY <2>1, <4>1, <4>2, ChunkRecordedReasm
      <3> QED BY <2>1, <2>4, <3>1, <3>2
    <2>5. CASE /\ WriteFinalChunk
               /\ cfg.wstore /\ buffer # <<>>
               /\ WriteOneChunk(buffer, "ok")
      <3>1. CASE indexState = "none" /\ UNCHANGED <<indexState, failed>>
        BY <2>5, <3>1, <2>4
      <3>2. CASE indexState # "none" /\ indexState' = "sealed" /\ UNCHANGED failed
        BY <2>5, <3>2, <2>4
      <3>3. CASE failed' = TRUE /\ UNCHANGED indexState
        BY <3>3, <2>2
      <3> QED BY <2>5, <3>1, <3>2, <3>3 DEF WriteFinalChunk
    <2> QED BY <1>6, <2>2, <2>3, <2>5 DEF StepFinished, WriteFinalChunk
  <1>7. CASE Destroy \/ UNCHANGED vars
    <2>1. UNCHANGED <<cfg, index, chunked, indexState, failed>>
      BY <1>7 DEF Destroy, vars
    <2>2. IndexChunks' = IndexChunks
      BY <2>1 DEF IndexChunks
    <2> QED BY <2>1, <2>2
  <1> QED BY <1>1, <1>2, <1>3, <1>4, <1>5, <1>6, <1>7 DEF Next, DriverStep

\* ca_store_get on the writable store resolves every record to the chunk
\* it names: the store holds an object with the record's id
\* (IndexRecordsStored), and one id names one chunk.
LEMMA ReassembledIsIndexChunks ==
  ASSUME index \in Seq(IndexRecords), IndexRecordsStored
  PROVE  Reassembled = FlattenSeq(IndexChunks)
  <1>1. ASSUME NEW i \in DOMAIN index
        PROVE  StoreGet(index[i].id) = index[i].id.sha256
    <2>1. \E p \in store : ObjectId(p) = index[i].id
      BY DEF IndexRecordsStored
    <2>2. \A q \in store : ObjectId(q) = index[i].id => q = index[i].id.sha256
      BY DEF ObjectId
    <2> QED BY <2>1, <2>2 DEF StoreGet
  <1>2. [i \in DOMAIN index |-> StoreGet(index[i].id)] = IndexChunks
    BY <1>1 DEF IndexChunks
  <1> QED BY <1>2 DEF Reassembled

LEMMA InitReasmInv == Init => ReasmInv
  <1> SUFFICES ASSUME Init PROVE ReasmInv
    OBVIOUS
  <1>1. IndexChunks = <<>> /\ IndexChunks \in Seq(Seq(Bytes))
    BY DEF Init, IndexChunks
  <1>2. FlattenSeq(IndexChunks) = <<>>
    BY <1>1, FlattenSeqEmpty
  <1> QED BY <1>2 DEF Init, ReasmInv

\* Invariants 8 and 9 of spec.md as a decoder sees them
\* (SealedIndexDescribesArchive, checked by the encode_safety run): once
\* ca_index_close has sealed the index, its records resolved through the
\* writable store concatenate to the archive stream, and its digest is
\* SHA-256 of that stream, for every configuration, fault set and bound.
\* Each chunk is put before its record is written (casync.c:520-546), a
\* failed put or index write ends the run, and the final chunk is written
\* and recorded before the index is sealed (casync.c:600-640).
THEOREM SealedIndexCorrect == Spec => []SealedIndexDescribesArchive
  <1> DEFINE Inv == OInv /\ DigestInv /\ ReasmInv
  <1>1. Init => Inv
    BY InitOInv, InitReasmInv DEF Init, DigestInv
  <1>2. Inv /\ [Next]_vars => Inv'
    BY NextOInv, NextDigestInv, NextReasmInv
  <1>3. Inv => SealedIndexDescribesArchive
    <2> SUFFICES ASSUME Inv, indexState = "sealed"
                 PROVE  Reassembled = stream /\ indexDigest = ObjectId(stream)
      BY DEF SealedIndexDescribesArchive
    <2>1. eof /\ indexDigest = ObjectId(stream)
      BY DEF DigestInv
    <2>2. ~failed /\ cfg.wstore
      BY <2>1 DEF OInv, OutputInv, ReasmInv
    <2>3. chunked = stream
      BY <2>1, <2>2 DEF OInv, IInv, PartitionInv, ChunkPartition
    <2>4. FlattenSeq(IndexChunks) = chunked
      BY <2>2 DEF ReasmInv
    <2>5. Reassembled = FlattenSeq(IndexChunks)
      BY ReassembledIsIndexChunks DEF OInv, IInv, TypeOK
    <2> QED BY <2>1, <2>3, <2>4, <2>5
  <1> QED BY <1>1, <1>2, <1>3, PTL DEF Spec

====
