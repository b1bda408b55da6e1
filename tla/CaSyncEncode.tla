---------------------------- MODULE CaSyncEncode ----------------------------
(***************************************************************************)
(* The encode direction of the casync synchronization driver (casync.c).  *)
(*                                                                         *)
(* One call of ca_sync_step in CA_SYNC_ENCODE mode runs ca_sync_start and *)
(* then ca_sync_step_encode: it pulls one unit of output from the encoder *)
(* and tees it into the archive file, the archive digest and the          *)
(* chunker/store/index sink; on CA_ENCODER_FINISHED it renames the        *)
(* temporary archive into place, writes the last chunk and the index      *)
(* trailer and latches eof.  ca_sync_unref ends the driver's life and     *)
(* unlinks a temporary archive that is still there.                       *)
(*                                                                         *)
(* Data is abstracted to short sequences over a small set of byte values. *)
(* SHA-256 is the injective function ObjectId.  The chunker, encoder,     *)
(* store and index are the collaborators of spec.md section 6: the        *)
(* chunker may cut anywhere, the encoder emits any bytes, and every       *)
(* external call named in Faults may fail.  The caller stops stepping at  *)
(* the first error (spec.md section 7) and may destroy the driver between *)
(* any two steps.                                                         *)
(***************************************************************************)
EXTENDS Naturals, Sequences, SequencesExt

CONSTANTS
    Bytes,      \* the byte values the encoder may emit
    MaxStream,  \* bound on the length of the archive stream
    MaxBlock,   \* bound on the length of one unit of encoder output
    Configs,    \* the configurations the setters may leave the driver in
    Faults      \* the external calls that may fail in a behaviour

\* The external calls of the encode path that can return an error.
FaultPoints ==
    { "archive_create",   \* open(temporary_archive_path, O_CREAT|O_EXCL)
      "encoder_base",     \* ca_encoder_set_base_fd
      "index_open",       \* ca_index_open
      "encoder_step",     \* ca_encoder_step / ca_encoder_get_data
      "archive_write",    \* loop_write to archive_fd
      "store_put",        \* ca_store_put
      "index_write",      \* ca_index_write_object
      "rename",           \* rename(temporary_archive_path, archive_path)
      "index_seal" }      \* ca_index_set_digest / write_eof / close

\* What the setters leave behind: a base descriptor or not, the archive
\* given as a descriptor, as a path or not at all, a writable store, an index.
ConfigRecords ==
    [base: BOOLEAN, archive: {"none", "fd", "path"}, wstore: BOOLEAN, index: BOOLEAN]

ASSUME ConstantsAssumption ==
    /\ Bytes # {}
    /\ MaxStream \in Nat \ {0}
    /\ MaxBlock \in Nat \ {0}
    /\ Configs \subseteq ConfigRecords
    /\ Configs # {}
    /\ Faults \subseteq FaultPoints

VARIABLES
    cfg,                  \* the configuration, fixed before the first step
    baseFd,               \* s->base_fd >= 0
    encoder,              \* s->encoder: "none" or "created"
    archiveFd,            \* s->archive_fd: "none", the caller's "user" fd, or "temp"
    temporaryArchivePath, \* s->temporary_archive_path != NULL
    tmpOnDisk,            \* a temporary archive file exists on disk
    atPath,               \* a file produced by this driver exists at archive_path
    written,              \* the bytes written through archive_fd
    archiveDigest,        \* the bytes absorbed by s->archive_digest
    buffer,               \* s->buffer: bytes since the last chunk boundary
    pending,              \* p[0..l) still to be scanned by ca_sync_write_chunks
    pc,                   \* "chunks" while ca_sync_write_chunks loops, else "idle"
    store,                \* the objects in the writable store
    index,                \* the (id, size) records written to the index
    indexState,           \* "none", "new", "open" or "sealed"
    indexDigest,          \* the digest passed to ca_index_set_digest
    eof,                  \* s->eof
    failed,               \* the last step returned an error
    destroyed,            \* ca_sync_unref has run
    stream,               \* history: every byte the encoder handed out
    chunked               \* history: the payloads put to the store, concatenated

vars == <<cfg, baseFd, encoder, archiveFd, temporaryArchivePath, tmpOnDisk,
          atPath, written, archiveDigest, buffer, pending, pc, store, index,
          indexState, indexDigest, eof, failed, destroyed, stream, chunked>>

-----------------------------------------------------------------------------
(* Data.                                                                   *)

\* ca_sync_make_object_id: SHA-256 of the bytes, abstracted as injective.
ObjectId(p) == [sha256 |-> p]

ObjectIds == [sha256 : Seq(Bytes)]

\* The index carries no digest until ca_index_set_digest.
NoDigest == [unset |-> TRUE]

\* One unit of encoder output (ca_encoder_get_data).
Blocks == UNION {[1..n -> Bytes] : n \in 1..MaxBlock}

\* The calls of the behaviour that may fail.
MayFail(f) == f \in Faults

\* The outcomes of ca_sync_write_one_chunk: ca_store_put fails, or it
\* succeeds and ca_index_write_object fails, or both succeed.
ChunkOutcomes ==
    {"ok"}
    \cup (IF MayFail("store_put") THEN {"put_failed"} ELSE {})
    \cup (IF MayFail("index_write") /\ indexState # "none"
            THEN {"index_failed"} ELSE {})

-----------------------------------------------------------------------------
(* Variants of the operations below, each with a plausible bug, used to    *)
(* confirm that the properties of this module detect such a bug.           *)

\* The index record carries the cut position k instead of object_size.
ChunkRecordCutSize(obj) == [id |-> ObjectId(obj), size |-> Len(obj) - Len(buffer)]

\* The chunk is always taken zero-copy from the input, buffer ignored.
ChunkObjectZeroCopy(k) == SubSeq(pending, 1, k)

\* The index record is written before the object is put to the store.
WriteOneChunkIndexFirst(obj, outcome) ==
    /\ store' = IF outcome = "put_failed" THEN store ELSE store \cup {obj}
    /\ index' = IF outcome # "index_failed" /\ indexState # "none"
                  THEN Append(index, [id |-> ObjectId(obj), size |-> Len(obj)])
                  ELSE index
    /\ chunked' = IF outcome = "put_failed" THEN chunked ELSE chunked \o obj

\* The archive digest only absorbs what goes to an archive file.
WriteArchiveDigestIfFile(blk) ==
    archiveDigest' = IF archiveFd' # "none" THEN archiveDigest \o blk ELSE archiveDigest

\* A short write to the archive is taken for success.
WriteArchiveOutcomesShort(blk) ==
    IF archiveFd' = "none"
    THEN {[written |-> written, ok |-> TRUE]}
    ELSE {[written |-> written \o SubSeq(blk, 1, n), ok |-> TRUE] : n \in 0..Len(blk)}

\* ca_sync_unref forgets the temporary path without unlinking it.
UnlinkTemporaryKeep == tmpOnDisk

-----------------------------------------------------------------------------
(* Initial state: ca_sync_new_encode followed by the setters.             *)

Init ==
    /\ cfg \in Configs
    /\ baseFd = cfg.base
    /\ encoder = "none"
    /\ archiveFd = IF cfg.archive = "fd" THEN "user" ELSE "none"
    /\ temporaryArchivePath = FALSE
    /\ tmpOnDisk = FALSE
    /\ atPath = FALSE
    /\ written = <<>>
    /\ archiveDigest = <<>>
    /\ buffer = <<>>
    /\ pending = <<>>
    /\ pc = "idle"
    /\ store = {}
    /\ index = <<>>
    /\ indexState = IF cfg.index THEN "new" ELSE "none"
    /\ indexDigest = NoDigest
    /\ eof = FALSE
    /\ failed = FALSE
    /\ destroyed = FALSE
    /\ stream = <<>>
    /\ chunked = <<>>

-----------------------------------------------------------------------------
(* ca_sync_start, encode direction.  It runs at the head of every step;    *)
(* once it has succeeded it is a no-op.                                   *)

\* An archive path is set and no descriptor is open yet (casync.c:379).
NeedTemporaryArchive == cfg.archive = "path" /\ archiveFd = "none"

\* tempfn_random and open(O_CREAT|O_EXCL) of the temporary archive succeed.
ArchiveStarted ==
    IF NeedTemporaryArchive
    THEN /\ archiveFd' = "temp"
         /\ temporaryArchivePath' = TRUE
         /\ tmpOnDisk' = TRUE
    ELSE UNCHANGED <<archiveFd, temporaryArchivePath, tmpOnDisk>>

\* The encoder is created and takes over base_fd, whose slot is cleared.
EncoderStarted ==
    IF encoder = "none"
    THEN /\ baseFd
         /\ encoder' = "created"
         /\ baseFd' = FALSE
    ELSE UNCHANGED <<encoder, baseFd>>

\* ca_index_open; on an index that is already open it does nothing.
IndexStarted ==
    IF indexState = "new" THEN indexState' = "open" ELSE UNCHANGED indexState

Started == ArchiveStarted /\ EncoderStarted /\ IndexStarted

\* ca_sync_start returns an error: each disjunct is one failing call, made
\* after the calls before it succeeded.
StartFails ==
    \/ /\ NeedTemporaryArchive
       /\ MayFail("archive_create")
       /\ UNCHANGED <<archiveFd, temporaryArchivePath, tmpOnDisk, encoder, baseFd, indexState>>
    \/ /\ ArchiveStarted
       /\ encoder = "none"
       /\ ~baseFd                                   \* -EUNATCH
       /\ UNCHANGED <<encoder, baseFd, indexState>>
    \/ /\ ArchiveStarted
       /\ encoder = "none"
       /\ baseFd
       /\ MayFail("encoder_base")                   \* encoder unref'd again
       /\ UNCHANGED <<encoder, baseFd, indexState>>
    \/ /\ ArchiveStarted
       /\ EncoderStarted
       /\ indexState = "new"
       /\ MayFail("index_open")
       /\ UNCHANGED indexState

-----------------------------------------------------------------------------
(* The three sinks of one unit of encoder output.                         *)

\* ca_sync_write_archive: loop_write of the unit, when an archive fd is open.
\* A failing write may leave any proper prefix of the unit written.
WriteArchiveOutcomes(blk) ==
    IF archiveFd' = "none"
    THEN {[written |-> written, ok |-> TRUE]}
    ELSE {[written |-> written \o blk, ok |-> TRUE]}
         \cup (IF MayFail("archive_write")
                 THEN {[written |-> written \o SubSeq(blk, 1, n), ok |-> FALSE] :
                         n \in 0..Len(blk) - 1}
                 ELSE {})

\* ca_sync_write_archive_digest: gcry_md_write of the unit.
WriteArchiveDigest(blk) == archiveDigest' = archiveDigest \o blk

\* ca_sync_write_chunks is entered with p = the unit; without a writable
\* store it returns at once.
WriteChunksBegin(blk) ==
    IF cfg.wstore
    THEN pending' = blk /\ pc' = "chunks"
    ELSE UNCHANGED <<pending, pc>>

\* The payload of the chunk that ends at cut k of the input: the input
\* itself (zero copy) when the buffer is empty, else buffer ++ p[0..k).
ChunkObject(k) == buffer \o SubSeq(pending, 1, k)

\* The record ca_index_write_object appends for a chunk.
ChunkRecord(obj) == [id |-> ObjectId(obj), size |-> Len(obj)]

\* ca_sync_write_one_chunk: make the object id, ca_store_put, then the index.
WriteOneChunk(obj, outcome) ==
    /\ store' = IF outcome = "put_failed" THEN store ELSE store \cup {obj}
    /\ index' = IF outcome = "ok" /\ indexState # "none"
                  THEN Append(index, ChunkRecord(obj))
                  ELSE index
    /\ chunked' = IF outcome = "put_failed" THEN chunked ELSE chunked \o obj

-----------------------------------------------------------------------------
(* Actions.                                                                *)

\* The caller calls ca_sync_step only between steps, before eof, after no
\* error, and before ca_sync_unref.  (A step after eof returns -EPIPE and
\* changes nothing: it is a stuttering step.)
CanStep == pc = "idle" /\ ~eof /\ ~failed /\ ~destroyed

\* ca_sync_step fails inside ca_sync_start.
StepStartFails ==
    /\ CanStep
    /\ StartFails
    /\ failed' = TRUE
    /\ UNCHANGED <<cfg, atPath, written, archiveDigest, buffer, pending, pc,
                   store, index, indexDigest, eof, destroyed, stream, chunked>>

\* ca_encoder_step (or ca_encoder_get_data) returns an error.
StepEncoderFails ==
    /\ CanStep
    /\ Started
    /\ MayFail("encoder_step")
    /\ failed' = TRUE
    /\ UNCHANGED <<cfg, atPath, written, archiveDigest, buffer, pending, pc,
                   store, index, indexDigest, eof, destroyed, stream, chunked>>

\* CA_ENCODER_DATA or CA_ENCODER_NEXT_FILE: the unit goes to the archive
\* file, then to the archive digest, then into ca_sync_write_chunks
\* (casync.c:676-698).
StepData ==
    /\ CanStep
    /\ Started
    /\ \E blk \in Blocks :
         /\ Len(stream) + Len(blk) <= MaxStream
         /\ stream' = stream \o blk
         /\ \E w \in WriteArchiveOutcomes(blk) :
              /\ written' = w.written
              /\ \/ /\ w.ok
                    /\ WriteArchiveDigest(blk)
                    /\ WriteChunksBegin(blk)
                    /\ UNCHANGED failed
                 \/ /\ ~w.ok
                    /\ failed' = TRUE
                    /\ UNCHANGED <<archiveDigest, pending, pc>>
    /\ UNCHANGED <<cfg, atPath, buffer, store, index, indexDigest, eof,
                   destroyed, chunked>>

\* Mutant: the no-boundary branch appends the input but does not return.
ChunkerNoBoundaryNoReturn ==
    /\ pc = "chunks"
    /\ buffer' = buffer \o pending
    /\ pending' = <<>>
    /\ UNCHANGED <<cfg, baseFd, encoder, archiveFd, temporaryArchivePath,
                   tmpOnDisk, atPath, written, archiveDigest, store, index,
                   indexState, indexDigest, eof, failed, destroyed, stream, chunked, pc>>

\* One turn of the loop of ca_sync_write_chunks in which the chunker finds
\* no boundary: the input is appended to the buffer and the loop returns.
ChunkerNoBoundary ==
    /\ pc = "chunks"
    /\ buffer' = buffer \o pending
    /\ pending' = <<>>
    /\ pc' = "idle"
    /\ UNCHANGED <<cfg, baseFd, encoder, archiveFd, temporaryArchivePath,
                   tmpOnDisk, atPath, written, archiveDigest, store, index,
                   indexState, indexDigest, eof, failed, destroyed, stream, chunked>>

\* One turn in which the chunker cuts at k and the chunk is written: the
\* buffer is emptied and the input advances past k.
WriteChunk ==
    /\ pc = "chunks"
    /\ \E k \in 1..Len(pending) :
         /\ WriteOneChunk(ChunkObject(k), "ok")
         /\ buffer' = <<>>
         /\ pending' = SubSeq(pending, k + 1, Len(pending))
         /\ pc' = IF k = Len(pending) THEN "idle" ELSE "chunks"
    /\ UNCHANGED <<cfg, baseFd, encoder, archiveFd, temporaryArchivePath,
                   tmpOnDisk, atPath, written, archiveDigest, indexState,
                   indexDigest, eof, failed, destroyed, stream>>

\* One turn in which the chunker cuts at k and writing the chunk fails: the
\* step returns the error, the buffer keeps what was appended to it.
WriteChunkFails ==
    /\ pc = "chunks"
    /\ \E k \in 1..Len(pending), outcome \in ChunkOutcomes \ {"ok"} :
         /\ WriteOneChunk(ChunkObject(k), outcome)
         /\ buffer' = IF buffer = <<>> THEN <<>> ELSE ChunkObject(k)
    /\ pending' = <<>>
    /\ pc' = "idle"
    /\ failed' = TRUE
    /\ UNCHANGED <<cfg, baseFd, encoder, archiveFd, temporaryArchivePath,
                   tmpOnDisk, atPath, written, archiveDigest, indexState,
                   indexDigest, eof, destroyed, stream>>
\* CA_ENCODER_FINISHED, step 1 (casync.c:661-666): the temporary archive,
\* when there is one, is renamed to archive_path.
NeedRename == temporaryArchivePath /\ cfg.archive = "path"

RenameArchive ==
    IF NeedRename
    THEN /\ atPath' = TRUE
         /\ tmpOnDisk' = FALSE
         /\ temporaryArchivePath' = FALSE
    ELSE UNCHANGED <<atPath, tmpOnDisk, temporaryArchivePath>>

\* ca_sync_write_final_chunk (casync.c:600-640): without a writable store
\* or with an empty buffer it returns at once; otherwise the buffer is
\* written as one chunk (and is not emptied) and, with an index, the
\* archive digest is set as the index digest, the EOF record written and
\* the index closed.  Success latches eof.
WriteFinalChunk ==
    \/ /\ ~cfg.wstore \/ buffer = <<>>
       /\ eof' = TRUE
       /\ UNCHANGED <<store, index, chunked, indexState, indexDigest, failed>>
    \/ /\ cfg.wstore
       /\ buffer # <<>>
       /\ \E outcome \in ChunkOutcomes \ {"ok"} : WriteOneChunk(buffer, outcome)
       /\ failed' = TRUE
       /\ UNCHANGED <<indexState, indexDigest, eof>>
    \/ /\ cfg.wstore
       /\ buffer # <<>>
       /\ WriteOneChunk(buffer, "ok")
       /\ \/ /\ indexState = "none"
             /\ eof' = TRUE
             /\ UNCHANGED <<indexState, indexDigest, failed>>
          \/ /\ indexState # "none"
             /\ indexState' = "sealed"
             /\ indexDigest' = ObjectId(archiveDigest)
             /\ eof' = TRUE
             /\ UNCHANGED failed
          \/ /\ indexState # "none"
             /\ MayFail("index_seal")
             /\ failed' = TRUE
             /\ UNCHANGED <<indexState, indexDigest, eof>>

\* CA_ENCODER_FINISHED.  The encoder finishes only after it has handed out
\* the archive's first bytes, so the step that began the archive has run
\* ca_sync_start successfully and it is a no-op here.
StepFinished ==
    /\ CanStep
    /\ Len(stream) > 0
    /\ \/ /\ NeedRename
          /\ MayFail("rename")
          /\ failed' = TRUE
          /\ UNCHANGED <<atPath, tmpOnDisk, temporaryArchivePath, store, index,
                         chunked, indexState, indexDigest, eof>>
       \/ /\ RenameArchive
          /\ WriteFinalChunk
    /\ UNCHANGED <<cfg, baseFd, encoder, archiveFd, written, archiveDigest,
                   buffer, pending, pc, destroyed, stream>>

\* ca_sync_unref unlinks the temporary archive if its path is still set.
UnlinkTemporary == IF temporaryArchivePath THEN FALSE ELSE tmpOnDisk

\* ca_sync_unref (casync.c:89-127), called between two steps.
Destroy ==
    /\ pc = "idle"
    /\ ~destroyed
    /\ destroyed' = TRUE
    /\ tmpOnDisk' = UnlinkTemporary
    /\ temporaryArchivePath' = FALSE
    /\ UNCHANGED <<cfg, baseFd, encoder, archiveFd, atPath, written,
                   archiveDigest, buffer, pending, pc, store, index, indexState,
                   indexDigest, eof, failed, stream, chunked>>

\* The steps of the caller's loop and the turns of the chunk loop inside
\* them; ca_sync_unref is the caller's choice.
DriverStep ==
    \/ StepStartFails
    \/ StepEncoderFails
    \/ StepData
    \/ ChunkerNoBoundary
    \/ WriteChunk
    \/ WriteChunkFails
    \/ StepFinished

Next == DriverStep \/ Destroy

Spec == Init /\ [][Next]_vars

\* The caller runs ca_sync_step in a loop until FINISHED or an error
\* (spec.md sections 5 and 7), and a running step finishes its chunk loop:
\* a step it can take is eventually taken.
FairSpec == Spec /\ WF_vars(DriverStep)

-----------------------------------------------------------------------------
(* Properties.                                                             *)

IndexRecords == [id : ObjectIds, size : Nat \ {0}]

\* Every variable has its type; in particular every index record names an
\* object id and a non-zero size (ca_index_write_object is never handed an
\* empty chunk).
TypeOK ==
    /\ cfg \in ConfigRecords
    /\ baseFd \in BOOLEAN
    /\ encoder \in {"none", "created"}
    /\ archiveFd \in {"none", "user", "temp"}
    /\ temporaryArchivePath \in BOOLEAN
    /\ tmpOnDisk \in BOOLEAN
    /\ atPath \in BOOLEAN
    /\ written \in Seq(Bytes)
    /\ archiveDigest \in Seq(Bytes)
    /\ buffer \in Seq(Bytes)
    /\ pending \in Seq(Bytes)
    /\ pc \in {"idle", "chunks"}
    /\ store \subseteq Seq(Bytes)
    /\ index \in Seq(IndexRecords)
    /\ indexState \in {"none", "new", "open", "sealed"}
    /\ indexDigest \in ObjectIds \cup {NoDigest}
    /\ eof \in BOOLEAN
    /\ failed \in BOOLEAN
    /\ destroyed \in BOOLEAN
    /\ stream \in Seq(Bytes)
    /\ chunked \in Seq(Bytes)

\* Invariant 8 of spec.md: with a writable store and no error so far, the
\* chunks put to the store, then the buffered tail, then the input the
\* chunk loop has not scanned yet, are exactly the bytes the encoder handed
\* out; after eof the chunks alone are.  This is what the zero-copy and the
\* buffered branches of ca_sync_write_chunks must get right together.
ChunkPartition ==
    cfg.wstore /\ ~failed =>
        IF eof THEN chunked = stream ELSE chunked \o buffer \o pending = stream

\* Every record in the index names an object the writable store holds, with
\* the object's size: ca_sync_write_one_chunk indexes a chunk only after
\* ca_store_put has stored it, whatever call fails.
IndexRecordsStored ==
    \A i \in DOMAIN index :
        \E p \in store : ObjectId(p) = index[i].id /\ Len(p) = index[i].size

\* ca_store_get on the writable store: the object with that id, if any.
StoreGet(id) ==
    IF \E p \in store : ObjectId(p) = id
    THEN CHOOSE p \in store : ObjectId(p) = id
    ELSE <<>>

\* The archive a decoder rebuilds from the index and the store.
Reassembled == FlattenSeq([i \in DOMAIN index |-> StoreGet(index[i].id)])

\* Invariants 8 and 9 of spec.md as a decoder sees them: once the index is
\* sealed, its records resolved through the store concatenate to the
\* archive stream, and its digest is SHA-256 of that stream.  It needs the
\* index, the store, the buffer and the archive digest to agree across
\* every step of the run.
SealedIndexDescribesArchive ==
    indexState = "sealed" =>
        /\ Reassembled = stream
        /\ indexDigest = ObjectId(stream)

\* The archive output of a successful encode holds exactly the stream: the
\* caller's archive fd once eof is latched, and the file renamed to
\* archive_path whenever it exists.  loop_write must not lose a short write.
ArchiveOutputFaithful ==
    /\ eof /\ archiveFd # "none" => written = stream
    /\ atPath => written = stream

\* A temporary archive on disk is always one the driver still has the path
\* of, so that ca_sync_unref can unlink it (spec.md section 8, scenario 6).
NoLeakedTemp == tmpOnDisk => temporaryArchivePath

\* Section 4.3 of spec.md: on CA_ENCODER_FINISHED the driver finalizes the
\* index (digest, EOF record, close) before it latches eof.
IndexSealedAtEof == eof /\ indexState # "none" => indexState = "sealed"

\* Invariant 10 and the "Atomic output" property of spec.md: no file appears
\* at archive_path unless the step loop reached terminal success.
AtomicArchive == atPath => eof
\* Under the caller's loop every encode ends: FINISHED, an error, or the
\* caller destroys the driver.  The encoder's output is finite (the base
\* tree is), and each turn of ca_sync_write_chunks consumes input or
\* returns; a turn that neither would spin for ever.
EncodeTerminates == <>(eof \/ failed \/ destroyed)
====
