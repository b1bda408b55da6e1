---------------------------- MODULE CaSyncDecode ----------------------------
(***************************************************************************)
(* The decode direction of the casync synchronization driver (casync.c).  *)
(*                                                                         *)
(* One call of ca_sync_step in CA_SYNC_DECODE mode runs ca_sync_start     *)
(* (materialise the base, create the decoder and hand it the base, open   *)
(* the index) and then ca_sync_step_decode: one ca_decoder_step, whose    *)
(* REQUEST is answered by ca_sync_process_decoder_request from the index  *)
(* and the store fan-in of ca_sync_get, or from the archive fd.  On       *)
(* FINISHED a temporary base is renamed into place and eof latches.       *)
(*                                                                         *)
(* The archive is a constant sequence of chunks; its index names each     *)
(* chunk by ObjectId and size.  The stores are constant sets of objects:  *)
(* an object may be truncated (its data shorter than the chunk its id     *)
(* names), as a store interrupted while writing leaves it.  The decoder   *)
(* is the collaborator of spec.md section 6: it requests bytes until it   *)
(* is told EOF (or is handed the archive fd), reports progress between    *)
(* requests, then finishes.                                               *)
(***************************************************************************)
EXTENDS Naturals, Sequences, SequencesExt

CONSTANTS
    Bytes,          \* the byte values of the archive
    Archive,        \* the archive as its sequence of chunks
    WStore,         \* the objects of the writable store
    Seeds,          \* the seed stores, in registration order
    Configs,        \* the configurations the setters may leave the driver in
    Faults,         \* the external calls that may fail in a behaviour
    CallerRetries   \* whether the caller calls ca_sync_step again after an error

\* SHA-256 of a chunk, taken as injective.
ObjectId(p) == [sha256 |-> p]

\* An object of a store: the id it is filed under and the data it returns.
Objects == [id : [sha256 : Seq(Bytes)], data : Seq(Bytes)]

\* The external calls of the decode path that can return an error.
FaultPoints ==
    { "mkdir",          \* mkdir(base_path) other than EEXIST
      "base_open",      \* open of the base directory, temporary file or device
      "decoder_base",   \* ca_decoder_set_base_fd / ca_decoder_set_base_mode
      "index_open",     \* ca_index_open
      "decoder_step",   \* ca_decoder_step
      "index_read",     \* ca_index_read_object
      "store_get",      \* ca_store_get on a configured store (I/O error)
      "null_store",     \* ca_store_get on the absent writable store
      "decoder_put",    \* ca_decoder_put_data / put_data_fd / put_eof
      "rename" }        \* rename(temporary_base_path, base_path)

\* What the setters leave behind in decode mode.  base is "fd" when
\* set_base_fd, or set_base_path on an existing directory, opened it; "path"
\* when set_base_path kept the path; mode is set_base_mode's file type.
\* archive is an archive fd opened by set_archive_fd or set_archive_path.
ConfigRecords ==
    [base : {"none", "fd", "path"}, mode : {"none", "dir", "reg", "blk"},
     archive : BOOLEAN, index : BOOLEAN, wstore : BOOLEAN]

ASSUME ConstantsAssumption ==
    /\ Bytes # {}
    /\ Archive \in Seq(Seq(Bytes) \ {<<>>})
    /\ WStore \subseteq Objects
    /\ Seeds \in Seq(SUBSET Objects)
    /\ Configs \subseteq ConfigRecords
    /\ Configs # {}
    /\ Faults \subseteq FaultPoints
    /\ CallerRetries \in BOOLEAN

\* The archive byte stream.
ArchiveStream == FlattenSeq(Archive)

\* The objects of every store.
StoredObjects == WStore \cup UNION {Seeds[i] : i \in 1..Len(Seeds)}

\* What the driver relies on from the stores (it checks only the size of
\* what ca_sync_get returns, casync.c:735): an object filed under a chunk's
\* id holds that chunk or, after a put interrupted half-way, a truncated
\* copy of it; never other bytes.
StoresTruncatedAtWorst ==
    \A o \in StoredObjects : IsPrefix(o.data, o.id.sha256)

VARIABLES
    cfg,            \* the configuration, fixed before the first step
    baseFd,         \* s->base_fd >= 0
    tempBasePath,   \* s->temporary_base_path is set
    tmpOnDisk,      \* the temporary base file exists
    atBasePath,     \* the temporary base has been renamed to base_path
    decoder,        \* s->decoder: "none", or created and given "fd", "mode" or no base
    dstate,         \* the decoder: "want" bytes, "have" bytes, fed "fd", told "eof"
    indexState,     \* s->index: "none", "new" or "open"
    ipos,           \* the number of index records read
    fed,            \* the bytes handed to the decoder
    archiveDigest,  \* the bytes absorbed by the archive digest
    eof,            \* s->eof
    failed,         \* some step returned an error
    destroyed       \* ca_sync_unref has run

vars == <<cfg, baseFd, tempBasePath, tmpOnDisk, atBasePath, decoder, dstate,
          indexState, ipos, fed, archiveDigest, eof, failed, destroyed>>

MayFail(f) == f \in Faults

Init ==
    /\ cfg \in Configs
    /\ baseFd = (cfg.base = "fd")
    /\ tempBasePath = FALSE
    /\ tmpOnDisk = FALSE
    /\ atBasePath = FALSE
    /\ decoder = "none"
    /\ dstate = "want"
    /\ indexState = IF cfg.index THEN "new" ELSE "none"
    /\ ipos = 0
    /\ fed = <<>>
    /\ archiveDigest = <<>>
    /\ eof = FALSE
    /\ failed = FALSE
    /\ destroyed = FALSE

-----------------------------------------------------------------------------
(* ca_sync_start, decode direction (casync.c:412-478).                     *)

\* Mutants.
SizeUnchecked(chunk, res) == TRUE
UnlinkTemporaryBaseKeep == tmpOnDisk

\* Only base_path and base_mode are set: the base must be materialised.
NeedBase == decoder = "none" /\ ~baseFd /\ cfg.base = "path"

\* Materialising the base succeeds: mkdir (EEXIST accepted) and open of a
\* directory, creation of a temporary file next to a regular file, or open
\* of a block device; each leaves an open base_fd.
BaseMaterialised ==
    IF NeedBase
    THEN /\ cfg.mode # "none"
         /\ tempBasePath' = (cfg.mode = "reg")
         /\ tmpOnDisk' = (tmpOnDisk \/ cfg.mode = "reg")
    ELSE UNCHANGED <<tempBasePath, tmpOnDisk>>

\* A base fd is open once the base is materialised.
HasBaseFd == baseFd \/ NeedBase

\* ca_decoder_new, then the decoder takes over base_fd (the slot is
\* cleared) or, without one, is given base_mode.
DecoderHandedBase ==
    IF HasBaseFd
    THEN decoder' = "fd" /\ baseFd' = FALSE
    ELSE /\ cfg.mode # "none"
         /\ decoder' = "mode"
         /\ UNCHANGED baseFd

\* ca_index_open; on an index that is already open it does nothing.
IndexStarted ==
    IF indexState = "new" THEN indexState' = "open" ELSE UNCHANGED indexState

\* The decode half of ca_sync_start: only the first start creates the
\* decoder; later ones leave it alone.
DecoderStarted ==
    IF decoder = "none"
    THEN BaseMaterialised /\ DecoderHandedBase
    ELSE UNCHANGED <<baseFd, tempBasePath, tmpOnDisk, decoder>>

Started == DecoderStarted /\ IndexStarted

\* ca_sync_start returns an error.  Each disjunct is one failing call after
\* the calls before it succeeded.  A decoder whose base could not be set
\* is left in s->decoder (casync.c:457-467).
StartFails ==
    \/ /\ NeedBase
       /\ \/ cfg.mode = "none"                                  \* -EUNATCH
          \/ cfg.mode = "dir" /\ MayFail("mkdir")
          \/ cfg.mode \in {"dir", "blk"} /\ MayFail("base_open")
       /\ UNCHANGED <<baseFd, tempBasePath, tmpOnDisk, decoder, indexState>>
    \/ /\ NeedBase
       /\ cfg.mode = "reg"
       /\ MayFail("base_open")                                  \* path mfree'd
       /\ tempBasePath' = FALSE
       /\ UNCHANGED <<baseFd, tmpOnDisk, decoder, indexState>>
    \/ /\ decoder = "none"
       /\ HasBaseFd
       /\ MayFail("decoder_base")
       /\ BaseMaterialised
       /\ decoder' = "nobase"
       /\ baseFd' = TRUE
       /\ UNCHANGED indexState
    \/ /\ decoder = "none"
       /\ ~HasBaseFd
       /\ \/ cfg.mode = "none"                                  \* -EUNATCH
          \/ cfg.mode # "none" /\ MayFail("decoder_base")
       /\ decoder' = "nobase"
       /\ UNCHANGED <<baseFd, tempBasePath, tmpOnDisk, indexState>>
    \/ /\ DecoderStarted
       /\ indexState = "new"
       /\ MayFail("index_open")
       /\ UNCHANGED indexState

-----------------------------------------------------------------------------
(* ca_sync_get (casync.c:831-855) is the atomic fan-in of CaSyncStoreSpec, *)
(* which CaSyncStoreProofs shows the loop of ca_sync_get implements: the   *)
(* writable store, then each seed store in registration order, the first   *)
(* answer that is not -ENOENT wins.  The stores do not change during a     *)
(* decode.                                                                 *)

Store == INSTANCE CaSyncStoreSpec
             WITH Ids <- [sha256 : Seq(Bytes)], Data <- Seq(Bytes),
                  hasWStore <- cfg.wstore, wstore <- WStore, result <- "none"

\* The results ca_sync_get may return for id.
GetResults(id) == Store!GetResults(id)

-----------------------------------------------------------------------------
(* ca_sync_process_decoder_request (casync.c:709-761).                     *)

\* The index object size must equal the size of the object the store
\* returned, else -EBADMSG.
SizeMatches(chunk, res) == Len(res.data) = Len(chunk)

\* The bytes ca_sync_write_archive_digest reads from p after free(p): the
\* freed memory may still hold them or may have been reused (casync.c:741).
FreedBytes(d) == [1..Len(d) -> Bytes]

\* Mutant: the index EOF is swallowed instead of passed to the decoder.
IndexEofIgnored == UNCHANGED <<dstate, failed>>

\* ca_index_read_object reports EOF: the decoder is told by put_eof.
IndexEof ==
    \/ dstate' = "eof" /\ UNCHANGED failed
    \/ MayFail("decoder_put") /\ failed' = TRUE /\ UNCHANGED dstate

\* The request is answered from the index and the store fan-in: the next
\* record is read (and is consumed, whatever follows), its object fetched,
\* checked and handed to the decoder, then fed to the archive digest.
RequestFromIndex ==
    \/ /\ MayFail("index_read")
       /\ failed' = TRUE
       /\ UNCHANGED <<ipos, fed, archiveDigest, dstate>>
    \/ /\ ipos = Len(Archive)                                   \* index EOF
       /\ IndexEof
       /\ UNCHANGED <<ipos, fed, archiveDigest>>
    \/ /\ ipos < Len(Archive)
       /\ ipos' = ipos + 1
       /\ \E res \in GetResults(ObjectId(Archive[ipos + 1])) :
            \/ /\ res.kind = "found"
               /\ SizeMatches(Archive[ipos + 1], res)
               /\ fed' = fed \o res.data
               /\ dstate' = "have"
               /\ \E junk \in FreedBytes(res.data) :
                     archiveDigest' = archiveDigest \o junk
               /\ UNCHANGED failed
            \/ /\ \/ ~(res.kind = "found" /\ SizeMatches(Archive[ipos + 1], res))
                  \/ MayFail("decoder_put")
               /\ failed' = TRUE
               /\ UNCHANGED <<fed, archiveDigest, dstate>>

\* Without an index the decoder is handed the archive fd with unbounded
\* length and reads the whole archive from it; with neither, -ENOTTY.
RequestFromArchive ==
    \/ /\ cfg.archive
       /\ dstate' = "fdfed"
       /\ fed' = ArchiveStream
       /\ UNCHANGED failed
    \/ /\ cfg.archive
       /\ MayFail("decoder_put")
       /\ failed' = TRUE
       /\ UNCHANGED <<fed, dstate>>
    \/ /\ ~cfg.archive                                          \* -ENOTTY
       /\ failed' = TRUE
       /\ UNCHANGED <<fed, dstate>>

ProcessRequest ==
    IF indexState # "none"
    THEN RequestFromIndex
    ELSE RequestFromArchive /\ UNCHANGED <<ipos, archiveDigest>>

-----------------------------------------------------------------------------
(* Actions: one ca_sync_step each, and ca_sync_unref.                      *)

\* The caller steps before eof and destruction, and after an error only if
\* it retries.  A step after eof runs ca_sync_start (a no-op then) and
\* returns -EPIPE: a stuttering step.
CanStep == ~eof /\ ~destroyed /\ (CallerRetries \/ ~failed)

StepStartFails ==
    /\ CanStep
    /\ StartFails
    /\ failed' = TRUE
    /\ UNCHANGED <<cfg, atBasePath, dstate, ipos, fed, archiveDigest, eof, destroyed>>

\* ca_decoder_step returns an error.
StepDecoderFails ==
    /\ CanStep
    /\ Started
    /\ MayFail("decoder_step")
    /\ failed' = TRUE
    /\ UNCHANGED <<cfg, atBasePath, dstate, ipos, fed, archiveDigest, eof, destroyed>>

\* CA_DECODER_STEP, CA_DECODER_PAYLOAD or CA_DECODER_NEXT_FILE: the decoder
\* consumed bytes it was handed; the driver returns at once.
StepProgress ==
    /\ CanStep
    /\ Started
    /\ dstate = "have"
    /\ dstate' = "want"
    /\ UNCHANGED <<cfg, atBasePath, ipos, fed, archiveDigest, eof, failed, destroyed>>

\* CA_DECODER_REQUEST.
StepRequest ==
    /\ CanStep
    /\ Started
    /\ dstate = "want"
    /\ ProcessRequest
    /\ UNCHANGED <<cfg, atBasePath, eof, destroyed>>

\* CA_DECODER_FINISHED: the temporary base is renamed to base_path, then
\* eof latches (casync.c:779-789).  The decoder exists by then, so
\* ca_sync_start only re-opens the open index: a no-op.
StepFinished ==
    /\ CanStep
    /\ decoder # "none"
    /\ dstate \in {"eof", "fdfed"}
    /\ \/ /\ tempBasePath
          /\ MayFail("rename")
          /\ failed' = TRUE
          /\ UNCHANGED <<tempBasePath, tmpOnDisk, atBasePath, eof>>
       \/ /\ IF tempBasePath
             THEN atBasePath' = TRUE /\ tmpOnDisk' = FALSE /\ tempBasePath' = FALSE
             ELSE UNCHANGED <<atBasePath, tmpOnDisk, tempBasePath>>
          /\ eof' = TRUE
          /\ UNCHANGED failed
    /\ UNCHANGED <<cfg, baseFd, decoder, indexState, dstate, ipos, fed,
                   archiveDigest, destroyed>>

\* ca_sync_unref unlinks the temporary base if its path is still set.
UnlinkTemporaryBase == IF tempBasePath THEN FALSE ELSE tmpOnDisk

Destroy ==
    /\ ~destroyed
    /\ destroyed' = TRUE
    /\ tmpOnDisk' = UnlinkTemporaryBase
    /\ tempBasePath' = FALSE
    /\ UNCHANGED <<cfg, baseFd, atBasePath, decoder, dstate, indexState, ipos,
                   fed, archiveDigest, eof, failed>>

\* The steps the caller's loop makes; ca_sync_unref is the caller's choice.
DriverStep ==
    \/ StepStartFails
    \/ StepDecoderFails
    \/ StepProgress
    \/ StepRequest
    \/ StepFinished

Next == DriverStep \/ Destroy

Spec == Init /\ [][Next]_vars

\* The caller runs ca_sync_step in a loop until it returns FINISHED or an
\* error (spec.md sections 5 and 7): a step it can take is eventually taken.
FairSpec == Spec /\ WF_vars(DriverStep)

-----------------------------------------------------------------------------
(* Properties.                                                             *)

\* Every variable has its type.
TypeOK ==
    /\ cfg \in ConfigRecords
    /\ baseFd \in BOOLEAN
    /\ tempBasePath \in BOOLEAN
    /\ tmpOnDisk \in BOOLEAN
    /\ atBasePath \in BOOLEAN
    /\ decoder \in {"none", "nobase", "fd", "mode"}
    /\ dstate \in {"want", "have", "fdfed", "eof"}
    /\ indexState \in {"none", "new", "open"}
    /\ ipos \in 0..Len(Archive)
    /\ fed \in Seq(Bytes)
    /\ archiveDigest \in Seq(Bytes)
    /\ eof \in BOOLEAN
    /\ failed \in BOOLEAN
    /\ destroyed \in BOOLEAN

\* The round-trip law of spec.md section 8 on the driver's side: a decode
\* driven by an index that reaches eof has handed the decoder exactly the
\* archive stream, chunk by chunk in index order.  It rests on the store
\* fan-in picking an object with the right bytes, on the size check
\* refusing a truncated object, and on put_eof coming only after the last
\* record.  (The stores may hold truncated objects, never objects whose
\* bytes of the right length are wrong: the driver does not re-hash.)
DecodedFaithful == eof /\ cfg.index => fed = ArchiveStream

\* A temporary base file on disk is always one the driver still has the
\* path of, so that ca_sync_unref unlinks it; a base that failed to open
\* or that was renamed into place leaves no temporary behind.
NoLeakedTempBase == tmpOnDisk => tempBasePath

\* Spec.md section 4.4: after an index-driven decode the archive digest
\* has absorbed the bytes handed to the decoder, so that get_digest equals
\* the original archive's digest.
DigestCoversDecoded == eof /\ cfg.index => archiveDigest = fed

\* Every step that calls ca_decoder_step runs a decoder that was handed
\* its base (an fd or a mode), as spec.md section 9 requires of start.
DecoderHasBase ==
    [][(StepDecoderFails \/ StepProgress \/ StepRequest \/ StepFinished)
         => decoder' \in {"fd", "mode"}]_vars

\* Under the caller's loop, every decode ends: eof, an error, or the
\* caller destroys the driver.  A request that can never be satisfied or
\* an index EOF never passed to the decoder would loop for ever.
DecodeTerminates == <>(eof \/ failed \/ destroyed)
====
