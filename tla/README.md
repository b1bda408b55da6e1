# Formal models of the casync synchronization driver

This directory holds TLA+ models of `src/src/casync.c`, the driver that
couples the casync encoder and decoder to an archive file, a chunk store
and a chunk index. It also holds TLC configurations that model-check the
models on small instances, and TLAPS proofs of the main invariants for
every instance.

## The system

`casync.c` implements the object `CaSync`. It has two directions, fixed
at construction (`ca_sync_new_encode`, `ca_sync_new_decode`).

| Part | Code | What it does |
|---|---|---|
| Configuration surface | `ca_sync_set_*`, `ca_sync_add_seed_store_local` (129-372) | Each setter fills one slot, or fails busy when the slot or a slot of the same group is already set. |
| Lazy start | `ca_sync_start` (374-480) | Runs at the head of every step. It creates the temporary archive, creates the encoder or decoder and hands it the base descriptor, materialises the decode base, and opens the index. |
| Encode pipeline | `ca_sync_step_encode` and its sinks (482-707) | Pulls one unit of encoder output per step. The unit goes to the archive file, then to the archive digest, then to the chunker, the writable store and the index. On FINISHED the driver renames the archive, writes the final chunk, seals the index and latches `eof`. |
| Decode pipeline | `ca_sync_step_decode`, `ca_sync_process_decoder_request` (709-811) | Answers the decoder's requests. With an index, each request reads an index record and fetches the chunk through the store fan-in. Without one, the archive fd is handed to the decoder. |
| Store fan-in | `ca_sync_get`, `ca_sync_put` (831-869) | A get tries the writable store, then the seed stores in order. |
| Digest façade | `ca_sync_make_object_id`, `ca_sync_get_digest` (871-925) | SHA-256 of a chunk, and the archive digest once `eof` is latched. |
| Lifecycle | `ca_sync_step` (813-829), `ca_sync_unref` (89-127) | The step entry, and destruction, which unlinks temporary files. |

The encoder, decoder, chunker, store, index and libgcrypt are the
collaborators of spec.md §6. They are not in this repository; the models
treat them by their contracts.

The driver is single-threaded. Interleaving within it comes only from
the order of the caller's calls. The hard part is elsewhere:
- the order of the effects inside one step, and which of them have
  already happened when a call fails;
- the chunk loop's bookkeeping across steps (zero copy, buffer, cut
  offset);
- the publication of the output files.

## Modules

- **`CaSyncEncode`**: the encode direction, from construction to
  destruction.
  - *State.* `cfg` is the configuration the setters left behind.
    `baseFd` is `s->base_fd >= 0`. `encoder` is the encoder slot.
    `archiveFd` is `"none"`, `"user"` (given by `set_archive_fd`) or
    `"temp"` (the temporary archive). `temporaryArchivePath` and
    `tmpOnDisk` are the path slot and whether that file exists. `atPath`
    says a file sits at `archive_path`.
  - *Data.* `written` is the bytes in the archive file. `archiveDigest`
    is the bytes absorbed by the archive digest. `buffer` is
    `s->buffer`. `store` is the writable store's objects. `index` is the
    index records. `indexState` and `indexDigest` are the index's open,
    closed and digest state. `eof` is `s->eof`.
  - *Loop position.* `pending` and `pc` are the chunk loop's remaining
    input and whether the loop is running.
  - *Ghost variables.* `failed` says a step returned an error. The
    caller stops stepping then, as spec §7 says. `destroyed` records
    `ca_sync_unref`. `stream` is every byte the encoder handed out.
    `chunked` is the concatenation of the chunks put to the store.
  - *Actions.* One `ca_sync_step` is an action:
    - `StepStartFails`: `ca_sync_start` fails, with one disjunct per
      failing call;
    - `StepEncoderFails`;
    - `StepData`: a DATA or NEXT_FILE unit goes through the archive
      write, the digest and the entry to `ca_sync_write_chunks`;
    - `StepFinished`: rename, `ca_sync_write_final_chunk` with all of
      its early returns and failures, then `eof`.
  - *The chunk loop.* Each turn of the `while` loop of
    `ca_sync_write_chunks` is one action: `ChunkerNoBoundary`,
    `WriteChunk` or `WriteChunkFails`. Other actions are blocked while
    `pc = "chunks"`, so a step together with its loop turns is atomic,
    as in the code. Turns are separate actions so that the invariants
    talk about the loop's state between turns.
  - *Destruction.* `Destroy` is `ca_sync_unref`.
  - *Abstractions.*
    - Bytes are a small set of values.
    - SHA-256 is the injective `ObjectId`.
    - The chunker may cut at any position of the input. A
      content-defined cut is some position; the model checks all of
      them.
    - Each external call named in `Faults` may fail.
    - A failing `loop_write` may leave any proper prefix of the unit
      written.
- **`CaSyncEncodeProofs`**: the TLAPS proofs about `CaSyncEncode`.
- **`CaSyncDecode`**: the decode direction, from construction to
  destruction.
  - *State.* `cfg` is one of the configurations the decode setters can
    leave (`ConfigRecords`: base `none`/`fd`/`path`, a `base_mode`, an
    archive fd, an index, a writable store). `baseFd` is
    `s->base_fd >= 0`. `tempBasePath` and `tmpOnDisk` are
    `s->temporary_base_path` and whether that file exists; `atBasePath`
    says it was renamed into place. `decoder` is `"none"` or the base
    the decoder was given (`"fd"`, `"mode"`, or `"nobase"` when
    `ca_decoder_set_base_*` failed and the decoder was kept). `dstate`
    is the decoder's contract state. `indexState` and `ipos` are the
    index and the number of records read. `fed` is every byte handed to
    the decoder, `archiveDigest` every byte the archive digest absorbed.
  - *Actions.* `StepStartFails` (one disjunct per failing call of the
    decode half of `ca_sync_start`), `StepDecoderFails`, `StepProgress`
    (STEP/PAYLOAD/NEXT_FILE), `StepRequest` (the whole of
    `ca_sync_process_decoder_request`: record read, fan-in, size check,
    `put_data`, digest; or the archive fd; or `-ENOTTY`), `StepFinished`
    (rename of the temporary base, then `eof`), and `Destroy`.
  - *Abstractions.* The archive is a constant sequence of chunks and the
    index names them by `ObjectId` and size. The stores are constant
    sets of objects, which may hold a truncated copy under a valid id.
    The bytes read from `p` after `free(p)` are any bytes of the same
    length (`FreedBytes`): undefined behaviour as a nondeterministic
    choice.
  - *The caller.* `CallerRetries` says whether the caller steps again
    after an error. spec.md §7 forbids it but the code does not refuse
    it; the retry runs use it.
  - *Composition.* `ca_sync_get` is taken from `CaSyncStoreSpec` by
    `INSTANCE ... WITH` (`hasWStore <- cfg.wstore`), the
    atomic fan-in that `CaSyncStore` is proved to implement.
- **`CaSyncEncodeOutputProofs`**: TLAPS proofs about the outputs of
  `CaSyncEncode`: the archive file, the temporary archive, the index
  records and the index digest. It extends `CaSyncEncodeProofs`.
- **`CaSyncDecodeProofs`**: TLAPS proofs about `CaSyncDecode`.
- **`CaSyncFlattenProofs`**: lemmas about `FlattenSeq` of the community
  module SequencesExt (the archive stream as the concatenation of its
  chunks), used by both the encode and the decode proofs. The encode and
  decode modules `EXTEND SequencesExt` (instead of a `LOCAL INSTANCE`)
  so that these lemmas speak of the same operator.
- **`CaSyncStoreSpec`**: the abstract store fan-in. `hasWStore` is
  `s->wstore != NULL`, fixed by the initial state, and `wstore` is the
  writable store's objects. A get returns, in
  one step, the first answer that is not "not found" of the writable
  store (absent: whatever `ca_store_get(NULL, ...)` answers, fault
  `null_store`) and then the seeds in order, where each store may also
  fail (`store_get`). A put answers `-EROFS` without a writable store,
  else adds the object or fails (`store_put`).
- **`CaSyncStore`**: `ca_sync_get` as the code runs it, one
  `ca_store_get` per step (`GetBegin`, `GetProbe`, with `req` and the
  loop index `gpos`), and `ca_sync_put`. `StoreSpec` is
  `CaSyncStoreSpec!Spec` under the identity mapping on `hasWStore`,
  `wstore` and `result`; the loop's own variables are hidden.
- **`CaSyncStoreProofs`**: the proof that `CaSyncStore` implements
  `CaSyncStoreSpec`.
- **`CaSyncConfig`**: `ca_sync_new_*` and the ten setters, every early
  return included (`-EINVAL`, `-ENOTTY` in the wrong direction, `-EBUSY`,
  failing `open`, `strdup`, `realloc`, `ca_index_set_*`,
  `ca_store_set_local`). The slots are Booleans (set or not) plus the
  base mode and the number of seeds; `last` is the last call's outcome.
- **`CaSyncConfigProofs`**: TLAPS proofs about `CaSyncConfig`.
- **`MC_*`**: constants for TLC.

How the parts fit: the setters (`CaSyncConfig`) leave a configuration;
`ConfigMatchesPipelines` says it is one of those `CaSyncEncode` and
`CaSyncDecode` start from (`Configs`), so the pipeline modules may start
from any configuration record without modelling the setters again. The
decode pipeline calls the store fan-in, which is the abstract
`CaSyncStoreSpec`; its refinement by the loop (`CaSyncStore`) is what
justifies taking `ca_sync_get` as one atomic step inside a decode step.

## Runs

| Run | cfg | Expect | Shows |
|---|---|---|---|
| `encode_safety` | `MC_CaSyncEncode.cfg` | pass | All 24 configurations and all nine fault points, on streams of up to 4 bytes in units of up to 2 bytes over bytes {0,1}. 24,212 distinct states. |
| `index_seal_exact_cut` | `MC_CaSyncEncode_IndexSeal.cfg` | violation | `IndexSealedAtEof` fails (finding 1). |
| `atomic_archive` | `MC_CaSyncEncode_Atomic.cfg` | violation | `AtomicArchive` fails (finding 2). |
| `encode_termination` | `MC_CaSyncEncode_Live.cfg` | pass | `EncodeTerminates` under `FairSpec`, no faults. 10,248 states. |
| `decode_safety` | `MC_CaSyncDecode.cfg` | pass | `DecodedFaithful` and `NoLeakedTempBase` for the caller that stops at an error: all 96 decode configurations, all ten fault points. 7,752 states. |
| `decode_termination` | `MC_CaSyncDecode_Live.cfg` | pass | `DecodeTerminates` under `FairSpec`, no faults. 3,944 states. |
| `decode_digest_freed` | `MC_CaSyncDecode_Digest.cfg` | violation | `DigestCoversDecoded` fails (finding 3). |
| `decode_retry_base` | `MC_CaSyncDecode_RetryBase.cfg` | violation | `DecoderHasBase` fails with a retrying caller, in index decodes that have a base fd or a base mode, so that the failing call is `ca_decoder_set_base_*` (finding 4). |
| `decode_retry_skip` | `MC_CaSyncDecode_RetrySkip.cfg` | violation | `DecodedFaithful` fails with a retrying caller (finding 5). |
| `store_refinement` | `MC_CaSyncStore.cfg` | pass | The loop of `ca_sync_get` and `ca_sync_put` implement `CaSyncStoreSpec`, with and without a writable store, with all store faults. 570 states. |
| `config_safety` | `MC_CaSyncConfig.cfg` | pass | `ConfigMatchesPipelines` for any call sequence in both directions, up to 2 seeds, all faults. 11,498 states. |
| `config_base_group` | `MC_CaSyncConfig_BaseGroup.cfg` | violation | `BaseGroupExclusive` (spec invariant 1) fails (finding 6). |

### Encode

The properties of `encode_safety`:
- `ChunkPartition` (spec invariant 8): between steps and between loop
  turns, the stored chunks, the buffer and the unscanned input
  concatenate to the stream. At eof the chunks alone do.
- `IndexRecordsStored`: every index record names a stored object of
  that size, whichever call fails.
- `SealedIndexDescribesArchive` (invariants 8 and 9): a sealed index,
  resolved through the store, reassembles the stream, and its digest is
  SHA-256 of the stream.
- `ArchiveOutputFaithful`: the archive output of a successful encode is
  exactly the stream.
- `NoLeakedTemp`: a temporary archive on disk always has its path kept,
  so `ca_sync_unref` unlinks it.

Each property has a mutant in `PROJECT.json`: a plausible bug in the
code it is about, which the run then catches.

**Bounds.** With 4 bytes in units of at most 2:
- a chunk can straddle two units;
- a unit can hold two cuts;
- the final chunk can be empty or not;
- two chunks can have equal content, which is the deduplication case
  where the index names one stored object twice.

Every fault point fires in some behaviour, and every configuration is
an initial state. Larger streams only repeat these shapes.

**Deadlock.** It is not checked. After `Destroy`, or after `eof` or an
error, the driver really may stop: the caller stops calling `step`.

**Fairness and liveness.** `FairSpec` adds `WF_vars(DriverStep)`,
weak fairness of the step actions only (`Destroy` stays the caller's
free choice). spec.md §5 and §7 describe the caller as a loop that calls
`ca_sync_step` until FINISHED or an error; a step the driver can take is
therefore eventually taken. Nothing else is assumed: no fairness on
which fault fires or which store answers. The liveness runs have no
faults, because a fault only ends a run sooner (the caller stops at an
error). `EncodeTerminates` and `DecodeTerminates` are
`<>(eof \/ failed \/ destroyed)`: the chunk loop must always return to
the step, and the index EOF must reach the decoder.

### Decode

The properties of `decode_safety`:
- `DecodedFaithful` (spec §8, round trip, driver side): an index-driven
  decode that reaches `eof` handed the decoder exactly the archive
  stream. The instance makes it hard: the writable store holds a
  truncated copy of the two-byte chunk, the first seed the full chunk,
  and a chunk is named twice by the index. Only the size check at
  `casync.c:735` keeps the truncated copy out.
- `NoLeakedTempBase`: a temporary base on disk always has its path kept
  for `ca_sync_unref`.

`DecoderHasBase` (action property, spec §9) says that every step that
calls `ca_decoder_step` runs a decoder that was given a base fd or mode.
It is checked only by `decode_retry_base`, where it fails. A caller that
stops at the first error never steps a decoder that was left without a
base, so there it would only restate the guard at `casync.c:464`.

**Bounds.** Three chunks of at most 2 bytes, one repeated; two seed
stores that overlap the writable store; every decode configuration
(each base kind, each base mode, with or without archive fd, index and
writable store). Every path of `ca_sync_start` and of the request
handler is reached; more chunks only repeat the request loop.

**Deadlock.** Not checked in the decode runs: after eof, an error or
`Destroy` the caller really stops.

### Store fan-in

`StoreSpec` is the abstract fan-in as a `PROPERTY`. The initial states
include a driver with a writable store and one without. The instance has two
ids and two contents, a writable store and two seeds that disagree on one
id, and every store call may fail, so an error at store 0 racing a hit at
store 1 is explored. Deadlock is checked (a get or a put is always
possible).

### Configuration

- `ConfigMatchesPipelines`: the slots after any call sequence are a
  configuration the pipeline models start from: archive fd and path
  exclusive, base fd and path exclusive, no base path or mode in encode,
  no archive path or perm mode in decode.

A failing `set_index_*` or `set_store_local` allocates its slot and
unrefs it again within the one call (`casync.c:155-162`, `330-338`).
No other call can observe the half-made slot, so the model writes such a
call as an early return (`Fails`) and states no property about it.

With `MaxSeeds = 2` the seed array grows twice and the bound guard is
reached. Deadlock is checked: a setter call is always possible.

## Findings

1. **The index is not sealed when the stream ends on a chunk cut**
   (`casync.c:608`). `ca_sync_write_final_chunk` returns early when the
   buffer is empty, and also when there is no writable store. That skips
   `ca_index_set_digest`, `ca_index_write_eof` and `ca_index_close`, yet
   the step still returns FINISHED. TLC's trace:
   1. one unit `<<0>>`;
   2. a cut at its end;
   3. FINISHED.

   The result is an index without digest and EOF record.
2. **The archive is published before the step has succeeded**
   (`casync.c:662`). The rename to `archive_path` happens before the
   final chunk and the index trailer are written. When that write
   fails, the step returns an error with the archive already in place.
   This contradicts spec §8 "Atomic output" and invariant 10.

3. **The decode digest is fed from freed memory** (`casync.c:741-745`).
   `ca_sync_process_decoder_request` calls `free(p)` and then
   `ca_sync_write_archive_digest(s, p, index_size)`. TLC finds a complete
   index-driven decode whose digest input differs from the bytes handed
   to the decoder. spec.md §8 lists it as a known bug.
4. **A resumed step drives a decoder without a base** (`casync.c:457-467`).
   When `ca_decoder_set_base_*` fails, the decoder stays in `s->decoder`.
   The encode side unrefs its encoder at line 405; the decode side does
   not. The next `ca_sync_step` skips the base hand-over and calls
   `ca_decoder_step`. spec.md §7 says the caller must not resume; the
   code does not refuse it.
5. **A resumed step skips a chunk** (`casync.c:719`). The index record
   is consumed before `ca_sync_get`, the size check and `put_data`. When
   one of them fails, a resumed step reads the next record, and the
   decode reaches FINISHED with a chunk missing.
6. **`set_base_path` ignores `base_mode`** (`casync.c:215-218`). It
   checks `base_fd` and `base_path` only, and opens an existing directory
   into `base_fd`. After `set_base_mode` in decode it succeeds and leaves
   a base fd and a base mode. spec.md §3 invariant 1 says the group has
   one member. (Decode still works: start uses the fd and ignores the
   mode. `CaSyncDecode` starts from such configurations too.)

## Proofs (checked by tlapm)

### `CaSyncEncodeProofs`

The assumption is `ConstantsAssumption`:
- `Bytes` is non-empty;
- the bounds are positive naturals;
- `Configs` is a non-empty set of configuration records;
- `Faults` is a set of fault points.

The proofs hold for every such instance. That includes any alphabet,
any bounds, and any mix of configurations and faults.

- `TypeCorrect: Spec => []TypeOK`. `TypeOK` is inductive. The proof has
  one step per action and rests on lemmas for:
  - the start helpers (`StartedType`, `StartFailsType`);
  - the archive-write outcomes;
  - the chunk payload (`ChunkObjectType`: a cut at k ≥ 1 gives a
    non-empty chunk);
  - the chunk write (`WriteOneChunkType`, `ChunkRecordType`: an index
    record has a non-zero size).
- `PartitionCorrect: Spec => []ChunkPartition`. `ChunkPartition` alone
  is not inductive. A step that enters the chunk loop must know that no
  input is pending between steps, and a loop turn must know that the
  loop only runs with a writable store, before eof and with no error.
  - The inductive invariant is
    `IInv = TypeOK /\ (pc = "idle" => pending = <<>>) /\ (pc = "chunks" => cfg.wstore /\ ~failed /\ ~eof) /\ ChunkPartition`.
    TLC checked it as an invariant of the `encode_safety` instance
    before the proof was written.
  - The key step is `WriteChunk`. Cutting `pending` at k splits it into
    `SubSeq(pending,1,k) \o SubSeq(pending,k+1,Len(pending))`
    (`ConcatAdjacentSubSeq`), and associativity of `\o` moves the
    buffer and the head into the chunk.
  - At FINISHED, an empty buffer and a written final chunk both leave
    the chunks equal to the stream.


### `CaSyncEncodeOutputProofs`

Same assumption as `CaSyncEncodeProofs`, whose `IInv` it reuses.

- `ArchiveFaithful: Spec => []ArchiveOutputFaithful`,
  `TempArchiveCleaned: Spec => []NoLeakedTemp` and
  `IndexedChunksStored: Spec => []IndexRecordsStored`. They share one
  inductive invariant, `OInv = IInv /\ OutputInv /\ IndexRecordsStored`.
  TLC checked it on the `encode_safety` instance before the proof was
  written. `OutputInv` adds what the properties leave implicit:
  - a temporary path belongs to the `"temp"` archive fd;
  - with no archive fd nothing is written, and while the temporary
    archive is still to be created nothing has been emitted, so the
    archive opened by the first `ca_sync_start` has seen every byte;
  - an open archive fd has seen the whole stream until an error;
  - a file at `archive_path` holds the stream and comes with eof or an
    error, so no data step follows it;
  - eof excludes an error.

  `IndexRecordsStored` is inductive given the types. The lemma
  `WriteOneChunkStored` holds because `ca_store_put` precedes
  `ca_index_write_object`, so the store already holds what a new record
  names, and the store only grows.
- `IndexDigestCorrect: Spec => []SealedDigest` proves the digest half of
  `SealedIndexDescribesArchive` (spec invariant 9): a sealed index
  carries `ObjectId(stream)`. Its inductive form `DigestInv` says that
  until an error the archive digest has absorbed the whole stream, and
  that the index is sealed only together with eof.
- `SealedIndexCorrect: Spec => []SealedIndexDescribesArchive` proves all
  of spec invariants 8 and 9: once sealed, the index records resolved
  through the writable store concatenate to the stream, and the digest
  is that of the stream. The inductive invariant is
  `OInv /\ DigestInv /\ ReasmInv`. `ReasmInv` (TLC-checked on the
  `encode_safety` instance first) says that while the index is open and
  no call failed, the chunks the records name (`IndexChunks`) flatten to
  the stored chunks `chunked`, and that a sealed index implies a
  writable store. Each chunk write appends one record and one chunk, so
  `FlattenSeqAppend` keeps the equation. At the seal, `DigestInv` gives
  eof, `OutputInv` no error, and `ChunkPartition` `chunked = stream`.
  `ReassembledIsIndexChunks` resolves each record: the store holds an
  object with the record's id (`IndexRecordsStored`), and `ObjectId` is
  injective, so `ca_store_get` returns the chunk the record names.

### `CaSyncStoreProofs`: the loop implements the fan-in

`ConstantsAssumption` of `CaSyncStore`: the idle marker is not an id,
the seeds are a sequence of object sets, and the faults are store faults.

- `LoopCorrect: Spec => []LoopInv`. `LoopInv` says that while a get runs,
  `req` is an id, `gpos` is a store position, and every store before
  `gpos` *could* have answered "not found" for `req`.
- `Refinement: Spec => StoreSpec`. The initial states are the same. A
  probe that moves on changes neither `wstore` nor `result`: a stutter of
  the abstract spec. The probe that ends the loop returns an answer `a`
  of store `g`. `ProbeResult` builds the answer vector "not found before
  `g`, `a` at `g`, anything after" and shows that `FirstAnswer` of it is
  `a`, so `a` is an outcome of the atomic get. `LoopInv` is what supplies
  "not found before `g`"; that is why it is needed.

### `CaSyncDecodeProofs`

`ConstantsAssumption` of `CaSyncDecode` (non-empty bytes, a sequence of
non-empty chunks, object sets, configurations, faults, a Boolean
`CallerRetries`). `TempBaseCleaned` holds with a retrying caller too.

- `TempBaseCleaned: Spec => []NoLeakedTempBase`. It is not inductive
  alone: a start that creates a temporary base must know that no
  temporary base existed before the decoder did. The inductive invariant
  `CtlInv` adds the types of the control slots and
  `decoder = "none" => ~tmpOnDisk`. The proof has one lemma for the
  successful start (`StartedCtl`), one with a case per failing call
  (`StartFailsCtl`), and one case per step action.
- `DecodedStreamCorrect`: under `~CallerRetries` and
  `StoresTruncatedAtWorst`, `Spec => []DecodedFaithful`. The second
  hypothesis is what the driver relies on from the stores: an object
  filed under a chunk's id holds that chunk or a truncated copy of it
  (an interrupted put). The driver checks only the size
  (`casync.c:735`), and that check excludes exactly the truncated
  copies. The `MC_CaSyncDecode` instance meets it; an `ASSUME` there
  makes TLC check this on every decode run. The proof fails for a
  resuming caller, and `decode_retry_skip` (finding 5) shows why.
  The inductive invariant `StreamInv` says that with an index and no
  error, what was fed to the decoder is the flattening of the first
  `ipos` chunks (`IndexedPrefix(ipos)`). An index decoder reaches eof
  only after the last record, and eof excludes an error.
  `FoundIsStored` shows that a fan-in answer "found" is the content of
  some stored object with that id. `SizeCheckedIsChunk` then shows that
  an answer of the right size is the chunk itself.
  `FlattenSeqPrefixStep` takes the stream one chunk further.

### `CaSyncConfigProofs`

`ConstantsAssumption` of `CaSyncConfig` (`MaxSeeds \in Nat`, faults).

- `SettersMatchPipelines: Spec => []ConfigMatchesPipelines`.

It rests on `ConfigInv = SlotTypes /\ ConfigMatchesPipelines` and the
lemma `SetterStep`. `SetterStep` says each call establishes `ConfigInv'`.
It has one case per setter: the
early returns go to `FailsKeep`, and the success case to `SuccessKeeps`.
`SlotTypes` leaves out the seed count: no property depends on it, and
leaving it out keeps arithmetic out of obligations about Booleans, which
the SMT backend handles badly.

### `CaSyncFlattenProofs`

`FlattenSeq` is defined by a recursive function in a `LET`, so for
tlapm it is a `CHOOSE` of a function meeting its defining equation
(`FlatEq`). These lemmas need induction. The library's induction
theorems take the predicate as an operator parameter, which the
installed provers cannot instantiate, so the induction is done by least
counterexample instead:
- `LeastNat` gets a least element from `WFMin` and the well-foundedness
  of `<` on `Nat`;
- `FlatPrefixesExist` shows that a function of prefix concatenations
  exists for every length;
- `FlatEqUnique` shows that it is unique;
- `FlattenSeqAppend` shows
  `FlattenSeq(Append(t, x)) = FlattenSeq(t) \o x`;
- `FlattenSeqPrefixStep` and `FlattenSeqPrefixEnds` state the same
  facts for prefixes.

### Only model-checked

- `IndexSealedAtEof`, `AtomicArchive`, `DigestCoversDecoded`, `DecoderHasBase` and
  `BaseGroupExclusive`: the properties of the runs where TLC finds a
  violation.
- `DecodedFaithful` with a resuming caller, which is false
  (`decode_retry_skip`).
- `EncodeTerminates` and `DecodeTerminates`: liveness under fairness,
  and `ENABLED`, are out of TLAPS's reach.

## Not modelled

- **Introspection** (`ca_sync_current_path`, `ca_sync_current_mode`,
  `casync.c:927-952`). These only forward to the encoder or decoder and
  change no state.
- **An encode caller that resumes after an error** (`casync.c:611`,
  the final chunk written twice). `CaSyncEncode` and its proofs assume
  the spec §7 caller. The decode model has `CallerRetries`; the encode
  model does not yet.
- **Re-opening the index** (`casync.c:473`). `ca_index_open` on an index
  that is already open is assumed to be a no-op. The index is not in
  this repository, so the assumption cannot be checked against code.
- **The collaborators** (encoder, decoder, chunker, stores, index,
  libgcrypt) are not in this repository. They are modelled by their
  spec.md §6 contracts only.
- **Not modelled by design:** `make_perm_mode` bits, file names,
  formatting and logging.

Next steps, in order:
1. a retrying caller for encode;
2. an encode-to-decode round trip module at chunk level;
3. an abstract encode pipeline refined by `CaSyncEncode`.
