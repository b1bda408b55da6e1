------------------------- MODULE CaSyncDecodeProofs -------------------------
(***************************************************************************)
(* TLAPS proofs about the decode driver (CaSyncDecode): a temporary base  *)
(* on disk is always one ca_sync_unref will unlink, for every archive,    *)
(* store contents, configuration set, fault set and caller; and an index  *)
(* decode hands the decoder exactly the archive stream.                    *)
(***************************************************************************)
EXTENDS CaSyncDecode, CaSyncFlattenProofs, TLAPS

\* The inductive invariant: the control state is well typed, no temporary
\* base exists before the decoder is created (it is made in the same
\* ca_sync_start that creates the decoder), and NoLeakedTempBase itself.
CtlInv ==
    /\ baseFd \in BOOLEAN
    /\ tempBasePath \in BOOLEAN
    /\ tmpOnDisk \in BOOLEAN
    /\ decoder \in {"none", "nobase", "fd", "mode"}
    /\ decoder = "none" => ~tmpOnDisk
    /\ NoLeakedTempBase

LEMMA InitCtlInv == Init => CtlInv
BY DEF Init, CtlInv, NoLeakedTempBase

\* Creating the decoder and handing it the base keeps the invariant.
LEMMA StartedCtl ==
    ASSUME CtlInv, DecoderStarted, cfg' = cfg
    PROVE  CtlInv'
<1>1. CASE decoder = "none"
  <2>1. BaseMaterialised /\ DecoderHandedBase
    BY <1>1 DEF DecoderStarted
  <2>2. ~tmpOnDisk
    BY <1>1 DEF CtlInv
  <2>3. tmpOnDisk' => tempBasePath'
    BY <2>1, <2>2 DEF BaseMaterialised
  <2>4. decoder' \in {"fd", "mode"}
    BY <2>1 DEF DecoderHandedBase
  <2>5. baseFd' \in BOOLEAN /\ tempBasePath' \in BOOLEAN /\ tmpOnDisk' \in BOOLEAN
    BY <2>1 DEF CtlInv, DecoderHandedBase, BaseMaterialised
  <2> QED BY <2>3, <2>4, <2>5 DEF CtlInv, NoLeakedTempBase
<1>2. CASE decoder # "none"
  <2>1. UNCHANGED <<baseFd, tempBasePath, tmpOnDisk, decoder>>
    BY <1>2 DEF DecoderStarted
  <2> QED BY <1>2, <2>1 DEF CtlInv, NoLeakedTempBase
<1> QED BY <1>1, <1>2

\* Each failing ca_sync_start keeps the invariant.
LEMMA StartFailsCtl ==
    ASSUME CtlInv, StartFails, cfg' = cfg
    PROVE  CtlInv'
<1> USE DEF NoLeakedTempBase
<1>1. CASE /\ NeedBase
           /\ \/ cfg.mode = "none"
              \/ cfg.mode = "dir" /\ MayFail("mkdir")
              \/ cfg.mode \in {"dir", "blk"} /\ MayFail("base_open")
           /\ UNCHANGED <<baseFd, tempBasePath, tmpOnDisk, decoder, indexState>>
  BY <1>1 DEF CtlInv
<1>2. CASE /\ NeedBase
           /\ cfg.mode = "reg"
           /\ MayFail("base_open")
           /\ tempBasePath' = FALSE
           /\ UNCHANGED <<baseFd, tmpOnDisk, decoder, indexState>>
  BY <1>2 DEF CtlInv, NeedBase
<1>3. CASE /\ decoder = "none"
           /\ HasBaseFd
           /\ MayFail("decoder_base")
           /\ BaseMaterialised
           /\ decoder' = "nobase"
           /\ baseFd' = TRUE
           /\ UNCHANGED indexState
  <2>1. tmpOnDisk' => tempBasePath'
    BY <1>3 DEF CtlInv, BaseMaterialised
  <2>2. tempBasePath' \in BOOLEAN /\ tmpOnDisk' \in BOOLEAN
    BY <1>3 DEF CtlInv, BaseMaterialised
  <2> QED BY <1>3, <2>1, <2>2 DEF CtlInv
<1>4. CASE /\ decoder = "none"
           /\ ~HasBaseFd
           /\ \/ cfg.mode = "none"
              \/ cfg.mode # "none" /\ MayFail("decoder_base")
           /\ decoder' = "nobase"
           /\ UNCHANGED <<baseFd, tempBasePath, tmpOnDisk, indexState>>
  BY <1>4 DEF CtlInv
<1>5. CASE /\ DecoderStarted
           /\ indexState = "new"
           /\ MayFail("index_open")
           /\ UNCHANGED indexState
  BY <1>5, StartedCtl
<1> QED BY <1>1, <1>2, <1>3, <1>4, <1>5 DEF StartFails

\* Every step keeps the invariant.
LEMMA NextCtlInv == CtlInv /\ [Next]_vars => CtlInv'
<1> SUFFICES ASSUME CtlInv, [Next]_vars PROVE CtlInv'
  OBVIOUS
<1>1. CASE StepStartFails
  BY <1>1, StartFailsCtl DEF StepStartFails
<1>2. CASE StepDecoderFails
  BY <1>2, StartedCtl DEF StepDecoderFails, Started
<1>3. CASE StepProgress
  BY <1>3, StartedCtl DEF StepProgress, Started
<1>4. CASE StepRequest
  BY <1>4, StartedCtl DEF StepRequest, Started
<1>5. CASE StepFinished
  <2>1. UNCHANGED <<baseFd, decoder>>
    BY <1>5 DEF StepFinished
  <2>2. CASE tempBasePath /\ MayFail("rename") /\ UNCHANGED <<tempBasePath, tmpOnDisk>>
    BY <2>1, <2>2 DEF CtlInv, NoLeakedTempBase
  <2>3. CASE tempBasePath /\ tmpOnDisk' = FALSE /\ tempBasePath' = FALSE
    BY <2>1, <2>3 DEF CtlInv, NoLeakedTempBase
  <2>4. CASE ~tempBasePath /\ UNCHANGED <<tmpOnDisk, tempBasePath>>
    BY <2>1, <2>4 DEF CtlInv, NoLeakedTempBase
  <2> QED BY <1>5, <2>2, <2>3, <2>4 DEF StepFinished
<1>6. CASE Destroy
  BY <1>6 DEF Destroy, UnlinkTemporaryBase, CtlInv, NoLeakedTempBase
<1>7. CASE UNCHANGED vars
  BY <1>7 DEF vars, CtlInv, NoLeakedTempBase
<1> QED BY <1>1, <1>2, <1>3, <1>4, <1>5, <1>6, <1>7 DEF Next, DriverStep

LEMMA CtlCorrect == Spec => []CtlInv
BY InitCtlInv, NextCtlInv, PTL DEF Spec

\* A temporary base file on disk always has its path in
\* s->temporary_base_path (NoLeakedTempBase, checked by decode_safety):
\* a failing open frees the path before any file exists, and the rename at
\* FINISHED removes the file with the path, so ca_sync_unref never leaks it.
THEOREM TempBaseCleaned == Spec => []NoLeakedTempBase
BY CtlCorrect, PTL DEF CtlInv

-----------------------------------------------------------------------------
(* The decoded stream (DecodedFaithful), for the caller of spec.md section *)
(* 7 and stores that hold whole or truncated chunks.                       *)

\* The bytes the index records read so far name.
IndexedPrefix(n) == FlattenSeq(SubSeq(Archive, 1, n))

\* The inductive invariant: an index-driven decode never takes the fd path;
\* until an error it has handed the decoder exactly the chunks of the
\* records read so far; the decoder is told EOF only after the last
\* record; and eof comes after a FINISHED that followed no error.
StreamInv ==
    /\ cfg \in Configs
    /\ ipos \in 0..Len(Archive)
    /\ failed \in BOOLEAN
    /\ (indexState = "none") = ~cfg.index
    /\ cfg.index /\ ~failed => fed = IndexedPrefix(ipos)
    /\ cfg.index /\ dstate = "eof" => ipos = Len(Archive)
    /\ cfg.index => dstate # "fdfed"
    /\ eof => ~failed /\ dstate \in {"eof", "fdfed"}

\* A "found" answer of ca_sync_get carries the data of an object filed
\* under the id asked for, in the writable store (when there is one) or in
\* a seed store: the fan-in hands on the first store's answer, never makes
\* one up.
LEMMA FoundIsStored ==
  ASSUME ConstantsAssumption, cfg \in ConfigRecords,
         NEW id, NEW res \in GetResults(id), res.kind = "found"
  PROVE  \E o \in StoredObjects : o.id = id /\ res.data = o.data
<1> DEFINE SP == Store!StorePositions
           NF == Store!NotFound
<1>1. PICK a \in [SP -> UNION {Store!StoreAnswers(i, id) : i \in SP}] :
          (\A i \in SP : a[i] \in Store!StoreAnswers(i, id))
          /\ res = Store!FirstAnswer(a)
  BY Zenon DEF GetResults, Store!GetResults
<1>2. SP = 0..Len(Seeds) /\ SP \subseteq Nat
  BY DEF ConstantsAssumption, Store!StorePositions
<1>3. \E i \in SP : a[i] # NF
  <2>1. NF.kind = "notfound"
    BY DEF NF, Store!NotFound, Store!Status
  <2> QED BY <1>1, <2>1 DEF Store!FirstAnswer
\* The first store whose answer is not "not found" exists.
<1>4. \E k \in SP : a[k] # NF /\ \A j \in 0..k-1 : a[j] = NF
  <2> DEFINE T == {i \in SP : a[i] # NF}
  <2>1. PICK m \in T : \A y \in T : ~(y < m)
    BY <1>2, <1>3, LeastNat
  <2>2. \A j \in 0..m-1 : j \in SP /\ j < m
    BY <1>2
  <2> QED BY <2>1, <2>2
<1>5. PICK k \in SP : res = a[k]
  BY <1>1, <1>4 DEF Store!FirstAnswer
<1>6. CASE k = 0 /\ ~cfg.wstore
  <2>1. Store!StoreAnswers(k, id) \subseteq {NF, Store!Failed}
    BY <1>6 DEF Store!StoreAnswers
  <2>2. res \in {NF, Store!Failed}
    BY <1>1, <1>5, <2>1
  <2>3. res.kind \in {"notfound", "error"}
    BY <2>2 DEF NF, Store!NotFound, Store!Failed, Store!Status
  <2> QED BY <2>3
<1>7. CASE ~(k = 0 /\ ~cfg.wstore)
  <2> DEFINE Sk == IF k = 0 THEN WStore ELSE Seeds[k]
             found == {Store!Answer("found", o.data) : o \in {o \in Sk : o.id = id}}
  <2>1. res \in found \cup {NF, Store!Failed}
    <3>1. Store!StoreAnswers(k, id) =
            (IF found = {} THEN {NF} ELSE found)
            \cup (IF "store_get" \in Faults THEN {Store!Failed} ELSE {})
      BY <1>7 DEF Store!StoreAnswers, Sk, found, NF
    <3>2. res \in Store!StoreAnswers(k, id)
      BY <1>1, <1>5
    <3> QED BY <3>1, <3>2
  <2>2. res \notin {NF, Store!Failed}
    BY DEF NF, Store!NotFound, Store!Failed, Store!Status
  <2>3. Sk \subseteq StoredObjects
    <3>1. k = 0 \/ k \in 1..Len(Seeds)
      BY <1>2
    <3>2. \A i \in 1..Len(Seeds) : Seeds[i] \subseteq StoredObjects
      BY Zenon DEF StoredObjects
    <3>3. WStore \subseteq StoredObjects
      BY DEF StoredObjects
    <3> QED BY <3>1, <3>2, <3>3 DEF Sk
  <2>4. \E o \in Sk : o.id = id /\ res = Store!Answer("found", o.data)
    BY <2>1, <2>2, Zenon DEF found
  <2> QED BY <2>3, <2>4 DEF Store!Answer
<1> QED BY <1>6, <1>7

\* With stores that hold whole or truncated chunks, an object found under
\* a chunk's id that passes the size check (casync.c:735) is that chunk.
LEMMA SizeCheckedIsChunk ==
  ASSUME ConstantsAssumption, StoresTruncatedAtWorst, cfg \in ConfigRecords,
         NEW c \in Seq(Bytes), NEW res \in GetResults(ObjectId(c)),
         res.kind = "found", SizeMatches(c, res)
  PROVE  res.data = c
<1>1. PICK o \in StoredObjects : o.id = ObjectId(c) /\ res.data = o.data
  BY FoundIsStored
<1>2. o \in Objects
  <2>1. \A i \in 1..Len(Seeds) : Seeds[i] \subseteq Objects
    BY DEF ConstantsAssumption
  <2> QED BY <2>1 DEF ConstantsAssumption, StoredObjects
<1>3. o.data \in Seq(Bytes) /\ o.id.sha256 = c
  BY <1>1, <1>2 DEF Objects, ObjectId
<1>4. IsPrefix(o.data, c)
  BY <1>1, <1>3 DEF StoresTruncatedAtWorst
<1> QED BY <1>1, <1>3, <1>4 DEF IsPrefix, SizeMatches

\* ca_sync_start leaves an index-driven decode index-driven.
LEMMA StartKeepsIndexKind ==
  ASSUME Started \/ StartFails
  PROVE  (indexState' = "none") = (indexState = "none")
BY DEF Started, IndexStarted, StartFails

\* Every step keeps StreamInv.
LEMMA NextStreamInv ==
  ASSUME ~CallerRetries, ConstantsAssumption, StoresTruncatedAtWorst,
         StreamInv, [Next]_vars
  PROVE  StreamInv'
<1> USE DEF StreamInv
<1>0. cfg \in ConfigRecords
  BY DEF ConstantsAssumption
<1>1. CASE StepStartFails
  BY <1>1, StartKeepsIndexKind DEF StepStartFails, CanStep
<1>2. CASE StepDecoderFails
  BY <1>2, StartKeepsIndexKind DEF StepDecoderFails, CanStep
<1>3. CASE StepProgress
  BY <1>3, StartKeepsIndexKind DEF StepProgress, CanStep
<1>4. CASE StepFinished
  <2>1. ~failed /\ ~eof /\ dstate \in {"eof", "fdfed"}
        /\ UNCHANGED <<cfg, indexState, dstate, ipos, fed>>
    BY <1>4 DEF StepFinished, CanStep
  <2>2. CASE failed' = TRUE /\ UNCHANGED eof
    BY <2>1, <2>2
  <2>3. CASE eof' = TRUE /\ UNCHANGED failed
    BY <2>1, <2>3
  <2> QED BY <1>4, <2>2, <2>3 DEF StepFinished
<1>5. CASE StepRequest
  <2>1. ~failed /\ ~eof /\ UNCHANGED <<cfg, eof>>
        /\ (indexState' = "none") = (indexState = "none")
    BY <1>5, StartKeepsIndexKind DEF StepRequest, CanStep
  <2>2. CASE indexState = "none"
    <3>1. ~cfg.index /\ ~cfg'.index
      BY <2>1, <2>2
    <3>2. /\ RequestFromArchive /\ UNCHANGED ipos
      BY <1>5, <2>2 DEF StepRequest, ProcessRequest
    <3>3. failed' \in BOOLEAN /\ UNCHANGED <<ipos, eof>>
      BY <2>1, <3>2 DEF RequestFromArchive
    <3> QED BY <2>1, <2>2, <3>1, <3>3
  <2>3. CASE indexState # "none"
    <3>1. RequestFromIndex
      BY <1>5, <2>3 DEF StepRequest, ProcessRequest
    <3>2. fed = IndexedPrefix(ipos)
      BY <2>1, <2>3
    <3>3. CASE MayFail("index_read") /\ failed' = TRUE
               /\ UNCHANGED <<ipos, fed, archiveDigest, dstate>>
      BY <2>1, <3>3
    <3>4. CASE ipos = Len(Archive) /\ IndexEof
               /\ UNCHANGED <<ipos, fed, archiveDigest>>
      BY <2>1, <3>2, <3>4 DEF IndexEof
    <3>5. CASE /\ ipos < Len(Archive)
               /\ ipos' = ipos + 1
               /\ \E res \in GetResults(ObjectId(Archive[ipos + 1])) :
                    \/ /\ res.kind = "found"
                       /\ SizeMatches(Archive[ipos + 1], res)
                       /\ fed' = fed \o res.data
                       /\ dstate' = "have"
                       /\ \E junk \in FreedBytes(res.data) :
                             archiveDigest' = archiveDigest \o junk
                       /\ UNCHANGED failed
                    \/ /\ \/ ~(res.kind = "found" /\ SizeMatches(Archive[ipos + 1], res))
                          \/ MayFail("decoder_put")
                       /\ failed' = TRUE
                       /\ UNCHANGED <<fed, archiveDigest, dstate>>
      <4>1. PICK res \in GetResults(ObjectId(Archive[ipos + 1])) :
              \/ /\ res.kind = "found"
                 /\ SizeMatches(Archive[ipos + 1], res)
                 /\ fed' = fed \o res.data
                 /\ dstate' = "have"
                 /\ UNCHANGED failed
              \/ failed' = TRUE /\ UNCHANGED dstate
        BY <3>5
      <4>2. Archive \in Seq(Seq(Bytes)) /\ ipos \in 0..(Len(Archive) - 1)
            /\ Archive[ipos + 1] \in Seq(Bytes)
        BY <3>5 DEF ConstantsAssumption
      <4>3. CASE failed' = TRUE /\ UNCHANGED dstate
        BY <2>1, <3>5, <4>2, <4>3
      <4>4. CASE /\ res.kind = "found"
                 /\ SizeMatches(Archive[ipos + 1], res)
                 /\ fed' = fed \o res.data
                 /\ dstate' = "have"
                 /\ UNCHANGED failed
        <5>1. res.data = Archive[ipos + 1]
          BY <1>0, <4>2, <4>4, SizeCheckedIsChunk
        <5>2. IndexedPrefix(ipos + 1) = IndexedPrefix(ipos) \o Archive[ipos + 1]
          BY <4>2, FlattenSeqPrefixStep DEF IndexedPrefix
        <5>3. fed' = IndexedPrefix(ipos')
          BY <3>2, <3>5, <4>4, <5>1, <5>2
        <5>4. ipos' \in 0..Len(Archive) /\ failed' = FALSE /\ dstate' = "have"
          BY <2>1, <3>5, <4>2, <4>4
        <5> QED BY <2>1, <2>3, <5>3, <5>4
      <4> QED BY <4>1, <4>3, <4>4, Zenon
    <3> QED BY <3>1, <3>3, <3>4, <3>5 DEF RequestFromIndex
  <2> QED BY <2>2, <2>3
<1>6. CASE Destroy
  BY <1>6 DEF Destroy
<1>7. CASE UNCHANGED vars
  BY <1>7 DEF vars
<1> QED BY <1>1, <1>2, <1>3, <1>4, <1>5, <1>6, <1>7 DEF Next, DriverStep

\* The archive is a sequence of byte sequences.
LEMMA ArchiveChunks == Archive \in Seq(Seq(Bytes))
<1>1. Archive \in Seq(Seq(Bytes) \ {<<>>})
  BY ConstantsAssumption
<1>2. \A i \in 1..Len(Archive) : Archive[i] \in Seq(Bytes)
  BY <1>1
<1> QED BY <1>1, <1>2

LEMMA InitStreamInv == Init => StreamInv
<1> SUFFICES ASSUME Init PROVE StreamInv
  OBVIOUS
<1>1. IndexedPrefix(0) = <<>>
  BY ArchiveChunks, FlattenSeqPrefixEnds DEF IndexedPrefix
<1>2. (indexState = "none") = ~cfg.index
  <2>1. cfg \in ConfigRecords
    BY ConstantsAssumption DEF Init
  <2> QED BY <2>1 DEF Init, ConfigRecords
<1>3. /\ cfg \in Configs /\ ipos = 0 /\ fed = <<>>
      /\ failed = FALSE /\ eof = FALSE /\ dstate = "want"
  BY DEF Init
<1>4. ipos \in 0..Len(Archive)
  BY <1>3, ArchiveChunks
<1> QED BY <1>1, <1>2, <1>3, <1>4, Zenon DEF StreamInv

\* An index-driven decode that reaches eof has handed the decoder exactly
\* the archive stream, chunk by chunk in index order (DecodedFaithful,
\* checked by decode_safety), for every archive and store contents, when
\* the caller stops at the first error and the stores hold, under a
\* chunk's id, that chunk or a truncated copy of it.  The size check at
\* casync.c:735 refuses the truncated copies; put_eof comes only after the
\* last record.  With a retrying caller the record whose fetch failed is
\* skipped (finding 5, the decode_retry_skip run).
THEOREM DecodedStreamCorrect ==
  ASSUME ~CallerRetries, StoresTruncatedAtWorst
  PROVE  Spec => []DecodedFaithful
<1>1. StreamInv /\ [Next]_vars => StreamInv'
  BY NextStreamInv, ConstantsAssumption
<1>2. StreamInv => DecodedFaithful
  <2> SUFFICES ASSUME StreamInv, eof, cfg.index PROVE fed = ArchiveStream
    BY DEF DecodedFaithful
  <2>1. ~failed /\ dstate = "eof"
    BY DEF StreamInv
  <2>2. fed = IndexedPrefix(Len(Archive))
    BY <2>1 DEF StreamInv
  <2>3. IndexedPrefix(Len(Archive)) = ArchiveStream
    <3> QED BY ArchiveChunks, FlattenSeqPrefixEnds DEF IndexedPrefix, ArchiveStream
  <2> QED BY <2>2, <2>3
<1> QED BY InitStreamInv, <1>1, <1>2, PTL DEF Spec

====
