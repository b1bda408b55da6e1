---------------------------- MODULE CaSyncConfig ----------------------------
(***************************************************************************)
(* The configuration surface of casync.c: construction (ca_sync_new)     *)
(* and the ten setters of lines 129-372, as called by a caller before the *)
(* first step.  Each setter is one action, with every early return: a bad *)
(* argument, the wrong direction, a busy slot, and the failures of the    *)
(* calls it makes (open, strdup, ca_index_set_*, ca_store_set_local,      *)
(* realloc).  A slot is modelled by whether it is set; a path argument by *)
(* what the file system holds there; last is the outcome of the last call.*)
(***************************************************************************)
EXTENDS Naturals

CONSTANTS
    MaxSeeds,   \* bound on the seed stores a behaviour registers
    Faults      \* the calls that may fail in a behaviour

\* The calls a setter makes that may fail: open(2) of a path, the
\* allocations (new0, strdup, realloc), ca_index_set_fd/path and
\* ca_store_set_local.
FaultPoints == {"open", "enomem", "index_set", "store_set"}

ASSUME ConstantsAssumption ==
    /\ MaxSeeds \in Nat
    /\ Faults \subseteq FaultPoints

MayFail(f) == f \in Faults

\* What a path names: an existing directory, an existing other file, or
\* nothing (open fails with ENOENT).
PathKinds == {"dir", "reg", "missing"}

\* The modes set_base_mode may be given: the three file types it accepts,
\* a character device (a valid mode of a type it refuses), and a value with
\* bits outside 07777 | S_IFMT.
ModeArgs == {"dir", "reg", "blk", "chr", "badbits"}

VARIABLES
    direction,    \* s->direction, fixed at construction
    index,        \* s->index != NULL
    baseFd,       \* s->base_fd >= 0
    basePath,     \* s->base_path != NULL
    baseMode,     \* s->base_mode: "none" for (mode_t) -1, else the file type
    permMode,     \* s->make_perm_mode != (mode_t) -1
    archiveFd,    \* s->archive_fd >= 0
    archivePath,  \* s->archive_path != NULL
    wstore,       \* s->wstore != NULL
    nSeeds,       \* s->n_rstores
    last          \* the last call: its name, whether its argument was valid, its result

slots == <<index, baseFd, basePath, baseMode, permMode, archiveFd, archivePath,
           wstore, nSeeds>>
vars == <<direction, slots, last>>

Outcome(call, valid, ret) == [call |-> call, valid |-> valid, ret |-> ret]

\* ca_sync_new_encode / ca_sync_new_decode: every slot empty, both fds -1,
\* both modes (mode_t) -1.
Init ==
    /\ direction \in {"encode", "decode"}
    /\ index = FALSE /\ baseFd = FALSE /\ basePath = FALSE
    /\ baseMode = "none" /\ permMode = FALSE
    /\ archiveFd = FALSE /\ archivePath = FALSE
    /\ wstore = FALSE /\ nSeeds = 0
    /\ last = Outcome("new", TRUE, "ok")

\* A call that returns ret having changed no slot.
Fails(call, valid, ret) ==
    /\ last' = Outcome(call, valid, ret)
    /\ UNCHANGED direction
    /\ UNCHANGED slots

\* A call that succeeds; the caller states the slots it fills.
Succeeds(call) == last' = Outcome(call, TRUE, "ok") /\ UNCHANGED direction

\* ca_sync_set_index_fd and ca_sync_set_index_path: ca_sync_allocate_index
\* (-EBUSY, -ENOMEM), then ca_index_set_fd/path, whose failure unrefs the
\* index again.  valid is fd >= 0, or path != NULL.
SetIndex(call, valid) ==
    \/ ~valid /\ Fails(call, FALSE, "EINVAL")
    \/ valid /\ index /\ Fails(call, TRUE, "EBUSY")
    \/ valid /\ ~index /\ MayFail("enomem") /\ Fails(call, TRUE, "ENOMEM")
    \/ valid /\ ~index /\ MayFail("index_set") /\ Fails(call, TRUE, "ERR")
    \/ /\ valid /\ ~index /\ index' = TRUE /\ Succeeds(call)
       /\ UNCHANGED <<baseFd, basePath, baseMode, permMode, archiveFd,
                      archivePath, wstore, nSeeds>>

\* ca_sync_set_base_fd: busy if any member of the base group is set.
SetBaseFd(valid) ==
    \/ ~valid /\ Fails("set_base_fd", FALSE, "EINVAL")
    \/ valid /\ (baseFd \/ baseMode # "none" \/ basePath)
       /\ Fails("set_base_fd", TRUE, "EBUSY")
    \/ /\ valid /\ ~baseFd /\ baseMode = "none" /\ ~basePath
       /\ baseFd' = TRUE /\ Succeeds("set_base_fd")
       /\ UNCHANGED <<index, basePath, baseMode, permMode, archiveFd,
                      archivePath, wstore, nSeeds>>

\* Mutant: the encode branch is missing; every direction keeps the path.
SetBasePathKeepAlways(valid, kind) ==
    \/ ~valid /\ Fails("set_base_path", FALSE, "EINVAL")
    \/ valid /\ (baseFd \/ basePath) /\ Fails("set_base_path", TRUE, "EBUSY")
    \/ /\ valid /\ ~baseFd /\ ~basePath
       /\ basePath' = TRUE /\ Succeeds("set_base_path")
       /\ UNCHANGED <<index, baseFd, baseMode, permMode, archiveFd,
                      archivePath, wstore, nSeeds>>

\* ca_sync_set_base_path: busy on base_fd or base_path (base_mode is not
\* checked).  An existing directory is opened at once.  In encode a
\* non-directory is opened as a file; in decode the path is kept for start.
SetBasePath(valid, kind) ==
    LET Opened == /\ baseFd' = TRUE /\ Succeeds("set_base_path")
                  /\ UNCHANGED <<index, basePath, baseMode, permMode, archiveFd,
                                 archivePath, wstore, nSeeds>>
        free == valid /\ ~baseFd /\ ~basePath
        dirOpen == kind = "dir" /\ ~MayFail("open")
    IN
    \/ ~valid /\ Fails("set_base_path", FALSE, "EINVAL")
    \/ valid /\ (baseFd \/ basePath) /\ Fails("set_base_path", TRUE, "EBUSY")
    \/ free /\ kind = "dir" /\ Opened
    \/ /\ free /\ ~dirOpen /\ direction = "encode"
       /\ \/ kind # "reg" /\ Fails("set_base_path", TRUE, "ERR")   \* errno != ENOTDIR
          \/ kind = "reg" /\ MayFail("open") /\ Fails("set_base_path", TRUE, "ERR")
          \/ kind = "reg" /\ Opened
    \/ /\ free /\ ~dirOpen /\ direction = "decode"
       /\ \/ MayFail("enomem") /\ Fails("set_base_path", TRUE, "ENOMEM")
          \/ /\ basePath' = TRUE /\ Succeeds("set_base_path")
             /\ UNCHANGED <<index, baseFd, baseMode, permMode, archiveFd,
                            archivePath, wstore, nSeeds>>

\* ca_sync_set_make_perm_mode: six permission bits only, encode only.
SetMakePermMode(valid) ==
    \/ ~valid /\ Fails("set_make_perm_mode", FALSE, "EINVAL")
    \/ valid /\ direction # "encode" /\ Fails("set_make_perm_mode", TRUE, "ENOTTY")
    \/ valid /\ direction = "encode" /\ permMode
       /\ Fails("set_make_perm_mode", TRUE, "EBUSY")
    \/ /\ valid /\ direction = "encode" /\ ~permMode
       /\ permMode' = TRUE /\ Succeeds("set_make_perm_mode")
       /\ UNCHANGED <<index, baseFd, basePath, baseMode, archiveFd,
                      archivePath, wstore, nSeeds>>

\* ca_sync_set_base_mode: a regular file, directory or block device, decode
\* only; busy on base_fd or base_mode (base_path is not checked).
SetBaseMode(m) ==
    \/ m = "badbits" /\ Fails("set_base_mode", FALSE, "EINVAL")
    \/ m = "chr" /\ Fails("set_base_mode", TRUE, "ENOTTY")
    \/ /\ m \in {"dir", "reg", "blk"}
       /\ \/ direction = "encode" /\ Fails("set_base_mode", TRUE, "ENOTTY")
          \/ /\ direction = "decode" /\ (baseFd \/ baseMode # "none")
             /\ Fails("set_base_mode", TRUE, "EBUSY")
          \/ /\ direction = "decode" /\ ~baseFd /\ baseMode = "none"
             /\ baseMode' = m /\ Succeeds("set_base_mode")
             /\ UNCHANGED <<index, baseFd, basePath, permMode, archiveFd,
                            archivePath, wstore, nSeeds>>

\* ca_sync_set_archive_fd: busy if the archive group has a member.
SetArchiveFd(valid) ==
    \/ ~valid /\ Fails("set_archive_fd", FALSE, "EINVAL")
    \/ valid /\ (archiveFd \/ archivePath) /\ Fails("set_archive_fd", TRUE, "EBUSY")
    \/ /\ valid /\ ~archiveFd /\ ~archivePath
       /\ archiveFd' = TRUE /\ Succeeds("set_archive_fd")
       /\ UNCHANGED <<index, baseFd, basePath, baseMode, permMode,
                      archivePath, wstore, nSeeds>>

\* ca_sync_set_archive_path: encode keeps the path for start; decode opens
\* the archive read-only at once.
SetArchivePath(valid, kind) ==
    LET free == valid /\ ~archiveFd /\ ~archivePath IN
    \/ ~valid /\ Fails("set_archive_path", FALSE, "EINVAL")
    \/ valid /\ (archiveFd \/ archivePath) /\ Fails("set_archive_path", TRUE, "EBUSY")
    \/ free /\ direction = "encode" /\ MayFail("enomem")
       /\ Fails("set_archive_path", TRUE, "ENOMEM")
    \/ /\ free /\ direction = "encode"
       /\ archivePath' = TRUE /\ Succeeds("set_archive_path")
       /\ UNCHANGED <<index, baseFd, basePath, baseMode, permMode, archiveFd,
                      wstore, nSeeds>>
    \/ free /\ direction = "decode" /\ (kind = "missing" \/ MayFail("open"))
       /\ Fails("set_archive_path", TRUE, "ERR")
    \/ /\ free /\ direction = "decode" /\ kind # "missing"
       /\ archiveFd' = TRUE /\ Succeeds("set_archive_path")
       /\ UNCHANGED <<index, baseFd, basePath, baseMode, permMode, archivePath,
                      wstore, nSeeds>>

\* ca_sync_set_store_local: ca_store_new, then ca_store_set_local, whose
\* failure unrefs the store again.
SetStoreLocal(valid) ==
    \/ ~valid /\ Fails("set_store_local", FALSE, "EINVAL")
    \/ valid /\ wstore /\ Fails("set_store_local", TRUE, "EBUSY")
    \/ valid /\ ~wstore /\ MayFail("enomem") /\ Fails("set_store_local", TRUE, "ENOMEM")
    \/ valid /\ ~wstore /\ MayFail("store_set") /\ Fails("set_store_local", TRUE, "ERR")
    \/ /\ valid /\ ~wstore /\ wstore' = TRUE /\ Succeeds("set_store_local")
       /\ UNCHANGED <<index, baseFd, basePath, baseMode, permMode, archiveFd,
                      archivePath, nSeeds>>

\* ca_sync_add_seed_store_local: never busy.  ca_store_new, ca_store_set_local
\* and realloc may fail, each unref'ing the new store.
AddSeedStoreLocal(valid) ==
    \/ ~valid /\ Fails("add_seed_store_local", FALSE, "EINVAL")
    \/ valid /\ MayFail("enomem") /\ Fails("add_seed_store_local", TRUE, "ENOMEM")
    \/ valid /\ MayFail("store_set") /\ Fails("add_seed_store_local", TRUE, "ERR")
    \/ /\ valid /\ nSeeds < MaxSeeds
       /\ nSeeds' = nSeeds + 1 /\ Succeeds("add_seed_store_local")
       /\ UNCHANGED <<index, baseFd, basePath, baseMode, permMode, archiveFd,
                      archivePath, wstore>>

Next ==
    \E valid \in BOOLEAN, kind \in PathKinds :
        \/ SetIndex("set_index_fd", valid)
        \/ SetIndex("set_index_path", valid)
        \/ SetBaseFd(valid)
        \/ SetBasePath(valid, kind)
        \/ SetMakePermMode(valid)
        \/ SetArchiveFd(valid)
        \/ SetArchivePath(valid, kind)
        \/ SetStoreLocal(valid)
        \/ AddSeedStoreLocal(valid)
    \/ \E m \in ModeArgs : SetBaseMode(m)

Spec == Init /\ [][Next]_vars

-----------------------------------------------------------------------------
(* Properties.                                                             *)

TypeOK ==
    /\ direction \in {"encode", "decode"}
    /\ index \in BOOLEAN /\ baseFd \in BOOLEAN /\ basePath \in BOOLEAN
    /\ permMode \in BOOLEAN /\ archiveFd \in BOOLEAN /\ archivePath \in BOOLEAN
    /\ wstore \in BOOLEAN
    /\ baseMode \in {"none", "dir", "reg", "blk"}
    /\ nSeeds \in 0..MaxSeeds

\* Whatever the caller calls, in any order and with any failures, the
\* setters leave one of the configurations CaSyncEncode and CaSyncDecode
\* start from (their ConfigRecords): archive fd and archive path exclusive,
\* base fd and base path exclusive, a kept base path and a base mode only
\* in decode, an archive path and a permission mode only in encode.
ConfigMatchesPipelines ==
    /\ ~(archiveFd /\ archivePath)
    /\ ~(baseFd /\ basePath)
    /\ direction = "encode" => ~basePath /\ baseMode = "none"
    /\ direction = "decode" => ~archivePath /\ ~permMode

\* Spec.md section 3, invariant 1: exactly one of the base fd and the pair
\* (base path, base mode) is configured, so a base mode never sits beside
\* an open base fd.
BaseGroupExclusive == ~(baseFd /\ baseMode # "none")
====
