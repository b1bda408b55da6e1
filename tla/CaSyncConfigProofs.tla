-------------------------- MODULE CaSyncConfigProofs --------------------------
(***************************************************************************)
(* TLAPS proofs about the setters (CaSyncConfig), for every bound on the  *)
(* seed stores and every set of failing calls.                             *)
(***************************************************************************)
EXTENDS CaSyncConfig, TLAPS

\* The invariant the proofs carry: the flag and mode slots are well typed
\* and have one of the shapes the pipeline modules start from.  (The count
\* of seed stores plays no part in either property.)
SlotTypes ==
    /\ direction \in {"encode", "decode"}
    /\ index \in BOOLEAN /\ baseFd \in BOOLEAN /\ basePath \in BOOLEAN
    /\ permMode \in BOOLEAN /\ archiveFd \in BOOLEAN /\ archivePath \in BOOLEAN
    /\ wstore \in BOOLEAN
    /\ baseMode \in {"none", "dir", "reg", "blk"}

ConfigInv == SlotTypes /\ ConfigMatchesPipelines

LEMMA InitConfigInv == Init => ConfigInv
BY DEF Init, ConfigInv, SlotTypes, ConfigMatchesPipelines

\* What every setter call must establish: the invariant again.
StepGoal == ConfigInv'

\* Every early return of a setter (Fails) establishes StepGoal.
LEMMA FailsKeep ==
    ASSUME ConfigInv, NEW c, NEW v, NEW r, Fails(c, v, r)
    PROVE  StepGoal
<1>1. UNCHANGED <<direction, index, baseFd, basePath, baseMode, permMode,
                  archiveFd, archivePath, wstore>>
  BY DEF Fails, slots
<1> QED BY <1>1 DEF Fails, StepGoal, ConfigInv, SlotTypes, ConfigMatchesPipelines

\* A successful call fills only its own slot, and only in a direction and
\* a group state that ConfigMatchesPipelines allows.
LEMMA SuccessKeeps ==
    ASSUME ConfigInv, NEW c, Succeeds(c),
           SlotTypes', ConfigMatchesPipelines'
    PROVE  StepGoal
BY DEF Succeeds, Outcome, StepGoal, ConfigInv

\* Every setter call, whatever its arguments and outcome, establishes
\* StepGoal.
LEMMA SetterStep ==
    ASSUME ConfigInv, Next
    PROVE  StepGoal
<1> USE DEF ConfigInv, SlotTypes, ConfigMatchesPipelines
<1>1. ASSUME NEW valid \in BOOLEAN, NEW c \in {"set_index_fd", "set_index_path"},
             SetIndex(c, valid)
      PROVE  StepGoal
  <2>1. CASE Succeeds(c) /\ index' = TRUE
             /\ UNCHANGED <<direction, baseFd, basePath, baseMode, permMode,
                            archiveFd, archivePath, wstore>>
    BY <2>1, SuccessKeeps DEF Succeeds
  <2> QED BY <2>1, <1>1, FailsKeep DEF SetIndex, Succeeds
<1>2. ASSUME NEW valid \in BOOLEAN, SetBaseFd(valid)
      PROVE  StepGoal
  <2>1. CASE Succeeds("set_base_fd") /\ baseFd' = TRUE /\ ~basePath
             /\ UNCHANGED <<direction, index, basePath, baseMode, permMode,
                            archiveFd, archivePath, wstore>>
    BY <2>1, SuccessKeeps DEF Succeeds
  <2> QED BY <2>1, <1>2, FailsKeep DEF SetBaseFd, Succeeds
<1>3. ASSUME NEW valid \in BOOLEAN, NEW kind \in PathKinds, SetBasePath(valid, kind)
      PROVE  StepGoal
  <2>1. CASE Succeeds("set_base_path") /\ baseFd' = TRUE /\ ~basePath
             /\ UNCHANGED <<direction, index, basePath, baseMode, permMode,
                            archiveFd, archivePath, wstore>>
    BY <2>1, SuccessKeeps DEF Succeeds
  <2>2. CASE Succeeds("set_base_path") /\ basePath' = TRUE /\ ~baseFd
             /\ direction = "decode"
             /\ UNCHANGED <<direction, index, baseFd, baseMode, permMode,
                            archiveFd, archivePath, wstore>>
    BY <2>2, SuccessKeeps DEF Succeeds
  <2> QED BY <2>1, <2>2, <1>3, FailsKeep DEF SetBasePath, Succeeds
<1>4. ASSUME NEW valid \in BOOLEAN, SetMakePermMode(valid)
      PROVE  StepGoal
  <2>1. CASE Succeeds("set_make_perm_mode") /\ permMode' = TRUE
             /\ direction = "encode"
             /\ UNCHANGED <<direction, index, baseFd, basePath, baseMode,
                            archiveFd, archivePath, wstore>>
    BY <2>1, SuccessKeeps DEF Succeeds
  <2> QED BY <2>1, <1>4, FailsKeep DEF SetMakePermMode, Succeeds
<1>5. ASSUME NEW valid \in BOOLEAN, SetArchiveFd(valid)
      PROVE  StepGoal
  <2>1. CASE Succeeds("set_archive_fd") /\ archiveFd' = TRUE /\ ~archivePath
             /\ UNCHANGED <<direction, index, baseFd, basePath, baseMode,
                            permMode, archivePath, wstore>>
    BY <2>1, SuccessKeeps DEF Succeeds
  <2> QED BY <2>1, <1>5, FailsKeep DEF SetArchiveFd, Succeeds
<1>6. ASSUME NEW valid \in BOOLEAN, NEW kind \in PathKinds, SetArchivePath(valid, kind)
      PROVE  StepGoal
  <2>1. CASE Succeeds("set_archive_path") /\ archivePath' = TRUE /\ ~archiveFd
             /\ direction = "encode"
             /\ UNCHANGED <<direction, index, baseFd, basePath, baseMode,
                            permMode, archiveFd, wstore>>
    BY <2>1, SuccessKeeps DEF Succeeds
  <2>2. CASE Succeeds("set_archive_path") /\ archiveFd' = TRUE /\ ~archivePath
             /\ UNCHANGED <<direction, index, baseFd, basePath, baseMode,
                            permMode, archivePath, wstore>>
    BY <2>2, SuccessKeeps DEF Succeeds
  <2> QED BY <2>1, <2>2, <1>6, FailsKeep DEF SetArchivePath, Succeeds
<1>7. ASSUME NEW valid \in BOOLEAN, SetStoreLocal(valid)
      PROVE  StepGoal
  <2>1. CASE Succeeds("set_store_local") /\ wstore' = TRUE
             /\ UNCHANGED <<direction, index, baseFd, basePath, baseMode,
                            permMode, archiveFd, archivePath>>
    BY <2>1, SuccessKeeps DEF Succeeds
  <2> QED BY <2>1, <1>7, FailsKeep DEF SetStoreLocal, Succeeds
<1>8. ASSUME NEW valid \in BOOLEAN, AddSeedStoreLocal(valid)
      PROVE  StepGoal
  <2>1. CASE Succeeds("add_seed_store_local")
             /\ UNCHANGED <<direction, index, baseFd, basePath, baseMode,
                            permMode, archiveFd, archivePath, wstore>>
    BY <2>1, SuccessKeeps DEF Succeeds
  <2> QED BY <2>1, <1>8, FailsKeep DEF AddSeedStoreLocal, Succeeds
<1>9. ASSUME NEW m \in ModeArgs, SetBaseMode(m)
      PROVE  StepGoal
  <2>1. CASE Succeeds("set_base_mode") /\ baseMode' = m /\ m \in {"dir", "reg", "blk"}
             /\ direction = "decode"
             /\ UNCHANGED <<direction, index, baseFd, basePath, permMode,
                            archiveFd, archivePath, wstore>>
    BY <2>1, SuccessKeeps DEF Succeeds
  <2> QED BY <2>1, <1>9, FailsKeep DEF SetBaseMode, Succeeds
<1> QED BY <1>1, <1>2, <1>3, <1>4, <1>5, <1>6, <1>7, <1>8, <1>9 DEF Next

LEMMA NextConfigInv == ConfigInv /\ [Next]_vars => ConfigInv'
<1> SUFFICES ASSUME ConfigInv, [Next]_vars PROVE ConfigInv'
  OBVIOUS
<1>1. CASE Next
  BY <1>1, SetterStep DEF StepGoal
<1>2. CASE UNCHANGED vars
  BY <1>2 DEF vars, slots, ConfigInv, SlotTypes, ConfigMatchesPipelines
<1> QED BY <1>1, <1>2

LEMMA ConfigInvariant == Spec => []ConfigInv
BY InitConfigInv, NextConfigInv, PTL DEF Spec

\* Every sequence of setter calls, in either direction and with any
\* failures, leaves a configuration the pipeline modules model
\* (ConfigMatchesPipelines, checked by the config_safety run).
THEOREM SettersMatchPipelines == Spec => []ConfigMatchesPipelines
BY ConfigInvariant, PTL DEF ConfigInv
====
