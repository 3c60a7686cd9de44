------------------------ MODULE BoxLifecycleProofs -------------------------
(***************************************************************************)
(* Proofs about BoxLifecycle, for any number of processes, commands and     *)
(* crashes.                                                                 *)
(***************************************************************************)
EXTENDS BoxLifecycle, TLAPS

(* AfterLoad is applied to verbs that work on a loaded manifest only.       *)
LoadVerbs == AllVerbs \ {"create", "gc"}
VerbOK == \A p \in Procs :
    /\ pc[p] \in {"find", "load"} => verb[p] \in LoadVerbs
    /\ pc[p] \in {"sync", "materialize", "import"} => verb[p] \in AllVerbs

(* TypeOK and VerbOK, split into what processes own and what they share.    *)
ProcOK == /\ pc \in [Procs -> Labels]
          /\ verb \in [Procs -> AllVerbs \cup {"none"}]
          /\ m \in [Procs -> Manifest]
          /\ gate \in [Procs -> Nat]
          /\ holds \in [Procs -> SUBSET (LockKind \X Nat)]
          /\ VerbOK
BoxOK == /\ dir \in Nat /\ work \in Nat /\ branch \in Nat /\ clock \in Nat
         /\ disk \in Manifest /\ ref \in Manifest
         /\ dirty \in BOOLEAN
         /\ landed \in SUBSET Nat /\ reviewed \in SUBSET Nat /\ receipts \in SUBSET Nat
         /\ share \in ShareRecord
         /\ ops \in Nat /\ crashes \in Nat

TypeInv == ProcOK /\ BoxOK

-----------------------------------------------------------------------------
(* What the steps that every action is made of do to the types.             *)

LEMMA NoManifestType == NoManifest \in Manifest
  BY DEF NoManifest, Manifest

(* A process that is gone has well-typed remains. *)
LEMMA GoneType ==
  ASSUME ProcOK, NEW p \in Procs, Gone(p)
  PROVE  ProcOK'
  BY NoManifestType DEF ProcOK, Gone, VerbOK, Labels

(* Moving one process to a label past the load keeps the types of processes. *)
LEMMA GotoType ==
  ASSUME ProcOK, NEW p \in Procs,
         NEW l \in Labels \ {"find", "load", "sync", "materialize", "import"},
         Goto(p, l), UNCHANGED verb,
         m' \in [Procs -> Manifest], gate' \in [Procs -> Nat],
         holds' \in [Procs -> SUBSET (LockKind \X Nat)]
  PROVE  ProcOK'
  BY DEF ProcOK, Goto, VerbOK

LEMMA LeaveType ==
  ASSUME TypeInv, NEW p \in Procs, Leave(p)
  PROVE  TypeInv'
<1>1. ProcOK'
  BY GoneType DEF Leave, TypeInv
<1>2. BoxOK'
  BY DEF Leave, TypeInv, BoxOK, repoVars, treeVars, dirVars, bounds
<1> QED BY <1>1, <1>2 DEF TypeInv

LEMMA StepType ==
  ASSUME TypeInv, NEW p \in Procs,
         NEW l \in Labels \ {"find", "load", "sync", "materialize", "import"},
         Step(p, l)
  PROVE  TypeInv'
<1>1. ProcOK'
  BY GotoType DEF TypeInv, Step, ProcOK
<1>2. BoxOK'
  BY DEF TypeInv, Step, BoxOK, repoVars, treeVars, dirVars, bounds
<1> QED BY <1>1, <1>2 DEF TypeInv

LEMMA LockType ==
  ASSUME TypeInv, NEW p \in Procs, NEW kind \in LockKind, NEW ok \in BOOLEAN,
         NEW l \in Labels \ {"find", "load", "sync", "materialize", "import"},
         TryLock(p, kind, ok, l)
  PROVE  TypeInv'
<1>1. CASE Leave(p)
  BY <1>1, LeaveType
<1>2. CASE ~Leave(p)
  <2>1. /\ holds' = [holds EXCEPT ![p] = @ \cup {<<kind, dir>>}]
        /\ Goto(p, l)
        /\ UNCHANGED <<verb, m, gate, repoVars, treeVars, dirVars, clock, bounds>>
    BY <1>2 DEF TryLock
  <2>2. holds' \in [Procs -> SUBSET (LockKind \X Nat)]
    BY <2>1 DEF TypeInv, ProcOK, BoxOK
  <2>3. ProcOK'
    BY <2>1, <2>2, GotoType DEF TypeInv, ProcOK
  <2>4. BoxOK'
    BY <2>1 DEF TypeInv, BoxOK, repoVars, treeVars, dirVars, bounds
  <2> QED BY <2>3, <2>4 DEF TypeInv
<1> QED BY <1>1, <1>2

LEMMA SaveType ==
  ASSUME TypeInv, NEW p \in Procs, NEW s \in Status,
         NEW l \in Labels \ {"find", "load", "sync", "materialize", "import"},
         SaveStatus(p, s, l), reviewed' \in SUBSET Nat
  PROVE  TypeInv'
<1>1. [m[p] EXCEPT !.status = s, !.at = clock + 1] \in Manifest
  <2>1. m[p] \in Manifest /\ clock + 1 \in Nat
    BY DEF TypeInv, ProcOK, BoxOK
  <2> QED BY <2>1 DEF Manifest
<1>2. m' \in [Procs -> Manifest] /\ disk' \in Manifest
  BY <1>1 DEF TypeInv, SaveStatus, ProcOK
<1>3. ProcOK'
  BY <1>2, GotoType DEF TypeInv, SaveStatus, ProcOK
<1>4. BoxOK'
  BY <1>2 DEF TypeInv, SaveStatus, Mkdir, BoxOK, treeVars, bounds
<1> QED BY <1>3, <1>4 DEF TypeInv

-----------------------------------------------------------------------------
(* Every action keeps the types.                                            *)

LEMMA StartTypes ==
  ASSUME TypeInv, NEW p \in Procs, StartSteps(p)
  PROVE  TypeInv'
<1>1. CASE ReadRef(p)
  <2>1. ProcOK'
    BY <1>1, GotoType DEF ReadRef, TypeInv, ProcOK, Labels, BoxOK, VerbOK, Goto
  <2>2. BoxOK'
    BY <1>1 DEF ReadRef, TypeInv, BoxOK, repoVars, treeVars, dirVars, bounds, ProcOK
  <2> QED BY <2>1, <2>2 DEF TypeInv
<1>2. ASSUME pc[p] \in {"materialize", "import"}
      PROVE  /\ verb[p] \in AllVerbs
             /\ FirstStep(verb[p]) \in {"createCheck", "gcList", "load"}
             /\ FirstStep(verb[p]) = "load" => verb[p] \in LoadVerbs
  <2>1. verb[p] \in AllVerbs
    BY <1>2 DEF TypeInv, ProcOK, VerbOK
  <2> QED BY <2>1 DEF FirstStep, LoadVerbs, AllVerbs
<1>3. ASSUME pc[p] \in {"materialize", "import"}, Goto(p, FirstStep(verb[p])),
             m' = [m EXCEPT ![p] = NoManifest], UNCHANGED <<verb, gate, holds>>
      PROVE  ProcOK'
  <2>1. pc' \in [Procs -> Labels] /\ m' \in [Procs -> Manifest]
    BY <1>2, <1>3, NoManifestType DEF TypeInv, ProcOK, Goto, Labels
  <2>2. VerbOK'
    BY <1>2, <1>3 DEF TypeInv, ProcOK, VerbOK, Goto
  <2> QED BY <1>3, <2>1, <2>2 DEF TypeInv, ProcOK
<1>4. CASE Compare(p)
  <2>1. ASSUME Newer(m[p]) PROVE ProcOK'
    <3>1. Goto(p, "import") /\ UNCHANGED <<m, verb, gate, holds>>
      BY <1>4, <2>1 DEF Compare
    <3>2. pc' \in [Procs -> Labels]
      BY <3>1 DEF TypeInv, ProcOK, Goto, Labels
    <3>3. VerbOK'
      BY <1>2, <1>4, <3>1 DEF Compare, TypeInv, ProcOK, VerbOK, Goto
    <3> QED BY <3>1, <3>2, <3>3 DEF TypeInv, ProcOK
  <2>2. ASSUME ~Newer(m[p]) PROVE ProcOK'
    BY <1>3, <1>4, <2>2 DEF Compare
  <2>3. BoxOK'
    BY <1>4 DEF Compare, TypeInv, BoxOK, repoVars, treeVars, dirVars, bounds
  <2> QED BY <2>1, <2>2, <2>3 DEF TypeInv
<1>5. CASE Materialize(p)
  <2>1. ProcOK'
    BY <1>3, <1>5 DEF Materialize
  <2>2. BoxOK'
    BY <1>5 DEF Materialize, TypeInv, ProcOK, BoxOK, Mkdir, repoVars, treeVars, bounds
  <2> QED BY <2>1, <2>2 DEF TypeInv
<1>6. CASE Load(p)
  <2>1. ProcOK'
    BY <1>6, GotoType, NoManifestType DEF Load, TypeInv, ProcOK, Labels, BoxOK,
       AfterLoad, LoadVerbs, AllVerbs, VerbOK, Goto
  <2>2. BoxOK'
    BY <1>6, NoManifestType DEF Load, TypeInv, BoxOK, repoVars, treeVars, dirVars, bounds, ProcOK
  <2> QED BY <2>1, <2>2 DEF TypeInv
<1>7. CASE NotFound(p)
  <2>1. CASE Step(p, "sync") /\ pc[p] = "find"
    <3>1. ProcOK'
      BY <2>1 DEF Step, TypeInv, ProcOK, VerbOK, Goto, Labels, LoadVerbs
    <3>2. BoxOK'
      BY <2>1 DEF Step, TypeInv, BoxOK, repoVars, treeVars, dirVars, bounds
    <3> QED BY <3>1, <3>2 DEF TypeInv
  <2>2. CASE Leave(p)
    BY <2>2, LeaveType
  <2> QED BY <1>7, <2>1, <2>2 DEF NotFound
<1> QED BY <1>1, <1>4, <1>5, <1>6, <1>7 DEF StartSteps

LEMMA SessionTypes ==
  ASSUME TypeInv, NEW p \in Procs, SessionSteps(p)
  PROVE  TypeInv'
<1>1. CASE SessionCheck(p)
  BY <1>1, StepType, LeaveType DEF SessionCheck, Labels
<1>2. CASE SessionLock(p)
  BY <1>2, LockType, ZenonT(60) DEF SessionLock, Labels, LockKind
<1>3. CASE PrepareFails(p)
  BY <1>3, LeaveType DEF PrepareFails
<1>4. CASE StartRunning(p)
  BY <1>4, SaveType DEF StartRunning, TypeInv, BoxOK, Labels, Status
<1>5. CASE MirrorRunning(p)
  <2>1. ProcOK'
    BY <1>5, GotoType DEF MirrorRunning, TypeInv, ProcOK, Labels, BoxOK
  <2>2. BoxOK'
    BY <1>5 DEF MirrorRunning, TypeInv, BoxOK, treeVars, dirVars, bounds, ProcOK
  <2> QED BY <2>1, <2>2 DEF TypeInv
<1>6. CASE Record(p)
  <2>1. ProcOK'
    <3>1. [m[p] EXCEPT !.captures = @ \cup {clock + 1}] \in Manifest
      <4>1. m[p] \in Manifest /\ clock + 1 \in Nat
        BY DEF TypeInv, ProcOK, BoxOK
      <4> QED BY <4>1 DEF Manifest
    <3>2. m' \in [Procs -> Manifest]
      BY <1>6, <3>1 DEF Record, TypeInv, ProcOK
    <3> QED BY <1>6, <3>2, GotoType DEF Record, TypeInv, ProcOK, Labels
  <2>2. BoxOK'
    BY <1>6 DEF Record, TypeInv, BoxOK, LogReceipt, repoVars, treeVars, bounds, ProcOK, Manifest
  <2> QED BY <2>1, <2>2 DEF TypeInv
<1>7. CASE NothingToRecord(p)
  BY <1>7, StepType, LeaveType DEF NothingToRecord, Labels
<1>8. CASE RecordFails(p)
  BY <1>8, LeaveType DEF RecordFails
<1>9. CASE GoIdle(p)
  BY <1>9, SaveType DEF GoIdle, TypeInv, BoxOK, Labels, Status
<1> QED BY <1>1, <1>2, <1>3, <1>4, <1>5, <1>6, <1>7, <1>8, <1>9 DEF SessionSteps

LEMMA ProposeTypes ==
  ASSUME TypeInv, NEW p \in Procs, ProposeSteps(p)
  PROVE  TypeInv'
<1>1. CASE ProposeLock(p)
  <2>1. TryLock(p, "run", TRUE, "snapshot") \/ Leave(p)
    BY <1>1 DEF ProposeLock, TryLock
  <2> QED BY <2>1, LockType, LeaveType DEF Labels, LockKind
<1>2. CASE Snapshot(p)
  <2>1. ProcOK'
    BY <1>2, GotoType DEF Snapshot, TypeInv, ProcOK, Labels, BoxOK
  <2>2. BoxOK'
    <3>1. branch' \in {branch, clock + 1} /\ clock' \in {clock, clock + 1}
      BY <1>2, Zenon DEF Snapshot
    <3>3. dirty' \in BOOLEAN
      BY <1>2, Zenon DEF Snapshot
    <3>2. UNCHANGED <<work, landed, reviewed, ref, dir, disk, share, receipts, ops, crashes>>
      BY <1>2 DEF Snapshot, dirVars, bounds
    <3> QED BY <3>1, <3>2, <3>3 DEF TypeInv, BoxOK
  <2> QED BY <2>1, <2>2 DEF TypeInv
<1>3. CASE SnapshotRefused(p)
  BY <1>3, LeaveType DEF SnapshotRefused
<1>4. CASE Propose(p)
  BY <1>4, SaveType DEF Propose, TypeInv, BoxOK, Labels, Status
<1> QED BY <1>1, <1>2, <1>3, <1>4 DEF ProposeSteps

LEMMA GateTypes ==
  ASSUME TypeInv, NEW p \in Procs, GateSteps(p)
  PROVE  TypeInv'
<1>1. CASE GateOpen(p)
  <2>1. ProcOK'
    <3>1. dir' \in Nat
      BY <1>1 DEF GateOpen, Mkdir, TypeInv, BoxOK
    <3>2. gate' \in [Procs -> Nat]
      BY <1>1, <3>1 DEF GateOpen, TypeInv, ProcOK
    <3> QED BY <1>1, <3>2, GotoType DEF GateOpen, TypeInv, ProcOK, Labels
  <2>2. BoxOK'
    BY <1>1 DEF GateOpen, TypeInv, BoxOK, Mkdir, repoVars, treeVars, bounds, ProcOK
  <2> QED BY <2>1, <2>2 DEF TypeInv
<1>2. CASE GateTake(p)
  <2>1. ProcOK'
    BY <1>2, GotoType DEF GateTake, TypeInv, ProcOK, Labels, BoxOK, LockKind
  <2>2. BoxOK'
    BY <1>2 DEF GateTake, TypeInv, BoxOK, repoVars, treeVars, dirVars, bounds, ProcOK
  <2> QED BY <2>1, <2>2 DEF TypeInv
<1>3. CASE GateTimeout(p)
  BY <1>3, LeaveType DEF GateTimeout
<1> QED BY <1>1, <1>2, <1>3 DEF GateSteps

LEMMA RebaseTypes ==
  ASSUME TypeInv, NEW p \in Procs, RebaseSteps(p)
  PROVE  TypeInv'
<1>1. CASE RebaseGate(p)
  BY <1>1, StepType, LeaveType DEF RebaseGate, RefuseIfShared, Labels
<1>2. CASE RebaseLock(p)
  <2>1. TryLock(p, "run", TRUE, "drift") \/ Leave(p)
    BY <1>2 DEF RebaseLock, TryLock
  <2> QED BY <2>1, LockType, LeaveType DEF Labels, LockKind
<1>3. CASE RebaseDrift(p)
  BY <1>3, StepType, LeaveType DEF RebaseDrift, Labels
<1>4. CASE RebaseNothing(p)
  BY <1>4, LeaveType DEF RebaseNothing
<1>5. CASE RebaseConflict(p)
  BY <1>5, LeaveType DEF RebaseConflict
<1>6. CASE RebaseCommit(p)
  <2>1. ProcOK'
    BY <1>6, GotoType DEF RebaseCommit, TypeInv, ProcOK, Labels, BoxOK
  <2>2. BoxOK'
    BY <1>6 DEF RebaseCommit, TypeInv, BoxOK, treeVars, dirVars, bounds, ProcOK
  <2> QED BY <2>1, <2>2 DEF TypeInv
<1>7. CASE RebaseSave(p)
  BY <1>7, SaveType DEF RebaseSave, TypeInv, BoxOK, Labels, Status
<1> QED BY <1>1, <1>2, <1>3, <1>4, <1>5, <1>6, <1>7 DEF RebaseSteps

LEMMA ApplyTypes ==
  ASSUME TypeInv, NEW p \in Procs, ApplySteps(p)
  PROVE  TypeInv'
<1>1. CASE ApplyGate(p)
  BY <1>1, StepType, LeaveType DEF ApplyGate, RefuseIfShared, Labels
<1>2. CASE ApplyLock(p)
  BY <1>2, LockType DEF ApplyLock, Labels, LockKind
<1>3. CASE ApplyRefused(p)
  BY <1>3, LeaveType DEF ApplyRefused
<1>4. CASE ApplyLand(p)
  <2>1. ProcOK'
    BY <1>4, GotoType DEF ApplyLand, TypeInv, ProcOK, Labels, BoxOK
  <2>2. BoxOK'
    BY <1>4 DEF ApplyLand, TypeInv, BoxOK, treeVars, dirVars, bounds, ProcOK
  <2> QED BY <2>1, <2>2 DEF TypeInv
<1>5. CASE ApplySave(p)
  BY <1>5, SaveType DEF ApplySave, TypeInv, BoxOK, Labels, Status
<1> QED BY <1>1, <1>2, <1>3, <1>4, <1>5 DEF ApplySteps

LEMMA AbortTypes ==
  ASSUME TypeInv, NEW p \in Procs, AbortSteps(p)
  PROVE  TypeInv'
<1>1. CASE AbortGate(p)
  BY <1>1, StepType, LeaveType DEF AbortGate, RefuseIfShared, Labels
<1>2. CASE AbortLock(p)
  BY <1>2, LockType DEF AbortLock, Labels, LockKind
<1>3. CASE Abort(p)
  BY <1>3, SaveType DEF Abort, TypeInv, BoxOK, Labels, Status
<1> QED BY <1>1, <1>2, <1>3 DEF AbortSteps

LEMMA GcTypes ==
  ASSUME TypeInv, NEW p \in Procs, GcSteps(p)
  PROVE  TypeInv'
<1>1. CASE GcList(p)
  <2>1. ProcOK'
    BY <1>1, GoneType, GotoType DEF GcList, TypeInv, ProcOK, Leave, Labels, BoxOK, VerbOK, Goto
  <2>2. BoxOK'
    BY <1>1 DEF GcList, TypeInv, BoxOK, Leave, repoVars, treeVars, dirVars, bounds, ProcOK
  <2> QED BY <2>1, <2>2 DEF TypeInv
<1>2. CASE GcWork(p)
  BY <1>2, StepType, LeaveType DEF GcWork, Labels
<1>3. CASE GcLock(p)
  BY <1>3, LockType DEF GcLock, Labels, LockKind
<1>4. CASE GcDrain(p)
  BY <1>4, LockType DEF GcDrain, Labels, LockKind
<1>5. CASE GcShare(p)
  BY <1>5, StepType, LeaveType DEF GcShare, RefuseIfShared, Labels
<1>6. CASE GcPrune(p)
  <2>1. ProcOK'
    BY <1>6, GotoType DEF GcPrune, TypeInv, ProcOK, PruneWorkspace, Labels, BoxOK
  <2>2. BoxOK'
    BY <1>6 DEF GcPrune, TypeInv, BoxOK, PruneWorkspace, repoVars, dirVars, bounds, ProcOK
  <2> QED BY <2>1, <2>2 DEF TypeInv
<1>7. CASE GcSave(p)
  <2>1. ProcOK'
    BY <1>7, GoneType DEF GcSave, TypeInv, ProcOK, BoxOK
  <2>2. BoxOK'
    BY <1>7 DEF GcSave, TypeInv, BoxOK, Mkdir, repoVars, treeVars, bounds, ProcOK
  <2> QED BY <2>1, <2>2 DEF TypeInv
<1> QED BY <1>1, <1>2, <1>3, <1>4, <1>5, <1>6, <1>7 DEF GcSteps

LEMMA RmTypes ==
  ASSUME TypeInv, NEW p \in Procs, RmSteps(p)
  PROVE  TypeInv'
<1>1. CASE RmGate(p)
  BY <1>1, StepType, LeaveType DEF RmGate, Labels
<1>2. CASE RmLock(p)
  BY <1>2, LockType DEF RmLock, Labels, LockKind
<1>3. CASE RmDrain(p)
  BY <1>3, LockType DEF RmDrain, Labels, LockKind
<1>4. CASE RmPrune(p)
  <2>1. ProcOK'
    BY <1>4, GotoType DEF RmPrune, TypeInv, ProcOK, PruneWorkspace, Labels, BoxOK
  <2>2. BoxOK'
    BY <1>4 DEF RmPrune, TypeInv, BoxOK, PruneWorkspace, repoVars, dirVars, bounds, ProcOK
  <2> QED BY <2>1, <2>2 DEF TypeInv
<1>5. CASE RmBranch(p)
  <2>1. ProcOK'
    BY <1>5, GotoType DEF RmBranch, TypeInv, ProcOK, Labels, BoxOK
  <2>2. BoxOK'
    BY <1>5 DEF RmBranch, TypeInv, BoxOK, treeVars, dirVars, bounds, ProcOK
  <2> QED BY <2>1, <2>2 DEF TypeInv
<1>6. CASE RmStrip(p)
  <2>1. ProcOK'
    BY <1>6, GotoType, NoManifestType DEF RmStrip, TypeInv, ProcOK, Labels, BoxOK
  <2>2. BoxOK'
    BY <1>6, NoManifestType DEF RmStrip, TypeInv, BoxOK, treeVars, dirVars, bounds, ProcOK
  <2> QED BY <2>1, <2>2 DEF TypeInv
<1>7. CASE RmErase(p)
  <2>1. ProcOK'
    BY <1>7, GoneType DEF RmErase, TypeInv, ProcOK, BoxOK
  <2>2. BoxOK'
    BY <1>7, NoManifestType DEF RmErase, TypeInv, BoxOK, EraseDir, ShareRecord, NoShare,
       repoVars, bounds
  <2> QED BY <2>1, <2>2 DEF TypeInv
<1> QED BY <1>1, <1>2, <1>3, <1>4, <1>5, <1>6, <1>7 DEF RmSteps

LEMMA CreateTypes ==
  ASSUME TypeInv, NEW p \in Procs, CreateSteps(p)
  PROVE  TypeInv'
<1>1. CASE CreateCheck(p)
  <2>1. CASE Leave(p)
    BY <2>1, LeaveType
  <2>2. CASE ~Leave(p)
    <3>1. /\ EraseDir
          /\ \/ Gone(p)
             \/ Goto(p, "mkdir") /\ UNCHANGED <<verb, m, gate, holds>>
          /\ UNCHANGED <<repoVars, clock, bounds>>
      BY <1>1, <2>2 DEF CreateCheck
    <3>2. ProcOK'
      BY <3>1, GoneType, GotoType DEF TypeInv, ProcOK, Labels
    <3>3. BoxOK'
      BY <3>1, NoManifestType
      DEF TypeInv, BoxOK, EraseDir, ShareRecord, NoShare, repoVars, bounds
    <3> QED BY <3>2, <3>3 DEF TypeInv
  <2> QED BY <2>1, <2>2
<1>2. CASE CreateRefused(p)
  BY <1>2, LeaveType DEF CreateRefused
<1>3. CASE CreateMkdir(p)
  <2>1. ProcOK'
    BY <1>3, GotoType, SMTT(30) DEF CreateMkdir, TypeInv, ProcOK, Labels, BoxOK, Manifest, Status
  <2>2. BoxOK'
    BY <1>3 DEF CreateMkdir, TypeInv, BoxOK, Mkdir, repoVars, treeVars, bounds, ProcOK, Manifest
  <2> QED BY <2>1, <2>2 DEF TypeInv
<1>4. CASE CreateBranch(p)
  <2>1. ProcOK'
    BY <1>4, GotoType DEF CreateBranch, TypeInv, ProcOK, Labels, BoxOK
  <2>2. BoxOK'
    BY <1>4 DEF CreateBranch, TypeInv, BoxOK, treeVars, dirVars, bounds, ProcOK
  <2> QED BY <2>1, <2>2 DEF TypeInv
<1>5. CASE NoBranch(p)
  BY <1>5, StepType, LeaveType DEF NoBranch, Labels
<1>6. CASE CreateWork(p)
  <2>1. ProcOK'
    BY <1>6, GotoType DEF CreateWork, TypeInv, ProcOK, Labels, BoxOK, Manifest
  <2>2. BoxOK'
    BY <1>6 DEF CreateWork, TypeInv, BoxOK, repoVars, dirVars, bounds, ProcOK, Manifest
  <2> QED BY <2>1, <2>2 DEF TypeInv
<1>7. CASE CreateFails(p)
  BY <1>7, StepType, LeaveType DEF CreateFails, Labels
<1>8. CASE CreateSave(p)
  <2>1. ProcOK'
    BY <1>8, GotoType DEF CreateSave, TypeInv, ProcOK, Labels, BoxOK
  <2>2. BoxOK'
    BY <1>8 DEF CreateSave, TypeInv, BoxOK, Mkdir, repoVars, treeVars, bounds, ProcOK
  <2> QED BY <2>1, <2>2 DEF TypeInv
<1>9. CASE Undo(p)
  <2>1. ProcOK'
    BY <1>9, GoneType DEF Undo, TypeInv, ProcOK, BoxOK
  <2>2. BoxOK'
    BY <1>9, NoManifestType DEF Undo, TypeInv, BoxOK, EraseDir, ShareRecord, NoShare, bounds
  <2> QED BY <2>1, <2>2 DEF TypeInv
<1> QED BY <1>1, <1>2, <1>3, <1>4, <1>5, <1>6, <1>7, <1>8, <1>9 DEF CreateSteps

LEMMA ShareTypes ==
  ASSUME TypeInv, NEW p \in Procs, ShareSteps(p)
  PROVE  TypeInv'
<1>1. CASE ShareCheck(p)
  BY <1>1, StepType, LeaveType DEF ShareCheck, Labels
<1>2. CASE Claim(p)
  <2>1. CASE Leave(p)
    BY <2>1, LeaveType
  <2>2. CASE ~Leave(p)
    <3>1. /\ share' = [pid |-> p, at |-> clock + 1]
          /\ clock' = clock + 1
          /\ holds' = [holds EXCEPT ![p] = {}]
          /\ Goto(p, "sharing")
          /\ UNCHANGED <<dir, disk, receipts, verb, m, gate, repoVars, treeVars, bounds>>
      BY <1>2, <2>2 DEF Claim
    <3>2. ProcOK'
      BY <3>1, GotoType DEF TypeInv, ProcOK, Labels
    <3>3. BoxOK'
      BY <3>1 DEF TypeInv, BoxOK, ShareRecord, repoVars, treeVars, bounds
    <3> QED BY <3>2, <3>3 DEF TypeInv
  <2> QED BY <2>1, <2>2
<1> QED BY <1>1, <1>2 DEF ShareSteps

LEMMA OtherTypes ==
  ASSUME TypeInv, NEW p \in Procs,
         \/ Mirror(p) \/ Exec(p) \/ StopWatching(p) \/ EndShare(p) \/ Crash(p)
  PROVE  TypeInv'
<1>1. CASE Mirror(p)
  <2>1. ProcOK'
    BY <1>1, GoneType DEF Mirror, TypeInv
  <2>2. BoxOK'
    BY <1>1 DEF Mirror, TypeInv, ProcOK, BoxOK, treeVars, dirVars, bounds
  <2> QED BY <2>1, <2>2 DEF TypeInv
<1>2. CASE Exec(p)
  <2>1. ProcOK'
    BY <1>2, GotoType DEF Exec, TypeInv, ProcOK, Labels
  <2>2. UNCHANGED <<work, landed, reviewed, ref, dir, disk, share, receipts, ops, crashes>>
    BY <1>2 DEF Exec, dirVars, bounds
  <2>3. branch' \in {branch, clock + 1} /\ clock' \in {clock, clock + 1}
    BY <1>2 DEF Exec
  <2>4. dirty' \in BOOLEAN
    BY <1>2, Zenon DEF Exec, TypeInv, BoxOK
  <2>5. BoxOK'
    BY <2>2, <2>3, <2>4 DEF TypeInv, BoxOK
  <2> QED BY <2>1, <2>5 DEF TypeInv
<1>3. CASE StopWatching(p)
  BY <1>3, LeaveType DEF StopWatching
<1>4. CASE EndShare(p)
  <2>1. ProcOK'
    BY <1>4, GoneType DEF EndShare, TypeInv
  <2>2. share' \in ShareRecord
    BY <1>4 DEF EndShare, TypeInv, BoxOK, ShareRecord, NoShare
  <2>3. BoxOK'
    BY <1>4, <2>2 DEF EndShare, TypeInv, BoxOK, repoVars, treeVars, bounds
  <2> QED BY <2>1, <2>3 DEF TypeInv
<1>5. CASE Crash(p)
  <2>1. ProcOK'
    BY <1>5, GoneType DEF Crash, TypeInv
  <2>2. BoxOK'
    BY <1>5 DEF Crash, TypeInv, BoxOK, repoVars, treeVars, dirVars
  <2> QED BY <2>1, <2>2 DEF TypeInv
<1> QED BY <1>1, <1>2, <1>3, <1>4, <1>5

LEMMA EnterTypes ==
  ASSUME TypeInv, NEW p \in Procs, NEW v \in Verbs, Enter(p, v)
  PROVE  TypeInv'
<1>1. v \in AllVerbs
  BY VerbsAssumption
<1>2. ProcOK'
  BY <1>1 DEF Enter, TypeInv, ProcOK, VerbOK, Goto, Labels, LoadVerbs, AllVerbs
<1>3. BoxOK'
  BY DEF Enter, TypeInv, BoxOK, repoVars, treeVars, dirVars
<1> QED BY <1>2, <1>3 DEF TypeInv

LEMMA InitTypes == Init => TypeInv
<1> SUFFICES ASSUME Init PROVE TypeInv
  OBVIOUS
<1>1. PICK s \in StartStates :
        LET here == s # "absent"
            one == IF here THEN 1 ELSE 0
            tips == {1}
        IN /\ dir = one
           /\ disk = IF here THEN [made |-> 1, status |-> s, at |-> 1, captures |-> {}]
                             ELSE NoManifest
           /\ work = one
           /\ branch = one
           /\ reviewed = IF s \in {"proposed", "applied"} THEN tips ELSE {}
           /\ landed = IF s = "applied" THEN tips ELSE {}
           /\ clock = one
  BY DEF Init
<1>2. disk \in Manifest
  BY <1>1, NoManifestType, StartAssumption DEF Manifest
<1>3. BoxOK
  <2>1. dir \in {0, 1} /\ work \in {0, 1} /\ branch \in {0, 1} /\ clock \in {0, 1}
    BY <1>1
  <2>2. reviewed \in SUBSET Nat /\ landed \in SUBSET Nat
    BY <1>1
  <2>3. /\ ref \in Manifest /\ dirty \in BOOLEAN /\ receipts \in SUBSET Nat
        /\ share \in ShareRecord /\ ops \in Nat /\ crashes \in Nat
    BY <1>2 DEF Init, ShareRecord, NoShare
  <2> QED BY <1>2, <2>1, <2>2, <2>3 DEF BoxOK
<1>4. ProcOK
  BY NoManifestType DEF Init, ProcOK, VerbOK, Labels
<1> QED BY <1>3, <1>4 DEF TypeInv

LEMMA NextTypes == TypeInv /\ [Next]_vars => TypeInv'
<1> SUFFICES ASSUME TypeInv, [Next]_vars PROVE TypeInv'
  OBVIOUS
<1>1. CASE UNCHANGED vars
  BY <1>1 DEF vars, TypeInv, ProcOK, VerbOK, BoxOK
<1>2. ASSUME NEW p \in Procs, Advance(p) PROVE TypeInv'
  BY <1>2, StartTypes, SessionTypes, ProposeTypes, GateTypes, RebaseTypes, ApplyTypes,
     AbortTypes, GcTypes, RmTypes, CreateTypes, ShareTypes, OtherTypes DEF Advance
<1>3. ASSUME NEW p \in Procs, NEW v \in Verbs, Enter(p, v) PROVE TypeInv'
  BY <1>3, EnterTypes
<1>4. ASSUME NEW p \in Procs, Exec(p) \/ StopWatching(p) \/ EndShare(p) \/ Crash(p)
      PROVE  TypeInv'
  BY <1>4, OtherTypes
<1> QED BY <1>1, <1>2, <1>3, <1>4 DEF Next

(* Every variable of the model of a box holds a value of its kind, whatever   *)
(* the processes, the commands they issue and the kills (TypeOK).             *)
THEOREM TypeCorrect == Spec => []TypeOK
<1>1. Spec => []TypeInv
  BY InitTypes, NextTypes, PTL DEF Spec
<1>2. TypeInv => TypeOK
  BY DEF TypeInv, ProcOK, BoxOK, TypeOK
<1> QED BY <1>1, <1>2, PTL

-----------------------------------------------------------------------------
(* run.lock keeps writers apart, in a scenario without `create`. The lock   *)
(* alone is not inductive: a writer must be known to hold the lock of the   *)
(* directory there is now (rm may have replaced it), and nobody else that   *)
(* one.                                                                     *)

CreateLabels == {"createCheck", "mkdir", "createBranch", "createWork",
                 "createSave", "undo", "undoBranch"}
NoCreate == \A p \in Procs : verb[p] # "create" /\ pc[p] \notin CreateLabels
WritersHold == \A p \in Procs :
    pc[p] \in WriterLabels => dir # 0 /\ <<"run", dir>> \in holds[p]
OneHolder == \A p, q \in Procs, g \in Nat :
    p # q => ~(<<"run", g>> \in holds[p] /\ <<"run", g>> \in holds[q])
Locks == NoCreate /\ WritersHold /\ OneHolder
LockInv == TypeInv /\ Locks

LEMMA HoldersAreOne == LockInv => OneWriter
  BY DEF LockInv, Locks, TypeInv, BoxOK, WritersHold, OneHolder, OneWriter

(* A step that takes no lock, into the writers' part only from there. The   *)
(* directory may be created, not replaced.                                  *)
LEMMA MoveKeepsLocks ==
  ASSUME LockInv, NEW p \in Procs, NEW l \in Labels \ CreateLabels, Goto(p, l),
         UNCHANGED <<verb, holds>>,
         l \in WriterLabels => pc[p] \in WriterLabels,
         dir' = dir \/ dir = 0
  PROVE  Locks'
<1>1. pc \in [Procs -> Labels]
  BY DEF LockInv, Locks, TypeInv, ProcOK
<1>2. NoCreate'
  BY <1>1 DEF LockInv, Locks, NoCreate, Goto
<1>3. WritersHold'
  BY <1>1 DEF LockInv, Locks, WritersHold, Goto
<1>4. OneHolder'
  BY DEF LockInv, Locks, OneHolder
<1> QED BY <1>2, <1>3, <1>4 DEF Locks

(* A process that ends gives up its locks. If it takes the directory with   *)
(* it, it was the writer.                                                   *)
LEMMA GoneKeepsLocks ==
  ASSUME LockInv, NEW p \in Procs, Gone(p),
         dir' = dir \/ dir = 0 \/ pc[p] \in WriterLabels
  PROVE  Locks'
<1>1. pc \in [Procs -> Labels] /\ verb \in [Procs -> AllVerbs \cup {"none"}]
      /\ holds \in [Procs -> SUBSET (LockKind \X Nat)]
  BY DEF LockInv, Locks, TypeInv, ProcOK
<1>2. /\ \A q \in Procs : pc'[q] = (IF q = p THEN "idle" ELSE pc[q])
      /\ \A q \in Procs : verb'[q] = (IF q = p THEN "none" ELSE verb[q])
      /\ \A q \in Procs : holds'[q] = (IF q = p THEN {} ELSE holds[q])
  BY <1>1 DEF Gone
<1>3. NoCreate'
  BY <1>2 DEF LockInv, Locks, NoCreate, CreateLabels
<1>4. WritersHold'
  BY <1>2, HoldersAreOne DEF LockInv, Locks, WritersHold, WriterLabels, OneWriter
<1>5. OneHolder'
  BY <1>2 DEF LockInv, Locks, OneHolder
<1> QED BY <1>3, <1>4, <1>5 DEF Locks

(* A granted flock: of run.lock into the writers' part, or of another file. *)
LEMMA FlockKeepsLocks ==
  ASSUME LockInv, NEW p \in Procs, NEW kind \in LockKind, NEW ok \in BOOLEAN,
         NEW l \in Labels \ CreateLabels, TryLock(p, kind, ok, l),
         kind = "run" \/ (l \in WriterLabels => pc[p] \in WriterLabels)
  PROVE  Locks'
<1>1. CASE Leave(p)
  BY <1>1, GoneKeepsLocks DEF Leave, dirVars
<1>2. CASE ~Leave(p)
  <2>1. /\ Available(kind)
        /\ holds' = [holds EXCEPT ![p] = @ \cup {<<kind, dir>>}]
        /\ Goto(p, l)
        /\ UNCHANGED <<verb, dir>>
    BY <1>2 DEF TryLock, dirVars
  <2>2. pc \in [Procs -> Labels] /\ holds \in [Procs -> SUBSET (LockKind \X Nat)]
        /\ dir \in Nat
    BY DEF LockInv, Locks, TypeInv, ProcOK, BoxOK
  <2>3. /\ \A q \in Procs : pc'[q] = (IF q = p THEN l ELSE pc[q])
        /\ \A q \in Procs \ {p} : holds'[q] = holds[q]
        /\ holds'[p] = holds[p] \cup {<<kind, dir>>}
    BY <2>1, <2>2 DEF Goto
  <2>4. NoCreate'
    BY <2>1, <2>3 DEF LockInv, Locks, NoCreate
  <2>5. WritersHold'
    BY <2>1, <2>3 DEF LockInv, Locks, WritersHold, Available
  <2>6. OneHolder'
    <3>1. kind = "run" => \A q \in Procs : <<"run", dir>> \notin holds[q]
      BY <2>1 DEF Available, Blockers
    <3> QED BY <2>3, <3>1 DEF LockInv, Locks, OneHolder
  <2> QED BY <2>4, <2>5, <2>6 DEF Locks
<1> QED BY <1>1, <1>2

LEMMA StepKeepsLocks ==
  ASSUME LockInv, NEW p \in Procs, NEW l \in Labels \ CreateLabels, Step(p, l),
         l \in WriterLabels => pc[p] \in WriterLabels
  PROVE  Locks'
  BY MoveKeepsLocks DEF Step, dirVars

LEMMA LeaveKeepsLocks ==
  ASSUME LockInv, NEW p \in Procs, Leave(p)
  PROVE  Locks'
  BY GoneKeepsLocks DEF Leave, dirVars

LEMMA SaveKeepsLocks ==
  ASSUME LockInv, NEW p \in Procs, NEW s \in Status, NEW l \in Labels \ CreateLabels,
         SaveStatus(p, s, l), l \in WriterLabels => pc[p] \in WriterLabels
  PROVE  Locks'
  BY MoveKeepsLocks DEF SaveStatus, Mkdir

LEMMA StartLocks ==
  ASSUME LockInv, NEW p \in Procs, StartSteps(p)
  PROVE  Locks'
<1>1. CASE ReadRef(p)
  BY <1>1, MoveKeepsLocks DEF ReadRef, dirVars, Labels, CreateLabels, WriterLabels
<1>2. CASE Compare(p) \/ Materialize(p)
  <2>1. verb[p] \in AllVerbs \ {"create"}
    BY <1>2 DEF Compare, Materialize, LockInv, Locks, NoCreate, TypeInv, ProcOK, VerbOK
  <2>2. FirstStep(verb[p]) \in {"gcList", "load"}
    BY <2>1 DEF FirstStep
  <2>3. dir' = dir \/ dir = 0
    BY <1>2 DEF Compare, Materialize, Mkdir, dirVars
  <2>4. Goto(p, "import") \/ Goto(p, FirstStep(verb[p]))
    BY <1>2 DEF Compare, Materialize
  <2>5. UNCHANGED <<verb, holds>>
    BY <1>2 DEF Compare, Materialize
  <2> QED BY <2>2, <2>3, <2>4, <2>5, MoveKeepsLocks DEF Labels, CreateLabels, WriterLabels
<1>3. CASE Load(p)
  <2>1. verb[p] \in LoadVerbs
    BY <1>3 DEF Load, LockInv, TypeInv, ProcOK, VerbOK
  <2>2. AfterLoad[verb[p]] \in {"sessionCheck", "proposeLock", "gateOpen", "shareCheck"}
    BY <2>1 DEF AfterLoad, LoadVerbs, AllVerbs
  <2> QED BY <1>3, <2>2, MoveKeepsLocks
          DEF Load, dirVars, Labels, CreateLabels, WriterLabels
<1>4. CASE NotFound(p)
  BY <1>4, StepKeepsLocks, LeaveKeepsLocks DEF NotFound, Labels, CreateLabels, WriterLabels
<1> QED BY <1>1, <1>2, <1>3, <1>4 DEF StartSteps

LEMMA SessionLocks ==
  ASSUME LockInv, NEW p \in Procs, SessionSteps(p)
  PROVE  Locks'
<1>1. CASE SessionCheck(p)
  BY <1>1, StepKeepsLocks, LeaveKeepsLocks DEF SessionCheck, Labels, CreateLabels, WriterLabels
<1>2. CASE SessionLock(p)
  BY <1>2, FlockKeepsLocks, ZenonT(60) DEF SessionLock, LockKind, Labels, CreateLabels, WriterLabels
<1>3. CASE PrepareFails(p)
  BY <1>3, LeaveKeepsLocks DEF PrepareFails
<1>4. CASE StartRunning(p)
  BY <1>4, SaveKeepsLocks DEF StartRunning, Status, Labels, CreateLabels, WriterLabels
<1>5. CASE MirrorRunning(p)
  BY <1>5, MoveKeepsLocks DEF MirrorRunning, dirVars, Labels, CreateLabels, WriterLabels
<1>6. CASE Record(p)
  BY <1>6, MoveKeepsLocks DEF Record, dirVars, Labels, CreateLabels, WriterLabels
<1>7. CASE NothingToRecord(p)
  BY <1>7, StepKeepsLocks, LeaveKeepsLocks DEF NothingToRecord, Labels, CreateLabels, WriterLabels
<1>8. CASE RecordFails(p)
  BY <1>8, LeaveKeepsLocks DEF RecordFails
<1>9. CASE GoIdle(p)
  BY <1>9, SaveKeepsLocks DEF GoIdle, Status, Labels, CreateLabels, WriterLabels
<1> QED BY <1>1, <1>2, <1>3, <1>4, <1>5, <1>6, <1>7, <1>8, <1>9 DEF SessionSteps

LEMMA ProposeLocks ==
  ASSUME LockInv, NEW p \in Procs, ProposeSteps(p)
  PROVE  Locks'
<1>1. CASE ProposeLock(p)
  <2>1. TryLock(p, "run", TRUE, "snapshot") \/ Leave(p)
    BY <1>1 DEF ProposeLock, TryLock
  <2> QED BY <2>1, FlockKeepsLocks, LeaveKeepsLocks DEF LockKind, Labels, CreateLabels
<1>2. CASE Snapshot(p)
  <2>1. PICK l \in {"saveProposed", "replay"} : Goto(p, l)
    BY <1>2 DEF Snapshot
  <2> QED BY <1>2, <2>1, MoveKeepsLocks
          DEF Snapshot, dirVars, Labels, CreateLabels, WriterLabels
<1>3. CASE SnapshotRefused(p)
  BY <1>3, LeaveKeepsLocks DEF SnapshotRefused
<1>4. CASE Propose(p)
  BY <1>4, SaveKeepsLocks DEF Propose, Status, Labels, CreateLabels, WriterLabels
<1> QED BY <1>1, <1>2, <1>3, <1>4 DEF ProposeSteps

LEMMA GateLocks ==
  ASSUME LockInv, NEW p \in Procs, GateSteps(p)
  PROVE  Locks'
<1>1. CASE GateOpen(p)
  BY <1>1, MoveKeepsLocks DEF GateOpen, Mkdir, Labels, CreateLabels, WriterLabels
<1>2. CASE GateTake(p)
  <2>1. pc \in [Procs -> Labels] /\ holds \in [Procs -> SUBSET (LockKind \X Nat)]
    BY DEF LockInv, TypeInv, ProcOK
  <2>2. /\ \A q \in Procs : pc'[q] = (IF q = p THEN "gateHeld" ELSE pc[q])
        /\ \A q \in Procs, g \in Nat : <<"run", g>> \in holds'[q] <=> <<"run", g>> \in holds[q]
        /\ dir' = dir /\ verb' = verb
    BY <1>2, <2>1 DEF GateTake, Goto, dirVars
  <2>3. dir \in Nat
    BY DEF LockInv, TypeInv, BoxOK
  <2> QED BY <2>2, <2>3
          DEF LockInv, Locks, NoCreate, WritersHold, OneHolder, CreateLabels, WriterLabels
<1>3. CASE GateTimeout(p)
  BY <1>3, LeaveKeepsLocks DEF GateTimeout
<1> QED BY <1>1, <1>2, <1>3 DEF GateSteps

LEMMA RebaseLocks ==
  ASSUME LockInv, NEW p \in Procs, RebaseSteps(p)
  PROVE  Locks'
<1>1. CASE RebaseGate(p)
  BY <1>1, StepKeepsLocks, LeaveKeepsLocks DEF RebaseGate, Labels, CreateLabels,
     WriterLabels, RefuseIfShared
<1>2. CASE RebaseLock(p)
  <2>1. TryLock(p, "run", TRUE, "drift") \/ Leave(p)
    BY <1>2 DEF RebaseLock, TryLock
  <2> QED BY <2>1, FlockKeepsLocks, LeaveKeepsLocks DEF LockKind, Labels, CreateLabels
<1>3. CASE RebaseDrift(p)
  BY <1>3, StepKeepsLocks, LeaveKeepsLocks DEF RebaseDrift, Labels, CreateLabels, WriterLabels
<1>4. CASE RebaseNothing(p)
  BY <1>4, LeaveKeepsLocks DEF RebaseNothing
<1>5. CASE RebaseConflict(p)
  BY <1>5, LeaveKeepsLocks DEF RebaseConflict
<1>6. CASE RebaseCommit(p)
  BY <1>6, MoveKeepsLocks DEF RebaseCommit, dirVars, Labels, CreateLabels, WriterLabels
<1>7. CASE RebaseSave(p)
  BY <1>7, SaveKeepsLocks DEF RebaseSave, Status, Labels, CreateLabels, WriterLabels
<1> QED BY <1>1, <1>2, <1>3, <1>4, <1>5, <1>6, <1>7 DEF RebaseSteps

LEMMA ApplyLocks ==
  ASSUME LockInv, NEW p \in Procs, ApplySteps(p)
  PROVE  Locks'
<1>1. CASE ApplyGate(p)
  BY <1>1, StepKeepsLocks, LeaveKeepsLocks DEF ApplyGate, Labels, CreateLabels,
     WriterLabels, RefuseIfShared
<1>2. CASE ApplyLock(p)
  <2>1. TryLock(p, "run", TRUE, "land") \/ Leave(p)
    BY <1>2 DEF ApplyLock, TryLock
  <2> QED BY <2>1, FlockKeepsLocks, LeaveKeepsLocks DEF LockKind, Labels, CreateLabels
<1>3. CASE ApplyRefused(p)
  BY <1>3, LeaveKeepsLocks DEF ApplyRefused
<1>4. CASE ApplyLand(p)
  BY <1>4, MoveKeepsLocks DEF ApplyLand, dirVars, Labels, CreateLabels, WriterLabels
<1>5. CASE ApplySave(p)
  BY <1>5, SaveKeepsLocks DEF ApplySave, Status, Labels, CreateLabels, WriterLabels
<1> QED BY <1>1, <1>2, <1>3, <1>4, <1>5 DEF ApplySteps

LEMMA AbortLocks ==
  ASSUME LockInv, NEW p \in Procs, AbortSteps(p)
  PROVE  Locks'
<1>1. CASE AbortGate(p)
  BY <1>1, StepKeepsLocks, LeaveKeepsLocks DEF AbortGate, Labels, CreateLabels,
     WriterLabels, RefuseIfShared
<1>2. CASE AbortLock(p)
  <2>1. TryLock(p, "run", TRUE, "saveAborted") \/ Leave(p)
    BY <1>2 DEF AbortLock, TryLock
  <2> QED BY <2>1, FlockKeepsLocks, LeaveKeepsLocks DEF LockKind, Labels, CreateLabels
<1>3. CASE Abort(p)
  BY <1>3, SaveKeepsLocks DEF Abort, Status, Labels, CreateLabels, WriterLabels
<1> QED BY <1>1, <1>2, <1>3 DEF AbortSteps

LEMMA GcLocks ==
  ASSUME LockInv, NEW p \in Procs, GcSteps(p)
  PROVE  Locks'
<1>1. CASE GcList(p)
  BY <1>1, MoveKeepsLocks, LeaveKeepsLocks
  DEF GcList, dirVars, Labels, CreateLabels, WriterLabels
<1>2. CASE GcWork(p)
  BY <1>2, StepKeepsLocks, LeaveKeepsLocks DEF GcWork, Labels, CreateLabels, WriterLabels
<1>3. CASE GcLock(p)
  BY <1>3, FlockKeepsLocks DEF GcLock, LockKind, Labels, CreateLabels, WriterLabels
<1>4. CASE GcDrain(p)
  BY <1>4, FlockKeepsLocks DEF GcDrain, LockKind, Labels, CreateLabels, WriterLabels
<1>5. CASE GcShare(p)
  BY <1>5, StepKeepsLocks, LeaveKeepsLocks DEF GcShare, Labels, CreateLabels,
     WriterLabels, RefuseIfShared
<1>6. CASE GcPrune(p)
  BY <1>6, MoveKeepsLocks DEF GcPrune, PruneWorkspace, dirVars, Labels, CreateLabels, WriterLabels
<1>7. CASE GcSave(p)
  BY <1>7, GoneKeepsLocks DEF GcSave, Mkdir, WriterLabels
<1> QED BY <1>1, <1>2, <1>3, <1>4, <1>5, <1>6, <1>7 DEF GcSteps

LEMMA RmLocks ==
  ASSUME LockInv, NEW p \in Procs, RmSteps(p)
  PROVE  Locks'
<1>1. CASE RmGate(p)
  BY <1>1, StepKeepsLocks, LeaveKeepsLocks DEF RmGate, Labels, CreateLabels, WriterLabels
<1>2. CASE RmLock(p)
  BY <1>2, FlockKeepsLocks DEF RmLock, LockKind, Labels, CreateLabels, WriterLabels
<1>3. CASE RmDrain(p)
  BY <1>3, FlockKeepsLocks DEF RmDrain, LockKind, Labels, CreateLabels, WriterLabels
<1>4. CASE RmPrune(p)
  BY <1>4, MoveKeepsLocks DEF RmPrune, PruneWorkspace, dirVars, Labels, CreateLabels, WriterLabels
<1>5. CASE RmBranch(p)
  BY <1>5, MoveKeepsLocks DEF RmBranch, dirVars, Labels, CreateLabels, WriterLabels
<1>6. CASE RmStrip(p)
  BY <1>6, MoveKeepsLocks DEF RmStrip, dirVars, Labels, CreateLabels, WriterLabels
<1>7. CASE RmErase(p)
  BY <1>7, GoneKeepsLocks DEF RmErase, WriterLabels
<1> QED BY <1>1, <1>2, <1>3, <1>4, <1>5, <1>6, <1>7 DEF RmSteps

LEMMA ShareLocks ==
  ASSUME LockInv, NEW p \in Procs, ShareSteps(p)
  PROVE  Locks'
<1>1. CASE ShareCheck(p)
  BY <1>1, StepKeepsLocks, LeaveKeepsLocks DEF ShareCheck, Labels, CreateLabels, WriterLabels
<1>2. CASE Claim(p)
  <2>1. CASE Leave(p)
    BY <2>1, LeaveKeepsLocks
  <2>2. CASE ~Leave(p)
    <3>1. /\ holds' = [holds EXCEPT ![p] = {}]
          /\ Goto(p, "sharing")
          /\ UNCHANGED <<dir, verb>>
      BY <1>2, <2>2 DEF Claim
    <3>2. pc \in [Procs -> Labels] /\ holds \in [Procs -> SUBSET (LockKind \X Nat)]
      BY DEF LockInv, TypeInv, ProcOK
    <3>3. /\ \A q \in Procs : pc'[q] = (IF q = p THEN "sharing" ELSE pc[q])
          /\ \A q \in Procs : holds'[q] = (IF q = p THEN {} ELSE holds[q])
      BY <3>1, <3>2 DEF Goto
    <3> QED BY <3>1, <3>3
            DEF LockInv, Locks, NoCreate, WritersHold, OneHolder, CreateLabels, WriterLabels
  <2> QED BY <2>1, <2>2
<1> QED BY <1>1, <1>2 DEF ShareSteps

(* Nobody is inside a create. *)
LEMMA CreateLocks ==
  ASSUME LockInv, NEW p \in Procs, CreateSteps(p)
  PROVE  FALSE
  BY DEF LockInv, Locks, NoCreate, CreateLabels, CreateSteps, CreateCheck, CreateRefused,
         CreateMkdir, CreateBranch, NoBranch, CreateWork, CreateFails, CreateSave, Undo

LEMMA OtherLocks ==
  ASSUME LockInv, NEW p \in Procs,
         \/ Mirror(p) \/ Exec(p) \/ StopWatching(p) \/ EndShare(p) \/ Crash(p)
  PROVE  Locks'
<1>1. CASE Mirror(p)
  BY <1>1, GoneKeepsLocks DEF Mirror, dirVars
<1>2. CASE Exec(p)
  BY <1>2, MoveKeepsLocks DEF Exec, dirVars, Labels, CreateLabels, WriterLabels
<1>3. CASE StopWatching(p)
  BY <1>3, LeaveKeepsLocks DEF StopWatching
<1>4. CASE EndShare(p)
  BY <1>4, GoneKeepsLocks DEF EndShare
<1>5. CASE Crash(p)
  BY <1>5, GoneKeepsLocks DEF Crash, dirVars
<1> QED BY <1>1, <1>2, <1>3, <1>4, <1>5

LEMMA EnterLocks ==
  ASSUME LockInv, "create" \notin Verbs, NEW p \in Procs, NEW v \in Verbs, Enter(p, v)
  PROVE  Locks'
<1>1. pc \in [Procs -> Labels] /\ verb \in [Procs -> AllVerbs \cup {"none"}]
  BY DEF LockInv, TypeInv, ProcOK
<1>2. PICK l \in {"find", "sync"} : pc' = [pc EXCEPT ![p] = l]
  BY DEF Enter, Goto
<1>3. /\ \A q \in Procs : pc'[q] = (IF q = p THEN l ELSE pc[q])
      /\ \A q \in Procs : verb'[q] = (IF q = p THEN v ELSE verb[q])
      /\ UNCHANGED <<dir, holds>>
  BY <1>1, <1>2 DEF Enter, dirVars
<1>4. v # "create"
  OBVIOUS
<1> QED BY <1>3, <1>4
        DEF LockInv, Locks, NoCreate, WritersHold, OneHolder, CreateLabels, WriterLabels

LEMMA NextLocks ==
  ASSUME "create" \notin Verbs, LockInv, [Next]_vars
  PROVE  LockInv'
<1>1. TypeInv'
  BY NextTypes DEF LockInv
<1>2. UNCHANGED vars => Locks'
  BY DEF vars, LockInv, Locks, NoCreate, WritersHold, OneHolder
<1>3. ASSUME NEW p \in Procs, Advance(p) PROVE Locks'
  BY <1>3, StartLocks, SessionLocks, ProposeLocks, GateLocks, RebaseLocks, ApplyLocks,
     AbortLocks, GcLocks, RmLocks, CreateLocks, ShareLocks, OtherLocks DEF Advance
<1>4. ASSUME NEW p \in Procs, NEW v \in Verbs, Enter(p, v) PROVE Locks'
  BY <1>4, EnterLocks
<1>5. ASSUME NEW p \in Procs, Exec(p) \/ StopWatching(p) \/ EndShare(p) \/ Crash(p)
      PROVE  Locks'
  BY <1>5, OtherLocks
<1>6. Next => Locks'
  BY <1>3, <1>4, <1>5 DEF Next
<1> QED BY <1>1, <1>2, <1>6 DEF LockInv

(* run.lock of env.rs keeps the writers of a box apart, for any number of     *)
(* commands and kills, rm and the re-created directory included, as long as   *)
(* nobody creates the box meanwhile: create takes no lock (OneWriter).        *)
THEOREM RunLockExcludes ==
  ASSUME "create" \notin Verbs
  PROVE  Spec => []OneWriter
<1>1. Init => LockInv
  BY InitTypes DEF Init, LockInv, Locks, NoCreate, WritersHold, OneHolder, CreateLabels,
                   WriterLabels
<1>2. LockInv /\ [Next]_vars => LockInv'
  BY NextLocks
<1> QED BY <1>1, <1>2, HoldersAreOne, PTL DEF Spec

=============================================================================
