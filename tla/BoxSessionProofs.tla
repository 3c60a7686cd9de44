-------------------------- MODULE BoxSessionProofs --------------------------
(***************************************************************************)
(* More proofs about BoxLifecycle: what the directory, the locks and the    *)
(* share gate of a box guarantee to the commands beside each other, and     *)
(* what a sequence of commands guarantees when one follows the other.       *)
(***************************************************************************)
EXTENDS BoxLifecycleProofs

(* Processes that hold run.lock of the directory: the writers, and those    *)
(* that still mirror what they wrote.                                       *)
Inside == WriterLabels \cup {"mirror"}
(* gc and rm, once they have drained the readers. *)
Drained == {"gcShare", "gcPrune", "gcSave", "rmPrune", "rmBranch", "rmStrip", "rmErase"}
GcLabels == {"gcList", "gcWork", "gcLock", "gcDrain", "gcShare", "gcPrune", "gcSave"}
RmLabels == {"rmLock", "rmDrain", "rmPrune", "rmBranch", "rmStrip", "rmErase"}

(* The flocks, and the directory, that a process has where it is.           *)
Duty(p) ==
    /\ pc[p] \in Inside => dir # 0 /\ <<"run", dir>> \in holds[p]
    /\ pc[p] \in Drained => <<"drain", dir>> \in holds[p]
    /\ pc[p] = "watching" => dir # 0 /\ <<"watch", dir>> \in holds[p]
    /\ pc[p] \in GcLabels => verb[p] = "gc"
    /\ pc[p] \in RmLabels => verb[p] \in {"rm", "rmForce"}

(* A drain and a watch of the same directory exclude each other.            *)
Apart == \A p, q \in Procs, g \in Nat :
    ~(<<"drain", g>> \in holds[p] /\ <<"watch", g>> \in holds[q])

(* What a process at a label relies on: how far gc and rm got, and that the *)
(* manifest a writer saved is still there.                                  *)
Ready(l, p) ==
    /\ l \in {"gcSave", "rmBranch", "rmStrip", "rmErase"} => work = 0
    /\ l \in {"rmStrip", "rmErase"} => branch = 0
    /\ l = "rmErase" => ref = NoManifest
    /\ l \in {"mirrorRunning", "exec", "record", "saveIdle", "mirror"} => disk # NoManifest
    /\ l = "replay" => branch # 0
    /\ l \in (GcLabels \ {"gcList"}) \cup {"import"} => m[p] # NoManifest

Tears == /\ Apart
         /\ ManifestOutlivesBox
         /\ \A p \in Procs : Duty(p) /\ Ready(pc[p], p)
TearInv == LockInv /\ Tears

-----------------------------------------------------------------------------
(* What the steps that every action is made of do to the invariant.         *)

(* What a step of p may do to the box short of erasing its directory.       *)
Kept(p) ==
    /\ work' \in {work, 0}
    /\ dir' = dir \/ dir = 0
    /\ disk' = disk \/ disk' # NoManifest
    /\ branch' = branch \/ (branch # 0 /\ pc[p] \in Inside)
    /\ ref' = ref \/ (pc[p] \in Inside /\ (disk # NoManifest \/ ref' = NoManifest))

(* Where a step that takes no lock may lead. *)
Route(p, l) ==
    /\ l \in Inside => pc[p] \in Inside
    /\ l \in Drained => pc[p] \in Drained
    /\ l # "watching"
    /\ l \in GcLabels => verb[p] = "gc"
    /\ l \in RmLabels => verb[p] \in {"rm", "rmForce"}

(* Only one process is inside. *)
LEMMA OneInside ==
  ASSUME TearInv, NEW p \in Procs, NEW q \in Procs, pc[p] \in Inside, pc[q] \in Inside
  PROVE  p = q
  BY DEF TearInv, Tears, Duty, LockInv, Locks, OneHolder, TypeInv, BoxOK

LEMMA ProcTypes ==
  ASSUME TearInv
  PROVE  /\ pc \in [Procs -> Labels]
         /\ verb \in [Procs -> AllVerbs \cup {"none"}]
         /\ m \in [Procs -> Manifest]
         /\ gate \in [Procs -> Nat]
         /\ holds \in [Procs -> SUBSET (LockKind \X Nat)]
         /\ dir \in Nat
  BY DEF TearInv, LockInv, TypeInv, ProcOK, BoxOK

(* A step of p that leaves q where it is keeps what q has and relies on.    *)
LEMMA OthersKeep ==
  ASSUME TearInv, NEW p \in Procs, NEW q \in Procs \ {p}, Kept(p),
         pc'[q] = pc[q], verb'[q] = verb[q], m'[q] = m[q], holds'[q] = holds[q]
  PROVE  Duty(q)' /\ Ready(pc[q], q)'
<1>1. Duty(q) /\ Ready(pc[q], q)
  BY DEF TearInv, Tears
<1>2. CASE pc[p] \in Inside
  <2>1. pc[q] \notin Inside
    BY <1>2, OneInside
  <2>2. dir' = dir
    BY <1>2 DEF Kept, TearInv, Tears, Duty
  <2>3. Duty(q)'
    BY <1>1, <2>2 DEF Duty
  <2>4. Ready(pc[q], q)'
    BY <1>1, <2>1 DEF Ready, Inside, WriterLabels
  <2> QED BY <2>3, <2>4
<1>3. CASE pc[p] \notin Inside
  <2>1. Duty(q)'
    BY <1>1, <1>3 DEF Kept, Duty, Drained, Inside, WriterLabels
  <2>2. Ready(pc[q], q)'
    BY <1>1, <1>3 DEF Kept, Ready
  <2> QED BY <2>1, <2>2
<1> QED BY <1>2, <1>3

LEMMA OutlivesKept ==
  ASSUME TearInv, NEW p \in Procs, Kept(p)
  PROVE  ManifestOutlivesBox'
<1>1. CASE disk' # NoManifest
  BY <1>1 DEF ManifestOutlivesBox
<1>2. CASE disk' = NoManifest /\ disk = NoManifest
  BY <1>2 DEF Kept, TearInv, Tears, ManifestOutlivesBox
<1> QED BY <1>1, <1>2 DEF Kept

LEMMA MoveTears ==
  ASSUME TearInv, NEW p \in Procs, NEW l \in Labels, Goto(p, l), Route(p, l),
         UNCHANGED <<verb, holds>>, \A q \in Procs \ {p} : m'[q] = m[q],
         Kept(p), Ready(l, p)'
  PROVE  Tears'
<1>1. /\ \A q \in Procs \ {p} : pc'[q] = pc[q]
      /\ pc'[p] = l
  BY ProcTypes DEF Goto
<1>2. Apart'
  BY DEF TearInv, Tears, Apart
<1>3. ManifestOutlivesBox'
  BY OutlivesKept
<1>4. ASSUME NEW q \in Procs \ {p} PROVE Duty(q)' /\ Ready(pc[q], q)'
  BY <1>1, OthersKeep
<1>5. Duty(p)'
  BY <1>1 DEF Route, Kept, Duty, TearInv, Tears, Drained, Inside, WriterLabels
<1>6. Ready(pc[p], p)'
  BY <1>1 
<1>7. ASSUME NEW q \in Procs PROVE (Duty(q) /\ Ready(pc[q], q))'
  BY <1>1, <1>4, <1>5, <1>6
<1> QED BY <1>2, <1>3, <1>7 DEF Tears

LEMMA GoneTears ==
  ASSUME TearInv, NEW p \in Procs, Gone(p), Kept(p)
  PROVE  Tears'
<1>1. /\ \A q \in Procs \ {p} : /\ pc'[q] = pc[q] /\ verb'[q] = verb[q]
                                /\ m'[q] = m[q] /\ holds'[q] = holds[q]
      /\ pc'[p] = "idle" /\ holds'[p] = {}
  BY ProcTypes DEF Gone
<1>2. Apart'
  BY <1>1 DEF TearInv, Tears, Apart
<1>3. ManifestOutlivesBox'
  BY OutlivesKept
<1>4. ASSUME NEW q \in Procs \ {p} PROVE Duty(q)' /\ Ready(pc[q], q)'
  BY <1>1, OthersKeep
<1>5. Duty(p)' /\ Ready(pc[p], p)'
  BY <1>1 DEF Duty, Ready, Inside, WriterLabels, Drained, GcLabels, RmLabels
<1>7. ASSUME NEW q \in Procs PROVE (Duty(q) /\ Ready(pc[q], q))'
  BY <1>1, <1>4, <1>5
<1> QED BY <1>2, <1>3, <1>7 DEF Tears

LEMMA LeaveTears ==
  ASSUME TearInv, NEW p \in Procs, Leave(p)
  PROVE  Tears'
  BY GoneTears DEF Leave, Kept, repoVars, treeVars, dirVars

LEMMA StepTears ==
  ASSUME TearInv, NEW p \in Procs, NEW l \in Labels, Step(p, l), Route(p, l), Ready(l, p)
  PROVE  Tears'
<1>1. Kept(p)
  BY DEF Step, Kept, repoVars, treeVars, dirVars
<1>2. Ready(l, p)'
  BY DEF Step, Ready, repoVars, treeVars, dirVars
<1> QED BY <1>1, <1>2, MoveTears DEF Step

LEMMA SaveTears ==
  ASSUME TearInv, NEW p \in Procs, NEW s \in Status, NEW l \in {"mirrorRunning", "mirror"},
         SaveStatus(p, s, l), pc[p] \in WriterLabels
  PROVE  Tears'
<1>1. disk'.status = s /\ disk'.status # "absent"
  <2>1. m[p] \in Manifest
    BY ProcTypes
  <2>2. disk'.status = s
    BY <2>1 DEF SaveStatus, Manifest
  <2> QED BY <2>2 DEF Status
<1>2. disk' # NoManifest
  BY <1>1 DEF NoManifest
<1>3. \A q \in Procs \ {p} : m'[q] = m[q]
  BY ProcTypes DEF SaveStatus
<1>4. Kept(p)
  BY <1>2 DEF SaveStatus, Mkdir, Kept, treeVars
<1>5. Ready(l, p)'
  BY <1>2 DEF Ready, GcLabels
<1>6. Route(p, l) /\ l \in Labels
  BY DEF Route, Inside, WriterLabels, Drained, GcLabels, RmLabels, Labels
<1>7. Goto(p, l) /\ UNCHANGED <<verb, holds>>
  BY DEF SaveStatus
<1> QED BY <1>3, <1>4, <1>5, <1>6, <1>7, MoveTears

(* A flock that is granted: the drain and the watch collide.                *)
LEMMA FlockTears ==
  ASSUME TearInv, NEW p \in Procs, NEW kind \in {"run", "watch", "drain"}, NEW ok \in BOOLEAN,
         NEW l \in Labels, TryLock(p, kind, ok, l), Ready(l, p),
         l \in Inside => kind = "run" \/ pc[p] \in Inside,
         l \in Drained => kind = "drain" \/ pc[p] \in Drained,
         l = "watching" => kind = "watch",
         l \in GcLabels => verb[p] = "gc",
         l \in RmLabels => verb[p] \in {"rm", "rmForce"}
  PROVE  Tears'
<1>1. CASE Leave(p)
  BY <1>1, LeaveTears
<1>2. CASE ~Leave(p)
  <2>1. /\ Available(kind)
        /\ holds' = [holds EXCEPT ![p] = @ \cup {<<kind, dir>>}]
        /\ Goto(p, l)
        /\ UNCHANGED <<verb, m, dir, disk, work, branch, ref>>
    BY <1>2 DEF TryLock, repoVars, treeVars, dirVars
  <2>2. /\ \A q \in Procs \ {p} : pc'[q] = pc[q] /\ holds'[q] = holds[q]
        /\ pc'[p] = l
        /\ holds'[p] = holds[p] \cup {<<kind, dir>>}
    BY <2>1, ProcTypes DEF Goto
  <2>3. Kept(p) /\ ManifestOutlivesBox'
    BY <2>1, OutlivesKept DEF Kept
  <2>4. dir # 0 /\ dir \in Nat
    BY <2>1, ProcTypes DEF Available
  <2>5. Apart'
    <3>1. kind = "watch" => \A q \in Procs : <<"drain", dir>> \notin holds[q]
      BY <2>1 DEF Available, Blockers
    <3>2. kind = "drain" => \A q \in Procs : <<"watch", dir>> \notin holds[q]
      BY <2>1 DEF Available, Blockers
    <3>3. ASSUME NEW q \in Procs, NEW k \in LockKind, NEW g \in Nat, <<k, g>> \in holds'[q]
          PROVE  <<k, g>> \in holds[q] \/ (k = kind /\ g = dir)
      BY <2>2, <3>3
    <3> SUFFICES ASSUME NEW q \in Procs, NEW r \in Procs, NEW g \in Nat,
                        <<"drain", g>> \in holds'[q], <<"watch", g>> \in holds'[r]
                 PROVE  FALSE
      BY DEF Apart
    <3>4. <<"drain", g>> \in holds[q] \/ (kind = "drain" /\ g = dir)
      BY <3>3 DEF LockKind
    <3>5. <<"watch", g>> \in holds[r] \/ (kind = "watch" /\ g = dir)
      BY <3>3 DEF LockKind
    <3>6. <<"drain", g>> \in holds[q] => <<"watch", g>> \notin holds[r]
      BY DEF TearInv, Tears, Apart
    <3> QED BY <3>1, <3>2, <3>4, <3>5, <3>6
  <2>6. Duty(p)'
    BY <2>1, <2>2, <2>4 DEF Duty, TearInv, Tears
  <2>7. Ready(pc[p], p)'
    BY <2>1, <2>2 DEF Ready
  <2>8. ASSUME NEW q \in Procs \ {p} PROVE Duty(q)' /\ Ready(pc[q], q)'
    BY <2>1, <2>2, <2>3, OthersKeep
  <2>9. ASSUME NEW q \in Procs PROVE (Duty(q) /\ Ready(pc[q], q))'
    BY <2>2, <2>6, <2>7, <2>8
  <2> QED BY <2>3, <2>5, <2>9 DEF Tears
<1> QED BY <1>1, <1>2

-----------------------------------------------------------------------------
(* Every action keeps the invariant.                                        *)

LEMMA StartTears ==
  ASSUME TearInv, NEW p \in Procs, StartSteps(p)
  PROVE  Tears'
<1>1. CASE ReadRef(p)
  <2>1. Kept(p) /\ Ready("materialize", p)' /\ Route(p, "materialize")
    BY <1>1 DEF ReadRef, Kept, Ready, Route, repoVars, treeVars, dirVars,
       Inside, WriterLabels, Drained, GcLabels, RmLabels
  <2>2. \A q \in Procs \ {p} : m'[q] = m[q]
    BY <1>1, ProcTypes DEF ReadRef
  <2> QED BY <1>1, <2>1, <2>2, MoveTears DEF ReadRef, Labels
<1>2. CASE Compare(p) \/ Materialize(p)
  <2>1. verb[p] \in AllVerbs \ {"create"}
    BY <1>2 DEF Compare, Materialize, TearInv, LockInv, Locks, NoCreate, TypeInv, ProcOK, VerbOK
  <2>2. FirstStep(verb[p]) \in {"gcList", "load"}
        /\ (FirstStep(verb[p]) = "gcList" => verb[p] = "gc")
    BY <2>1 DEF FirstStep
  <2>3. \E l \in {"import", "gcList", "load"} :
          Goto(p, l) /\ (l = "gcList" => verb[p] = "gc") /\ (l = "import" => m'[p] # NoManifest)
    <3>1. CASE Compare(p) /\ Newer(m[p])
      BY <3>1 DEF Compare, Newer
    <3>2. CASE (Compare(p) /\ ~Newer(m[p])) \/ Materialize(p)
      BY <2>2, <3>2 DEF Compare, Materialize
    <3> QED BY <1>2, <3>1, <3>2
  <2>4. Kept(p)
    <3>1. pc[p] = "import" => m[p] # NoManifest
      BY DEF TearInv, Tears, Ready
    <3> QED BY <1>2, <3>1 DEF Compare, Materialize, Mkdir, Kept, repoVars, treeVars, dirVars
  <2>5. ASSUME NEW l \in {"import", "gcList", "load"}, l = "gcList" => verb[p] = "gc",
               l = "import" => m'[p] # NoManifest
        PROVE  Route(p, l) /\ l \in Labels /\ Ready(l, p)'
    BY <2>5 DEF Ready, Route, Inside, WriterLabels, Drained, GcLabels, RmLabels, Labels
  <2>6. UNCHANGED <<verb, holds>> /\ \A q \in Procs \ {p} : m'[q] = m[q]
    BY <1>2, ProcTypes DEF Compare, Materialize
  <2> QED BY <2>3, <2>4, <2>5, <2>6, MoveTears
<1>3. CASE Load(p)
  <2>1. verb[p] \in LoadVerbs
    BY <1>3 DEF Load, TearInv, LockInv, TypeInv, ProcOK, VerbOK
  <2>2. PICK l \in {"sessionCheck", "proposeLock", "gateOpen", "shareCheck"} :
          l = AfterLoad[verb[p]]
    BY <2>1 DEF AfterLoad, LoadVerbs, AllVerbs
  <2>3. Kept(p)
    BY <1>3 DEF Load, Kept, repoVars, treeVars, dirVars
  <2>4. Ready(l, p)' /\ Route(p, l) /\ l \in Labels
    BY <2>2 DEF Ready, Route, Inside, WriterLabels, Drained, GcLabels, RmLabels, Labels
  <2>5. \A q \in Procs \ {p} : m'[q] = m[q]
    BY <1>3, ProcTypes DEF Load
  <2> QED BY <1>3, <2>2, <2>3, <2>4, <2>5, MoveTears DEF Load
<1>4. CASE NotFound(p)
  <2>1. Ready("sync", p) /\ Route(p, "sync") /\ "sync" \in Labels
    BY DEF Ready, Route, Inside, WriterLabels, Drained, GcLabels, RmLabels, Labels
  <2> QED BY <1>4, <2>1, StepTears, LeaveTears DEF NotFound
<1> QED BY <1>1, <1>2, <1>3, <1>4 DEF StartSteps

LEMMA SessionTears ==
  ASSUME TearInv, NEW p \in Procs, SessionSteps(p)
  PROVE  Tears'
<1>1. CASE SessionCheck(p)
  <2>1. Ready("sessionLock", p) /\ Route(p, "sessionLock") /\ "sessionLock" \in Labels
    BY DEF Ready, Route, Inside, WriterLabels, Drained, GcLabels, RmLabels, Labels
  <2> QED BY <1>1, <2>1, StepTears, LeaveTears DEF SessionCheck
<1>2. CASE SessionLock(p)
  <2>1. CASE TryLock(p, "watch", TRUE, "watching")
    BY <2>1, FlockTears DEF Ready, Inside, WriterLabels, Drained, GcLabels, RmLabels, Labels
  <2>2. CASE TryLock(p, "run", TRUE, "prepare")
    BY <2>2, FlockTears DEF Ready, Drained, GcLabels, RmLabels, Labels
  <2> QED BY <1>2, <2>1, <2>2 DEF SessionLock
<1>3. CASE PrepareFails(p)
  BY <1>3, LeaveTears DEF PrepareFails
<1>4. CASE StartRunning(p)
  BY <1>4, SaveTears DEF StartRunning, Status, WriterLabels
<1>5. CASE MirrorRunning(p)
  <2>1. disk # NoManifest
    BY <1>5 DEF MirrorRunning, TearInv, Tears, Ready
  <2>2. Kept(p) /\ Ready("exec", p)' /\ Route(p, "exec")
    BY <1>5, <2>1 DEF MirrorRunning, Kept, Ready, Route, treeVars, dirVars,
       Inside, WriterLabels, Drained, GcLabels, RmLabels
  <2> QED BY <1>5, <2>2, MoveTears DEF MirrorRunning, Labels
<1>6. CASE Record(p)
  <2>1. disk # NoManifest
    BY <1>6 DEF Record, TearInv, Tears, Ready
  <2>2. Kept(p) /\ Ready("saveIdle", p)' /\ Route(p, "saveIdle")
    BY <1>6, <2>1 DEF Record, Kept, Ready, Route, repoVars, treeVars,
       Inside, WriterLabels, Drained, GcLabels, RmLabels
  <2>3. \A q \in Procs \ {p} : m'[q] = m[q]
    BY <1>6, ProcTypes DEF Record
  <2> QED BY <1>6, <2>2, <2>3, MoveTears DEF Record, Labels
<1>7. CASE NothingToRecord(p)
  <2>1. disk # NoManifest
    BY <1>7 DEF NothingToRecord, TearInv, Tears, Ready
  <2>2. Ready("saveIdle", p) /\ Route(p, "saveIdle") /\ "saveIdle" \in Labels
    BY <1>7, <2>1 DEF NothingToRecord, Ready, Route, Inside, WriterLabels, Drained,
       GcLabels, RmLabels, Labels
  <2> QED BY <1>7, <2>2, StepTears DEF NothingToRecord
<1>8. CASE RecordFails(p)
  BY <1>8, LeaveTears DEF RecordFails
<1>9. CASE GoIdle(p)
  BY <1>9, SaveTears DEF GoIdle, Status, WriterLabels
<1> QED BY <1>1, <1>2, <1>3, <1>4, <1>5, <1>6, <1>7, <1>8, <1>9 DEF SessionSteps

LEMMA ProposeTears ==
  ASSUME TearInv, NEW p \in Procs, ProposeSteps(p)
  PROVE  Tears'
<1>1. CASE ProposeLock(p)
  <2>1. Ready("snapshot", p) /\ "snapshot" \in Labels
    BY DEF Ready, GcLabels, Labels
  <2>2. TryLock(p, "run", TRUE, "snapshot") \/ Leave(p)
    BY <1>1 DEF ProposeLock, TryLock
  <2> QED BY <2>1, <2>2, FlockTears, LeaveTears DEF Drained, GcLabels, RmLabels
<1>2. CASE Snapshot(p)
  <2>1. PICK l \in {"saveProposed", "replay"} : Goto(p, l)
    BY <1>2 DEF Snapshot
  <2>2. Kept(p)
    BY <1>2 DEF Snapshot, Kept, dirVars, Inside, WriterLabels
  <2>3. branch' # 0
    BY <1>2 DEF Snapshot, TearInv, LockInv, TypeInv, BoxOK
  <2>4. Ready(l, p)' /\ Route(p, l) /\ l \in Labels
    BY <1>2, <2>3 DEF Snapshot, Ready, Route, Inside, WriterLabels, Drained, GcLabels,
       RmLabels, Labels
  <2> QED BY <1>2, <2>1, <2>2, <2>4, MoveTears DEF Snapshot
<1>3. CASE SnapshotRefused(p)
  BY <1>3, LeaveTears DEF SnapshotRefused
<1>4. CASE Propose(p)
  BY <1>4, SaveTears DEF Propose, Status, WriterLabels
<1> QED BY <1>1, <1>2, <1>3, <1>4 DEF ProposeSteps

LEMMA GateTears ==
  ASSUME TearInv, NEW p \in Procs, GateSteps(p)
  PROVE  Tears'
<1>1. CASE GateOpen(p)
  <2>1. Kept(p) /\ Ready("gateWait", p)' /\ Route(p, "gateWait")
    BY <1>1 DEF GateOpen, Mkdir, Kept, Ready, Route, repoVars, treeVars,
       Inside, WriterLabels, Drained, GcLabels, RmLabels
  <2> QED BY <1>1, <2>1, MoveTears DEF GateOpen, Labels
<1>2. CASE GateTake(p)
  <2>1. /\ \A q \in Procs \ {p} : pc'[q] = pc[q] /\ holds'[q] = holds[q]
        /\ pc'[p] = "gateHeld"
        /\ holds'[p] = holds[p] \cup {<<"gate", gate[p]>>}
        /\ UNCHANGED <<verb, m, dir, disk, work, branch, ref>>
    BY <1>2, ProcTypes DEF GateTake, Goto, repoVars, treeVars, dirVars
  <2>2. Kept(p) /\ ManifestOutlivesBox'
    BY <2>1, OutlivesKept DEF Kept
  <2>3. Apart'
    <3>1. ASSUME NEW q \in Procs, NEW k \in {"drain", "watch"}, NEW g \in Nat,
                 <<k, g>> \in holds'[q]
          PROVE  <<k, g>> \in holds[q]
      BY <2>1, <3>1
    <3> QED BY <3>1 DEF TearInv, Tears, Apart
  <2>4. Duty(p)' /\ Ready(pc[p], p)'
    BY <2>1 DEF Duty, Ready, Inside, WriterLabels, Drained, GcLabels, RmLabels
  <2>5. ASSUME NEW q \in Procs \ {p} PROVE Duty(q)' /\ Ready(pc[q], q)'
    BY <2>1, <2>2, OthersKeep
  <2>6. ASSUME NEW q \in Procs PROVE (Duty(q) /\ Ready(pc[q], q))'
    BY <2>1, <2>4, <2>5
  <2> QED BY <2>2, <2>3, <2>6 DEF Tears
<1>3. CASE GateTimeout(p)
  BY <1>3, LeaveTears DEF GateTimeout
<1> QED BY <1>1, <1>2, <1>3 DEF GateSteps

LEMMA RebaseTears ==
  ASSUME TearInv, NEW p \in Procs, RebaseSteps(p)
  PROVE  Tears'
<1>1. CASE RebaseGate(p)
  <2>1. Ready("rebaseLock", p) /\ Route(p, "rebaseLock") /\ "rebaseLock" \in Labels
    BY DEF Ready, Route, Inside, WriterLabels, Drained, GcLabels, RmLabels, Labels
  <2> QED BY <1>1, <2>1, StepTears, LeaveTears DEF RebaseGate, RefuseIfShared
<1>2. CASE RebaseLock(p)
  <2>1. Ready("drift", p) /\ "drift" \in Labels
    BY DEF Ready, GcLabels, Labels
  <2>2. TryLock(p, "run", TRUE, "drift") \/ Leave(p)
    BY <1>2 DEF RebaseLock, TryLock
  <2> QED BY <2>1, <2>2, FlockTears, LeaveTears DEF Drained, GcLabels, RmLabels
<1>3. CASE RebaseDrift(p)
  <2>1. Ready("snapshot", p) /\ Route(p, "snapshot") /\ "snapshot" \in Labels
    BY <1>3 DEF RebaseDrift, Ready, Route, Inside, WriterLabels, Drained, GcLabels,
       RmLabels, Labels
  <2> QED BY <1>3, <2>1, StepTears DEF RebaseDrift
<1>4. CASE RebaseNothing(p)
  BY <1>4, LeaveTears DEF RebaseNothing
<1>5. CASE RebaseConflict(p)
  BY <1>5, LeaveTears DEF RebaseConflict
<1>6. CASE RebaseCommit(p)
  <2>1. branch # 0
    BY <1>6 DEF RebaseCommit, TearInv, Tears, Ready
  <2>2. Kept(p) /\ Ready("saveRebased", p)' /\ Route(p, "saveRebased")
    BY <1>6, <2>1 DEF RebaseCommit, Kept, Ready, Route, treeVars, dirVars,
       Inside, WriterLabels, Drained, GcLabels, RmLabels
  <2> QED BY <1>6, <2>2, MoveTears DEF RebaseCommit, Labels
<1>7. CASE RebaseSave(p)
  BY <1>7, SaveTears DEF RebaseSave, Status, WriterLabels
<1> QED BY <1>1, <1>2, <1>3, <1>4, <1>5, <1>6, <1>7 DEF RebaseSteps

LEMMA ApplyTears ==
  ASSUME TearInv, NEW p \in Procs, ApplySteps(p)
  PROVE  Tears'
<1>1. CASE ApplyGate(p)
  <2>1. Ready("applyLock", p) /\ Route(p, "applyLock") /\ "applyLock" \in Labels
    BY DEF Ready, Route, Inside, WriterLabels, Drained, GcLabels, RmLabels, Labels
  <2> QED BY <1>1, <2>1, StepTears, LeaveTears DEF ApplyGate, RefuseIfShared
<1>2. CASE ApplyLock(p)
  <2>1. Ready("land", p) /\ "land" \in Labels
    BY DEF Ready, GcLabels, Labels
  <2>2. TryLock(p, "run", TRUE, "land") \/ Leave(p)
    BY <1>2 DEF ApplyLock, TryLock
  <2> QED BY <2>1, <2>2, FlockTears, LeaveTears DEF Drained, GcLabels, RmLabels
<1>3. CASE ApplyRefused(p)
  BY <1>3, LeaveTears DEF ApplyRefused
<1>4. CASE ApplyLand(p)
  <2>1. Kept(p) /\ Ready("saveApplied", p)' /\ Route(p, "saveApplied")
    BY <1>4 DEF ApplyLand, Kept, Ready, Route, treeVars, dirVars,
       Inside, WriterLabels, Drained, GcLabels, RmLabels
  <2> QED BY <1>4, <2>1, MoveTears DEF ApplyLand, Labels
<1>5. CASE ApplySave(p)
  BY <1>5, SaveTears DEF ApplySave, Status, WriterLabels
<1> QED BY <1>1, <1>2, <1>3, <1>4, <1>5 DEF ApplySteps

LEMMA AbortTears ==
  ASSUME TearInv, NEW p \in Procs, AbortSteps(p)
  PROVE  Tears'
<1>1. CASE AbortGate(p)
  <2>1. Ready("abortLock", p) /\ Route(p, "abortLock") /\ "abortLock" \in Labels
    BY DEF Ready, Route, Inside, WriterLabels, Drained, GcLabels, RmLabels, Labels
  <2> QED BY <1>1, <2>1, StepTears, LeaveTears DEF AbortGate, RefuseIfShared
<1>2. CASE AbortLock(p)
  <2>1. Ready("saveAborted", p) /\ "saveAborted" \in Labels
    BY DEF Ready, GcLabels, Labels
  <2>2. TryLock(p, "run", TRUE, "saveAborted") \/ Leave(p)
    BY <1>2 DEF AbortLock, TryLock
  <2> QED BY <2>1, <2>2, FlockTears, LeaveTears DEF Drained, GcLabels, RmLabels
<1>3. CASE Abort(p)
  BY <1>3, SaveTears DEF Abort, Status, WriterLabels
<1> QED BY <1>1, <1>2, <1>3 DEF AbortSteps

LEMMA GcTears ==
  ASSUME TearInv, NEW p \in Procs, GcSteps(p)
  PROVE  Tears'
<1>1. pc[p] \in GcLabels => verb[p] = "gc" /\ Ready(pc[p], p)
  BY DEF TearInv, Tears, Duty
<1>2. CASE GcList(p)
  <2>1. CASE Leave(p)
    BY <2>1, LeaveTears
  <2>2. CASE ~Leave(p)
    <3>1. /\ disk.status \in Terminal /\ m' = [m EXCEPT ![p] = disk] /\ Goto(p, "gcWork")
          /\ UNCHANGED <<verb, gate, holds, repoVars, treeVars, dirVars, clock, bounds>>
      BY <1>2, <2>2 DEF GcList
    <3>2. /\ \A q \in Procs \ {p} : m'[q] = m[q]
          /\ m'[p] = disk /\ disk # NoManifest
      BY <3>1, ProcTypes DEF Terminal, NoManifest
    <3>3. Kept(p) /\ Ready("gcWork", p)' /\ Route(p, "gcWork") /\ "gcWork" \in Labels
      BY <1>1, <1>2, <3>1, <3>2 DEF GcList, Kept, Ready, Route, repoVars, treeVars, dirVars,
         Inside, WriterLabels, Drained, GcLabels, RmLabels, Labels
    <3> QED BY <3>1, <3>2, <3>3, MoveTears
  <2> QED BY <2>1, <2>2
<1>3. CASE GcWork(p)
  <2>1. Ready("gcLock", p) /\ Route(p, "gcLock") /\ "gcLock" \in Labels
    BY <1>1, <1>3 DEF GcWork, Ready, Route, Inside, WriterLabels, Drained, GcLabels,
       RmLabels, Labels
  <2> QED BY <1>3, <2>1, StepTears, LeaveTears DEF GcWork
<1>4. CASE GcLock(p)
  <2>1. Ready("gcDrain", p) /\ verb[p] = "gc" /\ "gcDrain" \in Labels
    BY <1>1, <1>4 DEF GcLock, Ready, GcLabels, Labels
  <2> QED BY <1>4, <2>1, FlockTears DEF GcLock, Drained, RmLabels
<1>5. CASE GcDrain(p)
  <2>1. Ready("gcShare", p) /\ verb[p] = "gc" /\ pc[p] \in Inside /\ "gcShare" \in Labels
    BY <1>1, <1>5 DEF GcDrain, Ready, GcLabels, Labels, Inside, WriterLabels
  <2> QED BY <1>5, <2>1, FlockTears DEF GcDrain, RmLabels
<1>6. CASE GcShare(p)
  <2>1. Ready("gcPrune", p) /\ Route(p, "gcPrune") /\ "gcPrune" \in Labels
    BY <1>1, <1>6 DEF GcShare, Ready, Route, Inside, WriterLabels, Drained, GcLabels,
       RmLabels, Labels
  <2> QED BY <1>6, <2>1, StepTears, LeaveTears DEF GcShare, RefuseIfShared
<1>7. CASE GcPrune(p)
  <2>1. Kept(p) /\ Ready("gcSave", p)' /\ Route(p, "gcSave")
    BY <1>1, <1>7 DEF GcPrune, PruneWorkspace, Kept, Ready, Route, repoVars, dirVars,
       Inside, WriterLabels, Drained, GcLabels, RmLabels
  <2> QED BY <1>7, <2>1, MoveTears DEF GcPrune, PruneWorkspace, Labels
<1>8. CASE GcSave(p)
  <2>1. Kept(p)
    BY <1>1, <1>8 DEF GcSave, Mkdir, Kept, Ready, repoVars, treeVars, GcLabels
  <2> QED BY <1>8, <2>1, GoneTears DEF GcSave
<1> QED BY <1>2, <1>3, <1>4, <1>5, <1>6, <1>7, <1>8 DEF GcSteps

(* rm erases the directory when nobody else is inside and nobody watches.   *)
LEMMA EraseTears ==
  ASSUME TearInv, NEW p \in Procs, RmErase(p)
  PROVE  Tears'
<1>1. /\ pc[p] = "rmErase"
      /\ <<"drain", dir>> \in holds[p] /\ dir \in Nat
      /\ work = 0 /\ branch = 0 /\ ref = NoManifest
  BY ProcTypes DEF RmErase, TearInv, Tears, Duty, Ready, Drained
<1>2. /\ \A q \in Procs \ {p} : /\ pc'[q] = pc[q] /\ verb'[q] = verb[q]
                                /\ m'[q] = m[q] /\ holds'[q] = holds[q]
      /\ pc'[p] = "idle" /\ holds'[p] = {}
      /\ work' = 0 /\ branch' = branch /\ ref' = ref
  BY ProcTypes DEF RmErase, Gone, EraseDir, repoVars
<1>3. Apart'
  BY <1>2 DEF TearInv, Tears, Apart
<1>4. ManifestOutlivesBox'
  BY <1>1, <1>2 DEF ManifestOutlivesBox
<1>5. ASSUME NEW q \in Procs \ {p} PROVE Duty(q)' /\ Ready(pc[q], q)'
  <2>1. pc[q] \notin Inside
    BY <1>1, OneInside DEF Inside, WriterLabels
  <2>2. pc[q] # "watching"
    BY <1>1 DEF TearInv, Tears, Duty, Apart
  <2>3. Duty(q) /\ Ready(pc[q], q)
    BY DEF TearInv, Tears
  <2>4. Duty(q)'
    BY <1>2, <2>1, <2>2, <2>3 DEF Duty, Drained, Inside, WriterLabels
  <2>5. Ready(pc[q], q)'
    BY <1>2, <2>1, <2>3 DEF Ready, Inside, WriterLabels
  <2> QED BY <2>4, <2>5
<1>6. Duty(p)' /\ Ready(pc[p], p)'
  BY <1>2 DEF Duty, Ready, Inside, WriterLabels, Drained, GcLabels, RmLabels
<1>7. ASSUME NEW q \in Procs PROVE (Duty(q) /\ Ready(pc[q], q))'
  BY <1>2, <1>5, <1>6
<1> QED BY <1>3, <1>4, <1>7 DEF Tears

LEMMA RmTears ==
  ASSUME TearInv, NEW p \in Procs, RmSteps(p)
  PROVE  Tears'
<1>1. pc[p] \in RmLabels => verb[p] \in {"rm", "rmForce"} /\ Ready(pc[p], p)
  BY DEF TearInv, Tears, Duty
<1>2. CASE RmGate(p)
  <2>1. Ready("rmLock", p) /\ Route(p, "rmLock") /\ "rmLock" \in Labels
    BY <1>2 DEF RmGate, Ready, Route, Inside, WriterLabels, Drained, GcLabels, RmLabels, Labels
  <2> QED BY <1>2, <2>1, StepTears, LeaveTears DEF RmGate
<1>3. CASE RmLock(p)
  <2>1. Ready("rmDrain", p) /\ verb[p] \in {"rm", "rmForce"} /\ "rmDrain" \in Labels
    BY <1>1, <1>3 DEF RmLock, Ready, RmLabels, GcLabels, Labels
  <2> QED BY <1>3, <2>1, FlockTears DEF RmLock, Drained, GcLabels
<1>4. CASE RmDrain(p)
  <2>1. /\ Ready("rmPrune", p) /\ verb[p] \in {"rm", "rmForce"}
        /\ pc[p] \in Inside /\ "rmPrune" \in Labels
    BY <1>1, <1>4 DEF RmDrain, Ready, RmLabels, GcLabels, Labels, Inside, WriterLabels
  <2> QED BY <1>4, <2>1, FlockTears DEF RmDrain, GcLabels
<1>5. CASE RmPrune(p)
  <2>1. Kept(p) /\ Ready("rmBranch", p)' /\ Route(p, "rmBranch")
    BY <1>1, <1>5 DEF RmPrune, PruneWorkspace, Kept, Ready, Route, repoVars, dirVars,
       Inside, WriterLabels, Drained, GcLabels, RmLabels
  <2> QED BY <1>5, <2>1, MoveTears DEF RmPrune, PruneWorkspace, Labels
<1>6. CASE RmBranch(p)
  <2>1. Kept(p) /\ Ready("rmStrip", p)' /\ Route(p, "rmStrip")
    BY <1>1, <1>6 DEF RmBranch, Kept, Ready, Route, treeVars, dirVars,
       Inside, WriterLabels, Drained, GcLabels, RmLabels
  <2> QED BY <1>6, <2>1, MoveTears DEF RmBranch, Labels
<1>7. CASE RmStrip(p)
  <2>1. Kept(p) /\ Ready("rmErase", p)' /\ Route(p, "rmErase")
    BY <1>1, <1>7 DEF RmStrip, Kept, Ready, Route, treeVars, dirVars,
       Inside, WriterLabels, Drained, GcLabels, RmLabels
  <2> QED BY <1>7, <2>1, MoveTears DEF RmStrip, Labels
<1>8. CASE RmErase(p)
  BY <1>8, EraseTears
<1> QED BY <1>2, <1>3, <1>4, <1>5, <1>6, <1>7, <1>8 DEF RmSteps

LEMMA ShareTears ==
  ASSUME TearInv, NEW p \in Procs, ShareSteps(p)
  PROVE  Tears'
<1>1. CASE ShareCheck(p)
  <2>1. Ready("gateOpen", p) /\ Route(p, "gateOpen") /\ "gateOpen" \in Labels
    BY DEF Ready, Route, Inside, WriterLabels, Drained, GcLabels, RmLabels, Labels
  <2> QED BY <1>1, <2>1, StepTears, LeaveTears DEF ShareCheck
<1>2. CASE Claim(p)
  <2>1. CASE Leave(p)
    BY <2>1, LeaveTears
  <2>2. CASE ~Leave(p)
    <3>1. /\ holds' = [holds EXCEPT ![p] = {}]
          /\ Goto(p, "sharing")
          /\ UNCHANGED <<dir, disk, verb, m, work, branch, ref>>
      BY <1>2, <2>2 DEF Claim, repoVars, treeVars
    <3>2. /\ \A q \in Procs \ {p} : pc'[q] = pc[q] /\ holds'[q] = holds[q]
          /\ pc'[p] = "sharing" /\ holds'[p] = {}
      BY <3>1, ProcTypes DEF Goto
    <3>3. Kept(p) /\ ManifestOutlivesBox'
      BY <3>1, OutlivesKept DEF Kept
    <3>4. Apart'
      BY <3>2 DEF TearInv, Tears, Apart
    <3>5. Duty(p)' /\ Ready(pc[p], p)'
      BY <3>2 DEF Duty, Ready, Inside, WriterLabels, Drained, GcLabels, RmLabels
    <3>6. ASSUME NEW q \in Procs \ {p} PROVE Duty(q)' /\ Ready(pc[q], q)'
      BY <3>1, <3>2, <3>3, OthersKeep
    <3>7. ASSUME NEW q \in Procs PROVE (Duty(q) /\ Ready(pc[q], q))'
      BY <3>2, <3>5, <3>6
    <3> QED BY <3>3, <3>4, <3>7 DEF Tears
  <2> QED BY <2>1, <2>2
<1> QED BY <1>1, <1>2 DEF ShareSteps

LEMMA OtherTears ==
  ASSUME TearInv, NEW p \in Procs,
         \/ Mirror(p) \/ Exec(p) \/ StopWatching(p) \/ EndShare(p) \/ Crash(p)
  PROVE  Tears'
<1>1. CASE Mirror(p)
  <2>1. disk # NoManifest
    BY <1>1 DEF Mirror, TearInv, Tears, Ready
  <2>2. Kept(p)
    BY <1>1, <2>1 DEF Mirror, Kept, treeVars, dirVars, Inside
  <2> QED BY <1>1, <2>2, GoneTears DEF Mirror
<1>2. CASE Exec(p)
  <2>1. disk # NoManifest
    BY <1>2 DEF Exec, TearInv, Tears, Ready
  <2>2. Kept(p) /\ Ready("record", p)' /\ Route(p, "record")
    BY <1>2, <2>1 DEF Exec, Kept, Ready, Route, dirVars,
       Inside, WriterLabels, Drained, GcLabels, RmLabels
  <2> QED BY <1>2, <2>2, MoveTears DEF Exec, Labels
<1>3. CASE StopWatching(p)
  BY <1>3, LeaveTears DEF StopWatching
<1>4. CASE EndShare(p)
  BY <1>4, GoneTears DEF EndShare, Kept, repoVars, treeVars
<1>5. CASE Crash(p)
  BY <1>5, GoneTears DEF Crash, Kept, repoVars, treeVars, dirVars
<1> QED BY <1>1, <1>2, <1>3, <1>4, <1>5

LEMMA EnterTears ==
  ASSUME TearInv, NEW p \in Procs, NEW v \in Verbs, Enter(p, v)
  PROVE  Tears'
<1>1. PICK l \in {"find", "sync"} : pc' = [pc EXCEPT ![p] = l]
  BY DEF Enter, Goto
<1>2. /\ \A q \in Procs \ {p} : pc'[q] = pc[q] /\ verb'[q] = verb[q]
      /\ pc'[p] = l
      /\ UNCHANGED <<dir, disk, work, branch, ref, m, holds>>
  BY <1>1, ProcTypes DEF Enter, repoVars, treeVars, dirVars
<1>3. Kept(p) /\ ManifestOutlivesBox'
  BY <1>2, OutlivesKept DEF Kept
<1>4. Apart'
  BY <1>2 DEF TearInv, Tears, Apart
<1>5. Duty(p)' /\ Ready(pc[p], p)'
  BY <1>2 DEF Duty, Ready, Inside, WriterLabels, Drained, GcLabels, RmLabels
<1>6. ASSUME NEW q \in Procs \ {p} PROVE Duty(q)' /\ Ready(pc[q], q)'
  BY <1>2, <1>3, OthersKeep
<1>7. ASSUME NEW q \in Procs PROVE (Duty(q) /\ Ready(pc[q], q))'
  BY <1>2, <1>5, <1>6
<1> QED BY <1>3, <1>4, <1>7 DEF Tears

LEMMA NextTears ==
  ASSUME "create" \notin Verbs, TearInv, [Next]_vars
  PROVE  TearInv'
<1>1. LockInv'
  BY NextLocks DEF TearInv
<1>2. UNCHANGED vars => Tears'
  BY DEF vars, TearInv, Tears, Apart, ManifestOutlivesBox, Duty, Ready
<1>3. ASSUME NEW p \in Procs, Advance(p) PROVE Tears'
  <2>1. ~CreateSteps(p)
    BY CreateLocks DEF TearInv
  <2> QED BY <1>3, <2>1, StartTears, SessionTears, ProposeTears, GateTears, RebaseTears,
             ApplyTears, AbortTears, GcTears, RmTears, ShareTears, OtherTears DEF Advance
<1>4. ASSUME NEW p \in Procs, NEW v \in Verbs, Enter(p, v) PROVE Tears'
  BY <1>4, EnterTears
<1>5. ASSUME NEW p \in Procs, Exec(p) \/ StopWatching(p) \/ EndShare(p) \/ Crash(p)
      PROVE  Tears'
  BY <1>5, OtherTears
<1>6. Next => Tears'
  BY <1>3, <1>4, <1>5 DEF Next
<1> QED BY <1>1, <1>2, <1>6 DEF TearInv

(* Init gives all processes nothing and the box whole or absent. *)
LEMMA InitLocks == Init => LockInv
  BY InitTypes DEF Init, LockInv, Locks, NoCreate, WritersHold, OneHolder, CreateLabels,
                   WriterLabels

LEMMA InitTears == Init => TearInv
<1> SUFFICES ASSUME Init PROVE TearInv
  OBVIOUS
<1>1. ManifestOutlivesBox
  BY DEF Init, ManifestOutlivesBox, NoManifest
<1>2. Apart /\ \A p \in Procs : Duty(p) /\ Ready(pc[p], p)
  BY DEF Init, Apart, Duty, Ready, Inside, WriterLabels, Drained, GcLabels, RmLabels
<1> QED BY <1>1, <1>2, InitLocks DEF TearInv, Tears

(* As long as any part of a box is left, its manifest is on disk: whatever    *)
(* commands run beside each other and wherever rm dies, the next rm finds the *)
(* box (ManifestOutlivesBox).                                                 *)
THEOREM RmCanBeRepeated ==
  ASSUME "create" \notin Verbs
  PROVE  Spec => []ManifestOutlivesBox
<1>1. TearInv => ManifestOutlivesBox
  BY DEF TearInv, Tears
<1> QED BY <1>1, InitTears, NextTears, PTL DEF Spec

(* Who takes the worktree away: gc, rm, and nobody else. *)
LEMMA WorkChanges ==
  ASSUME TearInv, NEW p \in Procs, Advance(p), work' # work
  PROVE  GcPrune(p) \/ RmPrune(p) \/ RmErase(p)
<1>1. ~CreateSteps(p)
  BY CreateLocks DEF TearInv
<1>2. StartSteps(p) => FALSE
  BY DEF StartSteps, ReadRef, Compare, Materialize, Load, NotFound, Step, Leave, treeVars
<1>3. SessionSteps(p) => FALSE
  BY DEF SessionSteps, SessionCheck, SessionLock, PrepareFails, StartRunning, MirrorRunning,
         Record, NothingToRecord, RecordFails, GoIdle, SaveStatus, TryLock, Step, Leave, treeVars
<1>4. ProposeSteps(p) => FALSE
  BY DEF ProposeSteps, ProposeLock, Snapshot, SnapshotRefused, Propose, SaveStatus, TryLock,
         Leave, treeVars
<1>5. GateSteps(p) => FALSE
  BY DEF GateSteps, GateOpen, GateTake, GateTimeout, Leave, treeVars
<1>6. RebaseSteps(p) => FALSE
  BY DEF RebaseSteps, RebaseGate, RebaseLock, RebaseDrift, RebaseNothing, RebaseConflict,
         RebaseCommit, RebaseSave, RefuseIfShared, SaveStatus, TryLock, Step, Leave, treeVars
<1>7. ApplySteps(p) => FALSE
  BY DEF ApplySteps, ApplyGate, ApplyLock, ApplyRefused, ApplyLand, ApplySave,
         RefuseIfShared, SaveStatus, TryLock, Step, Leave, treeVars
<1>8. AbortSteps(p) => FALSE
  BY DEF AbortSteps, AbortGate, AbortLock, Abort, RefuseIfShared, SaveStatus, TryLock, Step,
         Leave, treeVars
<1>9. GcSteps(p) => GcPrune(p)
  BY DEF GcSteps, GcList, GcWork, GcLock, GcDrain, GcShare, GcSave, RefuseIfShared, TryLock,
         Step, Leave, treeVars
<1>10. RmSteps(p) => RmPrune(p) \/ RmErase(p)
  BY DEF RmSteps, RmGate, RmLock, RmDrain, RmBranch, RmStrip, TryLock, Step, Leave, treeVars
<1>11. ShareSteps(p) => FALSE
  BY DEF ShareSteps, ShareCheck, Claim, Step, Leave, treeVars
<1>12. Mirror(p) => FALSE
  BY DEF Mirror, treeVars
<1> QED BY <1>1, <1>2, <1>3, <1>4, <1>5, <1>6, <1>7, <1>8, <1>9, <1>10, <1>11, <1>12 DEF Advance

(* gc and rm reclaim a worktree only when no command has it mounted: they     *)
(* took run.lock from the writers and drained the readers, of the directory   *)
(* that is there now (NoPruneUnderSession).                                   *)
THEOREM NeverPrunedUnderSession ==
  ASSUME "create" \notin Verbs
  PROVE  Spec => NoPruneUnderSession
<1>1. ASSUME TearInv, [Next]_vars, work # 0, work' # work, NEW q \in Procs, InWorktree(q)
      PROVE  FALSE
  <2>1. PICK p \in Procs : Advance(p)
    <3>1. UNCHANGED vars => work' = work
      BY DEF vars
    <3>2. \A p \in Procs : (\E v \in Verbs : Enter(p, v)) => work' = work
      BY DEF Enter, treeVars
    <3>3. \A p \in Procs : Exec(p) \/ StopWatching(p) \/ EndShare(p) \/ Crash(p) => work' = work
      BY DEF Exec, StopWatching, EndShare, Crash, Leave, treeVars
    <3> QED BY <1>1, <3>1, <3>2, <3>3 DEF Next
  <2>2. GcPrune(p) \/ RmPrune(p) \/ RmErase(p)
    BY <1>1, <2>1, WorkChanges
  <2>3. pc[p] \in {"gcPrune", "rmPrune"}
    BY <1>1, <2>2 DEF GcPrune, RmPrune, RmErase, TearInv, Tears, Ready
  <2>4. /\ pc[p] \in Inside /\ verb[p] \in {"gc", "rm", "rmForce"}
        /\ <<"drain", dir>> \in holds[p] /\ dir \in Nat
    BY <1>1, <2>3, ProcTypes
       DEF TearInv, Tears, Duty, Inside, WriterLabels, Drained, GcLabels, RmLabels
  <2>5. pc[q] # "watching"
    BY <1>1, <2>4 DEF TearInv, Tears, Duty, Apart
  <2>6. pc[q] \in Inside /\ verb[q] \in {"run", "shell"}
    BY <1>1, <2>5 DEF InWorktree, Inside
  <2> QED BY <1>1, <2>4, <2>6, OneInside
<1>2. TearInv /\ [Next]_vars => [work # 0 /\ work' # work => \A p \in Procs : ~InWorktree(p)]_vars
  BY <1>1
<1> QED BY <1>2, InitTears, NextTears, PTL DEF Spec, NoPruneUnderSession

-----------------------------------------------------------------------------
(* The share gate. Whoever means to rebase, apply or abort holds the gate   *)
(* of the directory it was opened in, and saw no live share under it; if    *)
(* that directory is gone by now, then so is the branch.                    *)

Frozen(l, v) == \/ l \in {"rebaseLock", "drift", "replay", "saveRebased", "applyLock",
                          "land", "saveApplied", "abortLock", "saveAborted"}
                \/ l = "snapshot" /\ v # "propose"
Gated(l, v) == l = "gateHeld" \/ Frozen(l, v)

GateDuty(p) ==
    /\ pc[p] = "gateWait" \/ Gated(pc[p], verb[p]) => gate[p] # 0
    /\ Gated(pc[p], verb[p]) => <<"gate", gate[p]>> \in holds[p]
    /\ gate[p] # 0 /\ gate[p] # dir => branch = 0
    /\ Frozen(pc[p], verb[p]) /\ branch # 0 => ~ShareLive
    /\ pc[p] = "proposeLock" => verb[p] = "propose"
    /\ m[p].at <= clock

OneGate == \A p, q \in Procs, g \in Nat :
    p # q => ~(<<"gate", g>> \in holds[p] /\ <<"gate", g>> \in holds[q])

(* No manifest is from the future; the pid in share.json is of a process.   *)
Past == /\ disk.at <= clock /\ ref.at <= clock
        /\ share = NoShare \/ share.pid \in Procs

Guards == OneGate /\ Past /\ \A p \in Procs : GateDuty(p)
GuardInv == TearInv /\ Guards

(* What a step of p may do to the box short of claiming a share of it.      *)
Calm(p) ==
    /\ clock' \in {clock, clock + 1}
    /\ branch' = branch \/ branch # 0
    /\ dir' = dir \/ dir = 0 \/ branch = 0
    /\ share' = share \/ share' = NoShare
    /\ disk' = disk \/ disk'.at <= clock'
    /\ ref' = ref \/ ref'.at <= clock'
    /\ \A q \in Procs \ {p} : m'[q] = m[q]
    /\ m'[p] = m[p] \/ m'[p].at <= clock'

(* The processes besides p stay where they are; p takes no gate.            *)
OnlyMoves(p, l) ==
    /\ pc' = [pc EXCEPT ![p] = l]
    /\ \A q \in Procs \ {p} : /\ verb'[q] = verb[q] /\ gate'[q] = gate[q]
                              /\ holds'[q] = holds[q]
    /\ \A g \in Nat : <<"gate", g>> \in holds'[p] => <<"gate", g>> \in holds[p]

LEMMA GuardTypes ==
  ASSUME GuardInv
  PROVE  /\ pc \in [Procs -> Labels]
         /\ verb \in [Procs -> AllVerbs \cup {"none"}]
         /\ m \in [Procs -> Manifest]
         /\ gate \in [Procs -> Nat]
         /\ holds \in [Procs -> SUBSET (LockKind \X Nat)]
         /\ dir \in Nat /\ branch \in Nat /\ clock \in Nat
         /\ disk \in Manifest /\ ref \in Manifest /\ share \in ShareRecord
         /\ disk.at \in Nat /\ ref.at \in Nat /\ \A p \in Procs : m[p].at \in Nat
<1>1. /\ pc \in [Procs -> Labels]
      /\ verb \in [Procs -> AllVerbs \cup {"none"}]
      /\ m \in [Procs -> Manifest]
      /\ gate \in [Procs -> Nat]
      /\ holds \in [Procs -> SUBSET (LockKind \X Nat)]
      /\ dir \in Nat /\ branch \in Nat /\ clock \in Nat
      /\ disk \in Manifest /\ ref \in Manifest /\ share \in ShareRecord
  BY DEF GuardInv, TearInv, LockInv, TypeInv, ProcOK, BoxOK
<1>2. \A x \in Manifest : x.at \in Nat
  BY DEF Manifest
<1> QED BY <1>1, <1>2

(* No share goes live but by a claim. *)
LEMMA CalmShare ==
  ASSUME GuardInv, NEW p \in Procs, NEW l, l # "sharing", OnlyMoves(p, l),
         share' = share \/ share' = NoShare
  PROVE  ShareLive' => ShareLive
<1>1. CASE share' = NoShare
  BY <1>1 DEF ShareLive
<1>2. CASE share' = share /\ share # NoShare
  <2>1. share.pid \in Procs
    BY <1>2 DEF GuardInv, Guards, Past
  <2>2. pc'[share.pid] = IF share.pid = p THEN l ELSE pc[share.pid]
    BY <2>1, GuardTypes DEF OnlyMoves
  <2> QED BY <1>2, <2>2 DEF ShareLive
<1> QED BY <1>1, <1>2

(* The others keep what they have: no share goes live, and if their gate's  *)
(* directory goes, the branch went before it.                               *)
LEMMA OthersGuarded ==
  ASSUME GuardInv, NEW p \in Procs, NEW q \in Procs \ {p}, NEW l, OnlyMoves(p, l), Calm(p),
         Frozen(pc[q], verb[q]) /\ branch # 0 /\ ShareLive' => ShareLive
  PROVE  GateDuty(q)'
<1>1. GateDuty(q)
  BY DEF GuardInv, Guards
<1>2. /\ pc'[q] = pc[q] /\ verb'[q] = verb[q] /\ gate'[q] = gate[q]
      /\ holds'[q] = holds[q] /\ m'[q] = m[q]
  BY GuardTypes DEF OnlyMoves, Calm
<1>3. branch' # 0 => branch # 0
  BY DEF Calm
<1>4. (gate[q] # 0 /\ gate[q] # dir => branch = 0)'
  BY <1>1, <1>2, <1>3 DEF GateDuty, Calm
<1>5. (Frozen(pc[q], verb[q]) /\ branch # 0 => ~ShareLive)'
  BY <1>1, <1>2, <1>3 DEF GateDuty, Frozen
<1>6. (m[q].at <= clock)'
  BY <1>1, <1>2, GuardTypes DEF GateDuty, Calm
<1> QED BY <1>1, <1>2, <1>4, <1>5, <1>6 DEF GateDuty, Gated, Frozen

LEMMA CalmPast ==
  ASSUME GuardInv, NEW p \in Procs, Calm(p)
  PROVE  Past'
  BY GuardTypes DEF GuardInv, Guards, Past, Calm

LEMMA OnlyMovesGates ==
  ASSUME GuardInv, NEW p \in Procs, NEW l, OnlyMoves(p, l)
  PROVE  OneGate'
  BY DEF GuardInv, Guards, OneGate, OnlyMoves

(* A step that takes no gate and claims no share keeps the invariant, if it *)
(* is frozen afterwards only when it was, or when it held the gate and saw  *)
(* no share.                                                                *)
LEMMA MoveGuards ==
  ASSUME GuardInv, NEW p \in Procs, NEW l \in Labels, OnlyMoves(p, l), Calm(p),
         holds[p] \subseteq holds'[p], verb'[p] = verb[p], gate'[p] = gate[p],
         l \notin {"gateWait", "gateHeld", "sharing"},
         l = "proposeLock" => verb[p] = "propose",
         Frozen(l, verb[p]) =>
            Frozen(pc[p], verb[p]) \/ (pc[p] = "gateHeld" /\ ~ShareLive)
  PROVE  Guards'
<1>1. ShareLive' => ShareLive
  BY CalmShare DEF Calm
<1>2. ASSUME NEW q \in Procs \ {p} PROVE GateDuty(q)'
  BY <1>1, OthersGuarded
<1>3. GateDuty(p)'
  <2>1. GateDuty(p) /\ pc'[p] = l
    BY GuardTypes DEF GuardInv, Guards, OnlyMoves
  <2>2. (gate[p] # 0 /\ gate[p] # dir => branch = 0)'
    BY <2>1 DEF GateDuty, Calm
  <2>3. (Frozen(pc[p], verb[p]) /\ branch # 0 => ~ShareLive)'
    BY <1>1, <2>1 DEF GateDuty, Calm, Frozen
  <2>4. (m[p].at <= clock)'
    BY <2>1, GuardTypes DEF GateDuty, Calm
  <2>5. (Gated(pc[p], verb[p]) => <<"gate", gate[p]>> \in holds[p] /\ gate[p] # 0)'
    BY <2>1 DEF GateDuty, Gated, Frozen
  <2> QED BY <2>1, <2>2, <2>3, <2>4, <2>5 DEF GateDuty
<1> QED BY <1>2, <1>3, CalmPast, OnlyMovesGates DEF Guards

LEMMA GoneGuards ==
  ASSUME GuardInv, NEW p \in Procs, Gone(p), clock' \in {clock, clock + 1},
         branch' = branch \/ branch # 0, dir' = dir \/ dir = 0 \/ branch = 0,
         share' = share \/ share' = NoShare, disk' = disk \/ disk'.at <= clock',
         ref' = ref \/ ref'.at <= clock'
  PROVE  Guards'
<1>1. OnlyMoves(p, "idle")
  BY GuardTypes DEF Gone, OnlyMoves
<1>2. /\ pc'[p] = "idle" /\ gate'[p] = 0 /\ m'[p] = NoManifest
      /\ \A q \in Procs \ {p} : m'[q] = m[q]
  BY GuardTypes DEF Gone
<1>3. m'[p].at = 0 /\ clock' \in Nat
  BY <1>2, GuardTypes DEF NoManifest
<1>4. Calm(p)
  BY <1>2, <1>3 DEF Calm
<1>5. ShareLive' => ShareLive
  BY <1>1, CalmShare
<1>6. ASSUME NEW q \in Procs \ {p} PROVE GateDuty(q)'
  BY <1>1, <1>4, <1>5, OthersGuarded
<1>7. GateDuty(p)'
  BY <1>2, <1>3 DEF GateDuty, Gated, Frozen
<1> QED BY <1>1, <1>4, <1>6, <1>7, CalmPast, OnlyMovesGates DEF Guards

LEMMA LeaveGuards ==
  ASSUME GuardInv, NEW p \in Procs, Leave(p)
  PROVE  Guards'
  BY GoneGuards DEF Leave, repoVars, treeVars, dirVars

LEMMA StepGuards ==
  ASSUME GuardInv, NEW p \in Procs, NEW l \in Labels, Step(p, l),
         l \notin {"gateWait", "gateHeld", "sharing", "proposeLock"},
         Frozen(l, verb[p]) =>
            Frozen(pc[p], verb[p]) \/ (pc[p] = "gateHeld" /\ ~ShareLive)
  PROVE  Guards'
<1>1. OnlyMoves(p, l) /\ Calm(p)
  BY DEF Step, Goto, OnlyMoves, Calm, repoVars, dirVars
<1> QED BY <1>1, MoveGuards DEF Step

LEMMA SaveGuards ==
  ASSUME GuardInv, NEW p \in Procs, NEW s \in Status, NEW l \in {"mirrorRunning", "mirror"},
         SaveStatus(p, s, l)
  PROVE  Guards'
<1>1. /\ m' = [m EXCEPT ![p] = disk'] /\ disk' = [m[p] EXCEPT !.status = s, !.at = clock + 1]
      /\ clock' = clock + 1 /\ Goto(p, l)
      /\ UNCHANGED <<share, branch, ref, verb, gate, holds>>
      /\ dir' = dir \/ dir = 0
  BY DEF SaveStatus, Mkdir
<1>2. disk'.at = clock' /\ clock' \in Nat
  BY <1>1, GuardTypes DEF Manifest
<1>3. m'[p] = disk' /\ \A q \in Procs \ {p} : m'[q] = m[q]
  BY <1>1, GuardTypes
<1>4. disk'.at <= clock'
  BY <1>2
<1>5. Calm(p) /\ OnlyMoves(p, l)
  BY <1>1, <1>3, <1>4 DEF Calm, OnlyMoves, Goto
<1>6. l \in Labels /\ ~Frozen(l, verb[p])
  BY DEF Frozen, Labels
<1> QED BY <1>1, <1>5, <1>6, MoveGuards

LEMMA FlockGuards ==
  ASSUME GuardInv, NEW p \in Procs, NEW kind \in {"run", "watch", "drain"}, NEW ok \in BOOLEAN,
         NEW l \in Labels, TryLock(p, kind, ok, l),
         l \notin {"gateWait", "gateHeld", "sharing", "proposeLock"},
         Frozen(l, verb[p]) => Frozen(pc[p], verb[p])
  PROVE  Guards'
<1>1. CASE Leave(p)
  BY <1>1, LeaveGuards
<1>2. CASE ~Leave(p)
  <2>1. /\ holds' = [holds EXCEPT ![p] = @ \cup {<<kind, dir>>}]
        /\ Goto(p, l)
        /\ UNCHANGED <<verb, m, gate, dir, disk, share, branch, ref, clock>>
    BY <1>2 DEF TryLock, repoVars, treeVars, dirVars
  <2>2. /\ \A q \in Procs \ {p} : holds'[q] = holds[q]
        /\ holds'[p] = holds[p] \cup {<<kind, dir>>}
    BY <2>1, GuardTypes
  <2>3. OnlyMoves(p, l) /\ Calm(p)
    BY <2>1, <2>2 DEF OnlyMoves, Calm, Goto
  <2> QED BY <2>1, <2>2, <2>3, MoveGuards
<1> QED BY <1>1, <1>2

LEMMA StartGuards ==
  ASSUME GuardInv, NEW p \in Procs, StartSteps(p)
  PROVE  Guards'
<1>1. disk.at <= clock /\ ref.at <= clock /\ m[p].at <= clock
  BY DEF GuardInv, Guards, Past, GateDuty
<1>2. CASE ReadRef(p)
  <2>1. m'[p] = ref /\ \A q \in Procs \ {p} : m'[q] = m[q]
    BY <1>2, GuardTypes DEF ReadRef
  <2>2. Calm(p) /\ OnlyMoves(p, "materialize")
    BY <1>1, <1>2, <2>1 DEF ReadRef, Calm, OnlyMoves, Goto, repoVars, dirVars
  <2> QED BY <1>2, <2>2, MoveGuards DEF ReadRef, Frozen, Labels
<1>3. CASE Compare(p) \/ Materialize(p)
  <2>1. verb[p] \in AllVerbs \ {"create"}
    BY <1>3 DEF Compare, Materialize, GuardInv, TearInv, LockInv, Locks, NoCreate, TypeInv,
                ProcOK, VerbOK
  <2>2. FirstStep(verb[p]) \in {"gcList", "load"}
    BY <2>1 DEF FirstStep
  <2>3. PICK l \in {"import", "gcList", "load"} : Goto(p, l)
    BY <1>3, <2>2 DEF Compare, Materialize
  <2>4. /\ m'[p] \in {m[p], NoManifest} /\ \A q \in Procs \ {p} : m'[q] = m[q]
        /\ NoManifest.at = 0
    BY <1>3, GuardTypes DEF Compare, Materialize, NoManifest
  <2>5. clock' \in {clock, clock + 1} /\ clock' \in Nat
    BY <1>3, GuardTypes DEF Compare, Materialize
  <2>6. (m'[p] = m[p] \/ m'[p].at <= clock') /\ (disk' = disk \/ disk'.at <= clock')
    BY <1>1, <1>3, <2>4, <2>5, GuardTypes DEF Compare, Materialize, dirVars
  <2>7. Calm(p)
    BY <1>3, <2>4, <2>5, <2>6 DEF Compare, Materialize, Mkdir, Calm, repoVars, dirVars
  <2>8. UNCHANGED <<verb, gate, holds>>
    BY <1>3 DEF Compare, Materialize
  <2>9. OnlyMoves(p, l)
    BY <2>3, <2>8 DEF OnlyMoves, Goto
  <2> QED BY <2>7, <2>8, <2>9, MoveGuards DEF Frozen, Labels
<1>4. CASE Load(p)
  <2>1. verb[p] \in LoadVerbs
    BY <1>4 DEF Load, GuardInv, TearInv, LockInv, TypeInv, ProcOK, VerbOK
  <2>2. PICK l \in {"sessionCheck", "proposeLock", "gateOpen", "shareCheck"} :
          l = AfterLoad[verb[p]] /\ (l = "proposeLock" => verb[p] = "propose")
    BY <2>1 DEF AfterLoad, LoadVerbs, AllVerbs
  <2>3. m'[p] = disk /\ \A q \in Procs \ {p} : m'[q] = m[q]
    BY <1>4, GuardTypes DEF Load
  <2>4. Calm(p) /\ OnlyMoves(p, l)
    BY <1>1, <1>4, <2>2, <2>3 DEF Load, Calm, OnlyMoves, Goto, repoVars, dirVars
  <2> QED BY <1>4, <2>2, <2>4, MoveGuards DEF Load, Frozen, Labels
<1>5. CASE NotFound(p)
  BY <1>5, StepGuards, LeaveGuards DEF NotFound, Frozen, Labels
<1> QED BY <1>2, <1>3, <1>4, <1>5 DEF StartSteps

LEMMA SessionGuards ==
  ASSUME GuardInv, NEW p \in Procs, SessionSteps(p)
  PROVE  Guards'
<1>1. disk.at <= clock /\ ref.at <= clock /\ m[p].at <= clock
  BY DEF GuardInv, Guards, Past, GateDuty
<1>2. CASE SessionCheck(p)
  BY <1>2, StepGuards, LeaveGuards DEF SessionCheck, Frozen, Labels
<1>3. CASE SessionLock(p)
  <2>1. TryLock(p, "watch", TRUE, "watching") \/ TryLock(p, "run", TRUE, "prepare")
    BY <1>3 DEF SessionLock
  <2> QED BY <2>1, FlockGuards DEF Frozen, Labels
<1>4. CASE PrepareFails(p)
  BY <1>4, LeaveGuards DEF PrepareFails
<1>5. CASE StartRunning(p)
  BY <1>5, SaveGuards DEF StartRunning, Status
<1>6. CASE MirrorRunning(p)
  <2>1. Calm(p) /\ OnlyMoves(p, "exec")
    BY <1>1, <1>6 DEF MirrorRunning, Calm, OnlyMoves, Goto, dirVars
  <2> QED BY <1>6, <2>1, MoveGuards DEF MirrorRunning, Frozen, Labels
<1>7. CASE Record(p)
  <2>1. m'[p] = [m[p] EXCEPT !.captures = @ \cup {clock + 1}]
        /\ \A q \in Procs \ {p} : m'[q] = m[q]
    BY <1>7, GuardTypes DEF Record
  <2>2. m'[p].at = m[p].at
    BY <2>1, GuardTypes DEF Manifest
  <2>3. m'[p].at <= clock'
    BY <1>1, <1>7, <2>2, GuardTypes DEF Record
  <2>4. Calm(p) /\ OnlyMoves(p, "saveIdle")
    BY <1>7, <2>1, <2>3 DEF Record, Calm, OnlyMoves, Goto, repoVars
  <2> QED BY <1>7, <2>4, MoveGuards DEF Record, Frozen, Labels
<1>8. CASE NothingToRecord(p)
  BY <1>8, StepGuards DEF NothingToRecord, Frozen, Labels
<1>9. CASE RecordFails(p)
  BY <1>9, LeaveGuards DEF RecordFails
<1>10. CASE GoIdle(p)
  BY <1>10, SaveGuards DEF GoIdle, Status
<1> QED BY <1>2, <1>3, <1>4, <1>5, <1>6, <1>7, <1>8, <1>9, <1>10 DEF SessionSteps

LEMMA ProposeGuards ==
  ASSUME GuardInv, NEW p \in Procs, ProposeSteps(p)
  PROVE  Guards'
<1>1. CASE ProposeLock(p)
  <2>1. TryLock(p, "run", TRUE, "snapshot") \/ Leave(p)
    BY <1>1 DEF ProposeLock, TryLock
  <2>2. verb[p] = "propose"
    BY <1>1 DEF ProposeLock, GuardInv, Guards, GateDuty
  <2> QED BY <2>1, <2>2, FlockGuards, LeaveGuards DEF Frozen, Labels
<1>2. CASE Snapshot(p)
  <2>1. PICK l \in {"saveProposed", "replay"} :
          Goto(p, l) /\ (l = "replay" => verb[p] # "propose")
    BY <1>2 DEF Snapshot
  <2>2. Calm(p) /\ OnlyMoves(p, l)
    BY <1>2, <2>1 DEF Snapshot, Calm, OnlyMoves, Goto, dirVars
  <2> QED BY <1>2, <2>1, <2>2, MoveGuards DEF Snapshot, Frozen, Labels
<1>3. CASE SnapshotRefused(p)
  BY <1>3, LeaveGuards DEF SnapshotRefused
<1>4. CASE Propose(p)
  BY <1>4, SaveGuards DEF Propose, Status
<1> QED BY <1>1, <1>2, <1>3, <1>4 DEF ProposeSteps

(* A gate that is opened is of the directory there is, and one that is      *)
(* taken was free.                                                          *)
LEMMA GateGuards ==
  ASSUME GuardInv, NEW p \in Procs, GateSteps(p)
  PROVE  Guards'
<1>1. GateDuty(p)
  BY DEF GuardInv, Guards
<1>2. CASE GateOpen(p)
  <2>1. /\ gate'[p] = dir' /\ \A q \in Procs \ {p} : gate'[q] = gate[q]
        /\ pc'[p] = "gateWait" /\ dir' # 0 /\ clock' \in Nat
    BY <1>2, GuardTypes DEF GateOpen, Goto, Mkdir
  <2>2. Calm(p) /\ OnlyMoves(p, "gateWait")
    BY <1>2, <2>1 DEF GateOpen, Mkdir, Goto, Calm, OnlyMoves, repoVars
  <2>3. ShareLive' => ShareLive
    BY <2>2, CalmShare DEF Calm
  <2>4. ASSUME NEW q \in Procs \ {p} PROVE GateDuty(q)'
    BY <2>2, <2>3, OthersGuarded
  <2>5. (m[p].at <= clock)'
    BY <1>1, <1>2, GuardTypes DEF GateOpen, GateDuty
  <2>6. GateDuty(p)'
    BY <2>1, <2>5 DEF GateDuty, Gated, Frozen
  <2> QED BY <2>2, <2>4, <2>6, CalmPast, OnlyMovesGates DEF Guards
<1>3. CASE GateTake(p)
  <2>1. /\ \A q \in Procs \ {p} : pc'[q] = pc[q] /\ holds'[q] = holds[q]
        /\ pc'[p] = "gateHeld"
        /\ holds'[p] = holds[p] \cup {<<"gate", gate[p]>>}
        /\ \A q \in Procs : <<"gate", gate[p]>> \notin holds[q]
        /\ UNCHANGED <<verb, m, gate, dir, disk, share, branch, ref, clock>>
    BY <1>3, GuardTypes DEF GateTake, GateFree, Goto, repoVars, dirVars
  <2>2. OneGate'
    <3> SUFFICES ASSUME NEW q \in Procs, NEW r \in Procs, q # r, NEW g \in Nat,
                        <<"gate", g>> \in holds'[q], <<"gate", g>> \in holds'[r]
                 PROVE  FALSE
      BY DEF OneGate
    <3>1. <<"gate", g>> \in holds[q] \/ (q = p /\ g = gate[p])
      BY <2>1
    <3>2. <<"gate", g>> \in holds[r] \/ (r = p /\ g = gate[p])
      BY <2>1
    <3> QED BY <2>1, <3>1, <3>2 DEF GuardInv, Guards, OneGate
  <2>3. Past'
    BY <2>1 DEF GuardInv, Guards, Past
  <2>4. ShareLive' => ShareLive
    <3>1. share # NoShare => share.pid \in Procs
      BY DEF GuardInv, Guards, Past
    <3> QED BY <2>1, <3>1 DEF ShareLive
  <2>5. ASSUME NEW q \in Procs \ {p} PROVE GateDuty(q)'
    <3>1. GateDuty(q)
      BY DEF GuardInv, Guards
    <3> QED BY <2>1, <2>4, <3>1 DEF GateDuty, Gated, Frozen
  <2>6. GateDuty(p)'
    BY <1>1, <1>3, <2>1 DEF GateTake, GateDuty, Gated, Frozen
  <2> QED BY <2>2, <2>3, <2>5, <2>6 DEF Guards
<1>4. CASE GateTimeout(p)
  BY <1>4, LeaveGuards DEF GateTimeout
<1> QED BY <1>2, <1>3, <1>4 DEF GateSteps

LEMMA RebaseGuards ==
  ASSUME GuardInv, NEW p \in Procs, RebaseSteps(p)
  PROVE  Guards'
<1>1. CASE RebaseGate(p)
  BY <1>1, StepGuards, LeaveGuards DEF RebaseGate, RefuseIfShared, Labels
<1>2. CASE RebaseLock(p)
  <2>1. TryLock(p, "run", TRUE, "drift") \/ Leave(p)
    BY <1>2 DEF RebaseLock, TryLock
  <2>2. "drift" \in Labels /\ Frozen(pc[p], verb[p])
    BY <1>2 DEF RebaseLock, Frozen, Labels
  <2> QED BY <2>1, <2>2, FlockGuards, LeaveGuards
<1>3. CASE RebaseDrift(p)
  BY <1>3, StepGuards DEF RebaseDrift, Frozen, Labels
<1>4. CASE RebaseNothing(p)
  BY <1>4, LeaveGuards DEF RebaseNothing
<1>5. CASE RebaseConflict(p)
  BY <1>5, LeaveGuards DEF RebaseConflict
<1>6. CASE RebaseCommit(p)
  <2>1. branch # 0
    BY <1>6 DEF RebaseCommit, GuardInv, TearInv, Tears, Ready
  <2>2. Calm(p) /\ OnlyMoves(p, "saveRebased")
    BY <1>6, <2>1 DEF RebaseCommit, Calm, OnlyMoves, Goto, dirVars
  <2> QED BY <1>6, <2>2, MoveGuards DEF RebaseCommit, Frozen, Labels
<1>7. CASE RebaseSave(p)
  BY <1>7, SaveGuards DEF RebaseSave, Status
<1> QED BY <1>1, <1>2, <1>3, <1>4, <1>5, <1>6, <1>7 DEF RebaseSteps

LEMMA ApplyGuards ==
  ASSUME GuardInv, NEW p \in Procs, ApplySteps(p)
  PROVE  Guards'
<1>1. CASE ApplyGate(p)
  BY <1>1, StepGuards, LeaveGuards DEF ApplyGate, RefuseIfShared, Labels
<1>2. CASE ApplyLock(p)
  <2>1. TryLock(p, "run", TRUE, "land") \/ Leave(p)
    BY <1>2 DEF ApplyLock, TryLock
  <2>2. "land" \in Labels /\ Frozen(pc[p], verb[p])
    BY <1>2 DEF ApplyLock, Frozen, Labels
  <2> QED BY <2>1, <2>2, FlockGuards, LeaveGuards
<1>3. CASE ApplyRefused(p)
  BY <1>3, LeaveGuards DEF ApplyRefused
<1>4. CASE ApplyLand(p)
  <2>1. Calm(p) /\ OnlyMoves(p, "saveApplied")
    BY <1>4 DEF ApplyLand, Calm, OnlyMoves, Goto, dirVars
  <2> QED BY <1>4, <2>1, MoveGuards DEF ApplyLand, Frozen, Labels
<1>5. CASE ApplySave(p)
  BY <1>5, SaveGuards DEF ApplySave, Status
<1> QED BY <1>1, <1>2, <1>3, <1>4, <1>5 DEF ApplySteps

LEMMA AbortGuards ==
  ASSUME GuardInv, NEW p \in Procs, AbortSteps(p)
  PROVE  Guards'
<1>1. CASE AbortGate(p)
  BY <1>1, StepGuards, LeaveGuards DEF AbortGate, RefuseIfShared, Labels
<1>2. CASE AbortLock(p)
  <2>1. TryLock(p, "run", TRUE, "saveAborted") \/ Leave(p)
    BY <1>2 DEF AbortLock, TryLock
  <2>2. "saveAborted" \in Labels /\ Frozen(pc[p], verb[p])
    BY <1>2 DEF AbortLock, Frozen, Labels
  <2> QED BY <2>1, <2>2, FlockGuards, LeaveGuards
<1>3. CASE Abort(p)
  BY <1>3, SaveGuards DEF Abort, Status
<1> QED BY <1>1, <1>2, <1>3 DEF AbortSteps

LEMMA GcGuards ==
  ASSUME GuardInv, NEW p \in Procs, GcSteps(p)
  PROVE  Guards'
<1>1. disk.at <= clock /\ m[p].at <= clock
  BY DEF GuardInv, Guards, Past, GateDuty
<1>2. CASE GcList(p)
  <2>1. CASE Leave(p)
    BY <2>1, LeaveGuards
  <2>2. CASE ~Leave(p)
    <3>1. /\ m' = [m EXCEPT ![p] = disk] /\ Goto(p, "gcWork")
          /\ UNCHANGED <<verb, gate, holds, repoVars, treeVars, dirVars, clock, bounds>>
      BY <1>2, <2>2 DEF GcList
    <3>2. m'[p] = disk /\ \A q \in Procs \ {p} : m'[q] = m[q]
      BY <3>1, GuardTypes
    <3>3. Calm(p) /\ OnlyMoves(p, "gcWork")
      BY <1>1, <3>1, <3>2 DEF Calm, OnlyMoves, Goto, repoVars, dirVars
    <3> QED BY <3>1, <3>3, MoveGuards DEF Frozen, Labels
  <2> QED BY <2>1, <2>2
<1>3. CASE GcWork(p)
  BY <1>3, StepGuards, LeaveGuards DEF GcWork, Frozen, Labels
<1>4. CASE GcLock(p)
  <2>1. "gcDrain" \in Labels /\ ~Frozen("gcDrain", verb[p])
    BY DEF Frozen, Labels
  <2> QED BY <1>4, <2>1, FlockGuards DEF GcLock
<1>5. CASE GcDrain(p)
  <2>1. "gcShare" \in Labels /\ ~Frozen("gcShare", verb[p])
    BY DEF Frozen, Labels
  <2> QED BY <1>5, <2>1, FlockGuards DEF GcDrain
<1>6. CASE GcShare(p)
  BY <1>6, StepGuards, LeaveGuards DEF GcShare, RefuseIfShared, Frozen, Labels
<1>7. CASE GcPrune(p)
  <2>1. Calm(p) /\ OnlyMoves(p, "gcSave")
    BY <1>7 DEF GcPrune, PruneWorkspace, Calm, OnlyMoves, Goto, repoVars, dirVars
  <2> QED BY <1>7, <2>1, MoveGuards DEF GcPrune, PruneWorkspace, Frozen, Labels
<1>8. CASE GcSave(p)
  <2>1. disk'.at <= clock' /\ clock' \in {clock, clock + 1}
    BY <1>1, <1>8, GuardTypes DEF GcSave
  <2> QED BY <1>8, <2>1, GoneGuards DEF GcSave, Mkdir, repoVars
<1> QED BY <1>2, <1>3, <1>4, <1>5, <1>6, <1>7, <1>8 DEF GcSteps

LEMMA RmGuards ==
  ASSUME GuardInv, NEW p \in Procs, RmSteps(p)
  PROVE  Guards'
<1>1. CASE RmGate(p)
  BY <1>1, StepGuards, LeaveGuards DEF RmGate, Frozen, Labels
<1>2. CASE RmLock(p)
  <2>1. "rmDrain" \in Labels /\ ~Frozen("rmDrain", verb[p])
    BY DEF Frozen, Labels
  <2> QED BY <1>2, <2>1, FlockGuards DEF RmLock
<1>3. CASE RmDrain(p)
  <2>1. "rmPrune" \in Labels /\ ~Frozen("rmPrune", verb[p])
    BY DEF Frozen, Labels
  <2> QED BY <1>3, <2>1, FlockGuards DEF RmDrain
<1>4. CASE RmPrune(p)
  <2>1. Calm(p) /\ OnlyMoves(p, "rmBranch")
    BY <1>4 DEF RmPrune, PruneWorkspace, Calm, OnlyMoves, Goto, repoVars, dirVars
  <2> QED BY <1>4, <2>1, MoveGuards DEF RmPrune, PruneWorkspace, Frozen, Labels
<1>5. CASE RmBranch(p)
  <2>1. Calm(p) /\ OnlyMoves(p, "rmStrip")
    BY <1>5 DEF RmBranch, Calm, OnlyMoves, Goto, dirVars
  <2> QED BY <1>5, <2>1, MoveGuards DEF RmBranch, Frozen, Labels
<1>6. CASE RmStrip(p)
  <2>1. ref'.at <= clock'
    BY <1>6, GuardTypes DEF RmStrip, NoManifest
  <2>2. Calm(p) /\ OnlyMoves(p, "rmErase")
    BY <1>6, <2>1 DEF RmStrip, Calm, OnlyMoves, Goto, dirVars
  <2> QED BY <1>6, <2>2, MoveGuards DEF RmStrip, Frozen, Labels
<1>7. CASE RmErase(p)
  <2>1. branch = 0
    BY <1>7 DEF RmErase, GuardInv, TearInv, Tears, Ready
  <2>2. disk'.at <= clock' /\ clock' = clock
    BY <1>7, GuardTypes DEF RmErase, EraseDir, NoManifest
  <2> QED BY <1>7, <2>1, <2>2, GoneGuards DEF RmErase, EraseDir, repoVars
<1> QED BY <1>1, <1>2, <1>3, <1>4, <1>5, <1>6, <1>7 DEF RmSteps

(* A claim holds the gate of the directory it finds, so that nobody frozen  *)
(* holds one: the branch is there only with the directory.                  *)
LEMMA ClaimGuards ==
  ASSUME GuardInv, NEW p \in Procs, Claim(p)
  PROVE  Guards'
<1>1. CASE Leave(p)
  BY <1>1, LeaveGuards
<1>2. CASE ~Leave(p)
  <2>1. /\ pc[p] = "gateHeld" /\ dir # 0
        /\ share' = [pid |-> p, at |-> clock + 1]
        /\ clock' = clock + 1
        /\ holds' = [holds EXCEPT ![p] = {}]
        /\ Goto(p, "sharing")
        /\ UNCHANGED <<dir, disk, verb, m, gate, branch, ref>>
    BY <1>2 DEF Claim, repoVars
  <2>2. /\ \A q \in Procs \ {p} : pc'[q] = pc[q] /\ holds'[q] = holds[q]
        /\ pc'[p] = "sharing" /\ holds'[p] = {}
    BY <2>1, GuardTypes DEF Goto
  <2>3. OneGate'
    BY <2>2 DEF GuardInv, Guards, OneGate
  <2>4. Past'
    BY <2>1, GuardTypes DEF GuardInv, Guards, Past
  <2>5. ASSUME NEW q \in Procs, Frozen(pc[q], verb[q]), q # p PROVE branch = 0
    <3>1. GateDuty(p) /\ GateDuty(q)
      BY DEF GuardInv, Guards
    <3>2. /\ gate[p] # 0 /\ <<"gate", gate[p]>> \in holds[p]
          /\ gate[q] # 0 /\ <<"gate", gate[q]>> \in holds[q]
      BY <2>1, <2>5, <3>1 DEF GateDuty, Gated
    <3>3. gate[p] # gate[q]
      BY <2>5, <3>2, GuardTypes DEF GuardInv, Guards, OneGate
    <3> QED BY <3>1, <3>2, <3>3 DEF GateDuty
  <2>6. ASSUME NEW q \in Procs PROVE GateDuty(q)'
    <3>1. GateDuty(q)
      BY DEF GuardInv, Guards
    <3>2. (m[q].at <= clock)'
      BY <2>1, <3>1, GuardTypes DEF GateDuty
    <3>3. CASE q = p
      BY <2>1, <2>2, <3>1, <3>2, <3>3 DEF GateDuty, Gated, Frozen
    <3>4. CASE q # p
      BY <2>1, <2>2, <2>5, <3>1, <3>2, <3>4 DEF GateDuty, Gated, Frozen
    <3> QED BY <3>3, <3>4
  <2> QED BY <2>3, <2>4, <2>6 DEF Guards
<1> QED BY <1>1, <1>2

LEMMA OtherGuards ==
  ASSUME GuardInv, NEW p \in Procs,
         \/ Mirror(p) \/ Exec(p) \/ StopWatching(p) \/ EndShare(p) \/ Crash(p)
         \/ ShareCheck(p)
  PROVE  Guards'
<1>1. CASE Mirror(p)
  <2>1. m[p].at <= clock
    BY DEF GuardInv, Guards, GateDuty
  <2> QED BY <1>1, <2>1, GoneGuards DEF Mirror, dirVars
<1>2. CASE Exec(p)
  <2>1. Calm(p) /\ OnlyMoves(p, "record")
    BY <1>2 DEF Exec, Calm, OnlyMoves, Goto, dirVars
  <2> QED BY <1>2, <2>1, MoveGuards DEF Exec, Frozen, Labels
<1>3. CASE StopWatching(p)
  BY <1>3, LeaveGuards DEF StopWatching
<1>4. CASE EndShare(p)
  BY <1>4, GoneGuards DEF EndShare, repoVars
<1>5. CASE Crash(p)
  BY <1>5, GoneGuards DEF Crash, repoVars, dirVars
<1>6. CASE ShareCheck(p)
  BY <1>6, StepGuards, LeaveGuards DEF ShareCheck, Frozen, Labels
<1> QED BY <1>1, <1>2, <1>3, <1>4, <1>5, <1>6

LEMMA EnterGuards ==
  ASSUME GuardInv, NEW p \in Procs, NEW v \in Verbs, Enter(p, v)
  PROVE  Guards'
<1>1. PICK l \in {"find", "sync"} : pc' = [pc EXCEPT ![p] = l]
  BY DEF Enter, Goto
<1>2. /\ \A q \in Procs \ {p} : verb'[q] = verb[q]
      /\ pc'[p] = l
      /\ UNCHANGED <<dir, disk, share, branch, ref, clock, m, gate, holds>>
  BY <1>1, GuardTypes DEF Enter, repoVars, dirVars
<1>3. OnlyMoves(p, l) /\ Calm(p)
  BY <1>1, <1>2 DEF OnlyMoves, Calm
<1>4. ShareLive' => ShareLive
  BY <1>2, <1>3, CalmShare
<1>5. ASSUME NEW q \in Procs \ {p} PROVE GateDuty(q)'
  BY <1>3, <1>4, OthersGuarded
<1>6. GateDuty(p)'
  <2>1. GateDuty(p)
    BY DEF GuardInv, Guards
  <2> QED BY <1>2, <2>1 DEF GateDuty, Gated, Frozen
<1> QED BY <1>3, <1>5, <1>6, CalmPast, OnlyMovesGates DEF Guards

LEMMA NextGuards ==
  ASSUME "create" \notin Verbs, GuardInv, [Next]_vars
  PROVE  GuardInv'
<1>1. TearInv'
  BY NextTears DEF GuardInv
<1>2. UNCHANGED vars => Guards'
  BY DEF vars, GuardInv, Guards, OneGate, Past, GateDuty, Gated, Frozen, ShareLive
<1>3. ASSUME NEW p \in Procs, Advance(p) PROVE Guards'
  <2>1. ~CreateSteps(p)
    BY CreateLocks DEF GuardInv, TearInv
  <2> QED BY <1>3, <2>1, StartGuards, SessionGuards, ProposeGuards, GateGuards, RebaseGuards,
             ApplyGuards, AbortGuards, GcGuards, RmGuards, ClaimGuards, OtherGuards
          DEF Advance, ShareSteps
<1>4. ASSUME NEW p \in Procs, NEW v \in Verbs, Enter(p, v) PROVE Guards'
  BY <1>4, EnterGuards
<1>5. ASSUME NEW p \in Procs, Exec(p) \/ StopWatching(p) \/ EndShare(p) \/ Crash(p)
      PROVE  Guards'
  BY <1>5, OtherGuards
<1>6. Next => Guards'
  BY <1>3, <1>4, <1>5 DEF Next
<1> QED BY <1>1, <1>2, <1>6 DEF GuardInv

LEMMA InitGuards == Init => GuardInv
<1> SUFFICES ASSUME Init PROVE GuardInv
  OBVIOUS
<1>1. Past
  BY DEF Init, Past, NoManifest
<1>2. OneGate /\ \A p \in Procs : GateDuty(p)
  <2>1. clock \in Nat
    BY InitTypes DEF TypeInv, BoxOK
  <2> QED BY <2>1 DEF Init, OneGate, GateDuty, Gated, Frozen, NoManifest
<1> QED BY <1>1, <1>2, InitTears DEF GuardInv, Guards

(* What a live share freezes, as a step of one process leaves it. *)
FrozenBox == /\ landed' = landed
             /\ branch # 0 => (disk'.status \in Terminal => disk'.at <= clock)

LEMMA SaveFrozen ==
  ASSUME GuardInv, NEW p \in Procs, NEW s \in Status, NEW l, SaveStatus(p, s, l),
         s \in Terminal => branch = 0
  PROVE  FrozenBox
<1>1. disk'.status = s
  BY GuardTypes DEF SaveStatus, Manifest
<1> QED BY <1>1 DEF SaveStatus, FrozenBox

LEMMA StillFrozen ==
  ASSUME GuardInv, landed' = landed, disk' = disk \/ disk'.at <= clock \/ disk' = NoManifest
  PROVE  FrozenBox
  BY DEF GuardInv, Guards, Past, FrozenBox, Terminal, NoManifest

LEMMA AdvanceFrozen ==
  ASSUME GuardInv, NEW p \in Procs, Advance(p), ShareLive
  PROVE  FrozenBox
<1>1. /\ m[p].at <= clock /\ ref.at <= clock
      /\ Frozen(pc[p], verb[p]) => branch = 0
  BY DEF GuardInv, Guards, Past, GateDuty
<1>2. ~CreateSteps(p)
  BY CreateLocks DEF GuardInv, TearInv
<1>3. StartSteps(p) => FrozenBox
  BY <1>1, StillFrozen DEF StartSteps, ReadRef, Compare, Materialize, Load, NotFound,
     Step, Leave, repoVars, dirVars
<1>4. SessionSteps(p) => FrozenBox
  <2>1. StartRunning(p) \/ GoIdle(p) => FrozenBox
    BY SaveFrozen DEF StartRunning, GoIdle, Status, Terminal
  <2>2. SessionSteps(p) /\ ~StartRunning(p) /\ ~GoIdle(p) => FrozenBox
    BY StillFrozen DEF SessionSteps, SessionCheck, SessionLock, PrepareFails, MirrorRunning,
       Record, NothingToRecord, RecordFails, TryLock, Step, Leave, repoVars, dirVars
  <2> QED BY <2>1, <2>2
<1>5. ProposeSteps(p) => FrozenBox
  <2>1. Propose(p) => FrozenBox
    BY SaveFrozen DEF Propose, Status, Terminal
  <2>2. ProposeSteps(p) /\ ~Propose(p) => FrozenBox
    BY StillFrozen DEF ProposeSteps, ProposeLock, Snapshot, SnapshotRefused, TryLock, Leave,
       repoVars, dirVars
  <2> QED BY <2>1, <2>2
<1>6. GateSteps(p) => FrozenBox
  BY StillFrozen DEF GateSteps, GateOpen, GateTake, GateTimeout, Leave, repoVars, dirVars
<1>7. RebaseSteps(p) => FrozenBox
  <2>1. RebaseSave(p) => FrozenBox
    BY SaveFrozen DEF RebaseSave, Status, Terminal
  <2>2. RebaseSteps(p) /\ ~RebaseSave(p) => FrozenBox
    BY StillFrozen DEF RebaseSteps, RebaseGate, RebaseLock, RebaseDrift, RebaseNothing,
       RebaseConflict, RebaseCommit, RefuseIfShared, TryLock, Step, Leave, repoVars, dirVars
  <2> QED BY <2>1, <2>2
<1>8. ApplySteps(p) => FrozenBox
  <2>1. ApplySave(p) => FrozenBox
    BY <1>1, SaveFrozen DEF ApplySave, Status, Frozen
  <2>2. ~ApplyLand(p)
    BY <1>1 DEF ApplyLand, Frozen
  <2>3. ApplySteps(p) /\ ~ApplySave(p) /\ ~ApplyLand(p) => FrozenBox
    BY StillFrozen DEF ApplySteps, ApplyGate, ApplyLock, ApplyRefused, RefuseIfShared,
       TryLock, Step, Leave, repoVars, dirVars
  <2> QED BY <2>1, <2>2, <2>3
<1>9. AbortSteps(p) => FrozenBox
  <2>1. Abort(p) => FrozenBox
    BY <1>1, SaveFrozen DEF Abort, Status, Frozen
  <2>2. AbortSteps(p) /\ ~Abort(p) => FrozenBox
    BY StillFrozen DEF AbortSteps, AbortGate, AbortLock, RefuseIfShared, TryLock, Step,
       Leave, repoVars, dirVars
  <2> QED BY <2>1, <2>2
<1>10. GcSteps(p) => FrozenBox
  BY <1>1, StillFrozen DEF GcSteps, GcList, GcWork, GcLock, GcDrain, GcShare, GcPrune, GcSave,
     PruneWorkspace, RefuseIfShared, TryLock, Step, Leave, repoVars, dirVars
<1>11. RmSteps(p) => FrozenBox
  BY StillFrozen DEF RmSteps, RmGate, RmLock, RmDrain, RmPrune, RmBranch, RmStrip, RmErase,
     EraseDir, PruneWorkspace, TryLock, Step, Leave, repoVars, dirVars
<1>12. ShareSteps(p) \/ Mirror(p) => FrozenBox
  BY StillFrozen DEF ShareSteps, ShareCheck, Claim, Mirror, Step, Leave, repoVars, dirVars
<1> QED BY <1>2, <1>3, <1>4, <1>5, <1>6, <1>7, <1>8, <1>9, <1>10, <1>11, <1>12 DEF Advance

(* While a share is live, the parent branch gets nothing from the box, and    *)
(* until rm takes the branch nobody rebases it or newly marks it applied or   *)
(* aborted: whoever could holds the gate the share was claimed under          *)
(* (ShareFreezesBox).                                                         *)
THEOREM LiveShareFreezesBox ==
  ASSUME "create" \notin Verbs
  PROVE  Spec => ShareFreezesBox
<1>1. ASSUME GuardInv, Next, ShareLive
      PROVE  /\ landed' = landed
             /\ branch # 0 => /\ ~\E p \in Procs : RebaseCommit(p)
                              /\ disk'.status \in Terminal => disk'.at <= clock
  <2>1. FrozenBox
    <3>1. ASSUME NEW p \in Procs, NEW v \in Verbs, Enter(p, v) PROVE FrozenBox
      BY <1>1, <3>1, StillFrozen DEF Enter, repoVars, dirVars
    <3>2. ASSUME NEW p \in Procs, Exec(p) \/ StopWatching(p) \/ EndShare(p) \/ Crash(p)
          PROVE  FrozenBox
      BY <1>1, <3>2, StillFrozen
         DEF Exec, StopWatching, EndShare, Crash, Leave, repoVars, dirVars
    <3> QED BY <1>1, <3>1, <3>2, AdvanceFrozen DEF Next
  <2>2. ASSUME NEW p \in Procs, RebaseCommit(p) PROVE branch = 0
    BY <1>1, <2>2 DEF RebaseCommit, GuardInv, Guards, GateDuty, Frozen
  <2> QED BY <2>1, <2>2 DEF FrozenBox
<1>2. GuardInv /\ [Next]_vars =>
        [ShareLive =>
           /\ landed' = landed
           /\ branch # 0 => /\ ~\E p \in Procs : RebaseCommit(p)
                            /\ disk'.status \in Terminal => disk'.at <= clock]_vars
  BY <1>1
<1> QED BY <1>2, InitGuards, NextGuards, PTL DEF Spec, ShareFreezesBox

-----------------------------------------------------------------------------

(* One command after the other: a single process issues them, and may be    *)
(* killed anywhere in one. Then a command that loaded the manifest works on *)
(* what is on disk, create included.                                        *)

Lone == \A p, q \in Procs : p = q

Loaded == Labels \ ({"idle", "find", "sync", "materialize", "import", "load", "saveIdle",
                     "gcList", "sharing"} \cup CreateLabels)

(* What the process knows of the box at a label. *)
Knows(l, p) ==
    /\ l \in Loaded => m[p] = disk /\ disk # NoManifest
    /\ l = "materialize" => m[p] = ref
    /\ l # "import"
    /\ l = "createCheck" => m[p] = NoManifest
    /\ l \in CreateLabels \ {"createCheck"} => disk = NoManifest
    /\ l \in {"createBranch", "createWork", "createSave"} => m[p].status = "created"
    /\ l \in {"sessionLock", "prepare", "drift", "replay", "saveRebased"} => disk.status \in Active
    /\ l \in {"mirrorRunning", "exec", "record", "saveIdle"} => disk.status = "running"
    /\ l = "proposeLock" => verb[p] = "propose"
    /\ l = "snapshot" => disk.status \in (IF verb[p] = "propose" THEN Proposable ELSE Active)
    /\ l = "saveProposed" => disk.status \in Proposable /\ ~dirty
    /\ l \in {"land", "saveApplied"} => disk.status = "proposed"
    /\ l = "saveAborted" => disk.status # "applied"
    /\ l = "rmErase" => ref = NoManifest

(* What the files, the branches and the ref have to do with each other.     *)
Whole ==
    /\ OnlyReviewedLands /\ EvidenceExists /\ SyncNeverRollsBack
    /\ disk.status = "absent" => disk = NoManifest
    /\ disk.status = "proposed" => ~dirty /\ branch \in reviewed \cup {0}
    /\ ref.captures \subseteq receipts
    /\ disk.at <= clock /\ ref.at <= clock
    /\ \A p \in Procs : m[p].captures \subseteq receipts /\ m[p].at <= clock

Sequence == Whole /\ \A p \in Procs : Knows(pc[p], p)
SequenceInv == TypeInv /\ Sequence

LEMMA SequenceTypes ==
  ASSUME SequenceInv
  PROVE  /\ pc \in [Procs -> Labels]
         /\ verb \in [Procs -> AllVerbs \cup {"none"}]
         /\ m \in [Procs -> Manifest]
         /\ gate \in [Procs -> Nat]
         /\ holds \in [Procs -> SUBSET (LockKind \X Nat)]
         /\ dir \in Nat /\ branch \in Nat /\ clock \in Nat /\ dirty \in BOOLEAN
         /\ disk \in Manifest /\ ref \in Manifest
         /\ disk.at \in Nat /\ ref.at \in Nat /\ \A p \in Procs : m[p].at \in Nat
<1>1. /\ pc \in [Procs -> Labels]
      /\ verb \in [Procs -> AllVerbs \cup {"none"}]
      /\ m \in [Procs -> Manifest]
      /\ gate \in [Procs -> Nat]
      /\ holds \in [Procs -> SUBSET (LockKind \X Nat)]
      /\ dir \in Nat /\ branch \in Nat /\ clock \in Nat /\ dirty \in BOOLEAN
      /\ disk \in Manifest /\ ref \in Manifest
  BY DEF SequenceInv, TypeInv, ProcOK, BoxOK
<1>2. \A x \in Manifest : x.at \in Nat
  BY DEF Manifest
<1> QED BY <1>1, <1>2

(* A step that leaves the box alone and gives the process a copy of what is *)
(* there, or none.                                                          *)
LEMMA QuietSequence ==
  ASSUME Lone, SequenceInv, NEW p \in Procs, NEW l \in Labels, pc' = [pc EXCEPT ![p] = l],
         UNCHANGED <<disk, ref, receipts, landed, reviewed>>,
         branch' = branch \/ branch' = 0 \/ disk.status # "proposed",
         dirty' = dirty \/ dirty' = FALSE \/ disk.status # "proposed",
         clock' \in {clock, clock + 1},
         m'[p] \in {m[p], disk, ref, NoManifest},
         Knows(l, p)'
  PROVE  Sequence'
<1>1. pc'[p] = l /\ \A q \in Procs : q = p
  BY SequenceTypes DEF Lone
<1>2. NoManifest.captures = {} /\ NoManifest.at = 0
  BY DEF NoManifest
<1>3. m'[p].captures \subseteq receipts' /\ m'[p].at <= clock'
  BY <1>2, SequenceTypes DEF SequenceInv, Sequence, Whole, EvidenceExists
<1>4. disk'.at <= clock' /\ ref'.at <= clock'
  BY SequenceTypes DEF SequenceInv, Sequence, Whole
<1>5. OnlyReviewedLands' /\ EvidenceExists' /\ SyncNeverRollsBack'
  BY DEF SequenceInv, Sequence, Whole, OnlyReviewedLands, EvidenceExists,
         SyncNeverRollsBack, Newer
<1>6. Whole'
  BY <1>1, <1>3, <1>4, <1>5 DEF SequenceInv, Sequence, Whole
<1> QED BY <1>1, <1>6 DEF Sequence

LEMMA GoneSequence ==
  ASSUME Lone, SequenceInv, NEW p \in Procs, Gone(p),
         UNCHANGED <<disk, ref, receipts, landed, reviewed, branch, dirty>>,
         clock' \in {clock, clock + 1}
  PROVE  Sequence'
<1>1. m'[p] = NoManifest
  BY SequenceTypes DEF Gone
<1>2. Knows("idle", p)'
  BY DEF Knows, Loaded, CreateLabels
<1> QED BY <1>1, <1>2, QuietSequence DEF Gone, Labels

LEMMA LeaveSequence ==
  ASSUME Lone, SequenceInv, NEW p \in Procs, Leave(p)
  PROVE  Sequence'
  BY GoneSequence DEF Leave, repoVars, treeVars, dirVars

LEMMA StepSequence ==
  ASSUME Lone, SequenceInv, NEW p \in Procs, NEW l \in Labels, Step(p, l), Knows(l, p)
  PROVE  Sequence'
<1>1. UNCHANGED <<verb, m, disk, ref, receipts, landed, reviewed, branch, dirty, clock>>
  BY DEF Step, repoVars, treeVars, dirVars
<1>2. Knows(l, p)'
  BY <1>1 DEF Knows
<1> QED BY <1>1, <1>2, QuietSequence DEF Step, Goto

LEMMA FlockSequence ==
  ASSUME Lone, SequenceInv, NEW p \in Procs, NEW kind, NEW ok \in BOOLEAN, NEW l \in Labels,
         TryLock(p, kind, ok, l), ok => Knows(l, p)
  PROVE  Sequence'
<1>1. CASE Leave(p)
  BY <1>1, LeaveSequence
<1>2. CASE ~Leave(p)
  <2>1. ok /\ Goto(p, l)
        /\ UNCHANGED <<verb, m, disk, ref, receipts, landed, reviewed, branch, dirty, clock>>
    BY <1>2 DEF TryLock, repoVars, treeVars, dirVars
  <2>2. Knows(l, p)'
    BY <2>1 DEF Knows
  <2> QED BY <2>1, <2>2, QuietSequence DEF Goto
<1> QED BY <1>1, <1>2

(* A save is newer than the ref and names no more than the copy it is of.   *)
LEMMA SaveSequence ==
  ASSUME Lone, SequenceInv, NEW p \in Procs, NEW s \in Status,
         NEW l \in {"mirrorRunning", "mirror"}, SaveStatus(p, s, l),
         reviewed \subseteq reviewed',
         s = "proposed" => ~dirty /\ branch \in reviewed',
         l = "mirrorRunning" => s = "running"
  PROVE  Sequence'
<1>1. /\ m' = [m EXCEPT ![p] = disk'] /\ disk' = [m[p] EXCEPT !.status = s, !.at = clock + 1]
      /\ clock' = clock + 1 /\ Goto(p, l)
      /\ UNCHANGED <<receipts, branch, dirty, landed, ref, verb>>
  BY DEF SaveStatus, treeVars
<1>2. disk'.status = s /\ disk'.at = clock + 1 /\ disk'.captures = m[p].captures
  BY <1>1, SequenceTypes DEF Manifest
<1>3. m'[p] = disk' /\ pc'[p] = l /\ \A q \in Procs : q = p
  BY <1>1, SequenceTypes DEF Goto, Lone
<1>4. disk'.captures \subseteq receipts' /\ ref'.captures \subseteq receipts'
  BY <1>1, <1>2 DEF SequenceInv, Sequence, Whole
<1>5. disk'.at <= clock' /\ ref'.at <= clock' /\ ref'.at <= disk'.at
  BY <1>1, <1>2, SequenceTypes DEF SequenceInv, Sequence, Whole
<1>6. disk' # NoManifest /\ disk'.status # "absent"
  BY <1>2 DEF NoManifest, Status
<1>7. SyncNeverRollsBack'
  BY <1>2, <1>5, <1>6, SequenceTypes, <1>1 DEF SyncNeverRollsBack, Newer
<1>8. OnlyReviewedLands'
  BY <1>1 DEF SequenceInv, Sequence, Whole, OnlyReviewedLands
<1>9. Whole'
  BY <1>1, <1>2, <1>3, <1>4, <1>5, <1>6, <1>7, <1>8 DEF Whole, EvidenceExists
<1>10. Knows(l, p)'
  BY <1>2, <1>3, <1>6 DEF Knows, CreateLabels
<1> QED BY <1>3, <1>9, <1>10 DEF Sequence

LEMMA StartSequence ==
  ASSUME Lone, SequenceInv, NEW p \in Procs, StartSteps(p)
  PROVE  Sequence'
<1>1. CASE ReadRef(p)
  <2>1. m'[p] = ref
    BY <1>1, SequenceTypes DEF ReadRef
  <2>2. UNCHANGED <<disk, ref, receipts, landed, reviewed, branch, dirty, clock>>
    BY <1>1 DEF ReadRef, repoVars, treeVars, dirVars
  <2>3. Knows("materialize", p)'
    BY <2>1, <2>2 DEF Knows, Loaded, CreateLabels
  <2> QED BY <1>1, <2>1, <2>2, <2>3, QuietSequence DEF ReadRef, Goto, Labels
<1>2. CASE Compare(p) \/ Materialize(p)
  <2>1. Compare(p) /\ m[p] = ref /\ ~Newer(m[p])
    BY <1>2 DEF Compare, Materialize, SequenceInv, Sequence, Whole, Knows, SyncNeverRollsBack
  <2>2. UNCHANGED <<disk, ref, receipts, landed, reviewed, branch, dirty, clock>>
    BY <2>1 DEF Compare, repoVars, treeVars, dirVars
  <2>3. PICK l \in {"createCheck", "gcList", "load"} : l = FirstStep(verb[p])
    BY DEF FirstStep
  <2>4. m'[p] = NoManifest
    BY <2>1, SequenceTypes DEF Compare
  <2>5. Knows(l, p)'
    BY <2>4 DEF Knows, Loaded, CreateLabels
  <2> QED BY <2>1, <2>2, <2>3, <2>4, <2>5, QuietSequence DEF Compare, Goto, Labels
<1>3. CASE Load(p)
  <2>1. verb[p] \in LoadVerbs
    BY <1>3 DEF Load, SequenceInv, TypeInv, ProcOK, VerbOK
  <2>2. PICK l \in {"sessionCheck", "proposeLock", "gateOpen", "shareCheck"} :
          l = AfterLoad[verb[p]] /\ (l = "proposeLock" => verb[p] = "propose")
    BY <2>1 DEF AfterLoad, LoadVerbs, AllVerbs
  <2>3. m'[p] = disk /\ disk # NoManifest
    BY <1>3, SequenceTypes DEF Load
  <2>4. UNCHANGED <<disk, ref, receipts, landed, reviewed, branch, dirty, clock, verb>>
    BY <1>3 DEF Load, repoVars, treeVars, dirVars
  <2>5. Knows(l, p)'
    BY <2>2, <2>3, <2>4 DEF Knows, CreateLabels
  <2> QED BY <1>3, <2>2, <2>3, <2>4, <2>5, QuietSequence DEF Load, Goto, Labels
<1>4. CASE NotFound(p)
  <2>1. Knows("sync", p) /\ "sync" \in Labels
    BY DEF Knows, Loaded, CreateLabels, Labels
  <2> QED BY <1>4, <2>1, StepSequence, LeaveSequence DEF NotFound
<1> QED BY <1>1, <1>2, <1>3, <1>4 DEF StartSteps

LEMMA SessionSequence ==
  ASSUME Lone, SequenceInv, NEW p \in Procs, SessionSteps(p)
  PROVE  Sequence'
<1>1. Knows(pc[p], p)
  BY DEF SequenceInv, Sequence
<1>2. CASE SessionCheck(p)
  <2>1. m[p].status \in Active => Knows("sessionLock", p)
    BY <1>1, <1>2 DEF SessionCheck, Knows, Loaded, CreateLabels, Labels
  <2> QED BY <1>2, <2>1, StepSequence, LeaveSequence DEF SessionCheck, Labels
<1>3. CASE SessionLock(p)
  <2>1. Knows("watching", p) /\ Knows("prepare", p)
    BY <1>1, <1>3 DEF SessionLock, Knows, Loaded, CreateLabels, Labels
  <2>2. TryLock(p, "watch", TRUE, "watching") \/ TryLock(p, "run", TRUE, "prepare")
    BY <1>3 DEF SessionLock
  <2> QED BY <2>1, <2>2, FlockSequence DEF Labels
<1>4. CASE PrepareFails(p)
  BY <1>4, LeaveSequence DEF PrepareFails
<1>5. CASE StartRunning(p)
  BY <1>5, SaveSequence DEF StartRunning, Status
<1>6. CASE MirrorRunning(p)
  <2>1. m[p] = disk /\ disk.status = "running" /\ disk # NoManifest
    BY <1>1, <1>6 DEF MirrorRunning, Knows, Loaded, CreateLabels, Labels
  <2>2. /\ ref' = disk /\ pc'[p] = "exec" /\ \A q \in Procs : q = p
        /\ UNCHANGED <<disk, m, verb, receipts, landed, reviewed, branch, dirty, clock>>
    BY <1>6, <2>1, SequenceTypes DEF MirrorRunning, Goto, treeVars, dirVars, Lone
  <2>3. Whole'
    BY <2>1, <2>2, SequenceTypes DEF SequenceInv, Sequence, Whole, OnlyReviewedLands, EvidenceExists,
       SyncNeverRollsBack, Newer
  <2>4. Knows("exec", p)'
    BY <2>1, <2>2 DEF Knows, CreateLabels
  <2> QED BY <2>2, <2>3, <2>4 DEF Sequence
<1>7. CASE Record(p)
  <2>1. disk.status = "running"
    BY <1>1, <1>7 DEF Record, Knows
  <2>2. /\ m'[p] = [m[p] EXCEPT !.captures = @ \cup {clock + 1}]
        /\ receipts' = receipts \cup {clock + 1} /\ clock' = clock + 1
        /\ pc'[p] = "saveIdle" /\ \A q \in Procs : q = p
        /\ UNCHANGED <<disk, ref, verb, landed, reviewed, branch, dirty>>
    BY <1>7, SequenceTypes DEF Record, LogReceipt, Goto, repoVars, treeVars, Lone
  <2>3. m'[p].at = m[p].at /\ m'[p].captures = m[p].captures \cup {clock + 1}
    BY <2>2, SequenceTypes DEF Manifest
  <2>4. m'[p].captures \subseteq receipts' /\ disk'.captures \subseteq receipts'
        /\ ref'.captures \subseteq receipts'
    BY <2>2, <2>3 DEF SequenceInv, Sequence, Whole, EvidenceExists
  <2>5. m'[p].at <= clock' /\ disk'.at <= clock' /\ ref'.at <= clock'
    BY <2>2, <2>3, SequenceTypes DEF SequenceInv, Sequence, Whole
  <2>6. Whole'
    BY <2>2, <2>4, <2>5 DEF SequenceInv, Sequence, Whole, OnlyReviewedLands,
       EvidenceExists, SyncNeverRollsBack, Newer
  <2>7. Knows("saveIdle", p)'
    BY <2>1, <2>2 DEF Knows, Loaded, CreateLabels
  <2> QED BY <2>2, <2>6, <2>7 DEF Sequence
<1>8. CASE NothingToRecord(p)
  <2>1. Knows("saveIdle", p)
    BY <1>1, <1>8 DEF NothingToRecord, Knows, Loaded, CreateLabels
  <2> QED BY <1>8, <2>1, StepSequence DEF NothingToRecord, Labels
<1>9. CASE RecordFails(p)
  BY <1>9, LeaveSequence DEF RecordFails
<1>10. CASE GoIdle(p)
  BY <1>10, SaveSequence DEF GoIdle, Status
<1> QED BY <1>2, <1>3, <1>4, <1>5, <1>6, <1>7, <1>8, <1>9, <1>10 DEF SessionSteps

(* What a propose froze stays the tip: it is proposed when the worktree is  *)
(* clean, and nothing but a session or a rebase, which start from an active *)
(* box, changes either.                                                     *)
LEMMA ProposeSequence ==
  ASSUME Lone, SequenceInv, NEW p \in Procs, ProposeSteps(p)
  PROVE  Sequence'
<1>1. Knows(pc[p], p)
  BY DEF SequenceInv, Sequence
<1>2. CASE ProposeLock(p)
  <2>1. m[p].status \in Proposable => Knows("snapshot", p)
    BY <1>1, <1>2 DEF ProposeLock, Knows, Loaded, CreateLabels, Labels
  <2>2. (m[p].status \in Proposable) \in BOOLEAN
    OBVIOUS
  <2> QED BY <1>2, <2>1, <2>2, FlockSequence DEF ProposeLock, Labels
<1>3. CASE Snapshot(p)
  <2>1. PICK l \in {"saveProposed", "replay"} :
          pc' = [pc EXCEPT ![p] = l] /\ (l = "replay" => verb[p] # "propose")
    BY <1>3 DEF Snapshot, Goto
  <2>2. /\ UNCHANGED <<verb, m, disk, ref, receipts, landed, reviewed>>
        /\ dirty' = FALSE
        /\ clock' \in {clock, clock + 1}
        /\ dirty \/ branch' = branch
    BY <1>3 DEF Snapshot, dirVars
  <2>3. dirty => disk.status # "proposed"
    BY DEF SequenceInv, Sequence, Whole
  <2>4. disk.status \in Proposable /\ (l = "replay" => disk.status \in Active)
    BY <1>1, <1>3, <2>1 DEF Snapshot, Knows, Proposable
  <2>5. Knows(l, p)'
    BY <1>1, <1>3, <2>1, <2>2, <2>4 DEF Snapshot, Knows, Loaded, CreateLabels, Labels
  <2> QED BY <2>1, <2>2, <2>3, <2>5, QuietSequence DEF Labels
<1>4. CASE SnapshotRefused(p)
  BY <1>4, LeaveSequence DEF SnapshotRefused
<1>5. CASE Propose(p)
  <2>1. ~dirty /\ branch \in reviewed' /\ reviewed \subseteq reviewed'
    BY <1>1, <1>5 DEF Propose, Knows
  <2> QED BY <1>5, <2>1, SaveSequence DEF Propose, Status
<1> QED BY <1>2, <1>3, <1>4, <1>5 DEF ProposeSteps

LEMMA GateSequence ==
  ASSUME Lone, SequenceInv, NEW p \in Procs, GateSteps(p)
  PROVE  Sequence'
<1>1. Knows(pc[p], p)
  BY DEF SequenceInv, Sequence
<1>2. CASE GateOpen(p)
  <2>1. UNCHANGED <<verb, m, disk, ref, receipts, landed, reviewed, branch, dirty>>
        /\ clock' \in {clock, clock + 1}
    BY <1>2 DEF GateOpen, repoVars, treeVars
  <2>2. Knows("gateWait", p)'
    BY <1>1, <1>2, <2>1 DEF GateOpen, Knows, Loaded, CreateLabels, Labels
  <2> QED BY <1>2, <2>1, <2>2, QuietSequence DEF GateOpen, Goto, Labels
<1>3. CASE GateTake(p)
  <2>1. UNCHANGED <<verb, m, disk, ref, receipts, landed, reviewed, branch, dirty, clock>>
    BY <1>3 DEF GateTake, repoVars, treeVars, dirVars
  <2>2. Knows("gateHeld", p)'
    BY <1>1, <1>3, <2>1 DEF GateTake, Knows, Loaded, CreateLabels, Labels
  <2> QED BY <1>3, <2>1, <2>2, QuietSequence DEF GateTake, Goto, Labels
<1>4. CASE GateTimeout(p)
  BY <1>4, LeaveSequence DEF GateTimeout
<1> QED BY <1>2, <1>3, <1>4 DEF GateSteps

LEMMA RebaseSequence ==
  ASSUME Lone, SequenceInv, NEW p \in Procs, RebaseSteps(p)
  PROVE  Sequence'
<1>1. Knows(pc[p], p)
  BY DEF SequenceInv, Sequence
<1>2. CASE RebaseGate(p)
  <2>1. Knows("rebaseLock", p)
    BY <1>1, <1>2 DEF RebaseGate, Knows, Loaded, CreateLabels, Labels
  <2> QED BY <1>2, <2>1, StepSequence, LeaveSequence DEF RebaseGate, RefuseIfShared, Labels
<1>3. CASE RebaseLock(p)
  <2>1. m[p].status \in Active => Knows("drift", p)
    BY <1>1, <1>3 DEF RebaseLock, Knows, Loaded, CreateLabels, Labels
  <2>2. (m[p].status \in Active) \in BOOLEAN
    OBVIOUS
  <2> QED BY <1>3, <2>1, <2>2, FlockSequence DEF RebaseLock, Labels
<1>4. CASE RebaseDrift(p)
  <2>1. Knows("snapshot", p)
    BY <1>1, <1>4 DEF RebaseDrift, Knows, Loaded, CreateLabels, Labels, Proposable
  <2> QED BY <1>4, <2>1, StepSequence DEF RebaseDrift, Labels
<1>5. CASE RebaseNothing(p) \/ RebaseConflict(p)
  BY <1>5, LeaveSequence DEF RebaseNothing, RebaseConflict
<1>6. CASE RebaseCommit(p)
  <2>1. UNCHANGED <<verb, m, disk, ref, receipts, landed, reviewed, dirty>>
        /\ clock' = clock + 1
    BY <1>6 DEF RebaseCommit, treeVars, dirVars
  <2>2. disk.status \in Active
    BY <1>1, <1>6 DEF RebaseCommit, Knows
  <2>3. Knows("saveRebased", p)'
    BY <1>1, <1>6, <2>1 DEF RebaseCommit, Knows, Loaded, CreateLabels, Labels
  <2> QED BY <1>6, <2>1, <2>2, <2>3, QuietSequence DEF RebaseCommit, Goto, Labels, Active
<1>7. CASE RebaseSave(p)
  BY <1>7, SaveSequence DEF RebaseSave, Status
<1> QED BY <1>2, <1>3, <1>4, <1>5, <1>6, <1>7 DEF RebaseSteps

LEMMA ApplySequence ==
  ASSUME Lone, SequenceInv, NEW p \in Procs, ApplySteps(p)
  PROVE  Sequence'
<1>1. Knows(pc[p], p)
  BY DEF SequenceInv, Sequence
<1>2. CASE ApplyGate(p)
  <2>1. Knows("applyLock", p)
    BY <1>1, <1>2 DEF ApplyGate, Knows, Loaded, CreateLabels, Labels
  <2> QED BY <1>2, <2>1, StepSequence, LeaveSequence DEF ApplyGate, RefuseIfShared, Labels
<1>3. CASE ApplyLock(p)
  <2>1. m[p].status = "proposed" => Knows("land", p)
    BY <1>1, <1>3 DEF ApplyLock, Knows, Loaded, CreateLabels, Labels
  <2>2. (m[p].status = "proposed") \in BOOLEAN
    OBVIOUS
  <2> QED BY <1>3, <2>1, <2>2, FlockSequence DEF ApplyLock, Labels
<1>4. CASE ApplyRefused(p)
  BY <1>4, LeaveSequence DEF ApplyRefused
<1>5. CASE ApplyLand(p)
  <2>1. /\ UNCHANGED <<verb, m, disk, ref, receipts, reviewed, branch, dirty, clock>>
        /\ landed' = landed \cup {branch} /\ branch # 0
        /\ pc'[p] = "saveApplied" /\ \A q \in Procs : q = p
    BY <1>5, SequenceTypes DEF ApplyLand, Goto, treeVars, dirVars, Lone
  <2>2. branch \in reviewed
    BY <1>1, <1>5, <2>1 DEF ApplyLand, Knows, SequenceInv, Sequence, Whole
  <2>3. Whole'
    BY <2>1, <2>2 DEF SequenceInv, Sequence, Whole, OnlyReviewedLands, EvidenceExists,
       SyncNeverRollsBack, Newer
  <2>4. Knows("saveApplied", p)'
    BY <1>1, <1>5, <2>1 DEF ApplyLand, Knows, Loaded, CreateLabels, Labels
  <2> QED BY <2>1, <2>3, <2>4 DEF Sequence
<1>6. CASE ApplySave(p)
  BY <1>6, SaveSequence DEF ApplySave, Status
<1> QED BY <1>2, <1>3, <1>4, <1>5, <1>6 DEF ApplySteps

LEMMA AbortSequence ==
  ASSUME Lone, SequenceInv, NEW p \in Procs, AbortSteps(p)
  PROVE  Sequence'
<1>1. Knows(pc[p], p)
  BY DEF SequenceInv, Sequence
<1>2. CASE AbortGate(p)
  <2>1. Knows("abortLock", p)
    BY <1>1, <1>2 DEF AbortGate, Knows, Loaded, CreateLabels, Labels
  <2> QED BY <1>2, <2>1, StepSequence, LeaveSequence DEF AbortGate, RefuseIfShared, Labels
<1>3. CASE AbortLock(p)
  <2>1. m[p].status # "applied" => Knows("saveAborted", p)
    BY <1>1, <1>3 DEF AbortLock, Knows, Loaded, CreateLabels, Labels
  <2>2. (m[p].status # "applied") \in BOOLEAN
    OBVIOUS
  <2> QED BY <1>3, <2>1, <2>2, FlockSequence DEF AbortLock, Labels
<1>4. CASE Abort(p)
  BY <1>4, SaveSequence DEF Abort, Status
<1> QED BY <1>2, <1>3, <1>4 DEF AbortSteps

LEMMA GcSequence ==
  ASSUME Lone, SequenceInv, NEW p \in Procs, GcSteps(p)
  PROVE  Sequence'
<1>1. Knows(pc[p], p)
  BY DEF SequenceInv, Sequence
<1>2. CASE GcList(p)
  <2>1. CASE Leave(p)
    BY <2>1, LeaveSequence
  <2>2. CASE ~Leave(p)
    <3>1. /\ disk.status \in Terminal
          /\ m' = [m EXCEPT ![p] = disk]
          /\ Goto(p, "gcWork")
          /\ UNCHANGED <<verb, disk, ref, receipts, landed, reviewed, branch, dirty, clock>>
      BY <1>2, <2>2 DEF GcList, repoVars, treeVars, dirVars
    <3>2. m'[p] = disk /\ disk # NoManifest
      BY <3>1, SequenceTypes DEF Terminal, NoManifest
    <3>3. Knows("gcWork", p)'
      BY <3>1, <3>2 DEF Knows, CreateLabels
    <3> QED BY <3>1, <3>2, <3>3, QuietSequence DEF Goto, Labels
  <2> QED BY <2>1, <2>2
<1>3. CASE GcWork(p)
  <2>1. Knows("gcLock", p)
    BY <1>1, <1>3 DEF GcWork, Knows, Loaded, CreateLabels, Labels
  <2> QED BY <1>3, <2>1, StepSequence, LeaveSequence DEF GcWork, Labels
<1>4. CASE GcLock(p)
  <2>1. Knows("gcDrain", p)
    BY <1>1, <1>4 DEF GcLock, Knows, Loaded, CreateLabels, Labels
  <2> QED BY <1>4, <2>1, FlockSequence DEF GcLock, Labels
<1>5. CASE GcDrain(p)
  <2>1. Knows("gcShare", p)
    BY <1>1, <1>5 DEF GcDrain, Knows, Loaded, CreateLabels, Labels
  <2> QED BY <1>5, <2>1, FlockSequence DEF GcDrain, Labels
<1>6. CASE GcShare(p)
  <2>1. Knows("gcPrune", p)
    BY <1>1, <1>6 DEF GcShare, Knows, Loaded, CreateLabels, Labels
  <2> QED BY <1>6, <2>1, StepSequence, LeaveSequence DEF GcShare, RefuseIfShared, Labels
<1>7. CASE GcPrune(p)
  <2>1. UNCHANGED <<verb, m, disk, ref, receipts, landed, reviewed, branch, clock>>
        /\ dirty' = FALSE
    BY <1>7 DEF GcPrune, PruneWorkspace, repoVars, dirVars
  <2>2. Knows("gcSave", p)'
    BY <1>1, <1>7, <2>1 DEF GcPrune, Knows, Loaded, CreateLabels, Labels
  <2> QED BY <1>7, <2>1, <2>2, QuietSequence DEF GcPrune, PruneWorkspace, Goto, Labels
<1>8. CASE GcSave(p)
  <2>1. m[p] = disk
    BY <1>1, <1>8 DEF GcSave, Knows, Loaded, CreateLabels, Labels
  <2> QED BY <1>8, <2>1, GoneSequence DEF GcSave, repoVars, treeVars
<1> QED BY <1>2, <1>3, <1>4, <1>5, <1>6, <1>7, <1>8 DEF GcSteps

(* The directory goes when the ref does not have the box any more, or not   *)
(* yet; nothing is left that names its receipts.                            *)
LEMMA EraseSequence ==
  ASSUME Lone, SequenceInv, NEW p \in Procs, EraseDir, ref = NoManifest,
         UNCHANGED <<landed, reviewed, ref, clock>>, m'[p] = NoManifest
  PROVE  Whole'
<1>1. /\ NoManifest.captures = {} /\ NoManifest.at = 0
      /\ NoManifest.status = "absent" /\ \A q \in Procs : q = p
  BY DEF NoManifest, Lone
<1>2. disk' = NoManifest /\ ref' = NoManifest /\ clock' \in Nat
  BY SequenceTypes DEF EraseDir
<1>3. disk'.at <= clock' /\ ref'.at <= clock' /\ m'[p].at <= clock'
  BY <1>1, <1>2
<1>4. OnlyReviewedLands' /\ EvidenceExists' /\ SyncNeverRollsBack'
  BY <1>1, <1>2 DEF SequenceInv, Sequence, Whole, OnlyReviewedLands, EvidenceExists,
     SyncNeverRollsBack, Newer
<1> QED BY <1>1, <1>2, <1>3, <1>4 DEF Whole

LEMMA RmSequence ==
  ASSUME Lone, SequenceInv, NEW p \in Procs, RmSteps(p)
  PROVE  Sequence'
<1>1. Knows(pc[p], p)
  BY DEF SequenceInv, Sequence
<1>2. CASE RmGate(p)
  <2>1. Knows("rmLock", p)
    BY <1>1, <1>2 DEF RmGate, Knows, Loaded, CreateLabels, Labels
  <2> QED BY <1>2, <2>1, StepSequence, LeaveSequence DEF RmGate, Labels
<1>3. CASE RmLock(p)
  <2>1. Knows("rmDrain", p)
    BY <1>1, <1>3 DEF RmLock, Knows, Loaded, CreateLabels, Labels
  <2> QED BY <1>3, <2>1, FlockSequence DEF RmLock, Labels
<1>4. CASE RmDrain(p)
  <2>1. Knows("rmPrune", p)
    BY <1>1, <1>4 DEF RmDrain, Knows, Loaded, CreateLabels, Labels
  <2> QED BY <1>4, <2>1, FlockSequence DEF RmDrain, Labels
<1>5. CASE RmPrune(p)
  <2>1. UNCHANGED <<verb, m, disk, ref, receipts, landed, reviewed, branch, clock>>
        /\ dirty' = FALSE
    BY <1>5 DEF RmPrune, PruneWorkspace, repoVars, dirVars
  <2>2. Knows("rmBranch", p)'
    BY <1>1, <1>5, <2>1 DEF RmPrune, Knows, Loaded, CreateLabels, Labels
  <2> QED BY <1>5, <2>1, <2>2, QuietSequence DEF RmPrune, PruneWorkspace, Goto, Labels
<1>6. CASE RmBranch(p)
  <2>1. UNCHANGED <<verb, m, disk, ref, receipts, landed, reviewed, dirty, clock>>
        /\ branch' = 0
    BY <1>6 DEF RmBranch, treeVars, dirVars
  <2>2. Knows("rmStrip", p)'
    BY <1>1, <1>6, <2>1 DEF RmBranch, Knows, Loaded, CreateLabels, Labels
  <2> QED BY <1>6, <2>1, <2>2, QuietSequence DEF RmBranch, Goto, Labels
<1>7. CASE RmStrip(p)
  <2>1. /\ UNCHANGED <<verb, m, disk, receipts, landed, reviewed, branch, dirty, clock>>
        /\ ref' = NoManifest
        /\ pc'[p] = "rmErase" /\ \A q \in Procs : q = p
    BY <1>7, SequenceTypes DEF RmStrip, Goto, treeVars, dirVars, Lone
  <2>2. NoManifest.captures = {} /\ NoManifest.at = 0
    BY DEF NoManifest
  <2>3. Whole'
    BY <2>1, <2>2, SequenceTypes DEF SequenceInv, Sequence, Whole, OnlyReviewedLands,
       EvidenceExists, SyncNeverRollsBack, Newer
  <2>4. Knows("rmErase", p)'
    BY <1>1, <1>7, <2>1 DEF RmStrip, Knows, Loaded, CreateLabels, Labels
  <2> QED BY <2>1, <2>3, <2>4 DEF Sequence
<1>8. CASE RmErase(p)
  <2>1. ref = NoManifest
    BY <1>1, <1>8 DEF RmErase, Knows
  <2>2. pc'[p] = "idle" /\ m'[p] = NoManifest /\ \A q \in Procs : q = p
    BY <1>8, SequenceTypes DEF RmErase, Gone, Lone
  <2>3. Whole'
    BY <1>8, <2>1, <2>2, EraseSequence DEF RmErase, repoVars
  <2>4. Knows("idle", p)'
    BY DEF Knows, Loaded, CreateLabels
  <2> QED BY <2>2, <2>3, <2>4 DEF Sequence
<1> QED BY <1>2, <1>3, <1>4, <1>5, <1>6, <1>7, <1>8 DEF RmSteps

(* Nothing of a box that create refuses or rolls back was published: there  *)
(* is no manifest, so the ref has none either.                              *)
LEMMA CreateSequence ==
  ASSUME Lone, SequenceInv, NEW p \in Procs, CreateSteps(p)
  PROVE  Sequence'
<1>1. Knows(pc[p], p)
  BY DEF SequenceInv, Sequence
<1>2. disk = NoManifest => ref = NoManifest
  BY DEF SequenceInv, Sequence, Whole, SyncNeverRollsBack, Newer
<1>3. CASE CreateCheck(p)
  <2>1. CASE Leave(p)
    BY <2>1, LeaveSequence
  <2>2. CASE ~Leave(p)
    <3>1. /\ EraseDir /\ disk = NoManifest
          /\ \/ Gone(p)
             \/ Goto(p, "mkdir") /\ UNCHANGED <<verb, m, gate, holds>>
          /\ UNCHANGED <<landed, reviewed, ref, clock>>
      BY <1>3, <2>2 DEF CreateCheck, repoVars
    <3>2. m[p] = NoManifest
      BY <1>1, <1>3 DEF CreateCheck, Knows
    <3>3. PICK l \in {"idle", "mkdir"} : pc'[p] = l /\ m'[p] = NoManifest
      BY <3>1, <3>2, SequenceTypes DEF Gone, Goto
    <3>4. Whole'
      BY <1>2, <3>1, <3>3, EraseSequence
    <3>5. Knows(l, p)'
      BY <3>1, <3>3 DEF EraseDir, Knows, Loaded, CreateLabels
    <3> QED BY <3>3, <3>4, <3>5 DEF Sequence, Lone
  <2> QED BY <2>1, <2>2
<1>4. CASE CreateRefused(p)
  BY <1>4, LeaveSequence DEF CreateRefused
<1>5. CASE CreateMkdir(p)
  <2>1. /\ m'[p] = [made |-> clock + 1, status |-> "created", at |-> clock + 1, captures |-> {}]
        /\ clock' = clock + 1
        /\ pc'[p] = "createBranch" /\ \A q \in Procs : q = p
        /\ UNCHANGED <<disk, ref, receipts, landed, reviewed, branch, dirty>>
    BY <1>5, SequenceTypes DEF CreateMkdir, Goto, repoVars, treeVars, Lone
  <2>2. m'[p].status = "created" /\ m'[p].captures = {} /\ m'[p].at = clock + 1
    BY <2>1
  <2>3. disk'.at <= clock' /\ ref'.at <= clock' /\ m'[p].at <= clock'
    BY <2>1, <2>2, SequenceTypes DEF SequenceInv, Sequence, Whole
  <2>4. Whole'
    BY <2>1, <2>2, <2>3 DEF SequenceInv, Sequence, Whole, OnlyReviewedLands, EvidenceExists,
       SyncNeverRollsBack, Newer
  <2>5. disk = NoManifest
    BY <1>1, <1>5 DEF CreateMkdir, Knows, CreateLabels
  <2>6. Knows("createBranch", p)'
    BY <2>1, <2>2, <2>5 DEF Knows, Loaded, CreateLabels
  <2> QED BY <2>1, <2>4, <2>6 DEF Sequence
<1>6. CASE CreateBranch(p)
  <2>1. /\ UNCHANGED <<verb, m, disk, ref, receipts, landed, reviewed, dirty>>
        /\ clock' = clock + 1
    BY <1>6 DEF CreateBranch, treeVars, dirVars
  <2>2. disk = NoManifest
    BY <1>1, <1>6 DEF CreateBranch, Knows, CreateLabels
  <2>3. Knows("createWork", p)'
    BY <1>1, <1>6, <2>1 DEF CreateBranch, Knows, Loaded, CreateLabels
  <2> QED BY <1>6, <2>1, <2>2, <2>3, QuietSequence DEF CreateBranch, Goto, Labels, NoManifest
<1>7. CASE NoBranch(p)
  <2>1. Knows("undo", p)
    BY <1>1, <1>7 DEF NoBranch, Knows, Loaded, CreateLabels
  <2> QED BY <1>7, <2>1, StepSequence DEF NoBranch, Labels
<1>8. CASE CreateWork(p)
  <2>1. /\ UNCHANGED <<verb, m, disk, ref, receipts, landed, reviewed, branch, clock>>
        /\ dirty' = FALSE
    BY <1>8 DEF CreateWork, repoVars, dirVars
  <2>2. Knows("createSave", p)'
    BY <1>1, <1>8, <2>1 DEF CreateWork, Knows, Loaded, CreateLabels
  <2> QED BY <1>8, <2>1, <2>2, QuietSequence DEF CreateWork, Goto, Labels
<1>9. CASE CreateFails(p)
  <2>1. Knows("undoBranch", p)
    BY <1>1, <1>9 DEF CreateFails, Knows, Loaded, CreateLabels
  <2> QED BY <1>9, <2>1, StepSequence DEF CreateFails, Labels
<1>10. CASE CreateSave(p)
  <2>1. /\ disk = NoManifest /\ m[p].status = "created"
    BY <1>1, <1>10 DEF CreateSave, Knows, CreateLabels
  <2>2. /\ disk' = m[p] /\ clock' \in {clock, clock + 1}
        /\ pc'[p] = "mirror" /\ \A q \in Procs : q = p
        /\ UNCHANGED <<m, ref, receipts, landed, reviewed, branch, dirty>>
    BY <1>10, SequenceTypes DEF CreateSave, Goto, repoVars, treeVars, Lone
  <2>3. disk' # NoManifest /\ disk'.captures \subseteq receipts
    BY <2>1, <2>2 DEF NoManifest, SequenceInv, Sequence, Whole
  <2>4. disk'.at <= clock' /\ ref'.at <= clock' /\ m'[p].at <= clock'
    BY <2>2, SequenceTypes DEF SequenceInv, Sequence, Whole
  <2>5. Whole'
    BY <1>2, <2>1, <2>2, <2>3, <2>4 DEF SequenceInv, Sequence, Whole, OnlyReviewedLands,
       EvidenceExists, SyncNeverRollsBack, Newer
  <2>6. Knows("mirror", p)'
    BY <2>2, <2>3 DEF Knows, CreateLabels
  <2> QED BY <2>2, <2>5, <2>6 DEF Sequence
<1>11. CASE Undo(p)
  <2>1. disk = NoManifest
    BY <1>1, <1>11 DEF Undo, Knows, CreateLabels
  <2>2. pc'[p] = "idle" /\ m'[p] = NoManifest /\ \A q \in Procs : q = p
    BY <1>11, SequenceTypes DEF Undo, Gone, Lone
  <2>3. Whole'
    BY <1>2, <1>11, <2>1, <2>2, EraseSequence DEF Undo
  <2>4. Knows("idle", p)'
    BY DEF Knows, Loaded, CreateLabels
  <2> QED BY <2>2, <2>3, <2>4 DEF Sequence
<1> QED BY <1>3, <1>4, <1>5, <1>6, <1>7, <1>8, <1>9, <1>10, <1>11 DEF CreateSteps

LEMMA OtherSequence ==
  ASSUME Lone, SequenceInv, NEW p \in Procs,
         \/ Mirror(p) \/ Exec(p) \/ StopWatching(p) \/ EndShare(p) \/ Crash(p)
         \/ ShareSteps(p)
  PROVE  Sequence'
<1>1. Knows(pc[p], p)
  BY DEF SequenceInv, Sequence
<1>2. CASE Mirror(p)
  <2>1. m[p] = disk /\ disk # NoManifest
    BY <1>1, <1>2 DEF Mirror, Knows, Loaded, CreateLabels, Labels
  <2>2. /\ ref' = disk /\ pc'[p] = "idle" /\ m'[p] = NoManifest /\ \A q \in Procs : q = p
        /\ UNCHANGED <<disk, receipts, landed, reviewed, branch, dirty, clock>>
    BY <1>2, <2>1, SequenceTypes DEF Mirror, Gone, treeVars, dirVars, Lone
  <2>3. NoManifest.captures = {} /\ NoManifest.at = 0
    BY DEF NoManifest
  <2>4. Whole'
    BY <2>1, <2>2, <2>3, SequenceTypes DEF SequenceInv, Sequence, Whole, OnlyReviewedLands,
       EvidenceExists, SyncNeverRollsBack, Newer
  <2>5. Knows("idle", p)'
    BY DEF Knows, Loaded, CreateLabels
  <2> QED BY <2>2, <2>4, <2>5 DEF Sequence
<1>3. CASE Exec(p)
  <2>1. UNCHANGED <<verb, m, disk, ref, receipts, landed, reviewed>>
        /\ clock' \in {clock, clock + 1}
    BY <1>3 DEF Exec, dirVars
  <2>2. disk.status = "running"
    BY <1>1, <1>3 DEF Exec, Knows
  <2>3. Knows("record", p)'
    BY <1>1, <1>3, <2>1 DEF Exec, Knows, Loaded, CreateLabels, Labels
  <2> QED BY <1>3, <2>1, <2>2, <2>3, QuietSequence DEF Exec, Goto, Labels
<1>4. CASE StopWatching(p)
  BY <1>4, LeaveSequence DEF StopWatching
<1>5. CASE EndShare(p)
  BY <1>5, GoneSequence DEF EndShare, repoVars, treeVars
<1>6. CASE Crash(p)
  BY <1>6, GoneSequence DEF Crash, repoVars, treeVars, dirVars
<1>7. CASE ShareCheck(p)
  <2>1. Knows("gateOpen", p)
    BY <1>1, <1>7 DEF ShareCheck, Knows, Loaded, CreateLabels, Labels
  <2> QED BY <1>7, <2>1, StepSequence, LeaveSequence DEF ShareCheck, Labels
<1>8. CASE Claim(p)
  <2>1. CASE Leave(p)
    BY <2>1, LeaveSequence
  <2>2. CASE ~Leave(p)
    <3>1. /\ Goto(p, "sharing") /\ clock' = clock + 1
          /\ UNCHANGED <<verb, m, disk, ref, receipts, landed, reviewed, branch, dirty>>
      BY <1>8, <2>2 DEF Claim, repoVars, treeVars
    <3>2. Knows("sharing", p)'
      BY DEF Knows, Loaded, CreateLabels
    <3> QED BY <3>1, <3>2, QuietSequence DEF Goto, Labels
  <2> QED BY <2>1, <2>2
<1> QED BY <1>2, <1>3, <1>4, <1>5, <1>6, <1>7, <1>8 DEF ShareSteps

LEMMA EnterSequence ==
  ASSUME Lone, SequenceInv, NEW p \in Procs, NEW v \in Verbs, Enter(p, v)
  PROVE  Sequence'
<1>1. PICK l \in {"find", "sync"} : pc' = [pc EXCEPT ![p] = l]
  BY DEF Enter, Goto
<1>2. UNCHANGED <<m, disk, ref, receipts, landed, reviewed, branch, dirty, clock>>
  BY DEF Enter, repoVars, treeVars, dirVars
<1>3. Knows(l, p)'
  BY DEF Knows, Loaded, CreateLabels
<1> QED BY <1>1, <1>2, <1>3, QuietSequence DEF Labels

LEMMA NextSequence ==
  ASSUME Lone, SequenceInv, [Next]_vars
  PROVE  SequenceInv'
<1>1. TypeInv'
  BY NextTypes DEF SequenceInv
<1>2. UNCHANGED vars => Sequence'
  BY DEF vars, SequenceInv, Sequence, Whole, Knows, OnlyReviewedLands, EvidenceExists,
         SyncNeverRollsBack, Newer
<1>3. ASSUME NEW p \in Procs, Advance(p) PROVE Sequence'
  BY <1>3, StartSequence, SessionSequence, ProposeSequence, GateSequence, RebaseSequence,
     ApplySequence, AbortSequence, GcSequence, RmSequence, CreateSequence, OtherSequence
  DEF Advance
<1>4. ASSUME NEW p \in Procs, NEW v \in Verbs, Enter(p, v) PROVE Sequence'
  BY <1>4, EnterSequence
<1>5. ASSUME NEW p \in Procs, Exec(p) \/ StopWatching(p) \/ EndShare(p) \/ Crash(p)
      PROVE  Sequence'
  BY <1>5, OtherSequence
<1>6. Next => Sequence'
  BY <1>3, <1>4, <1>5 DEF Next
<1> QED BY <1>1, <1>2, <1>6 DEF SequenceInv

LEMMA InitSequence == Init => SequenceInv
<1> SUFFICES ASSUME Init PROVE SequenceInv
  OBVIOUS
<1>1. PICK s \in StartStates :
        LET here == s # "absent"
            one == IF here THEN 1 ELSE 0
            tips == {1}
        IN /\ dir = one
           /\ disk = IF here THEN [made |-> 1, status |-> s, at |-> 1, captures |-> {}]
                             ELSE NoManifest
           /\ work = one
           /\ branch = one
           /\ reviewed = IF s \in {"proposed", "applied"} THEN tips ELSE {}
           /\ landed = IF s = "applied" THEN tips ELSE {}
           /\ clock = one
  BY DEF Init
<1>2. /\ dirty = FALSE /\ receipts = {} /\ ref = disk
      /\ \A p \in Procs : pc[p] = "idle" /\ m[p] = NoManifest
  BY DEF Init
<1>3. NoManifest.captures = {} /\ NoManifest.at = 0 /\ NoManifest.status = "absent"
  BY DEF NoManifest
<1>4. /\ disk.captures = {} /\ disk.at <= clock /\ clock \in {0, 1}
      /\ disk.status = "absent" => disk = NoManifest
      /\ disk.status = "proposed" => branch \in reviewed
      /\ landed \subseteq reviewed
  BY <1>1, <1>3
<1>5. disk.at \in Nat
  BY InitTypes DEF TypeInv, BoxOK, Manifest
<1>6. Whole
  BY <1>2, <1>3, <1>4, <1>5 DEF Whole, OnlyReviewedLands, EvidenceExists,
     SyncNeverRollsBack, Newer
<1>7. \A p \in Procs : Knows(pc[p], p)
  BY <1>2 DEF Knows, Loaded, CreateLabels
<1> QED BY <1>6, <1>7, InitTypes DEF SequenceInv, Sequence

(* Whatever lands on the parent branch was frozen by a propose, when one      *)
(* command follows the other (OnlyReviewedLands): no edit, commit or rebase   *)
(* comes between the propose and the apply without undoing the propose.       *)
THEOREM LandedWasReviewed ==
  ASSUME Lone
  PROVE  Spec => []OnlyReviewedLands
<1>1. SequenceInv => OnlyReviewedLands
  BY DEF SequenceInv, Sequence, Whole
<1> QED BY <1>1, InitSequence, NextSequence, PTL DEF Spec

(* The manifest on disk names only receipts that are in the log, when one     *)
(* command follows the other, kills, rm and create included (EvidenceExists). *)
THEOREM EvidenceIsThere ==
  ASSUME Lone
  PROVE  Spec => []EvidenceExists
<1>1. SequenceInv => EvidenceExists
  BY DEF SequenceInv, Sequence, Whole
<1> QED BY <1>1, InitSequence, NextSequence, PTL DEF Spec

(* The ref is never ahead of the file, when one command follows the other, so *)
(* that no sync undoes what a command killed before its mirror had saved      *)
(* (SyncNeverRollsBack).                                                      *)
THEOREM NoRollBack ==
  ASSUME Lone
  PROVE  Spec => []SyncNeverRollsBack
<1>1. SequenceInv => SyncNeverRollsBack
  BY DEF SequenceInv, Sequence, Whole
<1> QED BY <1>1, InitSequence, NextSequence, PTL DEF Spec

-----------------------------------------------------------------------------
(* A sequence of commands implements the status machine.                    *)

Turn == disk'.status = disk.status \/ Machine!Next

LEMMA SaveTurns ==
  ASSUME SequenceInv, NEW p \in Procs, NEW s \in Status, NEW l, SaveStatus(p, s, l)
  PROVE  disk'.status = s
  BY SequenceTypes DEF SaveStatus, Manifest

LEMMA AdvanceTurns ==
  ASSUME SequenceInv, NEW p \in Procs, Advance(p)
  PROVE  Turn
<1> USE DEF Turn
<1>1. Knows(pc[p], p)
  BY DEF SequenceInv, Sequence
<1>2. CASE StartSteps(p)
  <2>1. ~Materialize(p)
    BY <1>1 DEF Materialize, Knows
  <2>2. disk' = disk
    BY <1>2, <2>1 DEF StartSteps, ReadRef, Compare, Load, NotFound, Step, Leave, dirVars
  <2> QED BY <2>2
<1>3. CASE SessionSteps(p)
  <2>1. CASE StartRunning(p)
    <3>1. disk.status \in Active
      BY <1>1, <2>1 DEF StartRunning, Knows
    <3>2. disk'.status = "running"
      BY <2>1, SaveTurns DEF StartRunning, Status
    <3> QED BY <3>1, <3>2 DEF Machine!Next, Machine!Run, Active
  <2>2. CASE GoIdle(p)
    <3>1. disk.status = "running"
      BY <1>1, <2>2 DEF GoIdle, Knows
    <3>2. disk'.status = "idle"
      BY <2>2, SaveTurns DEF GoIdle, Status
    <3> QED BY <3>1, <3>2 DEF Machine!Next, Machine!Rest
  <2>3. CASE ~StartRunning(p) /\ ~GoIdle(p)
    <3>1. disk' = disk
      BY <1>3, <2>3 DEF SessionSteps, SessionCheck, SessionLock, PrepareFails, MirrorRunning,
         Record, NothingToRecord, RecordFails, TryLock, Step, Leave, dirVars
    <3> QED BY <3>1
  <2> QED BY <2>1, <2>2, <2>3
<1>4. CASE ProposeSteps(p)
  <2>1. CASE Propose(p)
    <3>1. disk.status \in Proposable
      BY <1>1, <2>1 DEF Propose, Knows
    <3>2. disk'.status = "proposed"
      BY <2>1, SaveTurns DEF Propose, Status
    <3> QED BY <3>1, <3>2 DEF Machine!Next, Machine!Propose, Proposable, Active
  <2>2. CASE ~Propose(p)
    <3>1. disk' = disk
      BY <1>4, <2>2 DEF ProposeSteps, ProposeLock, Snapshot, SnapshotRefused, TryLock, Leave,
         dirVars
    <3> QED BY <3>1
  <2> QED BY <2>1, <2>2
<1>5. CASE GateSteps(p)
  <2>1. disk' = disk
    BY <1>5 DEF GateSteps, GateOpen, GateTake, GateTimeout, Leave, dirVars
  <2> QED BY <2>1
<1>6. CASE RebaseSteps(p)
  <2>1. CASE RebaseSave(p)
    <3>1. disk.status \in Active /\ m[p] = disk
      BY <1>1, <2>1 DEF RebaseSave, Knows, Loaded, Labels, CreateLabels
    <3>2. disk'.status = IF disk.status = "created" THEN "created" ELSE "idle"
      BY <2>1, <3>1, SaveTurns DEF RebaseSave, Status
    <3> QED BY <3>1, <3>2 DEF Machine!Next, Machine!Rest, Active
  <2>2. CASE ~RebaseSave(p)
    <3>1. disk' = disk
      BY <1>6, <2>2 DEF RebaseSteps, RebaseGate, RebaseLock, RebaseDrift, RebaseNothing,
         RebaseConflict, RebaseCommit, RefuseIfShared, TryLock, Step, Leave, dirVars
    <3> QED BY <3>1
  <2> QED BY <2>1, <2>2
<1>7. CASE ApplySteps(p)
  <2>1. CASE ApplySave(p)
    <3>1. disk.status = "proposed"
      BY <1>1, <2>1 DEF ApplySave, Knows
    <3>2. disk'.status = "applied"
      BY <2>1, SaveTurns DEF ApplySave, Status
    <3> QED BY <3>1, <3>2 DEF Machine!Next, Machine!Apply
  <2>2. CASE ~ApplySave(p)
    <3>1. disk' = disk
      BY <1>7, <2>2 DEF ApplySteps, ApplyGate, ApplyLock, ApplyRefused, ApplyLand,
         RefuseIfShared, TryLock, Step, Leave, dirVars
    <3> QED BY <3>1
  <2> QED BY <2>1, <2>2
<1>8. CASE AbortSteps(p)
  <2>1. CASE Abort(p)
    <3>1. disk.status # "applied" /\ disk # NoManifest
      BY <1>1, <2>1 DEF Abort, Knows, Loaded, Labels, CreateLabels
    <3>2. disk.status # "absent"
      BY <3>1 DEF SequenceInv, Sequence, Whole
    <3>3. disk'.status = "aborted"
      BY <2>1, SaveTurns DEF Abort, Status
    <3> QED BY <3>1, <3>2, <3>3 DEF Machine!Next, Machine!Abort
  <2>2. CASE ~Abort(p)
    <3>1. disk' = disk
      BY <1>8, <2>2 DEF AbortSteps, AbortGate, AbortLock, RefuseIfShared, TryLock, Step,
         Leave, dirVars
    <3> QED BY <3>1
  <2> QED BY <2>1, <2>2
<1>9. CASE GcSteps(p)
  <2>1. GcSave(p) => m[p] = disk
    BY <1>1 DEF GcSave, Knows, Loaded, Labels, CreateLabels
  <2>2. disk' = disk
    BY <1>9, <2>1 DEF GcSteps, GcList, GcWork, GcLock, GcDrain, GcShare, GcPrune, GcSave,
       PruneWorkspace, RefuseIfShared, TryLock, Step, Leave, dirVars
  <2> QED BY <2>2
<1>10. CASE RmSteps(p)
  <2>1. disk' = disk \/ disk' = NoManifest
    BY <1>10 DEF RmSteps, RmGate, RmLock, RmDrain, RmPrune, RmBranch, RmStrip, RmErase,
       EraseDir, PruneWorkspace, TryLock, Step, Leave, dirVars
  <2> QED BY <2>1 DEF NoManifest, Machine!Next, Machine!Remove
<1>11. CASE CreateSteps(p)
  <2>1. pc[p] \in CreateLabels \ {"createCheck"} => disk = NoManifest
    BY <1>1 DEF Knows
  <2>2. CASE CreateSave(p)
    <3>1. disk = NoManifest /\ disk' = m[p] /\ m[p].status = "created"
      BY <1>1, <2>1, <2>2 DEF CreateSave, Knows, CreateLabels
    <3> QED BY <3>1 DEF NoManifest, Machine!Next, Machine!Create
  <2>3. CASE ~CreateSave(p)
    <3>1. disk' = disk
      BY <1>11, <2>1, <2>3 DEF CreateSteps, CreateCheck, CreateRefused, CreateMkdir,
         CreateBranch, NoBranch, CreateWork, CreateFails, Undo, EraseDir, Step, Leave,
         dirVars, CreateLabels
    <3> QED BY <3>1
  <2> QED BY <2>2, <2>3
<1>12. CASE ShareSteps(p) \/ Mirror(p)
  <2>1. disk' = disk
    BY <1>12 DEF ShareSteps, ShareCheck, Claim, Mirror, Step, Leave, dirVars
  <2> QED BY <2>1
<1> QED BY <1>2, <1>3, <1>4, <1>5, <1>6, <1>7, <1>8, <1>9, <1>10, <1>11, <1>12 DEF Advance

(* A sequence of box commands, wherever one of them dies, moves the status on *)
(* disk as the machine of BoxStatus does (FollowsMachine).                    *)
THEOREM ImplementsMachine ==
  ASSUME Lone
  PROVE  Spec => FollowsMachine
<1>1. Init => Machine!Init
  <2>1. Init => disk \in Manifest
    BY InitSequence, SequenceTypes
  <2>2. disk \in Manifest => disk.status \in Status \cup {"absent"}
    BY DEF Manifest
  <2> QED BY <2>1, <2>2 DEF Machine!Init, Status
<1>2. SequenceInv /\ [Next]_vars => [Machine!Next]_(disk.status)
  <2> SUFFICES ASSUME SequenceInv, [Next]_vars PROVE Turn
    BY DEF Turn
  <2>1. UNCHANGED vars => Turn
    BY DEF vars, Turn
  <2>2. ASSUME NEW p \in Procs, NEW v \in Verbs, Enter(p, v) PROVE Turn
    BY <2>2 DEF Enter, dirVars, Turn
  <2>3. ASSUME NEW p \in Procs, Exec(p) \/ StopWatching(p) \/ EndShare(p) \/ Crash(p)
        PROVE  Turn
    BY <2>3 DEF Exec, StopWatching, EndShare, Crash, Leave, dirVars, Turn
  <2> QED BY <2>1, <2>2, <2>3, AdvanceTurns DEF Next
<1>3. Spec => []SequenceInv
  BY InitSequence, NextSequence, PTL DEF Spec
<1> QED BY <1>1, <1>2, <1>3, PTL DEF Spec, FollowsMachine, Machine!Spec

-----------------------------------------------------------------------------
(* Beside each other, commands pass on what a manifest names but never add  *)
(* to it before the receipt is written; only rm and create drop receipts.   *)

Logged == /\ EvidenceExists
          /\ ref.captures \subseteq receipts
          /\ \A p \in Procs : /\ m[p].captures \subseteq receipts
                              /\ verb[p] \notin {"rm", "rmForce"}
LogInv == TearInv /\ Logged

Copies(p) ==
    /\ receipts \subseteq receipts'
    /\ disk' = disk \/ disk'.captures = m[p].captures
    /\ ref' = ref \/ ref' = m[p]
    /\ \A q \in Procs \ {p} : m'[q] = m[q]
    /\ m'[p].captures \subseteq receipts' \cup disk.captures \cup ref.captures \cup m[p].captures

LEMMA CopiesLogged ==
  ASSUME LogInv, NEW p \in Procs, Copies(p),
         \A q \in Procs : verb'[q] = verb[q] \/ verb'[q] \notin {"rm", "rmForce"}
  PROVE  Logged'
  BY DEF LogInv, Logged, EvidenceExists, Copies

LEMMA GoneLogged ==
  ASSUME LogInv, NEW p \in Procs, Gone(p), receipts' = receipts,
         disk' = disk \/ disk' = m[p], ref' = ref \/ ref' = m[p]
  PROVE  Logged'
<1>1. /\ m'[p] = NoManifest /\ \A q \in Procs \ {p} : m'[q] = m[q]
      /\ \A q \in Procs : verb'[q] = verb[q] \/ verb'[q] \notin {"rm", "rmForce"}
  BY ProcTypes DEF Gone, LogInv
<1>2. m'[p].captures = {}
  BY <1>1 DEF NoManifest
<1>3. Copies(p)
  BY <1>1, <1>2 DEF Copies
<1> QED BY <1>1, <1>3, CopiesLogged

LEMMA MoveLogged ==
  ASSUME LogInv, NEW p \in Procs, UNCHANGED <<verb, m>>, receipts' = receipts,
         disk' = disk, ref' = ref \/ ref' = m[p]
  PROVE  Logged'
<1>1. Copies(p)
  BY DEF Copies
<1> QED BY <1>1, CopiesLogged

LEMMA FlockLogged ==
  ASSUME LogInv, NEW p \in Procs, NEW kind, NEW ok \in BOOLEAN, NEW l, TryLock(p, kind, ok, l)
  PROVE  Logged'
  BY GoneLogged, MoveLogged DEF TryLock, Leave, repoVars, dirVars

LEMMA SaveLogged ==
  ASSUME LogInv, NEW p \in Procs, NEW s \in Status, NEW l, SaveStatus(p, s, l)
  PROVE  Logged'
<1>1. disk' = [m[p] EXCEPT !.status = s, !.at = clock + 1] /\ m' = [m EXCEPT ![p] = disk']
  BY DEF SaveStatus
<1>2. m[p] \in Manifest /\ m'[p] = disk' /\ \A q \in Procs \ {p} : m'[q] = m[q]
  BY <1>1, ProcTypes DEF LogInv
<1>3. disk'.captures = m[p].captures
  BY <1>1, <1>2 DEF Manifest
<1>4. Copies(p)
  BY <1>2, <1>3 DEF SaveStatus, Copies
<1> QED BY <1>4, CopiesLogged DEF SaveStatus

LEMMA AdvanceLogged ==
  ASSUME LogInv, NEW p \in Procs, Advance(p)
  PROVE  Logged'
<1> USE DEF Leave, Step, repoVars, dirVars
<1>1. ~CreateSteps(p) /\ m \in [Procs -> Manifest]
  BY CreateLocks, ProcTypes DEF LogInv, TearInv
<1>2. CASE StartSteps(p)
  <2>1. CASE NotFound(p)
    BY <2>1, GoneLogged, MoveLogged DEF NotFound
  <2>2. CASE ReadRef(p) \/ Compare(p) \/ Materialize(p) \/ Load(p)
    <3>1. /\ m'[p] \in {m[p], disk, ref, NoManifest} /\ \A q \in Procs \ {p} : m'[q] = m[q]
          /\ receipts' = receipts /\ ref' = ref /\ verb' = verb
          /\ disk' = disk \/ disk' = m[p]
      BY <1>1, <2>2 DEF ReadRef, Compare, Materialize, Load
    <3>2. Copies(p)
      BY <3>1 DEF Copies, NoManifest
    <3> QED BY <3>1, <3>2, CopiesLogged
  <2> QED BY <1>2, <2>1, <2>2 DEF StartSteps
<1>3. CASE SessionSteps(p)
  <2>1. CASE Record(p)
    <3>1. /\ m'[p] = [m[p] EXCEPT !.captures = @ \cup {clock + 1}]
          /\ \A q \in Procs \ {p} : m'[q] = m[q]
          /\ receipts' = receipts \cup {clock + 1} /\ UNCHANGED <<disk, ref, verb>>
      BY <1>1, <2>1 DEF Record, LogReceipt
    <3>2. m'[p].captures = m[p].captures \cup {clock + 1}
      BY <1>1, <3>1 DEF Manifest
    <3>3. Copies(p)
      BY <3>1, <3>2 DEF Copies
    <3> QED BY <3>1, <3>3, CopiesLogged
  <2>2. CASE SessionLock(p)
    BY <2>2, FlockLogged DEF SessionLock
  <2>3. CASE StartRunning(p) \/ GoIdle(p)
    BY <2>3, SaveLogged DEF StartRunning, GoIdle, Status
  <2>4. CASE SessionCheck(p) \/ PrepareFails(p) \/ MirrorRunning(p) \/ NothingToRecord(p)
             \/ RecordFails(p)
    BY <2>4, GoneLogged, MoveLogged
       DEF SessionCheck, PrepareFails, MirrorRunning, NothingToRecord, RecordFails
  <2> QED BY <1>3, <2>1, <2>2, <2>3, <2>4 DEF SessionSteps
<1>4. CASE ProposeSteps(p)
  <2>1. CASE ProposeLock(p)
    <3>1. TryLock(p, "run", TRUE, "snapshot") \/ Leave(p)
      BY <2>1 DEF ProposeLock, TryLock
    <3> QED BY <3>1, FlockLogged, GoneLogged
  <2>2. CASE Propose(p)
    BY <2>2, SaveLogged DEF Propose, Status
  <2>3. CASE Snapshot(p) \/ SnapshotRefused(p)
    BY <2>3, GoneLogged, MoveLogged DEF Snapshot, SnapshotRefused
  <2> QED BY <1>4, <2>1, <2>2, <2>3 DEF ProposeSteps
<1>5. CASE GateSteps(p)
  BY <1>5, GoneLogged, MoveLogged DEF GateSteps, GateOpen, GateTake, GateTimeout
<1>6. CASE RebaseSteps(p)
  <2>1. CASE RebaseLock(p)
    <3>1. TryLock(p, "run", TRUE, "drift") \/ Leave(p)
      BY <2>1 DEF RebaseLock, TryLock
    <3> QED BY <3>1, FlockLogged, GoneLogged
  <2>2. CASE RebaseSave(p)
    BY <2>2, SaveLogged DEF RebaseSave, Status
  <2>3. CASE RebaseGate(p) \/ RebaseDrift(p) \/ RebaseNothing(p) \/ RebaseConflict(p)
             \/ RebaseCommit(p)
    BY <2>3, GoneLogged, MoveLogged DEF RebaseGate, RefuseIfShared, RebaseDrift,
       RebaseNothing, RebaseConflict, RebaseCommit
  <2> QED BY <1>6, <2>1, <2>2, <2>3 DEF RebaseSteps
<1>7. CASE ApplySteps(p)
  <2>1. CASE ApplyLock(p)
    <3>1. TryLock(p, "run", TRUE, "land") \/ Leave(p)
      BY <2>1 DEF ApplyLock, TryLock
    <3> QED BY <3>1, FlockLogged, GoneLogged
  <2>2. CASE ApplySave(p)
    BY <2>2, SaveLogged DEF ApplySave, Status
  <2>3. CASE ApplyGate(p) \/ ApplyRefused(p) \/ ApplyLand(p)
    BY <2>3, GoneLogged, MoveLogged DEF ApplyGate, RefuseIfShared, ApplyRefused, ApplyLand
  <2> QED BY <1>7, <2>1, <2>2, <2>3 DEF ApplySteps
<1>8. CASE AbortSteps(p)
  <2>1. CASE AbortLock(p)
    <3>1. TryLock(p, "run", TRUE, "saveAborted") \/ Leave(p)
      BY <2>1 DEF AbortLock, TryLock
    <3> QED BY <3>1, FlockLogged, GoneLogged
  <2>2. CASE Abort(p)
    BY <2>2, SaveLogged DEF Abort, Status
  <2>3. CASE AbortGate(p)
    BY <2>3, GoneLogged, MoveLogged DEF AbortGate, RefuseIfShared
  <2> QED BY <1>8, <2>1, <2>2, <2>3 DEF AbortSteps
<1>9. CASE GcSteps(p)
  <2>1. CASE GcList(p)
    <3>1. CASE m' = [m EXCEPT ![p] = disk] /\ UNCHANGED <<verb, disk, ref, receipts>>
      <4>1. Copies(p)
        BY <1>1, <3>1 DEF Copies
      <4> QED BY <3>1, <4>1, CopiesLogged
    <3>2. CASE Leave(p)
      BY <3>2, GoneLogged
    <3> QED BY <2>1, <3>1, <3>2 DEF GcList
  <2>2. CASE GcLock(p) \/ GcDrain(p)
    BY <2>2, FlockLogged DEF GcLock, GcDrain
  <2>3. CASE GcWork(p) \/ GcShare(p) \/ GcPrune(p) \/ GcSave(p)
    BY <2>3, GoneLogged, MoveLogged DEF GcWork, GcShare, RefuseIfShared, GcPrune,
       PruneWorkspace, GcSave
  <2> QED BY <1>9, <2>1, <2>2, <2>3 DEF GcSteps
<1>10. CASE RmSteps(p)
  BY <1>10 DEF RmSteps, RmGate, RmLock, RmDrain, RmPrune, RmBranch, RmStrip, RmErase, LogInv,
     Logged, TearInv, Tears, Duty, RmLabels
<1>11. CASE ShareSteps(p)
  BY <1>11, GoneLogged, MoveLogged DEF ShareSteps, ShareCheck, Claim
<1>12. CASE Mirror(p)
  BY <1>12, GoneLogged DEF Mirror
<1> QED BY <1>1, <1>2, <1>3, <1>4, <1>5, <1>6, <1>7, <1>8, <1>9, <1>10, <1>11, <1>12
        DEF Advance

(* Whatever commands run beside each other, and wherever they are killed, the *)
(* manifest on disk names only receipts that are in the log, as long as       *)
(* nobody removes or creates the box meanwhile (EvidenceExists).              *)
THEOREM EvidenceBesideOthers ==
  ASSUME Verbs \cap {"create", "rm", "rmForce"} = {}
  PROVE  Spec => []EvidenceExists
<1>1. Init => LogInv
  <2>1. Init => disk.captures = {} /\ ref = disk
    BY DEF Init, NoManifest
  <2>2. Init => \A p \in Procs : m[p] = NoManifest /\ verb[p] = "none"
    BY DEF Init
  <2> QED BY <2>1, <2>2, InitTears DEF LogInv, Logged, EvidenceExists, NoManifest
<1>2. ASSUME LogInv, [Next]_vars PROVE LogInv'
  <2>1. TearInv'
    BY <1>2, NextTears DEF LogInv
  <2>2. UNCHANGED vars => Logged'
    BY <1>2 DEF vars, LogInv, Logged, EvidenceExists
  <2>3. ASSUME NEW p \in Procs, NEW v \in Verbs, Enter(p, v) PROVE Logged'
    <3>1. /\ UNCHANGED <<disk, ref, receipts, m>>
          /\ \A q \in Procs : verb'[q] = verb[q] \/ verb'[q] \notin {"rm", "rmForce"}
      BY <1>2, <2>3, ProcTypes DEF Enter, LogInv, repoVars, dirVars
    <3>2. Copies(p)
      BY <3>1 DEF Copies
    <3> QED BY <1>2, <3>1, <3>2, CopiesLogged
  <2>4. ASSUME NEW p \in Procs, Exec(p) \/ StopWatching(p) \/ EndShare(p) \/ Crash(p)
        PROVE  Logged'
    BY <1>2, <2>4, GoneLogged, MoveLogged
       DEF Exec, StopWatching, EndShare, Crash, Leave, repoVars, dirVars
  <2> QED BY <1>2, <2>1, <2>2, <2>3, <2>4, AdvanceLogged DEF Next, LogInv
<1>3. LogInv => EvidenceExists
  BY DEF LogInv, Logged
<1> QED BY <1>1, <1>2, <1>3, PTL DEF Spec

-----------------------------------------------------------------------------
(* Beside each other, commands that neither make nor remove the box, nor    *)
(* collect it, never write a manifest older than the one on disk: a save is *)
(* stamped under run.lock, and what a sync has read is not newer than the   *)
(* file. gc writes back the copy of its list as it is; rm lets two syncs in *)
(* that have both found no file.                                            *)

Unsettling == {"create", "gc", "rm", "rmForce"}
(* Where the copy in memory is what goes to the file or to the ref next.    *)
Carrying == {"materialize", "mirrorRunning", "mirror"}

NotAhead(x) == x # NoManifest => disk # NoManifest /\ x.at <= disk.at

Fresh == /\ NotAhead(ref)
         /\ \A p \in Procs : /\ pc[p] # "import"
                             /\ pc[p] \in Carrying => NotAhead(m[p])
                             /\ verb[p] \notin Unsettling
FreshInv == GuardInv /\ Fresh

(* What a step of p may do to the manifest, here and in the ref.            *)
Onward(p) ==
    /\ disk' = disk \/ (disk' # NoManifest /\ disk.at <= disk'.at)
    /\ ref' = ref \/ (ref' = m[p] /\ pc[p] \in Carrying)
    /\ disk'.at \in Nat
    /\ \A q \in Procs \ {p} : m'[q] = m[q] /\ pc'[q] = pc[q]
    /\ \A q \in Procs : verb'[q] = verb[q] \/ verb'[q] \notin Unsettling
    /\ pc'[p] # "import"
    /\ pc'[p] \in Carrying => NotAhead(m[p])'

LEMMA OnwardFresh ==
  ASSUME FreshInv, NEW p \in Procs, Onward(p)
  PROVE  Fresh'
<1>1. /\ disk.at \in Nat /\ ref.at \in Nat /\ \A q \in Procs : m[q].at \in Nat
      /\ disk'.at \in Nat
  BY GuardTypes DEF FreshInv, Onward
<1>2. \A x \in Manifest : NotAhead(x) => (x # NoManifest => disk' # NoManifest /\ x.at <= disk'.at)
  <2>1. \A x \in Manifest : x.at \in Nat
    BY DEF Manifest
  <2> QED BY <1>1, <2>1 DEF NotAhead, Onward
<1>3. ref \in Manifest /\ \A q \in Procs : m[q] \in Manifest
  BY GuardTypes DEF FreshInv
<1>4. NotAhead(ref)'
  <2>1. ref' \in Manifest /\ NotAhead(ref')
    BY <1>3 DEF FreshInv, Fresh, Onward
  <2> QED BY <1>2, <2>1 DEF NotAhead
<1>5. ASSUME NEW q \in Procs, pc'[q] \in Carrying PROVE NotAhead(m[q])'
  <2>1. CASE q = p
    BY <1>5, <2>1 DEF Onward
  <2>2. CASE q # p
    <3>1. m'[q] = m[q] /\ NotAhead(m[q])
      BY <1>5, <2>2 DEF FreshInv, Fresh, Onward
    <3> QED BY <1>2, <1>3, <3>1 DEF NotAhead
  <2> QED BY <2>1, <2>2
<1>6. ASSUME NEW q \in Procs PROVE pc'[q] # "import" /\ verb'[q] \notin Unsettling
  BY DEF FreshInv, Fresh, Onward
<1> QED BY <1>4, <1>5, <1>6 DEF Fresh

LEMMA GoneFresh ==
  ASSUME FreshInv, NEW p \in Procs, Gone(p), disk' = disk,
         ref' = ref \/ (ref' = m[p] /\ pc[p] \in Carrying)
  PROVE  Onward(p)
<1>1. /\ pc'[p] = "idle" /\ \A q \in Procs \ {p} : m'[q] = m[q] /\ pc'[q] = pc[q]
      /\ \A q \in Procs : verb'[q] = verb[q] \/ verb'[q] \notin Unsettling
  BY GuardTypes DEF Gone, FreshInv, Unsettling
<1>2. disk'.at \in Nat
  BY GuardTypes DEF FreshInv
<1> QED BY <1>1, <1>2 DEF Onward, Carrying

LEMMA MoveFresh ==
  ASSUME FreshInv, NEW p \in Procs, NEW l, Goto(p, l), l \notin Carrying \cup {"import"},
         verb' = verb,
         \A q \in Procs \ {p} : m'[q] = m[q], disk' = disk,
         ref' = ref \/ (ref' = m[p] /\ pc[p] \in Carrying)
  PROVE  Onward(p)
<1>1. pc'[p] = l /\ \A q \in Procs \ {p} : pc'[q] = pc[q]
  BY GuardTypes DEF Goto, FreshInv
<1>2. disk'.at \in Nat
  BY GuardTypes DEF FreshInv
<1> QED BY <1>1, <1>2 DEF Onward

LEMMA FlockFresh ==
  ASSUME FreshInv, NEW p \in Procs, NEW kind, NEW ok \in BOOLEAN, NEW l,
         l \notin Carrying \cup {"import"},
         TryLock(p, kind, ok, l)
  PROVE  Onward(p)
<1>1. CASE Leave(p)
  BY <1>1, GoneFresh DEF Leave, repoVars, dirVars
<1>2. CASE ~Leave(p)
  <2>1. Goto(p, l) /\ UNCHANGED <<verb, m, ref, disk>>
    BY <1>2 DEF TryLock, repoVars, dirVars
  <2> QED BY <2>1, MoveFresh
<1> QED BY <1>1, <1>2

(* A save is stamped later than all there is.                               *)
LEMMA SaveFresh ==
  ASSUME FreshInv, NEW p \in Procs, NEW s \in Status, NEW l, l # "import", SaveStatus(p, s, l)
  PROVE  Onward(p)
<1>1. /\ m' = [m EXCEPT ![p] = disk'] /\ disk' = [m[p] EXCEPT !.status = s, !.at = clock + 1]
      /\ Goto(p, l) /\ UNCHANGED <<ref, verb>>
  BY DEF SaveStatus
<1>2. disk'.at = clock + 1 /\ disk'.status = s
  BY <1>1, GuardTypes DEF Manifest, FreshInv
<1>3. disk' # NoManifest
  BY <1>2 DEF NoManifest, Status
<1>4. /\ m'[p] = disk' /\ pc'[p] = l /\ \A q \in Procs \ {p} : m'[q] = m[q] /\ pc'[q] = pc[q]
  BY <1>1, GuardTypes DEF Goto, FreshInv
<1>5. disk.at <= disk'.at /\ disk'.at \in Nat /\ disk'.at <= disk'.at
  BY <1>2, GuardTypes DEF FreshInv, GuardInv, Guards, Past
<1>6. NotAhead(m[p])'
  BY <1>3, <1>4, <1>5 DEF NotAhead
<1> QED BY <1>1, <1>3, <1>4, <1>5, <1>6 DEF Onward

LEMMA AdvanceFresh ==
  ASSUME FreshInv, NEW p \in Procs, Advance(p)
  PROVE  Onward(p)
<1> USE DEF Leave, Step, repoVars, dirVars, Carrying
<1>1. ~CreateSteps(p) /\ m \in [Procs -> Manifest] /\ disk.at \in Nat
  BY CreateLocks, GuardTypes DEF FreshInv, GuardInv, TearInv
<1>2. CASE StartSteps(p)
  <2>1. CASE NotFound(p)
    BY <2>1, GoneFresh, MoveFresh DEF NotFound
  <2>2. CASE ReadRef(p)
    <3>1. /\ m'[p] = ref /\ pc'[p] = "materialize"
          /\ \A q \in Procs \ {p} : m'[q] = m[q] /\ pc'[q] = pc[q]
          /\ UNCHANGED <<verb, disk, ref>>
      BY <1>1, <2>2, GuardTypes DEF ReadRef, Goto, FreshInv
    <3>2. NotAhead(m[p])'
      BY <3>1 DEF FreshInv, Fresh, NotAhead
    <3> QED BY <1>1, <3>1, <3>2 DEF Onward
  <2>3. CASE Load(p)
    <3>1. \A q \in Procs \ {p} : m'[q] = m[q]
      BY <1>1, <2>3 DEF Load
    <3>2. AfterLoad[verb[p]] \notin Carrying \cup {"import"}
      <4>1. verb[p] \in LoadVerbs
        BY <2>3 DEF Load, FreshInv, GuardInv, TearInv, LockInv, TypeInv, ProcOK, VerbOK
      <4> QED BY <4>1 DEF AfterLoad, LoadVerbs, AllVerbs
    <3> QED BY <2>3, <3>1, <3>2, MoveFresh DEF Load
  <2>4. CASE Compare(p)
    <3>1. ~Newer(m[p])
      <4>1. NotAhead(m[p]) /\ m[p].at \in Nat
        BY <2>4, GuardTypes DEF Compare, FreshInv, Fresh
      <4> QED BY <1>1, <4>1 DEF NotAhead, Newer
    <3>2. /\ Goto(p, FirstStep(verb[p])) /\ UNCHANGED <<verb, disk, ref>>
          /\ \A q \in Procs \ {p} : m'[q] = m[q]
      BY <1>1, <2>4, <3>1 DEF Compare
    <3>3. FirstStep(verb[p]) \notin Carrying \cup {"import"}
      BY DEF FirstStep
    <3> QED BY <3>2, <3>3, MoveFresh
  <2>5. ~Materialize(p)
    BY DEF Materialize, FreshInv, Fresh
  <2> QED BY <1>2, <2>1, <2>2, <2>3, <2>4, <2>5 DEF StartSteps
<1>3. CASE SessionSteps(p)
  <2>1. CASE Record(p)
    <3>1. \A q \in Procs \ {p} : m'[q] = m[q]
      BY <1>1, <2>1 DEF Record
    <3> QED BY <2>1, <3>1, MoveFresh DEF Record
  <2>2. CASE SessionLock(p)
    BY <2>2, FlockFresh DEF SessionLock
  <2>3. CASE StartRunning(p) \/ GoIdle(p)
    BY <2>3, SaveFresh DEF StartRunning, GoIdle, Status
  <2>4. CASE SessionCheck(p) \/ PrepareFails(p) \/ MirrorRunning(p) \/ NothingToRecord(p)
             \/ RecordFails(p)
    <3>1. MirrorRunning(p) => ref' = m[p] /\ pc[p] \in Carrying
      BY DEF MirrorRunning
    <3>2. MirrorRunning(p) => Onward(p)
      BY <3>1, MoveFresh DEF MirrorRunning
    <3> QED BY <2>4, <3>2, GoneFresh, MoveFresh
            DEF SessionCheck, PrepareFails, NothingToRecord, RecordFails
  <2> QED BY <1>3, <2>1, <2>2, <2>3, <2>4 DEF SessionSteps
<1>4. CASE ProposeSteps(p)
  <2>1. CASE ProposeLock(p)
    <3>1. TryLock(p, "run", TRUE, "snapshot") \/ Leave(p)
      BY <2>1 DEF ProposeLock, TryLock
    <3> QED BY <3>1, FlockFresh, GoneFresh
  <2>2. CASE Propose(p)
    BY <2>2, SaveFresh DEF Propose, Status
  <2>3. CASE Snapshot(p) \/ SnapshotRefused(p)
    BY <2>3, GoneFresh, MoveFresh DEF Snapshot, SnapshotRefused
  <2> QED BY <1>4, <2>1, <2>2, <2>3 DEF ProposeSteps
<1>5. CASE GateSteps(p)
  BY <1>5, GoneFresh, MoveFresh DEF GateSteps, GateOpen, GateTake, GateTimeout
<1>6. CASE RebaseSteps(p)
  <2>1. CASE RebaseLock(p)
    <3>1. TryLock(p, "run", TRUE, "drift") \/ Leave(p)
      BY <2>1 DEF RebaseLock, TryLock
    <3> QED BY <3>1, FlockFresh, GoneFresh
  <2>2. CASE RebaseSave(p)
    BY <2>2, SaveFresh DEF RebaseSave, Status
  <2>3. CASE RebaseGate(p) \/ RebaseDrift(p) \/ RebaseNothing(p) \/ RebaseConflict(p)
             \/ RebaseCommit(p)
    BY <2>3, GoneFresh, MoveFresh DEF RebaseGate, RefuseIfShared, RebaseDrift,
       RebaseNothing, RebaseConflict, RebaseCommit
  <2> QED BY <1>6, <2>1, <2>2, <2>3 DEF RebaseSteps
<1>7. CASE ApplySteps(p)
  <2>1. CASE ApplyLock(p)
    <3>1. TryLock(p, "run", TRUE, "land") \/ Leave(p)
      BY <2>1 DEF ApplyLock, TryLock
    <3> QED BY <3>1, FlockFresh, GoneFresh
  <2>2. CASE ApplySave(p)
    BY <2>2, SaveFresh DEF ApplySave, Status
  <2>3. CASE ApplyGate(p) \/ ApplyRefused(p) \/ ApplyLand(p)
    BY <2>3, GoneFresh, MoveFresh DEF ApplyGate, RefuseIfShared, ApplyRefused, ApplyLand
  <2> QED BY <1>7, <2>1, <2>2, <2>3 DEF ApplySteps
<1>8. CASE AbortSteps(p)
  <2>1. CASE AbortLock(p)
    <3>1. TryLock(p, "run", TRUE, "saveAborted") \/ Leave(p)
      BY <2>1 DEF AbortLock, TryLock
    <3> QED BY <3>1, FlockFresh, GoneFresh
  <2>2. CASE Abort(p)
    BY <2>2, SaveFresh DEF Abort, Status
  <2>3. CASE AbortGate(p)
    BY <2>3, GoneFresh, MoveFresh DEF AbortGate, RefuseIfShared
  <2> QED BY <1>8, <2>1, <2>2, <2>3 DEF AbortSteps
<1>9. CASE GcSteps(p)
  <2>1. pc[p] \notin GcLabels
    BY DEF FreshInv, Fresh, Unsettling, GuardInv, TearInv, Tears, Duty
  <2> QED BY <1>9, <2>1 DEF GcSteps, GcList, GcWork, GcLock, GcDrain, GcShare, GcPrune, GcSave,
          GcLabels
<1>10. CASE RmSteps(p)
  <2>1. verb[p] \notin {"rm", "rmForce"} /\ pc[p] \notin RmLabels
    BY DEF FreshInv, Fresh, Unsettling, GuardInv, TearInv, Tears, Duty
  <2> QED BY <1>10, <2>1 DEF RmSteps, RmGate, RmLock, RmDrain, RmPrune, RmBranch, RmStrip,
          RmErase, RmLabels
<1>11. CASE ShareSteps(p)
  BY <1>11, GoneFresh, MoveFresh DEF ShareSteps, ShareCheck, Claim
<1>12. CASE Mirror(p)
  <2>1. ref' = m[p] /\ pc[p] \in Carrying
    BY <1>12 DEF Mirror
  <2> QED BY <1>12, <2>1, GoneFresh DEF Mirror
<1> QED BY <1>1, <1>2, <1>3, <1>4, <1>5, <1>6, <1>7, <1>8, <1>9, <1>10, <1>11, <1>12
        DEF Advance

LEMMA NextFresh ==
  ASSUME Verbs \cap Unsettling = {}, FreshInv, [Next]_vars
  PROVE  FreshInv' /\ (disk' = disk \/ disk.at <= disk'.at)
<1>1. GuardInv'
  BY NextGuards DEF FreshInv, Unsettling
<1>2. CASE UNCHANGED vars
  BY <1>1, <1>2 DEF vars, FreshInv, Fresh, NotAhead
<1>3. ASSUME NEW p \in Procs, NEW v \in Verbs, Enter(p, v) PROVE Onward(p)
  <2>1. /\ pc'[p] \notin Carrying \cup {"import"}
        /\ \A q \in Procs \ {p} : pc'[q] = pc[q]
    BY <1>3, GuardTypes DEF Enter, Goto, FreshInv, Carrying
  <2>2. \A q \in Procs : verb'[q] = verb[q] \/ verb'[q] \notin Unsettling
    BY <1>3, GuardTypes DEF Enter, FreshInv
  <2>3. UNCHANGED <<m, disk, ref>> /\ disk'.at \in Nat
    BY <1>3, GuardTypes DEF Enter, repoVars, dirVars, FreshInv
  <2> QED BY <2>1, <2>2, <2>3 DEF Onward
<1>4. ASSUME NEW p \in Procs, Exec(p) \/ StopWatching(p) \/ EndShare(p) \/ Crash(p)
      PROVE  Onward(p)
  BY <1>4, GoneFresh, MoveFresh
     DEF Exec, StopWatching, EndShare, Crash, Leave, repoVars, dirVars, Carrying
<1>5. Next => \E p \in Procs : Onward(p)
  BY <1>3, <1>4, AdvanceFresh DEF Next
<1>6. ASSUME NEW p \in Procs, Onward(p) PROVE FreshInv' /\ (disk' = disk \/ disk.at <= disk'.at)
  BY <1>1, <1>6, OnwardFresh DEF FreshInv, Onward
<1>7. UNCHANGED vars => disk' = disk
  BY DEF vars
<1> QED BY <1>2, <1>5, <1>6, <1>7

LEMMA InitFresh == Init => FreshInv
<1>1. Init => NotAhead(ref)
  <2>1. ASSUME Init PROVE disk.at <= disk.at
    BY <2>1, InitGuards, GuardTypes
  <2> QED BY <2>1 DEF Init, NotAhead
<1>2. Init => \A p \in Procs : pc[p] \notin Carrying \cup {"import"} /\ verb[p] \notin Unsettling
  BY DEF Init, Carrying, Unsettling
<1> QED BY <1>1, <1>2, InitGuards DEF FreshInv, Fresh

(* Whatever commands run beside each other, and wherever they are killed, the *)
(* shared ref is never ahead of the manifest on disk, as long as nobody       *)
(* makes, removes or collects the box meanwhile (SyncNeverRollsBack).         *)
THEOREM NoRollBackBesideOthers ==
  ASSUME Verbs \cap {"create", "gc", "rm", "rmForce"} = {}
  PROVE  Spec => []SyncNeverRollsBack
<1>1. FreshInv => SyncNeverRollsBack
  <2> SUFFICES ASSUME FreshInv PROVE SyncNeverRollsBack
    OBVIOUS
  <2>1. NotAhead(ref) /\ disk.at \in Nat /\ ref.at \in Nat
    BY GuardTypes DEF FreshInv, Fresh
  <2> QED BY <2>1 DEF NotAhead, SyncNeverRollsBack, Newer
<1>2. FreshInv /\ [Next]_vars => FreshInv'
  BY NextFresh DEF Unsettling
<1> QED BY <1>1, <1>2, InitFresh, PTL DEF Spec

(* No manifest on disk is stamped earlier than the one it replaces.           *)
OnlyLaterSaves == [][disk' = disk \/ disk.at <= disk'.at]_vars

(* Under the same condition, a command that works on an old copy may change   *)
(* the status of the box, but none, and no sync that read the ref before      *)
(* others saved, brings an earlier manifest back (OnlyLaterSaves).            *)
THEOREM SavesOnlyGoOn ==
  ASSUME Verbs \cap {"create", "gc", "rm", "rmForce"} = {}
  PROVE  Spec => OnlyLaterSaves
<1>1. FreshInv /\ [Next]_vars => FreshInv' /\ [disk' = disk \/ disk.at <= disk'.at]_vars
  BY NextFresh DEF Unsettling
<1> QED BY <1>1, InitFresh, PTL DEF Spec, OnlyLaterSaves

=============================================================================
