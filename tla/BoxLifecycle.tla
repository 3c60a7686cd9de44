---------------------------- MODULE BoxLifecycle ----------------------------
(***************************************************************************)
(* The life of one box (crates/h5i-core/src/env.rs): the `h5i box` commands *)
(* that create, run, propose, rebase, apply, abort, collect, remove and     *)
(* share it, each a process of its own, all working on the same files.      *)
(*                                                                          *)
(* A command copies the manifest into memory once (`find` or `list`) and    *)
(* works on that copy: nothing in env.rs reads it again under the lock.     *)
(* Between any two steps another command may run, or the process may die;   *)
(* the kernel then drops its flocks and everything else stays as it was.    *)
(*                                                                          *)
(* A lock file belongs to the directory it was opened in, so a lock is a    *)
(* pair <<kind, incarnation of <env>/>>.                                    *)
(*                                                                          *)
(* A definition that stands just before another of nearly the same name     *)
(* (...Unchecked, ...Skipped, ...Lost, GoDone, WaitLock) is the slip that   *)
(* the properties are there to notice; nothing else uses it.                *)
(***************************************************************************)
EXTENDS Naturals

CONSTANTS
    Procs,        \* processes that issue commands
    NoProc,       \* the pid of no process
    Verbs,        \* the commands this scenario issues
    StartStates,  \* states of the box when the scenario starts
    MaxOps,       \* bound: commands issued
    MaxCrashes    \* bound: processes killed

Status == {"created", "running", "idle", "proposed", "applied", "aborted"}
Active == {"created", "running", "idle"}
Terminal == {"applied", "aborted"}

AllVerbs == {"create", "run", "shell", "observe", "propose", "rebase", "apply",
             "abort", "gc", "rm", "rmForce", "share"}

ASSUME NoProcAssumption == NoProc \notin Procs
ASSUME VerbsAssumption == Verbs \subseteq AllVerbs
ASSUME StartAssumption == StartStates \subseteq Status \cup {"absent"}
ASSUME BoundsAssumption == MaxOps \in Nat /\ MaxCrashes \in Nat

(* What a manifest says, as far as the commands look at it: which `create`  *)
(* made it, its status, `updated_at`, and the evidence it points at.        *)
Manifest == [made : Nat, status : Status \cup {"absent"}, at : Nat,
             captures : SUBSET Nat]
NoManifest == [made |-> 0, status |-> "absent", at |-> 0, captures |-> {}]

ShareRecord == [pid : Procs \cup {NoProc}, at : Nat]
NoShare == [pid |-> NoProc, at |-> 0]

LockKind == {"gate", "run", "watch", "drain"}

VARIABLES
    dir,       \* incarnation of the directory <env>/, 0 when there is none
    disk,      \* <env>/manifest.json
    work,      \* which create made the worktree <env>/work, 0 when there is none
    dirty,     \* the worktree has changes that are not on the branch
    branch,    \* tip of the box's branch, 0 when the branch does not exist
    landed,    \* tips that were merged into the parent branch
    reviewed,  \* history: tips a `propose` froze
    receipts,  \* ids in the box's receipt log
    ref,       \* the box's line in refs/h5i/env : manifests.jsonl
    share,     \* <env>/share.json
    pc, verb,  \* where each process is, in which command
    m,         \* the manifest each process has in memory
    gate,      \* incarnation of the share gate file each process has open
    holds,     \* flocks each process holds
    clock,     \* source of timestamps, commit ids and incarnations
    ops, crashes

repoVars == <<branch, landed, reviewed, ref>>
treeVars == <<work, dirty>>
dirVars == <<dir, disk, share, receipts>>
procVars == <<pc, verb, m, gate, holds>>
bounds == <<ops, crashes>>
vars == <<dir, disk, work, dirty, branch, landed, reviewed, receipts, ref, share,
          pc, verb, m, gate, holds, clock, ops, crashes>>

Labels == {"idle", "find", "sync", "materialize", "import", "load",
           "sessionCheck", "sessionLock", "prepare", "mirrorRunning", "exec",
           "record", "saveIdle", "watching", "proposeLock", "snapshot",
           "saveProposed", "mirror", "gateOpen", "gateWait", "gateHeld",
           "rebaseLock", "drift", "replay", "saveRebased", "applyLock", "land",
           "saveApplied", "abortLock", "saveAborted", "gcList", "gcWork",
           "gcLock", "gcDrain", "gcShare", "gcPrune", "gcSave", "rmLock",
           "rmDrain", "rmPrune", "rmBranch", "rmStrip", "rmErase",
           "createCheck", "mkdir", "createBranch", "createWork", "createSave",
           "undo", "undoBranch", "shareCheck", "sharing"}

(* Processes between taking run.lock and letting it go.                     *)
WriterLabels == {"prepare", "mirrorRunning", "exec", "record", "saveIdle",
                 "snapshot", "saveProposed", "drift", "replay", "saveRebased",
                 "land", "saveApplied", "saveAborted", "gcDrain", "gcShare",
                 "gcPrune", "gcSave", "rmDrain", "rmPrune", "rmBranch",
                 "rmStrip", "rmErase"}

-----------------------------------------------------------------------------
(* Steps every command is made of.                                          *)

Goto(p, label) == pc' = [pc EXCEPT ![p] = label]

(* The process ends: its memory goes, and the kernel drops its locks.       *)
Gone(p) == /\ pc' = [pc EXCEPT ![p] = "idle"]
           /\ verb' = [verb EXCEPT ![p] = "none"]
           /\ m' = [m EXCEPT ![p] = NoManifest]
           /\ gate' = [gate EXCEPT ![p] = 0]
           /\ holds' = [holds EXCEPT ![p] = {}]

(* An early return: nothing but the process changes.                        *)
Leave(p) == /\ Gone(p)
            /\ UNCHANGED <<repoVars, treeVars, dirVars, clock, bounds>>

(* A step that only moves the process.                                      *)
Step(p, label) == /\ Goto(p, label)
                  /\ UNCHANGED <<verb, m, gate, holds, repoVars, treeVars, dirVars,
                                 clock, bounds>>

(* The flocks a request for a kind of lock collides with.                   *)
BlockersLostWriter == [gate |-> {"gate"}, run |-> {}, watch |-> {"drain"},
                       drain |-> {"drain", "watch"}]
BlockersLostWatcher == [gate |-> {"gate"}, run |-> {"run"}, watch |-> {},
                        drain |-> {"drain"}]
Blockers == [gate |-> {"gate"}, run |-> {"run"}, watch |-> {"drain"},
             drain |-> {"drain", "watch"}]
Available(kind) ==
    /\ dir # 0
    /\ \A q \in Procs, k \in Blockers[kind] : <<k, dir>> \notin holds[q]

(* A non-blocking flock of a file in <env>/; opening it fails when the      *)
(* directory is gone. `ok` is the check that follows on the copy in memory. *)
WaitLock(p, kind, ok, label) ==
    /\ Available(kind)
    /\ IF ok
       THEN /\ holds' = [holds EXCEPT ![p] = @ \cup {<<kind, dir>>}]
            /\ Goto(p, label)
            /\ UNCHANGED <<verb, m, gate, repoVars, treeVars, dirVars, clock, bounds>>
       ELSE Leave(p)
TryLock(p, kind, ok, label) ==
    IF Available(kind) /\ ok
    THEN /\ holds' = [holds EXCEPT ![p] = @ \cup {<<kind, dir>>}]
         /\ Goto(p, label)
         /\ UNCHANGED <<verb, m, gate, repoVars, treeVars, dirVars, clock, bounds>>
    ELSE Leave(p)

Mkdir == dir' = IF dir = 0 THEN clock + 1 ELSE dir

(* set_status, first half: the copy in memory is stamped and written out,   *)
(* whatever the file says by now. The second half is a Mirror step.         *)
SaveStatus(p, status, label) ==
    LET new == [m[p] EXCEPT !.status = status, !.at = clock + 1] IN
    /\ m' = [m EXCEPT ![p] = new]
    /\ disk' = new
    /\ Mkdir
    /\ clock' = clock + 1
    /\ Goto(p, label)
    /\ UNCHANGED <<share, receipts, treeVars, branch, landed, ref, verb, gate,
                   holds, bounds>>

(* append_env_commit: the CAS loop retries until the box's line in the ref  *)
(* is the copy in memory.                                                   *)
MirrorRunning(p) ==
    /\ pc[p] = "mirrorRunning"
    /\ ref' = m[p]
    /\ Goto(p, "exec")
    /\ UNCHANGED <<branch, landed, reviewed, treeVars, dirVars, verb, m, gate,
                   holds, clock, bounds>>
Mirror(p) ==
    /\ pc[p] = "mirror"
    /\ ref' = m[p]
    /\ Gone(p)
    /\ UNCHANGED <<branch, landed, reviewed, treeVars, dirVars, clock, bounds>>

(* remove_dir_all(<env>/), with everything in it. *)
EraseDir == /\ dir' = 0
            /\ disk' = NoManifest
            /\ share' = NoShare
            /\ receipts' = {}
            /\ work' = 0
            /\ dirty' = FALSE

-----------------------------------------------------------------------------
(* Start of a command: the shared ref is synced to disk, then the manifest  *)
(* is loaded. `shell` syncs only when the box is not found.                 *)

Enter(p, v) ==
    /\ pc[p] = "idle"
    /\ ops < MaxOps
    /\ ops' = ops + 1
    /\ verb' = [verb EXCEPT ![p] = v]
    /\ Goto(p, IF v \in {"shell", "observe"} THEN "find" ELSE "sync")
    /\ UNCHANGED <<m, gate, holds, repoVars, treeVars, dirVars, clock, crashes>>

(* materialize_from_ref reads the ref once; until it writes, m[p] is that copy. *)
ReadRef(p) ==
    /\ pc[p] = "sync"
    /\ m' = [m EXCEPT ![p] = ref]
    /\ Goto(p, "materialize")
    /\ UNCHANGED <<verb, gate, holds, repoVars, treeVars, dirVars, clock, bounds>>

FirstStep(v) == IF v = "create" THEN "createCheck"
                ELSE IF v = "gc" THEN "gcList" ELSE "load"

Newer(shared) == shared # NoManifest /\ (disk = NoManifest \/ disk.at < shared.at)

(* The copy is compared with the file, and written without a second look.   *)
Compare(p) ==
    /\ pc[p] = "materialize"
    /\ IF Newer(m[p])
       THEN Goto(p, "import") /\ m' = m
       ELSE /\ Goto(p, FirstStep(verb[p]))
            /\ m' = [m EXCEPT ![p] = NoManifest]
    /\ UNCHANGED <<verb, gate, holds, repoVars, treeVars, dirVars, clock, bounds>>
Materialize(p) ==
    /\ pc[p] = "import"
    /\ disk' = m[p]
    /\ Mkdir
    /\ clock' = clock + 1
    /\ m' = [m EXCEPT ![p] = NoManifest]
    /\ Goto(p, FirstStep(verb[p]))
    /\ UNCHANGED <<share, receipts, verb, gate, holds, repoVars, treeVars, bounds>>

AfterLoad == [run |-> "sessionCheck", shell |-> "sessionCheck",
              observe |-> "sessionCheck", propose |-> "proposeLock",
              rebase |-> "gateOpen", apply |-> "gateOpen", abort |-> "gateOpen",
              rm |-> "gateOpen", rmForce |-> "gateOpen", share |-> "shareCheck"]

Load(p) ==
    /\ pc[p] \in {"find", "load"}
    /\ disk # NoManifest
    /\ m' = [m EXCEPT ![p] = disk]
    /\ Goto(p, AfterLoad[verb[p]])
    /\ UNCHANGED <<verb, gate, holds, repoVars, treeVars, dirVars, clock, bounds>>
NotFound(p) ==
    /\ disk = NoManifest
    /\ \/ pc[p] = "find" /\ Step(p, "sync")
       \/ pc[p] = "load" /\ Leave(p)

-----------------------------------------------------------------------------
(* run and shell: a writer session. observe: `shell --readonly`.            *)

SessionCheck(p) ==
    /\ pc[p] = "sessionCheck"
    /\ IF m[p].status \in Active /\ work # 0
       THEN Step(p, "sessionLock") ELSE Leave(p)

SessionLock(p) ==
    /\ pc[p] = "sessionLock"
    /\ IF verb[p] = "observe" THEN TryLock(p, "watch", TRUE, "watching")
                              ELSE TryLock(p, "run", TRUE, "prepare")

(* Policy, private paths, secrets, proxies: each may refuse.                *)
PrepareFails(p) == pc[p] = "prepare" /\ Leave(p)

StartRunning(p) ==
    /\ pc[p] = "prepare"
    /\ SaveStatus(p, "running", "mirrorRunning")
    /\ UNCHANGED reviewed

(* What is in the box edits the worktree, commits on the box's branch, or   *)
(* does neither, any number of times.                                       *)
Exec(p) ==
    /\ pc[p] = "exec"
    /\ \/ /\ dirty' \in {dirty, TRUE}
          /\ UNCHANGED <<branch, clock>>
       \/ /\ branch # 0
          /\ branch' = clock + 1
          /\ clock' = clock + 1
          /\ dirty' = FALSE
    /\ Goto(p, "record")
    /\ UNCHANGED <<work, landed, reviewed, ref, dirVars, verb, m, gate, holds, bounds>>

(* The receipt is appended to the log and its id to the copy in memory.     *)
LogReceiptLost(id) == receipts' = receipts
LogReceipt(id) == receipts' = receipts \cup {id}
Record(p) ==
    /\ pc[p] = "record"
    /\ LogReceipt(clock + 1)
    /\ m' = [m EXCEPT ![p].captures = @ \cup {clock + 1}]
    /\ clock' = clock + 1
    /\ Goto(p, "saveIdle")
    /\ UNCHANGED <<dir, disk, share, verb, gate, holds, repoVars, treeVars, bounds>>
(* A payload that failed to start, or a shell that saw nothing to record.   *)
NothingToRecord(p) == pc[p] = "record" /\ Step(p, "saveIdle")
(* Reading the worktree or appending the receipt failed: `?` returns with   *)
(* the status still `running`.                                              *)
RecordFails(p) == pc[p] = "record" /\ Leave(p)

GoDone(p) ==
    /\ pc[p] = "saveIdle"
    /\ SaveStatus(p, "done", "mirror")
    /\ UNCHANGED reviewed
GoIdle(p) ==
    /\ pc[p] = "saveIdle"
    /\ SaveStatus(p, "idle", "mirror")
    /\ UNCHANGED reviewed

StopWatching(p) == pc[p] = "watching" /\ Leave(p)

-----------------------------------------------------------------------------
(* propose, and the mediated commit it shares with rebase.                  *)

Proposable == Active \cup {"proposed"}

ProposeLock(p) ==
    /\ pc[p] = "proposeLock"
    /\ TryLock(p, "run", m[p].status \in Proposable, "snapshot")

(* mediated_commit: the worktree becomes a commit if it differs from the    *)
(* branch tip. It needs a worktree, and may refuse what it finds there.     *)
Snapshot(p) ==
    /\ pc[p] = "snapshot"
    /\ work # 0
    /\ branch # 0
    /\ branch' = IF dirty THEN clock + 1 ELSE branch
    /\ clock' = IF dirty THEN clock + 1 ELSE clock
    /\ dirty' = FALSE
    /\ Goto(p, IF verb[p] = "propose" THEN "saveProposed" ELSE "replay")
    /\ UNCHANGED <<work, landed, reviewed, ref, dirVars, verb, m, gate, holds, bounds>>
SnapshotRefused(p) == pc[p] = "snapshot" /\ Leave(p)

Propose(p) ==
    /\ pc[p] = "saveProposed"
    /\ reviewed' = reviewed \cup {branch}
    /\ SaveStatus(p, "proposed", "mirror")

-----------------------------------------------------------------------------
(* The share gate. apply, rebase, abort and rm hold it to their end; a      *)
(* share holds it while it claims the box.                                  *)

ShareLive == share # NoShare /\ pc[share.pid] = "sharing"

(* share_gate creates the directory if need be and opens the file once.     *)
GateOpen(p) ==
    /\ pc[p] = "gateOpen"
    /\ Mkdir
    /\ clock' = IF dir = 0 THEN clock + 1 ELSE clock
    /\ gate' = [gate EXCEPT ![p] = dir']
    /\ Goto(p, "gateWait")
    /\ UNCHANGED <<disk, share, receipts, verb, m, holds, repoVars, treeVars, bounds>>

GateFree(p) == \A q \in Procs : <<"gate", gate[p]>> \notin holds[q]

GateTake(p) ==
    /\ pc[p] = "gateWait"
    /\ GateFree(p)
    /\ holds' = [holds EXCEPT ![p] = @ \cup {<<"gate", gate[p]>>}]
    /\ Goto(p, "gateHeld")
    /\ UNCHANGED <<verb, m, gate, repoVars, treeVars, dirVars, clock, bounds>>
(* GATE_WAIT is over. *)
GateTimeout(p) == pc[p] = "gateWait" /\ ~GateFree(p) /\ Leave(p)

(* refuse_if_shared *)
RefuseNever(p, label) == Step(p, label)
RefuseIfShared(p, label) == IF ShareLive THEN Leave(p) ELSE Step(p, label)

-----------------------------------------------------------------------------
(* rebase *)

RebaseGate(p) ==
    /\ pc[p] = "gateHeld" /\ verb[p] = "rebase"
    /\ RefuseIfShared(p, "rebaseLock")
RebaseLock(p) ==
    /\ pc[p] = "rebaseLock"
    /\ TryLock(p, "run", m[p].status \in Active, "drift")
(* The parent branch moved; otherwise, or when it is gone, rebase returns.  *)
RebaseDrift(p) == pc[p] = "drift" /\ Step(p, "snapshot")
RebaseNothing(p) == pc[p] = "drift" /\ Leave(p)
(* A merge conflict refuses after the mediated commit is made.              *)
RebaseConflict(p) == pc[p] = "replay" /\ Leave(p)
RebaseCommit(p) ==
    /\ pc[p] = "replay"
    /\ branch' = clock + 1
    /\ clock' = clock + 1
    /\ Goto(p, "saveRebased")
    /\ UNCHANGED <<landed, reviewed, ref, treeVars, dirVars, verb, m, gate, holds, bounds>>
RebaseSave(p) ==
    /\ pc[p] = "saveRebased"
    /\ SaveStatus(p, IF m[p].status = "created" THEN "created" ELSE "idle", "mirror")
    /\ UNCHANGED reviewed

-----------------------------------------------------------------------------
(* apply *)

ApplyGate(p) ==
    /\ pc[p] = "gateHeld" /\ verb[p] = "apply"
    /\ RefuseIfShared(p, "applyLock")
ApplyLockUnchecked(p) ==
    pc[p] = "applyLock" /\ TryLock(p, "run", TRUE, "land")
ApplyLock(p) ==
    /\ pc[p] = "applyLock"
    /\ TryLock(p, "run", m[p].status = "proposed", "land")
(* Wrong branch checked out, uncommitted changes, no branch, a conflict.    *)
ApplyRefused(p) == pc[p] = "land" /\ Leave(p)
(* The parent branch moves to a commit that holds the box's tip.            *)
ApplyLand(p) ==
    /\ pc[p] = "land"
    /\ branch # 0
    /\ landed' = landed \cup {branch}
    /\ Goto(p, "saveApplied")
    /\ UNCHANGED <<branch, reviewed, ref, treeVars, dirVars, verb, m, gate, holds,
                   clock, bounds>>
ApplySave(p) ==
    /\ pc[p] = "saveApplied"
    /\ SaveStatus(p, "applied", "mirror")
    /\ UNCHANGED reviewed

-----------------------------------------------------------------------------
(* abort *)

AbortGate(p) ==
    /\ pc[p] = "gateHeld" /\ verb[p] = "abort"
    /\ RefuseIfShared(p, "abortLock")
AbortLockUnchecked(p) ==
    pc[p] = "abortLock" /\ TryLock(p, "run", TRUE, "saveAborted")
AbortLock(p) ==
    /\ pc[p] = "abortLock"
    /\ TryLock(p, "run", m[p].status # "applied", "saveAborted")
Abort(p) ==
    /\ pc[p] = "saveAborted"
    /\ SaveStatus(p, "aborted", "mirror")
    /\ UNCHANGED reviewed

-----------------------------------------------------------------------------
(* gc: the list is read once, and each manifest in it is worked on later.   *)

GcList(p) ==
    /\ pc[p] = "gcList"
    /\ IF disk.status \in Terminal
       THEN /\ m' = [m EXCEPT ![p] = disk]
            /\ Goto(p, "gcWork")
            /\ UNCHANGED <<verb, gate, holds, repoVars, treeVars, dirVars, clock, bounds>>
       ELSE Leave(p)
GcWork(p) ==
    /\ pc[p] = "gcWork"
    /\ IF work # 0 THEN Step(p, "gcLock") ELSE Leave(p)
GcLock(p) == pc[p] = "gcLock" /\ TryLock(p, "run", TRUE, "gcDrain")
GcDrain(p) == pc[p] = "gcDrain" /\ TryLock(p, "drain", TRUE, "gcShare")
GcShare(p) == pc[p] = "gcShare" /\ RefuseIfShared(p, "gcPrune")
(* prune_workspace: the git worktree and <env>/work go.                     *)
PruneWorkspace(p, label) ==
    /\ work' = 0
    /\ dirty' = FALSE
    /\ Goto(p, label)
    /\ UNCHANGED <<repoVars, dirVars, verb, m, gate, holds, clock, bounds>>
GcPrune(p) == pc[p] = "gcPrune" /\ PruneWorkspace(p, "gcSave")
GcSave(p) ==
    /\ pc[p] = "gcSave"
    /\ disk' = m[p]
    /\ Mkdir
    /\ clock' = IF dir = 0 THEN clock + 1 ELSE clock
    /\ Gone(p)
    /\ UNCHANGED <<share, receipts, repoVars, treeVars, bounds>>

-----------------------------------------------------------------------------
(* rm, and rm --force *)

Forced(p) == verb[p] = "rmForce"

RmGate(p) ==
    /\ pc[p] = "gateHeld" /\ verb[p] \in {"rm", "rmForce"}
    /\ IF (ShareLive \/ m[p].status \in Proposable) /\ ~Forced(p)
       THEN Leave(p) ELSE Step(p, "rmLock")
RmLock(p) == pc[p] = "rmLock" /\ TryLock(p, "run", TRUE, "rmDrain")
RmDrain(p) == pc[p] = "rmDrain" /\ TryLock(p, "drain", TRUE, "rmPrune")
RmPrune(p) == pc[p] = "rmPrune" /\ PruneWorkspace(p, "rmBranch")
RmBranchKept(p) == pc[p] = "rmBranch" /\ Step(p, "rmStrip")
RmBranch(p) ==
    /\ pc[p] = "rmBranch"
    /\ branch' = 0
    /\ Goto(p, "rmStrip")
    /\ UNCHANGED <<landed, reviewed, ref, treeVars, dirVars, verb, m, gate, holds,
                   clock, bounds>>
(* append_removed_and_strip *)
RmStripSkipped(p) == pc[p] = "rmStrip" /\ Step(p, "rmErase")
RmStrip(p) ==
    /\ pc[p] = "rmStrip"
    /\ ref' = NoManifest
    /\ Goto(p, "rmErase")
    /\ UNCHANGED <<branch, landed, reviewed, treeVars, dirVars, verb, m, gate, holds,
                   clock, bounds>>
RmErase(p) ==
    /\ pc[p] = "rmErase"
    /\ EraseDir
    /\ Gone(p)
    /\ UNCHANGED <<repoVars, clock, bounds>>

-----------------------------------------------------------------------------
(* create: no lock is taken.                                                *)

(* An empty leftover of a create that died is reclaimed; a manifest, a      *)
(* leftover worktree or a branch of that name refuses.                      *)
CreateCheck(p) ==
    /\ pc[p] = "createCheck"
    /\ IF disk # NoManifest \/ (dir # 0 /\ work # 0)
       THEN Leave(p)
       ELSE /\ EraseDir
            /\ IF branch # 0 THEN Gone(p)
                             ELSE Goto(p, "mkdir") /\ UNCHANGED <<verb, m, gate, holds>>
            /\ UNCHANGED <<repoVars, clock, bounds>>
(* Profile and policy are resolved in between and may refuse.               *)
CreateRefused(p) == pc[p] = "mkdir" /\ Leave(p)
CreateMkdir(p) ==
    /\ pc[p] = "mkdir"
    /\ Mkdir
    /\ clock' = clock + 1
    /\ m' = [m EXCEPT ![p] = [made |-> clock + 1, status |-> "created",
                              at |-> clock + 1, captures |-> {}]]
    /\ Goto(p, "createBranch")
    /\ UNCHANGED <<disk, share, receipts, verb, gate, holds, repoVars, treeVars, bounds>>
CreateBranch(p) ==
    /\ pc[p] = "createBranch"
    /\ branch = 0
    /\ branch' = clock + 1
    /\ clock' = clock + 1
    /\ Goto(p, "createWork")
    /\ UNCHANGED <<landed, reviewed, ref, treeVars, dirVars, verb, m, gate, holds, bounds>>
(* The base does not resolve, the branch is taken or git refuses it: nothing *)
(* of the branch is this create's to roll back.                              *)
NoBranch(p) == pc[p] = "createBranch" /\ Step(p, "undo")
CreateWork(p) ==
    /\ pc[p] = "createWork"
    /\ work = 0 /\ branch # 0 /\ dir # 0
    /\ work' = m[p].made
    /\ dirty' = FALSE
    /\ Goto(p, "createSave")
    /\ UNCHANGED <<repoVars, dirVars, verb, m, gate, holds, clock, bounds>>
(* The worktree could not be made, or a step between it and the manifest    *)
(* (services, persona, baseline) failed.                                    *)
CreateFails(p) == pc[p] \in {"createWork", "createSave"} /\ Step(p, "undoBranch")
CreateSave(p) ==
    /\ pc[p] = "createSave"
    /\ disk' = m[p]
    /\ Mkdir
    /\ clock' = IF dir = 0 THEN clock + 1 ELSE clock
    /\ Goto(p, "mirror")
    /\ UNCHANGED <<share, receipts, verb, m, gate, holds, repoVars, treeVars, bounds>>
(* CreateRollback: the worktree and the directory of that name go, and the  *)
(* branch if this create made it.                                           *)
Undo(p) ==
    /\ pc[p] \in {"undo", "undoBranch"}
    /\ branch' = IF pc[p] = "undoBranch" THEN 0 ELSE branch
    /\ EraseDir
    /\ Gone(p)
    /\ UNCHANGED <<landed, reviewed, ref, clock, bounds>>

-----------------------------------------------------------------------------
(* share: what the other commands can see of it. The box must have a        *)
(* payload running; the record is claimed under the gate.                   *)

SessionLive == \E q \in Procs : pc[q] = "exec"

ShareCheck(p) ==
    /\ pc[p] = "shareCheck"
    /\ IF SessionLive /\ ~ShareLive THEN Step(p, "gateOpen") ELSE Leave(p)
Claim(p) ==
    /\ pc[p] = "gateHeld" /\ verb[p] = "share"
    /\ IF dir = 0 \/ ShareLive
       THEN Leave(p)
       ELSE /\ share' = [pid |-> p, at |-> clock + 1]
            /\ clock' = clock + 1
            /\ holds' = [holds EXCEPT ![p] = {}]
            /\ Goto(p, "sharing")
            /\ UNCHANGED <<dir, disk, receipts, verb, m, gate, repoVars, treeVars, bounds>>
(* The share ends and clears the record if it is still its own.             *)
EndShare(p) ==
    /\ pc[p] = "sharing"
    /\ share' = IF share.pid = p THEN NoShare ELSE share
    /\ Gone(p)
    /\ UNCHANGED <<dir, disk, receipts, repoVars, treeVars, clock, bounds>>

-----------------------------------------------------------------------------
(* The process is killed.                                                   *)
Crash(p) ==
    /\ pc[p] # "idle"
    /\ crashes < MaxCrashes
    /\ crashes' = crashes + 1
    /\ Gone(p)
    /\ UNCHANGED <<repoVars, treeVars, dirVars, clock, ops>>

-----------------------------------------------------------------------------
(* A box that does not exist, or one whose last command completed.          *)
Init ==
    /\ \E s \in StartStates :
         LET here == s # "absent"
             one == IF here THEN 1 ELSE 0
             tips == {1}
         IN /\ dir = one
            /\ disk = IF here THEN [made |-> 1, status |-> s, at |-> 1, captures |-> {}]
                              ELSE NoManifest
            /\ work = one
            /\ branch = one
            /\ reviewed = IF s \in {"proposed", "applied"} THEN tips ELSE {}
            /\ landed = IF s = "applied" THEN tips ELSE {}
            /\ clock = one
    /\ dirty = FALSE
    /\ receipts = {}
    /\ ref = disk
    /\ share = NoShare
    /\ pc = [p \in Procs |-> "idle"]
    /\ verb = [p \in Procs |-> "none"]
    /\ m = [p \in Procs |-> NoManifest]
    /\ gate = [p \in Procs |-> 0]
    /\ holds = [p \in Procs |-> {}]
    /\ ops = 0
    /\ crashes = 0

StartSteps(p) ==
    ReadRef(p) \/ Compare(p) \/ Materialize(p) \/ Load(p) \/ NotFound(p)
SessionSteps(p) ==
    \/ SessionCheck(p) \/ SessionLock(p) \/ PrepareFails(p) \/ StartRunning(p)
    \/ MirrorRunning(p) \/ Record(p) \/ NothingToRecord(p) \/ RecordFails(p)
    \/ GoIdle(p)
ProposeSteps(p) ==
    ProposeLock(p) \/ Snapshot(p) \/ SnapshotRefused(p) \/ Propose(p)
GateSteps(p) == GateOpen(p) \/ GateTake(p) \/ GateTimeout(p)
RebaseSteps(p) ==
    \/ RebaseGate(p) \/ RebaseLock(p) \/ RebaseDrift(p) \/ RebaseNothing(p)
    \/ RebaseConflict(p) \/ RebaseCommit(p) \/ RebaseSave(p)
ApplySteps(p) ==
    ApplyGate(p) \/ ApplyLock(p) \/ ApplyRefused(p) \/ ApplyLand(p) \/ ApplySave(p)
AbortSteps(p) == AbortGate(p) \/ AbortLock(p) \/ Abort(p)
GcSteps(p) ==
    \/ GcList(p) \/ GcWork(p) \/ GcLock(p) \/ GcDrain(p) \/ GcShare(p)
    \/ GcPrune(p) \/ GcSave(p)
RmSteps(p) ==
    \/ RmGate(p) \/ RmLock(p) \/ RmDrain(p) \/ RmPrune(p) \/ RmBranch(p)
    \/ RmStrip(p) \/ RmErase(p)
CreateSteps(p) ==
    \/ CreateCheck(p) \/ CreateRefused(p) \/ CreateMkdir(p) \/ CreateBranch(p)
    \/ NoBranch(p) \/ CreateWork(p) \/ CreateFails(p) \/ CreateSave(p) \/ Undo(p)
ShareSteps(p) == ShareCheck(p) \/ Claim(p)

(* What a command does by itself, as opposed to the payload of a session,   *)
(* the user who ends a session or a share, and the kill.                    *)
Advance(p) ==
    \/ StartSteps(p) \/ SessionSteps(p) \/ ProposeSteps(p) \/ GateSteps(p)
    \/ RebaseSteps(p) \/ ApplySteps(p) \/ AbortSteps(p) \/ GcSteps(p)
    \/ RmSteps(p) \/ CreateSteps(p) \/ ShareSteps(p) \/ Mirror(p)

Next == \E p \in Procs :
    \/ \E v \in Verbs : Enter(p, v)
    \/ Advance(p) \/ Exec(p) \/ StopWatching(p) \/ EndShare(p) \/ Crash(p)

Spec == Init /\ [][Next]_vars

-----------------------------------------------------------------------------
(* Properties                                                               *)

(* Every variable holds a value of its kind. *)
TypeOK ==
    /\ dir \in Nat /\ work \in Nat /\ branch \in Nat /\ clock \in Nat
    /\ disk \in Manifest /\ ref \in Manifest
    /\ dirty \in BOOLEAN
    /\ landed \in SUBSET Nat /\ reviewed \in SUBSET Nat /\ receipts \in SUBSET Nat
    /\ share \in ShareRecord
    /\ pc \in [Procs -> Labels]
    /\ verb \in [Procs -> AllVerbs \cup {"none"}]
    /\ m \in [Procs -> Manifest]
    /\ gate \in [Procs -> Nat]
    /\ holds \in [Procs -> SUBSET (LockKind \X Nat)]
    /\ ops \in Nat /\ crashes \in Nat

(* run.lock does its work: no two commands are ever inside the part of env.rs *)
(* that changes the worktree, the branch or the manifest of the box.          *)
OneWriter == \A p, q \in Procs :
    p # q => ~(pc[p] \in WriterLabels /\ pc[q] \in WriterLabels)

(* A worktree is never reclaimed under a command that has it mounted, reader  *)
(* or writer: gc and rm drain both before they prune.                         *)
InWorktree(p) == pc[p] = "watching"
                 \/ (verb[p] \in {"run", "shell"} /\ pc[p] \in WriterLabels)
NoPruneUnderSession ==
    [][work # 0 /\ work' # work => \A p \in Procs : ~InWorktree(p)]_vars

(* While a share of the box is live, its parent branch gets nothing from it,  *)
(* and until the box is removed nobody rebases it or newly marks it applied   *)
(* or aborted: rebase, apply and abort look for a share under its gate and    *)
(* keep the gate. gc takes no gate, and a sync may follow it: they can write  *)
(* back an older mark, which is what `clock` tells apart.                     *)
ShareFreezesBox ==
    [][ShareLive =>
         /\ landed' = landed
         /\ branch # 0 => /\ ~\E p \in Procs : RebaseCommit(p)
                          /\ disk'.status \in Terminal => disk'.at <= clock]_vars

(* What lands on the parent branch is what some propose froze for review.     *)
OnlyReviewedLands == landed \subseteq reviewed

(* The manifest on disk never points at evidence that was not written: the    *)
(* receipt is appended before any manifest names it.                          *)
EvidenceExists == disk.captures \subseteq receipts

(* The shared ref is never ahead of the manifest on disk, so that the sync at *)
(* the start of the next command does not roll the box back.                  *)
SyncNeverRollsBack == ~Newer(ref)

(* As long as any part of a box is left, its manifest is there for `rm` to    *)
(* find it by: an rm that dies anywhere can be run again.                     *)
ManifestOutlivesBox == disk = NoManifest => work = 0 /\ branch = 0 /\ ref = NoManifest

(* The status a reader of the box sees follows the state machine of BoxStatus. *)
Machine == INSTANCE BoxStatus WITH status <- disk.status
FollowsMachine == Machine!Spec

(* No command hangs on another: whatever the others hold, and whoever was     *)
(* killed, a command that is not at its session has a next step of its own.   *)
(* No command repeats a step, so it gets to its session or to its end.        *)
Attended == {"idle", "exec", "watching", "sharing"}
NeverStuck == \A p \in Procs : pc[p] \notin Attended => ENABLED Advance(p)

-----------------------------------------------------------------------------
(* What comments of the code say of concurrent commands. Each fails: the    *)
(* manifest a command works on was read before it had any lock.             *)

(* env.rs, propose: the lock is held so that the terminal IDLE write of a     *)
(* concurrent run cannot clobber the PROPOSED set here.                       *)
ProposedNotClobbered ==
    [][disk.status = "proposed" => disk'.status \notin {"running", "idle"}]_vars
=============================================================================
