---------------------------- MODULE ShareSession ----------------------------
(***************************************************************************)
(* The record `share.json` of one box and everybody who touches it:        *)
(*                                                                         *)
(*   Serves  processes of `h5i box share`: claim the box, bring a          *)
(*           transport up, open the door, serve, wind up, leave            *)
(*   Ops     processes of `share grant`, `revoke`, `stop`, `stop --force`  *)
(*   Verbs   lifecycle commands that must not run under a share            *)
(*                                                                         *)
(* They meet in three files of the box's directory: the record (replaced   *)
(* by a rename), `share.lock` (an flock waited for at most five seconds)   *)
(* and `share-gate.lock` (the decision "is this box shared").  A step here *)
(* is what a process does between two points where another one can see or  *)
(* change those files.  A share is named by its process: (pid, started_at) *)
(* in the code.                                                            *)
(***************************************************************************)
EXTENDS Naturals, FiniteSets

CONSTANTS
  Serves, Ops, Verbs,   \* the processes
  Grants,               \* grant ids; bounds how many grants are ever minted
  NoOne,                \* nobody holds a lock; a record that is not there
  Garbled,              \* the owner of a record this h5i cannot read
  NoGrant,
  OpCommands,           \* which commands the Ops may be
  VerbCommands,         \* which commands the Verbs may be
  Faults,               \* what the surroundings may do, see AllFaults
  P2pServes,            \* the shares whose transport is peer to peer
  WindingUpAttempts,    \* WINDING_UP_ATTEMPTS
  MaxRoute              \* bound: how many times the box is started

AllOps == {"grant", "revoke", "stop", "force"}
AllVerbs == {"apply", "export", "rm", "rmforce"}
AllFaults == {"kill", "timeout", "gate", "signal", "box", "corrupt", "recycle", "expire"}

Procs == Serves \cup Ops \cup Verbs

ASSUME ProcsAssumption ==
  /\ Serves \cap Ops = {} /\ Serves \cap Verbs = {} /\ Ops \cap Verbs = {}
  /\ NoOne \notin Procs /\ Garbled \notin Procs /\ Garbled # NoOne
  /\ NoGrant \notin Grants
ASSUME ChoiceAssumption ==
  /\ OpCommands \subseteq AllOps /\ VerbCommands \subseteq AllVerbs
  /\ Faults \subseteq AllFaults /\ P2pServes \subseteq Serves
ASSUME BoundAssumption ==
  /\ WindingUpAttempts \in Nat \ {0}
  /\ MaxRoute \in Nat \ {0}

VARIABLES
  rec,       \* share.json
  lock,      \* who holds share.lock
  old,       \* the share.lock that `rm` erased, see NoRelic
  gate,      \* who holds share-gate.lock
  dir,       \* the box's directory exists
  removed,   \* `rm` erased the box
  route,     \* which start of the box its session is, 0 when none runs
  starts,    \* how often the box has been started
  expired,   \* the grants whose time is over
  minted,    \* the ids handed out so far
  recycled,  \* dead Serves whose pid is some other process now
  pc,
  seen,      \* the record a process is about to write back
  cmd,       \* what an Op or a Verb does
  arg,       \* the grant an Op is about
  early,     \* run::stop's first, unlocked look at `starting`
  pinned,    \* the route a share's dialer holds
  signal,    \* the hard-exit watcher of a share
  tries,     \* failed attempts of begin_winding_up
  announced, \* the shares whose invite was printed
  receipts,  \* the shares whose receipt was written
  ans        \* what a command told its operator

disk == <<rec, lock, old, gate, dir, removed>>
world == <<route, starts, expired, minted, recycled>>
local == <<cmd, arg, early, pinned, signal, tries>>
past == <<announced, receipts, ans>>
vars == <<rec, lock, old, gate, dir, removed, route, starts, expired, minted,
          recycled, pc, seen, cmd, arg, early, pinned, signal, tries,
          announced, receipts, ans>>

-----------------------------------------------------------------------------
(* The record. *)

Owners == Serves \cup {NoOne, Garbled}

Record == [owner: Owners, starting: BOOLEAN, winding: BOOLEAN,
           grants: SUBSET Grants, revoked: SUBSET Grants]

Blank(o) == [owner |-> o, starting |-> FALSE, winding |-> FALSE,
             grants |-> {}, revoked |-> {}]
Gone == Blank(NoOne)
Unreadable == Blank(Garbled)

\* What claim writes: ShareSession::new with `starting` set.
Claimed(p) == [Blank(p) EXCEPT !.starting = TRUE]

Present(r) == r.owner \in Serves

\* The grants that still admit somebody.
Live(r) == r.grants \ (r.revoked \cup expired)

Ended == {"refused", "exited", "aborted", "killed"}
Alive(p) == pc[p] \notin Ended \cup {"idle"}

\* session::is_live asks only whether the pid names a process.
IsLive(r) == Present(r) /\ (Alive(r.owner) \/ r.owner \in recycled)

Ours(p) == rec.owner = p

-----------------------------------------------------------------------------
(* The lock.  Acquiring opens the file first, so it fails without the      *)
(* directory; then it waits, and gives up after LOCK_WAIT when somebody     *)
(* sits on the lock.  `rm` may erase the file under those who wait: they    *)
(* wait for the file they opened, whoever opens it later gets a new one.    *)

\* holder and open: of the erased file, who holds it and who else still has
\* it open.  raced: somebody was waiting when it was erased (history).
NoRelic == [holder |-> NoOne, open |-> {}, raced |-> FALSE]

CanLockAnyway(x) == x \in old.open \/ dir
CanLock(x) == IF x \in old.open THEN old.holder = NoOne ELSE dir /\ lock = NoOne
LockFails(x) ==
  IF x \in old.open
    THEN "timeout" \in Faults /\ old.holder \notin {NoOne, x}
    ELSE \/ ~dir
         \/ "timeout" \in Faults /\ lock \notin {NoOne, x}

TakeLock(x) ==
  /\ lock' = IF x \in old.open THEN lock ELSE x
  /\ old' = IF x \in old.open THEN [old EXCEPT !.holder = x] ELSE old

\* The lock was not to be had, or is given back at once.
GiveUp(x) == old' = [old EXCEPT !.open = @ \ {x}] /\ UNCHANGED lock

Freed(x) == IF lock = x THEN NoOne ELSE lock
GateFreed(x) == IF gate = x THEN NoOne ELSE gate
OldFreed(x) == [old EXCEPT !.open = @ \ {x},
                           !.holder = IF @ = x THEN NoOne ELSE @]

\* Whatever ends a process, or what it needed the locks for, closes them.
Leave(x, how) ==
  /\ pc' = [pc EXCEPT ![x] = how]
  /\ lock' = Freed(x) /\ old' = OldFreed(x)
  /\ gate' = GateFreed(x)

\* The first half of a read-change-write: r is what will be written.
Prepare(x, r, next) ==
  /\ TakeLock(x)
  /\ seen' = [seen EXCEPT ![x] = r]
  /\ pc' = [pc EXCEPT ![x] = next]

\* The second half.  `write` makes the directory when it is missing.
WriteBack(x) ==
  /\ rec' = seen[x]
  /\ dir' = TRUE

Fresh(g) == g \in Grants \ minted

Init ==
  /\ rec = Gone /\ lock = NoOne /\ old = NoRelic /\ gate = NoOne
  /\ dir = TRUE /\ removed = FALSE
  /\ route = 1 /\ starts = 1
  /\ expired = {} /\ minted = {} /\ recycled = {}
  /\ pc = [x \in Procs |-> "idle"]
  /\ seen = [x \in Procs |-> Gone]
  /\ cmd = [x \in Ops \cup Verbs |-> "none"]
  /\ arg = [o \in Ops |-> NoGrant]
  /\ early = [o \in Ops |-> FALSE]
  /\ pinned = [p \in Serves |-> 0]
  /\ signal = [p \in Serves |-> "none"]
  /\ tries = [p \in Serves |-> 0]
  /\ announced = {} /\ receipts = {}
  /\ ans = [o \in Ops |-> [said |-> "none", owner |-> NoOne]]

Goto(x, from, to) ==
  /\ pc[x] = from
  /\ pc' = [pc EXCEPT ![x] = to]

-----------------------------------------------------------------------------
(* The gate, taken by a claim and by a lifecycle command alike.  Opening   *)
(* it makes the directory; a process still waiting when `rm` erases the    *)
(* directory waits on a file nobody else can open any more.                *)

OpenGate(x) ==
  /\ Goto(x, "opengate", "gatewait")
  /\ dir' = TRUE
  /\ UNCHANGED <<rec, lock, old, gate, removed, world, seen, local, past>>

TakeGate(x) ==
  /\ \/ pc[x] = "gatewait" /\ gate = NoOne /\ gate' = x
     \/ pc[x] = "gatelost" /\ UNCHANGED gate
  /\ pc' = [pc EXCEPT ![x] = "gated"]
  /\ UNCHANGED <<rec, lock, old, dir, removed, world, seen, local, past>>

GateTimesOut(x) ==
  /\ "gate" \in Faults
  /\ gate # NoOne
  /\ Goto(x, "gatewait", IF x \in Serves THEN "refused" ELSE "done")
  /\ UNCHANGED <<disk, world, seen, local, past>>

-----------------------------------------------------------------------------
(* A share: run::serve. *)

\* The early refusal, then the dialer, which pins the box as it runs now.
StartShare(p) ==
  /\ ~removed /\ route # 0
  /\ Goto(p, "idle", IF IsLive(rec) THEN "refused" ELSE "opengate")
  /\ pinned' = [pinned EXCEPT ![p] = route]
  /\ UNCHANGED <<disk, world, seen, cmd, arg, early, signal, tries, past>>

ClaimMayBlindly(r) == r.owner # Garbled
ClaimMay(r) == ~IsLive(r) /\ r.owner # Garbled

\* session::claim under the gate: a live record or one that cannot be read
\* is left alone, a dead one is replaced.
ClaimRead(p) ==
  /\ pc[p] = "gated"
  /\ \/ /\ CanLock(p)
        /\ ClaimMay(rec)
        /\ Prepare(p, Claimed(p), "claimwrite")
        /\ UNCHANGED gate
     \/ /\ \/ LockFails(p)
           \/ CanLock(p) /\ ~ClaimMay(rec)
        /\ Leave(p, "refused")
        /\ UNCHANGED seen
  /\ UNCHANGED <<rec, dir, removed, world, local, past>>

ClaimWrite(p) ==
  /\ pc[p] = "claimwrite"
  /\ WriteBack(p)
  /\ Leave(p, "setup")
  /\ UNCHANGED <<removed, world, seen, local, past>>

\* Setup::start: up to forty-five seconds, and it may fail.
SetUp(p) ==
  /\ \/ Goto(p, "setup", "check")
     \/ Goto(p, "setup", "clear")
  /\ UNCHANGED <<disk, world, seen, local, past>>

StillOurs(p) ==
  /\ Goto(p, "check", IF route = pinned[p] /\ Ours(p) THEN "open" ELSE "clear")
  /\ UNCHANGED <<disk, world, seen, local, past>>

OpenMayStopped(p) == Ours(p)
OpenMay(p) == Ours(p) /\ ~rec.winding

\* The locked step that mints the first grant and leaves `starting`.
OpenRead(p) ==
  /\ pc[p] = "open"
  /\ \/ /\ CanLock(p) /\ OpenMay(p)
        /\ \E g \in Grants :
             /\ Fresh(g)
             /\ minted' = minted \cup {g}
             /\ Prepare(p, [rec EXCEPT !.starting = FALSE, !.grants = @ \cup {g}],
                        "openwrite")
     \/ /\ LockFails(p) \/ (CanLock(p) /\ ~OpenMay(p))
        /\ pc' = [pc EXCEPT ![p] = "clear"]
        /\ GiveUp(p)
        /\ UNCHANGED <<seen, minted>>
  /\ UNCHANGED <<rec, gate, dir, removed, route, starts, expired, recycled,
                 local, past>>

OpenWrite(p) ==
  /\ pc[p] = "openwrite"
  /\ WriteBack(p)
  /\ Leave(p, "announce")
  /\ UNCHANGED <<removed, world, seen, local, past>>

Announce(p) ==
  /\ Goto(p, "announce", "serving")
  /\ announced' = announced \cup {p}
  /\ UNCHANGED <<disk, world, seen, local, receipts, ans>>

SpentAdopting(p) == ~Present(rec) \/ Live(rec) = {}

\* Bridge::is_spent, of the record this share is pinned to.
Spent(p) == ~Ours(p) \/ Live(rec) = {}

\* stopped_elsewhere
NoticeSpent(p) ==
  /\ Spent(p)
  /\ Goto(p, "serving", "windup")
  /\ UNCHANGED <<disk, world, seen, local, past>>

\* No session runs, or one that is not the one the dialer went into.
BoxWentAway(p) == route # pinned[p]

NoticeBoxGone(p) ==
  /\ BoxWentAway(p)
  /\ Goto(p, "serving", "windup")
  /\ UNCHANGED <<disk, world, seen, local, past>>

\* The transport ended by itself: a tunnel that died.
ServeEnds(p) ==
  /\ Goto(p, "serving", "windup")
  /\ UNCHANGED <<disk, world, seen, local, past>>

Arm(p) == signal' = [signal EXCEPT ![p] = IF @ = "none" THEN "armed" ELSE @]

Interrupted(p) ==
  /\ "signal" \in Faults
  /\ Goto(p, "serving", "windup")
  /\ Arm(p)
  /\ UNCHANGED <<disk, world, seen, cmd, arg, early, pinned, tries, past>>

MarkWhoever(p) == [rec EXCEPT !.winding = TRUE]
Mark(p) == IF Ours(p) THEN [rec EXCEPT !.winding = TRUE] ELSE rec

OneMoreAttempt(p) == tries[p] + 1 <= WindingUpAttempts
AttemptsLeft(p) == tries[p] + 1 < WindingUpAttempts

\* One attempt of begin_winding_up.  A record that is gone is as good as one
\* that is marked; one that is not ours is written back as it was.
WindUpRead(p) ==
  /\ pc[p] = "windup"
  /\ \/ /\ CanLock(p) /\ Present(rec)
        /\ Prepare(p, Mark(p), "windwrite")
        /\ UNCHANGED tries
     \/ /\ rec.owner = NoOne
        /\ CanLock(p) \/ LockFails(p)
        /\ pc' = [pc EXCEPT ![p] = "teardown"]
        /\ GiveUp(p)
        /\ UNCHANGED <<seen, tries>>
     \/ /\ rec.owner # NoOne
        /\ LockFails(p) \/ (CanLock(p) /\ rec.owner = Garbled)
        /\ tries' = [tries EXCEPT ![p] = @ + 1]
        /\ pc' = [pc EXCEPT ![p] = IF AttemptsLeft(p) THEN @ ELSE "teardown"]
        /\ GiveUp(p)
        /\ UNCHANGED seen
  /\ UNCHANGED <<rec, gate, dir, removed, world, cmd, arg, early, pinned,
                 signal, past>>

WindUpWrite(p) ==
  /\ pc[p] = "windwrite"
  /\ WriteBack(p)
  /\ Leave(p, "teardown")
  /\ UNCHANGED <<removed, world, seen, local, past>>

\* Connections are told, the transport goes; a signal may cut the wait short.
TearDown(p) ==
  /\ Goto(p, "teardown", "receipt")
  /\ \/ UNCHANGED signal
     \/ "signal" \in Faults /\ Arm(p)
  /\ UNCHANGED <<disk, world, seen, cmd, arg, early, pinned, tries, past>>

\* Not into a box that was removed.
WriteReceipt(p) ==
  /\ Goto(p, "receipt", "clear")
  /\ receipts' = IF dir THEN receipts \cup {p} ELSE receipts
  /\ UNCHANGED <<disk, world, seen, local, announced, ans>>

\* session::clear goes on without the lock when it cannot have it.
ClearRead(p) ==
  /\ pc[p] = "clear"
  /\ CanLock(p) \/ LockFails(p)
  /\ IF Ours(p)
       THEN /\ IF CanLock(p) THEN TakeLock(p) ELSE GiveUp(p)
            /\ pc' = [pc EXCEPT ![p] = "cleardelete"]
       ELSE /\ pc' = [pc EXCEPT ![p] = "leaving"]
            /\ GiveUp(p)
  /\ UNCHANGED <<rec, gate, dir, removed, world, seen, local, past>>

ClearDelete(p) ==
  /\ pc[p] = "cleardelete"
  /\ rec' = Gone
  /\ Leave(p, "leaving")
  /\ UNCHANGED <<dir, removed, world, seen, local, past>>

\* The runtime is given 200 ms to come down: the watcher still runs in it.
Exit(p) ==
  /\ Goto(p, "leaving", "exited")
  /\ UNCHANGED <<disk, world, seen, local, past>>

\* The second signal: session::clear_now from the watcher's own task, beside
\* whatever the share is doing, and exit(130).
HardCheck(p) ==
  /\ signal[p] = "armed" /\ Alive(p)
  /\ IF Ours(p)
       THEN /\ signal' = [signal EXCEPT ![p] = "checked"]
            /\ UNCHANGED <<pc, lock, old, gate>>
       ELSE /\ Leave(p, "aborted")
            /\ UNCHANGED signal
  /\ UNCHANGED <<rec, dir, removed, world, seen, cmd, arg, early, pinned,
                 tries, past>>

HardDelete(p) ==
  /\ signal[p] = "checked" /\ Alive(p)
  /\ rec' = Gone
  /\ Leave(p, "aborted")
  /\ UNCHANGED <<dir, removed, world, seen, local, past>>

-----------------------------------------------------------------------------
(* The commands on a share. *)

Answer(o, what, owner) == ans' = [ans EXCEPT ![o] = [said |-> what, owner |-> owner]]

StartOp(o) ==
  /\ ~removed
  /\ \E c \in OpCommands :
       /\ cmd' = [cmd EXCEPT ![o] = c]
       /\ Goto(o, "idle", IF c = "stop" THEN "peek" ELSE "lock")
       /\ \E g \in IF c = "revoke" THEN minted ELSE {NoGrant} :
            arg' = [arg EXCEPT ![o] = g]
  /\ UNCHANGED <<disk, world, seen, early, pinned, signal, tries, past>>

\* run::stop asks whether the share is starting before it takes the lock.
StopPeek(o) ==
  /\ Goto(o, "peek", IF Present(rec) THEN "lock" ELSE "done")
  /\ early' = [early EXCEPT ![o] = rec.starting]
  /\ UNCHANGED <<disk, world, seen, cmd, arg, pinned, signal, tries, past>>

\* A command whose lock wait ended, or that has nothing to act on.
OpRefused(o) ==
  /\ cmd[o] # "force"
  /\ \/ LockFails(o)
     \/ /\ CanLock(o)
        /\ CASE cmd[o] = "grant" -> \/ ~IsLive(rec) \/ rec.winding
                                    \/ rec.owner \in P2pServes
             [] cmd[o] = "revoke" -> ~IsLive(rec) \/ arg[o] \notin rec.grants
             [] OTHER -> ~Present(rec)
  /\ Goto(o, "lock", "done")
  /\ GiveUp(o)
  /\ UNCHANGED <<rec, gate, dir, removed, world, seen, local, past>>

\* The grant is anchored and named with the lock held.
GrantRead(o) ==
  /\ pc[o] = "lock" /\ cmd[o] = "grant" /\ CanLock(o)
  /\ IsLive(rec) /\ ~rec.winding /\ rec.owner \notin P2pServes
  /\ \E g \in Grants :
       /\ Fresh(g)
       /\ minted' = minted \cup {g}
       /\ arg' = [arg EXCEPT ![o] = g]
       /\ Prepare(o, [rec EXCEPT !.grants = @ \cup {g}], "write")
  /\ UNCHANGED <<rec, gate, dir, removed, route, starts, expired, recycled,
                 cmd, early, pinned, signal, tries, past>>

RevokeRead(o) ==
  /\ pc[o] = "lock" /\ cmd[o] = "revoke" /\ CanLock(o)
  /\ IsLive(rec) /\ arg[o] \in rec.grants
  /\ Prepare(o, [rec EXCEPT !.revoked = @ \cup {arg[o]}], "write")
  /\ UNCHANGED <<rec, gate, dir, removed, world, local, past>>

StoppedUnmarked(r) == [r EXCEPT !.revoked = r.grants]
Stopped(r) == [r EXCEPT !.revoked = r.grants, !.winding = TRUE]

\* Revoke everything and mark it in one step; a leftover is removed instead.
StopRead(o) ==
  /\ pc[o] = "lock" /\ cmd[o] = "stop" /\ CanLock(o)
  /\ Present(rec)
  /\ Prepare(o, IF IsLive(rec) THEN Stopped(rec) ELSE Gone, "write")
  /\ UNCHANGED <<rec, gate, dir, removed, world, local, past>>

OpWrite(o) ==
  /\ pc[o] = "write"
  /\ rec' = seen[o]
  /\ dir' = (dir \/ Present(seen[o]))
  /\ Leave(o, IF cmd[o] = "revoke" THEN "look" ELSE "done")
  /\ Answer(o, CASE cmd[o] = "grant" -> "minted"
                 [] cmd[o] = "revoke" -> "revoked"
                 [] OTHER -> IF ~Present(seen[o]) THEN "stale"
                             ELSE IF early[o] THEN "starting" ELSE "serving",
            seen[o].owner)
  /\ UNCHANGED <<removed, world, seen, local, announced, receipts>>

\* What `share revoke` adds when no grant is left.
RevokeLook(o) ==
  /\ cmd[o] = "revoke"
  /\ Goto(o, "look", "done")
  /\ IF Live(rec) = {} THEN Answer(o, "over", ans[o].owner) ELSE UNCHANGED ans
  /\ UNCHANGED <<disk, world, seen, local, announced, receipts>>

\* session::forget: with the lock if it can be had, without it otherwise.
ForceLock(o) ==
  /\ cmd[o] = "force"
  /\ Goto(o, "lock", "delete")
  /\ \/ CanLock(o) /\ TakeLock(o)
     \/ LockFails(o) /\ GiveUp(o)
  /\ UNCHANGED <<rec, gate, dir, removed, world, seen, local, past>>

ForceDelete(o) ==
  /\ pc[o] = "delete"
  /\ rec' = Gone
  /\ IF rec.owner = NoOne
       THEN Leave(o, "done") /\ Answer(o, "nothing", NoOne)
       ELSE /\ pc' = [pc EXCEPT ![o] = "look"]
            /\ Answer(o, "deleting", rec.owner)
            /\ UNCHANGED <<lock, old, gate>>
  /\ UNCHANGED <<dir, removed, world, seen, local, announced, receipts>>

ForceLook(o) ==
  /\ pc[o] = "look" /\ cmd[o] = "force"
  /\ Leave(o, "done")
  /\ Answer(o, IF rec.owner = NoOne THEN "deleted" ELSE "reappeared", ans[o].owner)
  /\ UNCHANGED <<rec, dir, removed, world, seen, local, announced, receipts>>

-----------------------------------------------------------------------------
(* Lifecycle commands: hold the gate across the look and the work. *)

StartVerb(v) ==
  /\ ~removed
  /\ \E c \in VerbCommands : cmd' = [cmd EXCEPT ![v] = c]
  /\ Goto(v, "idle", "opengate")
  /\ UNCHANGED <<disk, world, seen, arg, early, pinned, signal, tries, past>>

\* All of them need run.lock, which a session of the box holds; `export` for
\* its first part only.
VerbMay(v) ==
  /\ ~removed
  /\ IsLive(rec) => cmd[v] = "rmforce"
  /\ route = 0

VerbDecideAndRelease(v) ==
  /\ pc[v] = "gated"
  /\ Leave(v, IF VerbMay(v) THEN "work" ELSE "done")
  /\ UNCHANGED <<rec, dir, removed, world, seen, local, past>>

VerbDecide(v) ==
  /\ pc[v] = "gated"
  /\ IF VerbMay(v)
       THEN pc' = [pc EXCEPT ![v] = "work"] /\ UNCHANGED <<lock, old, gate>>
       ELSE Leave(v, "done")
  /\ UNCHANGED <<rec, dir, removed, world, seen, local, past>>

VerbWork(v) ==
  /\ pc[v] = "work" /\ cmd[v] \in {"apply", "export"}
  /\ Leave(v, "done")
  /\ UNCHANGED <<rec, dir, removed, world, seen, local, past>>

\* Who may be waiting for share.lock, with the file open.
Waiting == {x \in Serves \cup Ops : pc[x] \in {"gated", "open", "windup", "clear", "lock"}}

\* The directory goes with everything in it, the two lock files included.
Erase(v) ==
  /\ pc[v] = "work" /\ cmd[v] \in {"rm", "rmforce"}
  /\ rec' = Gone /\ lock' = NoOne /\ gate' = NoOne
  /\ \E xs \in SUBSET Waiting :
       old' = [holder |-> lock, open |-> xs, raced |-> old.raced \/ xs # {}]
  /\ dir' = FALSE /\ removed' = TRUE
  /\ pc' = [x \in Procs |-> IF x = v THEN "done"
                            ELSE IF pc[x] = "gatewait" THEN "gatelost"
                            ELSE pc[x]]
  /\ UNCHANGED <<world, seen, local, past>>

-----------------------------------------------------------------------------
(* The surroundings. *)

Kill(x) ==
  /\ "kill" \in Faults
  /\ IF x \in Serves THEN Alive(x) ELSE pc[x] \notin {"idle", "done"}
  /\ Leave(x, IF x \in Serves THEN "killed" ELSE "done")
  /\ UNCHANGED <<rec, dir, removed, world, seen, local, past>>

BoxStops ==
  /\ "box" \in Faults /\ route # 0
  /\ route' = 0
  /\ UNCHANGED <<disk, starts, expired, minted, recycled, pc, seen, local, past>>

\* A session needs run.lock, which is held to the end of every verb but export.
BoxStarts ==
  /\ "box" \in Faults /\ route = 0 /\ ~removed /\ starts < MaxRoute
  /\ \A v \in Verbs : pc[v] = "work" => cmd[v] = "export"
  /\ starts' = starts + 1 /\ route' = starts + 1
  /\ UNCHANGED <<disk, expired, minted, recycled, pc, seen, local, past>>

Expire(g) ==
  /\ "expire" \in Faults /\ g \in minted \ expired
  /\ expired' = expired \cup {g}
  /\ UNCHANGED <<disk, route, starts, minted, recycled, pc, seen, local, past>>

\* A pid is handed to some process that has nothing to do with h5i.
Recycle(p) ==
  /\ "recycle" \in Faults /\ pc[p] \in Ended /\ p \notin recycled
  /\ recycled' = recycled \cup {p}
  /\ UNCHANGED <<disk, route, starts, expired, minted, pc, seen, local, past>>

\* The record is from a newer h5i, or the disk is bad.
Corrupt ==
  /\ "corrupt" \in Faults /\ Present(rec)
  /\ rec' = Unreadable
  /\ UNCHANGED <<lock, old, gate, dir, removed, world, pc, seen, local, past>>

-----------------------------------------------------------------------------
(* The specification. *)

ServeStep(p) ==
  \/ OpenGate(p) \/ TakeGate(p) \/ GateTimesOut(p)
  \/ ClaimRead(p) \/ ClaimWrite(p) \/ SetUp(p) \/ StillOurs(p)
  \/ OpenRead(p) \/ OpenWrite(p) \/ Announce(p)
  \/ NoticeSpent(p) \/ NoticeBoxGone(p)
  \/ WindUpRead(p) \/ WindUpWrite(p) \/ TearDown(p) \/ WriteReceipt(p)
  \/ ClearRead(p) \/ ClearDelete(p) \/ Exit(p)

Signalled(p) == ServeEnds(p) \/ Interrupted(p) \/ HardCheck(p) \/ HardDelete(p)

OpStep(o) ==
  \/ StopPeek(o) \/ OpRefused(o) \/ GrantRead(o) \/ RevokeRead(o)
  \/ StopRead(o) \/ OpWrite(o) \/ RevokeLook(o)
  \/ ForceLock(o) \/ ForceDelete(o) \/ ForceLook(o)

VerbStep(v) ==
  \/ OpenGate(v) \/ TakeGate(v) \/ GateTimesOut(v)
  \/ VerbDecide(v) \/ VerbWork(v) \/ Erase(v)

Surroundings ==
  \/ BoxStops \/ BoxStarts \/ Corrupt
  \/ \E g \in Grants : Expire(g)
  \/ \E p \in Serves : Recycle(p)
  \/ \E x \in Procs : Kill(x)

Next ==
  \/ \E p \in Serves : StartShare(p) \/ ServeStep(p) \/ Signalled(p)
  \/ \E o \in Ops : StartOp(o) \/ OpStep(o)
  \/ \E v \in Verbs : StartVerb(v) \/ VerbStep(v)
  \/ Surroundings

Spec == Init /\ [][Next]_vars

\* A process that runs is scheduled, and its polls come round.  Nothing is
\* assumed of operators, signals, transports or the surroundings.
Fairness ==
  /\ \A p \in Serves : WF_vars(ServeStep(p))
  /\ \A o \in Ops : WF_vars(OpStep(o))
  /\ \A v \in Verbs : WF_vars(VerbStep(v))

FairSpec == Spec /\ Fairness

-----------------------------------------------------------------------------
(* Properties. *)

PcServe == {"idle", "opengate", "gatewait", "gatelost", "gated", "claimwrite",
            "setup", "check", "open", "openwrite", "announce", "serving",
            "windup", "windwrite", "teardown", "receipt", "clear",
            "cleardelete", "leaving"} \cup Ended
PcOp == {"idle", "peek", "lock", "write", "delete", "look", "done"}
PcVerb == {"idle", "opengate", "gatewait", "gatelost", "gated", "work", "done"}
Said == {"none", "minted", "revoked", "over", "stale", "starting", "serving",
         "nothing", "deleting", "deleted", "reappeared"}

(* Every variable holds a value of its kind. *)
TypeOK ==
  /\ rec \in Record
  /\ lock \in Procs \cup {NoOne} /\ gate \in Procs \cup {NoOne}
  /\ old \in [holder: Procs \cup {NoOne}, open: SUBSET Procs, raced: BOOLEAN]
  /\ dir \in BOOLEAN /\ removed \in BOOLEAN
  /\ starts \in 1..MaxRoute /\ route \in 0..MaxRoute
  /\ expired \subseteq Grants /\ minted \subseteq Grants
  /\ recycled \subseteq Serves
  /\ pc \in [Procs -> PcServe \cup PcOp \cup PcVerb]
  /\ seen \in [Procs -> Record]
  /\ cmd \in [Ops \cup Verbs -> AllOps \cup AllVerbs \cup {"none"}]
  /\ arg \in [Ops -> Grants \cup {NoGrant}]
  /\ early \in [Ops -> BOOLEAN]
  /\ pinned \in [Serves -> 0..MaxRoute]
  /\ signal \in [Serves -> {"none", "armed", "checked"}]
  /\ tries \in [Serves -> 0..WindingUpAttempts]
  /\ announced \subseteq Serves /\ receipts \subseteq Serves
  /\ ans \in [Ops -> [said : Said, owner : Owners]]

StopAnswered(o) == ans[o].said \in {"starting", "serving"}

(* Once `share stop` has answered for a live share, that share's record     *)
(* stays marked and admits nobody, whatever grants, revokes, winding up and *)
(* opening were in flight: session::stop revokes and marks under one lock.  *)
(* That is so, here and below, unless somebody waited for share.lock when   *)
(* `rm` erased it: he then writes beside the holder of the new file.        *)
StopSticks ==
  ~old.raced =>
    \A o \in Ops : StopAnswered(o) /\ Ours(ans[o].owner)
                     => rec.winding /\ Live(rec) = {}

(* A stop that reached the record while the share was starting keeps that   *)
(* share from ever printing its invite: the opening step looks again.       *)
StoppedBeforeOpening ==
  ~old.raced =>
    \A o \in Ops : StopAnswered(o) /\ seen[o].starting
                     => ans[o].owner \notin announced

(* No answer is undone by a concurrent writer of the record: a revoked      *)
(* grant stays dead, a minted one stays in its share's table.               *)
AnswersHold ==
  ~old.raced =>
    \A o \in Ops :
      /\ ans[o].said \in {"revoked", "over"} => arg[o] \notin Live(rec)
      /\ ans[o].said = "minted" /\ Ours(ans[o].owner) => arg[o] \in rec.grants

\* A share that holds an open door in its own eyes.
Opened(p) == pc[p] \in {"announce", "serving"}

(* A share that serves is the one the record names, and one that left in    *)
(* order took its record with it: no other share, no leftover handling and  *)
(* no leaving process takes a live share's record, and nobody finds the     *)
(* record of a process that said goodbye.                                   *)
ServingOwnsRecord ==
  ~old.raced =>
    \A p \in Serves : /\ Opened(p) => Ours(p)
                      /\ pc[p] = "exited" => ~Ours(p)

(* While a lifecycle command that had to find no share is at work on the    *)
(* box, no live record appears and no share is open: the gate is held from  *)
(* the look to the end of the work, and a claim takes the same gate.        *)
NoShareUnderVerb ==
  \A v \in Verbs : pc[v] = "work" /\ cmd[v] # "rmforce"
                     => ~IsLive(rec) /\ ~\E p \in Serves : Opened(p)

(* A share never changes or removes the live record of another one, even    *)
(* when it winds up after its own was force-deleted and replaced:           *)
(* begin_winding_up and clear compare the identity under the lock.          *)
OthersUntouched ==
  [][\A p \in Serves : ServeStep(p) /\ IsLive(rec) /\ ~Ours(p) => rec' = rec]_vars

(* The share refines the abstract door. After a race for the erased lock    *)
(* file the door is counted as shut for good.                               *)
Admitting(p) == Ours(p) /\ Alive(p) /\ ~rec.winding /\ ~old.raced
DoorOpen == {p \in Serves : Admitting(p) /\ ~rec.starting}
Begun(p) == pc[p] \notin {"idle", "opengate", "gatewait", "gatelost", "gated",
                          "claimwrite"}
DoorOver == {p \in Serves : Begun(p) /\ ~Admitting(p)}
Door == INSTANCE ShareDoor WITH
          Shares <- Serves, Nobody <- NoOne, over <- DoorOver,
          open <- IF DoorOpen = {} THEN NoOne ELSE CHOOSE p \in DoorOpen : TRUE
DoorSpec == Door!Spec

(* What has to end ends: a share that was stopped and an answer given, one  *)
(* whose record was force-deleted, also when another share claims the box   *)
(* before it looks, and one whose box went away or is another start of it.  *)
MustEnd(p) ==
  \/ \E o \in Ops : ans[o].owner = p /\ (StopAnswered(o) \/ ans[o].said = "deleted")
  \/ Opened(p) /\ route # pinned[p]
SharesEnd == \A p \in Serves : MustEnd(p) ~> ~Alive(p)

=============================================================================
