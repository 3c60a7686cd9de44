# h5i in TLA+

A verification development of h5i: models of its components, TLC runs on small
instances, and proofs for all instances. Paths are relative to the repository;
`env.rs` stands for `src/crates/h5i-core/src/env.rs`.

## 1. The system

h5i runs a coding agent in a *box*: a git worktree on a branch of its own, under
a resolved policy, with receipts for what ran. A reviewer reads what the box
`propose`s and `apply`s it to the parent branch. Everything is a short-lived
command-line process that works on files under `.git/.h5i`; there is no daemon.
Commands therefore meet only through files, git refs, flocks and pid records.

### Components

| Component | State | Operations | Hard part | Correct when |
|---|---|---|---|---|
| Box lifecycle (`env.rs`, `src/cli/boxes.rs`) | `<env>/manifest.json`, worktree, branch, receipts, `run.lock`, `observers.lock` | create, run, shell, propose, rebase, apply, abort, gc, rm | every command is a process with its own copy of the manifest; kills | one writer at a time; no prune under a session; only reviewed work lands; rm repeatable |
| Metadata ref `refs/h5i/env` (`env.rs` 651-1257, `refstore.rs`) | events.jsonl, manifests.jsonl in one ref | append, strip, materialize, union-merge | compare-and-swap with retries; clones exchange it in any order | append-only; merge converges; disk never older than what it was synced from |
| Box services (`env.rs` 7815-8480) | service records with pid and start time | start, stop, status, logs | pid reuse, two starts | one process per service |
| Share record (`session.rs`, `share_record.rs`) | `share.json`, gate file, lock file | claim, update grants, stop, revoke, forget, wind up, clear | several processes write one record, one of them is being killed | a box is shared at most once; nobody admitted after stop |
| Share serving loop (`run.rs`, `bridge.rs`, `gate.rs`, `owner.rs`) | live connections, permits, the shutdown flag, the receipt | authorize, admit, watch, cut, wind up, quiesce | revocation and shutdown against admission in flight | a revoked grant ends its connections; nobody enters after the flag; the receipt claims what is true |
| Share transports (`p2p.rs`, `tunnel.rs`, `http_front.rs`, `dialer.rs`, `pump.rs`, `join.rs`) | connections, streams | accept, greet, dial, pump | several streams of one connection; a dial on a blocking thread | one connection carries one ticket |
| Runner protocol (`h5i-runner`: `client.rs`, `serve.rs`, `proto.rs`) | one request per channel | create, exec, export, destroy, list, gc | lost answers, retries, workers that outlive their client | a client hears of its own box only |
| Runner box store (`boxstore.rs`, `source.rs`) | attempts, boxes, leases, locks | begin, commit, lock, touch, reap | processes that meet only in two directories | what can be found is complete; an export is alone |
| Browser sessions (`browser_session.rs`, `control.rs`, `src/cli/browser.rs`) | session records, default pointer, control lock, engines | open, verbs, close, rm, expire, evict, take, release | no daemon: every command reads, probes, acts and writes back | no engine without a record; a verb reaches its own session; control comes back |
| Browser proxy, frames (`browser_proxy.rs`, `browser_frames.rs`) | connections, frames | forward, record | I/O | - |
| Browser engine, network (`h5i-browser`: `net.rs`, `budget.rs`, `receipt.rs`, `cookies.rs`, `broker.rs`) | budget, receipts, jar | fetch, redirect, record | counting over retries and redirects | never over budget; effect has a receipt |
| Browser engine, streams and IPC (`stream.rs`, `ipc.rs`, `sse.rs`, `ws.rs`) | the page and what was read of it, viewers, held and owed frames | join, ack, input, verbs, broadcast | slow viewers, many ways to replace the page | refs are of the page there is; frames in order; who watches sees the page come to rest |
| Browser engine, document and script | DOM | parse, evaluate | data | - |
| Sandbox brokers (`secrets_broker.rs`, `auth_proxy.rs`, `supervisor.rs`, `seccomp_notify.rs`) | grants, notifications | deliver, expire, answer | races with the target process | no secret after expiry |
| Sandbox back ends (`sandbox.rs`, `container.rs`, `microvm.rs`, ...) | kernel objects | set up, run, tear down | system calls | - |
| Receipts, cache, quarantine, export (`receipt.rs`, `cache.rs`, `quarantine.rs`) | JSONL logs, blobs | append, promote, quarantine | crash between blob and line | what is named exists |
| Recon (`h5i-recon`, `h5i-wire`) | ledger, frontier, jobs | append, fold, crawl, triage | duplicate and late results | the fold does not depend on duplicates |
| Web-security experiments, kernel evidence, wasm harness, dashboard | local | - | small | - |

### How they interact

* Commands on one box: through `manifest.json` (read once per command, written
  whole), `run.lock` (exclusive, non-blocking), `observers.lock` (shared for
  readers, exclusive for teardown), the share gate (waited for up to 30 s).
* Box and ref: every status change writes the file first, then commits it to
  `refs/h5i/env`; most commands begin by copying newer lines of the ref to disk.
* Share and box: share claims its record under the gate; apply, rebase, abort
  and rm hold the gate to their end, gc only reads the record.
* Runner, browser, sandbox: started by `run` and `shell`, talk over pipes and
  sockets; they meet the lifecycle only through its status and receipts.

## 2. Plan

Modules, most important behaviour first; each with an MC module, runs and, where
marked (P), proofs.

1. `BoxLifecycle`, refining `BoxStatus` (P): typing, exclusion of writers. *Done.*
2. `ShareSession`, refining `ShareDoor` (P): claim, grants, stop, revoke, forget,
   winding up, clear and the second signal, against the gate of the lifecycle
   commands; abstract specification: *one open share at a time, and none that
   was over opens again*. *Done.*
3. `ShareBridge` (P): admission, the watches that cut connections, the shutdown
   and the receipt. *Done.*
4. `RunnerStore`, refining `BoxRegistry` (P): channels, workers, attempts, leases;
   abstract specification: *a name stands for one box at a time and a client
   hears of its own*. *Done.*
5. `BrowserSession` (P): registry, engines, control. *Done.*
6. `PageSession` (P): the page thread of one session and its viewers. *Done.*
7. `ParentBranch`: two boxes applied to one parent. `MetaRef`: the
   compare-and-swap append with its 64 attempts.
8. `FetchReceipt`: budget, redirects, receipts, cookies.
9. `ReconLedger`: ledger fold (pure, against a reference definition), jobs, crawl.
10. `Brokers`: secrets broker, auth proxy, supervisor.
11. Cache and quarantine, services, experiments, kernel-evidence accounting.

Theorems worth having: type correctness and exclusion of each component; that
the share gate freezes a box; that no grant is admitted after a stop; that a retried
create makes one box; that a box runs one browser engine.

## 3. What is modelled

### BoxLifecycle

One box name, and processes `Procs`, each issuing commands one after another.
A command is the sequence of steps of its function in `env.rs`; between any two
steps another process may act or the process may be killed (`Crash`: the kernel
drops its flocks, the rest stays). An I/O error that makes a function return
with `?` in the middle leaves the same state as a kill at that point, so it has
no action of its own, except where the code does more on that way (`CreateFails`,
`Undo`, `RecordFails`, the refusals).

| Variable | Code |
|---|---|
| `dir` | incarnation of `<env>/`: a lock file opened before an rm is another inode than one opened after |
| `disk` | `manifest.json`: which create made it, status, `updated_at`, captures |
| `work`, `dirty`, `branch` | the worktree, whether it differs from the branch tip, the branch tip |
| `landed`, `reviewed` | tips merged into the parent branch; tips a propose froze (history) |
| `receipts` | ids in the receipt log |
| `ref` | the box's line in `manifests.jsonl` of `refs/h5i/env` |
| `share` | `share.json`: who serves it |
| `pc`, `verb`, `m`, `gate`, `holds` | per process: step, command, the manifest in memory, the gate file it opened, its flocks |
| `clock`, `ops`, `crashes` | source of fresh ids and timestamps; bounds |

| Actions | Code |
|---|---|
| `ReadRef`, `Compare`, `Materialize`, `Load`, `NotFound` | sync and `find` at the start of each command (`materialize_from_ref`, `src/cli/boxes.rs`); the read of the ref, the comparison with the file and the write of the file are separate |
| `SessionCheck` ... `GoIdle`, `StopWatching` | `run_inner`, `shell`, `shell --readonly` |
| `ProposeLock`, `Snapshot`, `Propose` | `propose`, `mediated_commit` |
| `GateOpen`, `GateTake`, `GateTimeout`, `RefuseIfShared` | `share_gate`, `hold_gate_unless_shared` |
| `Rebase*`, `Apply*`, `Abort*`, `Gc*`, `Rm*` | the functions of these names |
| `Create*`, `NoBranch`, `Undo` | `create_with_remote`, `CreateRollback` |
| `ShareCheck`, `Claim`, `EndShare` | `box share`, `claim`, `clear` |

Abstractions: `open` and `flock` of run.lock and observers.lock are one step (two
adjacent system calls), `open` and `flock` of the gate two (a wait of up to 30 s
lies between); `remove_dir_all` is one step; the checks at the top of create are
one step, as is its rollback; what a payload does is any number of edits and
commits folded into one; the base commit, policy, services, persona and runner
boxes are left out; timestamps are distinct. A live share is one whose process
is between claim and end, which is what `read_live` decides by pid.

`BoxStatus` is the abstract specification: the status machine of a box as its
reader sees it. `FollowsMachine` states that `BoxLifecycle` implements it under
`status <- disk.status`. `MCBoxLifecycle` adds the symmetry of processes.

### Runs of BoxLifecycle

| Run | Scenario | Shows |
|---|---|---|
| `BoxSequential` | 1 process, all commands, box in any settled state, 5 commands, 1 kill | `TypeOK`, `OnlyReviewedLands`, `EvidenceExists`, `SyncNeverRollsBack`, `FollowsMachine` |
| `BoxSessions` | 3 processes, all commands but create and shell, 3 commands, 1 kill | `OneWriter`, `NoPruneUnderSession`, `ShareFreezesBox`, `ManifestOutlivesBox`, `NeverStuck` |
| `BoxProposedClobbered` | 2 processes, run and propose | the disagreement below |

Bounds. Five commands of one user cover create, run, propose, apply and one
more, that is the longest path of the status machine and one step off it; one
kill in any step covers every prefix of a command. Three concurrent commands are
enough for a holder, a contender and a third that changes the world under both
(rm, share, observer). All runs say CHECK_DEADLOCK FALSE: when the commands of
the scenario are used up, nothing is left to do. `BoxSessions` leaves out
`shell`, which after its load is the same as `run`, and create, because with a
concurrent create `OneWriter` and `ManifestOutlivesBox` do fail: create takes no
lock, and its rollback removes by name (see below).

`ShareFreezesBox` says less than one would like, because the code does. gc looks for a
live share without the gate (`env.rs:10023`) and writes back the manifest it
listed earlier; and an abort that waited at the gate of a directory that rm
erased meanwhile works beside a share of the directory made anew. Both take a fourth
command. The property therefore speaks of *new* marks (`at <= clock` is an old
one) and of a box whose branch is there.

`NeverStuck` says that commands do not wait for each other for ever: a command
that is neither at its session nor between two commands always has a step of its
own, because run.lock and observers.lock are tried and not waited for, and the
wait for the gate times out. No command repeats a step, so with a scheduler that
runs every process this is the liveness one wants, and it is checked on the larger
instance, kills included, without assuming fairness.

### Where BoxLifecycle shows the code doing otherwise than it says

`BoxProposedClobbered` ends in a counterexample: a run loads `idle`, a propose
completes, the run locks and writes `running` and then `idle`. Its root is that a
command loads the manifest (or the list, or the ref) *before* it takes a lock and
does not read it again under the lock. The lock then serialises the commands'
steps, not their decisions.

The model has further traces of the same shape, for which no run is kept: a sync
that read the ref before rm stripped it writes the manifest back after rm erased
the box; two syncs both find no file after an rm, and the later one writes its older copy over
what a command has saved since the first; an abort that loaded `proposed` turns an applied box into an aborted one; two runs
that loaded one manifest drop each other's receipt id; a run that loaded `idle`
commits after the propose and apply lands that; gc lists an aborted box and
prunes one that was created anew; the loser of two creates rolls back by name;
a claim that reaches the gate after the erasure re-creates the directory its
test looks for.

What holds under concurrency is what `BoxSessions` states, and what holds for one
user at a time is what `BoxSequential` states. Two of the latter's properties hold
beside other commands as well when some commands are left out, see section 4.

### ShareSession

One box, its record `share.json`, and three kinds of processes: `Serves` run
`h5i box share`, `Ops` run `share grant`, `revoke`, `stop` or `stop --force`,
`Verbs` run `apply`, `export`, `rm` or `rm --force`. Each process runs once. A
step is what a process does between two points at which another process can see
or change the record, the lock or the gate; in particular *read the record under
the lock* and *write it back* are two steps, because `clear_now`, `forget` and
`clear` may delete without the lock in between, and a process may be killed there.

| Variable | Code |
|---|---|
| `rec` | `share.json`: owner (`pid`, `started_at`), `starting`, `winding_up`, grants, revoked |
| `lock`, `gate` | holders of `share.lock` and `share-gate.lock` |
| `old` | the `share.lock` that `rm` erased: who holds it, who else still has it open, and whether anybody did (history) |
| `dir`, `removed` | the box's directory exists; `rm` erased the box (the directory may be back) |
| `route`, `starts`, `pinned` | the session of the box that runs now; the one a share's dialer is pinned to |
| `expired`, `minted` | grants whose time is over; ids handed out |
| `recycled` | pids of dead shares that the system gave to another process |
| `pc`, `seen`, `cmd`, `arg`, `early` | per process: step, the record about to be written, the command, its grant, `run::stop`'s unlocked look at `starting` |
| `signal`, `tries` | the watcher of `arm_second_signal`; failed attempts of `begin_winding_up` |
| `announced`, `receipts`, `ans` | history: invites printed, receipts written, answers to operators |

| Actions | Code |
|---|---|
| `StartShare`, `OpenGate` ... `ClaimWrite` | `run::serve`, `share_gate`, `session::claim` |
| `SetUp` ... `Announce` | `serve_async` up to the printed invite: transport, `still_ours`, the locked opening update |
| `NoticeSpent`, `NoticeBoxGone`, `ServeEnds`, `Interrupted` | the four arms of its `select!`: `stopped_elsewhere`, `box_went_away`, the transport, the signal |
| `WindUp*`, `TearDown`, `WriteReceipt`, `Clear*`, `Exit` | the way out, `begin_winding_up`, `session::clear` |
| `HardCheck`, `HardDelete` | `arm_second_signal`, `session::clear_now` |
| `StartOp` ... `RevokeLook` | `run::grant`, `run::revoke`, `run::stop` with `session::update`, `session::stop`; `src/src/cli/share.rs` |
| `ForceLock`, `ForceDelete`, `ForceLook` | `session::forget` and the look the command takes after it |
| `StartVerb` ... `Erase` | `hold_gate_unless_shared`, `export`, `rm` |
| `Kill`, `BoxStops`, `BoxStarts`, `Expire`, `Recycle`, `Corrupt` | the surroundings, each switched by `Faults` |

`Lock::acquire` (`session.rs:309-346`) opens `share.lock` and then waits up to five
seconds for the flock of *that* file. As long as the file stays where it is the two
are one step of the model, since opening changes nothing; `Erase` is where the
difference shows: of the processes that stand before a lock (`Waiting`) any set may
have the erased file open already. Those wait for it and for nothing else
(`old.open`; `CanLock`, `LockFails` and `TakeLock` look at it first), while who comes
later opens a new file: both may then be at work on the record at a time.
Likewise a process that waits for the gate when `rm` erases it (`gatelost`) gets
the erased file's lock, whoever holds the new one.

Abstractions. Locking the file and reading the record are one
step: nobody acts on the lock being held but unread. A time-out happens only
while another process holds the lock. `rm`'s removal of the directory is one step:
what it erases of the record, the lock and the gate one after the other is what
`old` and `gatelost` keep apart, and a process that finds some of them gone and others
not is one that started before or after. Of a lifecycle command only the gate, the
look at the record, run.lock (`route = 0`: no session of the box runs) and the
removal are kept; its other conditions are in `BoxLifecycle`. The early look of
the command line and of `run::stop` is one read. The refusal to mint a grant
when the clock has moved is left out. Visitors and their connections are in
`ShareBridge`; here a transport is either up or has ended.

`ShareDoor` is the abstract specification; `DoorSpec` states the refinement: the
open share is the live owner of a record that neither starts nor winds up, and a
share is over when it has claimed and is no such owner and will not be one.

| Run | Scenario | Shows |
|---|---|---|
| `ShareCommands` | 1 share, 3 commands of any kind, 2 grants, time-outs, signals, garbled record, recycled pid | `TypeOK`, `StopSticks`, `StoppedBeforeOpening`, `AnswersHold` |
| `ShareLifecycle` | 2 shares, 1 command, 1 apply or rm, kills, box restarts, expiry | `ServingOwnsRecord`, `NoShareUnderVerb`, `DoorSpec` |
| `ShareTakeover` | 2 shares, 1 stop or forced stop, box restarts, fair | `OthersUntouched`, `SharesEnd` |

Bounds. A record has one owner at a time, so two shares are what a takeover
needs: the one that leaves and the one that claims. Three commands are a holder
of the lock, one that waits and one that gave up waiting; two grants are one
that changes and one that must not. `WindingUpAttempts = 2` has a first failure and a last one.
`MaxRoute = 2` is one restart of the box. The fault sets are split over the runs
because all of them with two shares is out of reach; together the runs switch on
each one. CHECK_DEADLOCK FALSE: every process runs once, and when all have
ended nothing is left to do.

Fairness. Each process's own steps are weakly fair: the scheduler runs it, its
polls (`STOP_POLL`, `BOX_POLL`) come round, a lock wait ends because its holder
is scheduled too or has died and lost it. Nothing is assumed of operators,
signals, the transport ending or the surroundings.

### Races ShareSession has

The watcher of a second signal looks whether the record is this process's own and
then deletes it, without `share.lock` (`clear_now`, `session.rs:735`): between the
two the share may clear and another one claim, and the watcher deletes that one's
record. It takes two shares and a signal within one look. `run::stop` looks at
`starting` before it takes the lock (`run.rs:862`), so the operator may read that
nothing was announced of a share that has opened meanwhile. And the second signal,
or a `stop --force` that gave up on the lock, may delete the record between a
grant's read and its write, which brings it back (still shut, see `StopSticks`).
The model has all three; the fault sets of the runs keep the first out of
`ShareLifecycle`, whose properties do not hold with it.

A fourth needs a kill, `rm` and two commands. A command reads the record of a share that
was killed; `rm` erases the box and with it `share.lock`; the next share claims the box
that was made again, and the command writes the dead share's record over its claim. The
new share has lost its place. A second command that had read the new record writes it
back, and the share is where it was. For `ShareDoor` that is a share that was over and
opens again, so `DoorSpec` does not hold of this combination (`StopSticks` and
`AnswersHold` do).

A fifth needs `rm` and a command that waits for `share.lock` meanwhile: it gets the lock
of the erased file, and works on the record of a box made again beside the holder of the
new lock file. Two writers may then undo each other's answers, a stop among them.
`old.raced` records that somebody was waiting, `StopSticks`, `StoppedBeforeOpening`,
`AnswersHold` and `ServingOwnsRecord` claim nothing afterwards, and for `DoorSpec` the
door is shut then. `ShareLifecycle` reaches such states; `NoShareUnderVerb` holds in them
too, because no lifecycle command gets to work on a box that was removed.

### ShareBridge

The serving process of one share from the open door to the receipt. The record is
seen from the other side: what `ShareSession`'s commands do to it happens in
`Others`, at any time, and what the bridge does about it is in detail.

| Variable | Code |
|---|---|
| `transport` | `run.rs`: tunnel or peer to peer |
| `disk`, `grants`, `winding`, `bad` | `share.json`: whose it is, its grants, `winding_up`, whether it can be read |
| `main`, `shutdown`, `armed` | where `serve_async` is; `Bridge::shutdown`; a second signal ends the process |
| `settled`, `receipt` | what `quiesce` returned; what the receipt says of it |
| `link`, `shut`, `owner`, `doubt` | per connection: its place in front, how it was closed and what the peer was told, the grant of the connection, a watchdog between its two reads |
| `step`, `ticket`, `late` | per stream: where its handler is, what it presented; those silent when the flag went up (history) |

| Actions | Code |
|---|---|
| `Accept`, `Leave` | the accept loops of `tunnel.rs` and `p2p.rs` |
| `Ungreeted`, `Doubt`, `Cut`, `TellEnded`, `Drain` | `serve_connection` of `p2p.rs`: its watchdog, the two reads of the record, the drain of its streams |
| `Greet` ... `Finish` | `serve_stream`, `bridge::authorize`, `admit`, the dial, the pump with its three ways to be cut |
| `BoxWentAway`, `Interrupted`, `StoppedElsewhere` | the arms of the main `select!` |
| `MarkWinding` ... `Exit`, `HardExit`, `SkipWait` | the teardown: `begin_winding_up`, `begin_shutdown`, `Endpoint::close`, `quiesce`, the receipt, `clear`; the signals |
| `Lapse`, `StopShare`, `ForceStop`, `WriteBack`, `WriterDies`, `Replace`, `Sicken` | the other processes and the clock |

Abstractions. `Conns` and `Streams` are those that arrive while the share lasts; a
connection is not used again. What waits beyond `MAX_PENDING` or
`MAX_LIVE_CONNECTIONS` is refused unheard, which is as if it had not come. All
grants are minted from the start; one that is added later is one nobody has
presented yet. A p2p share mints one grant, but the bridge accepts a table with
more and its own tests hand it one (`p2p.rs:1151-1201`). The other share's
grants all live. The record starts to be unreadable only before the teardown. A
forced stop that could not have `share.lock` removes the record under a writer that
has read it (`disk = "held"`); until the writer is done or dead nobody claims the box,
and it may put the record back (`Forgotten::Reappeared`). A
dial that was aborted runs on in its blocking thread and drops its socket, and is
not followed. `--direct-only` is left out. Of the receipt only the claim that the
share settled is kept.

`ShareBridge` (the run): 2 connections, 2 streams (on one connection of p2p, on
two of the tunnel), 2 grants of this share and one of another, `MaxLive` 1, both
transports, about 620,000 states. Two streams of one connection are what
`OneTicket` needs; a permit fewer than streams makes the refusal of `Admit`
happen. Fairness is that of the runtime: one weak fairness condition for all steps
its tasks owe (`Progress`). Each of them can be taken a bounded number of times
and none can be undone, so none is starved by the others. Peers, operators,
writers of the record, signals and the box owe nothing. CHECK_DEADLOCK FALSE: the process exits.

| Property | Says |
|---|---|
| `SettledIsWhole` | a receipt that claims a whole account was written with no handler under way |
| `NoLateEntry` | nobody silent when the flag went up is weighed afterwards, although `winding_up` may reach the disk after the flag |
| `OneTicket` | streams of one connection race, and still carry one grant; it is one of this share, also after a force-stop and a new claim |
| `EndingIsTrue` | "revoked" is said only of a dead grant, "ended" only of a share that is ending or has no record at that moment, although it is decided by two reads |
| `CutOff`, `ShareEnds` | a dead grant ends its connections; a stopped share, or one whose record stays away, its process |

`EndingIsTrue` has an exception that the code intends, and two that it has. A record
nobody can read closes connections, and they are told "revoked". A record that is
gone when a watchdog first asks and back when it asks again closes a connection with
"revoked" although its grant lives (`doubt = "blind"`). And "ended" need not be for
good: a watchdog that reads while a forced stop has the record removed says so, and
the writer that held the record puts it back. `share stop --force` warns of the last
(`cli/share.rs:270-281`, "Access is NOT cut off"), and `ShareEnds` promises the end of
a force-stopped share only if the record stays away until the process has polled.

### RunnerStore

A runner's disk and the workers at the far end of its channels; one channel is one
RPC and one worker process. `BoxRegistry` is the abstract specification: a name
stands for one box at a time, and a client hears only of a box made of what it
asked for.

| Variable | Code |
|---|---|
| `live`, `creating` | the two directories of `boxstore.rs`: `box.json`, `policy.json`, `lease.json`, `lease.tmp`, the tree, the bundle, who opened the `lock` file of that name and who holds its flock. Two fields only remember: `opened`, who opened a lock in this directory, be its file unlinked by now, and `reapers`, who set about removing it |
| `pc`, `ask`, `saw`, `todo`, `cell` | per worker: step of `serve.rs`'s handler, request, the `box.json` it read, what its sweep chose, the lease it is about to write |
| `hung`, `told` | whether the client's watchdog gave up; the answer |
| `clock` | time, in units of the leases |

| Actions | Code |
|---|---|
| `Send`, `HangUp` | `client.rs`, `src/cli/placement.rs`: a request and the 60 seconds it waits |
| `Sweep`, `Gc`, `Reap`, `Swept`, `List` | `sweep_once`, `reapable`, `reap`, `list` |
| `Look` ... `Rename`, `Cleanup` | `handle_create`, `begin`, `source.rs`, `commit` |
| `Find`, `OpenLock`, `Lock`, `Start`, `Run` | `handle_exec`, `handle_export`; `BoxStore::lock` opens the file and then takes the flock |
| `Touch`, `Truncate`, `Write`, `Replace` | `touch` and `write_json`: four steps, because nothing keeps two workers out of one `lease.tmp` |
| `Remove`, `Unlink`, `Wiped`, `WipeFails` | `handle_destroy`, `remove`, `reap`: `remove_dir_all` unlinks what it finds, in any order, then the directory, and may fail at any call |
| `Kill`, `Tick` | a worker that dies; time |

`RunnerShared`: three channels, one box name, two requests for it, every RPC but
`gc --all`, hang-ups, kills and a failing git. `Calm` is the condition under which
`BoxComplete` and `RegistrySpec` hold: no create is sent again while its first
worker still builds, nobody collects what is unfinished, and a build is quicker
than `CREATING_TTL`. The run satisfies it by `Overlap = FALSE` and a clock that
stops before `CreatingTtl`; the theorems have it as their hypothesis.

What a removal does to these promises. The comment at `boxstore.rs:469-470` has
create, destroy and export take the lock exclusively; in the code only export does,
and destroy and the sweeps remove a box without a look at its lock. Since
`remove_dir_all` is many calls, `lock` may be gone while `work` is still there. An
export then makes a new `lock` file, takes it at once and reads the tree beside an
exec that holds the old one, or beside the removal itself. A removal that is killed
or fails part of the way leaves what it had not come to: if that includes
`box.json`, the box is found, and a create of the same request is told `existing` of
half a tree. (`list` expects a box that has lost its lease, `boxstore.rs:300-302`, and
the next sweep removes it; a box that has its lease stays.) The model has all of
this, and without the clause `reapers = {}` both properties fail in it.
`BoxComplete` and `ExportAlone` therefore speak of directories that nobody has
set about removing since they were made, which includes every directory at which
only creates, commands and exports work, whoever among them is killed.
`RegistrySpec` holds without such a clause.

`RunnerHalfBuilt` is what happens without the first part of `Calm`, see the finding: the
attempt's directory is named after the request and not, as its comment says, after
the call, so the second attempt empties the first one's directory and the first
one publishes it.

Bounds. One box name: workers of different names share nothing but the count of
boxes and the sweep, which takes names one by one. Three channels are a holder, a
contender and a sweep. A box is removed file by file, its tree in two steps (half,
all); an attempt's directory is removed in one, since nobody but its builder looks
inside. git and the disk fail as a fault. Channels are symmetric, and so are
requests. `MCRunnerStore` gives a view: states are the same that differ only in what
no later step and no property reads, such as the request of a worker that is done
or which of the dead had opened a lock. CHECK_DEADLOCK FALSE: each channel is used
once.

### BrowserSession

The registry of browser sessions, their engines and the control lock, as the
commands of `h5i browser` and `h5i box rm` work on them. There is no daemon: a
command reads, probes, acts and writes back, and these are steps of their own.

| Variable | Code |
|---|---|
| `rec`, `place` | `session.json`: the state of a session; host or box |
| `default` | the pointer to the session of a command that names none |
| `engine`, `advert`, `sock`, `svc` | processes; their control files; the one socket path of the box; the record of its service |
| `box`, `due` | the box is there; sessions past `--expires-in` |
| `lock` | `control.json`: a human drives; the agent has to look again |
| `pc`, `verb`, `tgt`, `todo`, `seen` | per command: step, verb, session, records of its sweep, the control record it read |
| `strays` | (history) engines whose command failed or was killed before it recorded them |

| Actions | Code |
|---|---|
| `Begin`, `Expire` | every command first sweeps (`expire_due`), from copies it read |
| `Resolve`, `Bury`, `Forget`, `Unpoint` | `resolve`, `end`, `clear_default_if` |
| `Mint` ... `GiveUp`, `Navigate`, `Moved` | `open`, `new`, `await_control` |
| `Unrecorded` | `start` fails to seed the storage or to write the record, its engine running |
| `Check`, `Deliver`, `Snapped`, `Reread`, `Clear` | a verb under `control::check`, `control::snapshotted` |
| `Take`, `Release`, `HandBack` | `control::take`, `release` |
| `Stop`, `Close`, `FindToRemove`, `Erase` | `close`, `rm`, `rm --force` |
| `Unbox`, `Evict` | `box rm` and `evict_box` |
| `Serve`, `Crash`, `TimePasses`, `Killed` | engines, time, and a command killed between two of its steps |

`BrowserSessions`: an agent (open, snapshot, act, close) and an operator (close, rm
--force, box rm, take, release), two sessions, one of which can be taken over
and the other expires, host and box, crashes, slow starts, starts that fail before
their record is written, and the operator's commands killed anywhere (`Mortal`). `MaxCrowd` bounds
the sessions minted plus the commands under way when one begins: two commands meet
at one session, and one command at two. That no engine is lost (`NoOrphans`), that
closed means stopped (`StopIsReal`) and that a box runs one engine
(`OneEnginePerBox`) are what an agent left alone for a night depends on.
Fairness: a command that was started goes on, an engine comes up unless it dies;
nobody has to start a command. `ControlComesBack` therefore assumes the snapshots
it speaks of. CHECK_DEADLOCK FALSE: ids are used up.

`BrowserRedirected` is a counterexample to the registry's own aim, see the finding:
one socket path per box, and a probe that asks for the path only.

What the properties leave out, because the code does not promise it: `expire_due`
writes a session off without stopping its engine (`NoOrphans` excepts it); `start`
spawns the engine (browser.rs:2060), seeds its storage (2066-2068) and writes the
record last (2113), and a failure or a kill in between leaves an engine that runs, in
a directory without a record, which no command finds (`strays`; `NoOrphans` says that
these are all there are, and that none of them is taken for a session later); `box rm`
erases the record of the service and does not stop it, so that an engine may
outlive its box (`OneEnginePerBox` speaks of a box that is there); `open` of a
session a human drives navigates it without asking the lock; a takeover between
`snapshotted`'s look and its write is erased. Ids stand for names; a box is not
made again; a SIGTERM ends an engine at once. Not modelled: the tier
`control_on_host` of sessions without a place, zombies, a microVM's third answer to
a probe.

### PageSession

The engine of one browser session, as its page thread sees it (`run_session` in
`stream.rs`). That thread alone touches the page; what is concurrent is the order in
which joins, leaves, acks, input and verbs of several clients reach it, and how far
each viewer is behind.

| Variable | Code |
|---|---|
| `session` | `struct Session`: the document (`doc`) and what it looks like (`rev`), a submission its scripts asked for (`form`), `login`, `served_refs`, `hint_refs` |
| `owed` | `frame_owed` |
| `viewers` | `struct Viewer`: queue of the socket, `ack_pacing`, `awaiting_ack`, `pending` |
| `clients` | the far ends: whether they are there and ask for pacing, the frame drawn, acks under way |
| `missed` | (history) viewers the code left without a frame it did not count as owed |

| Actions | Code |
|---|---|
| `Control` | `control_verb` with `follow_page_submission`, then `broadcast_change` |
| `Join`, `Leave`, `Config`, `Ack` | the arms of `run_session` |
| `Input` | `handle_with` and the `viewer_*` handlers, then `dispatch` and `serve_owed` |
| `Draw` | the client: it draws, and acknowledges under pacing |

A handler is a set of outcomes: the session after it, whether it reports that the
page moved, and whether it moved it without a report. Verbs are grouped by what
they do to the page; of refs it is kept which document they are of.

Abstractions. A frame is the number of the look it shows; urls, labels, elements
and the list of visited pages are left out, so a ref, a link or a step in the
history may be taken or refused. A page that submits again as soon as it has loaded
is followed in one landing. A message is handled when it is sent, except acks,
which wait in `clients`; a socket that ends and its `Leave` are one step. Config is
a client's first message and comes once. `once`, recording, the action log and the
baseline of deltas, which only a login drops, are left out.

`PageViewers`: two viewers, paced or not, every verb and input, failures to paint
for who joins and after a verb; `MaxRev` 3, `MaxQueue` 2, about 400,000 states. Three
looks are one on the screen, one on its way and a newer one held or owed; two
viewers are one who can take a frame and one who cannot. `MaxQueue` holds the page
still while a viewer is two frames behind, which bounds the queue of a viewer
without pacing, unbounded in the code. The theorems hold for
every bound, number of viewers and kind of failure. Fairness is that the page
thread takes acks and configs in turn, and that a client draws what it is sent;
nobody has to change the page, join or leave. Deadlock is checked.

| Property | Says |
|---|---|
| `ReadingsHold` | each of the places that replace the document drops both sets of refs; a login drops what the agent read, and nothing is read under it |
| `NothingForgotten` | held, owed and sent frames together give each viewer the page as it is, but for those the code leaves out itself |
| `PacedDelivery` | no viewer is taken back to an older look; under pacing the frames under way never become more |
| `PageIsShown` | every viewer who stays is again and again shown the page as it is |

What the code does not promise, and the properties leave out. A click whose handler
ran and whose navigation was then refused answers `changed = false`
(`stream.rs:2684`), so viewers are not shown what the handler did; a frame that
cannot be painted after a verb, for one who joins or in `show` is not tried again;
all these viewers are in `missed`, until the next frame. Labels a viewer
asked for survive a login, and a ref that names one of them is accepted from the
agent too. Pacing does not undo what was sent before the config: a viewer that is
sent frames before its config is read has that many and one more out, and not the "at
most one" of `proto.rs:154-155`. A submission recorded while a viewer typed or
clicked is sent with the next verb, whoever asks for it; a `snapshot` that meets one
answers with the outline of the document that is left and the url of the new one.

## 4. Proofs

`BoxLifecycleProofs` (TLAPS), for all values of the constants:

* `TypeCorrect`: `Spec => []TypeOK`. The inductive invariant `TypeInv` adds
  `VerbOK`: a process that loads a manifest runs a command that works on one,
  without which the table `AfterLoad` would be applied outside its domain. It
  uses `VerbsAssumption` and `StartAssumption`. One lemma per shared step
  (`LeaveType`, `StepType`, `LockType`, `SaveType`), then one per command, with
  one step per action.
* `RunLockExcludes`: if `create` is not among the commands, `Spec => []OneWriter`.
  `OneWriter` is not inductive: it does not say why the others stay out.
  `LockInv` adds that a process in the writers' part holds run.lock *of the
  directory there is now* (`WritersHold`), that no lock has two holders
  (`OneHolder`) and that nobody is in a create (`NoCreate`). The step that needs
  all three is `RmErase`, which takes the directory and with it the lock file
  away: the process that does it is the writer, so nobody else is one. The
  hypothesis on create is needed: its check and its rollback remove the
  directory without the lock.

`BoxSessionProofs`, in two parts. For any number of concurrent commands of which none
is create:

* `RmCanBeRepeated` (`ManifestOutlivesBox`), with `TearInv`, which adds three parts to
  `LockInv`. `Duty`: which locks *of the directory there is* a process holds at each
  step, `observers.lock` drained before anything is torn down. `Ready`: how far gc
  and rm have got when they are at a step, so that the directory goes last.
  `Apart`: nobody drains a directory that somebody watches.
* `NeverPrunedUnderSession` (`NoPruneUnderSession`): the same invariant; whoever prunes
  holds `run.lock` and has drained `observers.lock`.
* `LiveShareFreezesBox` (`ShareFreezesBox`), with `GuardInv`: no gate has two holders
  (`OneGate`), who is past its gate holds it, no share is live meanwhile unless rm took
  the directory with the gate away, in which case there is no branch any more
  (`GateDuty`), and nothing is dated ahead of the clock (`Past`).
* `EvidenceBesideOthers` (`EvidenceExists`), with `LogInv`, for commands among which no
  box is made or removed: `Logged` extends the property to the manifest that each
  command carries in memory, which is what is written next.

* `NoRollBackBesideOthers` (`SyncNeverRollsBack`) and `SavesOnlyGoOn` (`OnlyLaterSaves`, a
  manifest is replaced by one stamped no earlier), with `FreshInv`, for commands that
  neither make, remove nor collect the box. The ref, what a sync has read and what a command
  is about to mirror are all no newer than the file (`NotAhead`), so a sync that is late
  finds nothing to write although it takes no lock. `Carrying` are the steps whose copy goes
  out next. The commands left out break it: `gc` writes back the copy of its list, and
  after `rm` two syncs may both have found no file.

For all commands, kills and create included, issued one after the other (`Lone`: there is
one process). The concurrent case is not left out for convenience: with all commands
these four fail in it, see above.

* `LandedWasReviewed`, `EvidenceIsThere`, `NoRollBack`, `ImplementsMachine`:
  `OnlyReviewedLands`, `EvidenceExists`, `SyncNeverRollsBack` and `FollowsMachine`. The
  invariant `SequenceInv` says what holds of the box between commands and after a kill
  at any point (`Whole`: the three properties, and that a proposed box is clean at a
  tip some propose froze and what the ref lists is in the log), and for each step what its process knows
  (`Knows`: the manifest in memory is the one on disk from the load on, its status is
  what the earlier checks let through). The refinement needs both: `BoxStatus` allows a
  change only from the status on disk, and the code compares the one in memory.

`ShareSessionProofs`, for any number of shares, commands and grants and every
set of faults:

* `ShareTypes`: `Spec => []TypeOK`. The invariant `TypeInv` adds `Patience`:
  a share that is still trying to mark its record has attempts left, without
  which `tries` would not stay below `WINDING_UP_ATTEMPTS`.
* `StopHolds`: `Spec => []StopSticks`. The invariant `StopInv` has four parts.
  `StopKept`: the record of a share that was stopped is marked and has nothing
  unrevoked, on disk *and in every pending write*. `Guarded`: of one share's
  record at most one write is pending, because its writer holds `share.lock`, or
  because `rm` erased the lock file together with the record and nobody else can
  have read that record. `OwnersBegan`: a record names a share that has claimed,
  so that a claim never brings a stopped one back. `StopWrites`: what `stop`
  writes is shut. `StopInv` is kept because every step is of one of three kinds,
  each with a lemma: it writes nothing (`QuietStep`, `MoveQuiet`), it reads the
  record and prepares a write (`ReadStep`), it writes (`WriteStep`). The unlocked
  deletions of `forget`, `clear` and `clear_now` are of the first kind: they
  break the lock's promise, but a record that is gone cannot let anybody in, and
  what a pending write brings back is as shut as it was.
  All of this needs one lock file at a time (`OneLock`), so the invariant of `Spec` is
  `old.raced \/ StopInv`: once somebody was waiting for the file that `rm` erased, the
  theorem claims nothing, and `NextMoves` says that this history is never forgotten and
  begins with an `Erase` only. The same exception stands in the theorems below.

`ShareSessionProofs` uses `ProcsAssumption` (processes of different kinds are
different ones); `ShareTypes` also `ChoiceAssumption` and `BoundAssumption`.

`ShareDoorProofs` goes on from `StopInv`, for any number of shares, commands and
lifecycle commands. Under every set of faults:

* `StoppedNeverOpens` (`StoppedBeforeOpening`) and `AnswersStay` (`AnswersHold`), with
  `AnswerInv`. What was answered must hold of the record on disk *and of every record
  somebody is about to write* (`Sound`), because a deletion without the lock lets an
  older write come last. Records of two shares have no grant in common (`Apart`), so a
  write that lands on a later share's record cannot make an answered grant live there.
  `OpKnows` and `OpenerKnows` say what a command and an opening share rely on at their
  write.

Under hypotheses about the constants, each of which excludes a behaviour of the code
that breaks the property:

* `SharesLeaveOthersAlone` (`OthersUntouched`) under `Unbroken`: no wait for `share.lock`
  times out (`clear` then goes on without the lock), no pid is given to another process
  (the record of a dead share would count as live between a claim's look and its
  write), and `rm` does not erase the lock file. Kills, signals, forced stops and damaged records are allowed.
  `LockedInv`: whoever is between its read and its write or delete holds the lock, and
  the record is still the one it read (`KnowsRecord`).
* `ServingOwns` (`ServingOwnsRecord`) and `NoDoorUnderVerb` (`NoShareUnderVerb`) under
  `Orderly`: shares may be killed, grants expire, boxes restart, the gate time out and
  the box be removed, but nobody sends signals, forces a stop or a removal or garbles the
  file, each of which deletes or hides a live record on purpose. `OrderInv` has
  `Gatekeeping` (who works on the box or claims it holds the gate, and no record is live
  under a command's hands), `Place` (which record there is at each step of a share), and
  that a pending write is made under the lock or is a stray one, read before `rm` erased
  the box, of a share that is dead. `ShareLifecycle` is an instance.
* `SharesAreADoor` (`DoorSpec`) under `Orderly` and `Unmixed`: shares are not killed, or
  the box is not removed, or at most one command is issued. `TidyInv` says what a writer
  relies on: it holds the lock and replaces the record it read (`Prepared`), or it is the
  one command whose lock file `rm` erased under it (`Leftover`). What that one brings back
  is the record of a dead share; a share whose claim it overwrites is out of the door for
  good, since no second command is there to bring it in again. Every step is matched with
  `ShareDoor`: the opening write opens the door, what ends, stops or kills a share puts it
  in `over`, and every other step is a stutter. A race for the erased lock file shuts no
  door, since `rm` finds none open (`RaceAtTheDoor`), and after it shares can only end
  (`NoDoorLeft`, from `ClosedStays`). `ShareLifecycle` (kills, removals and one
  command) is an instance. With kills, removals and two commands the refinement does not
  hold, see the race above, which is why the theorem leaves out that combination.

`RunnerStoreProofs`, for any number of channels, boxes and requests:

* `RunnerTypes`: `Spec => []TypeOK`, from `RunnerAssumption`; no lease is dated
  ahead of the clock.
* `ExportHolds`: `Spec => []ExportAlone`. The invariant adds `Holders`. Of a box
  (`Locked`): who opened a lock in its directory asks for this box until it is done, an
  export that holds the lock holds it alone, and as long as nobody has set about
  removing the directory, everybody opened the same file and who is at work holds
  it. Of an attempt (`Plain`): nobody has opened a lock in what a rename is about to
  publish, or set about removing it.
* `BoxesWhole` and `RegistryKept`, under `Calm` and whatever removals do or leave
  behind: `Spec => []BoxComplete` and
  `Spec => RegistrySpec`. The invariant `Hold` says where the parts of an attempt
  are at each step of its worker (`OnCourse`), that an attempt has one worker
  (`Exclusive`), that no sweep has chosen an attempt (`NoAttemptChosen`, where
  `MaxClock < CreatingTtl` is used), that a removed directory is empty (`Absent`)
  and `Kinds`. The refinement needs in addition that nobody is answered before its
  end and that a create has seen no box before it looks (`Untold`).

`BrowserSessionProofs`, for any number of commands and sessions:

* `SessionTypes`: `Spec => []TypeOK`. It needs `Aimed`: a command that sweeps
  before `rm` has its session already, since `rm` does not resolve one.
* `NoneLost`, `StopsAreReal`, `OneEngine`: `NoOrphans`, `StopIsReal` and
  `OneEnginePerBox`. None is inductive. A command acts on what an earlier step of its
  own found, so `Course` says what each step may still rely on (`end` comes after
  an engine that is dead, `spawn` before one that is not begun); `Recorded` says what
  a record implies about the engine, and `OneStart` that a session's engine is
  started by one command. They survive the other commands because dead engines do
  not live again and a session does not change its place (`Onward`, `Elsewhere`).
  The places where the code lets go of an engine (`due`, a session recorded as
  expired, and `strays`, those of a start cut short) are part of the invariant and
  not assumed away.

`ShareBridgeProofs`, for any number of connections, streams and grants:

* `BridgeTypes`: `Spec => []TypeOK`, with it that permits are not overdrawn, for
  which `Admit` is the only step that matters.
* `SettledHolds`, `LateHolds`, `TicketsHold`: `SettledIsWhole`, `NoLateEntry` and
  `OneTicket`. The invariant `Inv` adds `Grounded` (a stream
  under way has its handler, a tunnel's handler one such stream, and a stream
  past its ticket has the connection's grant, which is one of this share),
  `Lateness` (a late stream gets no further than the flag) and `Settling` (after
  the wait that succeeded no place is held, and none is given out any more).
* `EndingsAreTrue` (`EndingIsTrue`). `Informed` is the reason that the second reading
  cannot contradict the first: a watchdog that read a record has met a grant that is no
  longer live, no write undoes that (`Settled`), not even one that puts a removed record
  back, and a grant that `share stop` revoked goes with a record that says it is winding
  up.

`PageSessionProofs`, for any number of viewers, any bounds and any failures to paint:

* `PageTypes`, `ReadingsAreOfThePage`, `NobodyForgotten`, `PacingHolds`:
  `Spec => []TypeOK`, `[]ReadingsHold`, `[]NothingForgotten` and `PacedDelivery`.
  First what every handler makes of the session, whatever verb or input it serves
  (`Good`: readings stay right, the look gets no older, and a change is reported or
  known to be silent). Then `SendFrame` for one viewer (`SentFacts`), for all of them
  (`EveryoneFares`) and `Present` with its two chances to paint (`PresentFacts`).
  The invariant `Inv` adds `Paced` (a viewer is under pacing exactly if its config
  said so, without which an ack could not be matched with a frame) and `AllInLine`
  (drawn, queued and held frames are in the order they were painted and none is newer
  than the page), which is why a held frame that goes out late still takes nobody back.
  It uses `PageAssumption`.

Only model-checked: `SharesEnd`, `CutOff`, `ShareEnds`, `ControlComesBack` and
`PageIsShown` are liveness, and `NeverStuck` speaks of ENABLED: both are beyond the
prover. Every other property of a passing run has a theorem. Some of them are narrower
than the run in what they assume, or the run is narrower than what one would wish, and
in both cases because the wider claim is false of the code:

* `OneWriter` and what `BoxSessionProofs` shows for concurrent commands leave out
  `create` (its check and rollback take no lock);
* `OnlyReviewedLands`, `EvidenceExists`, `SyncNeverRollsBack` and `FollowsMachine` are checked
  for commands issued one after the other, and proved for those; beside other commands
  `EvidenceExists` and `SyncNeverRollsBack` are proved without those that break them;
* `BoxComplete` and `RegistrySpec` assume `Calm`; `RunnerHalfBuilt` is what happens
  without it;
* the properties of `ShareLifecycle` and `ShareTakeover` have the hypotheses `Orderly`,
  `Unmixed` and `Unbroken` explained above.

## 5. Not modelled

PROJECT.json gives the reason for each component. By kind:

* *Data and system calls.* Most of the source is the browser engine's document,
  style, script, encoding and network code, and the set-up of containers, microVMs
  and kernel filters. What these do is a function of their input or a matter of
  what a system call means; they keep no state that two parties dispute, and a
  small instance of a parser says nothing about the parser.
* *Worth modelling, not done.* The compare-and-swap append to `refs/h5i/env` with
  its retries and two boxes on one parent (in `BoxLifecycle` one command's
  append is one step), request budgets and receipts of the browser's network
  side, the page's own sockets and their queues, the recon ledger and crawl, the sandbox
  brokers, cache and quarantine, services, kernel-evidence accounting.
  `union_merge_commits` of `env.rs` has no caller but its tests.
* *Parts of modelled components.* Of the box lifecycle: services but the
  browser's, runner boxes (`run_remote`, `propose_remote`), export (only its part
  under the gate is in `ShareSession`), policy, persona and baseline files, and
  the reports that only read. Of sharing: `--direct-only`, headers, cloudflared, the
  joiner's side and what `share ls` prints. Of the runner: handshake, pairing,
  probing, frame budgets. Of browser sessions: artifacts, stores, identities,
  views and logs. Of the page thread: history, recording, the action log, deltas,
  listeners and wire formats.
