---------------------------- MODULE RunnerStore ----------------------------
(***************************************************************************)
(* The boxes on a runner's disk and the workers that share it.  A channel  *)
(* is one RPC: a client on the control plane and, at its far end, a worker *)
(* process of its own.  Workers know of each other only through two        *)
(* directories,                                                            *)
(*                                                                         *)
(*   creating/<operation>/   an attempt being built                        *)
(*   live/<box>/             a box: box.json, policy.json, lease.json,     *)
(*                           work/, lock                                   *)
(*                                                                         *)
(* and an flock in the second.  A step is what a worker does to them in    *)
(* one file-system call, or in several that nobody can tell apart.         *)
(***************************************************************************)
EXTENDS Naturals, FiniteSets

CONSTANTS
  Sessions,     \* channels, each good for one RPC
  Boxes, Digests,
  None,
  Rpcs,         \* what clients ask, see AllRpcs
  Faults,       \* what goes wrong, see AllFaults
  Overlap,      \* a create may be sent again while its first worker is at it
  Ttl, HardTtl, \* LeaseSpec
  CreatingTtl,  \* CREATING_TTL
  MaxBoxes,     \* MAX_BOXES
  MaxClock      \* bound: how far time goes

AllRpcs == {"create", "exec", "export", "destroy", "list", "gc", "gcall"}
AllFaults == {"hangup", "kill", "git"}

ASSUME RunnerAssumption ==
  /\ Rpcs \subseteq AllRpcs /\ Faults \subseteq AllFaults
  /\ Overlap \in BOOLEAN
  /\ None \notin Sessions /\ None \notin Digests
  /\ {Ttl, HardTtl, CreatingTtl, MaxBoxes, MaxClock} \subseteq Nat \ {0}
  /\ Ttl <= HardTtl
  /\ Boxes # {} /\ Digests # {}

\* placement.rs names an attempt after the digest of what it asks for.
Operations == Boxes \X Digests

VARIABLES
  clock,
  live,      \* live/<box>
  creating,  \* creating/<operation>
  pc,        \* where a worker is
  ask,       \* the request it was sent
  saw,       \* the box.json it read
  todo,      \* what its sweep chose and has not removed yet
  cell,      \* the lease it is about to write
  hung,      \* its client has given up
  told       \* its answer

disk == <<live, creating>>
local == <<ask, saw, todo, cell, hung, told>>
vars == <<clock, live, creating, pc, ask, saw, todo, cell, hung, told>>

-----------------------------------------------------------------------------
(* Leases.  `by` names the worker that created the file, as an inode would; *)
(* a file that was truncated and not yet written is not `whole`.            *)

NoCell == [by |-> None, born |-> 0, touched |-> 0, whole |-> FALSE]
LeaseAhead(s) == [by |-> s, born |-> clock + 1, touched |-> clock + 1, whole |-> TRUE]
NewLease(s) == [by |-> s, born |-> clock, touched |-> clock, whole |-> TRUE]
Cells == [by : Sessions \cup {None}, born : 0..MaxClock, touched : 0..MaxClock,
          whole : BOOLEAN]

Earlier(m, n) == IF m < n THEN m ELSE n
ExpiresAt(c) == Earlier(c.touched + Ttl, c.born + HardTtl)

\* A box without a lease is treated as one whose lease is over.
Expired(c) == c.by = None \/ clock >= ExpiresAt(c)
Readable(c) == c.by = None \/ c.whole

-----------------------------------------------------------------------------
(* Directories. *)

Stages == {"none", "bare", "part", "whole"}
\* box.json is `rec`, policy.json `policy`, lease.tmp `tmp`.  `lock` are the
\* workers that opened the file of that name (it is there if anybody did) and
\* `held` those that hold it.  What has happened to this directory so far:
\* `opened` are the workers that opened a lock in it, `reapers` those that have
\* set about removing it.
Dirs == [here : BOOLEAN, rec : Digests \cup {None}, policy : Digests \cup {None},
         work : Stages, lease : Cells, tmp : Cells, bundle : BOOLEAN,
         lock : SUBSET Sessions, held : SUBSET Sessions,
         opened : SUBSET Sessions, reapers : SUBSET Sessions, at : 0..MaxClock]

NoDir == [here |-> FALSE, rec |-> None, policy |-> None, work |-> "none",
          lease |-> NoCell, tmp |-> NoCell, bundle |-> FALSE,
          lock |-> {}, held |-> {}, opened |-> {}, reapers |-> {}, at |-> 0]

\* Nothing is in it, if there is a directory at all.
Empty(d) ==
  [d EXCEPT !.here = FALSE, !.opened = {}, !.reapers = {}, !.at = 0] = NoDir

\* create_dir_all
Made(d) == IF d.here THEN d ELSE [NoDir EXCEPT !.here = TRUE, !.at = clock]

Op(s) == <<ask[s].box, ask[s].digest>>
Box(s) == live[ask[s].box]
Attempt(s) == creating[Op(s)]

SetBox(s, d) == live' = [live EXCEPT ![ask[s].box] = d]
SetAttempt(s, d) == creating' = [creating EXCEPT ![Op(s)] = d]

Busy == {"sweep", "reap", "wipe", "list", "look", "begin", "receive", "fetch",
         "checkout", "cleanup", "record", "rename", "find", "open", "lock", "start",
         "running", "touch", "truncate", "write", "replace", "remove", "erase", "gc"}
Working(s) == pc[s] \in Busy

Freed(s) == live' = [b \in Boxes |-> [live[b] EXCEPT !.held = @ \ {s}]]
Goto(s, from, to) == pc[s] = from /\ pc' = [pc EXCEPT ![s] = to]

\* The worker answers, or tries to, and exits; its lock goes with it.
Answer(s, what) ==
  /\ pc' = [pc EXCEPT ![s] = "done"]
  /\ told' = [told EXCEPT ![s] = IF hung[s] THEN "nothing" ELSE what]

Init ==
  /\ clock = 0
  /\ live = [b \in Boxes |-> NoDir]
  /\ creating = [o \in Operations |-> NoDir]
  /\ pc = [s \in Sessions |-> "idle"]
  /\ ask \in [Sessions -> {[rpc |-> "none", box |-> b, digest |-> d] :
                             b \in {CHOOSE b \in Boxes : TRUE},
                             d \in {CHOOSE d \in Digests : TRUE}}]
  /\ saw = [s \in Sessions |-> None]
  /\ todo = [s \in Sessions |-> {}]
  /\ cell = [s \in Sessions |-> NoCell]
  /\ hung = [s \in Sessions |-> FALSE]
  /\ told = [s \in Sessions |-> "none"]

-----------------------------------------------------------------------------
(* A client opens a channel and asks one thing; every request but gc is    *)
(* preceded by a sweep.                                                    *)

\* A create that timed out may be sent again: its worker may still be at it.
MayAsk(o) ==
  \A s \in Sessions :
    Working(s) /\ ask[s].rpc = "create" /\ Op(s) = o => Overlap /\ hung[s]

Send(s) ==
  /\ pc[s] = "idle"
  /\ \E r \in Rpcs, b \in Boxes, d \in Digests :
       /\ r = "create" => MayAsk(<<b, d>>)
       /\ r # "create" => d = CHOOSE x \in Digests : TRUE
       /\ r \in {"list", "gc", "gcall"} => b = CHOOSE x \in Boxes : TRUE
       /\ ask' = [ask EXCEPT ![s] = [rpc |-> r, box |-> b, digest |-> d]]
       /\ pc' = [pc EXCEPT ![s] = IF r \in {"gc", "gcall"} THEN "gc" ELSE "sweep"]
  /\ UNCHANGED <<clock, disk, saw, todo, cell, hung, told>>

\* BoxStore::reapable
Due(all) ==
  {<<"live", b>> : b \in {b \in Boxes : live[b].here /\ (all \/ Expired(live[b].lease))}}
  \cup
  {<<"creating", o>> : o \in {o \in Operations : creating[o].here
                                 /\ (all \/ clock >= creating[o].at + CreatingTtl)}}

\* One unreadable lease stops the scan, whichever box it belongs to.
StoreReadable == \A b \in Boxes : Readable(live[b].lease)
ListReadable == \A b \in Boxes : live[b].rec # None => Readable(live[b].lease)
Listed == Cardinality({b \in Boxes : live[b].rec # None})
            + Cardinality({o \in Operations : creating[o].here})

AfterSweep(s) == CASE ask[s].rpc = "create" -> "look"
                   [] ask[s].rpc = "list" -> "list"
                   [] ask[s].rpc = "destroy" -> "remove"
                   [] OTHER -> "find"

\* sweep_once: what could not be read is reported and swallowed.
Sweep(s) ==
  /\ Goto(s, "sweep", "reap")
  /\ todo' = [todo EXCEPT ![s] = IF StoreReadable THEN Due(FALSE) ELSE {}]
  /\ UNCHANGED <<clock, disk, ask, saw, cell, hung, told>>

Gc(s) ==
  /\ pc[s] = "gc"
  /\ IF StoreReadable
       THEN /\ todo' = [todo EXCEPT ![s] = Due(ask[s].rpc = "gcall")]
            /\ pc' = [pc EXCEPT ![s] = "reap"]
            /\ UNCHANGED told
       ELSE Answer(s, "error") /\ UNCHANGED todo
  /\ UNCHANGED <<clock, disk, ask, saw, cell, hung>>

\* The items in the order of their names, boxes before attempts.
First(s) ==
  CHOOSE i \in todo[s] : i[1] = "live" \/ \A j \in todo[s] : j[1] = "creating"

\* BoxStore::reap removes what the name stands for by now, whoever is in it.  An
\* attempt goes at once: nobody but its builder looks into it.
Reap(s) ==
  /\ pc[s] = "reap" /\ todo[s] # {}
  /\ LET b == First(s)[2] IN
       IF First(s)[1] = "live" /\ live[b].here
         THEN /\ pc' = [pc EXCEPT ![s] = "wipe"]
              /\ live' = [live EXCEPT ![b].reapers = @ \cup {s}]
              /\ UNCHANGED <<creating, todo>>
         ELSE /\ todo' = [todo EXCEPT ![s] = @ \ {First(s)}]
              /\ creating' = IF First(s)[1] = "live" THEN creating
                             ELSE [creating EXCEPT ![b] = NoDir]
              /\ UNCHANGED <<pc, live>>
  /\ UNCHANGED <<clock, ask, saw, cell, hung, told>>

\* remove_dir_all has the directory open and unlinks what it finds, in no
\* particular order; the name may stand for another directory meanwhile.
Wiping(s) == pc[s] \in {"wipe", "erase"}
Aim(s) == IF pc[s] = "erase" THEN ask[s].box ELSE First(s)[2]

Less(d) ==
  {[d EXCEPT !.rec = None], [d EXCEPT !.policy = None], [d EXCEPT !.lease = NoCell],
   [d EXCEPT !.tmp = NoCell], [d EXCEPT !.bundle = FALSE],
   [d EXCEPT !.lock = {}, !.held = {}],
   [d EXCEPT !.work = IF @ = "whole" THEN "part" ELSE "none"]}

Unlink(s) ==
  /\ Wiping(s) /\ s \in live[Aim(s)].reapers
  /\ \E d \in Less(live[Aim(s)]) \ {live[Aim(s)]} : live' = [live EXCEPT ![Aim(s)] = d]
  /\ UNCHANGED <<clock, creating, pc, local>>

\* A sweep goes on whatever became of it; gc reports what it kept.
NextItem(s, what) ==
  IF pc[s] = "erase"
    THEN Answer(s, what) /\ UNCHANGED todo
    ELSE /\ pc' = [pc EXCEPT ![s] = "reap"]
         /\ todo' = [todo EXCEPT ![s] = @ \ {First(s)}]
         /\ UNCHANGED told

\* The last call takes the directory of that name, if nothing is in it.
Wiped(s) ==
  /\ Wiping(s) /\ Empty(live[Aim(s)])
  /\ live' = [live EXCEPT ![Aim(s)] = NoDir]
  /\ NextItem(s, "destroyed")
  /\ UNCHANGED <<clock, creating, ask, saw, cell, hung>>

\* A call fails: somebody put a file there, say, or took the directory first.
WipeFails(s) ==
  /\ Wiping(s)
  /\ NextItem(s, "error")
  /\ UNCHANGED <<clock, disk, ask, saw, cell, hung>>

Swept(s) ==
  /\ pc[s] = "reap" /\ todo[s] = {}
  /\ IF ask[s].rpc \in {"gc", "gcall"}
       THEN Answer(s, "reaped")
       ELSE pc' = [pc EXCEPT ![s] = AfterSweep(s)] /\ UNCHANGED told
  /\ UNCHANGED <<clock, disk, ask, saw, todo, cell, hung>>

List(s) ==
  /\ pc[s] = "list"
  /\ Answer(s, IF ListReadable THEN "listed" ELSE "error")
  /\ UNCHANGED <<clock, disk, ask, saw, todo, cell, hung>>
-----------------------------------------------------------------------------
(* CREATE_BOX. *)

\* The count, then the idempotent case, decided by the digest.
Look(s) ==
  /\ pc[s] = "look"
  /\ LET d == Box(s) IN
       IF ~ListReadable \/ Listed >= MaxBoxes \/ d.rec \notin {None, ask[s].digest}
         THEN Answer(s, "refused") /\ UNCHANGED saw
         ELSE /\ saw' = [saw EXCEPT ![s] = d.rec]
              /\ pc' = [pc EXCEPT ![s] = IF d.rec = None THEN "begin" ELSE "touch"]
              /\ UNCHANGED told
  /\ UNCHANGED <<clock, disk, ask, todo, cell, hung>>

\* A directory of the same operation is a leftover, and is replaced.
Begin(s) ==
  /\ Goto(s, "begin", "receive")
  /\ SetAttempt(s, [NoDir EXCEPT !.here = TRUE, !.work = "bare", !.at = clock])
  /\ UNCHANGED <<clock, live, local>>

GoesOn(s) == IF hung[s] THEN "record" ELSE "fetch"
AfterReceive(s) == IF hung[s] THEN "cleanup" ELSE "fetch"

\* The bundle arrives frame by frame; without its client there are no frames.
Receive(s) ==
  /\ Goto(s, "receive", AfterReceive(s))
  /\ SetAttempt(s, [Made(Attempt(s)) EXCEPT !.bundle = ~hung[s], !.at = clock])
  /\ UNCHANGED <<clock, live, local>>

\* Whether git fails on its own account, for want of space say.
GitFails == IF "git" \in Faults THEN BOOLEAN ELSE {FALSE}

\* git init and git fetch, in the directory of that name.
Fetch(s) ==
  /\ \E fails \in GitFails :
       LET d == Made(Attempt(s))
           fetched == d.bundle /\ ~fails
       IN /\ Goto(s, "fetch", IF fetched THEN "checkout" ELSE "cleanup")
          /\ SetAttempt(s, [d EXCEPT !.work = IF fetched /\ @ # "whole" THEN "part"
                                              ELSE IF @ = "none" THEN "bare" ELSE @])
  /\ UNCHANGED <<clock, live, local>>

Checkout(s) ==
  /\ \E fails \in GitFails :
       IF Attempt(s).work \in {"part", "whole"} /\ ~fails
         THEN /\ Goto(s, "checkout", "record")
              /\ SetAttempt(s, [Attempt(s) EXCEPT !.work = "whole", !.bundle = FALSE])
         ELSE Goto(s, "checkout", "cleanup") /\ UNCHANGED creating
  /\ UNCHANGED <<clock, live, local>>

\* On any failure the attempt's directory goes: whoever is in it.
Cleanup(s) ==
  /\ pc[s] = "cleanup"
  /\ SetAttempt(s, NoDir)
  /\ Answer(s, "error")
  /\ UNCHANGED <<clock, live, ask, saw, todo, cell, hung>>

\* commit: box.json, policy.json and lease.json; write_json makes a directory it misses.
WriteRecord(s) ==
  /\ Goto(s, "record", "rename")
  /\ SetAttempt(s, [Made(Attempt(s)) EXCEPT !.rec = ask[s].digest,
                       !.policy = ask[s].digest, !.lease = NewLease(s), !.at = clock])
  /\ UNCHANGED <<clock, live, local>>

RenameOver(s) == Attempt(s).here
\* rename replaces no directory that has something in it.
MayRename(s) == Attempt(s).here /\ Empty(Box(s))

\* The instant a box exists.  A collision leaves the attempt where it is.
Rename(s) ==
  /\ pc[s] = "rename"
  /\ IF MayRename(s)
       THEN /\ SetBox(s, [Attempt(s) EXCEPT !.at = 0])
            /\ SetAttempt(s, NoDir)
            /\ Answer(s, "made")
       ELSE Answer(s, "refused") /\ UNCHANGED disk
  /\ UNCHANGED <<clock, ask, saw, todo, cell, hung>>

-----------------------------------------------------------------------------
(* EXEC and EXPORT_BOX. *)

Find(s) ==
  /\ LET d == Box(s)
         lapsed == ask[s].rpc = "exec" /\ d.lease.by # None
                     /\ (~d.lease.whole \/ Expired(d.lease))
     IN /\ pc[s] = "find"
        /\ IF d.rec = None \/ lapsed
             THEN Answer(s, "refused") /\ UNCHANGED saw
             ELSE /\ pc' = [pc EXCEPT ![s] = "open"]
                  /\ saw' = [saw EXCEPT ![s] = d.rec]
                  /\ UNCHANGED told
  /\ UNCHANGED <<clock, disk, ask, todo, cell, hung>>

Exporting(t) == ask[t].rpc = "export"
SharedOnly(s) == \A t \in Box(s).held : ~Exporting(t)

\* The file is made if need be, and its directory too.
OpenLock(s) ==
  /\ Goto(s, "open", "lock")
  /\ SetBox(s, [Made(Box(s)) EXCEPT !.lock = @ \cup {s}, !.opened = @ \cup {s},
                       !.at = 0])
  /\ UNCHANGED <<clock, creating, local>>

\* flock without waiting: execs side by side, an export alone.
MayLock(s) == IF Exporting(s) THEN Box(s).held = {} ELSE SharedOnly(s)

\* What it opened may have been unlinked; then only those that opened the same
\* file can be in its way.
Lock(s) ==
  /\ pc[s] = "lock"
  /\ \/ /\ s \in Box(s).lock => MayLock(s)
        /\ SetBox(s, [Box(s) EXCEPT !.held = IF s \in Box(s).lock THEN @ \cup {s} ELSE @])
        /\ pc' = [pc EXCEPT ![s] = "start"]
        /\ UNCHANGED told
     \/ /\ s \in Box(s).lock => ~MayLock(s)
        /\ Answer(s, "busy")
        /\ UNCHANGED live
  /\ UNCHANGED <<clock, creating, ask, saw, todo, cell, hung>>

\* The working directory and the policy are looked up by path.
MayStart(s) ==
  /\ Box(s).work \in Stages \ IF Exporting(s) THEN {"none", "bare"} ELSE {"none"}
  /\ ~Exporting(s) => Box(s).policy = saw[s] /\ ~hung[s]

\* git may fail on a tree that is being removed, or make a bundle of it.
Torn(s) == Exporting(s) /\ Box(s).work # "whole"

Start(s) ==
  /\ pc[s] = "start"
  /\ \/ /\ MayStart(s)
        /\ pc' = [pc EXCEPT ![s] = "running"]
        /\ UNCHANGED <<live, told>>
     \/ /\ ~MayStart(s) \/ Torn(s)
        /\ Answer(s, "refused") /\ Freed(s)
  /\ UNCHANGED <<clock, creating, ask, saw, todo, cell, hung>>

\* The command ends, or the bundle has been sent.
Run(s) ==
  /\ pc[s] = "running"
  /\ \/ /\ Exporting(s) => ~hung[s]
        /\ pc' = [pc EXCEPT ![s] = "touch"]
        /\ UNCHANGED <<live, told>>
     \/ /\ (Exporting(s) /\ hung[s]) \/ Torn(s)
        /\ Answer(s, "error") /\ Freed(s)
  /\ UNCHANGED <<clock, creating, ask, saw, todo, cell, hung>>

-----------------------------------------------------------------------------
(* BoxStore::touch: read the lease, write lease.tmp, rename it.  Nothing   *)
(* keeps two workers from doing so at once, in one temporary file.         *)

Success(s) == CASE ask[s].rpc = "create" -> "existing"
                [] ask[s].rpc = "exec" -> "output"
                [] OTHER -> "exported"

\* Only a create reports that it could not.
TouchFailed(s) ==
  Answer(s, IF ask[s].rpc = "create" THEN "error" ELSE Success(s)) /\ Freed(s)

Refreshed(c) == [c EXCEPT !.touched = clock]

Touch(s) ==
  /\ pc[s] = "touch"
  /\ LET c == Box(s).lease IN
       IF c.by = None THEN Answer(s, Success(s)) /\ Freed(s) /\ UNCHANGED cell
       ELSE IF ~c.whole THEN TouchFailed(s) /\ UNCHANGED cell
       ELSE /\ cell' = [cell EXCEPT ![s] = Refreshed(c)]
            /\ pc' = [pc EXCEPT ![s] = "truncate"]
            /\ UNCHANGED <<live, told>>
  /\ UNCHANGED <<clock, creating, ask, saw, todo, hung>>

\* Opens lease.tmp, new or there already, and empties it.
Truncate(s) ==
  /\ Goto(s, "truncate", "write")
  /\ LET d == Made(Box(s))
         by == IF d.tmp.by = None THEN s ELSE d.tmp.by
     IN /\ SetBox(s, [d EXCEPT !.tmp = [NoCell EXCEPT !.by = by], !.at = 0])
        /\ cell' = [cell EXCEPT ![s].by = by]
  /\ UNCHANGED <<clock, creating, ask, saw, todo, hung, told>>

\* The bytes go into the file that was opened, whatever its name is by now.
Write(s) ==
  /\ Goto(s, "write", "replace")
  /\ SetBox(s, IF Box(s).tmp.by = cell[s].by THEN [Box(s) EXCEPT !.tmp = cell[s]]
               ELSE IF Box(s).lease.by = cell[s].by THEN [Box(s) EXCEPT !.lease = cell[s]]
               ELSE Box(s))
  /\ UNCHANGED <<clock, creating, local>>

Replace(s) ==
  /\ pc[s] = "replace"
  /\ IF Box(s).tmp.by = None
       THEN TouchFailed(s)
       ELSE /\ Answer(s, Success(s))
            /\ SetBox(s, [Box(s) EXCEPT !.lease = Box(s).tmp, !.tmp = NoCell,
                             !.held = @ \ {s}])
  /\ UNCHANGED <<clock, creating, ask, saw, todo, cell, hung>>

-----------------------------------------------------------------------------
(* DESTROY_BOX, which takes no lock, and the surroundings. *)

Remove(s) ==
  /\ pc[s] = "remove"
  /\ IF Box(s).here
       THEN /\ pc' = [pc EXCEPT ![s] = "erase"]
            /\ SetBox(s, [Box(s) EXCEPT !.reapers = @ \cup {s}])
            /\ UNCHANGED told
       ELSE Answer(s, "gone") /\ UNCHANGED live
  /\ UNCHANGED <<clock, creating, ask, saw, todo, cell, hung>>

\* The watchdog ends the client; its worker goes on until it talks to it.
HangUp(s) ==
  /\ "hangup" \in Faults /\ Working(s) /\ ~hung[s]
  /\ hung' = [hung EXCEPT ![s] = TRUE]
  /\ UNCHANGED <<clock, disk, pc, ask, saw, todo, cell, told>>

Kill(s) ==
  /\ "kill" \in Faults /\ Working(s)
  /\ pc' = [pc EXCEPT ![s] = "dead"]
  /\ told' = [told EXCEPT ![s] = "nothing"]
  /\ Freed(s)
  /\ UNCHANGED <<clock, creating, ask, saw, todo, cell, hung>>

\* A build takes less than CREATING_TTL.
BuildsAreQuick ==
  \A s \in Sessions :
    pc[s] \in {"receive", "fetch", "checkout", "record", "rename"} /\ Attempt(s).here
      => clock + 1 < Attempt(s).at + CreatingTtl

Tick ==
  /\ clock < MaxClock /\ BuildsAreQuick
  /\ clock' = clock + 1
  /\ UNCHANGED <<disk, pc, local>>

-----------------------------------------------------------------------------
Worker(s) ==
  \/ Sweep(s) \/ Gc(s) \/ Reap(s) \/ Swept(s) \/ List(s)
  \/ Unlink(s) \/ Wiped(s) \/ WipeFails(s)
  \/ Look(s) \/ Begin(s) \/ Receive(s) \/ Fetch(s) \/ Checkout(s)
  \/ Cleanup(s) \/ WriteRecord(s) \/ Rename(s)
  \/ Find(s) \/ OpenLock(s) \/ Lock(s) \/ Start(s) \/ Run(s)
  \/ Touch(s) \/ Truncate(s) \/ Write(s) \/ Replace(s) \/ Remove(s)

Next ==
  \/ \E s \in Sessions : Send(s) \/ Worker(s) \/ HangUp(s) \/ Kill(s)
  \/ Tick

Spec == Init /\ [][Next]_vars

-----------------------------------------------------------------------------
(* Properties. *)

\* An attempt stays in the hands of the worker that began it: nobody sends its
\* create again meanwhile, or collects what is unfinished.
Calm == ~Overlap /\ "gcall" \notin Rpcs /\ MaxClock < CreatingTtl

Told == {"none", "nothing", "made", "existing", "refused", "error", "busy", "output",
         "exported", "listed", "reaped", "destroyed", "gone"}

(* Every variable holds a value of its kind. *)
TypeOK ==
  /\ clock \in 0..MaxClock
  /\ live \in [Boxes -> Dirs] /\ creating \in [Operations -> Dirs]
  /\ pc \in [Sessions -> Busy \cup {"idle", "done", "dead"}]
  /\ ask \in [Sessions -> [rpc : AllRpcs \cup {"none"}, box : Boxes, digest : Digests]]
  /\ saw \in [Sessions -> Digests \cup {None}]
  /\ todo \in [Sessions -> SUBSET (({"live"} \X Boxes) \cup ({"creating"} \X Operations))]
  /\ cell \in [Sessions -> Cells]
  /\ hung \in [Sessions -> BOOLEAN]
  /\ told \in [Sessions -> Told]

(* A directory that carries a box.json, and that nobody has set about       *)
(* removing, is a box with its whole source in it: boxstore.rs builds       *)
(* elsewhere and renames, "there is no half-built state for a crash to      *)
(* invent".                                                                 *)
BoxComplete ==
  \A b \in Boxes : live[b].rec # None /\ live[b].reapers = {} => live[b].work = "whole"

(* As long as nobody has set about removing a directory, an export that     *)
(* opened a lock in it shares its tree with no command and no other export  *)
(* that did.                                                                *)
AtWork(b) == {s \in live[b].opened : pc[s] \in {"start", "running"}}
ExportAlone ==
  \A b \in Boxes : live[b].reapers = {} =>
    \A s \in AtWork(b) : Exporting(s) => AtWork(b) = {s}

(* What clients see of all this is a registry of boxes: a name is taken     *)
(* once, what it stands for is never exchanged for something else, and a    *)
(* create that is told of an existing box is told of its own.               *)
Registry == INSTANCE BoxRegistry WITH
  box <- [b \in Boxes |-> live[b].rec],
  got <- [s \in Sessions |->
            IF told[s] = "made" \/ (ask[s].rpc = "create" /\ saw[s] # None)
              THEN Op(s) ELSE <<>>]
RegistrySpec == Registry!Spec
=============================================================================
