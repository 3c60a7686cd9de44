--------------------------- MODULE BrowserSession ---------------------------
(***************************************************************************)
(* The browser sessions of one machine and the commands of `h5i browser`.  *)
(* There is no daemon: every command reads the registry, looks whether the *)
(* engine is still there, acts on it and writes the registry back.  They   *)
(* meet in                                                                 *)
(*   - `session.json` of each session, replaced by a rename;               *)
(*   - the pointer `default`, the session of a command that names none;    *)
(*   - `control.json` of each session: who drives, and whether the agent   *)
(*     has to look again before it acts;                                   *)
(*   - the engine: a host process known by its pid, or the one service     *)
(*     "h5i-browser" of a box, behind one socket path per box.             *)
(* One box is modelled; a step is what a command does between two reads or *)
(* writes of those files or between two calls that leave the process.      *)
(***************************************************************************)
EXTENDS Naturals, FiniteSets

CONSTANTS
  Agents, Operators,  \* slots for commands: how many run at the same time
  AgentVerbs,         \* which commands an agent runs, see AllVerbs
  OperatorVerbs,      \* which commands the operator runs
  Ids,       \* session ids; bounds how many sessions are ever minted
  Watched,   \* the sessions a human may take over
  Limited,   \* the sessions opened with --expires-in
  None,      \* no session
  Places,    \* where sessions may be put, see AllPlaces
  Faults,    \* what the surroundings do, see AllFaults
  Mortal,    \* bound: the slots whose commands may be killed
  MaxCrowd   \* bound: sessions minted plus commands running when one begins

AllVerbs == {"open", "new", "snapshot", "act", "status", "close", "rm",
             "rmforce", "boxrm", "take", "release"}
AllPlaces == {"host", "box"}
AllFaults == {"crash", "slow", "fail"}

Cmds == Agents \cup Operators

ASSUME IdsAssumption == None \notin Ids /\ Watched \subseteq Ids /\ Limited \subseteq Ids
ASSUME ChoiceAssumption ==
  /\ AgentVerbs \subseteq AllVerbs /\ OperatorVerbs \subseteq AllVerbs
  /\ Places \subseteq AllPlaces /\ Faults \subseteq AllFaults /\ MaxCrowd \in Nat

VARIABLES
  rec,      \* the state in the session's record, "none" when there is none
  place,    \* where the session was put
  engine,   \* its engine: "none", "starting", "up", "dead"
  advert,   \* the host sessions whose control file is there
  sock,     \* whose socket the box's path names; the file outlives its engine
  svc,      \* the session the box's service record stands for
  box,      \* the box exists
  due,      \* the sessions whose time limit has passed
  default,  \* the default pointer
  lock,     \* control.json
  pc, verb,
  tgt,      \* the session a command is about; None before it found the default
  todo,     \* the copies a sweep still has to write back
  seen,     \* the control record a command read
  strays    \* (history) engines started by a command that never got to record them

registry == <<rec, place, default>>
engines == <<engine, advert, sock, svc, box>>
local == <<pc, verb, tgt, todo, seen>>
vars == <<rec, place, engine, advert, sock, svc, box, due, default, lock, pc, verb, tgt, todo,
          seen, strays>>

-----------------------------------------------------------------------------
(* Engines. *)

Running(i) == engine[i] \in {"starting", "up"}
ServiceAlive == svc # None /\ Running(svc)

\* control.json: nobody ever took the fresh session.
FreshLock == [human |-> FALSE, stale |-> FALSE]

ProbeFiles(i) == IF place[i] = "host" THEN i \in advert ELSE sock # None

\* Session::probe: the host asks for the pid, the box for the socket file.
Probe(i) == IF place[i] = "host" THEN Running(i) ELSE sock # None

\* Who answers a verb sent to i.  A box's path names whoever bound it last.
Answering(i) ==
  LET o == IF place[i] = "host" THEN i ELSE sock
  IN  IF o # None /\ engine[o] = "up" /\ (place[i] = "box" => box) THEN o ELSE None

\* The engine a stop of session i ends: the pid of the record, or whatever
\* the box runs under the service's name.
StopHits(i) == IF place[i] = "host" THEN {i} ELSE {svc} \ {None}

StopEngine(i) ==
  /\ engine' = [e \in Ids |-> IF e \in StopHits(i) /\ Running(e) THEN "dead" ELSE engine[e]]
  /\ svc' = IF place[i] = "box" THEN None ELSE svc
  /\ UNCHANGED <<advert, sock, box>>

CanStopAnyway(i) == place[i] \in AllPlaces

\* `service_stop` needs the box's manifest.
CanStop(i) == place[i] = "box" => box

-----------------------------------------------------------------------------
(* Moves of one command. *)

Goto(c, next) == pc' = [pc EXCEPT ![c] = next]

\* The command ends and forgets what it knew.
Return(c) ==
  /\ pc' = [pc EXCEPT ![c] = "idle"]
  /\ verb' = [verb EXCEPT ![c] = "none"]
  /\ tgt' = [tgt EXCEPT ![c] = None]
  /\ todo' = [todo EXCEPT ![c] = {}]
  /\ seen' = [seen EXCEPT ![c] = FreshLock]

Stay == UNCHANGED <<verb, tgt, todo, seen>>
At(c, where) == pc[c] = where

\* `end` writes the copy a command read while the session was live.
End(i, how) == rec' = [rec EXCEPT ![i] = how]

Live(i) == rec[i] = "live"

Init ==
  /\ rec = [i \in Ids |-> "none"] /\ place = [i \in Ids |-> "none"]
  /\ engine = [i \in Ids |-> "none"] /\ advert = {}
  /\ sock = None /\ svc = None /\ box = ("box" \in Places)
  /\ due = {} /\ default = None
  /\ lock = [i \in Ids |-> FreshLock]
  /\ pc = [c \in Cmds |-> "idle"] /\ verb = [c \in Cmds |-> "none"]
  /\ tgt = [c \in Cmds |-> None] /\ todo = [c \in Cmds |-> {}]
  /\ seen = [c \in Cmds |-> FreshLock] /\ strays = {}

-----------------------------------------------------------------------------
(* Every command sweeps what is past its time, then finds its session. *)

\* The directory is the claim on an id.
Minted == {i \in Ids : place[i] # "none"}
Busy == {c \in Cmds : ~At(c, "idle")}

\* One reading of the registry: the live sessions whose limit has passed.
PastDue == {i \in Ids : Live(i) /\ i \in due}

\* `h5i box rm` is no browser command and does not sweep.
Begin(c, v, i) ==
  /\ At(c, "idle")
  /\ Cardinality(Minted) + Cardinality(Busy) < MaxCrowd
  /\ v \in {"new", "boxrm"} => i = None
  /\ v \in {"rm", "rmforce"} => i # None
  /\ v \in {"take", "release"} => i \in Watched
  /\ verb' = [verb EXCEPT ![c] = v]
  /\ tgt' = [tgt EXCEPT ![c] = i]
  /\ IF v = "boxrm"
       THEN Goto(c, "unbox") /\ UNCHANGED todo
       ELSE Goto(c, "sweep") /\ todo' = [todo EXCEPT ![c] = PastDue]
  /\ UNCHANGED <<registry, engines, due, lock, seen, strays>>

\* expire_due writes one ending after the other; the engine is left running.
Expire(c, i) ==
  /\ At(c, "sweep") /\ i \in todo[c]
  /\ End(i, "expired")
  /\ todo' = [todo EXCEPT ![c] = @ \ {i}]
  /\ UNCHANGED <<place, default, engines, due, lock, pc, verb, tgt, seen>>

\* What a verb does first once its session was found.
First(v) == CASE v = "open" -> "navigate"
              [] v \in {"act", "snapshot"} -> "check"
              [] v = "status" -> "deliver"
              [] v = "close" -> "stop"
              [] v \in {"take", "release"} -> v

\* resolve: a session that is live and whose engine is there.
Found(c, i) ==
  /\ i \in Ids /\ Live(i) /\ Probe(i)
  /\ tgt' = [tgt EXCEPT ![c] = i]
  /\ Goto(c, First(verb[c]))
  /\ UNCHANGED <<verb, todo, seen>>

\* Live in the record, but nothing answers: the death has to be written down.
FoundDead(c, i) ==
  /\ i \in Ids /\ Live(i) /\ ~Probe(i)
  /\ tgt' = [tgt EXCEPT ![c] = i]
  /\ Goto(c, "bury")
  /\ UNCHANGED <<verb, todo, seen>>

\* Every verb is refused when there is no session for it; `open` makes one.
Miss(c) == IF verb[c] = "open" THEN Goto(c, "mint") /\ Stay ELSE Return(c)

FoundNoneNameless(c, i) ==
  IF i # None /\ rec[i] = "none" /\ tgt[c] = None
    THEN Goto(c, "forget") /\ Stay
    ELSE i \notin {x \in Ids : Live(x)} /\ Miss(c)

FoundNone(c, i) ==
  \/ i = None /\ Miss(c)
  \/ i # None /\ rec[i] \notin {"none", "live"} /\ Miss(c)
  \/ i # None /\ rec[i] = "none" /\ tgt[c] # None /\ Miss(c)
  \/ /\ i # None /\ rec[i] = "none" /\ tgt[c] = None
     /\ tgt' = [tgt EXCEPT ![c] = i]
     /\ Goto(c, "forget")
     /\ UNCHANGED <<verb, todo, seen>>

Resolve(c) ==
  LET i == IF tgt[c] = None THEN default ELSE tgt[c]
  IN  /\ At(c, "sweep") /\ todo[c] = {}
      /\ verb[c] \notin {"new", "rm", "rmforce"}
      /\ Found(c, i) \/ FoundDead(c, i) \/ FoundNone(c, i)
      /\ UNCHANGED <<registry, engines, due, lock>>

Bury(c) ==
  /\ At(c, "bury")
  /\ End(tgt[c], "died")
  /\ Miss(c)
  /\ UNCHANGED <<place, default, engines, due, lock>>

\* clear_default_if reads the pointer, compares, and removes the file.
Forget(c) ==
  /\ At(c, "forget")
  /\ IF default = tgt[c] THEN Goto(c, "unpoint") /\ Stay ELSE Miss(c)
  /\ UNCHANGED <<registry, engines, due, lock>>

Unpoint(c) ==
  /\ At(c, "unpoint")
  /\ default' = None
  /\ Miss(c)
  /\ UNCHANGED <<rec, place, engines, due, lock>>

-----------------------------------------------------------------------------
(* Opening a session. *)

Mint(c, i, p) ==
  /\ At(c, "mint") \/ (At(c, "sweep") /\ todo[c] = {} /\ verb[c] = "new")
  /\ i \notin Minted
  /\ place' = [place EXCEPT ![i] = p]
  /\ tgt' = [tgt EXCEPT ![c] = i]
  /\ Goto(c, "spawn")
  /\ UNCHANGED <<rec, default, engines, due, lock, verb, todo, seen>>

\* Bound: the ids are used up.
NoId(c) ==
  /\ At(c, "mint") \/ (At(c, "sweep") /\ todo[c] = {} /\ verb[c] = "new")
  /\ Minted = Ids
  /\ Return(c)
  /\ UNCHANGED <<registry, engines, due, lock>>

MaySpawnBeside(i) == place[i] = "box" => box
MaySpawn(i) == place[i] = "box" => box /\ ~ServiceAlive

\* The service start of a box refuses while its service is alive.
Spawn(c) ==
  LET i == tgt[c]
  IN  /\ At(c, "spawn")
      /\ IF MaySpawn(i)
           THEN /\ engine' = [engine EXCEPT ![i] = "starting"]
                /\ svc' = IF place[i] = "box" THEN i ELSE svc
                /\ Goto(c, "register") /\ Stay
           ELSE UNCHANGED <<engine, svc>> /\ Return(c)
      /\ UNCHANGED <<registry, advert, sock, box, due, lock>>

Register(c) ==
  /\ At(c, "register")
  /\ rec' = [rec EXCEPT ![tgt[c]] = "live"]
  /\ Goto(c, "point") /\ Stay
  /\ UNCHANGED <<place, default, engines, due, lock>>

\* Between the start of the engine and the record of it the command may fail,
\* to seed the storage or to write: it returns and does not stop the engine.
\* (Killed there, it leaves the same.)
Unrecorded(c) ==
  /\ "fail" \in Faults /\ At(c, "register")
  /\ strays' = strays \cup {tgt[c]}
  /\ Return(c)
  /\ UNCHANGED <<registry, engines, due, lock>>

Point(c) ==
  /\ At(c, "point")
  /\ default' = tgt[c]
  /\ Goto(c, "await") /\ Stay
  /\ UNCHANGED <<rec, place, engines, due, lock>>

\* await_control: the witness first, whoever left it; then whether the engine
\* is still on its way; then the patience of START_TIMEOUT.
Advertised(i) == IF place[i] = "host" THEN i \in advert ELSE sock # None
GivenUp(i) == IF place[i] = "host" THEN ~Running(i) ELSE ~ServiceAlive

Awaited(c) ==
  /\ At(c, "await") /\ Advertised(tgt[c])
  /\ Return(c)
  /\ UNCHANGED <<registry, engines, due, lock>>

\* A start that failed is over once its death is written down, whatever verb
\* began it.
GiveUp(c) ==
  LET i == tgt[c]
  IN  /\ At(c, "await") /\ ~Advertised(i)
      /\ GivenUp(i) \/ "slow" \in Faults
      /\ IF CanStop(i) THEN StopEngine(i) ELSE UNCHANGED engines
      /\ Goto(c, "bury") /\ verb' = [verb EXCEPT ![c] = "new"]
      /\ UNCHANGED <<registry, due, lock, tgt, todo, seen>>

\* `open` of a session that is there navigates it, without asking the lock,
\* and writes its copy of the record back with the new address.
Navigate(c) ==
  /\ At(c, "navigate")
  /\ IF Answering(tgt[c]) = None THEN Return(c) ELSE Goto(c, "moved") /\ Stay
  /\ UNCHANGED <<registry, engines, due, lock>>

Moved(c) ==
  /\ At(c, "moved")
  /\ End(tgt[c], "live")
  /\ Return(c)
  /\ UNCHANGED <<place, default, engines, due, lock>>

-----------------------------------------------------------------------------
(* Verbs and the control lock. *)

\* control::check; a snapshot changes nothing on the page and may always pass.
MayAct(i) == ~lock[i].human /\ ~lock[i].stale

Check(c) ==
  /\ At(c, "check")
  /\ IF verb[c] = "act" /\ ~MayAct(tgt[c]) THEN Return(c) ELSE Goto(c, "deliver") /\ Stay
  /\ UNCHANGED <<registry, engines, due, lock>>

Deliver(c) ==
  /\ At(c, "deliver")
  /\ IF verb[c] = "snapshot" /\ Answering(tgt[c]) # None
       THEN Goto(c, "snapped") /\ Stay
       ELSE Return(c)
  /\ UNCHANGED <<registry, engines, due, lock>>

\* control::snapshotted reads the lock, reads it again to see whether a human
\* took over, and writes back what it read first.
Snapped(c) ==
  /\ At(c, "snapped")
  /\ seen' = [seen EXCEPT ![c] = lock[tgt[c]]]
  /\ Goto(c, "reread")
  /\ UNCHANGED <<registry, engines, due, lock, verb, tgt, todo>>

Reread(c) ==
  /\ At(c, "reread")
  /\ IF lock[tgt[c]].human THEN Return(c) ELSE Goto(c, "clear") /\ Stay
  /\ UNCHANGED <<registry, engines, due, lock>>

ClearedHolder(r) == [r EXCEPT !.human = FALSE]
Cleared(r) == [r EXCEPT !.stale = FALSE]

Clear(c) ==
  /\ At(c, "clear")
  /\ lock' = [lock EXCEPT ![tgt[c]] = Cleared(seen[c])]
  /\ Return(c)
  /\ UNCHANGED <<registry, engines, due>>

Take(c) ==
  /\ At(c, "take")
  /\ lock' = [lock EXCEPT ![tgt[c]] = [human |-> TRUE, stale |-> TRUE]]
  /\ Return(c)
  /\ UNCHANGED <<registry, engines, due>>

HandedBack(r) == [human |-> FALSE, stale |-> r.stale \/ r.human]

Release(c) ==
  /\ At(c, "release")
  /\ seen' = [seen EXCEPT ![c] = lock[tgt[c]]]
  /\ Goto(c, "handback")
  /\ UNCHANGED <<registry, engines, due, lock, verb, tgt, todo>>

HandBack(c) ==
  /\ At(c, "handback")
  /\ lock' = [lock EXCEPT ![tgt[c]] = HandedBack(seen[c])]
  /\ Return(c)
  /\ UNCHANGED <<registry, engines, due>>

-----------------------------------------------------------------------------
(* Ending a session. *)

\* `close` and `rm --force` stop the engine before they touch the record.  A
\* box that is gone fails the close and leaves the record as it was.
Stop(c) ==
  LET i == tgt[c]
  IN  /\ At(c, "stop")
      /\ IF CanStop(i) THEN StopEngine(i) ELSE UNCHANGED engines
      /\ IF verb[c] = "rmforce" THEN Goto(c, "erase") /\ Stay
         ELSE IF CanStop(i) THEN Goto(c, "end") /\ Stay
         ELSE Return(c)
      /\ UNCHANGED <<registry, due, lock>>

Close(c) ==
  /\ At(c, "end")
  /\ End(tgt[c], "closed")
  /\ Return(c)
  /\ UNCHANGED <<place, default, engines, due, lock>>

\* `rm` refuses a session that is live unless it is forced.
FindToRemove(c) ==
  LET i == tgt[c]
  IN  /\ At(c, "sweep") /\ todo[c] = {} /\ verb[c] \in {"rm", "rmforce"}
      /\ CASE rec[i] = "none" -> Return(c)
           [] Live(i) /\ verb[c] = "rm" -> Return(c)
           [] Live(i) /\ verb[c] = "rmforce" -> Goto(c, "stop") /\ Stay
           [] OTHER -> Goto(c, "erase") /\ Stay
      /\ UNCHANGED <<registry, engines, due, lock>>

\* The directory goes with everything in it, the lock included.
Erase(c) ==
  LET i == tgt[c]
  IN  /\ At(c, "erase")
      /\ rec' = [rec EXCEPT ![i] = "none"]
      /\ lock' = [lock EXCEPT ![i] = FreshLock]
      /\ advert' = advert \ {i}
      /\ IF rec[i] = "none" THEN Return(c) ELSE Goto(c, "forget") /\ Stay
      /\ UNCHANGED <<place, default, engine, sock, svc, box, due>>

\* `h5i box rm` erases the box's directory: its service records and its
\* private /tmp.  Nothing stops the engine except losing a guest (microvm).
Unbox(c) ==
  /\ At(c, "unbox")
  /\ IF box
       THEN /\ box' = FALSE /\ sock' = None /\ svc' = None
            /\ \/ UNCHANGED engine
               \/ engine' = [i \in Ids |-> IF place[i] = "box" /\ Running(i)
                                            THEN "dead" ELSE engine[i]]
            /\ Goto(c, "evict") /\ todo' = [todo EXCEPT ![c] = {i \in Ids : Live(i) /\ place[i] = "box"}]
            /\ UNCHANGED <<verb, tgt, seen>>
       ELSE UNCHANGED <<box, sock, svc, engine>> /\ Return(c)
  /\ UNCHANGED <<registry, advert, due, lock>>

\* evict_box writes the endings of the sessions it listed, one by one.
Evict(c) ==
  /\ At(c, "evict")
  /\ IF todo[c] = {}
       THEN Return(c) /\ UNCHANGED rec
       ELSE \E i \in todo[c] :
              /\ End(i, "evicted")
              /\ todo' = [todo EXCEPT ![c] = @ \ {i}]
              /\ UNCHANGED <<pc, verb, tgt, seen>>
  /\ UNCHANGED <<place, default, engines, due, lock>>

-----------------------------------------------------------------------------
(* The surroundings. *)

\* The engine binds its socket or writes its control file.
Serve(i) ==
  /\ engine[i] = "starting"
  /\ engine' = [engine EXCEPT ![i] = "up"]
  /\ advert' = IF place[i] = "host" THEN advert \cup {i} ELSE advert
  /\ sock' = IF place[i] = "box" /\ box THEN i ELSE sock
  /\ UNCHANGED <<registry, svc, box, due, lock, local, strays>>

\* Killed or crashed: the socket and the control file stay where they are.
Crash(i) ==
  /\ "crash" \in Faults /\ Running(i)
  /\ engine' = [engine EXCEPT ![i] = "dead"]
  /\ UNCHANGED <<registry, advert, sock, svc, box, due, lock, local, strays>>

TimePasses(i) ==
  /\ i \in Limited \ due /\ Live(i)
  /\ due' = due \cup {i}
  /\ UNCHANGED <<registry, engines, lock, local, strays>>

\* A command is killed wherever it is; what it started goes on.
Killed(c) ==
  /\ c \in Mortal /\ ~At(c, "idle")
  /\ strays' = IF At(c, "register") THEN strays \cup {tgt[c]} ELSE strays
  /\ Return(c)
  /\ UNCHANGED <<registry, engines, due, lock>>

-----------------------------------------------------------------------------

Move(c) ==
  \/ \E i \in Ids : Expire(c, i)
  \/ Resolve(c) \/ Bury(c) \/ Forget(c) \/ Unpoint(c)
  \/ \E i \in Ids, p \in Places : Mint(c, i, p)
  \/ NoId(c) \/ Spawn(c) \/ Register(c) \/ Point(c) \/ Awaited(c) \/ GiveUp(c)
  \/ Navigate(c) \/ Moved(c)
  \/ Check(c) \/ Deliver(c) \/ Snapped(c) \/ Reread(c) \/ Clear(c)
  \/ Take(c) \/ Release(c) \/ HandBack(c)
  \/ Stop(c) \/ Close(c) \/ FindToRemove(c) \/ Erase(c) \/ Unbox(c) \/ Evict(c)

Step(c) == (Move(c) /\ UNCHANGED strays) \/ Unrecorded(c)

Next ==
  \/ \E c \in Agents, v \in AgentVerbs, i \in Ids \cup {None} : Begin(c, v, i)
  \/ \E c \in Operators, v \in OperatorVerbs, i \in Ids \cup {None} : Begin(c, v, i)
  \/ \E c \in Cmds : Step(c) \/ Killed(c)
  \/ \E i \in Ids : Serve(i) \/ Crash(i) \/ TimePasses(i)

Spec == Init /\ [][Next]_vars

\* A command that was started goes on; an engine comes up unless it dies.
\* Nobody has to start a command.
FairSpec ==
  /\ Spec
  /\ \A c \in Cmds : WF_vars(Step(c))
  /\ \A i \in Ids : WF_vars(Serve(i))

-----------------------------------------------------------------------------
(* Properties. *)

States == {"none", "live", "closed", "died", "expired", "evicted"}
Locks == [human: BOOLEAN, stale: BOOLEAN]
Labels == {"idle", "sweep", "bury", "forget", "unpoint", "mint", "spawn", "register",
            "point", "await", "navigate", "moved", "check", "deliver", "snapped",
            "reread", "clear", "take", "release", "handback", "stop", "end", "erase",
            "unbox", "evict"}

\* Every variable has its type, and a command that acts on a session has one.
TypeOK ==
  /\ rec \in [Ids -> States] /\ place \in [Ids -> AllPlaces \cup {"none"}]
  /\ engine \in [Ids -> {"none", "starting", "up", "dead"}]
  /\ advert \subseteq Ids /\ due \subseteq Ids /\ strays \subseteq Ids /\ box \in BOOLEAN
  /\ {sock, svc, default} \subseteq Ids \cup {None}
  /\ lock \in [Ids -> Locks]
  /\ pc \in [Cmds -> Labels] /\ verb \in [Cmds -> AllVerbs \cup {"none"}]
  /\ tgt \in [Cmds -> Ids \cup {None}] /\ todo \in [Cmds -> SUBSET Ids]
  /\ seen \in [Cmds -> Locks]
  /\ \A c \in Cmds :
       pc[c] \notin {"idle", "sweep", "mint", "unbox", "evict"} => tgt[c] # None

Opening(i) == \E c \in Cmds : tgt[c] = i /\ pc[c] = "register"

\* An engine on the host that runs can be found and ended: its record is live
\* and holds the pid, or the command that started it has yet to write it.  The
\* code gives an engine up in two places only: expire_due erases the pid and
\* stops nothing, and a start cut short before its record leaves the engine
\* behind.  Such a stray never had a record; nothing else makes one, whoever
\* closes, removes, buries or is killed meanwhile.
NoOrphans ==
  \A i \in Ids :
    place[i] = "host" /\ Running(i) /\ i \notin due =>
      IF i \in strays THEN rec[i] = "none" ELSE Live(i) \/ Opening(i)

\* A session that is recorded as closed has no engine, and on the host neither
\* has one that died.
StopIsReal ==
  \A i \in Ids : /\ rec[i] = "closed" => ~Running(i)
                 /\ place[i] = "host" /\ rec[i] = "died" => ~Running(i)

\* A box runs one engine at a time, and its service record is that engine's:
\* whoever stops the service stops what runs.
OneEnginePerBox ==
  box => \A i \in Ids : place[i] = "box" /\ Running(i) => svc = i

\* A verb that is about to be delivered reaches the session it was meant for:
\* an agent is never quietly moved to another page.
VerbsReachTheirOwn ==
  \A c \in Cmds :
    pc[c] \in {"navigate", "deliver"} => Answering(tgt[c]) \in {tgt[c], None}

\* Once a human lets go for good, an agent that keeps taking snapshots is
\* allowed to act again.  (Its commands are not Mortal: one killed each time
\* before it clears would clear nothing.)
ControlComesBack ==
  \A i \in Watched :
    (/\ <>[](~lock[i].human)
     /\ []<>(\E c \in Cmds : pc[c] = "snapped" /\ tgt[c] = i))
    => []<>(~lock[i].stale)
=============================================================================
