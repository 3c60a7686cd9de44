------------------------ MODULE BrowserSessionProofs ------------------------
(***************************************************************************)
(* What the commands of `h5i browser` keep of sessions and engines, for    *)
(* any number of commands and sessions.                                    *)
(***************************************************************************)
EXTENDS BrowserSession, TLAPS

\* A command at work about a session knows which one, and a command that looks
\* for its session is one that has a session to look for.
Aimed ==
  \A c \in Cmds :
    pc[c] = "sweep" => /\ verb[c] \in AllVerbs \ {"boxrm"}
                       /\ verb[c] \in {"rm", "rmforce"} => tgt[c] # None

TypeInv == TypeOK /\ Aimed

\* Where a command works on a session whose engine was started.
Begun == {"register", "point", "await", "bury", "navigate", "moved", "stop", "end",
          "erase"}

\* What the steps behind a command make sure of for the step before it.
Course(c) ==
  /\ pc[c] = "sweep" => \A i \in todo[c] : i \in due /\ engine[i] # "none"
  /\ pc[c] = "evict" => \A i \in todo[c] : place[i] = "box" /\ engine[i] # "none"
  /\ pc[c] = "spawn" => place[tgt[c]] # "none" /\ engine[tgt[c]] = "none"
  /\ pc[c] \in Begun => engine[tgt[c]] # "none"
  /\ pc[c] = "end" => engine[tgt[c]] = "dead"
  /\ pc[c] = "bury" /\ place[tgt[c]] = "host" => engine[tgt[c]] = "dead"
  /\ pc[c] = "erase" /\ place[tgt[c]] = "host" => engine[tgt[c]] = "dead" \/ tgt[c] \in due

OnCourse == \A c \in Cmds : Course(c)

\* A command works on a session, or has a copy of its record to write back.
Touches(c, i) ==
  \/ pc[c] \in Begun \cup {"spawn"} /\ tgt[c] = i
  \/ pc[c] \in {"sweep", "evict"} /\ i \in todo[c]

\* Until its record is written a session is its opener's alone; what a start
\* that was cut short left behind is nobody's, and stays so.
Private ==
  /\ \A c, d \in Cmds : pc[c] \in {"spawn", "register"} /\ Touches(d, tgt[c]) => c = d
  /\ \A c \in Cmds : pc[c] = "register" => rec[tgt[c]] = "none"
  /\ \A i \in strays : /\ rec[i] = "none" /\ engine[i] # "none"
                      /\ \A d \in Cmds : ~Touches(d, i)

\* An engine of the host that is not a stray can be found.
Findable ==
  \A i \in Ids : place[i] = "host" /\ Running(i) /\ i \notin due /\ i \notin strays
                 => Live(i) \/ Opening(i)

\* What a record says of the engine.
Recorded(i) ==
  /\ place[i] = "none" => engine[i] = "none"
  /\ rec[i] # "none" => engine[i] # "none"
  /\ rec[i] = "closed" => engine[i] = "dead"
  /\ rec[i] = "died" /\ place[i] = "host" => engine[i] = "dead"
  /\ rec[i] = "expired" => i \in due
  /\ rec[i] = "evicted" => place[i] = "box"

Honest == \A i \in Ids : Recorded(i)

-----------------------------------------------------------------------------
(* Types. *)

Unaimed == {"idle", "sweep", "mint", "unbox", "evict"}

LocalOK ==
  /\ pc \in [Cmds -> Labels] /\ verb \in [Cmds -> AllVerbs \cup {"none"}]
  /\ tgt \in [Cmds -> Ids \cup {None}] /\ todo \in [Cmds -> SUBSET Ids]
  /\ seen \in [Cmds -> Locks]
  /\ \A c \in Cmds : pc[c] \notin Unaimed => tgt[c] # None
  /\ Aimed

SharedOK ==
  /\ rec \in [Ids -> States] /\ place \in [Ids -> AllPlaces \cup {"none"}]
  /\ engine \in [Ids -> {"none", "starting", "up", "dead"}]
  /\ advert \subseteq Ids /\ due \subseteq Ids /\ box \in BOOLEAN
  /\ {sock, svc, default} \subseteq Ids \cup {None}
  /\ lock \in [Ids -> Locks]

StraysOK == strays \subseteq Ids

LEMMA Parts == TypeInv <=> LocalOK /\ SharedOK /\ StraysOK
  BY DEF TypeInv, TypeOK, LocalOK, SharedOK, StraysOK, Unaimed

LEMMA LockKinds ==
  /\ FreshLock \in Locks
  /\ \A r \in Locks : Cleared(r) \in Locks /\ HandedBack(r) \in Locks
  BY DEF FreshLock, Cleared, HandedBack, Locks

\* The moves of one command.
LEMMA ReturnType ==
  ASSUME LocalOK, NEW c \in Cmds, Return(c)
  PROVE  LocalOK'
<1>1. FreshLock \in Locks BY LockKinds
<1>2. /\ pc' \in [Cmds -> Labels] /\ verb' \in [Cmds -> AllVerbs \cup {"none"}]
      /\ tgt' \in [Cmds -> Ids \cup {None}] /\ todo' \in [Cmds -> SUBSET Ids]
      /\ seen' \in [Cmds -> Locks]
  BY <1>1 DEF Return, LocalOK, Labels
<1>3. \A d \in Cmds : pc'[d] \notin Unaimed => tgt'[d] # None
  BY DEF Return, LocalOK, Unaimed
<1>4. Aimed' BY DEF Return, LocalOK, Aimed
<1> QED BY <1>2, <1>3, <1>4 DEF LocalOK

LEMMA GotoType ==
  ASSUME LocalOK, NEW c \in Cmds, NEW next \in Labels \ {"sweep"},
         Goto(c, next), Stay, tgt[c] # None \/ next \in Unaimed
  PROVE  LocalOK'
<1>1. pc' \in [Cmds -> Labels] BY DEF Goto, LocalOK
<1>2. \A d \in Cmds : pc'[d] \notin Unaimed => tgt'[d] # None
  BY DEF Goto, Stay, LocalOK
<1>3. Aimed' BY DEF Goto, Stay, LocalOK, Aimed
<1> QED BY <1>1, <1>2, <1>3 DEF LocalOK, Stay

LEMMA MissType ==
  ASSUME LocalOK, NEW c \in Cmds, Miss(c)
  PROVE  LocalOK'
  BY ReturnType, GotoType DEF Miss, Labels, Unaimed

\* A command that works on a session works on one there is.
LEMMA Target ==
  ASSUME LocalOK, NEW c \in Cmds, pc[c] \notin Unaimed
  PROVE  tgt[c] \in Ids
  BY DEF LocalOK

\* A step that moves its command, ends it or has it miss.
Moves(c) ==
  \/ Return(c) \/ Miss(c)
  \/ \E next \in Labels \ {"sweep"} :
       Goto(c, next) /\ Stay /\ (tgt[c] # None \/ next \in Unaimed)

LEMMA MovesType ==
  ASSUME LocalOK, NEW c \in Cmds, Moves(c)
  PROVE  LocalOK'
  BY ReturnType, MissType, GotoType DEF Moves

\* What several steps leave alone.
LEMMA SharedSame ==
  ASSUME SharedOK, UNCHANGED <<registry, engines, due, lock>>
  PROVE  SharedOK'
  BY DEF SharedOK, registry, engines

LEMMA EndType ==
  ASSUME SharedOK, NEW i \in Ids, NEW how \in States, End(i, how),
         UNCHANGED <<place, default, engines, due, lock>>
  PROVE  SharedOK'
  BY DEF SharedOK, End, engines

LEMMA LockType ==
  ASSUME SharedOK, NEW i \in Ids, NEW r \in Locks, lock' = [lock EXCEPT ![i] = r],
         UNCHANGED <<registry, engines, due>>
  PROVE  SharedOK'
  BY DEF SharedOK, registry, engines

LEMMA StopEngineType ==
  ASSUME SharedOK, NEW i \in Ids, StopEngine(i) \/ UNCHANGED engines,
         UNCHANGED <<registry, due, lock>>
  PROVE  SharedOK'
<1>1. engine' \in [Ids -> {"none", "starting", "up", "dead"}]
  BY DEF SharedOK, StopEngine, engines
<1>2. svc' \in Ids \cup {None}
  BY DEF SharedOK, StopEngine, engines
<1> QED BY <1>1, <1>2 DEF SharedOK, StopEngine, engines, registry

LEMMA BeginType ==
  ASSUME LocalOK, SharedOK, NEW c \in Cmds, NEW v \in AllVerbs, NEW i \in Ids \cup {None},
         Begin(c, v, i)
  PROVE  LocalOK' /\ SharedOK'
<1>1. SharedOK' BY SharedSame DEF Begin
<1>2. /\ verb' = [verb EXCEPT ![c] = v] /\ tgt' = [tgt EXCEPT ![c] = i]
      /\ pc' = [pc EXCEPT ![c] = IF v = "boxrm" THEN "unbox" ELSE "sweep"]
      /\ todo' \in [Cmds -> SUBSET Ids] /\ seen' = seen
      /\ v \in {"rm", "rmforce"} => i # None
  BY DEF Begin, Goto, PastDue, LocalOK
<1>3. \A d \in Cmds : pc'[d] \notin Unaimed => tgt'[d] # None
  BY <1>2 DEF LocalOK, Unaimed
<1>4. Aimed' BY <1>2 DEF LocalOK, Aimed, AllVerbs
<1> QED BY <1>1, <1>2, <1>3, <1>4 DEF LocalOK, Labels

LEMMA ExpireType ==
  ASSUME LocalOK, SharedOK, NEW c \in Cmds, NEW i \in Ids, Expire(c, i)
  PROVE  LocalOK' /\ SharedOK'
<1>1. SharedOK' BY EndType DEF Expire, States
<1>2. LocalOK' BY DEF Expire, LocalOK, Aimed
<1> QED BY <1>1, <1>2

LEMMA AimType ==
  ASSUME LocalOK, NEW c \in Cmds, NEW i \in Ids, NEW next \in Labels \ {"sweep"},
         tgt' = [tgt EXCEPT ![c] = i], Goto(c, next), UNCHANGED <<verb, todo, seen>>
  PROVE  LocalOK'
<1>1. \A d \in Cmds : pc'[d] \notin Unaimed => tgt'[d] # None
  BY IdsAssumption DEF LocalOK, Goto
<1>2. Aimed' BY DEF LocalOK, Aimed, Goto
<1> QED BY <1>1, <1>2 DEF LocalOK, Goto

LEMMA ResolveType ==
  ASSUME LocalOK, SharedOK, NEW c \in Cmds, Resolve(c)
  PROVE  LocalOK' /\ SharedOK'
<1>1. SharedOK' BY SharedSame DEF Resolve
<1>2. pc[c] = "sweep" /\ verb[c] \notin {"new", "rm", "rmforce"}
  BY DEF Resolve, At
<1>3. PICK i \in Ids \cup {None} : Found(c, i) \/ FoundDead(c, i) \/ FoundNone(c, i)
  BY DEF Resolve, LocalOK, SharedOK
<1>4. verb[c] \in {"open", "act", "snapshot", "status", "close", "take", "release"}
  BY <1>2 DEF LocalOK, Aimed, AllVerbs
<1>5. First(verb[c]) \in Labels \ {"sweep"}
  BY <1>4 DEF First, Labels
<1>6. CASE Found(c, i)
  <2>1. i \in Ids /\ tgt' = [tgt EXCEPT ![c] = i] /\ Goto(c, First(verb[c]))
                  /\ UNCHANGED <<verb, todo, seen>>
    BY <1>6 DEF Found
  <2>2. LocalOK' BY <1>5, <2>1, AimType
  <2> QED BY <1>1, <2>2
<1>7. CASE FoundDead(c, i)
  <2>1. i \in Ids /\ tgt' = [tgt EXCEPT ![c] = i] /\ Goto(c, "bury")
                  /\ UNCHANGED <<verb, todo, seen>>
    BY <1>7 DEF FoundDead
  <2>2. "bury" \in Labels \ {"sweep"} BY DEF Labels
  <2>3. LocalOK' BY <2>1, <2>2, AimType
  <2> QED BY <1>1, <2>3
<1>8. CASE FoundNone(c, i)
  <2>1. CASE Miss(c) BY <1>1, <2>1, MissType
  <2>2. CASE ~Miss(c)
    <3>1. i \in Ids /\ tgt' = [tgt EXCEPT ![c] = i] /\ Goto(c, "forget")
                    /\ UNCHANGED <<verb, todo, seen>>
      BY <1>8, <2>2 DEF FoundNone
    <3>2. "forget" \in Labels \ {"sweep"} BY DEF Labels
    <3>3. LocalOK' BY <3>1, <3>2, AimType
    <3> QED BY <1>1, <3>3
  <2> QED BY <2>1, <2>2
<1> QED BY <1>3, <1>6, <1>7, <1>8

\* The steps that change nothing but the command's own place.
Quiet(c) ==
  \/ Forget(c) \/ NoId(c) \/ Awaited(c) \/ Navigate(c) \/ Check(c) \/ Deliver(c)
  \/ Reread(c) \/ FindToRemove(c)

LEMMA QuietMoves ==
  ASSUME LocalOK, NEW c \in Cmds, Quiet(c)
  PROVE  Moves(c) /\ UNCHANGED <<registry, engines, due, lock>>
<1>1. UNCHANGED <<registry, engines, due, lock>>
  BY DEF Quiet, Forget, NoId, Awaited, Navigate, Check, Deliver, Reread, FindToRemove
<1>2. CASE Forget(c) BY <1>2 DEF Forget, Moves, At, Labels, LocalOK, Unaimed
<1>3. CASE NoId(c) BY <1>3 DEF NoId, Moves
<1>4. CASE Awaited(c) BY <1>4 DEF Awaited, Moves
<1>5. CASE Navigate(c) BY <1>5 DEF Navigate, Moves, At, Labels, LocalOK, Unaimed
<1>6. CASE Check(c) BY <1>6 DEF Check, Moves, At, Labels, LocalOK, Unaimed
<1>7. CASE Deliver(c) BY <1>7 DEF Deliver, Moves, At, Labels, LocalOK, Unaimed
<1>8. CASE Reread(c) BY <1>8 DEF Reread, Moves, At, Labels, LocalOK, Unaimed
<1>9. CASE FindToRemove(c)
  <2>1. tgt[c] # None BY <1>9 DEF FindToRemove, At, LocalOK, Aimed
  <2> QED BY <1>9, <2>1 DEF FindToRemove, Moves, Labels
<1> QED BY <1>1, <1>2, <1>3, <1>4, <1>5, <1>6, <1>7, <1>8, <1>9 DEF Quiet

LEMMA QuietType ==
  ASSUME LocalOK, SharedOK, NEW c \in Cmds, Quiet(c)
  PROVE  LocalOK' /\ SharedOK'
  BY QuietMoves, MovesType, SharedSame

\* The steps that write an ending.
LEMMA EndingType ==
  ASSUME LocalOK, SharedOK, NEW c \in Cmds, Bury(c) \/ Moved(c) \/ Close(c)
  PROVE  LocalOK' /\ SharedOK'
<1>1. tgt[c] \in Ids
  BY Target DEF Bury, Moved, Close, At, Unaimed
<1>2. \E how \in States : End(tgt[c], how) BY DEF Bury, Moved, Close, States
<1>3. UNCHANGED <<place, default, engines, due, lock>> BY DEF Bury, Moved, Close
<1>4. Moves(c) BY DEF Bury, Moved, Close, Moves
<1> QED BY <1>1, <1>2, <1>3, <1>4, EndType, MovesType

LEMMA UnpointType ==
  ASSUME LocalOK, SharedOK, NEW c \in Cmds, Unpoint(c)
  PROVE  LocalOK' /\ SharedOK'
<1>1. SharedOK' BY DEF Unpoint, SharedOK, engines
<1> QED BY <1>1, MissType DEF Unpoint

LEMMA MintType ==
  ASSUME LocalOK, SharedOK, NEW c \in Cmds, NEW i \in Ids, NEW p \in Places, Mint(c, i, p)
  PROVE  LocalOK' /\ SharedOK'
<1>1. p \in AllPlaces BY ChoiceAssumption
<1>2. SharedOK' BY <1>1 DEF Mint, SharedOK, engines
<1>3. "spawn" \in Labels \ {"sweep"} BY DEF Labels
<1>4. LocalOK' BY <1>3, AimType DEF Mint
<1> QED BY <1>2, <1>4

LEMMA SpawnType ==
  ASSUME LocalOK, SharedOK, NEW c \in Cmds, Spawn(c)
  PROVE  LocalOK' /\ SharedOK'
<1>1. tgt[c] \in Ids BY Target DEF Spawn, At, Unaimed
<1>2. engine' \in [Ids -> {"none", "starting", "up", "dead"}] /\ svc' \in Ids \cup {None}
  BY <1>1 DEF Spawn, SharedOK
<1>3. SharedOK' BY <1>2 DEF Spawn, SharedOK, registry
<1>4. "register" \in Labels \ {"sweep"} BY DEF Labels
<1>5. Moves(c) BY <1>1, <1>4, IdsAssumption DEF Spawn, Moves
<1> QED BY <1>3, <1>5, MovesType

LEMMA RegisterType ==
  ASSUME LocalOK, SharedOK, NEW c \in Cmds, Register(c)
  PROVE  LocalOK' /\ SharedOK'
<1>1. tgt[c] \in Ids BY Target DEF Register, At, Unaimed
<1>2. SharedOK' BY <1>1 DEF Register, SharedOK, engines, States
<1>3. "point" \in Labels \ {"sweep"} BY DEF Labels
<1>4. LocalOK' BY <1>1, <1>3, GotoType, IdsAssumption DEF Register
<1> QED BY <1>2, <1>4

LEMMA PointType ==
  ASSUME LocalOK, SharedOK, NEW c \in Cmds, Point(c)
  PROVE  LocalOK' /\ SharedOK'
<1>1. tgt[c] \in Ids BY Target DEF Point, At, Unaimed
<1>2. SharedOK' BY <1>1 DEF Point, SharedOK, engines
<1>3. "await" \in Labels \ {"sweep"} BY DEF Labels
<1>4. LocalOK' BY <1>1, <1>3, GotoType, IdsAssumption DEF Point
<1> QED BY <1>2, <1>4

LEMMA GiveUpType ==
  ASSUME LocalOK, SharedOK, NEW c \in Cmds, GiveUp(c)
  PROVE  LocalOK' /\ SharedOK'
<1>1. tgt[c] \in Ids BY Target DEF GiveUp, At, Unaimed
<1>2. SharedOK' BY <1>1, StopEngineType DEF GiveUp
<1>3. pc' = [pc EXCEPT ![c] = "bury"] /\ verb' = [verb EXCEPT ![c] = "new"]
      /\ UNCHANGED <<tgt, todo, seen>>
  BY DEF GiveUp, Goto
<1>4. LocalOK' BY <1>1, <1>3, IdsAssumption DEF LocalOK, Aimed, Labels, AllVerbs
<1> QED BY <1>2, <1>4

\* The two steps that read the control record.
LEMMA ReadLockType ==
  ASSUME LocalOK, SharedOK, NEW c \in Cmds, Snapped(c) \/ Release(c)
  PROVE  LocalOK' /\ SharedOK'
<1>1. tgt[c] \in Ids BY Target DEF Snapped, Release, At, Unaimed
<1>2. SharedOK' BY SharedSame DEF Snapped, Release
<1>3. /\ \E next \in {"reread", "handback"} : pc' = [pc EXCEPT ![c] = next]
      /\ seen' = [seen EXCEPT ![c] = lock[tgt[c]]]
      /\ UNCHANGED <<verb, tgt, todo>>
  BY DEF Snapped, Release, Goto
<1>4. LocalOK' BY <1>1, <1>3, IdsAssumption DEF LocalOK, SharedOK, Aimed, Labels
<1> QED BY <1>2, <1>4

\* The three that write it.
LEMMA WriteLockType ==
  ASSUME LocalOK, SharedOK, NEW c \in Cmds, Clear(c) \/ Take(c) \/ HandBack(c)
  PROVE  LocalOK' /\ SharedOK'
<1>1. tgt[c] \in Ids BY Target DEF Clear, Take, HandBack, At, Unaimed
<1>2. \E r \in Locks : lock' = [lock EXCEPT ![tgt[c]] = r]
  <2>1. seen[c] \in Locks BY DEF LocalOK
  <2>2. [human |-> TRUE, stale |-> TRUE] \in Locks BY DEF Locks
  <2>3. Cleared(seen[c]) \in Locks /\ HandedBack(seen[c]) \in Locks BY <2>1, LockKinds
  <2> QED BY <2>2, <2>3 DEF Clear, Take, HandBack
<1>3. UNCHANGED <<registry, engines, due>> BY DEF Clear, Take, HandBack
<1>4. SharedOK' BY <1>1, <1>2, <1>3, LockType
<1>5. Return(c) BY DEF Clear, Take, HandBack
<1> QED BY <1>4, <1>5, ReturnType

LEMMA StopType ==
  ASSUME LocalOK, SharedOK, NEW c \in Cmds, Stop(c)
  PROVE  LocalOK' /\ SharedOK'
<1>1. tgt[c] \in Ids BY Target DEF Stop, At, Unaimed
<1>2. SharedOK' BY <1>1, StopEngineType DEF Stop
<1>3. {"erase", "end"} \subseteq Labels \ {"sweep"} BY DEF Labels
<1>4. Moves(c) BY <1>1, <1>3, IdsAssumption DEF Stop, Moves
<1> QED BY <1>2, <1>4, MovesType

LEMMA EraseType ==
  ASSUME LocalOK, SharedOK, NEW c \in Cmds, Erase(c)
  PROVE  LocalOK' /\ SharedOK'
<1>1. tgt[c] \in Ids BY Target DEF Erase, At, Unaimed
<1>2. SharedOK' BY <1>1, LockKinds DEF Erase, SharedOK, States
<1>3. "forget" \in Labels \ {"sweep"} BY DEF Labels
<1>4. Moves(c) BY <1>1, <1>3, IdsAssumption DEF Erase, Moves
<1> QED BY <1>2, <1>4, MovesType

LEMMA UnboxType ==
  ASSUME LocalOK, SharedOK, NEW c \in Cmds, Unbox(c)
  PROVE  LocalOK' /\ SharedOK'
<1>1. engine' \in [Ids -> {"none", "starting", "up", "dead"}]
  BY DEF Unbox, SharedOK
<1>2. SharedOK' BY <1>1 DEF Unbox, SharedOK, registry
<1>3. CASE box
  <2>1. /\ pc' = [pc EXCEPT ![c] = "evict"] /\ UNCHANGED <<verb, tgt, seen>>
        /\ todo' \in [Cmds -> SUBSET Ids]
    BY <1>3 DEF Unbox, Goto, LocalOK
  <2> QED BY <1>2, <2>1 DEF LocalOK, Aimed, Labels, Unaimed
<1>4. CASE ~box BY <1>2, <1>4, ReturnType DEF Unbox
<1> QED BY <1>3, <1>4

LEMMA EvictType ==
  ASSUME LocalOK, SharedOK, NEW c \in Cmds, Evict(c)
  PROVE  LocalOK' /\ SharedOK'
<1>1. CASE todo[c] = {}
  <2>1. Return(c) /\ UNCHANGED <<registry, engines, due, lock>>
    BY <1>1 DEF Evict, registry
  <2> QED BY <2>1, ReturnType, SharedSame
<1>2. CASE todo[c] # {}
  <2>1. PICK i \in todo[c] : /\ End(i, "evicted")
                             /\ todo' = [todo EXCEPT ![c] = @ \ {i}]
                             /\ UNCHANGED <<pc, verb, tgt, seen>>
    BY <1>2 DEF Evict
  <2>2. i \in Ids BY DEF LocalOK
  <2>3. SharedOK' BY <2>1, <2>2, EndType DEF Evict, States
  <2>4. LocalOK' BY <2>1 DEF LocalOK, Aimed
  <2> QED BY <2>3, <2>4
<1> QED BY <1>1, <1>2

\* The surroundings touch no command.
LEMMA AroundType ==
  ASSUME LocalOK, SharedOK, NEW i \in Ids, Serve(i) \/ Crash(i) \/ TimePasses(i)
  PROVE  LocalOK' /\ SharedOK'
<1>1. LocalOK' BY DEF Serve, Crash, TimePasses, local, LocalOK, Aimed
<1>2. SharedOK' BY DEF Serve, Crash, TimePasses, SharedOK, registry, engines
<1> QED BY <1>1, <1>2

LEMMA MoveType ==
  ASSUME LocalOK, SharedOK, NEW c \in Cmds, Move(c)
  PROVE  LocalOK' /\ SharedOK'
<1>1. \/ \E i \in Ids : Expire(c, i)
      \/ \E i \in Ids, p \in Places : Mint(c, i, p)
      \/ Quiet(c) \/ Bury(c) \/ Moved(c) \/ Close(c) \/ Snapped(c) \/ Release(c)
      \/ Clear(c) \/ Take(c) \/ HandBack(c)
      \/ Resolve(c) \/ Unpoint(c) \/ Spawn(c) \/ Register(c) \/ Point(c) \/ GiveUp(c)
      \/ Stop(c) \/ Erase(c) \/ Unbox(c) \/ Evict(c)
  BY DEF Move, Quiet
<1> QED BY <1>1, ExpireType, MintType, QuietType, EndingType, ReadLockType, WriteLockType,
           ResolveType, UnpointType, SpawnType, RegisterType, PointType, GiveUpType,
           StopType, EraseType, UnboxType, EvictType

\* A command that is cut short knows what it worked on.
Cut(c) == Unrecorded(c) \/ Killed(c)

LEMMA CutType ==
  ASSUME LocalOK, SharedOK, StraysOK, NEW c \in Cmds, Cut(c)
  PROVE  LocalOK' /\ SharedOK' /\ StraysOK'
<1>1. Return(c) /\ UNCHANGED <<registry, engines, due, lock>>
  BY DEF Cut, Unrecorded, Killed
<1>2. pc[c] = "register" => tgt[c] \in Ids BY Target DEF Unaimed
<1>3. StraysOK' BY <1>2 DEF Cut, Unrecorded, Killed, At, StraysOK
<1> QED BY <1>1, <1>3, ReturnType, SharedSame

LEMMA InitType == Init => TypeInv
<1> SUFFICES ASSUME Init PROVE LocalOK /\ SharedOK BY Parts DEF Init, StraysOK
<1>1. FreshLock \in Locks BY LockKinds
<1>2. LocalOK BY <1>1 DEF Init, LocalOK, Aimed, Labels, Unaimed
<1>3. SharedOK BY <1>1 DEF Init, SharedOK, States
<1> QED BY <1>2, <1>3

LEMMA NextType == TypeInv /\ [Next]_vars => TypeInv'
<1> SUFFICES ASSUME LocalOK, SharedOK, StraysOK, [Next]_vars
             PROVE  LocalOK' /\ SharedOK' /\ StraysOK'
  BY Parts, PTL
<1>1. AgentVerbs \cup OperatorVerbs \subseteq AllVerbs /\ Cmds = Agents \cup Operators
  BY ChoiceAssumption DEF Cmds
<1>2. CASE UNCHANGED vars
  <2>1. LocalOK' BY <1>2 DEF vars, LocalOK, Aimed
  <2>2. SharedOK' BY <1>2 DEF vars, SharedOK
  <2> QED BY <1>2, <2>1, <2>2 DEF vars, StraysOK
<1>3. CASE \E c \in Cmds, v \in AllVerbs, i \in Ids \cup {None} : Begin(c, v, i)
  BY <1>3, BeginType DEF Begin, StraysOK
<1>4. CASE \E c \in Cmds : Move(c) /\ UNCHANGED strays
  BY <1>4, MoveType DEF StraysOK
<1>5. CASE \E i \in Ids : Serve(i) \/ Crash(i) \/ TimePasses(i)
  BY <1>5, AroundType DEF Serve, Crash, TimePasses, StraysOK
<1>6. CASE \E c \in Cmds : Cut(c) BY <1>6, CutType
<1> QED BY <1>1, <1>2, <1>3, <1>4, <1>5, <1>6 DEF Next, Step, Cut

\* Every variable holds a value of its kind, and a command that acts on a
\* session has one, for any number of commands and sessions.
THEOREM SessionTypes == Spec => []TypeOK
<1>1. TypeInv => TypeOK BY DEF TypeInv
<1> QED BY <1>1, InitType, NextType, PTL DEF Spec

-----------------------------------------------------------------------------
(* Engines and records. *)

Book == OnCourse /\ Private /\ Honest /\ Findable /\ OneEnginePerBox

\* What a step of c leaves the other commands.
Only(c) ==
  \A d \in Cmds : d # c => pc'[d] = pc[d] /\ tgt'[d] = tgt[d] /\ todo'[d] = todo[d]

\* What never comes back: a dead engine does not live, a place is not changed,
\* time does not return, and only a start takes an engine out of nothing.
Onward ==
  \A i \in Ids : /\ engine[i] # "none" => engine'[i] # "none"
                 /\ engine[i] = "dead" => engine'[i] = "dead"
                 /\ place[i] # "none" => place'[i] = place[i]
                 /\ i \in due => i \in due'

Unstarted == \A i \in Ids : engine[i] = "none" => engine'[i] = "none"

LEMMA Elsewhere ==
  ASSUME TypeInv, Book, Onward, NEW d \in Cmds,
         pc'[d] = pc[d], tgt'[d] = tgt[d], todo'[d] = todo[d],
         pc[d] = "spawn" => engine'[tgt[d]] = "none"
  PROVE  Course(d)'
<1>1. LocalOK /\ Course(d) BY Parts DEF Book, OnCourse
<1>2. pc[d] \notin Unaimed => tgt[d] \in Ids BY <1>1 DEF LocalOK
<1>3. todo[d] \subseteq Ids BY <1>1 DEF LocalOK
<1>4. \A i \in Ids : engine[i] # "none" => place[i] # "none"
  BY DEF Book, Honest, Recorded
<1>5. /\ pc'[d] = "sweep" => \A i \in todo'[d] : i \in due' /\ engine'[i] # "none"
      /\ pc'[d] = "evict" => \A i \in todo'[d] : place'[i] = "box" /\ engine'[i] # "none"
  BY <1>1, <1>3 DEF Course, Onward
<1>6. pc'[d] = "spawn" => place'[tgt'[d]] # "none" /\ engine'[tgt'[d]] = "none"
  BY <1>1, <1>2 DEF Course, Onward, Unaimed
<1>7. pc'[d] \in Begun => engine'[tgt'[d]] # "none"
  BY <1>1, <1>2 DEF Course, Onward, Unaimed, Begun
<1>8. pc'[d] = "end" => engine'[tgt'[d]] = "dead"
  BY <1>1, <1>2 DEF Course, Onward, Unaimed
<1>9. pc[d] \in {"bury", "erase"} => place[tgt[d]] # "none"
  BY <1>1, <1>2, <1>4 DEF Course, Begun, Unaimed
<1>10. pc'[d] = "bury" /\ place'[tgt'[d]] = "host" => engine'[tgt'[d]] = "dead"
  BY <1>1, <1>2, <1>9 DEF Course, Onward, Unaimed
<1>11. pc'[d] = "erase" /\ place'[tgt'[d]] = "host"
         => engine'[tgt'[d]] = "dead" \/ tgt'[d] \in due'
  BY <1>1, <1>2, <1>9 DEF Course, Onward, Unaimed
<1> QED BY <1>5, <1>6, <1>7, <1>8, <1>10, <1>11 DEF Course

\* Every command is on its course after a step of one that is.
Tied(c) ==
  /\ pc'[c] \notin {"spawn", "register"}
  /\ \A i \in Ids : Touches(c, i)' => Touches(c, i) \/ rec[i] # "none"

\* A record that is none is written only by who worked on its session.
Written(c) == \A i \in Ids : rec'[i] # rec[i] => Touches(c, i) \/ rec[i] # "none"

LEMMA Touched ==
  ASSUME LocalOK, NEW c \in Cmds, NEW i, Touches(c, i)
  PROVE  i \in Ids
  BY DEF LocalOK, Touches, Begun, Unaimed

LEMMA PrivateKept ==
  ASSUME TypeInv, Book, NEW c \in Cmds, Only(c), Onward, Tied(c), Written(c), strays' = strays
  PROVE  Private'
<1>1. LocalOK /\ strays \subseteq Ids BY Parts DEF StraysOK
<1>2. \A d \in Cmds : d # c => /\ pc'[d] = pc[d] /\ tgt'[d] = tgt[d]
                              /\ \A i : Touches(d, i)' <=> Touches(d, i)
  BY DEF Only, Touches
<1>3. \A d \in Cmds : pc[d] \in {"spawn", "register"} =>
        tgt[d] \in Ids /\ rec[tgt[d]] = "none" /\ \A e \in Cmds : Touches(e, tgt[d]) => e = d
  <2> SUFFICES ASSUME NEW d \in Cmds, pc[d] \in {"spawn", "register"}
               PROVE  tgt[d] \in Ids /\ rec[tgt[d]] = "none"
                      /\ \A e \in Cmds : Touches(e, tgt[d]) => e = d
    OBVIOUS
  <2>1. tgt[d] \in Ids BY <1>1, Target DEF Unaimed
  <2>2. CASE pc[d] = "spawn"
    <3>1. engine[tgt[d]] = "none" BY <2>2 DEF Book, OnCourse, Course
    <3> QED BY <2>1, <3>1 DEF Book, Honest, Recorded, Private
  <2>3. CASE pc[d] = "register" BY <2>1, <2>3 DEF Book, Private
  <2> QED BY <2>2, <2>3
<1>4. ASSUME NEW d \in Cmds, NEW e \in Cmds, pc'[d] \in {"spawn", "register"},
             Touches(e, tgt[d])'
      PROVE  d = e
  <2>1. d # c /\ pc[d] \in {"spawn", "register"} /\ tgt'[d] = tgt[d]
    BY <1>2, <1>4 DEF Tied
  <2>2. CASE e # c BY <1>2, <1>3, <1>4, <2>1, <2>2
  <2>3. CASE e = c
    <3>1. Touches(c, tgt[d])' BY <1>4, <2>1, <2>3 DEF Touches
    <3>2. Touches(c, tgt[d]) BY <1>3, <2>1, <3>1 DEF Tied
    <3> QED BY <1>3, <2>1, <3>2
  <2> QED BY <2>2, <2>3
<1>5. ASSUME NEW d \in Cmds, pc'[d] = "register" PROVE rec'[tgt'[d]] = "none"
  <2>1. d # c /\ pc[d] = "register" /\ tgt'[d] = tgt[d] BY <1>2, <1>5 DEF Tied
  <2>2. ~Touches(c, tgt[d]) BY <1>3, <2>1
  <2> QED BY <1>3, <2>1, <2>2 DEF Written
<1>6. ASSUME NEW i \in strays'
      PROVE  rec'[i] = "none" /\ engine'[i] # "none" /\ \A d \in Cmds : ~Touches(d, i)'
  <2>1. i \in Ids /\ rec[i] = "none" /\ engine[i] # "none" /\ \A d \in Cmds : ~Touches(d, i)
    BY <1>1 DEF Book, Private
  <2>2. rec'[i] = "none" /\ engine'[i] # "none" BY <2>1 DEF Written, Onward
  <2>3. \A d \in Cmds : ~Touches(d, i)' BY <1>2, <2>1 DEF Tied
  <2> QED BY <2>2, <2>3
<1> QED BY <1>4, <1>5, <1>6 DEF Private

LEMMA CourseKept ==
  ASSUME TypeInv, Book, NEW c \in Cmds, Only(c), Onward, Unstarted, Course(c)',
         Tied(c), Written(c), strays' = strays
  PROVE  OnCourse' /\ Private'
<1>1. LocalOK BY Parts
<1>2. \A d \in Cmds : pc[d] = "spawn" => tgt[d] \in Ids /\ engine[tgt[d]] = "none"
  BY <1>1 DEF Book, OnCourse, Course, LocalOK, Unaimed
<1>3. \A d \in Cmds : d # c => Course(d)'
  BY <1>2, Elsewhere DEF Only, Unstarted
<1>4. Private' BY PrivateKept
<1> QED BY <1>3, <1>4 DEF OnCourse

\* An engine that could be found still can.
LEMMA FoundKept ==
  ASSUME Book, NEW c \in Cmds, Only(c), pc[c] # "register",
         \A i \in Ids : place'[i] = "host" /\ Running(i)' /\ i \notin due' =>
            /\ place[i] = "host" /\ Running(i) /\ i \notin due
            /\ Live(i) => Live(i)',
         strays' = strays
  PROVE  Findable'
  BY DEF Book, Findable, Opening, Only

\* Steps that change neither records nor engines.
Calmly == UNCHANGED <<rec, place, engine, svc, box, due, strays>>

LEMMA CalmStep ==
  ASSUME TypeInv, Book, NEW c \in Cmds, Only(c), Calmly, Course(c)',
         pc[c] # "register", Tied(c)
  PROVE  Book'
<1>1. Onward /\ Unstarted /\ Written(c) BY DEF Onward, Unstarted, Written, Calmly
<1>2. OnCourse' /\ Private' BY <1>1, CourseKept DEF Calmly
<1>3. Honest' BY DEF Book, Honest, Recorded, Calmly
<1>4. Findable' BY FoundKept DEF Calmly, Running, Live
<1>5. OneEnginePerBox' BY DEF Book, OneEnginePerBox, Calmly, Running
<1> QED BY <1>2, <1>3, <1>4, <1>5 DEF Book

\* A command that ends or goes where nothing is promised is on its course.
Free == Labels \ ({"sweep", "evict", "spawn"} \cup Begun)

LEMMA FreeCourse ==
  ASSUME NEW c \in Cmds, pc'[c] \in Free
  PROVE  Course(c)' /\ Tied(c)
  BY DEF Free, Course, Begun, Tied, Touches

\* A command that stays at work on its session.
LEMMA TiedHere ==
  ASSUME NEW c \in Cmds, pc[c] \in Begun, pc'[c] \in Begun \ {"register"}, tgt'[c] = tgt[c]
  PROVE  Tied(c)
  BY DEF Begun, Tied, Touches

\* A command that starts its work on a session that has a record.
LEMMA TiedToKnown ==
  ASSUME NEW c \in Cmds, pc'[c] \notin {"spawn", "register", "sweep", "evict"},
         rec[tgt'[c]] # "none"
  PROVE  Tied(c)
  BY DEF Tied, Touches

LEMMA ReturnFree ==
  ASSUME LocalOK, NEW c \in Cmds, Return(c)
  PROVE  Only(c) /\ pc'[c] \in Free
  BY DEF Return, LocalOK, Only, Free, Labels, Begun

LEMMA MissFree ==
  ASSUME LocalOK, NEW c \in Cmds, Miss(c)
  PROVE  Only(c) /\ pc'[c] \in Free
<1>1. CASE Return(c) BY <1>1, ReturnFree
<1>2. CASE Goto(c, "mint") /\ Stay
  BY <1>2 DEF Goto, Stay, LocalOK, Only, Free, Labels, Begun
<1> QED BY <1>1, <1>2 DEF Miss

-----------------------------------------------------------------------------
(* One lemma per step. *)

LEMMA MoveTo ==
  ASSUME LocalOK, NEW c \in Cmds, NEW next \in Labels, Goto(c, next), Stay
  PROVE  /\ Only(c) /\ pc'[c] = next /\ tgt'[c] = tgt[c]
         /\ next \in Free => pc'[c] \in Free
  BY DEF Goto, Stay, LocalOK, Only

LEMMA QuietBook ==
  ASSUME TypeInv, Book, NEW c \in Cmds, Quiet(c), UNCHANGED strays
  PROVE  Book'
<1>1. LocalOK /\ SharedOK /\ Course(c) BY Parts DEF Book, OnCourse
<1>2. Calmly BY <1>1, QuietMoves DEF Calmly, registry, engines
<1>3. pc[c] # "register"
  BY DEF Quiet, Forget, NoId, Awaited, Navigate, Check, Deliver, Reread, FindToRemove, At
<1>4. CASE Return(c) \/ Miss(c)
  BY <1>1, <1>2, <1>3, <1>4, ReturnFree, MissFree, FreeCourse, CalmStep
<1>5. CASE \E next \in {"unpoint", "deliver", "snapped", "clear"} : Goto(c, next) /\ Stay
  <2>1. {"unpoint", "deliver", "snapped", "clear"} \subseteq Free \cap Labels
    BY DEF Free, Labels, Begun
  <2> QED BY <1>1, <1>2, <1>3, <1>5, <2>1, MoveTo, FreeCourse, CalmStep
<1>6. CASE Navigate(c) /\ Goto(c, "moved") /\ Stay
  <2>1. Only(c) /\ pc'[c] = "moved" /\ tgt'[c] = tgt[c]
    BY <1>1, <1>6, MoveTo DEF Labels
  <2>2. tgt[c] \in Ids /\ engine[tgt[c]] # "none"
    BY <1>1, <1>6, Target DEF Navigate, At, Course, Begun, Unaimed
  <2>3. Course(c)' BY <1>2, <2>1, <2>2 DEF Course, Calmly
  <2>4. Tied(c) BY <1>6, <2>1, TiedToKnown, TiedHere DEF Navigate, At, Begun
  <2> QED BY <1>2, <1>3, <2>1, <2>3, <2>4, CalmStep
<1>7. CASE FindToRemove(c)
  <2>1. tgt[c] \in Ids BY <1>1, <1>7 DEF FindToRemove, At, LocalOK, Aimed
  <2>2. Recorded(tgt[c]) BY <2>1 DEF Book, Honest
  <2>3. CASE rec[tgt[c]] = "live" /\ Goto(c, "stop") /\ Stay
    <3>1. Only(c) /\ pc'[c] = "stop" /\ tgt'[c] = tgt[c]
      BY <1>1, <2>3, MoveTo DEF Labels
    <3>2. Course(c)' BY <1>2, <2>2, <2>3, <3>1 DEF Course, Calmly, Recorded
    <3>3. Tied(c) BY <2>3, <3>1, TiedToKnown
    <3> QED BY <1>2, <1>3, <3>1, <3>2, <3>3, CalmStep
  <2>4. CASE rec[tgt[c]] \notin {"none", "live"} /\ Goto(c, "erase") /\ Stay
    <3>1. Only(c) /\ pc'[c] = "erase" /\ tgt'[c] = tgt[c]
      BY <1>1, <2>4, MoveTo DEF Labels
    <3>2. rec[tgt[c]] \in {"closed", "died", "expired", "evicted"}
      BY <1>1, <2>1, <2>4 DEF SharedOK, States
    <3>3. Course(c)' BY <1>2, <2>2, <3>1, <3>2 DEF Course, Calmly, Recorded
    <3>4. Tied(c) BY <2>4, <3>1, TiedToKnown
    <3> QED BY <1>2, <1>3, <3>1, <3>3, <3>4, CalmStep
  <2> QED BY <1>4, <1>7, <2>3, <2>4 DEF FindToRemove, Live
<1> QED BY <1>4, <1>5, <1>6, <1>7
        DEF Quiet, Forget, NoId, Awaited, Navigate, Check, Deliver, Reread

LEMMA BeginBook ==
  ASSUME TypeInv, Book, NEW c \in Cmds, NEW v \in AllVerbs, NEW i \in Ids \cup {None},
         Begin(c, v, i)
  PROVE  Book'
<1>1. LocalOK /\ SharedOK BY Parts
<1>2. Calmly BY DEF Begin, Calmly, registry, engines
<1>3. pc[c] # "register" /\ Only(c) BY <1>1 DEF Begin, At, Only, LocalOK, Goto
<1>4. CASE v = "boxrm"
  <2>1. pc'[c] \in Free BY <1>1, <1>4 DEF Begin, Goto, Free, Labels, Begun, LocalOK
  <2> QED BY <1>2, <1>3, <2>1, FreeCourse, CalmStep
<1>5. CASE v # "boxrm"
  <2>1. pc'[c] = "sweep" /\ todo'[c] = PastDue
    BY <1>1, <1>5 DEF Begin, Goto, LocalOK
  <2>2. \A j \in PastDue : j \in due /\ engine[j] # "none"
    BY DEF PastDue, Live, Book, Honest, Recorded
  <2>3. Course(c)' BY <1>2, <2>1, <2>2 DEF Course, Calmly, Begun
  <2>4. Tied(c) BY <2>1 DEF Tied, Touches, PastDue, Live, Begun
  <2> QED BY <1>2, <1>3, <2>1, <2>3, <2>4, CalmStep
<1> QED BY <1>4, <1>5

LEMMA ResolveBook ==
  ASSUME TypeInv, Book, NEW c \in Cmds, Resolve(c), UNCHANGED strays
  PROVE  Book'
<1>1. LocalOK /\ SharedOK BY Parts
<1>2. Calmly BY DEF Resolve, Calmly, registry, engines
<1>3. pc[c] = "sweep" /\ verb[c] \notin {"new", "rm", "rmforce"} BY DEF Resolve, At
<1>4. PICK i \in Ids \cup {None} : Found(c, i) \/ FoundDead(c, i) \/ FoundNone(c, i)
  BY <1>1 DEF Resolve, LocalOK, SharedOK
<1>5. CASE Found(c, i)
  <2>1. verb[c] \in {"open", "act", "snapshot", "status", "close", "take", "release"}
    BY <1>1, <1>3 DEF LocalOK, Aimed, AllVerbs
  <2>2. First(verb[c]) \in {"navigate", "check", "deliver", "stop", "take", "release"}
    BY <2>1 DEF First
  <2>3. /\ i \in Ids /\ Live(i) /\ Only(c)
        /\ tgt'[c] = i /\ pc'[c] = First(verb[c])
    BY <1>1, <1>5 DEF Found, Goto, LocalOK, Only
  <2>4. engine[i] # "none" BY <2>3 DEF Live, Book, Honest, Recorded
  <2>5. Course(c)' BY <1>2, <2>2, <2>3, <2>4 DEF Course, Calmly
  <2>6. Tied(c) BY <2>2, <2>3, TiedToKnown DEF Live
  <2> QED BY <1>2, <1>3, <2>3, <2>5, <2>6, CalmStep
<1>6. CASE FoundDead(c, i)
  <2>1. i \in Ids /\ Live(i) /\ ~Probe(i) /\ Only(c) /\ tgt'[c] = i /\ pc'[c] = "bury"
    BY <1>1, <1>6 DEF FoundDead, Goto, LocalOK, Only
  <2>2. engine[i] # "none" BY <2>1 DEF Live, Book, Honest, Recorded
  <2>3. place[i] = "host" => engine[i] = "dead"
    BY <1>1, <2>1, <2>2 DEF Probe, Running, SharedOK
  <2>4. Course(c)' BY <1>2, <2>1, <2>2, <2>3 DEF Course, Calmly
  <2>5. Tied(c) BY <2>1, TiedToKnown DEF Live
  <2> QED BY <1>2, <1>3, <2>1, <2>4, <2>5, CalmStep
<1>7. CASE FoundNone(c, i)
  <2>1. CASE Miss(c) BY <1>1, <1>2, <1>3, <2>1, MissFree, FreeCourse, CalmStep
  <2>2. CASE ~Miss(c)
    <3>1. Only(c) /\ pc'[c] \in Free
      BY <1>1, <1>7, <2>2 DEF FoundNone, Goto, LocalOK, Only, Free, Labels, Begun
    <3> QED BY <1>2, <1>3, <3>1, FreeCourse, CalmStep
  <2> QED BY <2>1, <2>2
<1> QED BY <1>4, <1>5, <1>6, <1>7

\* Steps on the control record, and on the default pointer.
LEMMA AsideBook ==
  ASSUME TypeInv, Book, NEW c \in Cmds,
         \/ Snapped(c) \/ Release(c) \/ Clear(c) \/ Take(c) \/ HandBack(c)
         \/ Unpoint(c) \/ Point(c),
         UNCHANGED strays
  PROVE  Book'
<1>1. LocalOK /\ SharedOK /\ Course(c) BY Parts DEF Book, OnCourse
<1>2. Calmly
  BY DEF Snapped, Release, Clear, Take, HandBack, Unpoint, Point, Calmly, registry, engines
<1>3. pc[c] # "register"
  BY DEF Snapped, Release, Clear, Take, HandBack, Unpoint, Point, At
<1>4. CASE Return(c) \/ Miss(c)
  BY <1>1, <1>2, <1>3, <1>4, ReturnFree, MissFree, FreeCourse, CalmStep
<1>5. CASE Snapped(c) \/ Release(c)
  <2>1. Only(c) /\ pc'[c] \in Free
    BY <1>1, <1>5 DEF Snapped, Release, Goto, LocalOK, Only, Free, Labels, Begun
  <2> QED BY <1>2, <1>3, <2>1, FreeCourse, CalmStep
<1>6. CASE Point(c)
  <2>1. Only(c) /\ pc'[c] = "await" /\ tgt'[c] = tgt[c]
    BY <1>1, <1>6, MoveTo DEF Point, Labels
  <2>2. engine[tgt[c]] # "none" BY <1>1, <1>6 DEF Point, At, Course, Begun
  <2>3. Course(c)' BY <1>2, <2>1, <2>2 DEF Course, Calmly
  <2>4. Tied(c) BY <1>6, <2>1, TiedHere DEF Point, At, Begun
  <2> QED BY <1>2, <1>3, <2>1, <2>3, <2>4, CalmStep
<1> QED BY <1>4, <1>5, <1>6 DEF Clear, Take, HandBack, Unpoint

\* A record is written.  Whoever writes an ending over a session of the host
\* made sure of its engine, or its time is over.
LEMMA RecordStep ==
  ASSUME TypeInv, Book, NEW c \in Cmds, NEW i \in Ids, NEW how \in States,
         End(i, how), UNCHANGED <<place, engine, svc, box, due>>,
         Only(c), Course(c)', Tied(c), Touches(c, i), Recorded(i)', UNCHANGED strays,
         pc[c] = "register" => tgt[c] = i /\ how = "live",
         place[i] = "host" /\ Running(i) /\ i \notin due => how = "live"
  PROVE  Book'
<1>1. SharedOK BY Parts
<1>2. \A j \in Ids : rec'[j] = IF j = i THEN how ELSE rec[j]
  BY <1>1 DEF End, SharedOK
<1>3. Onward /\ Unstarted BY DEF Onward, Unstarted
<1>4. OnCourse' /\ Private'
  <2>1. Written(c) BY <1>2 DEF Written
  <2> QED BY <1>3, <2>1, CourseKept
<1>5. Honest' BY <1>2 DEF Book, Honest, Recorded
<1>6. Findable'
  <2> SUFFICES ASSUME NEW j \in Ids, place[j] = "host", Running(j), j \notin due,
                      j \notin strays
               PROVE  Live(j)' \/ Opening(j)'
    BY DEF Findable, Running
  <2>1. CASE j = i BY <1>2, <2>1 DEF Live
  <2>2. CASE j # i
    <3>1. Live(j) \/ Opening(j) BY DEF Book, Findable
    <3> QED BY <1>2, <2>2, <3>1 DEF Live, Opening, Only
  <2> QED BY <2>1, <2>2
<1>7. OneEnginePerBox' BY DEF Book, OneEnginePerBox, Running
<1> QED BY <1>4, <1>5, <1>6, <1>7 DEF Book

LEMMA ExpireBook ==
  ASSUME TypeInv, Book, NEW c \in Cmds, NEW i \in Ids, Expire(c, i), UNCHANGED strays
  PROVE  Book'
<1>1. LocalOK /\ SharedOK /\ Course(c) BY Parts DEF Book, OnCourse
<1>2. /\ pc[c] = "sweep" /\ End(i, "expired") /\ i \in due /\ engine[i] # "none"
      /\ UNCHANGED <<place, engine, svc, box, due>>
  BY <1>1 DEF Expire, At, Course, engines
<1>3. Only(c) /\ pc'[c] = "sweep" /\ todo'[c] \subseteq todo[c]
  BY <1>1, <1>2 DEF Expire, LocalOK, Only
<1>4. Course(c)' BY <1>1, <1>2, <1>3 DEF Course, Begun
<1>5. Recorded(i) BY DEF Book, Honest
<1>6. Recorded(i)' BY <1>1, <1>2, <1>5 DEF End, Recorded, SharedOK
<1>7. Touches(c, i) BY <1>2 DEF Expire, Touches
<1>8. Tied(c) BY <1>2, <1>3 DEF Tied, Touches, Begun
<1> QED BY <1>2, <1>3, <1>4, <1>6, <1>7, <1>8, RecordStep DEF States

LEMMA EndingBook ==
  ASSUME TypeInv, Book, NEW c \in Cmds, Bury(c) \/ Moved(c) \/ Close(c),
         UNCHANGED strays
  PROVE  Book'
<1>1. LocalOK /\ SharedOK /\ Course(c) BY Parts DEF Book, OnCourse
<1>2. PICK i \in Ids : i = tgt[c] /\ engine[i] # "none" /\ pc[c] # "register"
  BY <1>1, Target DEF Bury, Moved, Close, At, Unaimed, Course, Begun
<1>3. UNCHANGED <<place, engine, svc, box, due>>
  BY DEF Bury, Moved, Close, engines
<1>4. Only(c) /\ pc'[c] \in Free
  BY <1>1, ReturnFree, MissFree DEF Bury, Moved, Close
<1>5. Course(c)' /\ Tied(c) /\ Touches(c, i)
  BY <1>2, <1>4, FreeCourse DEF Bury, Moved, Close, At, Touches, Begun
<1>6. Recorded(i) BY <1>2 DEF Book, Honest
<1>7. CASE Bury(c)
  <2>1. End(i, "died") BY <1>2, <1>7 DEF Bury
  <2>2. place[i] = "host" => engine[i] = "dead"
    BY <1>1, <1>2, <1>7 DEF Bury, At, Course
  <2>3. Recorded(i)' BY <1>1, <1>2, <1>3, <1>6, <2>1, <2>2 DEF End, Recorded, SharedOK
  <2> QED BY <1>2, <1>3, <1>4, <1>5, <2>1, <2>2, <2>3, RecordStep DEF Running, States
<1>8. CASE Moved(c)
  <2>1. End(i, "live") BY <1>2, <1>8 DEF Moved
  <2>2. Recorded(i)' BY <1>1, <1>2, <1>3, <1>6, <2>1 DEF End, Recorded, SharedOK
  <2> QED BY <1>2, <1>3, <1>4, <1>5, <2>1, <2>2, RecordStep DEF States
<1>9. CASE Close(c)
  <2>1. End(i, "closed") BY <1>2, <1>9 DEF Close
  <2>2. engine[i] = "dead" BY <1>1, <1>2, <1>9 DEF Close, At, Course
  <2>3. Recorded(i)' BY <1>1, <1>2, <1>3, <1>6, <2>1, <2>2 DEF End, Recorded, SharedOK
  <2> QED BY <1>2, <1>3, <1>4, <1>5, <2>1, <2>2, <2>3, RecordStep DEF Running, States
<1> QED BY <1>7, <1>8, <1>9

LEMMA RegisterBook ==
  ASSUME TypeInv, Book, NEW c \in Cmds, Register(c), UNCHANGED strays
  PROVE  Book'
<1>1. LocalOK /\ SharedOK /\ Course(c) BY Parts DEF Book, OnCourse
<1>2. tgt[c] \in Ids /\ engine[tgt[c]] # "none"
  BY <1>1, Target DEF Register, At, Unaimed, Course, Begun
<1>3. UNCHANGED <<place, engine, svc, box, due>> /\ End(tgt[c], "live")
  BY DEF Register, engines, End
<1>4. Only(c) /\ pc'[c] = "point" /\ tgt'[c] = tgt[c]
  BY <1>1, MoveTo DEF Register, Labels
<1>5. Course(c)' BY <1>2, <1>3, <1>4 DEF Course
<1>6. Recorded(tgt[c]) BY <1>2 DEF Book, Honest
<1>7. Recorded(tgt[c])' BY <1>1, <1>2, <1>3, <1>4, <1>6 DEF End, Recorded, SharedOK
<1>8. Tied(c) /\ Touches(c, tgt[c])
  BY <1>1, <1>4, TiedHere DEF Register, At, Begun, Touches
<1> QED BY <1>2, <1>3, <1>4, <1>5, <1>7, <1>8, RecordStep DEF States

LEMMA EvictBook ==
  ASSUME TypeInv, Book, NEW c \in Cmds, Evict(c), UNCHANGED strays
  PROVE  Book'
<1>1. LocalOK /\ SharedOK /\ Course(c) /\ pc[c] = "evict" BY Parts DEF Book, OnCourse, Evict, At
<1>2. UNCHANGED <<place, engine, svc, box, due>> BY DEF Evict, engines
<1>3. CASE todo[c] = {}
  <2>1. Return(c) /\ Calmly BY <1>2, <1>3 DEF Evict, Calmly
  <2> QED BY <1>1, <2>1, ReturnFree, FreeCourse, CalmStep
<1>4. CASE todo[c] # {}
  <2>1. PICK i \in todo[c] : /\ End(i, "evicted")
                             /\ todo' = [todo EXCEPT ![c] = @ \ {i}]
                             /\ UNCHANGED <<pc, verb, tgt, seen>>
    BY <1>4 DEF Evict
  <2>2. i \in Ids /\ place[i] = "box" /\ engine[i] # "none" BY <1>1 DEF LocalOK, Course
  <2>3. Only(c) /\ pc'[c] = "evict" /\ todo'[c] \subseteq todo[c]
    BY <1>1, <2>1 DEF LocalOK, Only
  <2>4. Course(c)' BY <1>1, <1>2, <2>3 DEF Course, Begun
  <2>5. Recorded(i)' BY <1>1, <1>2, <2>1, <2>2 DEF End, Recorded, SharedOK
  <2>6. Tied(c) /\ Touches(c, i) BY <1>1, <2>1, <2>3 DEF Tied, Touches, Begun
  <2> QED BY <1>1, <1>2, <2>1, <2>2, <2>3, <2>4, <2>5, <2>6, RecordStep DEF States
<1> QED BY <1>3, <1>4

\* Nobody works on a session that has no place yet, and only its opener on one
\* that has no engine.
LEMMA TouchedHas ==
  ASSUME TypeInv, Book, NEW d \in Cmds, NEW i \in Ids, Touches(d, i)
  PROVE  /\ place[i] # "none"
         /\ engine[i] = "none" => pc[d] = "spawn" /\ tgt[d] = i
<1>1. Course(d) /\ Recorded(i) BY DEF Book, OnCourse, Honest
<1> QED BY <1>1 DEF Touches, Course, Recorded

\* What the opener of a session does to it beside everyone else.
LEMMA OpenerStep ==
  ASSUME TypeInv, Book, NEW c \in Cmds, NEW i \in Ids, Only(c),
         pc'[c] \in {"spawn", "register"}, tgt'[c] = i, UNCHANGED <<rec, strays>>, Onward,
         \A d \in Cmds : Touches(d, i) => d = c,
         rec[i] = "none", engine[i] = "none"
  PROVE  Private'
<1>1. \A d \in Cmds : d # c => /\ pc'[d] = pc[d] /\ tgt'[d] = tgt[d]
                              /\ \A j : Touches(d, j)' <=> Touches(d, j)
  BY DEF Only, Touches
<1>2. \A j : Touches(c, j)' <=> j = i BY DEF Touches, Begun
<1>3. \A d \in Cmds : pc[d] \in {"spawn", "register"} => Touches(d, tgt[d])
  BY DEF Touches, Begun
<1>4. ASSUME NEW d \in Cmds, NEW e \in Cmds, pc'[d] \in {"spawn", "register"},
             Touches(e, tgt[d])'
      PROVE  d = e
  <2>1. CASE d = c /\ e # c
    <3>1. Touches(e, i)' BY <1>4, <2>1 DEF Touches
    <3> QED BY <1>1, <2>1, <3>1
  <2>2. CASE d # c /\ e = c
    <3>1. Touches(c, tgt[d])' BY <1>1, <1>4, <2>2 DEF Touches
    <3>2. tgt'[d] = i BY <3>1 DEF Touches, Begun
    <3> QED BY <1>1, <1>3, <1>4, <2>2, <3>2
  <2>3. CASE d # c /\ e # c
    <3>1. pc[d] \in {"spawn", "register"} /\ tgt'[d] = tgt[d] BY <1>1, <1>4, <2>3
    <3>2. Touches(e, tgt[d]) BY <1>1, <1>4, <2>3, <3>1 DEF Touches
    <3> QED BY <3>1, <3>2 DEF Book, Private
  <2> QED BY <2>1, <2>2, <2>3
<1>5. ASSUME NEW d \in Cmds, pc'[d] = "register" PROVE rec'[tgt'[d]] = "none"
  BY <1>1, <1>5 DEF Book, Private
<1>6. ASSUME NEW j \in strays
      PROVE  rec'[j] = "none" /\ engine'[j] # "none" /\ \A d \in Cmds : ~Touches(d, j)'
  <2>1. j \in Ids /\ rec[j] = "none" /\ engine[j] # "none" /\ \A d \in Cmds : ~Touches(d, j)
    BY Parts DEF Book, Private, StraysOK
  <2>2. j # i BY <2>1
  <2> QED BY <1>1, <1>2, <2>1, <2>2 DEF Onward
<1> QED BY <1>4, <1>5, <1>6 DEF Private

\* A place is taken for a session that has nothing yet.
LEMMA MintBook ==
  ASSUME TypeInv, Book, NEW c \in Cmds, NEW i \in Ids, NEW p \in Places, Mint(c, i, p),
         UNCHANGED strays
  PROVE  Book'
<1>1. LocalOK /\ SharedOK BY Parts
<1>2. place[i] = "none" /\ p # "none" BY ChoiceAssumption DEF Mint, Minted, AllPlaces
<1>3. engine[i] = "none" /\ rec[i] = "none"
  BY <1>2 DEF Book, Honest, Recorded
<1>4. /\ UNCHANGED <<rec, engine, svc, box, due>>
      /\ \A j \in Ids : place'[j] = IF j = i THEN p ELSE place[j]
  BY <1>1 DEF Mint, engines, SharedOK
<1>5. Only(c) /\ pc[c] # "register" /\ pc'[c] = "spawn" /\ tgt'[c] = i
  BY <1>1 DEF Mint, At, Goto, LocalOK, Only
<1>6. Onward BY <1>2, <1>4 DEF Onward
<1>7. \A d \in Cmds : pc[d] = "spawn" => /\ tgt[d] \in Ids /\ engine[tgt[d]] = "none"
                                         /\ place[tgt[d]] # "none"
  BY <1>1 DEF Book, OnCourse, Course, LocalOK, Unaimed
<1>8. \A d \in Cmds : d # c => Course(d)'
  BY <1>4, <1>5, <1>6, <1>7, Elsewhere DEF Only
<1>9. Course(c)' BY <1>2, <1>3, <1>4, <1>5 DEF Course, Begun
<1>10. Private'
  <2>1. \A d \in Cmds : ~Touches(d, i) BY <1>2, TouchedHas
  <2> QED BY <1>3, <1>4, <1>5, <1>6, <2>1, OpenerStep
<1>11. Honest' BY <1>3, <1>4 DEF Book, Honest, Recorded
<1>12. Findable'
  BY <1>3, <1>4, <1>5, FoundKept DEF Running, Live
<1>13. OneEnginePerBox'
  BY <1>3, <1>4 DEF Book, OneEnginePerBox, Running
<1> QED BY <1>8, <1>9, <1>10, <1>11, <1>12, <1>13 DEF Book, OnCourse

\* The engine starts: on the host under a record to come, in a box as the one
\* its service stands for.
LEMMA SpawnBook ==
  ASSUME TypeInv, Book, NEW c \in Cmds, Spawn(c), UNCHANGED strays
  PROVE  Book'
<1>1. LocalOK /\ SharedOK /\ Course(c) /\ pc[c] = "spawn"
  BY Parts DEF Book, OnCourse, Spawn, At
<1>2. tgt[c] \in Ids /\ engine[tgt[c]] = "none" /\ place[tgt[c]] # "none"
  BY <1>1, Target DEF Unaimed, Course
<1>3. UNCHANGED <<rec, place, box, due>> BY DEF Spawn, registry
<1>4. CASE ~MaySpawn(tgt[c])
  <2>1. Return(c) /\ Calmly BY <1>3, <1>4 DEF Spawn, Calmly
  <2> QED BY <1>1, <2>1, ReturnFree, FreeCourse, CalmStep
<1>5. CASE MaySpawn(tgt[c])
  <2>1. /\ \A j \in Ids : engine'[j] = IF j = tgt[c] THEN "starting" ELSE engine[j]
        /\ svc' = IF place[tgt[c]] = "box" THEN tgt[c] ELSE svc
        /\ Goto(c, "register") /\ Stay
    BY <1>1, <1>5 DEF Spawn, SharedOK
  <2>2. Only(c) /\ pc'[c] = "register" /\ tgt'[c] = tgt[c]
    BY <1>1, <2>1, MoveTo DEF Labels
  <2>3. Onward BY <1>2, <1>3, <2>1 DEF Onward
  <2>4. \A d \in Cmds : pc[d] = "spawn" /\ d # c =>
          tgt[d] \in Ids /\ tgt[d] # tgt[c] /\ engine[tgt[d]] = "none"
    <3> SUFFICES ASSUME NEW d \in Cmds, pc[d] = "spawn", d # c
                 PROVE  tgt[d] \in Ids /\ tgt[d] # tgt[c] /\ engine[tgt[d]] = "none"
      OBVIOUS
    <3>1. tgt[d] \in Ids /\ engine[tgt[d]] = "none"
      BY <1>1, Target DEF Book, OnCourse, Course, Unaimed
    <3>2. Touches(d, tgt[d]) BY DEF Touches
    <3> QED BY <1>1, <3>1, <3>2 DEF Book, Private
  <2>5. \A d \in Cmds : d # c => Course(d)'
    BY <2>1, <2>2, <2>3, <2>4, Elsewhere DEF Only
  <2>6. Course(c)' BY <1>2, <2>1, <2>2 DEF Course
  <2>7. Private'
    <3>1. \A d \in Cmds : Touches(d, tgt[c]) => d = c BY <1>1 DEF Book, Private
    <3>2. rec[tgt[c]] = "none" BY <1>2 DEF Book, Honest, Recorded
    <3> QED BY <1>2, <1>3, <2>2, <2>3, <3>1, <3>2, OpenerStep
  <2>8. Honest' BY <1>2, <1>3, <2>1 DEF Book, Honest, Recorded
  <2>9. Findable'
    <3> SUFFICES ASSUME NEW j \in Ids, place[j] = "host", Running(j)', j \notin due,
                        j \notin strays
                 PROVE  Live(j)' \/ Opening(j)'
      BY <1>3 DEF Findable
    <3>1. CASE j = tgt[c] BY <2>2, <3>1 DEF Opening
    <3>2. CASE j # tgt[c]
      <4>1. Live(j) \/ Opening(j) BY <2>1, <3>2 DEF Book, Findable, Running
      <4> QED BY <1>1, <1>3, <2>2, <4>1 DEF Live, Opening, Only
    <3> QED BY <3>1, <3>2
  <2>10. OneEnginePerBox'
    <3> SUFFICES ASSUME box, NEW j \in Ids, place[j] = "box", Running(j)'
                 PROVE  svc' = j
      BY <1>3 DEF OneEnginePerBox
    <3>1. CASE j = tgt[c] BY <2>1, <3>1
    <3>2. CASE j # tgt[c]
      <4>1. Running(j) /\ svc = j
        BY <2>1, <3>2 DEF Book, OneEnginePerBox, Running
      <4>2. svc # None BY <4>1, IdsAssumption
      <4>3. ServiceAlive BY <4>1, <4>2 DEF ServiceAlive
      <4> QED BY <1>5, <2>1, <4>1, <4>3 DEF MaySpawn
    <3> QED BY <3>1, <3>2
  <2> QED BY <2>5, <2>6, <2>7, <2>8, <2>9, <2>10 DEF Book, OnCourse
<1> QED BY <1>4, <1>5

\* Engines that end, and nothing else that the books speak of.
LEMMA Stopping ==
  ASSUME TypeInv, Book, NEW i \in Ids, StopEngine(i), UNCHANGED <<rec, place, due>>
  PROVE  /\ Onward /\ Unstarted /\ Honest' /\ OneEnginePerBox'
         /\ \A j \in Ids : Running(j)' => Running(j)
         /\ place[i] = "host" /\ engine[i] # "none" => engine'[i] = "dead"
         /\ place[i] = "box" /\ box /\ engine[i] # "none" => engine'[i] = "dead"
<1>1. SharedOK BY Parts
<1>2. \A j \in Ids : /\ engine'[j] \in {engine[j], "dead"}
                     /\ engine[j] \notin {"starting", "up"} => engine'[j] = engine[j]
                     /\ j \in StopHits(i) => ~Running(j)'
  BY <1>1 DEF StopEngine, SharedOK, Running
<1>3. box' = box /\ svc' = IF place[i] = "box" THEN None ELSE svc
  BY DEF StopEngine
<1>4. Onward /\ Unstarted BY <1>2 DEF Onward, Unstarted
<1>5. Honest' BY <1>2 DEF Book, Honest, Recorded
<1>6. \A j \in Ids : Running(j)' => Running(j) BY <1>2 DEF Running
<1>7. place[i] = "host" /\ engine[i] # "none" => engine'[i] = "dead"
  BY <1>1, <1>2 DEF StopHits, Running, SharedOK
<1>8. \A j \in Ids : place[i] = "box" /\ box /\ place[j] = "box" => ~Running(j)'
  <2> SUFFICES ASSUME NEW j \in Ids, place[i] = "box", box, place[j] = "box", Running(j)'
               PROVE  FALSE
    OBVIOUS
  <2>1. svc = j BY <1>6 DEF Book, OneEnginePerBox
  <2>2. j \in StopHits(i) BY <2>1, IdsAssumption DEF StopHits
  <2> QED BY <1>2, <2>2
<1>9. place[i] = "box" /\ box /\ engine[i] # "none" => engine'[i] = "dead"
  BY <1>1, <1>2, <1>8 DEF Running, SharedOK
<1>10. OneEnginePerBox'
  BY <1>3, <1>6, <1>8 DEF OneEnginePerBox, Book
<1> QED BY <1>4, <1>5, <1>6, <1>7, <1>9, <1>10

LEMMA GiveUpBook ==
  ASSUME TypeInv, Book, NEW c \in Cmds, GiveUp(c), UNCHANGED strays
  PROVE  Book'
<1>1. LocalOK /\ SharedOK /\ Course(c) /\ pc[c] = "await"
  BY Parts DEF Book, OnCourse, GiveUp, At
<1>2. PICK i \in Ids : i = tgt[c] /\ engine[i] # "none"
  BY <1>1, Target DEF Unaimed, Course, Begun
<1>3. Only(c) /\ pc'[c] = "bury" /\ tgt'[c] = i
  BY <1>1, <1>2 DEF GiveUp, Goto, LocalOK, Only
<1>4. UNCHANGED <<rec, place, due>> BY DEF GiveUp, registry
<1>7. Tied(c) /\ Written(c)
  BY <1>1, <1>2, <1>3, <1>4, TiedHere DEF Begun, Written
<1>5. CASE StopEngine(i)
  <2>1. /\ Onward /\ Unstarted /\ Honest' /\ OneEnginePerBox'
        /\ \A j \in Ids : Running(j)' => Running(j)
        /\ place[i] = "host" => engine'[i] = "dead"
    BY <1>2, <1>4, <1>5, Stopping
  <2>2. engine'[i] # "none" BY <1>2, <2>1 DEF Onward
  <2>3. Course(c)' BY <1>3, <1>4, <2>1, <2>2 DEF Course
  <2>4. OnCourse' /\ Private' BY <1>3, <1>7, <2>1, <2>3, CourseKept
  <2>5. Findable' BY <1>1, <1>3, <1>4, <2>1, FoundKept DEF Live
  <2> QED BY <2>1, <2>4, <2>5 DEF Book
<1>6. CASE ~CanStop(i) /\ UNCHANGED engines
  <2>1. Calmly BY <1>4, <1>6 DEF Calmly, engines
  <2>2. place[i] = "box" BY <1>6 DEF CanStop
  <2>3. Course(c)' BY <1>2, <1>3, <2>1, <2>2 DEF Course, Calmly
  <2> QED BY <1>1, <1>3, <1>7, <2>1, <2>3, CalmStep
<1> QED BY <1>2, <1>5, <1>6 DEF GiveUp

LEMMA StopBook ==
  ASSUME TypeInv, Book, NEW c \in Cmds, Stop(c), UNCHANGED strays
  PROVE  Book'
<1>1. LocalOK /\ SharedOK /\ Course(c) /\ pc[c] = "stop"
  BY Parts DEF Book, OnCourse, Stop, At
<1>2. PICK i \in Ids : i = tgt[c] /\ engine[i] # "none"
  BY <1>1, Target DEF Unaimed, Course, Begun
<1>3. UNCHANGED <<rec, place, due>> BY DEF Stop, registry
<1>4. place[i] \in AllPlaces
  BY <1>1, <1>2 DEF Book, Honest, Recorded, SharedOK
<1>5. \/ Return(c) /\ ~CanStop(i)
      \/ \E next \in {"erase", "end"} :
           Goto(c, next) /\ Stay /\ (next = "end" => CanStop(i))
  BY <1>2 DEF Stop
<1>6. \/ Only(c) /\ pc'[c] \in Free /\ ~CanStop(i)
      \/ /\ Only(c) /\ pc'[c] \in {"erase", "end"} /\ tgt'[c] = i
         /\ pc'[c] = "end" => CanStop(i)
  BY <1>1, <1>2, <1>5, ReturnFree, MoveTo DEF Labels
<1>9. pc'[c] \notin Free => Tied(c)
  BY <1>1, <1>2, <1>6, TiedHere DEF Begun
<1>10. Written(c) BY <1>3 DEF Written
<1>7. CASE CanStop(i)
  <2>1. StopEngine(i) BY <1>2, <1>7 DEF Stop
  <2>2. /\ Onward /\ Unstarted /\ Honest' /\ OneEnginePerBox'
        /\ \A j \in Ids : Running(j)' => Running(j)
        /\ place[i] = "host" => engine'[i] = "dead"
        /\ place[i] = "box" /\ box => engine'[i] = "dead"
    BY <1>2, <1>3, <2>1, Stopping
  <2>3. engine'[i] = "dead" BY <1>4, <1>7, <2>2 DEF CanStop, AllPlaces
  <2>4. Only(c) /\ pc'[c] \in {"erase", "end"} /\ tgt'[c] = i
    BY <1>6, <1>7
  <2>5. Course(c)' /\ Tied(c) BY <1>9, <2>3, <2>4 DEF Course, Free, Begun
  <2>6. OnCourse' /\ Private' BY <1>10, <2>2, <2>4, <2>5, CourseKept
  <2>7. Findable' BY <1>1, <1>3, <2>2, <2>4, FoundKept DEF Live
  <2> QED BY <2>2, <2>6, <2>7 DEF Book
<1>8. CASE ~CanStop(i)
  <2>1. Calmly BY <1>2, <1>3, <1>8 DEF Stop, Calmly, engines
  <2>2. CASE pc'[c] \in Free
    BY <1>1, <1>6, <2>1, <2>2, FreeCourse, CalmStep
  <2>3. CASE pc'[c] = "erase" /\ tgt'[c] = i
    <3>1. place[i] = "box" BY <1>8 DEF CanStop
    <3>2. Course(c)' BY <1>2, <2>1, <2>3, <3>1 DEF Course, Calmly
    <3>3. Tied(c) BY <1>9, <2>3 DEF Free, Begun
    <3> QED BY <1>1, <1>6, <2>1, <2>3, <3>2, <3>3, CalmStep
  <2> QED BY <1>6, <1>8, <2>2, <2>3
<1> QED BY <1>7, <1>8

\* The directory goes; what it told of an engine was that it is dead, or due.
LEMMA EraseBook ==
  ASSUME TypeInv, Book, NEW c \in Cmds, Erase(c), UNCHANGED strays
  PROVE  Book'
<1>1. LocalOK /\ SharedOK /\ Course(c) /\ pc[c] = "erase"
  BY Parts DEF Book, OnCourse, Erase, At
<1>2. PICK i \in Ids : /\ i = tgt[c]
                       /\ place[i] = "host" => engine[i] = "dead" \/ i \in due
  BY <1>1, Target DEF Unaimed, Course
<1>3. /\ UNCHANGED <<place, engine, svc, box, due>>
      /\ \A j \in Ids : rec'[j] = IF j = i THEN "none" ELSE rec[j]
  BY <1>1, <1>2 DEF Erase, SharedOK
<1>4. Return(c) \/ (Goto(c, "forget") /\ Stay) BY DEF Erase
<1>5. Only(c) /\ pc'[c] \in Free
  BY <1>1, <1>4, ReturnFree, MoveTo DEF Free, Labels, Begun
<1>6. Onward /\ Unstarted BY <1>3 DEF Onward, Unstarted
<1>11. Written(c) BY <1>1, <1>2, <1>3 DEF Written, Touches, Begun
<1>7. OnCourse' /\ Private' BY <1>5, <1>6, <1>11, FreeCourse, CourseKept
<1>8. Honest' BY <1>3 DEF Book, Honest, Recorded
<1>9. Findable' BY <1>1, <1>2, <1>3, <1>5, FoundKept DEF Running, Live
<1>10. OneEnginePerBox' BY <1>3 DEF Book, OneEnginePerBox, Running
<1> QED BY <1>7, <1>8, <1>9, <1>10 DEF Book

LEMMA UnboxBook ==
  ASSUME TypeInv, Book, NEW c \in Cmds, Unbox(c), UNCHANGED strays
  PROVE  Book'
<1>1. LocalOK /\ SharedOK /\ pc[c] = "unbox" BY Parts DEF Unbox, At
<1>2. UNCHANGED <<rec, place, due>> BY DEF Unbox, registry
<1>3. CASE ~box
  <2>1. Calmly /\ Return(c) BY <1>2, <1>3 DEF Unbox, Calmly
  <2> QED BY <1>1, <2>1, ReturnFree, FreeCourse, CalmStep
<1>4. CASE box
  <2>1. \A j \in Ids : /\ engine'[j] \in {engine[j], "dead"}
                       /\ engine[j] \notin {"starting", "up"} => engine'[j] = engine[j]
    BY <1>1, <1>4 DEF Unbox, SharedOK, Running
  <2>2. /\ box' = FALSE /\ Only(c) /\ pc'[c] = "evict"
        /\ todo'[c] = {i \in Ids : Live(i) /\ place[i] = "box"}
    BY <1>1, <1>4 DEF Unbox, Goto, LocalOK, Only
  <2>3. Onward /\ Unstarted BY <1>2, <2>1 DEF Onward, Unstarted
  <2>4. \A i \in todo'[c] : i \in Ids /\ place[i] = "box" /\ engine[i] # "none"
    BY <2>2 DEF Book, Honest, Recorded, Live
  <2>5. Course(c)' BY <1>2, <2>1, <2>2, <2>4 DEF Course, Begun
  <2>10. Tied(c) /\ Written(c)
    BY <1>2, <2>2 DEF Tied, Touches, Live, Begun, Written
  <2>6. OnCourse' /\ Private' BY <2>2, <2>3, <2>5, <2>10, CourseKept
  <2>7. Honest' BY <1>2, <2>1 DEF Book, Honest, Recorded
  <2>8. Findable' BY <1>1, <1>2, <2>1, <2>2, FoundKept DEF Running, Live
  <2>9. OneEnginePerBox' BY <2>2 DEF OneEnginePerBox
  <2> QED BY <2>6, <2>7, <2>8, <2>9 DEF Book
<1> QED BY <1>3, <1>4

LEMMA AroundBook ==
  ASSUME TypeInv, Book, NEW i \in Ids, Serve(i) \/ Crash(i) \/ TimePasses(i)
  PROVE  Book'
<1>1. LocalOK /\ SharedOK BY Parts
<1>2. UNCHANGED <<rec, place, svc, box, pc, tgt, todo, strays>>
  BY DEF Serve, Crash, TimePasses, registry, engines, local
<1>3. /\ \A j \in Ids : /\ Running(j)' => Running(j)
                        /\ engine[j] = "none" <=> engine'[j] = "none"
                        /\ engine[j] = "dead" => engine'[j] = "dead"
      /\ due \subseteq due'
  BY <1>1 DEF Serve, Crash, TimePasses, engines, SharedOK, Running
<1>4. Onward /\ Unstarted BY <1>2, <1>3 DEF Onward, Unstarted
<1>5. OnCourse'
  <2> SUFFICES ASSUME NEW d \in Cmds PROVE Course(d)' BY DEF OnCourse
  <2>1. pc[d] = "spawn" => tgt[d] \in Ids /\ engine[tgt[d]] = "none"
    BY <1>1 DEF Book, OnCourse, Course, LocalOK, Unaimed
  <2> QED BY <1>2, <1>4, <2>1, Elsewhere DEF Unstarted
<1>6. Private'
  <2>1. \A d \in Cmds : \A j : Touches(d, j)' <=> Touches(d, j) BY <1>2 DEF Touches
  <2>2. \A d, e \in Cmds : Touches(e, tgt[d])' <=> Touches(e, tgt[d]) BY <1>2 DEF Touches
  <2>3. strays \subseteq Ids BY Parts DEF StraysOK
  <2> QED BY <1>2, <1>3, <2>1, <2>2, <2>3 DEF Book, Private
<1>7. Honest' BY <1>2, <1>3 DEF Book, Honest, Recorded
<1>8. Findable' BY <1>2, <1>3 DEF Book, Findable, Opening, Live
<1>9. OneEnginePerBox' BY <1>2, <1>3 DEF Book, OneEnginePerBox
<1> QED BY <1>5, <1>6, <1>7, <1>8, <1>9 DEF Book

\* A command cut short leaves what it was at.  Before its record that is an
\* engine nobody else knows of.
LEMMA CutBook ==
  ASSUME TypeInv, Book, NEW c \in Cmds, Cut(c)
  PROVE  Book'
<1>1. LocalOK /\ strays \subseteq Ids BY Parts DEF StraysOK
<1>2. Return(c) /\ UNCHANGED <<rec, place, engine, svc, box, due>>
  BY DEF Cut, Unrecorded, Killed, registry, engines
<1>3. strays' = IF pc[c] = "register" THEN strays \cup {tgt[c]} ELSE strays
  BY DEF Cut, Unrecorded, Killed, At
<1>4. Only(c) /\ pc'[c] \in Free /\ Course(c)' /\ Tied(c)
  BY <1>1, <1>2, ReturnFree, FreeCourse
<1>5. CASE pc[c] # "register"
  BY <1>2, <1>3, <1>4, <1>5, CalmStep DEF Calmly
<1>6. CASE pc[c] = "register"
  <2> DEFINE i == tgt[c]
  <2>1. i \in Ids /\ rec[i] = "none" /\ engine[i] # "none"
    BY <1>1, <1>6, Target DEF Book, OnCourse, Course, Begun, Private, Unaimed
  <2>2. \A d \in Cmds : Touches(d, i) => d = c BY <1>6 DEF Book, Private
  <2>3. /\ \A d \in Cmds : d # c => /\ pc'[d] = pc[d] /\ tgt'[d] = tgt[d]
                                   /\ \A j : Touches(d, j)' <=> Touches(d, j)
        /\ \A j : ~Touches(c, j)' /\ pc'[c] \notin {"spawn", "register"}
    BY <1>4 DEF Only, Touches, Free, Begun
  <2>4. OnCourse'
    <3> SUFFICES ASSUME NEW d \in Cmds PROVE Course(d)' BY DEF OnCourse
    <3>1. Onward BY <1>2 DEF Onward
    <3>2. pc[d] = "spawn" => engine[tgt[d]] = "none" BY DEF Book, OnCourse, Course
    <3> QED BY <1>2, <1>4, <3>1, <3>2, Elsewhere DEF Only
  <2>5. Private'
    <3>1. ASSUME NEW d \in Cmds, NEW e \in Cmds, pc'[d] \in {"spawn", "register"},
                 Touches(e, tgt[d])'
          PROVE  d = e
      <4>1. d # c /\ pc[d] \in {"spawn", "register"} /\ tgt'[d] = tgt[d] BY <2>3, <3>1
      <4>2. e # c BY <2>3, <3>1, <4>1 DEF Touches
      <4>3. Touches(e, tgt[d]) BY <2>3, <3>1, <4>1, <4>2 DEF Touches
      <4> QED BY <4>1, <4>3 DEF Book, Private
    <3>2. ASSUME NEW d \in Cmds, pc'[d] = "register" PROVE rec'[tgt'[d]] = "none"
      BY <1>2, <2>3, <3>2 DEF Book, Private
    <3>3. ASSUME NEW j \in strays'
          PROVE  rec'[j] = "none" /\ engine'[j] # "none" /\ \A d \in Cmds : ~Touches(d, j)'
      <4>1. rec[j] = "none" /\ engine[j] # "none" /\ \A d \in Cmds : Touches(d, j) => d = c
        BY <1>3, <1>6, <2>1, <2>2, <3>3 DEF Book, Private
      <4> QED BY <1>2, <2>3, <4>1
    <3> QED BY <3>1, <3>2, <3>3 DEF Private
  <2>6. Honest' BY <1>2 DEF Book, Honest, Recorded
  <2>7. Findable'
    <3> SUFFICES ASSUME NEW j \in Ids, place[j] = "host", Running(j), j \notin due,
                        j \notin strays, j # i
                 PROVE  Live(j)' \/ Opening(j)'
      BY <1>2, <1>3, <1>6 DEF Findable, Running
    <3>1. Live(j) \/ Opening(j) BY DEF Book, Findable
    <3>2. Live(j)' <=> Live(j) BY <1>2 DEF Live
    <3>3. Opening(j) => Opening(j)' BY <2>3 DEF Opening
    <3> QED BY <3>1, <3>2, <3>3
  <2>8. OneEnginePerBox' BY <1>2 DEF Book, OneEnginePerBox, Running
  <2> QED BY <2>4, <2>5, <2>6, <2>7, <2>8 DEF Book
<1> QED BY <1>5, <1>6

LEMMA MoveBook ==
  ASSUME TypeInv, Book, NEW c \in Cmds, Move(c), UNCHANGED strays
  PROVE  Book'
<1>1. \/ \E i \in Ids : Expire(c, i)
      \/ \E i \in Ids, p \in Places : Mint(c, i, p)
      \/ Quiet(c) \/ Bury(c) \/ Moved(c) \/ Close(c) \/ Snapped(c) \/ Release(c)
      \/ Clear(c) \/ Take(c) \/ HandBack(c)
      \/ Resolve(c) \/ Unpoint(c) \/ Spawn(c) \/ Register(c) \/ Point(c) \/ GiveUp(c)
      \/ Stop(c) \/ Erase(c) \/ Unbox(c) \/ Evict(c)
  BY DEF Move, Quiet
<1> QED BY <1>1, ExpireBook, MintBook, QuietBook, EndingBook, AsideBook, ResolveBook,
           SpawnBook, RegisterBook, GiveUpBook, StopBook, EraseBook, UnboxBook, EvictBook

Inv == TypeInv /\ Book

LEMMA InitInv == Init => Inv
<1> SUFFICES ASSUME Init PROVE Book BY InitType DEF Inv
<1>1. OnCourse /\ Private BY DEF Init, OnCourse, Private, Course, Begun, Touches
<1>2. Honest BY DEF Init, Honest, Recorded
<1>3. Findable /\ OneEnginePerBox BY DEF Init, Findable, OneEnginePerBox, Running
<1> QED BY <1>1, <1>2, <1>3 DEF Book

LEMMA NextInv == Inv /\ [Next]_vars => Inv'
<1> SUFFICES ASSUME TypeInv, Book, [Next]_vars PROVE Book' BY NextType DEF Inv
<1>1. AgentVerbs \cup OperatorVerbs \subseteq AllVerbs /\ Cmds = Agents \cup Operators
  BY ChoiceAssumption DEF Cmds
<1>2. CASE UNCHANGED vars
  BY <1>2 DEF vars, Book, OnCourse, Course, Private, Touches, Honest, Recorded, Findable,
              Running, Live, Opening, OneEnginePerBox
<1>3. CASE \E c \in Cmds, v \in AllVerbs, i \in Ids \cup {None} : Begin(c, v, i)
  BY <1>3, BeginBook
<1>4. CASE \E c \in Cmds : Move(c) /\ UNCHANGED strays BY <1>4, MoveBook
<1>5. CASE \E i \in Ids : Serve(i) \/ Crash(i) \/ TimePasses(i) BY <1>5, AroundBook
<1>6. CASE \E c \in Cmds : Cut(c) BY <1>6, CutBook
<1> QED BY <1>1, <1>2, <1>3, <1>4, <1>5, <1>6 DEF Next, Step, Cut

LEMMA Kept == Spec => []Inv
  BY InitInv, NextInv, PTL DEF Spec

-----------------------------------------------------------------------------
(* What is kept. *)

\* An engine on the host that runs and is within its time can be found by its
\* record or by the command that is about to write it, unless that command was
\* cut short before it could; for any number of commands that open, close,
\* remove and expire sessions, and are killed anywhere.
THEOREM NoneLost == Spec => []NoOrphans
<1>1. Inv => NoOrphans BY DEF Inv, Book, Findable, Private, NoOrphans
<1> QED BY <1>1, Kept, PTL

\* A session recorded as closed has no engine, nor has one on the host that is
\* recorded as dead.
THEOREM StopsAreReal == Spec => []StopIsReal
<1>1. Inv => StopIsReal BY DEF Inv, Book, Honest, Recorded, StopIsReal, Running
<1> QED BY <1>1, Kept, PTL

\* A box runs one engine at a time, the one its service record stands for.
THEOREM OneEngine == Spec => []OneEnginePerBox
<1>1. Inv => OneEnginePerBox BY DEF Inv, Book
<1> QED BY <1>1, Kept, PTL
=============================================================================
