------------------------- MODULE ShareSessionProofs -------------------------
(***************************************************************************)
(* Proofs about ShareSession, for any number of shares, commands and       *)
(* grants, under every fault.                                              *)
(***************************************************************************)
EXTENDS ShareSession, TLAPS

(* A share that has tried to mark its record as often as it may has left    *)
(* the winding up behind: what bounds `tries`.                              *)
Late == {"teardown", "receipt", "clear", "cleardelete", "leaving"} \cup Ended
Patience == \A p \in Serves : pc[p] \notin Late => tries[p] < WindingUpAttempts

(* Nobody is left with the erased share.lock open unless the history says  *)
(* so.                                                                     *)
Unwaited == ~old.raced => old.open = {}

TypeInv == TypeOK /\ Patience /\ Unwaited

Labels == PcServe \cup PcOp \cup PcVerb

-----------------------------------------------------------------------------
(* Types of the helpers.                                                    *)

LEMMA RecordTypes ==
  /\ Gone \in Record /\ Unreadable \in Record
  /\ \A p \in Serves : Claimed(p) \in Record
  BY DEF Gone, Unreadable, Claimed, Blank, Record, Owners

(* What a holder makes of the record it read is a record. *)
LEMMA EditTypes ==
  ASSUME NEW r \in Record, NEW g \in Grants
  PROVE  /\ [r EXCEPT !.starting = FALSE, !.grants = @ \cup {g}] \in Record
         /\ [r EXCEPT !.grants = @ \cup {g}] \in Record
         /\ [r EXCEPT !.revoked = @ \cup {g}] \in Record
         /\ [r EXCEPT !.winding = TRUE] \in Record
         /\ Stopped(r) \in Record
  BY DEF Record, Stopped

LEMMA FreedTypes ==
  ASSUME TypeOK, NEW x \in Procs
  PROVE  Freed(x) \in Procs \cup {NoOne} /\ GateFreed(x) \in Procs \cup {NoOne}
  BY DEF TypeOK, Freed, GateFreed

(* What a step may do to the share.lock that `rm` erased: nothing, close it, *)
(* or take it.  The history of a race is never forgotten, and begins when   *)
(* the file is erased.                                                      *)
Touches(x) == UNCHANGED old \/ GiveUp(x) \/ old' = OldFreed(x) \/ TakeLock(x)

OldMoves ==
  /\ old' \in [holder: Procs \cup {NoOne}, open: SUBSET Procs, raced: BOOLEAN]
  /\ old.raced => old'.raced
  /\ old'.raced => old.raced \/ \E v \in Verbs : Erase(v)
  /\ Unwaited'

LEMMA TouchMoves ==
  ASSUME TypeInv, NEW x \in Procs, Touches(x)
  PROVE  OldMoves
<1>1. old \in [holder: Procs \cup {NoOne}, open: SUBSET Procs, raced: BOOLEAN]
  BY DEF TypeInv, TypeOK
<1>2. \/ old' = old \/ old' = [old EXCEPT !.open = @ \ {x}]
      \/ old' = [old EXCEPT !.open = @ \ {x}, !.holder = IF @ = x THEN NoOne ELSE @]
      \/ old' = [old EXCEPT !.holder = x]
  BY DEF Touches, GiveUp, OldFreed, TakeLock
<1>3. old' \in [holder: Procs \cup {NoOne}, open: SUBSET Procs, raced: BOOLEAN]
  BY <1>1, <1>2
<1>4. old'.raced = old.raced /\ old'.open \subseteq old.open
  BY <1>1, <1>2
<1> QED BY <1>3, <1>4 DEF OldMoves, TypeInv, Unwaited

LEMMA ServeTouches ==
  ASSUME NEW p \in Serves, StartShare(p) \/ ServeStep(p) \/ Signalled(p)
  PROVE  Touches(p)
<1>1. CASE StartShare(p) \/ OpenGate(p) \/ TakeGate(p) \/ GateTimesOut(p)
  BY <1>1 DEF Touches, StartShare, OpenGate, TakeGate, GateTimesOut, disk
<1>2. CASE \/ SetUp(p) \/ StillOurs(p) \/ Announce(p) \/ NoticeSpent(p)
           \/ NoticeBoxGone(p) \/ TearDown(p) \/ WriteReceipt(p) \/ Exit(p)
           \/ ServeEnds(p) \/ Interrupted(p)
  BY <1>2 DEF Touches, SetUp, StillOurs, Announce, NoticeSpent, NoticeBoxGone, TearDown,
     WriteReceipt, Exit, ServeEnds, Interrupted, disk
<1>3. CASE ClaimRead(p) \/ OpenRead(p) \/ WindUpRead(p) \/ ClearRead(p) \/ HardCheck(p)
  BY <1>3 DEF Touches, ClaimRead, OpenRead, WindUpRead, ClearRead, HardCheck, Prepare, Leave
<1>4. CASE \/ ClaimWrite(p) \/ OpenWrite(p) \/ WindUpWrite(p) \/ ClearDelete(p)
           \/ HardDelete(p)
  BY <1>4 DEF Touches, ClaimWrite, OpenWrite, WindUpWrite, ClearDelete, HardDelete, Leave
<1> QED BY <1>1, <1>2, <1>3, <1>4 DEF ServeStep, Signalled

LEMMA OpTouches ==
  ASSUME NEW o \in Ops, StartOp(o) \/ OpStep(o)
  PROVE  Touches(o)
<1>1. CASE StartOp(o) \/ StopPeek(o) \/ RevokeLook(o)
  BY <1>1 DEF Touches, StartOp, StopPeek, RevokeLook, disk
<1>2. CASE OpRefused(o) \/ GrantRead(o) \/ RevokeRead(o) \/ StopRead(o) \/ ForceLock(o)
  BY <1>2 DEF Touches, OpRefused, GrantRead, RevokeRead, StopRead, ForceLock, Prepare
<1>3. CASE OpWrite(o) \/ ForceDelete(o) \/ ForceLook(o)
  BY <1>3 DEF Touches, OpWrite, ForceDelete, ForceLook, Leave
<1> QED BY <1>1, <1>2, <1>3 DEF OpStep

LEMMA VerbMoves ==
  ASSUME TypeInv, NEW v \in Verbs, StartVerb(v) \/ VerbStep(v)
  PROVE  OldMoves
<1>0. v \in Procs
  BY DEF Procs
<1>1. CASE StartVerb(v) \/ OpenGate(v) \/ TakeGate(v) \/ GateTimesOut(v)
  <2>1. Touches(v)
    BY <1>1 DEF Touches, StartVerb, OpenGate, TakeGate, GateTimesOut, disk
  <2> QED BY <1>0, <2>1, TouchMoves
<1>2. CASE VerbDecide(v) \/ VerbWork(v)
  <2>1. Touches(v)
    BY <1>2 DEF Touches, VerbDecide, VerbWork, Leave
  <2> QED BY <1>0, <2>1, TouchMoves
<1>3. CASE Erase(v)
  <2>1. PICK xs \in SUBSET Waiting :
          old' = [holder |-> lock, open |-> xs, raced |-> old.raced \/ xs # {}]
    BY <1>3 DEF Erase
  <2>2. xs \in SUBSET Procs /\ lock \in Procs \cup {NoOne} /\ old.raced \in BOOLEAN
    BY DEF Waiting, Procs, TypeInv, TypeOK
  <2>3. (old.raced \/ xs # {}) \in BOOLEAN
    OBVIOUS
  <2>4. /\ old' \in [holder: Procs \cup {NoOne}, open: SUBSET Procs, raced: BOOLEAN]
        /\ old'.open = xs /\ old'.raced = (old.raced \/ xs # {})
    BY <2>1, <2>2, <2>3
  <2> QED BY <1>3, <2>4 DEF OldMoves, Unwaited
<1> QED BY <1>1, <1>2, <1>3 DEF VerbStep

LEMMA SurroundingsMove ==
  ASSUME TypeInv, Surroundings
  PROVE  OldMoves
<1>1. CASE \/ BoxStops \/ BoxStarts \/ Corrupt
           \/ \E g \in Grants : Expire(g)
           \/ \E p \in Serves : Recycle(p)
  <2>1. UNCHANGED old
    BY <1>1 DEF BoxStops, BoxStarts, Corrupt, Expire, Recycle, disk
  <2> QED BY <2>1 DEF OldMoves, TypeInv, TypeOK, Unwaited
<1>2. CASE \E x \in Procs : Kill(x)
  <2>1. PICK x \in Procs : Kill(x)
    BY <1>2
  <2>2. Touches(x)
    BY <2>1 DEF Touches, Kill, Leave
  <2> QED BY <2>2, TouchMoves
<1> QED BY <1>1, <1>2 DEF Surroundings

(* Whatever happens, a race for the erased lock file stays on record.       *)
LEMMA NextMoves == TypeInv /\ [Next]_vars => OldMoves
<1> SUFFICES ASSUME TypeInv, [Next]_vars PROVE OldMoves
  OBVIOUS
<1>1. CASE UNCHANGED vars
  BY <1>1 DEF vars, OldMoves, TypeInv, TypeOK, Unwaited
<1>2. CASE Next
  BY <1>2, ServeTouches, OpTouches, TouchMoves, VerbMoves, SurroundingsMove DEF Next, Procs
<1> QED BY <1>1, <1>2

(* One process moves on, whatever it does to share.json and the locks.      *)
LEMMA MoveTypes ==
  ASSUME TypeInv, OldMoves, NEW x \in Procs, NEW l \in Labels,
         pc' = [pc EXCEPT ![x] = l],
         x \in Serves => l \in Late \/ (pc[x] \notin Late /\ tries' = tries),
         rec' \in Record,
         lock' \in Procs \cup {NoOne}, gate' \in Procs \cup {NoOne},
         dir' \in BOOLEAN, removed' \in BOOLEAN, minted' \subseteq Grants,
         seen' \in [Procs -> Record],
         arg' \in [Ops -> Grants \cup {NoGrant}],
         cmd' \in [Ops \cup Verbs -> AllOps \cup AllVerbs \cup {"none"}],
         early' \in [Ops -> BOOLEAN],
         pinned' \in [Serves -> 0..MaxRoute],
         signal' \in [Serves -> {"none", "armed", "checked"}],
         tries' \in [Serves -> 0..WindingUpAttempts],
         \A p \in Serves \ {x} : tries'[p] = tries[p],
         announced' \subseteq Serves, receipts' \subseteq Serves,
         ans' \in [Ops -> [said : Said, owner : Owners]],
         UNCHANGED <<route, starts, expired, recycled>>
  PROVE  TypeInv'
<1>1. pc' \in [Procs -> Labels]
  BY DEF TypeInv, TypeOK, Labels
<1>2. TypeOK'
  BY <1>1 DEF OldMoves, TypeInv, TypeOK, Labels
<1>3. Patience'
  BY DEF TypeInv, TypeOK, Patience, Procs
<1> QED BY <1>2, <1>3 DEF TypeInv, OldMoves

(* One process takes the lock and prepares what it will write. *)
LEMMA PrepareTypes ==
  ASSUME TypeInv, OldMoves, NEW x \in Procs, NEW r \in Record, NEW l \in Labels,
         Prepare(x, r, l), x \in Serves => pc[x] \notin Late,
         minted' \subseteq Grants, arg' \in [Ops -> Grants \cup {NoGrant}],
         UNCHANGED <<rec, gate, dir, removed, route, starts, expired, recycled, cmd,
                     early, pinned, signal, tries, past>>
  PROVE  TypeInv'
  BY MoveTypes DEF Prepare, TakeLock, TypeInv, TypeOK, past

-----------------------------------------------------------------------------
(* Every action keeps the types.                                            *)

LEMMA GateTypes ==
  ASSUME TypeInv, OldMoves, NEW x \in Procs, OpenGate(x) \/ TakeGate(x) \/ GateTimesOut(x)
  PROVE  TypeInv'
<1>1. CASE OpenGate(x)
  BY <1>1, MoveTypes DEF OpenGate, Goto, TypeInv, TypeOK, world, local, past,
     Labels, PcServe, Late, Ended
<1>2. CASE TakeGate(x)
  BY <1>2, MoveTypes DEF TakeGate, TypeInv, TypeOK, world, local, past,
     Labels, PcServe, Late, Ended
<1>3. CASE GateTimesOut(x)
  BY <1>3, MoveTypes, ZenonT(60) DEF GateTimesOut, Goto, TypeInv, TypeOK, disk, world, local, past,
     Labels, PcServe, PcOp, Late, Ended
<1> QED BY <1>1, <1>2, <1>3

LEMMA ClaimTypes ==
  ASSUME TypeInv, OldMoves, NEW p \in Serves, StartShare(p) \/ ClaimRead(p) \/ ClaimWrite(p)
  PROVE  TypeInv'
<1>0. p \in Procs
  BY DEF Procs
<1>1. CASE StartShare(p)
  BY <1>0, <1>1, MoveTypes DEF StartShare, Goto, TypeInv, TypeOK, disk, world, past,
     Labels, PcServe, Late, Ended
<1>2. CASE ClaimRead(p)
  <2>1. CASE Prepare(p, Claimed(p), "claimwrite") /\ UNCHANGED gate
    BY <1>0, <1>2, <2>1, PrepareTypes, RecordTypes DEF ClaimRead, world, local, past, TypeInv,
       TypeOK, Labels, PcServe, Late, Ended
  <2>2. CASE Leave(p, "refused") /\ UNCHANGED seen
    BY <1>0, <1>2, <2>2, MoveTypes, FreedTypes DEF ClaimRead, Leave, TypeInv,
       TypeOK, world, local, past, Labels, PcServe, Late, Ended
  <2> QED BY <1>2, <2>1, <2>2 DEF ClaimRead
<1>3. CASE ClaimWrite(p)
  BY <1>0, <1>3, MoveTypes, FreedTypes DEF ClaimWrite, WriteBack, Leave, TypeInv,
     TypeOK, world, local, past, Labels, PcServe, Late, Ended
<1> QED BY <1>1, <1>2, <1>3

(* From the claim to the open door. *)
LEMMA SetUpTypes ==
  ASSUME TypeInv, OldMoves, NEW p \in Serves,
         \/ SetUp(p) \/ StillOurs(p) \/ OpenRead(p) \/ OpenWrite(p) \/ Announce(p)
  PROVE  TypeInv'
<1>0. p \in Procs
  BY DEF Procs
<1>1. CASE SetUp(p)
  BY <1>0, <1>1, MoveTypes DEF SetUp, Goto, disk, world, local, past, TypeInv, TypeOK,
     Labels, PcServe, Late, Ended
<1>2. CASE StillOurs(p)
  BY <1>0, <1>2, MoveTypes DEF StillOurs, Goto, disk, world, local, past, TypeInv, TypeOK,
     Labels, PcServe, Late, Ended
<1>3. CASE OpenRead(p)
  <2>1. CASE pc' = [pc EXCEPT ![p] = "clear"] /\ GiveUp(p) /\ UNCHANGED <<seen, minted>>
    BY <1>0, <1>3, <2>1, MoveTypes DEF OpenRead, GiveUp, local, past, TypeInv, TypeOK,
       Labels, PcServe, Late, Ended
  <2>2. CASE ~(pc' = [pc EXCEPT ![p] = "clear"] /\ GiveUp(p) /\ UNCHANGED <<seen, minted>>)
    <3>1. PICK g \in Grants :
            /\ minted' = minted \cup {g}
            /\ Prepare(p, [rec EXCEPT !.starting = FALSE, !.grants = @ \cup {g}],
                       "openwrite")
      BY <1>3, <2>2 DEF OpenRead
    <3>2. rec \in Record /\ minted' \subseteq Grants
      BY <3>1 DEF TypeInv, TypeOK
    <3>3. [rec EXCEPT !.starting = FALSE, !.grants = @ \cup {g}] \in Record
      BY <3>2, EditTypes
    <3> QED BY <1>0, <1>3, <3>1, <3>2, <3>3, PrepareTypes DEF OpenRead, local, past, TypeInv,
               TypeOK, Labels, PcServe, Late, Ended
  <2> QED BY <2>1, <2>2
<1>4. CASE OpenWrite(p)
  BY <1>0, <1>4, MoveTypes, FreedTypes DEF OpenWrite, WriteBack, Leave, world, local,
     past, TypeInv, TypeOK,
     Labels, PcServe, Late, Ended
<1>5. CASE Announce(p)
  BY <1>0, <1>5, MoveTypes DEF Announce, Goto, disk, world, local, past, TypeInv, TypeOK,
     Labels, PcServe, Late, Ended
<1> QED BY <1>1, <1>2, <1>3, <1>4, <1>5

(* The ways a share stops serving. *)
LEMMA EndTypes ==
  ASSUME TypeInv, OldMoves, NEW p \in Serves,
         \/ NoticeSpent(p) \/ NoticeBoxGone(p) \/ ServeEnds(p) \/ Interrupted(p)
  PROVE  TypeInv'
<1>0. p \in Procs
  BY DEF Procs
<1>1. CASE NoticeSpent(p)
  BY <1>0, <1>1, MoveTypes DEF NoticeSpent, Goto, disk, world, local, past, TypeInv, TypeOK,
     Labels, PcServe, Late, Ended
<1>2. CASE NoticeBoxGone(p)
  BY <1>0, <1>2, MoveTypes DEF NoticeBoxGone, Goto, disk, world, local, past, TypeInv, TypeOK,
     Labels, PcServe, Late, Ended
<1>3. CASE ServeEnds(p)
  BY <1>0, <1>3, MoveTypes DEF ServeEnds, Goto, disk, world, local, past, TypeInv, TypeOK,
     Labels, PcServe, Late, Ended
<1>4. CASE Interrupted(p)
  BY <1>0, <1>4, MoveTypes DEF Interrupted, Arm, Goto, disk, world, past, TypeInv, TypeOK,
     Labels, PcServe, Late, Ended
<1> QED BY <1>1, <1>2, <1>3, <1>4

(* Winding up. *)
LEMMA WindUpTypes ==
  ASSUME TypeInv, OldMoves, NEW p \in Serves,
         \/ WindUpRead(p) \/ WindUpWrite(p) \/ TearDown(p) \/ WriteReceipt(p)
         \/ ClearRead(p) \/ ClearDelete(p) \/ Exit(p) \/ HardCheck(p) \/ HardDelete(p)
  PROVE  TypeInv'
<1>0. p \in Procs
  BY DEF Procs
<1>1. CASE WindUpRead(p)
  <2>1. CASE Prepare(p, Mark(p), "windwrite") /\ UNCHANGED tries
    <3>1. Mark(p) \in Record
      BY EditTypes DEF Mark, TypeInv, TypeOK, Record
    <3> QED BY <1>0, <1>1, <2>1, <3>1, PrepareTypes DEF WindUpRead, world, past, TypeInv,
               TypeOK, Labels, PcServe, Late, Ended
  <2>2. CASE pc' = [pc EXCEPT ![p] = "teardown"] /\ GiveUp(p) /\ UNCHANGED <<seen, tries>>
    BY <1>0, <1>1, <2>2, MoveTypes DEF WindUpRead, GiveUp, world, past, TypeInv, TypeOK,
       Labels, PcServe, Late, Ended
  <2>3. CASE /\ tries' = [tries EXCEPT ![p] = @ + 1]
             /\ pc' = [pc EXCEPT ![p] = IF AttemptsLeft(p) THEN @ ELSE "teardown"]
             /\ GiveUp(p) /\ UNCHANGED seen
    <3>1. tries[p] < WindingUpAttempts /\ tries[p] \in Nat
      BY <1>1 DEF WindUpRead, TypeInv, TypeOK, Patience, Late, Ended
    <3>2. tries' \in [Serves -> 0..WindingUpAttempts]
      BY <2>3, <3>1, BoundAssumption DEF TypeInv, TypeOK
    <3>3. TypeOK'
      BY <1>0, <1>1, <2>3, <3>2 DEF WindUpRead, GiveUp, OldMoves, TypeInv, TypeOK, world, past, PcServe
    <3>4. pc'[p] \notin Late => tries'[p] < WindingUpAttempts
      BY <1>0, <2>3, <3>1, BoundAssumption DEF AttemptsLeft, TypeInv, TypeOK, Late
    <3>5. Patience'
      BY <1>0, <2>3, <3>4 DEF Patience, TypeInv, TypeOK
    <3> QED BY <3>3, <3>5 DEF TypeInv, OldMoves
  <2> QED BY <1>1, <2>1, <2>2, <2>3 DEF WindUpRead
<1>2. CASE WindUpWrite(p)
  BY <1>0, <1>2, MoveTypes, FreedTypes DEF WindUpWrite, WriteBack, Leave, world, local,
     past, TypeInv, TypeOK,
     Labels, PcServe, Late, Ended
<1>3. CASE TearDown(p)
  BY <1>0, <1>3, MoveTypes, ZenonT(60) DEF TearDown, Arm, Goto, disk, world, past, TypeInv, TypeOK,
     Labels, PcServe, Late, Ended
<1>4. CASE WriteReceipt(p)
  BY <1>0, <1>4, MoveTypes DEF WriteReceipt, Goto, disk, world, local, past, TypeInv, TypeOK,
     Labels, PcServe, Late, Ended
<1>5. CASE ClearRead(p)
  BY <1>0, <1>5, MoveTypes, SMTT(30) DEF ClearRead, TakeLock, GiveUp, world, local, past, TypeInv, TypeOK,
     Labels, PcServe, Late, Ended
<1>6. CASE ClearDelete(p)
  BY <1>0, <1>6, MoveTypes, FreedTypes, RecordTypes DEF ClearDelete, Leave, world, local,
     past, TypeInv, TypeOK,
     Labels, PcServe, Late, Ended
<1>7. CASE Exit(p)
  BY <1>0, <1>7, MoveTypes DEF Exit, Goto, disk, world, local, past, TypeInv, TypeOK,
     Labels, PcServe, Late, Ended
<1>8. CASE HardCheck(p)
  <2>1. CASE signal' = [signal EXCEPT ![p] = "checked"] /\ UNCHANGED <<pc, lock, old, gate>>
    BY <1>8, <2>1 DEF HardCheck, world, past, OldMoves, TypeInv, TypeOK, Patience
  <2>2. CASE Leave(p, "aborted") /\ UNCHANGED signal
    BY <1>0, <1>8, <2>2, MoveTypes, FreedTypes DEF HardCheck, Leave, world, past, TypeInv,
       TypeOK, Labels, PcServe, Late, Ended
  <2> QED BY <1>8, <2>1, <2>2 DEF HardCheck
<1>9. CASE HardDelete(p)
  BY <1>0, <1>9, MoveTypes, FreedTypes, RecordTypes DEF HardDelete, Leave, world, local,
     past, TypeInv, TypeOK,
     Labels, PcServe, Late, Ended
<1> QED BY <1>1, <1>2, <1>3, <1>4, <1>5, <1>6, <1>7, <1>8, <1>9

(* The commands on a share. *)
LEMMA OpTypes ==
  ASSUME TypeInv, OldMoves, NEW o \in Ops,
         \/ StartOp(o) \/ StopPeek(o) \/ OpRefused(o) \/ GrantRead(o) \/ RevokeRead(o)
         \/ StopRead(o) \/ OpWrite(o) \/ RevokeLook(o) \/ ForceLock(o)
         \/ ForceDelete(o) \/ ForceLook(o)
  PROVE  TypeInv'
<1>0. o \in Procs /\ o \notin Serves
  BY ProcsAssumption DEF Procs
<1>1. CASE StartOp(o)
  <2>1. PICK c \in OpCommands :
          /\ cmd' = [cmd EXCEPT ![o] = c]
          /\ Goto(o, "idle", IF c = "stop" THEN "peek" ELSE "lock")
          /\ \E g \in IF c = "revoke" THEN minted ELSE {NoGrant} :
               arg' = [arg EXCEPT ![o] = g]
    BY <1>1 DEF StartOp
  <2>2. arg' \in [Ops -> Grants \cup {NoGrant}]
    BY <2>1 DEF TypeInv, TypeOK
  <2>3. cmd' \in [Ops \cup Verbs -> AllOps \cup AllVerbs \cup {"none"}]
    BY <2>1, ChoiceAssumption DEF TypeInv, TypeOK
  <2>4. PICK l \in {"peek", "lock"} : pc' = [pc EXCEPT ![o] = l]
    BY <2>1 DEF Goto
  <2> QED BY <1>0, <1>1, <2>2, <2>3, <2>4, MoveTypes DEF StartOp, disk, world, past,
             TypeInv, TypeOK, Labels, PcOp
<1>2. CASE StopPeek(o)
  BY <1>0, <1>2, MoveTypes DEF StopPeek, Goto, disk, world, past, Record, TypeInv, TypeOK,
     Labels, PcOp
<1>3. CASE OpRefused(o)
  BY <1>0, <1>3, MoveTypes DEF OpRefused, GiveUp, Goto, world, local, past, TypeInv, TypeOK,
     Labels, PcOp
<1>4. CASE GrantRead(o)
  <2>1. PICK g \in Grants :
          /\ minted' = minted \cup {g}
          /\ arg' = [arg EXCEPT ![o] = g]
          /\ Prepare(o, [rec EXCEPT !.grants = @ \cup {g}], "write")
    BY <1>4 DEF GrantRead
  <2>2. /\ rec \in Record /\ minted' \subseteq Grants
        /\ arg' \in [Ops -> Grants \cup {NoGrant}]
    BY <2>1 DEF TypeInv, TypeOK
  <2>3. [rec EXCEPT !.grants = @ \cup {g}] \in Record
    BY <2>2, EditTypes
  <2> QED BY <1>0, <1>4, <2>1, <2>2, <2>3, PrepareTypes DEF GrantRead, past, Labels, PcOp
<1>5. CASE RevokeRead(o)
  <2>1. rec \in Record /\ arg[o] \in Grants \cup {NoGrant}
    BY DEF TypeInv, TypeOK
  <2>2. [rec EXCEPT !.revoked = @ \cup {arg[o]}] \in Record
    BY <1>5, <2>1, EditTypes, RecordTypes, ZenonT(60) DEF RevokeRead, Record
  <2> QED BY <1>0, <1>5, <2>2, PrepareTypes DEF RevokeRead, world, local, past, TypeInv, TypeOK,
             Labels, PcOp
<1>6. CASE StopRead(o)
  <2>1. rec \in Record
    BY DEF TypeInv, TypeOK
  <2>2. Stopped(rec) \in Record /\ Gone \in Record
    BY <2>1, RecordTypes DEF Stopped, Record
  <2>3. PICK r \in Record : Prepare(o, r, "write")
    BY <1>6, <2>2 DEF StopRead
  <2> QED BY <1>0, <1>6, <2>3, PrepareTypes DEF StopRead, world, local, past, TypeInv, TypeOK,
             Labels, PcOp
<1>7. CASE OpWrite(o)
  BY <1>0, <1>7, MoveTypes, FreedTypes DEF OpWrite, Leave, Answer, Record, Said, world,
     local, past, TypeInv, TypeOK,
     Labels, PcOp
<1>8. CASE RevokeLook(o)
  <2>1. ans' \in [Ops -> [said : Said, owner : Owners]]
    BY <1>8 DEF RevokeLook, Answer, Said, TypeInv, TypeOK
  <2> QED BY <1>0, <1>8, <2>1, MoveTypes DEF RevokeLook, Goto, disk, world, local, TypeInv,
             TypeOK, Labels, PcOp
<1>9. CASE ForceLock(o)
  BY <1>0, <1>9, MoveTypes DEF ForceLock, TakeLock, GiveUp, Goto, world, local, past, TypeInv, TypeOK,
     Labels, PcOp
<1>10. CASE ForceDelete(o)
  <2>1. ans' \in [Ops -> [said : Said, owner : Owners]]
    BY <1>10 DEF ForceDelete, Answer, Said, Record, Owners, TypeInv, TypeOK
  <2>2. PICK l \in {"done", "look"} : pc' = [pc EXCEPT ![o] = l]
    BY <1>10 DEF ForceDelete, Leave
  <2>3. lock' \in Procs \cup {NoOne} /\ gate' \in Procs \cup {NoOne}
    BY <1>0, <1>10, FreedTypes DEF ForceDelete, Leave, TypeInv, TypeOK
  <2> QED BY <1>0, <1>10, <2>1, <2>2, <2>3, MoveTypes, RecordTypes DEF ForceDelete, world,
             local, TypeInv, TypeOK, Labels, PcOp
<1>11. CASE ForceLook(o)
  BY <1>0, <1>11, MoveTypes, FreedTypes DEF ForceLook, Leave, Answer, Said, world, local,
     TypeInv, TypeOK,
     Labels, PcOp
<1> QED BY <1>1, <1>2, <1>3, <1>4, <1>5, <1>6, <1>7, <1>8, <1>9, <1>10, <1>11

(* Lifecycle commands. Erase moves everybody who waits at the gate. *)
LEMMA VerbTypes ==
  ASSUME TypeInv, OldMoves, NEW v \in Verbs,
         StartVerb(v) \/ VerbDecide(v) \/ VerbWork(v) \/ Erase(v)
  PROVE  TypeInv'
<1>0. v \in Procs /\ v \notin Serves /\ v \notin Ops
  BY ProcsAssumption DEF Procs
<1>1. CASE StartVerb(v)
  <2>1. cmd' \in [Ops \cup Verbs -> AllOps \cup AllVerbs \cup {"none"}]
    BY <1>1, ChoiceAssumption DEF StartVerb, TypeInv, TypeOK
  <2> QED BY <1>0, <1>1, <2>1, MoveTypes DEF StartVerb, Goto, disk, world, past, TypeInv,
             TypeOK, Labels, PcVerb
<1>2. CASE VerbDecide(v)
  BY <1>0, <1>2, MoveTypes, FreedTypes DEF VerbDecide, Leave, world, local, past, TypeInv,
     TypeOK, Labels, PcVerb
<1>3. CASE VerbWork(v)
  BY <1>0, <1>3, MoveTypes, FreedTypes DEF VerbWork, Leave, world, local, past, TypeInv,
     TypeOK, Labels, PcVerb
<1>4. CASE Erase(v)
  <2>1. pc' \in [Procs -> PcServe \cup PcOp \cup PcVerb]
    BY <1>4 DEF Erase, TypeInv, TypeOK, PcVerb
  <2>2. TypeOK'
    BY <1>4, <2>1, RecordTypes DEF Erase, OldMoves, world, local, past, TypeInv, TypeOK
  <2>3. \A p \in Serves : pc'[p] \in Late <=> pc[p] \in Late
    BY <1>0, <1>4 DEF Erase, TypeInv, TypeOK, Procs, Late, Ended
  <2>4. Patience'
    BY <1>4, <2>3 DEF Erase, local, TypeInv, Patience
  <2> QED BY <2>2, <2>4 DEF TypeInv, OldMoves
<1> QED BY <1>1, <1>2, <1>3, <1>4

(* Kills, restarts of the box, time, reused pids and unreadable records. *)
LEMMA SurroundingsTypes ==
  ASSUME TypeInv, OldMoves, Surroundings
  PROVE  TypeInv'
<1>1. CASE BoxStops
  BY <1>1, BoundAssumption DEF BoxStops, disk, local, past, OldMoves, TypeInv, TypeOK, Patience
<1>2. CASE BoxStarts
  BY <1>2, BoundAssumption DEF BoxStarts, disk, local, past, OldMoves, TypeInv, TypeOK, Patience
<1>3. CASE Corrupt
  BY <1>3, RecordTypes DEF Corrupt, world, local, past, OldMoves, TypeInv, TypeOK, Patience
<1>4. ASSUME NEW g \in Grants, Expire(g) PROVE TypeInv'
  BY <1>4 DEF Expire, disk, local, past, OldMoves, TypeInv, TypeOK, Patience
<1>5. ASSUME NEW p \in Serves, Recycle(p) PROVE TypeInv'
  BY <1>5 DEF Recycle, disk, local, past, OldMoves, TypeInv, TypeOK, Patience
<1>6. ASSUME NEW x \in Procs, Kill(x) PROVE TypeInv'
  BY <1>6, MoveTypes, FreedTypes DEF Kill, Leave, world, local, past, TypeInv, TypeOK,
     Labels, PcServe, PcOp, Late, Ended
<1> QED BY <1>1, <1>2, <1>3, <1>4, <1>5, <1>6 DEF Surroundings

LEMMA InitTypes == Init => TypeInv
<1> SUFFICES ASSUME Init PROVE TypeInv
  OBVIOUS
<1>1. TypeOK
  <2>1. ans \in [Ops -> [said : Said, owner : Owners]]
    BY DEF Init, Said, Owners
  <2>2. pc \in [Procs -> PcServe \cup PcOp \cup PcVerb]
    BY DEF Init, PcServe
  <2>3. seen \in [Procs -> Record] /\ rec \in Record
    BY RecordTypes DEF Init
  <2>4. /\ route \in 0..MaxRoute /\ starts \in 1..MaxRoute
        /\ tries \in [Serves -> 0..WindingUpAttempts]
        /\ pinned \in [Serves -> 0..MaxRoute]
    BY BoundAssumption DEF Init
  <2>5. old \in [holder: Procs \cup {NoOne}, open: SUBSET Procs, raced: BOOLEAN]
    BY DEF Init, NoRelic
  <2> QED BY <2>1, <2>2, <2>3, <2>4, <2>5 DEF Init, TypeOK
<1>2. Patience
  BY BoundAssumption DEF Init, Patience
<1>3. Unwaited
  BY DEF Init, NoRelic, Unwaited
<1> QED BY <1>1, <1>2, <1>3 DEF TypeInv

LEMMA NextTypes == TypeInv /\ [Next]_vars => TypeInv'
<1> SUFFICES ASSUME TypeInv, [Next]_vars PROVE TypeInv'
  OBVIOUS
<1>0. OldMoves
  BY NextMoves
<1>1. CASE UNCHANGED vars
  BY <1>1 DEF vars, TypeInv, TypeOK, Patience, Unwaited
<1>2. ASSUME NEW p \in Serves, StartShare(p) \/ ServeStep(p) \/ Signalled(p) PROVE TypeInv'
  <2>1. p \in Procs
    BY DEF Procs
  <2> QED BY <1>0, <1>2, <2>1, GateTypes, ClaimTypes, SetUpTypes, EndTypes, WindUpTypes
             DEF ServeStep, Signalled
<1>3. ASSUME NEW o \in Ops, StartOp(o) \/ OpStep(o) PROVE TypeInv'
  BY <1>0, <1>3, OpTypes DEF OpStep
<1>4. ASSUME NEW v \in Verbs, StartVerb(v) \/ VerbStep(v) PROVE TypeInv'
  <2>1. v \in Procs
    BY DEF Procs
  <2> QED BY <1>0, <1>4, <2>1, GateTypes, VerbTypes DEF VerbStep
<1> QED BY <1>0, <1>1, <1>2, <1>3, <1>4, SurroundingsTypes DEF Next

(* Every variable holds a value of its kind, in every execution with any    *)
(* number of processes; in particular begin_winding_up is bounded by        *)
(* WINDING_UP_ATTEMPTS.                                                     *)
THEOREM ShareTypes == Spec => []TypeOK
<1>1. Init => TypeInv
  BY InitTypes
<1>2. TypeInv /\ [Next]_vars => TypeInv'
  BY NextTypes
<1>3. TypeInv => TypeOK
  BY DEF TypeInv
<1> QED BY <1>1, <1>2, <1>3, PTL DEF Spec

-----------------------------------------------------------------------------
(* A stop that was answered.                                                *)

WriteLabels == {"claimwrite", "openwrite", "windwrite", "write"}
Before == {"idle", "opengate", "gatewait", "gatelost", "gated", "claimwrite"}

\* A process that has read the record and has yet to write it.
Writer(x) == pc[x] \in WriteLabels

Shut(r) == r.winding /\ r.grants \subseteq r.revoked

(* The core: of one share's record there is at most one pending write, and  *)
(* while it is pending nobody else can read that share's record.  Usually   *)
(* because its writer holds share.lock; after `rm` took the lock file away  *)
(* because the record went with it and nothing else can bring it back.      *)
Guarded ==
  \A x \in Procs : Writer(x) /\ Present(seen[x]) =>
    \/ lock = x
    \/ /\ rec.owner # seen[x].owner
       /\ \A y \in Procs \ {x} : Writer(y) => seen[y].owner # seen[x].owner

(* A record is that of a share that has claimed, or is about to.            *)
OwnersBegan ==
  /\ Present(rec) => Begun(rec.owner)
  /\ \A x \in Procs : Writer(x) /\ Present(seen[x]) /\ pc[x] # "claimwrite"
                         => Begun(seen[x].owner)
  /\ \A x \in Procs : pc[x] = "claimwrite" => seen[x].owner = x

(* What `stop` is about to write.                                           *)
StopWrites ==
  \A o \in Ops : pc[o] = "write" =>
    /\ cmd[o] \in {"grant", "revoke", "stop"}
    /\ cmd[o] = "stop" => seen[o].owner = NoOne \/ Shut(seen[o])

(* The record of a share that was stopped is shut wherever it is.           *)
StopKept ==
  \A o \in Ops : StopAnswered(o) =>
    /\ Present(ans[o]) /\ Begun(ans[o].owner)
    /\ Ours(ans[o].owner) => Shut(rec)
    /\ \A x \in Procs : Writer(x) /\ seen[x].owner = ans[o].owner => Shut(seen[x])

StopInv == Guarded /\ OwnersBegan /\ StopWrites /\ StopKept

(* Of two writers of one share's record there is only one. *)
LEMMA OneWriter ==
  ASSUME TypeInv, Guarded, NEW x \in Procs, NEW y \in Procs, x # y,
         Writer(x), Writer(y), Present(seen[x])
  PROVE  seen[x].owner # seen[y].owner
  BY DEF Guarded, Present

(* A share that has begun never goes back, and Erase moves nobody across.   *)
BegunStays == \A p \in Serves : Begun(p) => Begun(p)'

(* Steps that write no record: they may remove the one there is, drop a     *)
(* lock, move processes, but start no write.                                *)
Quiet ==
  /\ rec' = rec \/ rec'.owner \notin Serves
  /\ seen' = seen
  /\ BegunStays
  /\ \A y \in Procs : Writer(y)' => Writer(y) /\ pc'[y] = pc[y]
  /\ \/ \A y \in Procs : Writer(y)' /\ lock = y => lock' = y
     \/ rec'.owner \notin Serves
  /\ \A o \in Ops : StopAnswered(o)' => StopAnswered(o) /\ ans'[o].owner = ans[o].owner
  /\ \A o \in Ops : pc[o] = "write" => cmd'[o] = cmd[o]

LEMMA QuietStep ==
  ASSUME TypeInv, StopInv, Quiet
  PROVE  StopInv'
<1>1. Guarded'
  <2> SUFFICES ASSUME NEW x \in Procs, Writer(x)', Present(seen[x])'
               PROVE  \/ lock' = x
                      \/ /\ rec'.owner # seen'[x].owner
                         /\ \A y \in Procs \ {x} : Writer(y)' => seen'[y].owner # seen'[x].owner
    BY DEF Guarded
  <2>1. Writer(x) /\ Present(seen[x]) /\ seen'[x] = seen[x]
    BY DEF Quiet, Present
  <2>2. CASE lock = x /\ lock' # x
    <3>1. rec'.owner \notin Serves
      BY <2>2 DEF Quiet
    <3>2. \A y \in Procs \ {x} : Writer(y)' => seen'[y].owner # seen'[x].owner
      BY <2>1, OneWriter DEF Quiet, StopInv
    <3> QED BY <2>1, <3>1, <3>2 DEF Present
  <2>3. CASE lock # x
    BY <2>1, <2>3 DEF Quiet, StopInv, Guarded, Present
  <2> QED BY <2>2, <2>3
<1>2. OwnersBegan'
  BY DEF Quiet, BegunStays, StopInv, OwnersBegan, Present, Begun, Writer, WriteLabels
<1>3. StopWrites'
  BY DEF Quiet, StopInv, StopWrites, Writer, WriteLabels, Procs
<1>4. StopKept'
  BY DEF Quiet, BegunStays, StopInv, StopKept, Present, Ours
<1> QED BY <1>1, <1>2, <1>3, <1>4 DEF StopInv

(* While nobody waits for an erased file there is one share.lock.          *)
LEMMA OneLock ==
  ASSUME TypeInv, ~old.raced, NEW x \in Procs
  PROVE  /\ CanLock(x) <=> dir /\ lock = NoOne
         /\ TakeLock(x) => lock' = x
  BY DEF TypeInv, Unwaited, CanLock, TakeLock

(* Steps that take the lock and prepare a write of the share's own claim,   *)
(* of the record that is there, edited, or of no record.                    *)
ClaimsNew(x, r, l) == l = "claimwrite" /\ r.owner = x /\ x \in Serves /\ ~Begun(x)
Edits(x, r, l) ==
  /\ l # "claimwrite"
  /\ \/ r.owner = NoOne
     \/ r.owner = rec.owner /\ \A o \in Ops : StopAnswered(o) /\ Ours(ans[o].owner) => Shut(r)
  /\ l = "write" => cmd[x] \in {"grant", "revoke", "stop"}
  /\ l = "write" /\ cmd[x] = "stop" => r.owner = NoOne \/ Shut(r)

LEMMA ReadStep ==
  ASSUME TypeInv, StopInv, ~old.raced, NEW x \in Procs, NEW r \in Record,
         NEW l \in WriteLabels, CanLock(x), Prepare(x, r, l), UNCHANGED <<rec, ans, cmd>>,
         ClaimsNew(x, r, l) \/ Edits(x, r, l)
  PROVE  StopInv'
<1>1. /\ \A y \in Procs \ {x} : pc'[y] = pc[y] /\ seen'[y] = seen[y]
      /\ pc'[x] = l /\ seen'[x] = r /\ lock = NoOne /\ lock' = x
  BY OneLock DEF Prepare, TypeInv, TypeOK
<1>2. NoOne \notin Procs /\ NoOne \notin Serves
  BY ProcsAssumption DEF Procs
<1>3. BegunStays
  <2>1. l \in {"claimwrite", "openwrite", "windwrite", "write"}
    BY DEF WriteLabels
  <2>2. Begun(x) => Begun(x)'
    BY <1>1, <2>1 DEF Begun, ClaimsNew, Edits
  <2> QED BY <1>1, <2>2 DEF BegunStays, Begun, Procs
<1>4. ASSUME NEW y \in Procs \ {x}, Writer(y), Present(seen[y])
      PROVE  r.owner # seen[y].owner
  <2>1. rec.owner # seen[y].owner
    BY <1>1, <1>2, <1>4 DEF StopInv, Guarded
  <2>2. CASE ClaimsNew(x, r, l)
    <3>1. seen[y].owner # x
      BY <1>4, <2>2 DEF ClaimsNew, StopInv, OwnersBegan, Begun, Present
    <3> QED BY <2>2, <3>1 DEF ClaimsNew
  <2>3. CASE Edits(x, r, l)
    BY <1>2, <1>4, <2>1, <2>3 DEF Edits, Present
  <2> QED BY <2>2, <2>3
<1>5. Guarded'
  <2> SUFFICES ASSUME NEW y \in Procs, Writer(y)', Present(seen[y])'
               PROVE  \/ lock' = y
                      \/ /\ rec'.owner # seen'[y].owner
                         /\ \A z \in Procs \ {y} : Writer(z)' => seen'[z].owner # seen'[y].owner
    BY DEF Guarded
  <2>1. CASE y # x
    <3>1. /\ Writer(y) /\ Present(seen[y]) /\ lock # y
          /\ pc'[y] = pc[y] /\ seen'[y] = seen[y]
      BY <1>1, <1>2, <2>1 DEF Writer, Present
    <3>2. rec'.owner # seen'[y].owner
      BY <1>1, <3>1, <2>1 DEF StopInv, Guarded
    <3>3. ASSUME NEW z \in Procs \ {y}, Writer(z)'
          PROVE  seen'[z].owner # seen'[y].owner
      <4>1. CASE z = x
        BY <1>1, <1>4, <2>1, <3>1, <4>1
      <4>2. CASE z # x
        BY <1>1, <2>1, <3>1, <3>3, <4>2 DEF Writer, StopInv, Guarded
      <4> QED BY <4>1, <4>2
    <3> QED BY <3>2, <3>3
  <2> QED BY <1>1, <2>1
<1>6. OwnersBegan'
  <2>1. Present(rec)' => Begun(rec.owner)'
    BY <1>3 DEF StopInv, OwnersBegan, BegunStays, Present, Begun
  <2>2. ASSUME NEW y \in Procs, Writer(y)', Present(seen[y])', pc'[y] # "claimwrite"
        PROVE  Begun(seen[y].owner)'
    <3>1. CASE y = x
      BY <1>1, <1>2, <1>3, <2>2, <3>1 DEF StopInv, OwnersBegan, BegunStays, Present, Begun, Edits,
         ClaimsNew
    <3>2. CASE y # x
      BY <1>1, <1>3, <2>2, <3>2 DEF StopInv, OwnersBegan, BegunStays, Present, Begun, Writer
    <3> QED BY <3>1, <3>2
  <2>3. ASSUME NEW y \in Procs, pc'[y] = "claimwrite" PROVE seen'[y].owner = y
    <3>1. CASE y = x
      BY <1>1, <2>3, <3>1 DEF ClaimsNew, Edits
    <3>2. CASE y # x
      BY <1>1, <2>3, <3>2 DEF StopInv, OwnersBegan
    <3> QED BY <3>1, <3>2
  <2> QED BY <2>1, <2>2, <2>3 DEF OwnersBegan
<1>7. StopWrites'
  BY <1>1, ProcsAssumption DEF StopInv, StopWrites, Edits, ClaimsNew, Procs, Shut
<1>8. StopKept'
  <2> SUFFICES ASSUME NEW o \in Ops, StopAnswered(o)
               PROVE  /\ Present(ans[o]) /\ Begun(ans[o].owner)'
                      /\ Ours(ans[o].owner) => Shut(rec)
                      /\ \A y \in Procs : Writer(y)' /\ seen'[y].owner = ans[o].owner
                                            => Shut(seen'[y])
    BY DEF StopKept, StopAnswered, Present, Ours, Shut, Begun
  <2>1. Present(ans[o]) /\ Begun(ans[o].owner)' /\ (Ours(ans[o].owner) => Shut(rec))
    BY <1>3 DEF StopInv, StopKept, BegunStays, Present, Begun
  <2>2. ASSUME NEW y \in Procs, Writer(y)', seen'[y].owner = ans[o].owner
        PROVE  Shut(seen'[y])
    <3>1. CASE y = x
      BY <1>1, <1>2, <2>2, <3>1 DEF StopInv, StopKept, ClaimsNew, Edits, Present, Ours
    <3>2. CASE y # x
      BY <1>1, <2>2, <3>2 DEF StopInv, StopKept, Writer
    <3> QED BY <3>1, <3>2
  <2> QED BY <2>1, <2>2
<1> QED BY <1>5, <1>6, <1>7, <1>8 DEF StopInv

(* Steps that write what was prepared and leave the lock. *)
LEMMA WriteStep ==
  ASSUME TypeInv, StopInv, NEW x \in Procs, NEW l \in Labels \ (WriteLabels \cup Before),
         Writer(x), rec' = seen[x], Leave(x, l), UNCHANGED <<seen, cmd>>,
         \A o \in Ops : StopAnswered(o)' =>
           \/ StopAnswered(o) /\ ans'[o] = ans[o]
           \/ /\ o = x /\ cmd[o] = "stop" /\ pc[o] = "write"
              /\ ans'[o].owner = seen[o].owner /\ Present(seen[o])
  PROVE  StopInv'
<1>1. /\ \A y \in Procs \ {x} : pc'[y] = pc[y]
      /\ pc'[x] = l /\ ~Writer(x)'
      /\ \A y \in Procs \ {x} : lock = y => lock' = y
  BY DEF Leave, Freed, Writer, TypeInv, TypeOK
<1>2. \A y \in Procs : Writer(y)' => Writer(y) /\ y # x /\ pc'[y] = pc[y]
  BY <1>1 DEF Writer
<1>3. /\ \A p \in Serves : Begun(p) => pc'[p] \notin Before
      /\ x \in Serves => pc'[x] \notin Before
  BY <1>1 DEF Begun, Before, Procs
<1>4. \A y \in Procs : Writer(y)' /\ Present(seen[y]) => seen[x].owner # seen[y].owner
  BY <1>2, OneWriter DEF StopInv
<1>5. Guarded'
  BY <1>1, <1>2, <1>4 DEF StopInv, Guarded, Present
<1>6. OwnersBegan'
  <2>1. ASSUME seen[x].owner \in Serves PROVE pc'[seen[x].owner] \notin Before
    <3>1. CASE pc[x] = "claimwrite"
      BY <1>3, <2>1, <3>1 DEF StopInv, OwnersBegan
    <3>2. CASE pc[x] # "claimwrite"
      BY <1>3, <2>1, <3>2 DEF StopInv, OwnersBegan, Present
    <3> QED BY <3>1, <3>2
  <2>2. ASSUME NEW y \in Procs, Writer(y)', seen[y].owner \in Serves, pc'[y] # "claimwrite"
        PROVE  pc'[seen[y].owner] \notin Before
    <3>1. Writer(y) /\ pc[y] # "claimwrite"
      BY <1>2, <2>2
    <3> QED BY <1>3, <2>2, <3>1 DEF StopInv, OwnersBegan, Present
  <2>3. ASSUME NEW y \in Procs, pc'[y] = "claimwrite" PROVE seen[y].owner = y
    BY <1>2, <2>3 DEF StopInv, OwnersBegan, Writer, WriteLabels
  <2> QED BY <2>1, <2>2, <2>3 DEF OwnersBegan, Present, Begun, Before
<1>7. StopWrites'
  BY <1>2 DEF StopInv, StopWrites, Writer, WriteLabels, Procs, Shut
<1>8. ASSUME NEW o \in Ops, StopAnswered(o)'
      PROVE  /\ ans'[o].owner \in Serves /\ pc'[ans'[o].owner] \notin Before
             /\ seen[x].owner = ans'[o].owner => Shut(seen[x])
             /\ \A y \in Procs : Writer(y)' /\ seen[y].owner = ans'[o].owner => Shut(seen[y])
  <2>1. CASE StopAnswered(o) /\ ans'[o] = ans[o]
    <3>1. /\ ans[o].owner \in Serves /\ Begun(ans[o].owner)
          /\ \A y \in Procs : Writer(y) /\ seen[y].owner = ans[o].owner => Shut(seen[y])
      BY <2>1 DEF StopInv, StopKept, Present
    <3> QED BY <1>2, <1>3, <2>1, <3>1
  <2>2. CASE /\ o = x /\ cmd[o] = "stop" /\ pc[o] = "write"
             /\ ans'[o].owner = seen[o].owner /\ Present(seen[o])
    <3>1. Shut(seen[o]) /\ seen[o].owner \in Serves
      BY <2>2, ProcsAssumption DEF StopInv, StopWrites, Present, Procs
    <3>2. pc'[seen[o].owner] \notin Before
      <4>1. Begun(seen[o].owner)
        BY <2>2 DEF StopInv, OwnersBegan
      <4> QED BY <1>3, <3>1, <4>1
    <3>3. \A y \in Procs : Writer(y)' => seen[y].owner # seen[o].owner
      BY <1>4, <2>2, <3>1 DEF Present
    <3> QED BY <2>2, <3>1, <3>2, <3>3
  <2> QED BY <1>8, <2>1, <2>2
<1>9. StopKept'
  BY <1>8 DEF StopKept, Present, Ours, Shut, Begun, Before
<1> QED BY <1>5, <1>6, <1>7, <1>9 DEF StopInv

(* One process moves on without writing. *)
LEMMA MoveQuiet ==
  ASSUME TypeInv, StopInv, NEW x \in Procs, NEW l \in Labels \ WriteLabels,
         pc' = [pc EXCEPT ![x] = l],
         x \in Serves /\ l \in Before => pc[x] \in Before,
         rec' = rec \/ rec'.owner \notin Serves,
         \A y \in Procs \ {x} : lock = y => lock' = y,
         seen' = seen,
         \A o \in Ops : StopAnswered(o)' => StopAnswered(o) /\ ans'[o].owner = ans[o].owner,
         \A o \in Ops : pc[o] = "write" => cmd'[o] = cmd[o]
  PROVE  StopInv'
<1>1. /\ \A y \in Procs \ {x} : pc'[y] = pc[y]
      /\ pc'[x] = l
  BY DEF TypeInv, TypeOK
<1>2. BegunStays
  BY <1>1 DEF BegunStays, Begun, Before, Procs
<1>3. \A y \in Procs : Writer(y)' => Writer(y) /\ pc'[y] = pc[y] /\ y # x
  BY <1>1 DEF Writer
<1> QED BY <1>2, <1>3, QuietStep DEF Quiet

-----------------------------------------------------------------------------
(* Every action keeps StopInv.                                              *)

(* The gate: no record is touched. *)
LEMMA GateStop ==
  ASSUME TypeInv, StopInv, NEW x \in Procs,
         OpenGate(x) \/ TakeGate(x) \/ GateTimesOut(x)
  PROVE  StopInv'
<1>1. CASE OpenGate(x)
  BY <1>1, MoveQuiet DEF OpenGate, Goto, world, local, past,
     StopAnswered, Labels, PcServe, WriteLabels, Before, Ended
<1>2. CASE TakeGate(x)
  BY <1>2, MoveQuiet DEF TakeGate, world, local, past,
     StopAnswered, Labels, PcServe, WriteLabels, Before, Ended
<1>3. CASE GateTimesOut(x)
  BY <1>3, MoveQuiet DEF GateTimesOut, PcOp, Goto, disk, world, local, past,
     StopAnswered, Labels, PcServe, WriteLabels, Before, Ended
<1> QED BY <1>1, <1>2, <1>3

(* From the claim to the open door. *)
LEMMA OpenStop ==
  ASSUME TypeInv, StopInv, ~old.raced, NEW p \in Serves,
         \/ StartShare(p) \/ ClaimRead(p) \/ ClaimWrite(p) \/ SetUp(p) \/ StillOurs(p)
         \/ OpenRead(p) \/ OpenWrite(p) \/ Announce(p)
  PROVE  StopInv'
<1>0. p \in Procs
  BY DEF Procs
<1>1. CASE StartShare(p)
  BY <1>0, <1>1, MoveQuiet DEF StartShare, Goto, disk, world, past,
     StopAnswered, Labels, PcServe, WriteLabels, Before, Ended
<1>2. CASE ClaimRead(p)
  <2>1. CASE CanLock(p) /\ Prepare(p, Claimed(p), "claimwrite")
    <3>1. ClaimsNew(p, Claimed(p), "claimwrite")
      BY <1>2 DEF ClaimRead, ClaimsNew, Claimed, Blank, Begun
    <3> QED BY <1>0, <1>2, <2>1, <3>1, ReadStep, RecordTypes DEF ClaimRead, local, past,
               WriteLabels
  <2>2. CASE Leave(p, "refused") /\ UNCHANGED seen
    BY <1>0, <1>2, <2>2, MoveQuiet DEF ClaimRead, Leave, Freed, local, past, StopAnswered,
       Labels, PcServe, WriteLabels, Before, Ended
  <2> QED BY <1>2, <2>1, <2>2 DEF ClaimRead
<1>3. CASE ClaimWrite(p)
  <2>1. Writer(p) /\ "setup" \in Labels \ (WriteLabels \cup Before)
    BY <1>3 DEF ClaimWrite, Writer, WriteLabels, Before, Labels, PcServe
  <2> QED BY <1>0, <1>3, <2>1, WriteStep DEF ClaimWrite, WriteBack, StopAnswered, world,
             local, past
<1>4. CASE SetUp(p)
  BY <1>0, <1>4, MoveQuiet DEF SetUp, Goto, disk, world, local, past,
     StopAnswered, Labels, PcServe, WriteLabels, Before, Ended
<1>5. CASE StillOurs(p)
  BY <1>0, <1>5, MoveQuiet DEF StillOurs, Goto, disk, world, local, past,
     StopAnswered, Labels, PcServe, WriteLabels, Before, Ended
<1>6. CASE OpenRead(p)
  <2>1. CASE pc' = [pc EXCEPT ![p] = "clear"] /\ GiveUp(p) /\ UNCHANGED <<seen, minted>>
    BY <1>0, <1>6, <2>1, MoveQuiet DEF OpenRead, GiveUp, local, past, StopAnswered,
       Labels, PcServe, WriteLabels, Before, Ended
  <2>2. CASE ~(pc' = [pc EXCEPT ![p] = "clear"] /\ GiveUp(p) /\ UNCHANGED <<seen, minted>>)
    <3>1. /\ CanLock(p) /\ OpenMay(p)
          /\ \E g \in Grants :
               Prepare(p, [rec EXCEPT !.starting = FALSE, !.grants = @ \cup {g}],
                       "openwrite")
      BY <1>6, <2>2 DEF OpenRead
    <3>2. PICK g \in Grants :
            Prepare(p, [rec EXCEPT !.starting = FALSE, !.grants = @ \cup {g}], "openwrite")
      BY <3>1
    <3> DEFINE r == [rec EXCEPT !.starting = FALSE, !.grants = @ \cup {g}]
    <3>3. rec \in Record
      BY DEF TypeInv, TypeOK
    <3>4. r \in Record /\ r.owner = rec.owner
      BY <3>3, EditTypes DEF Record
    <3>5. \A o \in Ops : StopAnswered(o) => ~Ours(ans[o].owner)
      BY <3>1 DEF OpenMay, StopInv, StopKept, Shut
    <3>6. Edits(p, r, "openwrite")
      BY <3>4, <3>5 DEF Edits
    <3> HIDE DEF r
    <3>7. Prepare(p, r, "openwrite")
      BY <3>2 DEF r
    <3> QED BY <1>0, <1>6, <3>1, <3>4, <3>6, <3>7, ReadStep DEF OpenRead, local, past,
               WriteLabels
  <2> QED BY <2>1, <2>2
<1>7. CASE OpenWrite(p)
  <2>1. Writer(p) /\ "announce" \in Labels \ (WriteLabels \cup Before)
    BY <1>7 DEF OpenWrite, Writer, WriteLabels, Before, Labels, PcServe
  <2> QED BY <1>0, <1>7, <2>1, WriteStep DEF OpenWrite, WriteBack, StopAnswered, world,
             local, past
<1>8. CASE Announce(p)
  BY <1>0, <1>8, MoveQuiet DEF Announce, Goto, disk, world, local, past,
     StopAnswered, Labels, PcServe, WriteLabels, Before, Ended
<1> QED BY <1>1, <1>2, <1>3, <1>4, <1>5, <1>6, <1>7, <1>8

(* Serving, winding up and leaving, with or without signals. *)
LEMMA ServeStop ==
  ASSUME TypeInv, StopInv, ~old.raced, NEW p \in Serves,
         \/ NoticeSpent(p) \/ NoticeBoxGone(p) \/ ServeEnds(p) \/ Interrupted(p)
         \/ WindUpRead(p) \/ WindUpWrite(p) \/ TearDown(p) \/ WriteReceipt(p)
         \/ ClearRead(p) \/ ClearDelete(p) \/ Exit(p) \/ HardCheck(p) \/ HardDelete(p)
  PROVE  StopInv'
<1>0. p \in Procs
  BY DEF Procs
<1>1. CASE NoticeSpent(p)
  BY <1>0, <1>1, MoveQuiet DEF NoticeSpent, Goto, disk, world, local, past,
     StopAnswered, Labels, PcServe, WriteLabels, Before, Ended
<1>2. CASE NoticeBoxGone(p)
  BY <1>0, <1>2, MoveQuiet DEF NoticeBoxGone, Goto, disk, world, local, past,
     StopAnswered, Labels, PcServe, WriteLabels, Before, Ended
<1>3. CASE ServeEnds(p)
  BY <1>0, <1>3, MoveQuiet DEF ServeEnds, Goto, disk, world, local, past,
     StopAnswered, Labels, PcServe, WriteLabels, Before, Ended
<1>4. CASE Interrupted(p)
  BY <1>0, <1>4, MoveQuiet DEF Interrupted, Goto, disk, world, past,
     StopAnswered, Labels, PcServe, WriteLabels, Before, Ended
<1>5. CASE WindUpRead(p)
  <2>1. CASE CanLock(p) /\ Present(rec) /\ Prepare(p, Mark(p), "windwrite")
    <3>1. rec \in Record
      BY DEF TypeInv, TypeOK
    <3>2. Mark(p) \in Record /\ Mark(p).owner = rec.owner
      BY <3>1 DEF Mark, Record
    <3>3. Shut(rec) => Shut(Mark(p))
      BY <3>1 DEF Mark, Shut, Record
    <3>4. Edits(p, Mark(p), "windwrite")
      BY <3>2, <3>3 DEF Edits, StopInv, StopKept
    <3> QED BY <1>0, <1>5, <2>1, <3>2, <3>4, ReadStep DEF WindUpRead, past, WriteLabels
  <2>2. CASE pc' = [pc EXCEPT ![p] = "teardown"] /\ GiveUp(p) /\ UNCHANGED seen
    BY <1>0, <1>5, <2>2, MoveQuiet DEF WindUpRead, GiveUp, past, StopAnswered,
       Labels, PcServe, WriteLabels, Before, Ended
  <2>3. CASE /\ pc' = [pc EXCEPT ![p] = IF AttemptsLeft(p) THEN @ ELSE "teardown"]
             /\ GiveUp(p) /\ UNCHANGED seen
    BY <1>0, <1>5, <2>3, MoveQuiet DEF WindUpRead, GiveUp, past, StopAnswered,
       Labels, PcServe, WriteLabels, Before, Ended
  <2> QED BY <1>5, <2>1, <2>2, <2>3 DEF WindUpRead
<1>6. CASE WindUpWrite(p)
  <2>1. Writer(p) /\ "teardown" \in Labels \ (WriteLabels \cup Before)
    BY <1>6 DEF WindUpWrite, Writer, WriteLabels, Before, Labels, PcServe
  <2> QED BY <1>0, <1>6, <2>1, WriteStep DEF WindUpWrite, WriteBack, StopAnswered, world,
             local, past
<1>7. CASE TearDown(p)
  BY <1>0, <1>7, MoveQuiet DEF TearDown, Goto, disk, world, past,
     StopAnswered, Labels, PcServe, WriteLabels, Before, Ended
<1>8. CASE WriteReceipt(p)
  BY <1>0, <1>8, MoveQuiet DEF WriteReceipt, Goto, disk, world, local,
     StopAnswered, Labels, PcServe, WriteLabels, Before, Ended
<1>9. CASE ClearRead(p)
  <2>1. \A y \in Procs \ {p} : lock = y => lock' = y
    BY <1>9, ProcsAssumption DEF ClearRead, CanLock, TakeLock, GiveUp, Procs
  <2>2. /\ rec' = rec /\ seen' = seen /\ cmd' = cmd /\ ans' = ans
        /\ pc[p] = "clear"
    BY <1>9 DEF ClearRead, local, past
  <2>3. CASE pc' = [pc EXCEPT ![p] = "cleardelete"]
    BY <1>0, <2>1, <2>2, <2>3, MoveQuiet DEF StopAnswered, Labels, PcServe, WriteLabels, Before
  <2>4. CASE pc' = [pc EXCEPT ![p] = "leaving"]
    BY <1>0, <2>1, <2>2, <2>4, MoveQuiet DEF StopAnswered, Labels, PcServe, WriteLabels, Before
  <2> QED BY <1>9, <2>3, <2>4 DEF ClearRead
<1>10. CASE ClearDelete(p)
  BY <1>0, <1>10, MoveQuiet, ProcsAssumption DEF ClearDelete, Leave, Freed, Gone, Blank, Procs,
     world, local, past, StopAnswered, Labels, PcServe, WriteLabels, Before, Ended
<1>11. CASE Exit(p)
  BY <1>0, <1>11, MoveQuiet DEF Exit, Goto, disk, world, local, past,
     StopAnswered, Labels, PcServe, WriteLabels, Before, Ended
<1>12. CASE HardCheck(p)
  <2>1. CASE UNCHANGED <<pc, lock, old, gate>>
    BY <1>12, <2>1, QuietStep DEF HardCheck, past, Quiet, BegunStays, Begun, Writer, StopAnswered
  <2>2. CASE Leave(p, "aborted") /\ UNCHANGED signal
    BY <1>0, <1>12, <2>2, MoveQuiet DEF HardCheck, Leave, Freed, past, StopAnswered,
       Labels, PcServe, WriteLabels, Before, Ended
  <2> QED BY <1>12, <2>1, <2>2 DEF HardCheck
<1>13. CASE HardDelete(p)
  BY <1>0, <1>13, MoveQuiet, ProcsAssumption DEF HardDelete, Alive, Leave, Freed, Gone,
     Blank, Procs,
     world, local, past, StopAnswered, Labels, PcServe, WriteLabels, Before, Ended
<1> QED BY <1>1, <1>2, <1>3, <1>4, <1>5, <1>6, <1>7, <1>8, <1>9, <1>10, <1>11, <1>12, <1>13

(* The commands. *)
LEMMA OpStop ==
  ASSUME TypeInv, StopInv, ~old.raced, NEW o \in Ops,
         \/ StartOp(o) \/ StopPeek(o) \/ OpRefused(o) \/ GrantRead(o) \/ RevokeRead(o)
         \/ StopRead(o) \/ OpWrite(o) \/ RevokeLook(o)
         \/ ForceLock(o) \/ ForceDelete(o) \/ ForceLook(o)
  PROVE  StopInv'
<1>0. o \in Procs /\ o \notin Serves
  BY ProcsAssumption DEF Procs
<1>a. NoOne \notin Serves
  BY ProcsAssumption DEF Procs
<1>r. rec \in Record
  BY DEF TypeInv, TypeOK
<1>1. CASE StartOp(o)
  <2>1. \A q \in Ops : pc[q] = "write" => cmd'[q] = cmd[q]
    BY <1>1 DEF StartOp, Goto, TypeInv, TypeOK
  <2>2. /\ rec' = rec /\ lock' = lock /\ seen' = seen /\ ans' = ans
        /\ \/ pc' = [pc EXCEPT ![o] = "peek"]
           \/ pc' = [pc EXCEPT ![o] = "lock"]
    BY <1>1 DEF StartOp, Goto, disk, past
  <2> QED BY <1>0, <2>1, <2>2, MoveQuiet DEF StopAnswered, Labels, PcOp, WriteLabels, Before
<1>2. CASE StopPeek(o)
  BY <1>0, <1>2, MoveQuiet DEF StopPeek, Goto, disk, world, past,
     StopAnswered, Labels, PcOp, WriteLabels, Before
<1>3. CASE OpRefused(o)
  <2>1. /\ UNCHANGED <<rec, lock, seen, ans, cmd>>
        /\ pc' = [pc EXCEPT ![o] = "done"]
    BY <1>3 DEF OpRefused, GiveUp, Goto, world, local, past
  <2> QED BY <1>0, <2>1, MoveQuiet DEF StopAnswered, Labels, PcOp, WriteLabels, Before
<1>4. CASE GrantRead(o)
  <2>1. PICK g \in Grants :
          Prepare(o, [rec EXCEPT !.grants = @ \cup {g}], "write")
    BY <1>4 DEF GrantRead
  <2> DEFINE r == [rec EXCEPT !.grants = @ \cup {g}]
  <2>2. r \in Record /\ r.owner = rec.owner
    BY <1>r DEF Record
  <2>3. \A q \in Ops : StopAnswered(q) => ~Ours(ans[q].owner)
    BY <1>4 DEF GrantRead, StopInv, StopKept, Shut
  <2>4. Edits(o, r, "write")
    BY <1>4, <2>2, <2>3 DEF Edits, GrantRead
  <2> HIDE DEF r
  <2>5. Prepare(o, r, "write")
    BY <2>1 DEF r
  <2> QED BY <1>0, <1>4, <2>2, <2>4, <2>5, ReadStep DEF GrantRead, past, WriteLabels
<1>5. CASE RevokeRead(o)
  <2> DEFINE r == [rec EXCEPT !.revoked = @ \cup {arg[o]}]
  <2>1. r \in Record /\ r.owner = rec.owner
    BY <1>r, <1>5 DEF Record, RevokeRead
  <2>2. Shut(rec) => Shut(r)
    BY <1>r DEF Shut, Record
  <2>3. Edits(o, r, "write")
    BY <1>5, <2>1, <2>2 DEF Edits, RevokeRead, StopInv, StopKept
  <2> HIDE DEF r
  <2>4. Prepare(o, r, "write")
    BY <1>5 DEF r, RevokeRead
  <2> QED BY <1>0, <1>5, <2>1, <2>3, <2>4, ReadStep DEF RevokeRead, local, past, WriteLabels
<1>6. CASE StopRead(o)
  <2> DEFINE r == IF IsLive(rec) THEN Stopped(rec) ELSE Gone
  <2>1. r \in Record
    BY <1>r DEF Record, Stopped, Gone, Blank, Owners
  <2>2. r.owner = NoOne \/ (r.owner = rec.owner /\ Shut(r))
    BY <1>r DEF Record, Stopped, Gone, Blank, Shut
  <2>3. Edits(o, r, "write")
    BY <1>6, <2>2 DEF Edits, StopRead
  <2> HIDE DEF r
  <2>4. Prepare(o, r, "write")
    BY <1>6 DEF r, StopRead
  <2> QED BY <1>0, <1>6, <2>1, <2>3, <2>4, ReadStep DEF StopRead, local, past, WriteLabels
<1>7. CASE OpWrite(o)
  <2>1. cmd[o] \in {"grant", "revoke", "stop"}
    BY <1>7 DEF OpWrite, StopInv, StopWrites
  <2>2. \A q \in Ops : StopAnswered(q)' =>
           \/ StopAnswered(q) /\ ans'[q] = ans[q]
           \/ /\ q = o /\ cmd[q] = "stop" /\ pc[q] = "write"
              /\ ans'[q].owner = seen[q].owner /\ Present(seen[q])
    BY <1>7, <2>1 DEF OpWrite, Answer, StopAnswered, TypeInv, TypeOK
  <2>3. PICK l \in {"look", "done"} : Leave(o, l)
    BY <1>7 DEF OpWrite
  <2>4. /\ l \in Labels \ (WriteLabels \cup Before)
        /\ Writer(o)
    BY <1>7 DEF OpWrite, Labels, PcOp, WriteLabels, Before, Writer
  <2>5. rec' = seen[o] /\ UNCHANGED <<seen, cmd>>
    BY <1>7 DEF OpWrite, local
  <2> QED BY <1>0, <2>2, <2>3, <2>4, <2>5, WriteStep
<1>8. CASE RevokeLook(o)
  <2>1. \A q \in Ops : StopAnswered(q)' => StopAnswered(q) /\ ans'[q].owner = ans[q].owner
    <3>1. \/ UNCHANGED ans
          \/ Answer(o, "over", ans[o].owner)
      BY <1>8 DEF RevokeLook
    <3>2. /\ ans'[o] = ans[o] \/ ~StopAnswered(o)'
          /\ \A q \in Ops \ {o} : ans'[q] = ans[q]
      BY <3>1 DEF Answer, StopAnswered, TypeInv, TypeOK
    <3> QED BY <3>2 DEF StopAnswered
  <2> QED BY <1>0, <1>8, <2>1, MoveQuiet DEF RevokeLook, Goto, disk, world, local,
             Labels, PcOp, WriteLabels, Before
<1>9. CASE ForceLock(o)
  <2>1. \A y \in Procs \ {o} : lock = y => lock' = y
    BY <1>9, ProcsAssumption DEF ForceLock, CanLock, TakeLock, GiveUp, Procs
  <2> QED BY <1>0, <1>9, <2>1, MoveQuiet DEF ForceLock, Goto, world, local, past,
             StopAnswered, Labels, PcOp, WriteLabels, Before
<1>10. CASE ForceDelete(o)
  <2>1. \A q \in Ops : StopAnswered(q)' => StopAnswered(q) /\ ans'[q].owner = ans[q].owner
    <3>1. \/ Answer(o, "nothing", NoOne)
          \/ Answer(o, "deleting", rec.owner)
      BY <1>10 DEF ForceDelete
    <3>2. /\ ans'[o] = ans[o] \/ ~StopAnswered(o)'
          /\ \A q \in Ops \ {o} : ans'[q] = ans[q]
      BY <3>1 DEF Answer, StopAnswered, TypeInv, TypeOK
    <3> QED BY <3>2 DEF StopAnswered
  <2>2. \A y \in Procs \ {o} : lock = y => lock' = y
    BY <1>10 DEF ForceDelete, Leave, Freed
  <2>3. \/ pc' = [pc EXCEPT ![o] = "look"]
        \/ pc' = [pc EXCEPT ![o] = "done"]
    BY <1>10 DEF ForceDelete, Leave
  <2>4. rec'.owner \notin Serves /\ seen' = seen /\ cmd' = cmd
    BY <1>10, <1>a DEF ForceDelete, Gone, Blank, local
  <2> QED BY <1>0, <2>1, <2>2, <2>3, <2>4, MoveQuiet DEF Labels, PcOp, WriteLabels, Before
<1>11. CASE ForceLook(o)
  <2>1. \A q \in Ops : StopAnswered(q)' => StopAnswered(q) /\ ans'[q].owner = ans[q].owner
    <3>1. \/ Answer(o, "deleted", ans[o].owner)
          \/ Answer(o, "reappeared", ans[o].owner)
      BY <1>11 DEF ForceLook
    <3>2. /\ ans'[o] = ans[o] \/ ~StopAnswered(o)'
          /\ \A q \in Ops \ {o} : ans'[q] = ans[q]
      BY <3>1 DEF Answer, StopAnswered, TypeInv, TypeOK
    <3> QED BY <3>2 DEF StopAnswered
  <2> QED BY <1>0, <1>11, <2>1, MoveQuiet DEF ForceLook, Leave, Freed, local,
             Labels, PcOp, WriteLabels, Before
<1> QED BY <1>1, <1>2, <1>3, <1>4, <1>5, <1>6, <1>7, <1>8, <1>9, <1>10, <1>11

(* The lifecycle commands: `rm` takes the record with the lock file. *)
LEMMA VerbStop ==
  ASSUME TypeInv, StopInv, NEW v \in Verbs,
         StartVerb(v) \/ VerbDecide(v) \/ VerbWork(v) \/ Erase(v)
  PROVE  StopInv'
<1>0. v \in Procs /\ v \notin Serves /\ v \notin Ops
  BY ProcsAssumption DEF Procs
<1>1. CASE StartVerb(v)
  <2>1. \A q \in Ops : pc[q] = "write" => cmd'[q] = cmd[q]
    BY <1>0, <1>1 DEF StartVerb, TypeInv, TypeOK
  <2> QED BY <1>0, <1>1, <2>1, MoveQuiet DEF StartVerb, Goto, disk, past,
             StopAnswered, Labels, PcVerb, WriteLabels, Before
<1>2. CASE VerbDecide(v)
  <2>1. /\ UNCHANGED <<rec, seen, ans, cmd>>
        /\ \A y \in Procs \ {v} : lock = y => lock' = y
        /\ \/ pc' = [pc EXCEPT ![v] = "work"]
           \/ pc' = [pc EXCEPT ![v] = "done"]
    BY <1>2 DEF VerbDecide, Leave, Freed, local, past
  <2> QED BY <1>0, <2>1, MoveQuiet DEF StopAnswered, Labels, PcVerb, WriteLabels, Before
<1>3. CASE VerbWork(v)
  BY <1>0, <1>3, MoveQuiet DEF VerbWork, Leave, Freed, local, past,
     StopAnswered, Labels, PcVerb, WriteLabels, Before
<1>4. CASE Erase(v)
  <2>1. \A y \in Procs : pc'[y] = IF y = v THEN "done"
                                  ELSE IF pc[y] = "gatewait" THEN "gatelost" ELSE pc[y]
    BY <1>4 DEF Erase
  <2>2. BegunStays
    BY <1>0, <2>1 DEF BegunStays, Begun, Procs
  <2>3. \A y \in Procs : Writer(y)' => Writer(y) /\ pc'[y] = pc[y]
    BY <2>1 DEF Writer, WriteLabels
  <2>4. rec'.owner \notin Serves
    BY <1>4, ProcsAssumption DEF Erase, Gone, Blank, Procs
  <2>5. UNCHANGED <<seen, ans, cmd>>
    BY <1>4 DEF Erase, local, past
  <2> QED BY <2>2, <2>3, <2>4, <2>5, QuietStep DEF Quiet, StopAnswered
<1> QED BY <1>1, <1>2, <1>3, <1>4

(* A process that dies with the lock leaves what it was to write unwritten. *)
LEMMA SurroundingsStop ==
  ASSUME TypeInv, StopInv, Surroundings
  PROVE  StopInv'
<1>1. CASE \/ BoxStops \/ BoxStarts
           \/ \E g \in Grants : Expire(g)
           \/ \E p \in Serves : Recycle(p)
  <2>1. UNCHANGED <<rec, lock, pc, seen, ans, cmd>>
    BY <1>1 DEF BoxStops, BoxStarts, Expire, Recycle, disk, local, past
  <2> QED BY <2>1, QuietStep DEF Quiet, BegunStays, Begun, Writer, StopAnswered
<1>2. CASE Corrupt
  <2>1. /\ UNCHANGED <<lock, pc, seen, ans, cmd>>
        /\ rec'.owner \notin Serves
    BY <1>2, ProcsAssumption DEF Corrupt, Unreadable, Blank, local, past, Procs
  <2> QED BY <2>1, QuietStep DEF Quiet, BegunStays, Begun, Writer, StopAnswered
<1>3. CASE \E x \in Procs : Kill(x)
  <2> PICK x \in Procs : Kill(x)
    BY <1>3
  <2>1. /\ UNCHANGED <<rec, seen, ans, cmd>>
        /\ \A y \in Procs \ {x} : lock = y => lock' = y
        /\ \/ pc' = [pc EXCEPT ![x] = "killed"]
           \/ pc' = [pc EXCEPT ![x] = "done"]
    BY DEF Kill, Leave, Freed, local, past
  <2> QED BY <2>1, MoveQuiet DEF StopAnswered, Labels, PcServe, PcOp, Ended, WriteLabels, Before
<1> QED BY <1>1, <1>2, <1>3 DEF Surroundings

LEMMA InitStop == Init => StopInv
  BY ProcsAssumption DEF Init, StopInv, Guarded, OwnersBegan, StopWrites, StopKept, Writer,
     WriteLabels, Gone, Blank, Present, StopAnswered, Procs

(* Every step of everybody, as long as nobody was waiting for share.lock    *)
(* when `rm` erased it. *)
LEMMA StepStop == TypeInv /\ StopInv /\ ~old.raced /\ [Next]_vars => StopInv'
<1> SUFFICES ASSUME TypeInv, StopInv, ~old.raced, [Next]_vars PROVE StopInv'
  OBVIOUS
<1>1. ASSUME NEW p \in Serves, StartShare(p) \/ ServeStep(p) \/ Signalled(p) PROVE StopInv'
  BY <1>1, GateStop, OpenStop, ServeStop DEF ServeStep, Signalled, Procs
<1>2. ASSUME NEW o \in Ops, StartOp(o) \/ OpStep(o) PROVE StopInv'
  BY <1>2, OpStop DEF OpStep
<1>3. ASSUME NEW v \in Verbs, StartVerb(v) \/ VerbStep(v) PROVE StopInv'
  BY <1>3, GateStop, VerbStop DEF VerbStep, Procs
<1>4. CASE Surroundings
  BY <1>4, SurroundingsStop
<1>5. CASE UNCHANGED vars
  <2>1. UNCHANGED <<rec, lock, pc, seen, ans, cmd>>
    BY <1>5 DEF vars
  <2> QED BY <2>1, QuietStep DEF Quiet, BegunStays, Begun, Writer, StopAnswered
<1> QED BY <1>1, <1>2, <1>3, <1>4, <1>5 DEF Next

StopSafe == old.raced \/ StopInv

LEMMA NextStop == TypeInv /\ StopSafe /\ [Next]_vars => StopSafe'
  BY StepStop, NextMoves DEF StopSafe, OldMoves

(* Once `share stop` has answered for a live share, that share's record     *)
(* stays marked and admits nobody, for any number of shares, commands and   *)
(* lifecycle commands, with every fault of the surroundings: grant, revoke, *)
(* opening and winding up read and write the record under one share.lock,   *)
(* and where `rm` takes that lock away it takes the record too.  The one    *)
(* way out is a command that was waiting for the lock file `rm` erased.     *)
THEOREM StopHolds == Spec => []StopSticks
<1>1. Init => TypeInv /\ StopSafe
  BY InitTypes, InitStop DEF StopSafe
<1>2. TypeInv /\ StopSafe /\ [Next]_vars => (TypeInv /\ StopSafe)'
  BY NextTypes, NextStop
<1>3. TypeInv /\ StopSafe => StopSticks
  BY DEF StopSafe, StopInv, StopKept, StopSticks, Shut, Live
<1> QED BY <1>1, <1>2, <1>3, PTL DEF Spec
=============================================================================
