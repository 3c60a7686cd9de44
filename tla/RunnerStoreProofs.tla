------------------------- MODULE RunnerStoreProofs -------------------------
(* Proofs about RunnerStore. *)
EXTENDS RunnerStore, TLAPS

-----------------------------------------------------------------------------
(* Types. *)

LEMMA NoCellTyped == NoCell \in Cells
  BY RunnerAssumption DEF NoCell, Cells

LEMMA NoDirTyped == NoDir \in Dirs
  BY RunnerAssumption, NoCellTyped DEF NoDir, Dirs, Stages

LEMMA MadeTyped ==
  ASSUME clock \in 0..MaxClock, NEW d \in Dirs
  PROVE  /\ Made(d) \in Dirs /\ Made(d).here
         /\ Made(d).rec \in {d.rec, None}
         /\ d.here => Made(d) = d
  <1>1. [NoDir EXCEPT !.here = TRUE, !.at = clock] \in Dirs
    BY NoDirTyped, RunnerAssumption DEF Dirs
  <1>2. CASE d.here
    BY <1>2 DEF Made
  <1>3. CASE ~d.here
    BY <1>1, <1>3 DEF Made, NoDir
  <1> QED BY <1>2, <1>3

LEMMA NewLeaseTyped ==
  ASSUME clock \in 0..MaxClock, NEW s \in Sessions
  PROVE  NewLease(s) \in Cells
  BY DEF NewLease, Cells

(* What a worker's request names. *)
LEMMA Places ==
  ASSUME TypeOK, NEW s \in Sessions
  PROVE  /\ Op(s) \in Operations /\ Box(s) \in Dirs /\ Attempt(s) \in Dirs
         /\ ask[s].box \in Boxes /\ ask[s].digest \in Digests
  <1>1. ask[s] \in [rpc : AllRpcs \cup {"none"}, box : Boxes, digest : Digests]
    BY DEF TypeOK
  <1>2. ask[s].box \in Boxes /\ ask[s].digest \in Digests
    BY <1>1
  <1>3. Op(s) \in Operations
    BY <1>2 DEF Op, Operations
  <1>4. Box(s) \in Dirs
    BY <1>2 DEF Box, TypeOK
  <1>5. Attempt(s) \in Dirs
    BY <1>3 DEF Attempt, TypeOK
  <1> QED BY <1>2, <1>3, <1>4, <1>5

LEMMA BoxSet ==
  ASSUME TypeOK, NEW s \in Sessions, NEW d \in Dirs, SetBox(s, d)
  PROVE  live' \in [Boxes -> Dirs]
  BY Places DEF SetBox, TypeOK

LEMMA AttemptSet ==
  ASSUME TypeOK, NEW s \in Sessions, NEW d \in Dirs, SetAttempt(s, d)
  PROVE  creating' \in [Operations -> Dirs]
  BY Places DEF SetAttempt, TypeOK

LEMMA Answers ==
  ASSUME TypeOK, NEW s \in Sessions, NEW w \in Told, Answer(s, w)
  PROVE  /\ pc' \in [Sessions -> Busy \cup {"idle", "done", "dead"}]
         /\ told' \in [Sessions -> Told]
  <1>1. pc' \in [Sessions -> Busy \cup {"idle", "done", "dead"}]
    BY DEF Answer, TypeOK
  <1>2. (IF hung[s] THEN "nothing" ELSE w) \in Told
    BY DEF Told
  <1>3. told' \in [Sessions -> Told]
    BY <1>2 DEF Answer, TypeOK
  <1> QED BY <1>1, <1>3

LEMMA FreedTyped ==
  ASSUME TypeOK, NEW s \in Sessions, Freed(s)
  PROVE  live' \in [Boxes -> Dirs]
  <1>1. ASSUME NEW b \in Boxes PROVE [live[b] EXCEPT !.held = @ \ {s}] \in Dirs
    <2>1. live[b] \in Dirs /\ live[b].held \ {s} \in SUBSET Sessions
      BY DEF TypeOK, Dirs
    <2> QED BY <2>1 DEF Dirs
  <1> QED BY <1>1 DEF Freed

LEMMA Moves ==
  ASSUME TypeOK, NEW s, NEW from, NEW to \in Busy, Goto(s, from, to)
  PROVE  pc' \in [Sessions -> Busy \cup {"idle", "done", "dead"}]
  BY DEF Goto, TypeOK

LEMMA Chosen ==
  ASSUME NEW all
  PROVE  Due(all) \in SUBSET (({"live"} \X Boxes) \cup ({"creating"} \X Operations))
  BY DEF Due

-----------------------------------------------------------------------------
LEMMA InitTyped == Init => TypeOK
  <1> SUFFICES ASSUME Init PROVE TypeOK
    OBVIOUS
  <1>1. (CHOOSE b \in Boxes : TRUE) \in Boxes /\ (CHOOSE d \in Digests : TRUE) \in Digests
    BY RunnerAssumption
  <1>2. ask \in [Sessions -> [rpc : AllRpcs \cup {"none"}, box : Boxes, digest : Digests]]
    BY <1>1 DEF Init
  <1>3. live \in [Boxes -> Dirs] /\ creating \in [Operations -> Dirs]
    BY NoDirTyped DEF Init
  <1>4. cell \in [Sessions -> Cells]
    BY NoCellTyped DEF Init
  <1>5. clock \in 0..MaxClock
    BY RunnerAssumption DEF Init
  <1> QED BY <1>2, <1>3, <1>4, <1>5 DEF Init, TypeOK, Told, Busy

LEMMA SendTyped ==
  ASSUME TypeOK, NEW s \in Sessions, Send(s) PROVE TypeOK'
  <1>1. PICK r \in Rpcs, b \in Boxes, d \in Digests :
          /\ ask' = [ask EXCEPT ![s] = [rpc |-> r, box |-> b, digest |-> d]]
          /\ pc' = [pc EXCEPT ![s] = IF r \in {"gc", "gcall"} THEN "gc" ELSE "sweep"]
    BY DEF Send
  <1>2. [rpc |-> r, box |-> b, digest |-> d]
          \in [rpc : AllRpcs \cup {"none"}, box : Boxes, digest : Digests]
    BY RunnerAssumption
  <1>3. ask' \in [Sessions -> [rpc : AllRpcs \cup {"none"}, box : Boxes, digest : Digests]]
    BY <1>1, <1>2 DEF TypeOK
  <1>4. pc' \in [Sessions -> Busy \cup {"idle", "done", "dead"}]
    BY <1>1 DEF TypeOK, Busy
  <1> QED BY <1>3, <1>4 DEF Send, TypeOK, disk

LEMMA SweepTyped ==
  ASSUME TypeOK, NEW s \in Sessions, Sweep(s) PROVE TypeOK'
  <1>1. pc' \in [Sessions -> Busy \cup {"idle", "done", "dead"}]
    BY Moves DEF Sweep, Busy
  <1>2. todo' \in [Sessions -> SUBSET (({"live"} \X Boxes) \cup ({"creating"} \X Operations))]
    BY Chosen DEF Sweep, TypeOK
  <1> QED BY <1>1, <1>2 DEF Sweep, TypeOK, disk

LEMMA GcTyped ==
  ASSUME TypeOK, NEW s \in Sessions, Gc(s) PROVE TypeOK'
  <1>1. CASE StoreReadable
    <2>1. pc' \in [Sessions -> Busy \cup {"idle", "done", "dead"}]
      BY <1>1 DEF Gc, TypeOK, Busy
    <2>2. todo' \in [Sessions -> SUBSET (({"live"} \X Boxes) \cup ({"creating"} \X Operations))]
      BY <1>1, Chosen DEF Gc, TypeOK
    <2> QED BY <1>1, <2>1, <2>2 DEF Gc, TypeOK, disk
  <1>2. CASE ~StoreReadable
    <2>1. Answer(s, "error") /\ UNCHANGED todo
      BY <1>2 DEF Gc
    <2> QED BY <2>1, Answers DEF Gc, TypeOK, disk, Told
  <1> QED BY <1>1, <1>2

LEMMA FirstIn ==
  ASSUME TypeOK, NEW s \in Sessions, todo[s] # {}
  PROVE  First(s) \in todo[s]
  <1>1. \A i \in todo[s] : i[1] \in {"live", "creating"}
    BY DEF TypeOK
  <1>2. \E i \in todo[s] : i[1] = "live" \/ \A j \in todo[s] : j[1] = "creating"
    BY <1>1
  <1> QED BY <1>2 DEF First

LEMMA ReapersTyped ==
  ASSUME NEW d \in Dirs, NEW s \in Sessions
  PROVE  [d EXCEPT !.reapers = @ \cup {s}] \in Dirs
  <1>1. d.reapers \cup {s} \in SUBSET Sessions
    BY DEF Dirs
  <1> QED BY <1>1 DEF Dirs

LEMMA LiveSet ==
  ASSUME TypeOK, NEW b, NEW d, b \in Boxes => d \in Dirs, live' = [live EXCEPT ![b] = d]
  PROVE  live' \in [Boxes -> Dirs]
  BY DEF TypeOK

LEMMA ReapTyped ==
  ASSUME TypeOK, NEW s \in Sessions, Reap(s) PROVE TypeOK'
  <1> DEFINE b == First(s)[2]
  <1>1. CASE /\ pc' = [pc EXCEPT ![s] = "wipe"]
             /\ live' = [live EXCEPT ![b].reapers = @ \cup {s}]
             /\ UNCHANGED <<creating, todo>>
    <2>1. pc' \in [Sessions -> Busy \cup {"idle", "done", "dead"}]
      BY <1>1 DEF TypeOK, Busy
    <2>2. live' = [live EXCEPT ![b] = [live[b] EXCEPT !.reapers = @ \cup {s}]]
      BY <1>1
    <2>3. b \in Boxes => [live[b] EXCEPT !.reapers = @ \cup {s}] \in Dirs
      BY ReapersTyped DEF TypeOK
    <2> HIDE DEF b
    <2>4. live' \in [Boxes -> Dirs]
      BY <2>2, <2>3, LiveSet
    <2> QED BY <1>1, <2>1, <2>4 DEF Reap, TypeOK
  <1>2. CASE /\ todo' = [todo EXCEPT ![s] = @ \ {First(s)}]
             /\ creating' \in {creating, [creating EXCEPT ![b] = NoDir]}
             /\ UNCHANGED <<pc, live>>
    <2>1. creating' \in [Operations -> Dirs]
      BY <1>2, NoDirTyped DEF TypeOK
    <2>2. todo' \in [Sessions -> SUBSET (({"live"} \X Boxes) \cup ({"creating"} \X Operations))]
      BY <1>2 DEF TypeOK
    <2> QED BY <1>2, <2>1, <2>2 DEF Reap, TypeOK
  <1> QED BY <1>1, <1>2 DEF Reap

LEMMA LessTyped ==
  ASSUME NEW d \in Dirs, NEW e \in Less(d)
  PROVE  /\ e \in Dirs /\ e.here = d.here
         /\ e.opened = d.opened /\ e.reapers = d.reapers
         /\ e.lock \subseteq d.lock /\ e.held \subseteq d.held
         /\ e.rec \in {d.rec, None}
  <1>1. "part" \in Stages /\ "none" \in Stages
    BY DEF Stages
  <1>2. CASE e = [d EXCEPT !.work = IF @ = "whole" THEN "part" ELSE "none"]
    BY <1>1, <1>2 DEF Dirs
  <1>3. CASE e = [d EXCEPT !.lease = NoCell] \/ e = [d EXCEPT !.tmp = NoCell]
    BY <1>3, NoCellTyped DEF Dirs
  <1>4. CASE e = [d EXCEPT !.rec = None] \/ e = [d EXCEPT !.policy = None]
             \/ e = [d EXCEPT !.bundle = FALSE]
    BY <1>4 DEF Dirs
  <1>5. CASE e = [d EXCEPT !.lock = {}, !.held = {}]
    BY <1>5 DEF Dirs
  <1> QED BY <1>2, <1>3, <1>4, <1>5 DEF Less

LEMMA UnlinkTyped ==
  ASSUME TypeOK, NEW s \in Sessions, Unlink(s) PROVE TypeOK'
  <1>1. PICK d \in Less(live[Aim(s)]) : live' = [live EXCEPT ![Aim(s)] = d]
    BY DEF Unlink
  <1>2. Aim(s) \in Boxes => d \in Dirs
    BY LessTyped DEF TypeOK
  <1>3. live' \in [Boxes -> Dirs]
    BY <1>1, <1>2, LiveSet
  <1> QED BY <1>3 DEF Unlink, TypeOK, local

LEMMA NextItemTyped ==
  ASSUME TypeOK, NEW s \in Sessions, NEW w \in Told, NextItem(s, w)
  PROVE  /\ pc' \in [Sessions -> Busy \cup {"idle", "done", "dead"}]
         /\ told' \in [Sessions -> Told]
         /\ todo' \in [Sessions -> SUBSET (({"live"} \X Boxes) \cup ({"creating"} \X Operations))]
  <1>1. CASE Answer(s, w) /\ UNCHANGED todo
    BY <1>1, Answers DEF TypeOK
  <1>2. CASE /\ pc' = [pc EXCEPT ![s] = "reap"]
             /\ todo' = [todo EXCEPT ![s] = @ \ {First(s)}]
             /\ UNCHANGED told
    BY <1>2 DEF TypeOK, Busy
  <1> QED BY <1>1, <1>2 DEF NextItem

LEMMA WipedTyped ==
  ASSUME TypeOK, NEW s \in Sessions, Wiped(s) \/ WipeFails(s) PROVE TypeOK'
  <1>1. "destroyed" \in Told /\ "error" \in Told
    BY DEF Told
  <1>2. live' \in [Boxes -> Dirs]
    BY NoDirTyped, LiveSet DEF Wiped, WipeFails, disk, TypeOK
  <1>3. /\ NextItem(s, "destroyed") \/ NextItem(s, "error")
        /\ UNCHANGED <<clock, creating, ask, saw, cell, hung>>
    BY DEF Wiped, WipeFails, disk
  <1>4. /\ pc' \in [Sessions -> Busy \cup {"idle", "done", "dead"}]
        /\ told' \in [Sessions -> Told]
        /\ todo' \in [Sessions -> SUBSET (({"live"} \X Boxes) \cup ({"creating"} \X Operations))]
    BY <1>1, <1>3, NextItemTyped
  <1> QED BY <1>2, <1>3, <1>4 DEF TypeOK

LEMMA SweptTyped ==
  ASSUME TypeOK, NEW s \in Sessions, Swept(s) PROVE TypeOK'
  <1>1. CASE ask[s].rpc \in {"gc", "gcall"}
    <2>1. Answer(s, "reaped")
      BY <1>1 DEF Swept
    <2> QED BY <2>1, Answers DEF Swept, TypeOK, disk, Told
  <1>2. CASE ~(ask[s].rpc \in {"gc", "gcall"})
    <2>1. AfterSweep(s) \in Busy
      BY DEF AfterSweep, Busy
    <2>2. pc' = [pc EXCEPT ![s] = AfterSweep(s)] /\ UNCHANGED told
      BY <1>2 DEF Swept
    <2>3. pc' \in [Sessions -> Busy \cup {"idle", "done", "dead"}]
      BY <2>1, <2>2 DEF TypeOK
    <2> QED BY <2>2, <2>3 DEF Swept, TypeOK, disk
  <1> QED BY <1>1, <1>2

LEMMA ListTyped ==
  ASSUME TypeOK, NEW s \in Sessions, List(s) PROVE TypeOK'
  <1>1. (IF ListReadable THEN "listed" ELSE "error") \in Told
    BY DEF Told
  <1>2. Answer(s, IF ListReadable THEN "listed" ELSE "error")
    BY DEF List
  <1> QED BY <1>1, <1>2, Answers DEF List, TypeOK, disk

LEMMA LookTyped ==
  ASSUME TypeOK, NEW s \in Sessions, Look(s) PROVE TypeOK'
  <1>1. CASE ~ListReadable \/ Listed >= MaxBoxes \/ Box(s).rec \notin {None, ask[s].digest}
    <2>1. Answer(s, "refused") /\ UNCHANGED saw
      BY <1>1 DEF Look
    <2> QED BY <2>1, Answers DEF Look, TypeOK, disk, Told
  <1>2. CASE ~(~ListReadable \/ Listed >= MaxBoxes
               \/ Box(s).rec \notin {None, ask[s].digest})
    <2>1. saw' \in [Sessions -> Digests \cup {None}]
      BY <1>2, Places DEF Look, TypeOK, Dirs
    <2>2. pc' \in [Sessions -> Busy \cup {"idle", "done", "dead"}]
      BY <1>2 DEF Look, TypeOK, Busy
    <2> QED BY <1>2, <2>1, <2>2 DEF Look, TypeOK, disk
  <1> QED BY <1>1, <1>2

LEMMA BeginTyped ==
  ASSUME TypeOK, NEW s \in Sessions, Begin(s) PROVE TypeOK'
  <1>1. [NoDir EXCEPT !.here = TRUE, !.work = "bare", !.at = clock] \in Dirs
    BY NoDirTyped DEF Dirs, Stages, TypeOK
  <1>2. creating' \in [Operations -> Dirs]
    BY <1>1, AttemptSet DEF Begin
  <1>3. pc' \in [Sessions -> Busy \cup {"idle", "done", "dead"}]
    BY Moves DEF Begin, Busy
  <1> QED BY <1>2, <1>3 DEF Begin, TypeOK, local

LEMMA ReceiveTyped ==
  ASSUME TypeOK, NEW s \in Sessions, Receive(s) PROVE TypeOK'
  <1>1. Made(Attempt(s)) \in Dirs
    BY Places, MadeTyped DEF TypeOK
  <1>2. [Made(Attempt(s)) EXCEPT !.bundle = ~hung[s], !.at = clock] \in Dirs
    BY <1>1 DEF Dirs, TypeOK
  <1>3. creating' \in [Operations -> Dirs]
    BY <1>2, AttemptSet DEF Receive
  <1>4. pc' \in [Sessions -> Busy \cup {"idle", "done", "dead"}]
    BY Moves DEF Receive, AfterReceive, Busy
  <1> QED BY <1>3, <1>4 DEF Receive, TypeOK, local

LEMMA FetchTyped ==
  ASSUME TypeOK, NEW s \in Sessions, Fetch(s) PROVE TypeOK'
  <1> DEFINE d == Made(Attempt(s))
  <1>1. d \in Dirs
    BY Places, MadeTyped DEF TypeOK
  <1>2. PICK fetched \in BOOLEAN :
          /\ Goto(s, "fetch", IF fetched THEN "checkout" ELSE "cleanup")
          /\ SetAttempt(s, [d EXCEPT !.work = IF fetched /\ @ # "whole" THEN "part"
                                             ELSE IF @ = "none" THEN "bare" ELSE @])
    BY DEF Fetch
  <1>3. (IF fetched /\ d.work # "whole" THEN "part"
         ELSE IF d.work = "none" THEN "bare" ELSE d.work) \in Stages
    BY <1>1 DEF Dirs, Stages
  <1>4. [d EXCEPT !.work = IF fetched /\ @ # "whole" THEN "part"
                           ELSE IF @ = "none" THEN "bare" ELSE @] \in Dirs
    BY <1>1, <1>3 DEF Dirs
  <1>5. creating' \in [Operations -> Dirs]
    BY <1>2, <1>4, AttemptSet
  <1>6. pc' \in [Sessions -> Busy \cup {"idle", "done", "dead"}]
    BY <1>2, Moves DEF Busy
  <1> QED BY <1>5, <1>6 DEF Fetch, TypeOK, local

LEMMA CheckoutTyped ==
  ASSUME TypeOK, NEW s \in Sessions, Checkout(s) PROVE TypeOK'
  <1>1. CASE /\ Goto(s, "checkout", "record")
             /\ SetAttempt(s, [Attempt(s) EXCEPT !.work = "whole", !.bundle = FALSE])
    <2>0. Attempt(s) \in Dirs /\ "whole" \in Stages
      BY Places DEF Stages
    <2>1. [Attempt(s) EXCEPT !.work = "whole", !.bundle = FALSE] \in Dirs
      BY <2>0 DEF Dirs
    <2>2. creating' \in [Operations -> Dirs]
      BY <1>1, <2>1, AttemptSet
    <2>3. pc' \in [Sessions -> Busy \cup {"idle", "done", "dead"}]
      BY <1>1, Moves DEF Busy
    <2> QED BY <2>2, <2>3 DEF Checkout, TypeOK, local
  <1>2. CASE Goto(s, "checkout", "cleanup") /\ UNCHANGED creating
    <2>1. pc' \in [Sessions -> Busy \cup {"idle", "done", "dead"}]
      BY <1>2, Moves DEF Busy
    <2> QED BY <1>2, <2>1 DEF Checkout, TypeOK, local
  <1> QED BY <1>1, <1>2 DEF Checkout

LEMMA CleanupTyped ==
  ASSUME TypeOK, NEW s \in Sessions, Cleanup(s) PROVE TypeOK'
  <1>1. creating' \in [Operations -> Dirs]
    BY NoDirTyped, AttemptSet DEF Cleanup
  <1>2. /\ pc' \in [Sessions -> Busy \cup {"idle", "done", "dead"}]
        /\ told' \in [Sessions -> Told]
    BY Answers DEF Cleanup, Told
  <1> QED BY <1>1, <1>2 DEF Cleanup, TypeOK

LEMMA RecordTyped ==
  ASSUME TypeOK, NEW s \in Sessions, WriteRecord(s) PROVE TypeOK'
  <1>1. Made(Attempt(s)) \in Dirs
    BY Places, MadeTyped DEF TypeOK
  <1>2. [Made(Attempt(s)) EXCEPT !.rec = ask[s].digest, !.policy = ask[s].digest,
                                 !.lease = NewLease(s), !.at = clock] \in Dirs
    BY <1>1, Places, NewLeaseTyped DEF Dirs, TypeOK
  <1>3. creating' \in [Operations -> Dirs]
    BY <1>2, AttemptSet DEF WriteRecord
  <1>4. pc' \in [Sessions -> Busy \cup {"idle", "done", "dead"}]
    BY Moves DEF WriteRecord, Busy
  <1> QED BY <1>3, <1>4 DEF WriteRecord, TypeOK, local

LEMMA RenameTyped ==
  ASSUME TypeOK, NEW s \in Sessions, Rename(s) PROVE TypeOK'
  <1>1. CASE MayRename(s)
    <2>1. [Attempt(s) EXCEPT !.at = 0] \in Dirs
      BY Places, RunnerAssumption DEF Dirs
    <2>2. live' \in [Boxes -> Dirs] /\ creating' \in [Operations -> Dirs]
      BY <1>1, <2>1, NoDirTyped, BoxSet, AttemptSet DEF Rename
    <2>3. Answer(s, "made")
      BY <1>1 DEF Rename
    <2> QED BY <2>2, <2>3, Answers DEF Rename, TypeOK, Told
  <1>2. CASE ~MayRename(s)
    <2>1. Answer(s, "refused") /\ UNCHANGED disk
      BY <1>2 DEF Rename
    <2> QED BY <2>1, Answers DEF Rename, TypeOK, Told, disk
  <1> QED BY <1>1, <1>2

LEMMA FindTyped ==
  ASSUME TypeOK, NEW s \in Sessions, Find(s) PROVE TypeOK'
  <1>1. CASE Answer(s, "refused") /\ UNCHANGED saw
    BY <1>1, Answers DEF Find, TypeOK, disk, Told
  <1>2. CASE /\ pc' = [pc EXCEPT ![s] = "open"]
             /\ saw' = [saw EXCEPT ![s] = Box(s).rec]
             /\ UNCHANGED told
    <2>1. Box(s).rec \in Digests \cup {None}
      BY Places DEF Dirs
    <2>2. saw' \in [Sessions -> Digests \cup {None}]
      BY <1>2, <2>1 DEF TypeOK
    <2>3. pc' \in [Sessions -> Busy \cup {"idle", "done", "dead"}]
      BY <1>2 DEF TypeOK, Busy
    <2> QED BY <1>2, <2>2, <2>3 DEF Find, TypeOK, disk
  <1> QED BY <1>1, <1>2 DEF Find

LEMMA OpenTyped ==
  ASSUME TypeOK, NEW s \in Sessions, OpenLock(s) PROVE TypeOK'
  <1> DEFINE d == Made(Box(s))
  <1>1. d \in Dirs
    BY Places, MadeTyped DEF TypeOK
  <1>2. /\ d.lock \cup {s} \in SUBSET Sessions /\ d.opened \cup {s} \in SUBSET Sessions
        /\ 0 \in 0..MaxClock
    BY <1>1, RunnerAssumption DEF Dirs
  <1>3. [d EXCEPT !.lock = @ \cup {s}, !.opened = @ \cup {s}, !.at = 0] \in Dirs
    BY <1>1, <1>2 DEF Dirs
  <1>4. live' \in [Boxes -> Dirs]
    BY <1>3, BoxSet DEF OpenLock
  <1>5. pc' \in [Sessions -> Busy \cup {"idle", "done", "dead"}]
    BY Moves DEF OpenLock, Busy
  <1> QED BY <1>4, <1>5 DEF OpenLock, TypeOK, local

LEMMA LockTyped ==
  ASSUME TypeOK, NEW s \in Sessions, Lock(s) PROVE TypeOK'
  <1> DEFINE h == IF s \in Box(s).lock THEN Box(s).held \cup {s} ELSE Box(s).held
  <1>1. CASE /\ SetBox(s, [Box(s) EXCEPT !.held = h])
             /\ pc' = [pc EXCEPT ![s] = "start"]
             /\ UNCHANGED told
    <2>1. Box(s) \in Dirs /\ h \in SUBSET Sessions
      BY Places DEF Dirs
    <2>2. [Box(s) EXCEPT !.held = h] \in Dirs
      BY <2>1 DEF Dirs
    <2>3. live' \in [Boxes -> Dirs]
      BY <1>1, <2>2, BoxSet
    <2>4. pc' \in [Sessions -> Busy \cup {"idle", "done", "dead"}]
      BY <1>1 DEF TypeOK, Busy
    <2> QED BY <1>1, <2>3, <2>4 DEF Lock, TypeOK
  <1>2. CASE Answer(s, "busy") /\ UNCHANGED live
    BY <1>2, Answers DEF Lock, TypeOK, Told
  <1> QED BY <1>1, <1>2 DEF Lock

LEMMA StartTyped ==
  ASSUME TypeOK, NEW s \in Sessions, Start(s) PROVE TypeOK'
  <1>1. CASE pc' = [pc EXCEPT ![s] = "running"] /\ UNCHANGED <<live, told>>
    BY <1>1 DEF Start, TypeOK, Busy
  <1>2. CASE Answer(s, "refused") /\ Freed(s)
    BY <1>2, Answers, FreedTyped DEF Start, TypeOK, Told
  <1> QED BY <1>1, <1>2 DEF Start

LEMMA RunTyped ==
  ASSUME TypeOK, NEW s \in Sessions, Run(s) PROVE TypeOK'
  <1>1. CASE pc' = [pc EXCEPT ![s] = "touch"] /\ UNCHANGED <<live, told>>
    BY <1>1 DEF Run, TypeOK, Busy
  <1>2. CASE Answer(s, "error") /\ Freed(s)
    BY <1>2, Answers, FreedTyped DEF Run, TypeOK, Told
  <1> QED BY <1>1, <1>2 DEF Run

LEMMA SuccessTyped ==
  ASSUME NEW s PROVE Success(s) \in Told
  BY DEF Success, Told

LEMMA TouchFailedTyped ==
  ASSUME TypeOK, NEW s \in Sessions, TouchFailed(s)
  PROVE  /\ pc' \in [Sessions -> Busy \cup {"idle", "done", "dead"}]
         /\ told' \in [Sessions -> Told]
         /\ live' \in [Boxes -> Dirs]
  <1>1. (IF ask[s].rpc = "create" THEN "error" ELSE Success(s)) \in Told
    BY SuccessTyped DEF Told
  <1> QED BY <1>1, Answers, FreedTyped DEF TouchFailed

LEMMA TouchTyped ==
  ASSUME TypeOK, NEW s \in Sessions, Touch(s) PROVE TypeOK'
  <1> DEFINE c == Box(s).lease
  <1>1. CASE Answer(s, Success(s)) /\ Freed(s) /\ UNCHANGED cell
    BY <1>1, Answers, FreedTyped, SuccessTyped DEF Touch, TypeOK
  <1>2. CASE TouchFailed(s) /\ UNCHANGED cell
    BY <1>2, TouchFailedTyped DEF Touch, TypeOK
  <1>3. CASE /\ cell' = [cell EXCEPT ![s] = Refreshed(c)]
             /\ pc' = [pc EXCEPT ![s] = "truncate"]
             /\ UNCHANGED <<live, told>>
    <2>1. c \in Cells
      BY Places DEF Dirs
    <2>2. Refreshed(c) \in Cells
      BY <2>1 DEF Refreshed, Cells, TypeOK
    <2>3. cell' \in [Sessions -> Cells]
      BY <1>3, <2>2 DEF TypeOK
    <2>4. pc' \in [Sessions -> Busy \cup {"idle", "done", "dead"}]
      BY <1>3 DEF TypeOK, Busy
    <2> QED BY <1>3, <2>3, <2>4 DEF Touch, TypeOK
  <1> QED BY <1>1, <1>2, <1>3 DEF Touch

LEMMA TruncateTyped ==
  ASSUME TypeOK, NEW s \in Sessions, Truncate(s) PROVE TypeOK'
  <1> DEFINE d == Made(Box(s))
             by == IF d.tmp.by = None THEN s ELSE d.tmp.by
             blank == [NoCell EXCEPT !.by = by]
  <1>1. d \in Dirs
    BY Places, MadeTyped DEF TypeOK
  <1>2. d.tmp \in Cells
    BY <1>1 DEF Dirs
  <1>3. by \in Sessions \cup {None}
    BY <1>2 DEF Cells
  <1>4. blank \in Cells /\ [cell[s] EXCEPT !.by = by] \in Cells
    <2>1. cell[s] \in Cells /\ NoCell \in Cells
      BY NoCellTyped DEF TypeOK
    <2> HIDE DEF by
    <2> QED BY <1>3, <2>1 DEF Cells
  <1>5. [d EXCEPT !.tmp = blank, !.at = 0] \in Dirs
    <2>1. d \in Dirs /\ blank \in Cells /\ 0 \in 0..MaxClock
      BY <1>1, <1>4, RunnerAssumption
    <2> HIDE DEF d, blank
    <2> QED BY <2>1 DEF Dirs
  <1>6. live' \in [Boxes -> Dirs]
    BY <1>5, BoxSet DEF Truncate
  <1>7. cell' = [cell EXCEPT ![s] = [cell[s] EXCEPT !.by = by]]
    BY DEF Truncate, TypeOK
  <1>8. cell' \in [Sessions -> Cells]
    BY <1>4, <1>7 DEF TypeOK
  <1>9. pc' \in [Sessions -> Busy \cup {"idle", "done", "dead"}]
    BY Moves DEF Truncate, Busy
  <1> QED BY <1>6, <1>8, <1>9 DEF Truncate, TypeOK

LEMMA WriteTyped ==
  ASSUME TypeOK, NEW s \in Sessions, Write(s) PROVE TypeOK'
  <1>1. Box(s) \in Dirs /\ cell[s] \in Cells
    BY Places DEF TypeOK
  <1>2. /\ [Box(s) EXCEPT !.tmp = cell[s]] \in Dirs
        /\ [Box(s) EXCEPT !.lease = cell[s]] \in Dirs
    BY <1>1 DEF Dirs
  <1>3. live' \in [Boxes -> Dirs]
    BY <1>1, <1>2, BoxSet DEF Write
  <1>4. pc' \in [Sessions -> Busy \cup {"idle", "done", "dead"}]
    BY Moves DEF Write, Busy
  <1> QED BY <1>3, <1>4 DEF Write, TypeOK, local

LEMMA ReplaceTyped ==
  ASSUME TypeOK, NEW s \in Sessions, Replace(s) PROVE TypeOK'
  <1>1. CASE TouchFailed(s)
    BY <1>1, TouchFailedTyped DEF Replace, TypeOK
  <1>2. CASE /\ Answer(s, Success(s))
             /\ SetBox(s, [Box(s) EXCEPT !.lease = Box(s).tmp, !.tmp = NoCell,
                                         !.held = @ \ {s}])
    <2>1. /\ Box(s) \in Dirs /\ Box(s).tmp \in Cells
          /\ Box(s).held \ {s} \in SUBSET Sessions
      BY Places DEF Dirs
    <2>2. [Box(s) EXCEPT !.lease = Box(s).tmp, !.tmp = NoCell, !.held = @ \ {s}] \in Dirs
      BY <2>1, NoCellTyped DEF Dirs
    <2>3. live' \in [Boxes -> Dirs]
      BY <1>2, <2>2, BoxSet
    <2> QED BY <1>2, <2>3, Answers, SuccessTyped DEF Replace, TypeOK
  <1> QED BY <1>1, <1>2 DEF Replace

LEMMA RemoveTyped ==
  ASSUME TypeOK, NEW s \in Sessions, Remove(s) PROVE TypeOK'
  <1>1. CASE /\ pc' = [pc EXCEPT ![s] = "erase"]
             /\ SetBox(s, [Box(s) EXCEPT !.reapers = @ \cup {s}])
             /\ UNCHANGED told
    <2>1. live' \in [Boxes -> Dirs]
      BY <1>1, Places, ReapersTyped, BoxSet
    <2>2. pc' \in [Sessions -> Busy \cup {"idle", "done", "dead"}]
      BY <1>1 DEF TypeOK, Busy
    <2> QED BY <1>1, <2>1, <2>2 DEF Remove, TypeOK
  <1>2. CASE Answer(s, "gone") /\ UNCHANGED live
    BY <1>2, Answers DEF Remove, TypeOK, Told
  <1> QED BY <1>1, <1>2 DEF Remove

LEMMA SurroundingsTyped ==
  ASSUME TypeOK, Tick \/ \E s \in Sessions : HangUp(s) \/ Kill(s) PROVE TypeOK'
  <1>1. CASE Tick
    BY <1>1, RunnerAssumption DEF Tick, TypeOK, disk, local
  <1>2. ASSUME NEW s \in Sessions, HangUp(s) PROVE TypeOK'
    BY <1>2 DEF HangUp, TypeOK, disk
  <1>3. ASSUME NEW s \in Sessions, Kill(s) PROVE TypeOK'
    BY <1>3, FreedTyped DEF Kill, TypeOK, Told
  <1> QED BY <1>1, <1>2, <1>3

LEMMA NextTyped == TypeOK /\ [Next]_vars => TypeOK'
  <1> SUFFICES ASSUME TypeOK, [Next]_vars PROVE TypeOK'
    OBVIOUS
  <1>1. CASE UNCHANGED vars
    BY <1>1 DEF vars, TypeOK
  <1>2. ASSUME NEW s \in Sessions, Send(s) \/ Worker(s) PROVE TypeOK'
    BY <1>2, SendTyped, SweepTyped, GcTyped, ReapTyped, UnlinkTyped, WipedTyped,
       SweptTyped, ListTyped, LookTyped, BeginTyped, ReceiveTyped, FetchTyped, CheckoutTyped, CleanupTyped, RecordTyped,
       RenameTyped, FindTyped, OpenTyped, LockTyped, StartTyped, RunTyped, TouchTyped, TruncateTyped,
       WriteTyped, ReplaceTyped, RemoveTyped DEF Worker
  <1> QED BY <1>1, <1>2, SurroundingsTyped DEF Next

(* Every variable of the runner's model keeps its type, for any channels,   *)
(* boxes, requests, faults and deadlines.                                   *)
THEOREM RunnerTypes == Spec => []TypeOK
  BY InitTyped, NextTyped, PTL DEF Spec

-----------------------------------------------------------------------------
(* The lock. *)

\* Nobody has opened a lock in a directory, or set about removing it.
Plain(d) == d.lock = {} /\ d.held = {} /\ d.opened = {} /\ d.reapers = {}

\* Whoever opened a lock asks for that box until it is done.  A lock is held by
\* those that opened it; as long as nobody removes the directory it is the one
\* they all opened, and who is at work has it.
Locked(b, d) ==
  /\ \A s \in d.opened : pc[s] # "idle" /\ ask[s].box = b
  /\ d.held \subseteq d.opened /\ d.lock \subseteq d.opened
  /\ \A s \in d.held : Exporting(s) => d.held = {s}
  /\ d.reapers = {} =>
       /\ d.lock = d.opened
       /\ \A s \in d.opened : pc[s] \in {"start", "running"} => s \in d.held

Holders ==
  /\ \A b \in Boxes : Locked(b, live[b])
  /\ \A o \in Operations : Plain(creating[o])

LEMMA Asking ==
  ASSUME TypeOK, Next, NEW t \in Sessions, pc[t] # "idle"
  PROVE  pc'[t] # "idle" /\ ask'[t] = ask[t]
  <1>1. ASSUME NEW s \in Sessions, Send(s)
        PROVE  pc'[t] # "idle" /\ ask'[t] = ask[t]
    BY <1>1 DEF Send, TypeOK
  <1>2. ASSUME NEW s \in Sessions, Worker(s)
        PROVE  pc'[t] # "idle" /\ ask'[t] = ask[t]
    <2>1. CASE Sweep(s) \/ Gc(s) \/ Swept(s) \/ List(s) \/ Look(s)
      BY <2>1 DEF TypeOK, Sweep, Gc, Swept, List, Look, Goto, Answer, AfterSweep
    <2>5. CASE Reap(s)
      <3>1. /\ UNCHANGED ask
            /\ UNCHANGED pc \/ pc' = [pc EXCEPT ![s] = "wipe"]
        BY <2>5 DEF Reap
      <3> QED BY <3>1 DEF TypeOK
    <2>4. CASE Unlink(s) \/ Wiped(s) \/ WipeFails(s)
      BY <2>4 DEF TypeOK, Unlink, Wiped, WipeFails, NextItem, Answer, local
    <2>2. CASE Begin(s) \/ Receive(s) \/ Fetch(s) \/ Checkout(s) \/ Cleanup(s)
                 \/ WriteRecord(s) \/ Rename(s)
      <3>1. CASE Begin(s) \/ Receive(s) \/ WriteRecord(s)
        BY <3>1 DEF TypeOK, Begin, Receive, WriteRecord, Goto, AfterReceive, local
      <3>2. CASE Fetch(s)
        <4>1. /\ \E to \in {"checkout", "cleanup"} : pc' = [pc EXCEPT ![s] = to]
              /\ UNCHANGED ask
          BY <3>2 DEF Fetch, Goto, local
        <4> QED BY <4>1 DEF TypeOK
      <3>3. CASE Checkout(s)
        <4>1. /\ \E to \in {"record", "cleanup"} : pc' = [pc EXCEPT ![s] = to]
              /\ UNCHANGED ask
          BY <3>3 DEF Checkout, Goto, local
        <4> QED BY <4>1 DEF TypeOK
      <3>4. CASE Cleanup(s) \/ Rename(s)
        BY <3>4 DEF TypeOK, Cleanup, Rename, Answer
      <3> QED BY <2>2, <3>1, <3>2, <3>3, <3>4
    <2>3. CASE Find(s) \/ OpenLock(s) \/ Lock(s) \/ Start(s) \/ Run(s) \/ Touch(s) \/ Truncate(s)
                 \/ Write(s) \/ Replace(s) \/ Remove(s)
      BY <2>3 DEF TypeOK, Find, OpenLock, Lock, Start, Run, Touch, Truncate, Write, Replace, Remove,
         TouchFailed, Goto, Answer, local
    <2> QED BY <1>2, <2>1, <2>2, <2>3, <2>4, <2>5 DEF Worker
  <1>3. ASSUME NEW s \in Sessions, HangUp(s) \/ Kill(s)
        PROVE  pc'[t] # "idle" /\ ask'[t] = ask[t]
    BY <1>3 DEF HangUp, Kill, TypeOK
  <1>4. ASSUME Tick PROVE pc'[t] # "idle" /\ ask'[t] = ask[t]
    BY <1>4 DEF Tick, local
  <1> QED BY <1>1, <1>2, <1>3, <1>4 DEF Next

\* A step of one channel leaves the others' requests and places alone.
LEMMA OthersStay ==
  ASSUME TypeOK, NEW s \in Sessions, Send(s) \/ Worker(s) \/ HangUp(s) \/ Kill(s),
         NEW t \in Sessions, t # s
  PROVE  pc'[t] = pc[t] /\ ask'[t] = ask[t] /\ todo'[t] = todo[t] /\ saw'[t] = saw[t]
           /\ told'[t] = told[t]
  <1>1. CASE Send(s) \/ HangUp(s) \/ Kill(s)
    BY <1>1 DEF TypeOK, Send, HangUp, Kill
  <1>8. CASE Reap(s)
    BY <1>8 DEF TypeOK, Reap
  <1>2. CASE Sweep(s) \/ Gc(s) \/ Swept(s) \/ List(s) \/ Look(s)
    BY <1>2 DEF TypeOK, Sweep, Gc, Swept, List, Look, Goto, Answer
  <1>7. CASE Unlink(s) \/ Wiped(s) \/ WipeFails(s)
    BY <1>7 DEF TypeOK, Unlink, Wiped, WipeFails, NextItem, Answer, local
  <1>3. CASE Begin(s) \/ Receive(s) \/ WriteRecord(s)
    BY <1>3 DEF TypeOK, Begin, Receive, WriteRecord, Goto, local
  <1>4. CASE Fetch(s) \/ Checkout(s)
    <2>1. (\E to : pc' = [pc EXCEPT ![s] = to]) /\ UNCHANGED local
      BY <1>4 DEF Fetch, Checkout, Goto
    <2> QED BY <2>1 DEF TypeOK, local
  <1>5. CASE Cleanup(s) \/ Rename(s)
    BY <1>5 DEF TypeOK, Cleanup, Rename, Answer
  <1>6. CASE Find(s) \/ OpenLock(s) \/ Lock(s) \/ Start(s) \/ Run(s) \/ Touch(s) \/ Truncate(s)
               \/ Write(s) \/ Replace(s) \/ Remove(s)
    BY <1>6 DEF TypeOK, Find, OpenLock, Lock, Start, Run, Touch, Truncate, Write, Replace, Remove,
       TouchFailed, Goto, Answer, local
  <1> QED BY <1>1, <1>2, <1>3, <1>4, <1>5, <1>6, <1>7, <1>8 DEF Worker

LEMMA PlainDirs ==
  /\ Plain(NoDir)
  /\ \A d \in Dirs : Plain(d) => Plain(Made(d))
  /\ \A d \in Dirs : Empty(d) => d.rec = None /\ d.lock = {} /\ d.held = {}
  <1>1. Plain(NoDir)
    BY DEF NoDir, Plain
  <1>2. ASSUME NEW d \in Dirs, Plain(d) PROVE Plain(Made(d))
    <2>1. Plain([NoDir EXCEPT !.here = TRUE, !.at = clock])
      BY DEF NoDir, Plain
    <2> QED BY <1>2, <2>1 DEF Made
  <1>3. ASSUME NEW d \in Dirs, Empty(d) PROVE d.rec = None /\ d.lock = {} /\ d.held = {}
    <2> DEFINE e == [d EXCEPT !.here = FALSE, !.opened = {}, !.reapers = {}, !.at = 0]
    <2>1. e = NoDir
      BY <1>3 DEF Empty
    <2>2. e.rec = d.rec /\ e.lock = d.lock /\ e.held = d.held
      BY DEF Dirs
    <2>3. NoDir.rec = None /\ NoDir.lock = {} /\ NoDir.held = {}
      BY DEF NoDir
    <2> HIDE DEF e
    <2> QED BY <2>1, <2>2, <2>3
  <1> QED BY <1>1, <1>2, <1>3

LEMMA AttemptsPlain ==
  ASSUME TypeOK, Next, NEW o \in Operations, Plain(creating[o])
  PROVE  Plain(creating'[o])
  <1>1. ASSUME NEW s \in Sessions, NEW d \in Dirs, SetAttempt(s, d),
               o = Op(s) => Plain(d)
        PROVE  Plain(creating'[o])
    BY <1>1, Places DEF SetAttempt, TypeOK
  <1>2. ASSUME NEW s \in Sessions, Begin(s) \/ Cleanup(s) PROVE Plain(creating'[o])
    <2>1. [NoDir EXCEPT !.here = TRUE, !.work = "bare", !.at = clock] \in Dirs
      BY NoDirTyped DEF Dirs, Stages, TypeOK
    <2>2. Plain([NoDir EXCEPT !.here = TRUE, !.work = "bare", !.at = clock])
      BY DEF NoDir, Plain
    <2> QED BY <1>1, <1>2, <2>1, <2>2, PlainDirs, NoDirTyped DEF Begin, Cleanup
  <1>3. ASSUME NEW s \in Sessions,
               Receive(s) \/ Fetch(s) \/ Checkout(s) \/ WriteRecord(s)
        PROVE  Plain(creating'[o])
    <2>1. CASE o # Op(s)
      BY <1>3, <2>1, Places
         DEF Receive, Fetch, Checkout, WriteRecord, SetAttempt, TypeOK
    <2>2. CASE o = Op(s)
      <3> DEFINE m == Made(Attempt(s))
      <3>1. Attempt(s) \in Dirs /\ Plain(Attempt(s)) /\ m \in Dirs /\ Plain(m)
        BY <2>2, Places, MadeTyped, PlainDirs DEF Attempt, TypeOK
      <3> HIDE DEF m
      <3>2. CASE Receive(s)
        <4>1. creating' = [creating EXCEPT ![o] = [m EXCEPT !.bundle = ~hung[s], !.at = clock]]
          BY <2>2, <3>2 DEF Receive, SetAttempt, m
        <4>2. Plain([m EXCEPT !.bundle = ~hung[s], !.at = clock])
          BY <3>1 DEF Dirs, Plain
        <4> QED BY <4>1, <4>2 DEF TypeOK
      <3>3. CASE Fetch(s)
        <4>1. PICK w : creating' = [creating EXCEPT ![o] = [m EXCEPT !.work = w]]
          <5>1. PICK fetched \in BOOLEAN :
                  creating' = [creating EXCEPT ![o] =
                    [m EXCEPT !.work = IF fetched /\ @ # "whole" THEN "part"
                                       ELSE IF @ = "none" THEN "bare" ELSE @]]
            BY <2>2, <3>3 DEF Fetch, SetAttempt, m
          <5> DEFINE w == IF fetched /\ m.work # "whole" THEN "part"
                          ELSE IF m.work = "none" THEN "bare" ELSE m.work
          <5>2. creating' = [creating EXCEPT ![o] = [m EXCEPT !.work = w]]
            BY <5>1
          <5> HIDE DEF w
          <5> QED BY <5>2
        <4>2. Plain([m EXCEPT !.work = w])
          BY <3>1 DEF Dirs, Plain
        <4> QED BY <4>1, <4>2 DEF TypeOK
      <3>4. CASE Checkout(s)
        <4>1. \/ UNCHANGED creating
              \/ creating' = [creating EXCEPT ![o] = [Attempt(s) EXCEPT !.work = "whole",
                                                                       !.bundle = FALSE]]
          BY <2>2, <3>4 DEF Checkout, SetAttempt
        <4>2. Plain([Attempt(s) EXCEPT !.work = "whole", !.bundle = FALSE])
          BY <3>1 DEF Dirs, Plain
        <4> QED BY <4>1, <4>2 DEF TypeOK
      <3>5. CASE WriteRecord(s)
        <4>1. creating' = [creating EXCEPT ![o] = [m EXCEPT !.rec = ask[s].digest,
                             !.policy = ask[s].digest, !.lease = NewLease(s), !.at = clock]]
          BY <2>2, <3>5 DEF WriteRecord, SetAttempt, m
        <4>2. Plain([m EXCEPT !.rec = ask[s].digest, !.policy = ask[s].digest,
                              !.lease = NewLease(s), !.at = clock])
          BY <3>1 DEF Dirs, Plain
        <4> QED BY <4>1, <4>2 DEF TypeOK
      <3> QED BY <1>3, <3>2, <3>3, <3>4, <3>5
    <2> QED BY <2>1, <2>2
  <1>4. ASSUME NEW s \in Sessions, Reap(s) PROVE Plain(creating'[o])
    <2>1. creating' = creating \/ creating' = [creating EXCEPT ![First(s)[2]] = NoDir]
      BY <1>4 DEF Reap
    <2> QED BY <2>1, PlainDirs DEF TypeOK
  <1>5. ASSUME NEW s \in Sessions, Rename(s) PROVE Plain(creating'[o])
    BY <1>1, <1>5, PlainDirs, NoDirTyped DEF Rename, disk
  <1>6. ASSUME UNCHANGED creating PROVE Plain(creating'[o])
    BY <1>6
  <1>7. ASSUME NEW s \in Sessions,
               \/ Send(s) \/ Sweep(s) \/ Gc(s) \/ Swept(s) \/ List(s) \/ Look(s)
               \/ Unlink(s) \/ Wiped(s) \/ WipeFails(s)
        PROVE  UNCHANGED creating
    BY <1>7 DEF Send, Sweep, Gc, Swept, List, Look, Unlink, Wiped, WipeFails, disk
  <1>8. ASSUME NEW s \in Sessions,
               \/ Find(s) \/ OpenLock(s) \/ Lock(s) \/ Start(s) \/ Run(s) \/ Touch(s)
               \/ Truncate(s) \/ Write(s) \/ Replace(s) \/ Remove(s) \/ HangUp(s) \/ Kill(s)
        PROVE  UNCHANGED creating
    BY <1>8 DEF Find, OpenLock, Lock, Start, Run, Touch, Truncate, Write, Replace, Remove,
       HangUp, Kill, disk
  <1>9. ASSUME Tick PROVE UNCHANGED creating
    BY <1>9 DEF Tick, disk
  <1> QED BY <1>2, <1>3, <1>4, <1>5, <1>6, <1>7, <1>8, <1>9 DEF Next, Worker

\* What becomes of the locks of one directory in a step: nobody new comes in, or
\* it is another directory, or somebody opens its lock, or takes it.
Quiet(d, e) ==
  /\ e.opened = d.opened /\ e.held \subseteq d.held /\ e.lock \subseteq d.lock
  /\ d.reapers \subseteq e.reapers
  /\ e.reapers = {} =>
       /\ e.lock = d.lock
       /\ \A t \in d.held \ e.held : pc'[t] \notin {"start", "running"}

Fresh(e) == e.opened = {} /\ e.held = {} /\ e.lock = {}

Opens(s, d, e) ==
  /\ pc[s] = "open" /\ pc'[s] = "lock"
  /\ e.opened = d.opened \cup {s} /\ e.lock = d.lock \cup {s}
  /\ e.held = d.held /\ e.reapers = d.reapers

Takes(s, d, e) ==
  /\ pc[s] = "lock"
  /\ s \in d.lock => MayLock(s)
  /\ e.held = IF s \in d.lock THEN d.held \cup {s} ELSE d.held
  /\ e.opened = d.opened /\ e.lock = d.lock /\ e.reapers = d.reapers

LEMMA FreedQuiet ==
  ASSUME TypeOK, NEW s \in Sessions, Freed(s), pc'[s] \notin {"start", "running"},
         NEW b \in Boxes
  PROVE  Quiet(live[b], live'[b])
  <1>1. live[b] \in Dirs /\ live'[b] = [live[b] EXCEPT !.held = @ \ {s}]
    BY DEF Freed, TypeOK
  <1>2. /\ live'[b].held = live[b].held \ {s} /\ live'[b].opened = live[b].opened
        /\ live'[b].lock = live[b].lock /\ live'[b].reapers = live[b].reapers
    BY <1>1 DEF Dirs
  <1> QED BY <1>2 DEF Quiet

LEMMA LockMoves ==
  ASSUME TypeOK, Holders, Next, NEW b \in Boxes
  PROVE  \/ Quiet(live[b], live'[b]) \/ Fresh(live'[b])
         \/ \E s \in Sessions : /\ ask[s].box = b
                                /\ \/ Opens(s, live[b], live'[b])
                                   \/ OpenLock(s) /\ live'[b].opened = {s} /\ live'[b].lock = {s}
                                        /\ live'[b].held = {} /\ pc'[s] = "lock"
                                   \/ Takes(s, live[b], live'[b])
  <1> DEFINE Calmly == Quiet(live[b], live'[b])
  <1>1. ASSUME UNCHANGED live PROVE Calmly
    BY <1>1 DEF Quiet
  <1>2. ASSUME NEW s \in Sessions, NEW d, SetBox(s, d), Quiet(Box(s), d) PROVE Calmly
    <2>1. CASE b = ask[s].box
      BY <1>2, <2>1, Places DEF SetBox, Box, TypeOK
    <2>2. CASE b # ask[s].box
      <3>1. live'[b] = live[b]
        BY <1>2, <2>2 DEF SetBox, TypeOK
      <3> QED BY <3>1 DEF Quiet
    <2> QED BY <2>1, <2>2
  <1>3. ASSUME NEW s \in Sessions PROVE Box(s) \in Dirs /\ Made(Box(s)) \in Dirs
    BY Places, MadeTyped DEF TypeOK
  <1>4. ASSUME NEW x, NEW d, x # b, live' = [live EXCEPT ![x] = d] PROVE Calmly
    <2>1. live'[b] = live[b]
      BY <1>4 DEF TypeOK
    <2> QED BY <2>1 DEF Quiet
  <1>5. ASSUME NEW d, live' = [live EXCEPT ![b] = d] PROVE live'[b] = d
    BY <1>5 DEF TypeOK
  <1>6. ASSUME NEW s \in Sessions, Reap(s) PROVE Calmly
    <2>1. CASE UNCHANGED live
      BY <1>1, <2>1
    <2>2. CASE live' = [live EXCEPT ![First(s)[2]].reapers = @ \cup {s}]
      <3>1. CASE First(s)[2] # b
        BY <1>4, <2>2, <3>1
      <3>2. CASE First(s)[2] = b
        <4>1. live[b] \in Dirs /\ live'[b] = [live[b] EXCEPT !.reapers = @ \cup {s}]
          BY <2>2, <3>2 DEF TypeOK
        <4> QED BY <4>1 DEF Quiet, Dirs
      <3> QED BY <3>1, <3>2
    <2> QED BY <1>6, <2>1, <2>2 DEF Reap
  <1>7. ASSUME NEW s \in Sessions, Unlink(s) PROVE Calmly
    <2>1. PICK d \in Less(live[Aim(s)]) : live' = [live EXCEPT ![Aim(s)] = d]
      BY <1>7 DEF Unlink
    <2>2. CASE Aim(s) # b
      BY <1>4, <2>1, <2>2
    <2>3. CASE Aim(s) = b
      <3>1. live[b] \in Dirs /\ s \in live[b].reapers /\ live'[b] = d /\ d \in Less(live[b])
        BY <1>5, <1>7, <2>1, <2>3 DEF Unlink, TypeOK
      <3>2. d.opened = live[b].opened /\ d.reapers = live[b].reapers
            /\ d.held \subseteq live[b].held /\ d.lock \subseteq live[b].lock
        BY <3>1, LessTyped
      <3> QED BY <3>1, <3>2 DEF Quiet
    <2> QED BY <2>2, <2>3
  <1>8. ASSUME NEW s \in Sessions, Wiped(s) PROVE Calmly \/ Fresh(live'[b])
    <2>1. live' = [live EXCEPT ![Aim(s)] = NoDir]
      BY <1>8 DEF Wiped
    <2>2. CASE Aim(s) # b
      BY <1>4, <2>1, <2>2
    <2>3. CASE Aim(s) = b
      BY <1>5, <2>1, <2>3 DEF Fresh, NoDir
    <2> QED BY <2>2, <2>3
  <1>9. ASSUME NEW s \in Sessions, Rename(s) PROVE Calmly \/ Fresh(live'[b])
    <2>1. CASE UNCHANGED live
      BY <1>1, <2>1
    <2>2. CASE live' = [live EXCEPT ![ask[s].box] = [Attempt(s) EXCEPT !.at = 0]]
      <3>1. CASE ask[s].box # b
        BY <1>4, <2>2, <3>1
      <3>2. CASE ask[s].box = b
        <4>1. Attempt(s) \in Dirs /\ Plain(Attempt(s))
          BY Places DEF Holders, Attempt
        <4>2. live'[b] = [Attempt(s) EXCEPT !.at = 0]
          BY <1>5, <2>2, <3>2
        <4> QED BY <4>1, <4>2 DEF Plain, Fresh, Dirs
      <3> QED BY <3>1, <3>2
    <2> QED BY <1>9, <2>1, <2>2 DEF Rename, disk, SetBox
  <1>10. ASSUME NEW s \in Sessions, Remove(s) PROVE Calmly
    <2>1. Quiet(Box(s), [Box(s) EXCEPT !.reapers = @ \cup {s}])
      BY <1>3 DEF Quiet, Dirs
    <2> QED BY <1>1, <1>2, <1>10, <2>1 DEF Remove
  <1>11. ASSUME NEW s \in Sessions, Truncate(s) PROVE Calmly \/ Fresh(live'[b])
    <2> DEFINE m == Made(Box(s))
    <2>1. PICK x : SetBox(s, [m EXCEPT !.tmp = x, !.at = 0])
      BY <1>11 DEF Truncate
    <2> DEFINE e == [m EXCEPT !.tmp = x, !.at = 0]
    <2>2. /\ e.opened = m.opened /\ e.held = m.held /\ e.lock = m.lock
          /\ e.reapers = m.reapers
      BY <1>3 DEF Dirs
    <2>3. CASE Box(s).here
      <3>1. m = Box(s)
        BY <2>3 DEF Made
      <3>2. Quiet(Box(s), e)
        <4> HIDE DEF m, e
        <4> QED BY <2>2, <3>1 DEF Quiet
      <3> QED BY <1>2, <2>1, <3>2
    <2>4. CASE ~Box(s).here
      <3>1. m.opened = {} /\ m.held = {} /\ m.lock = {}
        BY <2>4 DEF Made, NoDir
      <3>2. Fresh(e)
        BY <2>2, <3>1 DEF Fresh
      <3>3. live' = [live EXCEPT ![ask[s].box] = e]
        BY <2>1 DEF SetBox
      <3> HIDE DEF e
      <3> QED BY <1>4, <1>5, <3>2, <3>3
    <2> QED BY <2>3, <2>4
  <1>12. ASSUME NEW s \in Sessions, Write(s) PROVE Calmly
    <2>1. \A d \in {[Box(s) EXCEPT !.tmp = cell[s]], [Box(s) EXCEPT !.lease = cell[s]], Box(s)} :
            Quiet(Box(s), d)
      BY <1>3 DEF Dirs, Quiet
    <2>2. PICK d : SetBox(s, d) /\ d \in {[Box(s) EXCEPT !.tmp = cell[s]],
                                        [Box(s) EXCEPT !.lease = cell[s]], Box(s)}
      BY <1>12 DEF Write
    <2> QED BY <1>2, <2>1, <2>2
  <1>13. ASSUME NEW s \in Sessions, NEW w, Answer(s, w)
         PROVE  pc'[s] \notin {"start", "running"}
    BY <1>13 DEF Answer, TypeOK
  <1>14. ASSUME NEW s \in Sessions, Replace(s) PROVE Calmly
    <2> DEFINE e == [Box(s) EXCEPT !.lease = Box(s).tmp, !.tmp = NoCell, !.held = @ \ {s}]
    <2>1. /\ e.held = Box(s).held \ {s} /\ e.opened = Box(s).opened /\ e.lock = Box(s).lock
          /\ e.reapers = Box(s).reapers
      BY <1>3 DEF Dirs
    <2>2. CASE TouchFailed(s)
      BY <1>13, <2>2, FreedQuiet DEF TouchFailed
    <2>3. CASE Answer(s, Success(s)) /\ SetBox(s, e)
      <3>1. Quiet(Box(s), e)
        <4> HIDE DEF e
        <4> QED BY <1>13, <2>1, <2>3 DEF Quiet
      <3> HIDE DEF e
      <3> QED BY <1>2, <2>3, <3>1
    <2> QED BY <1>14, <2>2, <2>3 DEF Replace
  <1>15. ASSUME NEW s \in Sessions, Start(s) \/ Run(s) \/ Touch(s) PROVE Calmly
    <2>1. UNCHANGED live \/ (Freed(s) /\ \E w : Answer(s, w))
      BY <1>15 DEF Start, Run, Touch, TouchFailed
    <2> QED BY <1>1, <1>13, <2>1, FreedQuiet
  <1>16. ASSUME NEW s \in Sessions, Kill(s) PROVE Calmly
    <2>1. pc'[s] = "dead"
      BY <1>16 DEF Kill, TypeOK
    <2> QED BY <1>16, <2>1, FreedQuiet DEF Kill
  <1>17. ASSUME NEW s \in Sessions, OpenLock(s)
         PROVE  \/ Calmly
                \/ /\ ask[s].box = b
                   /\ \/ Opens(s, live[b], live'[b])
                      \/ OpenLock(s) /\ live'[b].opened = {s} /\ live'[b].lock = {s}
                           /\ live'[b].held = {} /\ pc'[s] = "lock"
    <2> DEFINE m == Made(Box(s))
               e == [m EXCEPT !.lock = @ \cup {s}, !.opened = @ \cup {s}, !.at = 0]
    <2>1. live' = [live EXCEPT ![ask[s].box] = e] /\ pc[s] = "open" /\ pc'[s] = "lock"
      BY <1>17 DEF OpenLock, SetBox, Goto, TypeOK
    <2>2. /\ e.opened = m.opened \cup {s} /\ e.lock = m.lock \cup {s} /\ e.held = m.held
          /\ e.reapers = m.reapers
      BY <1>3 DEF Dirs
    <2>3. CASE ask[s].box # b
      <3> HIDE DEF e
      <3> QED BY <1>4, <2>1, <2>3
    <2>4. CASE ask[s].box = b /\ Box(s).here
      <3>1. m = live[b]
        BY <2>4 DEF Made, Box
      <3>2. live'[b] = e
        BY <1>5, <2>1, <2>4
      <3> HIDE DEF e, m
      <3> QED BY <2>1, <2>2, <2>4, <3>1, <3>2 DEF Opens
    <2>5. CASE ask[s].box = b /\ ~Box(s).here
      <3>1. m.opened = {} /\ m.held = {} /\ m.lock = {}
        BY <2>5 DEF Made, NoDir
      <3>2. live'[b] = e
        BY <1>5, <2>1, <2>5
      <3> HIDE DEF e, m
      <3> QED BY <1>17, <2>1, <2>2, <2>5, <3>1, <3>2
    <2> QED BY <2>3, <2>4, <2>5
  <1>18. ASSUME NEW s \in Sessions, Lock(s)
         PROVE  Calmly \/ (ask[s].box = b /\ Takes(s, live[b], live'[b]))
    <2> DEFINE h == IF s \in Box(s).lock THEN Box(s).held \cup {s} ELSE Box(s).held
               e == [Box(s) EXCEPT !.held = h]
    <2>1. CASE UNCHANGED live
      BY <1>1, <2>1
    <2>2. CASE (s \in Box(s).lock => MayLock(s)) /\ SetBox(s, e)
      <3>1. /\ e.held = h /\ e.opened = Box(s).opened /\ e.lock = Box(s).lock
            /\ e.reapers = Box(s).reapers
        BY <1>3 DEF Dirs
      <3>2. live' = [live EXCEPT ![ask[s].box] = e] /\ pc[s] = "lock"
        BY <1>18, <2>2 DEF Lock, SetBox
      <3>3. CASE ask[s].box # b
        <4> HIDE DEF e
        <4> QED BY <1>4, <3>2, <3>3
      <3>4. CASE ask[s].box = b
        <4>1. live'[b] = e /\ Box(s) = live[b]
          BY <1>5, <3>2, <3>4 DEF Box
        <4>2. e.held = IF s \in live[b].lock THEN live[b].held \cup {s} ELSE live[b].held
          BY <3>1, <4>1
        <4> HIDE DEF e, h
        <4> QED BY <2>2, <3>1, <3>2, <3>4, <4>1, <4>2 DEF Takes
      <3> QED BY <3>3, <3>4
    <2> QED BY <1>18, <2>1, <2>2 DEF Lock
  <1>19. ASSUME NEW s \in Sessions,
                \/ Send(s) \/ Sweep(s) \/ Gc(s) \/ Swept(s) \/ List(s) \/ Look(s)
                \/ Begin(s) \/ Receive(s) \/ Fetch(s) \/ Checkout(s) \/ Cleanup(s)
                \/ WriteRecord(s) \/ Find(s) \/ HangUp(s) \/ WipeFails(s)
         PROVE  Calmly
    BY <1>1, <1>19 DEF Send, Sweep, Gc, Swept, List, Look, Begin, Receive, Fetch, Checkout,
       Cleanup, WriteRecord, Find, HangUp, WipeFails, disk
  <1>20. ASSUME Tick PROVE Calmly
    BY <1>1, <1>20 DEF Tick, disk
  <1> HIDE DEF Calmly
  <1>21. Calmly \/ Fresh(live'[b]) \/ \E s \in Sessions : OpenLock(s) \/ Lock(s)
    BY <1>6, <1>7, <1>8, <1>9, <1>10, <1>11, <1>12, <1>14, <1>15, <1>16, <1>19, <1>20
       DEF Next, Worker
  <1> QED BY <1>17, <1>18, <1>21 DEF Calmly

\* Nobody comes to work but by taking a lock.
LEMMA ToWork ==
  ASSUME TypeOK, Next, NEW t \in Sessions, pc'[t] \in {"start", "running"}
  PROVE  pc[t] \in {"start", "running"} \/ Lock(t)
  <1>1. ASSUME NEW s \in Sessions, s # t, Send(s) \/ Worker(s) \/ HangUp(s) \/ Kill(s)
        PROVE  pc'[t] = pc[t]
    BY <1>1, OthersStay
  <1>2. CASE Send(t) \/ HangUp(t) \/ Kill(t)
    BY <1>2 DEF Send, HangUp, Kill, TypeOK
  <1>3. CASE Worker(t)
    <2>1. CASE Lock(t) \/ Start(t) \/ Run(t)
      BY <2>1 DEF Start, Run
    <2>2. CASE ~(Lock(t) \/ Start(t) \/ Run(t))
      <3>1. CASE Sweep(t) \/ Gc(t) \/ Reap(t) \/ Swept(t) \/ List(t) \/ Look(t)
        BY <3>1 DEF TypeOK, Sweep, Gc, Reap, Swept, List, Look, Goto, Answer, AfterSweep
      <3>2. CASE Unlink(t) \/ Wiped(t) \/ WipeFails(t)
        BY <3>2 DEF TypeOK, Unlink, Wiped, WipeFails, NextItem, Answer
      <3>3. CASE Begin(t) \/ Receive(t) \/ WriteRecord(t) \/ Cleanup(t) \/ Rename(t)
        BY <3>3 DEF TypeOK, Begin, Receive, AfterReceive, WriteRecord, Cleanup, Rename,
           Goto, Answer
      <3>4. CASE Fetch(t) \/ Checkout(t)
        <4>1. \E to \in {"checkout", "cleanup", "record"} : pc' = [pc EXCEPT ![t] = to]
          BY <3>4 DEF Fetch, Checkout, Goto
        <4> QED BY <4>1 DEF TypeOK
      <3>5. CASE Find(t) \/ OpenLock(t) \/ Touch(t) \/ Truncate(t) \/ Write(t)
                   \/ Replace(t) \/ Remove(t)
        BY <3>5 DEF TypeOK, Find, OpenLock, Touch, Truncate, Write, Replace, Remove,
           TouchFailed, Goto, Answer
      <3> QED BY <1>3, <2>2, <3>1, <3>2, <3>3, <3>4, <3>5 DEF Worker
    <2> QED BY <2>1, <2>2
  <1>4. CASE Tick
    BY <1>4 DEF Tick
  <1> QED BY <1>1, <1>2, <1>3, <1>4 DEF Next

LEMMA LockedKept ==
  ASSUME TypeOK, Holders, Next, NEW b \in Boxes
  PROVE  Locked(b, live[b])'
  <1> DEFINE d == live[b]
             e == live'[b]
  <1>1. /\ Locked(b, d) /\ d.opened \subseteq Sessions
        /\ d.held \subseteq d.opened /\ d.lock \subseteq d.opened
    BY DEF Holders, Locked, TypeOK, Dirs
  <1>2. ASSUME NEW t \in d.opened
        PROVE  pc'[t] # "idle" /\ ask'[t] = ask[t] /\ ask[t].box = b
    BY <1>1, <1>2, Asking DEF Locked
  <1>3. ASSUME NEW t \in d.opened, d.reapers = {}, pc'[t] \in {"start", "running"}
        PROVE  t \in d.held \/ (Lock(t) /\ t \in d.lock)
    BY <1>1, <1>3, ToWork DEF Locked
  <1>4. ASSUME NEW t \in Sessions, ask[t].box = b, Lock(t), t \in d.lock,
               pc'[t] \in {"start", "running"}
        PROVE  t \in e.held
    <2>1. Box(t) = d /\ live[b] \in Dirs
      BY <1>4 DEF Box, TypeOK
    <2>2. SetBox(t, [d EXCEPT !.held = @ \cup {t}])
      BY <1>4, <2>1 DEF Lock, Answer, TypeOK
    <2>3. e = [d EXCEPT !.held = @ \cup {t}]
      BY <1>4, <2>2 DEF SetBox, TypeOK
    <2> QED BY <2>1, <2>3 DEF Dirs
  <1>5. ASSUME NEW t \in d.opened PROVE Exporting(t)' <=> Exporting(t)
    BY <1>2, <1>5 DEF Exporting
  <1> HIDE DEF d, e
  <1> DEFINE Goal ==
        /\ \A s \in e.opened : pc'[s] # "idle" /\ ask'[s].box = b
        /\ e.held \subseteq e.opened /\ e.lock \subseteq e.opened
        /\ \A s \in e.held : Exporting(s)' => e.held = {s}
        /\ e.reapers = {} =>
             /\ e.lock = e.opened
             /\ \A s \in e.opened : pc'[s] \in {"start", "running"} => s \in e.held
  <1> SUFFICES Goal
    BY DEF Locked, d, e
  <1>6. CASE Quiet(d, e)
    <2>1. /\ \A s \in e.opened : pc'[s] # "idle" /\ ask'[s].box = b
          /\ e.held \subseteq e.opened /\ e.lock \subseteq e.opened
      BY <1>1, <1>2, <1>6 DEF Quiet
    <2>2. \A s \in e.held : Exporting(s)' => e.held = {s}
      BY <1>1, <1>5, <1>6 DEF Quiet, Locked
    <2>3. ASSUME e.reapers = {} PROVE d.reapers = {} /\ e.lock = e.opened
      BY <1>1, <1>6, <2>3 DEF Quiet, Locked
    <2>4. ASSUME e.reapers = {}, NEW s \in e.opened, pc'[s] \in {"start", "running"}
          PROVE  s \in e.held
      <3>1. s \in d.opened /\ s \in Sessions /\ ask[s].box = b
        BY <1>1, <1>2, <1>6, <2>4 DEF Quiet
      <3>2. s \in d.held \/ (Lock(s) /\ s \in d.lock)
        BY <1>3, <2>3, <2>4, <3>1
      <3> QED BY <1>4, <1>6, <2>4, <3>1, <3>2 DEF Quiet
    <2> QED BY <2>1, <2>2, <2>3, <2>4
  <1>7. CASE Fresh(e)
    BY <1>7 DEF Fresh
  <1>8. ASSUME NEW s \in Sessions, ask[s].box = b, Opens(s, d, e) PROVE Goal
    <2>1. pc[s] # "idle"
      BY <1>8 DEF Opens
    <2>2. pc'[s] # "idle" /\ ask'[s] = ask[s]
      BY <2>1, Asking
    <2>3. /\ \A t \in e.opened : pc'[t] # "idle" /\ ask'[t].box = b
          /\ e.held \subseteq e.opened /\ e.lock \subseteq e.opened
      BY <1>1, <1>2, <1>8, <2>2 DEF Opens
    <2>4. \A t \in e.held : Exporting(t)' => e.held = {t}
      BY <1>1, <1>5, <1>8 DEF Opens, Locked
    <2>5. e.reapers = {} => e.lock = e.opened
      BY <1>1, <1>8 DEF Opens, Locked
    <2>6. ASSUME e.reapers = {}, NEW t \in e.opened, pc'[t] \in {"start", "running"}
          PROVE  t \in e.held
      <3>1. t # s /\ t \in d.opened /\ t \in Sessions /\ d.reapers = {} /\ ask[t].box = b
        BY <1>1, <1>2, <1>8, <2>6 DEF Opens
      <3>2. t \in d.held \/ (Lock(t) /\ t \in d.lock)
        BY <1>3, <2>6, <3>1
      <3> QED BY <1>4, <1>8, <2>6, <3>1, <3>2 DEF Opens
    <2> QED BY <2>3, <2>4, <2>5, <2>6
  <1>9. ASSUME NEW s \in Sessions, ask[s].box = b, OpenLock(s), e.opened = {s},
               e.lock = {s}, e.held = {}, pc'[s] = "lock"
        PROVE  Goal
    <2>1. pc[s] # "idle"
      BY <1>9 DEF OpenLock, Goto
    <2>2. pc'[s] # "idle" /\ ask'[s] = ask[s]
      BY <2>1, Asking
    <2> QED BY <1>9, <2>2
  <1>10. ASSUME NEW s \in Sessions, ask[s].box = b, Takes(s, d, e) PROVE Goal
    <2>1. Box(s) = d
      BY <1>10 DEF Box, d
    <2>2. pc'[s] # "idle" /\ ask'[s] = ask[s] /\ (Exporting(s)' <=> Exporting(s))
      <3>1. pc[s] # "idle"
        BY <1>10 DEF Takes
      <3> QED BY <3>1, Asking DEF Exporting
    <2>3. /\ \A t \in e.opened : pc'[t] # "idle" /\ ask'[t].box = b
          /\ e.lock \subseteq e.opened
      BY <1>1, <1>2, <1>10 DEF Takes
    <2>4. CASE s \in d.lock /\ s \in d.opened
      <3>1. e.held = d.held \cup {s} /\ e.held \subseteq e.opened /\ MayLock(s)
        BY <1>1, <1>10, <2>4 DEF Takes
      <3>2. ASSUME NEW t \in e.held, Exporting(t)' PROVE e.held = {t}
        <4>1. CASE Exporting(s)
          BY <2>1, <3>1, <3>2, <4>1 DEF MayLock
        <4>2. CASE ~Exporting(s)
          <5>1. t # s /\ t \in d.held
            BY <2>2, <3>1, <3>2, <4>2
          <5>2. Exporting(t)
            BY <1>1, <1>5, <3>2, <5>1
          <5> QED BY <2>1, <3>1, <4>2, <5>1, <5>2 DEF MayLock, SharedOnly
        <4> QED BY <4>1, <4>2
      <3>3. e.reapers = {} => e.lock = e.opened
        BY <1>1, <1>10 DEF Takes, Locked
      <3>4. ASSUME e.reapers = {}, NEW t \in e.opened, pc'[t] \in {"start", "running"}
            PROVE  t \in e.held
        <4>1. t \in d.opened /\ t \in Sessions /\ d.reapers = {} /\ ask[t].box = b
          BY <1>1, <1>2, <1>10, <3>4 DEF Takes
        <4>2. t \in d.held \/ (Lock(t) /\ t \in d.lock)
          BY <1>3, <3>4, <4>1
        <4> QED BY <1>4, <3>1, <3>4, <4>1, <4>2
      <3> QED BY <2>3, <3>1, <3>2, <3>3, <3>4
    <2>5. CASE s \notin d.lock
      <3>1. e.held = d.held /\ e.opened = d.opened /\ e.lock = d.lock /\ e.reapers = d.reapers
        BY <1>10, <2>5 DEF Takes
      <3>2. \A t \in e.held : Exporting(t)' => e.held = {t}
        BY <1>1, <1>5, <3>1 DEF Locked
      <3>3. e.reapers = {} => e.lock = e.opened
        BY <1>1, <3>1 DEF Locked
      <3>4. ASSUME e.reapers = {}, NEW t \in e.opened, pc'[t] \in {"start", "running"}
            PROVE  t \in e.held
        <4>1. t \in d.opened /\ t \in Sessions /\ d.reapers = {} /\ ask[t].box = b
          BY <1>1, <1>2, <3>1, <3>4
        <4>2. t \in d.held \/ (Lock(t) /\ t \in d.lock)
          BY <1>3, <3>4, <4>1
        <4> QED BY <1>4, <3>1, <3>4, <4>1, <4>2
      <3> QED BY <1>1, <2>3, <3>1, <3>2, <3>3, <3>4
    <2>6. CASE s \in d.lock /\ s \notin d.opened
      BY <1>1, <2>6 DEF Locked
    <2> QED BY <2>4, <2>5, <2>6
  <1> HIDE DEF Goal
  <1> QED BY <1>6, <1>7, <1>8, <1>9, <1>10, LockMoves DEF d, e

LEMMA HoldersKept ==
  ASSUME TypeOK, Holders, [Next]_vars PROVE Holders'
  <1>1. CASE UNCHANGED vars
    BY <1>1 DEF vars, Holders, Locked, Plain, Exporting
  <1>2. CASE Next
    BY <1>2, LockedKept, AttemptsPlain DEF Holders
  <1> QED BY <1>1, <1>2

(* Whatever fails, and however many channels there are: as long as nobody   *)
(* has set about removing a box, an export that took a lock in it works in  *)
(* it beside no command and no other export that did.                       *)
THEOREM ExportHolds == Spec => []ExportAlone
  <1>1. Init => Holders
    <2>1. Plain(NoDir)
      BY PlainDirs
    <2>2. ASSUME NEW b PROVE Locked(b, NoDir)
      BY <2>1 DEF Plain, Locked
    <2> QED BY <2>1, <2>2 DEF Init, Holders
  <1>2. TypeOK /\ Holders /\ [Next]_vars => Holders'
    BY HoldersKept
  <1>3. TypeOK /\ Holders => ExportAlone
    <2> SUFFICES ASSUME TypeOK, Holders, NEW b \in Boxes, live[b].reapers = {},
                        NEW s \in AtWork(b), Exporting(s)
                 PROVE  AtWork(b) = {s}
      BY DEF ExportAlone
    <2>1. AtWork(b) \subseteq live[b].held
      BY DEF Holders, Locked, AtWork
    <2>2. live[b].held = {s}
      BY <2>1 DEF Holders, Locked
    <2> QED BY <2>1, <2>2
  <1> QED BY <1>1, <1>2, <1>3, RunnerTypes, PTL DEF Spec

-----------------------------------------------------------------------------
(* An attempt in one pair of hands. *)

Hands == {"begin", "receive", "fetch", "checkout", "cleanup", "record", "rename"}

Builds(s) == Working(s) /\ ask[s].rpc = "create"

\* What a worker asks follows from where it is.
Kinds ==
  \A s \in Sessions :
    /\ pc[s] # "idle" => ask[s].rpc \in Rpcs
    /\ pc[s] \in Hands \cup {"look"} => ask[s].rpc = "create"
    /\ pc[s] \in {"find", "open", "lock", "start", "running"} => ask[s].rpc # "create"

Exclusive ==
  \A s, t \in Sessions : Builds(s) /\ Builds(t) /\ Op(s) = Op(t) => s = t

NoAttemptChosen == \A s \in Sessions : \A item \in todo[s] : item[1] = "live"

\* How far its attempt has come.
Come(s, d) ==
  /\ pc[s] \in {"receive", "fetch", "checkout", "record", "rename"} => d.here
  /\ pc[s] \in {"record", "rename"} => d.work = "whole"
  /\ pc[s] = "rename" => d.rec = ask[s].digest

OnCourse == \A s \in Sessions : Come(s, Attempt(s))

Absent == \A b \in Boxes : ~live[b].here => live[b].rec = None

Hold == Kinds /\ Exclusive /\ NoAttemptChosen /\ OnCourse /\ Absent /\ BoxComplete

LEMMA InitHold == Init => Hold
  <1> SUFFICES ASSUME Init PROVE Hold
    OBVIOUS
  <1>1. Kinds /\ Exclusive /\ NoAttemptChosen
    BY DEF Init, Kinds, Exclusive, NoAttemptChosen, Builds, Working, Busy, Hands
  <1>2. OnCourse
    BY DEF Init, OnCourse, Come
  <1>3. Absent /\ BoxComplete
    BY DEF Init, Absent, BoxComplete, NoDir
  <1> QED BY <1>1, <1>2, <1>3 DEF Hold

\* Where a worker goes next, and that it asks nothing else.
LEMMA WayOn ==
  ASSUME TypeOK, NEW s \in Sessions, Worker(s)
  PROVE  /\ ask' = ask
         /\ pc[s] \in Busy
         /\ pc'[s] \in Hands \ {"begin"} => pc[s] \in Hands
         /\ pc'[s] \in {"begin", "look"} =>
              \/ pc'[s] = "begin" /\ pc[s] = "look"
              \/ pc'[s] = "look" /\ ask[s].rpc = "create"
         /\ pc'[s] \in {"find", "open", "lock", "start", "running"} =>
              \/ pc[s] \in {"find", "open", "lock", "start", "running"}
              \/ pc'[s] = "find" /\ ask[s].rpc # "create"
         /\ pc'[s] # "idle"
  <1>1. CASE Sweep(s) \/ Gc(s) \/ Reap(s) \/ Swept(s) \/ List(s) \/ Look(s)
    BY <1>1, ZenonT(60) DEF TypeOK, Sweep, Gc, Reap, Swept, List, Look, Goto, Answer, Busy, Hands,
       AfterSweep
  <1>8. CASE Unlink(s) \/ Wiped(s) \/ WipeFails(s)
    BY <1>8 DEF TypeOK, Unlink, Wiped, WipeFails, Wiping, NextItem, Answer, local, Busy, Hands
  <1>2. CASE Begin(s) \/ Receive(s) \/ WriteRecord(s)
    BY <1>2 DEF TypeOK, Begin, Receive, WriteRecord, AfterReceive, Goto, local, Busy, Hands
  <1>3. CASE Fetch(s)
    <2>1. /\ \E to \in {"checkout", "cleanup"} : Goto(s, "fetch", to)
          /\ UNCHANGED ask
      BY <1>3 DEF Fetch, local
    <2> QED BY <2>1 DEF TypeOK, Goto, Busy, Hands
  <1>4. CASE Checkout(s)
    <2>1. /\ \E to \in {"record", "cleanup"} : Goto(s, "checkout", to)
          /\ UNCHANGED ask
      BY <1>4 DEF Checkout, local
    <2> QED BY <2>1 DEF TypeOK, Goto, Busy, Hands
  <1>5. CASE Cleanup(s) \/ Rename(s)
    BY <1>5 DEF TypeOK, Cleanup, Rename, Answer, Busy, Hands
  <1>6. CASE Find(s) \/ OpenLock(s) \/ Lock(s) \/ Start(s) \/ Run(s)
    BY <1>6 DEF TypeOK, Find, OpenLock, Lock, Start, Run, Goto, Answer, local, Busy, Hands
  <1>7. CASE Touch(s) \/ Truncate(s) \/ Write(s) \/ Replace(s) \/ Remove(s)
    BY <1>7 DEF TypeOK, Touch, Truncate, Write, Replace, Remove, TouchFailed, Goto, Answer,
       local, Busy, Hands
  <1> QED BY <1>1, <1>2, <1>3, <1>4, <1>5, <1>6, <1>7, <1>8 DEF Worker

LEMMA KindsKept ==
  ASSUME TypeOK, Kinds, [Next]_vars PROVE Kinds'
  <1> SUFFICES ASSUME NEW t \in Sessions
               PROVE /\ pc'[t] # "idle" => ask'[t].rpc \in Rpcs
                     /\ pc'[t] \in Hands \cup {"look"} => ask'[t].rpc = "create"
                     /\ pc'[t] \in {"find", "open", "lock", "start", "running"}
                          => ask'[t].rpc # "create"
    BY DEF Kinds
  <1>1. CASE pc'[t] = pc[t] /\ ask'[t] = ask[t]
    BY <1>1 DEF Kinds
  <1>2. CASE Send(t)
    <2>1. PICK r \in Rpcs, b \in Boxes, d \in Digests :
            /\ ask' = [ask EXCEPT ![t] = [rpc |-> r, box |-> b, digest |-> d]]
            /\ pc' = [pc EXCEPT ![t] = IF r \in {"gc", "gcall"} THEN "gc" ELSE "sweep"]
      BY <1>2 DEF Send
    <2> QED BY <2>1 DEF TypeOK, Hands
  <1>3. CASE Worker(t)
    <2>1. pc[t] # "idle"
      BY <1>3, WayOn DEF Busy
    <2>2. ask[t].rpc \in Rpcs /\ ask'[t] = ask[t]
      BY <1>3, <2>1, WayOn DEF Kinds
    <2>3. pc'[t] \in Hands \cup {"look"} => ask[t].rpc = "create"
      BY <1>3, WayOn DEF Kinds, Hands
    <2>4. pc'[t] \in {"find", "open", "lock", "start", "running"} => ask[t].rpc # "create"
      BY <1>3, WayOn DEF Kinds
    <2> QED BY <2>2, <2>3, <2>4
  <1>4. CASE HangUp(t) \/ Tick \/ UNCHANGED vars
    BY <1>1, <1>4 DEF HangUp, Tick, vars, local
  <1>5. CASE Kill(t)
    <2>1. pc'[t] = "dead" /\ ask'[t] = ask[t] /\ pc[t] # "idle"
      BY <1>5 DEF Kill, TypeOK, Working, Busy
    <2> QED BY <2>1 DEF Kinds, Hands
  <1>6. ASSUME NEW s \in Sessions, s # t, Send(s) \/ Worker(s) \/ HangUp(s) \/ Kill(s)
        PROVE  pc'[t] = pc[t] /\ ask'[t] = ask[t]
    BY <1>6, OthersStay
  <1> QED BY <1>1, <1>2, <1>3, <1>4, <1>5, <1>6 DEF Next

LEMMA ExclusiveKept ==
  ASSUME TypeOK, Calm, Exclusive, [Next]_vars PROVE Exclusive'
  <1>1. ASSUME NEW s \in Sessions, NEW t \in Sessions, s # t,
               Send(s) \/ Worker(s) \/ HangUp(s) \/ Kill(s),
               Builds(s)', Builds(t)', Op(s)' = Op(t)'
        PROVE  FALSE
    <2>1. Builds(t) /\ Op(t)' = Op(t)
      BY <1>1, OthersStay DEF Builds, Working, Op
    <2>2. CASE Send(s)
      <3>1. PICK r \in Rpcs, b \in Boxes, d \in Digests :
              /\ r = "create" => MayAsk(<<b, d>>)
              /\ ask' = [ask EXCEPT ![s] = [rpc |-> r, box |-> b, digest |-> d]]
        BY <2>2 DEF Send
      <3>2. ask'[s] = [rpc |-> r, box |-> b, digest |-> d]
        BY <3>1 DEF TypeOK
      <3>3. r = "create" /\ Op(t) = <<b, d>>
        BY <1>1, <2>1, <3>2 DEF Builds, Op
      <3> QED BY <2>1, <3>1, <3>3 DEF MayAsk, Builds, Calm
    <2>3. CASE Worker(s)
      <3>1. Builds(s) /\ Op(s)' = Op(s)
        BY <1>1, <2>3, WayOn DEF Builds, Working, Op
      <3> QED BY <1>1, <2>1, <3>1 DEF Exclusive
    <2>4. CASE HangUp(s)
      <3>1. Builds(s) /\ Op(s)' = Op(s)
        BY <1>1, <2>4 DEF HangUp, Builds, Working, Op
      <3> QED BY <1>1, <2>1, <3>1 DEF Exclusive
    <2>5. CASE Kill(s)
      <3>1. pc'[s] = "dead"
        BY <2>5 DEF Kill, TypeOK
      <3> QED BY <1>1, <3>1 DEF Builds, Working, Busy
    <2> QED BY <1>1, <2>2, <2>3, <2>4, <2>5
  <1>2. CASE Tick \/ UNCHANGED vars
    BY <1>2 DEF Tick, vars, local, Exclusive, Builds, Working, Op
  <1>3. ASSUME NEW a \in Sessions, Send(a) \/ Worker(a) \/ HangUp(a) \/ Kill(a),
               NEW s \in Sessions, NEW t \in Sessions, Builds(s)', Builds(t)',
               Op(s)' = Op(t)', s # t
        PROVE  FALSE
    <2>1. CASE a = s
      BY <1>1, <1>3, <2>1
    <2>2. CASE a = t
      BY <1>1, <1>3, <2>2
    <2>3. CASE a # s /\ a # t
      <3>1. /\ pc'[s] = pc[s] /\ ask'[s] = ask[s]
            /\ pc'[t] = pc[t] /\ ask'[t] = ask[t]
        BY <1>3, <2>3, OthersStay
      <3> QED BY <1>3, <3>1 DEF Exclusive, Builds, Working, Op
    <2> QED BY <2>1, <2>2, <2>3
  <1>4. ASSUME NEW a \in Sessions, Send(a) \/ Worker(a) \/ HangUp(a) \/ Kill(a)
        PROVE  Exclusive'
    BY <1>3, <1>4 DEF Exclusive
  <1> QED BY <1>2, <1>4 DEF Next

LEMMA NoneDue ==
  ASSUME TypeOK, Calm, NEW item \in Due(FALSE) PROVE item[1] = "live"
  <1>1. ASSUME NEW o \in Operations PROVE ~(clock >= creating[o].at + CreatingTtl)
    <2>1. creating[o].at \in 0..MaxClock /\ clock \in 0..MaxClock
      BY DEF TypeOK, Dirs
    <2>2. CreatingTtl \in Nat /\ MaxClock \in Nat /\ MaxClock < CreatingTtl
      BY RunnerAssumption DEF Calm
    <2> QED BY <2>1, <2>2
  <1> QED BY <1>1 DEF Due

LEMMA ChosenKept ==
  ASSUME TypeOK, Calm, Kinds, NoAttemptChosen, [Next]_vars PROVE NoAttemptChosen'
  <1> SUFFICES ASSUME NEW t \in Sessions, NEW item \in todo'[t] PROVE item[1] = "live"
    BY DEF NoAttemptChosen
  <1>1. CASE todo'[t] \subseteq todo[t]
    BY <1>1 DEF NoAttemptChosen
  <1>2. CASE Sweep(t)
    <2>1. todo'[t] \subseteq Due(FALSE)
      BY <1>2 DEF Sweep, TypeOK
    <2> QED BY <2>1, NoneDue
  <1>3. CASE Gc(t)
    <2>1. ask[t].rpc \in Rpcs /\ ~(ask[t].rpc = "gcall")
      BY <1>3 DEF Gc, Kinds, Calm
    <2>2. todo'[t] \subseteq Due(FALSE) \/ todo'[t] = todo[t]
      BY <1>3, <2>1 DEF Gc, TypeOK
    <2> QED BY <1>1, <2>2, NoneDue
  <1>4. CASE Reap(t) \/ Wiped(t) \/ WipeFails(t)
    BY <1>1, <1>4 DEF Reap, Wiped, WipeFails, NextItem, TypeOK
  <1>5. CASE Tick \/ UNCHANGED vars
    BY <1>1, <1>5 DEF Tick, vars, local
  <1>6. ASSUME NEW s \in Sessions, s # t, Send(s) \/ Worker(s) \/ HangUp(s) \/ Kill(s)
        PROVE  todo'[t] = todo[t]
    BY <1>6, OthersStay
  <1>7. CASE \/ Send(t) \/ HangUp(t) \/ Kill(t) \/ Swept(t) \/ List(t) \/ Look(t) \/ Begin(t)
             \/ Receive(t) \/ Fetch(t) \/ Checkout(t) \/ Cleanup(t) \/ WriteRecord(t)
             \/ Rename(t) \/ Find(t) \/ OpenLock(t) \/ Lock(t) \/ Start(t) \/ Run(t) \/ Touch(t)
             \/ Truncate(t) \/ Write(t) \/ Replace(t) \/ Remove(t) \/ Unlink(t)
    <2>1. UNCHANGED todo
      BY <1>7 DEF Send, HangUp, Kill, Swept, List, Look, Begin, Receive, Fetch, Checkout,
         Cleanup, WriteRecord, Rename, Find, OpenLock, Lock, Start, Run, Touch, Truncate,
         Write, Replace, Remove, Unlink, local
    <2> QED BY <1>1, <2>1
  <1> QED BY <1>1, <1>2, <1>3, <1>4, <1>5, <1>6, <1>7 DEF Next, Worker

\* An attempt under construction is touched by nobody else.
LEMMA AttemptsApart ==
  ASSUME TypeOK, Kinds, Exclusive, NoAttemptChosen, NEW s \in Sessions,
         Send(s) \/ Worker(s) \/ HangUp(s) \/ Kill(s),
         NEW t \in Sessions, t # s, pc[t] \in Hands
  PROVE  creating'[Op(t)] = creating[Op(t)]
  <1>1. Builds(t)
    BY DEF Kinds, Builds, Working, Busy, Hands
  <1>2. CASE pc[s] \in Hands
    <2>1. Builds(s)
      BY <1>2 DEF Kinds, Builds, Working, Busy, Hands
    <2>2. Op(s) # Op(t)
      BY <1>1, <2>1 DEF Exclusive
    <2>3. UNCHANGED creating \/ \E d : SetAttempt(s, d)
      <3>1. CASE Begin(s) \/ Receive(s) \/ Cleanup(s) \/ WriteRecord(s)
        BY <3>1 DEF Begin, Receive, Cleanup, WriteRecord
      <3>2. CASE Fetch(s)
        BY <3>2 DEF Fetch
      <3>3. CASE Checkout(s)
        BY <3>3 DEF Checkout
      <3>4. CASE Rename(s)
        BY <3>4 DEF Rename, disk
      <3>5. CASE HangUp(s) \/ Kill(s)
        BY <3>5 DEF HangUp, Kill, disk
      <3> QED BY <1>2, <3>1, <3>2, <3>3, <3>4, <3>5 DEF Send, Worker, Sweep, Gc, Reap, Swept,
            List, Look, Find, OpenLock, Lock, Start, Run, Touch, Truncate, Write, Replace,
            Remove, Unlink, Wiped, WipeFails, Wiping, Goto, Hands
    <2> QED BY <2>2, <2>3, Places DEF SetAttempt, TypeOK
  <1>3. CASE pc[s] \notin Hands
    <2>1. CASE Reap(s)
      <3>1. todo[s] # {} => First(s)[1] = "live"
        BY FirstIn DEF NoAttemptChosen
      <3> QED BY <2>1, <3>1 DEF Reap
    <2>2. UNCHANGED creating \/ Reap(s)
      BY <1>3 DEF Send, Worker, HangUp, Kill, Sweep, Gc, Swept, List, Look, Find, OpenLock,
         Lock, Start, Run, Touch, Truncate, Write, Replace, Remove, Unlink, Wiped, WipeFails, Begin, Receive, Fetch,
         Checkout, Cleanup, WriteRecord, Rename, Goto, Hands, disk
    <2> QED BY <2>1, <2>2
  <1> QED BY <1>2, <1>3

LEMMA ComeOwn ==
  ASSUME TypeOK, NEW s \in Sessions, Come(s, Attempt(s)), Worker(s)
  PROVE  Come(s, Attempt(s))'
  <1> DEFINE Set(d) == creating' = [creating EXCEPT ![Op(s)] = d]
             m == Made(Attempt(s))
  <1>0. /\ ask' = ask /\ Op(s)' = Op(s) /\ Op(s) \in Operations
        /\ Attempt(s) \in Dirs /\ m \in Dirs /\ m.here
        /\ Attempt(s).here => m = Attempt(s)
    BY WayOn, Places, MadeTyped DEF Op, TypeOK
  <1>1. ASSUME NEW d, Set(d) PROVE Attempt(s)' = d
    BY <1>0, <1>1 DEF Attempt, TypeOK
  <1>2. CASE Begin(s)
    <2>1. pc'[s] = "receive"
      BY <1>2 DEF Begin, Goto, TypeOK
    <2>2. Attempt(s)' = [NoDir EXCEPT !.here = TRUE, !.work = "bare", !.at = clock]
      BY <1>1, <1>2 DEF Begin, SetAttempt
    <2>3. Attempt(s)'.here
      BY <2>2 DEF NoDir
    <2> QED BY <2>1, <2>3 DEF Come
  <1>3. CASE Receive(s)
    <2>1. pc'[s] \in {"fetch", "cleanup"}
      BY <1>3 DEF Receive, AfterReceive, Goto, TypeOK
    <2>2. Attempt(s)' = [m EXCEPT !.bundle = ~hung[s], !.at = clock]
      BY <1>1, <1>3 DEF Receive, SetAttempt
    <2>3. Attempt(s)'.here
      BY <1>0, <2>2 DEF Dirs
    <2> QED BY <2>1, <2>3 DEF Come
  <1>4. CASE Fetch(s)
    <2>1. PICK fetched \in BOOLEAN :
            /\ Goto(s, "fetch", IF fetched THEN "checkout" ELSE "cleanup")
            /\ SetAttempt(s, [m EXCEPT !.work = IF fetched /\ @ # "whole" THEN "part"
                                               ELSE IF @ = "none" THEN "bare" ELSE @])
      BY <1>4 DEF Fetch
    <2>2. pc'[s] \in {"checkout", "cleanup"}
      BY <2>1 DEF Goto, TypeOK
    <2>3. Attempt(s)' = [m EXCEPT !.work = IF fetched /\ @ # "whole" THEN "part"
                                           ELSE IF @ = "none" THEN "bare" ELSE @]
      BY <1>1, <2>1 DEF SetAttempt
    <2>4. Attempt(s)'.here
      BY <1>0, <2>3 DEF Dirs
    <2> QED BY <2>2, <2>4 DEF Come
  <1>5. CASE Checkout(s)
    <2>1. CASE /\ Goto(s, "checkout", "record")
               /\ SetAttempt(s, [Attempt(s) EXCEPT !.work = "whole", !.bundle = FALSE])
      <3>1. pc[s] = "checkout" /\ pc'[s] = "record"
        BY <2>1 DEF Goto, TypeOK
      <3>2. Attempt(s)' = [Attempt(s) EXCEPT !.work = "whole", !.bundle = FALSE]
        BY <1>1, <2>1 DEF SetAttempt
      <3>3. Attempt(s)'.here /\ Attempt(s)'.work = "whole"
        BY <1>0, <3>1, <3>2 DEF Come, Dirs
      <3> QED BY <3>1, <3>3 DEF Come
    <2>2. CASE Goto(s, "checkout", "cleanup")
      <3>1. pc'[s] = "cleanup"
        BY <2>2 DEF Goto, TypeOK
      <3> QED BY <3>1 DEF Come
    <2> QED BY <1>5, <2>1, <2>2 DEF Checkout
  <1>6. CASE WriteRecord(s)
    <2>1. pc[s] = "record" /\ pc'[s] = "rename"
      BY <1>6 DEF WriteRecord, Goto, TypeOK
    <2>2. Attempt(s)' = [m EXCEPT !.rec = ask[s].digest, !.policy = ask[s].digest,
                                     !.lease = NewLease(s), !.at = clock]
      BY <1>1, <1>6 DEF WriteRecord, SetAttempt
    <2>3. m.here /\ m.work = "whole"
      BY <1>0, <2>1 DEF Come
    <2>4. /\ Attempt(s)'.here /\ Attempt(s)'.work = "whole"
          /\ Attempt(s)'.rec = ask[s].digest
      BY <1>0, <2>2, <2>3 DEF Dirs
    <2> QED BY <1>0, <2>1, <2>4 DEF Come
  <1>7. CASE pc'[s] \notin {"receive", "fetch", "checkout", "record", "rename"}
    BY <1>7 DEF Come
  <1>8. \/ Begin(s) \/ Receive(s) \/ Fetch(s) \/ Checkout(s) \/ WriteRecord(s)
        \/ pc'[s] \notin {"receive", "fetch", "checkout", "record", "rename"}
    <2>1. CASE Sweep(s) \/ Gc(s) \/ Reap(s) \/ Swept(s) \/ List(s) \/ Look(s)
      BY <2>1 DEF TypeOK, Sweep, Gc, Reap, Swept, List, Look, Goto, Answer, AfterSweep
    <2>2. CASE Cleanup(s) \/ Rename(s) \/ Find(s) \/ OpenLock(s) \/ Lock(s) \/ Start(s)
                 \/ Run(s)
      BY <2>2 DEF TypeOK, Cleanup, Rename, Find, OpenLock, Lock, Start, Run, Goto, Answer
    <2>4. CASE Unlink(s) \/ Wiped(s) \/ WipeFails(s)
      BY <2>4 DEF TypeOK, Unlink, Wiped, WipeFails, Wiping, NextItem, Answer
    <2>3. CASE Touch(s) \/ Truncate(s) \/ Write(s) \/ Replace(s) \/ Remove(s)
      BY <2>3 DEF TypeOK, Touch, Truncate, Write, Replace, Remove, TouchFailed, Goto, Answer
    <2> QED BY <2>1, <2>2, <2>3, <2>4 DEF Worker
  <1> QED BY <1>2, <1>3, <1>4, <1>5, <1>6, <1>7, <1>8

LEMMA OnCourseKept ==
  ASSUME TypeOK, Hold, [Next]_vars PROVE OnCourse'
  <1> SUFFICES ASSUME NEW t \in Sessions PROVE Come(t, Attempt(t))'
    BY DEF OnCourse
  <1>1. CASE Worker(t)
    BY <1>1, ComeOwn DEF Hold, OnCourse
  <1>2. CASE Send(t) \/ Kill(t)
    <2>1. pc'[t] \in {"gc", "sweep", "dead"}
      BY <1>2 DEF Send, Kill, TypeOK
    <2> QED BY <2>1 DEF Come
  <1>3. CASE Tick \/ HangUp(t) \/ UNCHANGED vars
    <2>1. pc' = pc /\ ask' = ask /\ creating' = creating
      BY <1>3 DEF Tick, HangUp, vars, disk, local
    <2> QED BY <2>1 DEF Hold, OnCourse, Come, Attempt, Op
  <1>4. ASSUME NEW s \in Sessions, s # t, Send(s) \/ Worker(s) \/ HangUp(s) \/ Kill(s)
        PROVE  Come(t, Attempt(t))'
    <2>1. pc'[t] = pc[t] /\ ask'[t] = ask[t] /\ Op(t)' = Op(t)
      BY <1>4, OthersStay DEF Op
    <2>2. CASE pc[t] \in Hands
      <3>1. Attempt(t)' = Attempt(t)
        BY <1>4, <2>1, <2>2, AttemptsApart DEF Attempt, Hold
      <3> QED BY <2>1, <3>1 DEF Hold, OnCourse, Come
    <2>3. CASE pc[t] \notin Hands
      BY <2>1, <2>3 DEF Come, Hands
    <2> QED BY <2>2, <2>3
  <1> QED BY <1>1, <1>2, <1>3, <1>4 DEF Next

-----------------------------------------------------------------------------
(* Boxes: they stay what they are, or go, or one is made.                   *)

SameBox(b) ==
  /\ live'[b].rec = live[b].rec
  /\ live[b].rec # None /\ live'[b].reapers = {} =>
       live'[b].work = live[b].work /\ live[b].reapers = {}
  /\ ~live'[b].here => live'[b].rec = None

\* One box is there no more, though something of it may be.
Lost(b) == \E d : live' = [live EXCEPT ![b] = d] /\ d.rec = None

LEMMA LiveMoves ==
  ASSUME TypeOK, Absent, Next
  PROVE  \/ \A b \in Boxes : SameBox(b)
         \/ \E b \in Boxes : Lost(b)
         \/ \E s \in Sessions : Rename(s) /\ MayRename(s)
  <1> DEFINE Same == \A b \in Boxes : SameBox(b)
  <1>1. ASSUME UNCHANGED live PROVE Same
    BY <1>1 DEF SameBox, Absent
  <1>2. ASSUME NEW s, Freed(s) PROVE Same
    <2> SUFFICES ASSUME NEW b \in Boxes PROVE SameBox(b)
      OBVIOUS
    <2>1. live[b] \in Dirs /\ live'[b] = [live[b] EXCEPT !.held = @ \ {s}]
      BY <1>2 DEF Freed, TypeOK
    <2>2. /\ live'[b].rec = live[b].rec /\ live'[b].work = live[b].work
          /\ live'[b].here = live[b].here /\ live'[b].reapers = live[b].reapers
      BY <2>1 DEF Dirs
    <2> QED BY <2>2 DEF SameBox, Absent
  <1>3. ASSUME NEW s \in Sessions, NEW d, SetBox(s, d), d.rec = Box(s).rec,
               Box(s).rec # None /\ d.reapers = {} =>
                 d.work = Box(s).work /\ Box(s).reapers = {},
               ~d.here => d.rec = None
        PROVE  Same
    <2> SUFFICES ASSUME NEW b \in Boxes PROVE SameBox(b)
      OBVIOUS
    <2>1. CASE b = ask[s].box
      BY <1>3, <2>1, Places DEF SetBox, Box, TypeOK, SameBox
    <2>2. CASE b # ask[s].box
      BY <1>3, <2>2, Places DEF SetBox, TypeOK, SameBox, Absent
    <2> QED BY <2>1, <2>2
  <1>4. ASSUME NEW s \in Sessions
        PROVE  /\ Box(s) \in Dirs /\ (~Box(s).here => Box(s).rec = None)
               /\ Made(Box(s)) \in Dirs /\ Made(Box(s)).here
               /\ Made(Box(s)).rec = Box(s).rec
               /\ Box(s).rec # None => /\ Made(Box(s)).work = Box(s).work
                                       /\ Made(Box(s)).reapers = Box(s).reapers
    <2>1. Box(s) \in Dirs /\ (~Box(s).here => Box(s).rec = None)
      BY Places DEF Box, Absent
    <2>2. Made(Box(s)) \in Dirs /\ Made(Box(s)).here /\ Made(Box(s)).rec \in {Box(s).rec, None}
      BY <2>1, MadeTyped DEF TypeOK
    <2>3. Box(s).here => Made(Box(s)) = Box(s)
      BY <2>1, MadeTyped DEF TypeOK
    <2> QED BY <2>1, <2>2, <2>3
  <1>17. ASSUME NEW x, NEW d, x \in Boxes => d.rec = live[x].rec,
                x \in Boxes => d.reapers # {},
                x \in Boxes => (d.here \/ d.rec = None),
                live' = [live EXCEPT ![x] = d]
         PROVE  Same
    <2> SUFFICES ASSUME NEW b \in Boxes PROVE SameBox(b)
      OBVIOUS
    <2>1. CASE b = x
      <3>1. live'[b] = d
        BY <1>17, <2>1 DEF TypeOK
      <3>2. x \in Boxes
        BY <2>1
      <3>3. d.rec = live[b].rec /\ d.reapers # {} /\ (d.here \/ d.rec = None)
        BY <1>17, <2>1, <3>2
      <3> QED BY <3>1, <3>3 DEF SameBox
    <2>2. CASE b # x
      BY <1>17, <2>2 DEF TypeOK, SameBox, Absent
    <2> QED BY <2>1, <2>2
  <1>18. ASSUME NEW x, NEW d, d.rec = None, live' = [live EXCEPT ![x] = d]
         PROVE  Same \/ \E b \in Boxes : Lost(b)
    <2>1. CASE x \in Boxes
      BY <1>18, <2>1 DEF Lost
    <2>2. CASE x \notin Boxes
      <3>1. UNCHANGED live
        BY <1>18, <2>2 DEF TypeOK
      <3> QED BY <1>1, <3>1
    <2> QED BY <2>1, <2>2
  <1>5. ASSUME NEW s \in Sessions, Reap(s) PROVE Same
    <2>1. CASE UNCHANGED live
      BY <1>1, <2>1
    <2> DEFINE x == First(s)[2]
               d == [live[x] EXCEPT !.reapers = @ \cup {s}]
    <2>2. CASE live' = [live EXCEPT ![x].reapers = @ \cup {s}]
      <3>1. x \in Boxes => /\ d.rec = live[x].rec /\ d.reapers # {}
                           /\ d.here = live[x].here
        BY DEF TypeOK, Dirs
      <3>2. x \in Boxes => (~d.here => d.rec = None)
        BY <3>1 DEF Absent
      <3>3. live' = [live EXCEPT ![x] = d]
        BY <2>2
      <3> HIDE DEF x, d
      <3> QED BY <1>17, <3>1, <3>2, <3>3
    <2> QED BY <1>5, <2>1, <2>2 DEF Reap
  <1>6. ASSUME NEW s \in Sessions, Remove(s) PROVE Same
    <2> DEFINE d == [Box(s) EXCEPT !.reapers = @ \cup {s}]
    <2>1. CASE UNCHANGED live
      BY <1>1, <2>1
    <2>2. CASE SetBox(s, d)
      <3>1. d.rec = Box(s).rec /\ d.reapers # {} /\ d.here = Box(s).here
        BY <1>4 DEF Dirs
      <3> HIDE DEF d
      <3> QED BY <1>3, <1>4, <2>2, <3>1
    <2> QED BY <1>6, <2>1, <2>2 DEF Remove
  <1>19. ASSUME NEW s \in Sessions, Unlink(s) PROVE Same \/ \E b \in Boxes : Lost(b)
    <2>1. PICK d \in Less(live[Aim(s)]) : live' = [live EXCEPT ![Aim(s)] = d]
      BY <1>19 DEF Unlink
    <2>2. s \in live[Aim(s)].reapers
      BY <1>19 DEF Unlink
    <2>3. CASE d.rec = None
      BY <1>18, <2>1, <2>3
    <2>4. CASE d.rec # None
      <3>1. Aim(s) \in Boxes => /\ d.rec = live[Aim(s)].rec /\ d.reapers # {}
                               /\ d.here = live[Aim(s)].here
        BY <2>1, <2>2, <2>4, LessTyped DEF TypeOK
      <3>2. Aim(s) \in Boxes => (~d.here => d.rec = None)
        BY <3>1 DEF Absent
      <3> QED BY <1>17, <2>1, <3>1, <3>2
    <2> QED BY <2>3, <2>4
  <1>20. ASSUME NEW s \in Sessions, Wiped(s) PROVE Same \/ \E b \in Boxes : Lost(b)
    <2>1. live' = [live EXCEPT ![Aim(s)] = NoDir] /\ NoDir.rec = None
      BY <1>20 DEF Wiped, NoDir
    <2> QED BY <1>18, <2>1
  <1>7. ASSUME NEW s \in Sessions, Truncate(s) PROVE Same
    <2>1. PICK x : SetBox(s, [Made(Box(s)) EXCEPT !.tmp = x, !.at = 0])
      BY <1>7 DEF Truncate
    <2> DEFINE m == Made(Box(s))
    <2>2. /\ [m EXCEPT !.tmp = x, !.at = 0].rec = m.rec
          /\ [m EXCEPT !.tmp = x, !.at = 0].reapers = m.reapers
          /\ [m EXCEPT !.tmp = x, !.at = 0].work = m.work
          /\ [m EXCEPT !.tmp = x, !.at = 0].here = m.here
      BY <1>4 DEF Dirs
    <2> QED BY <1>3, <1>4, <2>1, <2>2
  <1>8. ASSUME NEW s \in Sessions, Write(s) PROVE Same
    <2>1. \A d \in {[Box(s) EXCEPT !.tmp = cell[s]], [Box(s) EXCEPT !.lease = cell[s]], Box(s)} :
            d.rec = Box(s).rec /\ d.work = Box(s).work /\ d.here = Box(s).here
              /\ d.reapers = Box(s).reapers
      BY <1>4 DEF Dirs
    <2>2. PICK d : SetBox(s, d) /\ d \in {[Box(s) EXCEPT !.tmp = cell[s]],
                                        [Box(s) EXCEPT !.lease = cell[s]], Box(s)}
      BY <1>8 DEF Write
    <2> QED BY <1>3, <1>4, <2>1, <2>2
  <1>9. ASSUME NEW s \in Sessions, Replace(s) PROVE Same
    <2> DEFINE d == [Box(s) EXCEPT !.lease = Box(s).tmp, !.tmp = NoCell, !.held = @ \ {s}]
    <2>1. /\ d.rec = Box(s).rec /\ d.work = Box(s).work /\ d.here = Box(s).here
          /\ d.reapers = Box(s).reapers
      BY <1>4 DEF Dirs
    <2>2. CASE TouchFailed(s)
      BY <1>2, <2>2 DEF TouchFailed
    <2>3. CASE SetBox(s, d)
      BY <1>3, <1>4, <2>1, <2>3
    <2> QED BY <1>9, <2>2, <2>3 DEF Replace
  <1>10. ASSUME NEW s \in Sessions, Lock(s) PROVE Same
    <2> DEFINE h == IF s \in Box(s).lock THEN Box(s).held \cup {s} ELSE Box(s).held
               d == [Box(s) EXCEPT !.held = h]
    <2>1. /\ d.rec = Box(s).rec /\ d.work = Box(s).work /\ d.here = Box(s).here
          /\ d.reapers = Box(s).reapers
      BY <1>4 DEF Dirs
    <2>2. SetBox(s, d) \/ UNCHANGED live
      BY <1>10 DEF Lock
    <2> HIDE DEF d
    <2> QED BY <1>1, <1>3, <1>4, <2>1, <2>2
  <1>16. ASSUME NEW s \in Sessions, OpenLock(s) PROVE Same
    <2> DEFINE m == Made(Box(s))
               d == [m EXCEPT !.lock = @ \cup {s}, !.opened = @ \cup {s}, !.at = 0]
    <2>1. d.rec = m.rec /\ d.work = m.work /\ d.here = m.here /\ d.reapers = m.reapers
      BY <1>4 DEF Dirs
    <2>2. SetBox(s, d)
      BY <1>16 DEF OpenLock
    <2> HIDE DEF d
    <2> QED BY <1>3, <1>4, <2>1, <2>2
  <1>11. ASSUME NEW s \in Sessions, Start(s) \/ Run(s) \/ Touch(s) \/ Kill(s) PROVE Same
    <2>1. UNCHANGED live \/ Freed(s)
      BY <1>11 DEF Start, Run, Touch, TouchFailed, Kill
    <2> QED BY <1>1, <1>2, <2>1
  <1>12. ASSUME NEW s \in Sessions,
                \/ Send(s) \/ Sweep(s) \/ Gc(s) \/ Swept(s) \/ List(s) \/ Look(s)
                \/ Begin(s) \/ Receive(s) \/ Fetch(s) \/ Checkout(s) \/ Cleanup(s)
                \/ WriteRecord(s) \/ Find(s) \/ HangUp(s) \/ WipeFails(s)
         PROVE  Same
    BY <1>1, <1>12 DEF Send, Sweep, Gc, Swept, List, Look, Begin, Receive, Fetch, Checkout,
       Cleanup, WriteRecord, Find, HangUp, WipeFails, disk
  <1>13. ASSUME NEW s \in Sessions, Rename(s), ~MayRename(s) PROVE Same
    BY <1>1, <1>13 DEF Rename, disk
  <1>14. ASSUME Tick PROVE Same
    BY <1>1, <1>14 DEF Tick, disk
  <1> HIDE DEF Same
  <1>15. \/ Same
         \/ \E b \in Boxes : Lost(b)
         \/ \E s \in Sessions : Rename(s) /\ MayRename(s)
    BY <1>5, <1>6, <1>7, <1>8, <1>9, <1>10, <1>11, <1>12, <1>13, <1>14,
       <1>16, <1>19, <1>20 DEF Next, Worker
  <1> QED BY <1>15 DEF Same

\* What a rename publishes.
LEMMA Published ==
  ASSUME TypeOK, OnCourse, NEW s \in Sessions, Rename(s), MayRename(s)
  PROVE  \E d \in Dirs : /\ live' = [live EXCEPT ![ask[s].box] = d]
                        /\ d.here /\ d.work = "whole" /\ d.rec = ask[s].digest
  <1>1. pc[s] = "rename" /\ Attempt(s) \in Dirs
    BY Places DEF Rename
  <1>2. Attempt(s).here /\ Attempt(s).work = "whole" /\ Attempt(s).rec = ask[s].digest
    BY <1>1 DEF OnCourse, Come
  <1> DEFINE d == [Attempt(s) EXCEPT !.at = 0]
  <1>3. d \in Dirs
    BY <1>1, RunnerAssumption DEF Dirs
  <1>4. d.here /\ d.work = "whole" /\ d.rec = ask[s].digest
    BY <1>1, <1>2 DEF Dirs
  <1>5. live' = [live EXCEPT ![ask[s].box] = d]
    BY DEF Rename, SetBox
  <1> HIDE DEF d
  <1> QED BY <1>3, <1>4, <1>5

LEMMA BoxesKept ==
  ASSUME TypeOK, Hold, [Next]_vars PROVE Absent' /\ BoxComplete'
  <1>1. CASE UNCHANGED vars
    BY <1>1 DEF vars, Hold, Absent, BoxComplete
  <1>2. CASE \A b \in Boxes : SameBox(b)
    BY <1>2 DEF SameBox, Hold, Absent, BoxComplete
  <1>3. ASSUME NEW b \in Boxes, Lost(b)
        PROVE  Absent' /\ BoxComplete'
    BY <1>3 DEF Hold, Absent, BoxComplete, TypeOK, Lost
  <1>4. ASSUME NEW s \in Sessions, Rename(s), MayRename(s) PROVE Absent' /\ BoxComplete'
    <2>1. PICK d \in Dirs : /\ live' = [live EXCEPT ![ask[s].box] = d]
                           /\ d.here /\ d.work = "whole" /\ d.rec = ask[s].digest
      BY <1>4, Published DEF Hold
    <2> QED BY <2>1 DEF Hold, Absent, BoxComplete, TypeOK
  <1> QED BY <1>1, <1>2, <1>3, <1>4, LiveMoves DEF Hold

LEMMA HoldKept ==
  ASSUME TypeOK, Calm, Hold, [Next]_vars PROVE Hold'
  BY KindsKept, ExclusiveKept, ChosenKept, OnCourseKept, BoxesKept DEF Hold

LEMMA Holding == ASSUME Calm PROVE Spec => []Hold
  <1>1. TypeOK /\ Hold /\ [Next]_vars => Hold'
    BY HoldKept
  <1> QED BY <1>1, InitHold, RunnerTypes, PTL DEF Spec

(* While no attempt is in two hands, a directory that has a record, and     *)
(* that nobody has set about removing, has its whole source, for any        *)
(* channels, kills, hang-ups and failures of git.                           *)
THEOREM BoxesWhole == ASSUME Calm PROVE Spec => []BoxComplete
  <1>1. Hold => BoxComplete
    BY DEF Hold
  <1> QED BY <1>1, Holding, PTL

-----------------------------------------------------------------------------
(* The runner implements a registry of boxes. *)

\* Nothing is told before the end, and a create has seen no box until it looks.
Untold ==
  \A s \in Sessions :
    /\ pc[s] \notin {"done", "dead"} => told[s] = "none"
    /\ pc[s] \in {"idle", "sweep", "reap", "wipe", "gc", "look"} \cup Hands => saw[s] = None

LEMMA UntoldKept ==
  ASSUME TypeOK, Kinds, Untold, [Next]_vars PROVE Untold'
  <1> DEFINE Good(t) ==
        /\ pc[t] \notin {"done", "dead"} => told[t] = "none"
        /\ pc[t] \in {"idle", "sweep", "reap", "wipe", "gc", "look"} \cup Hands => saw[t] = None
  <1> SUFFICES ASSUME NEW t \in Sessions PROVE Good(t)'
    BY DEF Untold
  <1>0. Good(t)
    BY DEF Untold
  <1>1. CASE pc'[t] = pc[t] /\ told'[t] = told[t] /\ saw'[t] = saw[t]
    BY <1>0, <1>1
  <1>2. CASE Send(t) \/ Sweep(t) \/ Gc(t) \/ Reap(t) \/ Swept(t) \/ List(t) \/ Kill(t)
    BY <1>0, <1>2 DEF Send, Sweep, Gc, Reap, Swept, List, Kill, Working, Busy, Goto, Answer,
       AfterSweep, TypeOK, Hands
  <1>10. CASE Unlink(t) \/ Wiped(t) \/ WipeFails(t)
    BY <1>0, <1>10 DEF Unlink, Wiped, WipeFails, Wiping, NextItem, Answer, local, TypeOK, Hands
  <1>3. CASE Look(t)
    BY <1>0, <1>3 DEF Look, Answer, TypeOK, Hands
  <1>4. CASE Begin(t) \/ Receive(t) \/ WriteRecord(t) \/ Cleanup(t) \/ Rename(t)
    BY <1>0, <1>4 DEF Begin, Receive, AfterReceive, WriteRecord, Cleanup, Rename, Goto,
       Answer, local, TypeOK, Hands
  <1>5. CASE Fetch(t) \/ Checkout(t)
    <2>1. /\ \E from \in {"fetch", "checkout"} :
               \E to \in {"checkout", "cleanup", "record"} : Goto(t, from, to)
          /\ UNCHANGED local
      <3>1. CASE Fetch(t)
        BY <3>1 DEF Fetch
      <3>2. CASE Checkout(t)
        BY <3>2 DEF Checkout
      <3> QED BY <1>5, <3>1, <3>2
    <2> QED BY <1>0, <2>1 DEF Goto, local, TypeOK, Hands
  <1>6. CASE Find(t) \/ OpenLock(t) \/ Lock(t) \/ Start(t) \/ Run(t)
    BY <1>0, <1>6 DEF Find, OpenLock, Lock, Start, Run, Goto, Answer, local, TypeOK, Hands
  <1>7. CASE Touch(t) \/ Truncate(t) \/ Write(t) \/ Replace(t) \/ Remove(t)
    BY <1>0, <1>7 DEF Touch, Truncate, Write, Replace, Remove, TouchFailed, Answer, Goto,
       local, TypeOK, Hands
  <1>8. CASE HangUp(t) \/ Tick \/ UNCHANGED vars
    BY <1>1, <1>8 DEF HangUp, Tick, local, vars
  <1>9. ASSUME NEW s \in Sessions, s # t, Send(s) \/ Worker(s) \/ HangUp(s) \/ Kill(s)
        PROVE  pc'[t] = pc[t] /\ told'[t] = told[t] /\ saw'[t] = saw[t]
    BY <1>9, OthersStay
  <1> HIDE DEF Good
  <1> QED BY <1>1, <1>2, <1>3, <1>4, <1>5, <1>6, <1>7, <1>8, <1>9, <1>10 DEF Next, Worker, Good

\* What a client may have learnt.
Got(s) == IF told[s] = "made" \/ (ask[s].rpc = "create" /\ saw[s] # None)
            THEN Op(s) ELSE <<>>

LEMMA GotSame ==
  ASSUME TypeOK, Kinds, Untold, NEW s \in Sessions,
         Send(s) \/ Worker(s) \/ HangUp(s) \/ Kill(s), ~Look(s), ~Rename(s)
  PROVE  Got(s)' = Got(s)
  <1>1. CASE Send(s)
    <2>1. told'[s] = "none" /\ saw'[s] = None /\ told[s] = "none" /\ saw[s] = None
      BY <1>1 DEF Send, Untold
    <2> QED BY <2>1 DEF Got
  <1>2. CASE HangUp(s)
    BY <1>2 DEF HangUp, Got, Op
  <1>3. CASE Kill(s)
    <2>1. told[s] = "none" /\ told'[s] = "nothing" /\ saw' = saw /\ ask' = ask
      BY <1>3 DEF Kill, Untold, Working, Busy, TypeOK
    <2> QED BY <2>1 DEF Got, Op
  <1>4. CASE Worker(s)
    <2>1. ask' = ask /\ told[s] = "none"
      BY <1>4, WayOn DEF Untold, Busy
    <2>2. told'[s] # "made"
      <3>1. CASE Sweep(s) \/ Gc(s) \/ Reap(s) \/ Swept(s) \/ List(s)
        BY <2>1, <3>1 DEF TypeOK, Sweep, Gc, Reap, Swept, List, Answer
      <3>5. CASE Wiped(s) \/ WipeFails(s)
        BY <2>1, <3>5 DEF TypeOK, Wiped, WipeFails, NextItem, Answer
      <3>2. CASE Begin(s) \/ Receive(s) \/ Fetch(s) \/ Checkout(s) \/ WriteRecord(s)
                   \/ Truncate(s) \/ Write(s) \/ Unlink(s) \/ OpenLock(s)
        BY <2>1, <3>2 DEF Begin, Receive, Fetch, Checkout, WriteRecord, Truncate, Write,
           Unlink, OpenLock, local
      <3>3. CASE Cleanup(s) \/ Find(s) \/ Lock(s) \/ Start(s) \/ Run(s) \/ Remove(s)
        BY <2>1, <3>3 DEF TypeOK, Cleanup, Find, Lock, Start, Run, Remove, Answer
      <3>4. CASE Touch(s) \/ Replace(s)
        BY <2>1, <3>4 DEF TypeOK, Touch, Replace, TouchFailed, Success, Answer
      <3> QED BY <1>4, <3>1, <3>2, <3>3, <3>4, <3>5 DEF Worker
    <2>3. CASE Find(s)
      <3>1. ask[s].rpc # "create"
        BY <2>3 DEF Find, Kinds
      <3> QED BY <2>1, <2>2, <3>1 DEF Got
    <2>4. CASE ~Find(s)
      <3>1. saw' = saw
        BY <1>4, <2>4 DEF Worker, Sweep, Gc, Reap, Swept, List, Begin, Receive, Fetch,
           Checkout, WriteRecord, Truncate, Write, Cleanup, Unlink, Wiped, WipeFails,
           OpenLock, Lock, Start, Run, Remove,
           Touch, Replace, local
      <3> QED BY <2>1, <2>2, <3>1 DEF Got, Op
    <2> QED BY <2>3, <2>4
  <1> QED BY <1>1, <1>2, <1>3, <1>4

LEMMA GotOthers ==
  ASSUME TypeOK, NEW s \in Sessions, Send(s) \/ Worker(s) \/ HangUp(s) \/ Kill(s),
         NEW t \in Sessions, t # s
  PROVE  Got(t)' = Got(t)
  BY OthersStay DEF Got, Op

BoxMap == [b \in Boxes |-> live[b].rec]
GotMap == [s \in Sessions |-> Got(s)]

LEMMA BoxMoves ==
  ASSUME TypeOK, Absent, Next
  PROVE  \/ UNCHANGED BoxMap
         \/ \E b \in Boxes : BoxMap[b] # None /\ BoxMap' = [BoxMap EXCEPT ![b] = None]
         \/ \E s \in Sessions : Rename(s) /\ MayRename(s)
  <1>1. CASE \A b \in Boxes : SameBox(b)
    BY <1>1 DEF SameBox, BoxMap
  <1>2. ASSUME NEW b \in Boxes, Lost(b)
        PROVE  \/ UNCHANGED BoxMap
               \/ BoxMap[b] # None /\ BoxMap' = [BoxMap EXCEPT ![b] = None]
    <2>1. BoxMap' = [BoxMap EXCEPT ![b] = None]
      BY <1>2 DEF BoxMap, TypeOK, Lost
    <2>2. BoxMap[b] = None => BoxMap' = BoxMap
      BY <2>1 DEF BoxMap
    <2> QED BY <2>1, <2>2
  <1> QED BY <1>1, <1>2, LiveMoves

LEMMA RegistryForms ==
  /\ Registry!Init <=> BoxMap = [b \in Boxes |-> None] /\ GotMap = [s \in Sessions |-> <<>>]
  /\ \A b : Registry!Lose(b) <=> /\ BoxMap[b] # None
                                 /\ BoxMap' = [BoxMap EXCEPT ![b] = None]
                                 /\ UNCHANGED GotMap
  /\ \A s, b : Registry!Find(s, b) <=> /\ BoxMap[b] # None
                                       /\ GotMap' = [GotMap EXCEPT ![s] = <<b, BoxMap[b]>>]
                                       /\ UNCHANGED BoxMap
  /\ \A s, b, d : Registry!Make(s, b, d) <=>
                     /\ BoxMap[b] = None
                     /\ BoxMap' = [BoxMap EXCEPT ![b] = d]
                     /\ \/ GotMap' = [GotMap EXCEPT ![s] = <<b, d>>]
                        \/ UNCHANGED GotMap
  <1>1. Registry!Init <=> BoxMap = [b \in Boxes |-> None] /\ GotMap = [s \in Sessions |-> <<>>]
    BY DEF Registry!Init, BoxMap, GotMap, Got
  <1>2. ASSUME NEW b
        PROVE  Registry!Lose(b) <=> /\ BoxMap[b] # None
                                    /\ BoxMap' = [BoxMap EXCEPT ![b] = None]
                                    /\ UNCHANGED GotMap
    BY DEF Registry!Lose, BoxMap, GotMap, Got
  <1>3. ASSUME NEW s, NEW b
        PROVE  Registry!Find(s, b) <=> /\ BoxMap[b] # None
                                       /\ GotMap' = [GotMap EXCEPT ![s] = <<b, BoxMap[b]>>]
                                       /\ UNCHANGED BoxMap
    BY DEF Registry!Find, BoxMap, GotMap, Got
  <1>4. ASSUME NEW s, NEW b, NEW d
        PROVE  Registry!Make(s, b, d) <=> /\ BoxMap[b] = None
                                          /\ BoxMap' = [BoxMap EXCEPT ![b] = d]
                                          /\ \/ GotMap' = [GotMap EXCEPT ![s] = <<b, d>>]
                                             \/ UNCHANGED GotMap
    BY DEF Registry!Make, BoxMap, GotMap, Got
  <1> QED BY <1>1, <1>2, <1>3, <1>4

LEMMA RegistryNext ==
  Registry!Next <=>
    \/ \E s \in Sessions, b \in Boxes : \/ Registry!Find(s, b)
                                       \/ \E d \in Digests : Registry!Make(s, b, d)
    \/ \E b \in Boxes : Registry!Lose(b)
  BY DEF Registry!Next

\* A create that looks and finds its own box, or none.
LEMMA LookMaps ==
  ASSUME TypeOK, Kinds, Untold, NEW s \in Sessions, Look(s)
  PROVE  \/ UNCHANGED <<BoxMap, GotMap>>
         \/ \E b \in Boxes : Registry!Find(s, b)
  <1>1. UNCHANGED BoxMap
    BY DEF Look, disk, BoxMap
  <1>2. ask[s].rpc = "create" /\ saw[s] = None /\ told[s] = "none" /\ ask' = ask
    BY DEF Look, Kinds, Untold
  <1>3. Got(s) = <<>>
    BY <1>2 DEF Got
  <1>4. \A t \in Sessions : t # s => Got(t)' = Got(t)
    BY GotOthers DEF Worker
  <1>5. CASE Answer(s, "refused") /\ UNCHANGED saw
    <2>1. told'[s] # "made"
      BY <1>5 DEF Answer, TypeOK
    <2>2. Got(s)' = Got(s)
      BY <1>2, <1>3, <1>5, <2>1 DEF Got
    <2> QED BY <1>1, <1>4, <2>2 DEF GotMap
  <1>6. CASE /\ saw' = [saw EXCEPT ![s] = Box(s).rec] /\ UNCHANGED told
             /\ Box(s).rec \in {None, ask[s].digest}
    <2>1. saw'[s] = Box(s).rec /\ told'[s] = "none"
      BY <1>2, <1>6 DEF TypeOK
    <2>2. CASE Box(s).rec = None
      <3>1. Got(s)' = <<>>
        BY <2>1, <2>2 DEF Got
      <3> QED BY <1>1, <1>3, <1>4, <3>1 DEF GotMap
    <2>3. CASE Box(s).rec # None
      <3>0. PICK b \in Boxes : b = ask[s].box
        BY Places
      <3>1. BoxMap[b] = Box(s).rec /\ BoxMap[b] # None
        BY <2>3, <3>0 DEF BoxMap, Box
      <3>2. Got(s)' = <<b, BoxMap[b]>>
        BY <1>2, <1>6, <2>1, <2>3, <3>0, <3>1 DEF Got, Op
      <3>3. GotMap' = [GotMap EXCEPT ![s] = <<b, BoxMap[b]>>]
        BY <1>4, <3>2 DEF GotMap
      <3>4. Registry!Find(s, b)
        BY <1>1, <3>1, <3>3, RegistryForms
      <3> QED BY <3>4
    <2> QED BY <2>2, <2>3
  <1> QED BY <1>5, <1>6 DEF Look

\* The rename is the instant a box exists.
LEMMA RenameMaps ==
  ASSUME TypeOK, Hold, Untold, NEW s \in Sessions, Rename(s)
  PROVE  \/ UNCHANGED <<BoxMap, GotMap>>
         \/ \E b \in Boxes, d \in Digests : Registry!Make(s, b, d)
  <1>1. saw[s] = None /\ told[s] = "none" /\ ask' = ask /\ saw' = saw
    BY DEF Rename, Untold, Hands
  <1>2. Got(s) = <<>>
    BY <1>1 DEF Got
  <1>3. \A t \in Sessions : t # s => Got(t)' = Got(t)
    BY GotOthers DEF Worker
  <1>4. CASE ~MayRename(s)
    <2>1. told'[s] # "made" /\ UNCHANGED disk
      BY <1>4 DEF Rename, Answer, TypeOK
    <2>2. Got(s)' = <<>>
      BY <1>1, <2>1 DEF Got
    <2> QED BY <1>2, <1>3, <2>1, <2>2 DEF GotMap, BoxMap, disk
  <1>5. CASE MayRename(s)
    <2>1. PICK b \in Boxes, d \in Digests : b = ask[s].box /\ d = ask[s].digest
      BY Places
    <2>2. PICK x \in Dirs : live' = [live EXCEPT ![b] = x] /\ x.rec = d
      BY <1>5, <2>1, Published DEF Hold
    <2>3. BoxMap[b] = None
      BY <1>5, <2>1, Places, PlainDirs DEF MayRename, Box, BoxMap
    <2>4. BoxMap' = [BoxMap EXCEPT ![b] = d]
      BY <2>1, <2>2 DEF BoxMap, TypeOK
    <2>5. Got(s)' \in {<<b, d>>, <<>>}
      BY <1>1, <2>1 DEF Got, Op
    <2>6. \/ GotMap' = [GotMap EXCEPT ![s] = <<b, d>>]
          \/ UNCHANGED GotMap
      BY <1>2, <1>3, <2>5 DEF GotMap
    <2>7. Registry!Make(s, b, d)
      BY <2>3, <2>4, <2>6, RegistryForms
    <2> QED BY <2>7
  <1> QED BY <1>4, <1>5

LEMMA RegistryStep ==
  ASSUME TypeOK, Hold, Untold, [Next]_vars
  PROVE  Registry!Next \/ UNCHANGED <<BoxMap, GotMap>>
  <1>1. CASE UNCHANGED vars
    BY <1>1 DEF vars, BoxMap, GotMap, Got, Op
  <1>2. CASE Tick
    BY <1>2 DEF Tick, BoxMap, GotMap, Got, Op, disk, local
  <1>3. ASSUME NEW s \in Sessions, Send(s) \/ Worker(s) \/ HangUp(s) \/ Kill(s),
               ~Look(s), ~Rename(s)
        PROVE  Registry!Next \/ UNCHANGED <<BoxMap, GotMap>>
    <2>1. UNCHANGED GotMap
      BY <1>3, GotSame, GotOthers DEF GotMap, Hold
    <2>2. ASSUME NEW t \in Sessions, Rename(t) PROVE FALSE
      <3>1. pc[t] = "rename" /\ pc'[t] = "done" /\ t # s
        BY <1>3, <2>2 DEF Rename, Answer, TypeOK
      <3> QED BY <1>3, <3>1, OthersStay
    <2>3. \/ UNCHANGED BoxMap
          \/ \E b \in Boxes : BoxMap[b] # None /\ BoxMap' = [BoxMap EXCEPT ![b] = None]
      BY <1>3, <2>2, BoxMoves DEF Next, Hold
    <2> QED BY <2>1, <2>3, RegistryForms, RegistryNext
  <1>4. ASSUME NEW s \in Sessions, Look(s)
        PROVE  Registry!Next \/ UNCHANGED <<BoxMap, GotMap>>
    BY <1>4, LookMaps, RegistryNext DEF Hold
  <1>5. ASSUME NEW s \in Sessions, Rename(s)
        PROVE  Registry!Next \/ UNCHANGED <<BoxMap, GotMap>>
    BY <1>5, RenameMaps, RegistryNext
  <1> QED BY <1>1, <1>2, <1>3, <1>4, <1>5 DEF Next

(* While no attempt is in two hands, the two directories and the workers    *)
(* implement a registry: a name is taken once, a box is never exchanged for *)
(* another, and a create is told only of a box made of its own request.     *)
THEOREM RegistryKept == ASSUME Calm PROVE Spec => RegistrySpec
  <1>1. Init => Untold
    BY DEF Init, Untold
  <1>2. TypeOK /\ Kinds /\ Untold /\ [Next]_vars => Untold'
    BY UntoldKept
  <1>3. Hold => Kinds
    BY DEF Hold
  <1>4. Init => Registry!Init
    <2>1. Init => BoxMap = [b \in Boxes |-> None] /\ GotMap = [s \in Sessions |-> <<>>]
      BY DEF Init, BoxMap, GotMap, Got, NoDir
    <2> QED BY <2>1, RegistryForms
  <1>5. TypeOK /\ Hold /\ Untold /\ [Next]_vars
          => [Registry!Next]_<<[b \in Boxes |-> live[b].rec],
                               [s \in Sessions |->
                                  IF told[s] = "made" \/ (ask[s].rpc = "create" /\ saw[s] # None)
                                    THEN Op(s) ELSE <<>>]>>
    BY RegistryStep DEF BoxMap, GotMap, Got
  <1> QED BY <1>1, <1>2, <1>3, <1>4, <1>5, RunnerTypes, Holding, PTL
          DEF Spec, RegistrySpec, Registry!Spec
=============================================================================
