--------------------------- MODULE ShareDoorProofs ---------------------------
(***************************************************************************)
(* More proofs about ShareSession, from the invariant StopInv of           *)
(* ShareSessionProofs: what was answered to operators stays true, shares   *)
(* leave each other's record alone, and sharing is an orderly door.        *)
(***************************************************************************)
EXTENDS ShareSessionProofs

-----------------------------------------------------------------------------
(* Answers.                                                                 *)

\* A command that has told its operator something is past its write.
Answered(o) == pc[o] \in {"look", "done"}

(* What holds of share.json and of whatever is about to replace it.         *)
Sound(r) ==
  /\ ~Present(r) => r.grants = {} /\ ~r.starting
  /\ r.grants \subseteq minted
  /\ Present(r) /\ r.starting => r.owner \notin announced /\ pc[r.owner] # "announce"
  /\ \A o \in Ops :
       /\ ans[o].said \in {"revoked", "over"} => arg[o] \notin r.grants \ r.revoked
       /\ ans[o].said = "minted" /\ r.owner = ans[o].owner => arg[o] \in r.grants

\* Records of two shares have no grant in common.
Apart(r, s) == r.owner = s.owner \/ r.grants \cap s.grants = {}

AllSound ==
  /\ Sound(rec)
  /\ \A x \in Procs : Writer(x) => Sound(seen[x]) /\ Apart(rec, seen[x])
  /\ \A x, y \in Procs : Writer(x) /\ Writer(y) => Apart(seen[x], seen[y])

(* What a command knows of the write it is about to make, and what its      *)
(* answer says.                                                             *)
OpKnows(o) ==
  /\ pc[o] = "write" /\ cmd[o] = "grant" => Present(seen[o]) /\ arg[o] \in seen[o].grants
  /\ pc[o] = "write" /\ cmd[o] = "revoke" =>
       Present(seen[o]) /\ arg[o] \in seen[o].grants \cap seen[o].revoked
  /\ pc[o] = "look" /\ cmd[o] = "revoke" => ans[o].said = "revoked"
  /\ pc[o] = "delete" => cmd[o] = "force"
  /\ ans[o].said # "none" => Answered(o)
  /\ ans[o].said \in {"revoked", "over"} => arg[o] \in minted
  /\ ans[o].said = "minted" => Present(ans[o]) /\ Begun(ans[o].owner)
  /\ StopAnswered(o) /\ seen[o].starting =>
       ans[o].owner \notin announced /\ pc[ans[o].owner] \notin {"openwrite", "announce"}

OpenerKnows(p) ==
  /\ pc[p] = "openwrite" => seen[p].owner = p /\ ~seen[p].starting
  /\ p \in announced => Begun(p)

AnswerInv == /\ AllSound
             /\ \A o \in Ops : OpKnows(o)
             /\ \A p \in Serves : OpenerKnows(p)

(* Steps that write no record.                                              *)

Stays(o) ==
  /\ Answered(o) => Answered(o)' /\ arg'[o] = arg[o]
  /\ pc'[o] = "write" => pc[o] = "write" /\ arg'[o] = arg[o] /\ cmd'[o] = cmd[o]
  /\ pc'[o] = "delete" => cmd'[o] = "force"
  /\ pc'[o] = "look" /\ cmd'[o] = "revoke" =>
       pc[o] = "look" /\ cmd[o] = "revoke" /\ ans'[o] = ans[o]
  /\ \/ ans'[o] = ans[o]
     \/ /\ Answered(o)'
        /\ \/ ans'[o].said \in {"nothing", "deleting", "deleted", "reappeared"}
           \/ ans'[o].said = "over" /\ ans[o].said = "revoked"

NoWrite ==
  /\ rec' \in {rec, Gone, Unreadable}
  /\ UNCHANGED <<seen, minted>>
  /\ \A x \in Procs : Writer(x)' => Writer(x)
  /\ \A o \in Ops : Stays(o)
  /\ \A p \in Serves :
       /\ Begun(p) => Begun(p)'
       /\ pc'[p] \in {"openwrite", "announce"} => pc'[p] = pc[p]
       /\ p \in announced' => p \in announced \/ pc[p] = "announce"

LEMMA NoWriteAnswers ==
  ASSUME TypeInv, StopInv, AnswerInv, NoWrite
  PROVE  AnswerInv'
<1>a. NoOne \notin Serves /\ Garbled \notin Serves
  BY ProcsAssumption DEF Procs
<1>s. \A o \in Ops : StopAnswered(o) => ans[o].owner \in Serves
  BY DEF StopInv, StopKept, Present
<1>k. /\ \A o \in Ops : OpKnows(o) /\ Stays(o)
      /\ \A p \in Serves : OpenerKnows(p)
      /\ \A x \in Procs : Writer(x)' => Writer(x)
      /\ seen' = seen /\ minted' = minted
  BY DEF AnswerInv, NoWrite
<1>n. /\ \A p \in Serves : Begun(p) => Begun(p)'
      /\ \A p \in Serves : pc'[p] \in {"openwrite", "announce"} => pc'[p] = pc[p]
      /\ \A p \in Serves : p \in announced' => p \in announced \/ pc[p] = "announce"
  BY DEF NoWrite
<1>o. ASSUME NEW o \in Ops
      PROVE  /\ ans'[o].said \in {"revoked", "over"} =>
                  ans[o].said \in {"revoked", "over"} /\ arg'[o] = arg[o]
             /\ ans'[o].said = "minted" => ans'[o] = ans[o] /\ arg'[o] = arg[o]
             /\ StopAnswered(o)' => ans'[o] = ans[o]
             /\ ans'[o].said # "none" => Answered(o)'
  BY <1>k, <1>o DEF OpKnows, Stays, StopAnswered
<1>1. Sound(rec)'
  <2>1. CASE rec' = rec
    BY <1>k, <1>n, <1>o, <2>1 DEF AnswerInv, AllSound, Sound, Present
  <2>2. CASE rec' \in {Gone, Unreadable}
    <3>1. /\ ~Present(rec') /\ rec'.grants = {} /\ ~rec'.starting
      BY <1>a, <2>2 DEF Gone, Unreadable, Blank, Present
    <3>2. \A o \in Ops : ans'[o].said = "minted" => rec'.owner # ans'[o].owner
      BY <1>o, <1>k, <3>1 DEF OpKnows, Present
    <3> QED BY <3>1, <3>2 DEF Sound, Present
  <2> QED BY <2>1, <2>2 DEF NoWrite
<1>2. ASSUME NEW x \in Procs, Writer(x)' PROVE Sound(seen[x])' /\ Apart(rec, seen[x])'
  <2>1. Sound(seen[x]) /\ Apart(rec, seen[x])
    BY <1>k, <1>2 DEF AnswerInv, AllSound
  <2>2. Sound(seen[x])'
    BY <1>k, <1>n, <1>o, <2>1 DEF Sound, Present
  <2>3. Apart(rec, seen[x])'
    BY <1>k, <2>1 DEF NoWrite, Apart, Gone, Unreadable, Blank
  <2> QED BY <2>2, <2>3
<1>3. ASSUME NEW x \in Procs, NEW y \in Procs, Writer(x)', Writer(y)'
      PROVE  Apart(seen[x], seen[y])'
  BY <1>k, <1>3 DEF AnswerInv, AllSound, Apart
<1>4. ASSUME NEW o \in Ops PROVE OpKnows(o)'
  <2>1. /\ pc'[o] = "write" /\ cmd'[o] = "grant" =>
             Present(seen'[o]) /\ arg'[o] \in seen'[o].grants
        /\ pc'[o] = "write" /\ cmd'[o] = "revoke" =>
             Present(seen'[o]) /\ arg'[o] \in seen'[o].grants \cap seen'[o].revoked
        /\ pc'[o] = "look" /\ cmd'[o] = "revoke" => ans'[o].said = "revoked"
    BY <1>k DEF OpKnows, Stays
  <2>2. /\ ans'[o].said \in {"revoked", "over"} => arg'[o] \in minted'
        /\ ans'[o].said = "minted" =>
             ans'[o].owner \in Serves /\ pc'[ans'[o].owner] \notin Before
    <3>1. ans'[o].said \in {"revoked", "over"} => arg'[o] \in minted'
      BY <1>k, <1>o DEF OpKnows
    <3>2. ans[o].said = "minted" => ans[o].owner \in Serves /\ Begun(ans[o].owner)
      BY <1>k DEF OpKnows, Present
    <3>3. \A p \in Serves : Begun(p) => pc'[p] \notin Before
      BY <1>n DEF Begun, Before
    <3> QED BY <1>o, <3>1, <3>2, <3>3
  <2>3. StopAnswered(o)' /\ seen'[o].starting =>
          /\ ans'[o].owner \notin announced'
          /\ pc'[ans'[o].owner] \notin {"openwrite", "announce"}
    BY <1>k, <1>n, <1>o, <1>s DEF OpKnows, StopAnswered
  <2>4. ans'[o].said # "none" => Answered(o)'
    BY <1>o
  <2>5. pc'[o] = "delete" => cmd'[o] = "force"
    BY <1>k DEF Stays
  <2> QED BY <2>5, <2>1, <2>2, <2>3, <2>4 DEF OpKnows, Present, Begun, Before
<1>5. ASSUME NEW p \in Serves PROVE OpenerKnows(p)'
  BY <1>k, <1>n DEF OpenerKnows, Begun
<1> QED BY <1>1, <1>2, <1>3, <1>4, <1>5 DEF AnswerInv, AllSound

(* One process moves on; it may have removed the record.                    *)
LEMMA MoveAnswers ==
  ASSUME TypeInv, StopInv, AnswerInv,
         NEW x \in Procs, NEW l \in Labels \ (WriteLabels \cup {"announce"}),
         pc' = [pc EXCEPT ![x] = l],
         x \in Serves /\ l \in Before => pc[x] \in Before,
         x \in Ops => l = "done",
         rec' \in {rec, Gone, Unreadable},
         UNCHANGED <<seen, minted, arg, ans>>,
         \A o \in Ops : cmd'[o] = cmd[o],
         \A p \in announced' : p \in announced \/ pc[p] = "announce"
  PROVE  AnswerInv'
<1>1. pc'[x] = l /\ \A y \in Procs \ {x} : pc'[y] = pc[y]
  BY DEF TypeInv, TypeOK
<1>2. \A y \in Procs : Writer(y)' => Writer(y)
  BY <1>1 DEF Writer
<1>3. \A o \in Ops : Stays(o)
  <2> TAKE o \in Ops
  <2>1. pc'[o] = pc[o] \/ pc'[o] = "done"
    BY <1>1 DEF Procs
  <2> QED BY <2>1 DEF Stays, Answered, AnswerInv, OpKnows
<1>4. \A p \in Serves : /\ Begun(p) => Begun(p)'
                        /\ pc'[p] \in {"openwrite", "announce"} => pc'[p] = pc[p]
                        /\ p \in announced' => p \in announced \/ pc[p] = "announce"
  BY <1>1 DEF Procs, Begun, Before, WriteLabels
<1> QED BY <1>2, <1>3, <1>4, NoWriteAnswers DEF NoWrite

(* Steps that read the record under the lock and prepare a write of it.     *)

\* A record that replaces the one there is: the same share's, with nothing taken back.
Edit(x, r, l) ==
  /\ Present(rec) /\ r.owner = rec.owner /\ (r.starting => rec.starting)
  /\ rec.grants \subseteq r.grants /\ rec.grants \cap rec.revoked \subseteq r.revoked
  /\ r.grants \subseteq minted' /\ (r.grants \ rec.grants) \cap minted = {}
  /\ l \in {"openwrite", "windwrite", "write"}
  /\ l = "openwrite" => r.owner = x /\ ~r.starting /\ ~rec.winding
  /\ l = "write" =>
       /\ x \in Ops
       /\ cmd[x] = "grant" => arg'[x] \in r.grants
       /\ cmd[x] = "revoke" => arg'[x] \in r.grants \cap r.revoked
NewClaim(x, r, l) == l = "claimwrite" /\ x \in Serves /\ ~Begun(x) /\ r = Claimed(x)
Removal(x, r, l) == l = "write" /\ x \in Ops /\ r = Gone /\ cmd[x] = "stop"

LEMMA ReadAnswers ==
  ASSUME TypeInv, StopInv, AnswerInv,
         NEW x \in Procs, NEW r \in Record, NEW l \in WriteLabels,
         Prepare(x, r, l), UNCHANGED <<rec, ans, cmd, announced>>,
         minted \subseteq minted',
         \A o \in Ops \ {x} : arg'[o] = arg[o],
         pc[x] \notin {"look", "done"},
         Edit(x, r, l) \/ NewClaim(x, r, l) \/ Removal(x, r, l)
  PROVE  AnswerInv'
<1>a. NoOne \notin Serves
  BY ProcsAssumption DEF Procs
<1>b. /\ pc'[x] = l /\ \A y \in Procs \ {x} : pc'[y] = pc[y]
      /\ seen'[x] = r /\ \A y \in Procs \ {x} : seen'[y] = seen[y]
  BY DEF Prepare, TypeInv, TypeOK
<1>l. l \in {"claimwrite", "openwrite", "windwrite", "write"}
  BY DEF WriteLabels
<1>k. /\ \A o \in Ops : OpKnows(o)
      /\ \A p \in Serves : OpenerKnows(p)
      /\ Sound(rec)
      /\ \A y \in Procs : Writer(y) => Sound(seen[y]) /\ Apart(rec, seen[y])
  BY DEF AnswerInv, AllSound
<1>o. \A o \in Ops : ans[o].said # "none" => o # x /\ Answered(o) /\ arg'[o] = arg[o]
  BY <1>k DEF OpKnows, Answered
<1>n. \A p \in Serves : /\ Begun(p) => pc'[p] \notin Before
                        /\ pc'[p] = "announce" => pc[p] = "announce"
  <2>1. ~Begun(x) \/ l # "claimwrite"
    BY DEF Edit, NewClaim, Removal
  <2> QED BY <1>b, <1>l, <2>1 DEF Begun, Before, Procs
<1>g. /\ \A o \in Ops : ans[o].said = "minted" => ans[o].owner \in Serves /\ Begun(ans[o].owner)
      /\ \A o \in Ops : ans[o].said \in {"revoked", "over"} => arg[o] \in minted
  BY <1>k DEF OpKnows, Present
<1>1. Sound(rec)'
  BY <1>k, <1>n, <1>o DEF Sound, Present
<1>2. /\ ~Present(r) => r.grants = {} /\ ~r.starting
      /\ r.grants \subseteq minted'
      /\ Present(r) /\ r.starting => r.owner \notin announced /\ pc'[r.owner] # "announce"
      /\ \A o \in Ops :
           /\ ans[o].said \in {"revoked", "over"} => arg'[o] \notin r.grants \ r.revoked
           /\ ans[o].said = "minted" /\ r.owner = ans[o].owner => arg'[o] \in r.grants
  <2>1. CASE Edit(x, r, l)
    <3>1. \A o \in Ops : ans[o].said \in {"revoked", "over"} => arg'[o] \notin r.grants \ r.revoked
      BY <1>g, <1>k, <1>o, <2>1 DEF Edit, Sound
    <3>2. \A o \in Ops : ans[o].said = "minted" /\ r.owner = ans[o].owner => arg'[o] \in r.grants
      BY <1>k, <1>o, <2>1 DEF Edit, Sound
    <3> QED BY <1>k, <1>n, <2>1, <3>1, <3>2 DEF Edit, Sound, Present
  <2>2. CASE NewClaim(x, r, l)
    <3>1. r.owner = x /\ r.grants = {} /\ Present(r)
      BY <2>2 DEF NewClaim, Claimed, Blank, Present
    <3>2. x \notin announced /\ pc'[x] # "announce"
      BY <1>b, <1>k, <2>2 DEF NewClaim, OpenerKnows
    <3>3. \A o \in Ops : ans[o].said = "minted" => ans[o].owner # x
      BY <1>g, <2>2 DEF NewClaim
    <3> QED BY <3>1, <3>2, <3>3
  <2>3. CASE Removal(x, r, l)
    <3>1. r.grants = {} /\ ~r.starting /\ r.owner = NoOne
      BY <2>3 DEF Removal, Gone, Blank
    <3> QED BY <1>a, <1>g, <3>1 DEF Present
  <2> QED BY <2>1, <2>2, <2>3
<1>3. ASSUME NEW s \in Record, s.grants \subseteq minted, Apart(rec, s)
      PROVE  r.owner = s.owner \/ r.grants \cap s.grants = {}
  BY <1>3 DEF Edit, NewClaim, Removal, Claimed, Gone, Blank, Apart
<1>4. Apart(rec, r)
  BY DEF Edit, NewClaim, Removal, Claimed, Gone, Blank, Apart
<1>5. ASSUME NEW y \in Procs, Writer(y)' PROVE Sound(seen[y])' /\ Apart(rec, seen[y])'
  <2>1. CASE y = x
    BY <1>2, <1>4, <1>b, <2>1 DEF Sound, Apart, Present
  <2>2. CASE y # x
    <3>1. seen'[y] = seen[y] /\ Sound(seen[y]) /\ Apart(rec, seen[y])
      BY <1>5, <1>b, <1>k, <2>2 DEF Writer
    <3>2. Sound(seen[y])'
      BY <1>n, <1>o, <3>1 DEF Sound, Present
    <3> QED BY <3>1, <3>2 DEF Apart
  <2> QED BY <2>1, <2>2
<1>6. ASSUME NEW y \in Procs, NEW z \in Procs, Writer(y)', Writer(z)'
      PROVE  Apart(seen[y], seen[z])'
  <2>1. ASSUME NEW w \in Procs \ {x}, Writer(w)'
        PROVE  seen'[w] = seen[w] /\ (r.owner = seen[w].owner \/ r.grants \cap seen[w].grants = {})
    <3>1. /\ seen'[w] = seen[w] /\ seen[w] \in Record
          /\ Sound(seen[w]) /\ Apart(rec, seen[w])
      BY <1>b, <1>k, <2>1 DEF Writer, TypeInv, TypeOK
    <3> QED BY <1>3, <3>1 DEF Sound
  <2>2. CASE y # x /\ z # x
    BY <1>6, <1>b, <2>2 DEF Writer, AnswerInv, AllSound, Apart
  <2>3. CASE y = x /\ z # x
    BY <1>6, <1>b, <2>1, <2>3 DEF Apart
  <2>4. CASE y # x /\ z = x
    BY <1>6, <1>b, <2>1, <2>4 DEF Apart
  <2> QED BY <2>2, <2>3, <2>4 DEF Apart
<1>7. ASSUME NEW o \in Ops PROVE OpKnows(o)'
  <2>0. o \in Procs
    BY DEF Procs
  <2>1. CASE o = x
    <3>1. ans'[o].said = "none" /\ pc'[o] = l
      BY <1>b, <1>o, <2>1
    <3>2. l = "write" /\ cmd[x] = "grant" => Present(r) /\ arg'[x] \in r.grants
      BY DEF Edit, NewClaim, Removal, Present
    <3>3. l = "write" /\ cmd[x] = "revoke" => Present(r) /\ arg'[x] \in r.grants \cap r.revoked
      BY DEF Edit, NewClaim, Removal, Present
    <3> QED BY <1>b, <1>l, <2>1, <3>1, <3>2, <3>3 DEF OpKnows, Present, StopAnswered
  <2>2. CASE o # x
    <3>1. /\ pc'[o] = pc[o] /\ seen'[o] = seen[o] /\ arg'[o] = arg[o]
          /\ ans'[o] = ans[o] /\ cmd'[o] = cmd[o] /\ OpKnows(o)
      BY <1>b, <1>k, <2>0, <2>2
    <3>2. StopAnswered(o) /\ seen[o].starting => pc'[ans[o].owner] # "openwrite"
      <4> SUFFICES ASSUME StopAnswered(o), seen[o].starting, pc'[ans[o].owner] = "openwrite"
                   PROVE  FALSE
        OBVIOUS
      <4>1. ans[o].owner \in Serves /\ pc[ans[o].owner] # "openwrite"
        BY <3>1 DEF StopInv, StopKept, Present, OpKnows
      <4>2. ans[o].owner = x /\ l = "openwrite"
        BY <1>b, <4>1 DEF Procs
      <4>3. rec.owner = x /\ ~rec.winding
        BY <4>2 DEF Edit, NewClaim, Removal
      <4> QED BY <4>2, <4>3 DEF StopInv, StopKept, Ours, Shut
    <3>3. ans'[o].said = "minted" =>
             ans'[o].owner \in Serves /\ pc'[ans'[o].owner] \notin Before
      BY <1>g, <1>n, <3>1
    <3>4. StopAnswered(o)' /\ seen'[o].starting =>
            /\ ans'[o].owner \notin announced'
            /\ pc'[ans'[o].owner] \notin {"openwrite", "announce"}
      BY <1>n, <3>1, <3>2 DEF OpKnows, StopAnswered, StopInv, StopKept, Present
    <3> QED BY <3>1, <3>3, <3>4 DEF OpKnows, Answered, Present, Begun, Before
  <2> QED BY <2>1, <2>2
<1>8. ASSUME NEW p \in Serves PROVE OpenerKnows(p)'
  <2>1. pc'[p] = "openwrite" => seen'[p].owner = p /\ ~seen'[p].starting
    <3>1. l = "openwrite" => r.owner = x /\ ~r.starting
      BY DEF Edit, NewClaim, Removal
    <3> QED BY <1>b, <1>k, <3>1 DEF OpenerKnows, Procs
  <2>2. p \in announced' => pc'[p] \notin Before
    BY <1>k, <1>n DEF OpenerKnows
  <2> QED BY <2>1, <2>2 DEF OpenerKnows, Begun, Before
<1> QED BY <1>1, <1>5, <1>6, <1>7, <1>8 DEF AnswerInv, AllSound

(* Steps that write what was prepared.                                      *)
LEMMA WriteAnswers ==
  ASSUME TypeInv, StopInv, AnswerInv,
         NEW x \in Procs, NEW l \in Labels \ (WriteLabels \cup Before),
         Writer(x), rec' = seen[x], Leave(x, l),
         UNCHANGED <<seen, minted, arg, cmd, announced>>,
         l = "announce" => pc[x] = "openwrite",
         \/ x \notin Ops /\ ans' = ans
         \/ /\ x \in Ops /\ pc[x] = "write"
            /\ l = IF cmd[x] = "revoke" THEN "look" ELSE "done"
            /\ ans'[x].owner = seen[x].owner
            /\ \A o \in Ops \ {x} : ans'[o] = ans[o]
            /\ CASE cmd[x] = "grant" -> ans'[x].said = "minted"
                 [] cmd[x] = "revoke" -> ans'[x].said = "revoked"
                 [] OTHER -> \/ ans'[x].said = "stale"
                             \/ StopAnswered(x)' /\ Present(seen[x])
  PROVE  AnswerInv'
<1>a. NoOne \notin Serves /\ \A o \in Ops : o \in Procs /\ o \notin Serves
  BY ProcsAssumption DEF Procs
<1>b. /\ pc'[x] = l /\ \A y \in Procs \ {x} : pc'[y] = pc[y]
  BY DEF Leave, TypeInv, TypeOK
<1>k. /\ \A o \in Ops : OpKnows(o)
      /\ \A p \in Serves : OpenerKnows(p)
      /\ \A y \in Procs : Writer(y) => Sound(seen[y]) /\ Apart(rec, seen[y])
  BY DEF AnswerInv, AllSound
<1>w. /\ \A y \in Procs : Writer(y)' => Writer(y) /\ y # x
      /\ \A y \in Procs : Writer(y) /\ y # x /\ Present(seen[x]) => seen[y].owner # seen[x].owner
  <2>1. \A y \in Procs : Writer(y)' => Writer(y) /\ y # x
    BY <1>b DEF Writer
  <2>2. \A y \in Procs : Writer(y) /\ y # x /\ Present(seen[x]) => seen[y].owner # seen[x].owner
    BY OneWriter DEF StopInv
  <2> QED BY <2>1, <2>2
<1>n. \A p \in Serves : /\ Begun(p) => pc'[p] \notin Before
                        /\ pc'[p] = "announce" => pc[p] \in {"openwrite", "announce"}
                        /\ pc'[p] = "openwrite" => pc[p] = "openwrite"
  BY <1>b DEF Begun, Before, Procs, WriteLabels
<1>u. arg' = arg /\ cmd' = cmd /\ seen' = seen /\ minted' = minted /\ announced' = announced
  OBVIOUS
<1>o. ASSUME NEW o \in Ops, ~(o = x)
      PROVE  ans'[o] = ans[o] /\ pc'[o] = pc[o]
  BY <1>a, <1>b, <1>o
<1>x. ASSUME x \in Ops
      PROVE  /\ pc[x] = "write" /\ pc'[x] = IF cmd[x] = "revoke" THEN "look" ELSE "done"
             /\ ans'[x].owner = seen[x].owner
             /\ cmd[x] = "grant" => ans'[x].said = "minted"
             /\ cmd[x] = "revoke" => ans'[x].said = "revoked"
             /\ cmd[x] \notin {"grant", "revoke"} => \/ ans'[x].said = "stale"
                                                     \/ StopAnswered(x)' /\ Present(seen[x])
  BY <1>b, <1>x
<1>1. ASSUME NEW o \in Ops, ans'[o].said \in {"revoked", "over"}
      PROVE  /\ arg[o] \in minted
             /\ \A y \in Procs : Writer(y) => arg[o] \notin seen[y].grants \ seen[y].revoked
  <2>1. CASE o # x
    BY <1>1, <1>k, <1>o, <2>1 DEF OpKnows, Sound
  <2>2. CASE o = x
    <3>1. cmd[x] = "revoke"
      BY <1>1, <1>x, <2>2 DEF StopAnswered
    <3>2. Present(seen[x]) /\ arg[x] \in seen[x].grants /\ arg[x] \in seen[x].revoked
      BY <1>k, <1>x, <2>2, <3>1 DEF OpKnows
    <3>3. arg[x] \in minted
      BY <1>k, <3>2 DEF Sound
    <3>4. ASSUME NEW y \in Procs, Writer(y), y # x PROVE arg[x] \notin seen[y].grants
      <4>1. Apart(seen[x], seen[y])
        BY <3>4 DEF AnswerInv, AllSound
      <4> QED BY <1>w, <3>2, <3>4, <4>1 DEF Apart
    <3> QED BY <2>2, <3>2, <3>3, <3>4
  <2> QED BY <2>1, <2>2
<1>2. ASSUME NEW o \in Ops, ans'[o].said = "minted"
      PROVE  /\ ans'[o].owner \in Serves /\ pc'[ans'[o].owner] \notin Before
             /\ \A y \in Procs : Writer(y) /\ seen[y].owner = ans'[o].owner =>
                  arg[o] \in seen[y].grants
  <2>1. CASE o # x
    <3>1. ans'[o].owner \in Serves /\ Begun(ans'[o].owner)
      BY <1>2, <1>k, <1>o, <2>1 DEF OpKnows, Present
    <3>2. \A y \in Procs : Writer(y) /\ seen[y].owner = ans'[o].owner => arg[o] \in seen[y].grants
      BY <1>2, <1>k, <1>o, <2>1 DEF Sound
    <3> QED BY <1>n, <3>1, <3>2
  <2>2. CASE o = x
    <3>1. cmd[x] = "grant"
      BY <1>2, <1>x, <2>2 DEF StopAnswered
    <3>2. Present(seen[x]) /\ arg[x] \in seen[x].grants /\ ans'[x].owner = seen[x].owner
      BY <1>k, <1>x, <2>2, <3>1 DEF OpKnows
    <3>3. Begun(seen[x].owner)
      BY <1>x, <2>2, <3>2 DEF StopInv, OwnersBegan
    <3> QED BY <1>n, <1>w, <2>2, <3>2, <3>3 DEF Present
  <2> QED BY <2>1, <2>2
<1>3. ASSUME NEW o \in Ops, StopAnswered(o)', seen[o].starting
      PROVE  ans'[o].owner \notin announced /\ pc'[ans'[o].owner] \notin {"openwrite", "announce"}
  <2>1. CASE o # x
    <3>1. StopAnswered(o) /\ ans'[o] = ans[o]
      BY <1>3, <1>o, <2>1 DEF StopAnswered
    <3>2. /\ ans[o].owner \in Serves /\ ans[o].owner \notin announced
          /\ pc[ans[o].owner] \notin {"openwrite", "announce"}
      BY <1>3, <1>k, <3>1 DEF OpKnows, StopInv, StopKept, Present
    <3> QED BY <1>n, <3>1, <3>2
  <2>2. CASE o = x
    <3>1. Present(seen[x]) /\ ans'[x].owner = seen[x].owner
      BY <1>3, <1>x, <2>2 DEF StopAnswered
    <3>2. seen[x].owner \notin announced /\ pc[seen[x].owner] # "announce"
      BY <1>3, <1>k, <2>2, <3>1 DEF Sound
    <3>3. pc[seen[x].owner] # "openwrite"
      <4> SUFFICES ASSUME pc[seen[x].owner] = "openwrite" PROVE FALSE
        OBVIOUS
      <4>1. seen[x].owner \in Serves /\ seen[x].owner \in Procs /\ seen[x].owner # x
        BY <1>a, <2>2, <3>1 DEF Present, Procs
      <4>2. seen[seen[x].owner].owner = seen[x].owner
        BY <1>k, <4>1 DEF OpenerKnows
      <4> QED BY <1>w, <3>1, <4>1, <4>2 DEF Writer, WriteLabels
    <3> QED BY <1>n, <2>2, <3>1, <3>2, <3>3 DEF Present
  <2> QED BY <2>1, <2>2
<1>4. ASSUME NEW y \in Procs, Writer(y), Writer(y)' \/ y = x
      PROVE  Present(seen[y]) /\ seen[y].starting =>
               seen[y].owner \notin announced /\ pc'[seen[y].owner] # "announce"
  <2> SUFFICES ASSUME Present(seen[y]), seen[y].starting, pc'[seen[y].owner] = "announce"
               PROVE  FALSE
    BY <1>4, <1>k DEF Sound
  <2>1. seen[y].owner \in Serves /\ pc[seen[y].owner] # "announce"
    BY <1>4, <1>k DEF Sound, Present
  <2>2. seen[y].owner = x /\ pc[x] = "openwrite"
    BY <1>b, <1>n, <2>1 DEF Procs
  <2>3. seen[x].owner = x /\ ~seen[x].starting /\ Present(seen[x])
    BY <1>k, <2>1, <2>2 DEF OpenerKnows, Present
  <2> QED BY <1>4, <1>w, <2>2, <2>3
<1>5. ASSUME NEW y \in Procs, Writer(y), Writer(y)' \/ y = x PROVE Sound(seen[y])'
  <2>1. Sound(seen[y])
    BY <1>5, <1>k
  <2> QED BY <1>1, <1>2, <1>4, <1>5, <1>u, <2>1 DEF Sound, Present
<1>6. Sound(rec)'
  <2>1. Sound(seen[x])' /\ seen'[x] = rec'
    BY <1>5
  <2> QED BY <2>1 DEF Sound, Present
<1>7. ASSUME NEW y \in Procs, Writer(y)' PROVE Sound(seen[y])' /\ Apart(rec, seen[y])'
  <2>1. Writer(y) /\ Apart(seen[x], seen[y])
    BY <1>7, <1>w DEF AnswerInv, AllSound
  <2> QED BY <1>5, <1>7, <2>1 DEF Apart
<1>8. ASSUME NEW y \in Procs, NEW z \in Procs, Writer(y)', Writer(z)'
      PROVE  Apart(seen[y], seen[z])'
  BY <1>8, <1>w DEF AnswerInv, AllSound, Apart
<1>9. ASSUME NEW o \in Ops PROVE OpKnows(o)'
  <2>1. /\ pc'[o] = "write" /\ cmd'[o] = "grant" =>
             Present(seen'[o]) /\ arg'[o] \in seen'[o].grants
        /\ pc'[o] = "write" /\ cmd'[o] = "revoke" =>
             Present(seen'[o]) /\ arg'[o] \in seen'[o].grants \cap seen'[o].revoked
    BY <1>k, <1>o, <1>x, <1>u DEF OpKnows
  <2>2. /\ pc'[o] = "look" /\ cmd'[o] = "revoke" => ans'[o].said = "revoked"
        /\ pc'[o] = "delete" => cmd'[o] = "force"
    BY <1>k, <1>o, <1>x, <1>u DEF OpKnows
  <2>3. ans'[o].said # "none" => Answered(o)'
    BY <1>k, <1>o, <1>x DEF OpKnows, Answered
  <2>4. StopAnswered(o)' /\ seen'[o].starting =>
          /\ ans'[o].owner \notin announced'
          /\ pc'[ans'[o].owner] \notin {"openwrite", "announce"}
    BY <1>3, <1>u
  <2> QED BY <1>1, <1>2, <1>u, <2>1, <2>2, <2>3, <2>4 DEF OpKnows, Present, Begun, Before
<1>10. ASSUME NEW p \in Serves PROVE OpenerKnows(p)'
  BY <1>k, <1>n, <1>u DEF OpenerKnows, Begun, Before
<1> QED BY <1>6, <1>7, <1>8, <1>9, <1>10 DEF AnswerInv, AllSound

-----------------------------------------------------------------------------
(* Every action keeps AnswerInv.                                            *)

(* What every leaf below needs of a step that only moves a process.         *)
Unanswered == UNCHANGED <<seen, minted, arg, cmd, ans, announced>>

LEMMA MoveOn ==
  ASSUME TypeInv, StopInv, AnswerInv, Unanswered,
         NEW x \in Procs \ Ops, NEW l \in Labels \ (WriteLabels \cup {"announce"}),
         pc' = [pc EXCEPT ![x] = l],
         l \in Before => pc[x] \in Before,
         rec' \in {rec, Gone, Unreadable}
  PROVE  AnswerInv'
  BY MoveAnswers DEF Unanswered

LEMMA GateAnswers ==
  ASSUME TypeInv, StopInv, AnswerInv, NEW x \in Procs \ Ops,
         OpenGate(x) \/ TakeGate(x) \/ GateTimesOut(x)
  PROVE  AnswerInv'
<1>1. Unanswered /\ rec' = rec
  BY DEF OpenGate, TakeGate, GateTimesOut, Unanswered, disk, world, local, past
<1>2. /\ pc[x] \in Before
      /\ \E l \in {"gatewait", "gated", "refused", "done"} : pc' = [pc EXCEPT ![x] = l]
  BY DEF OpenGate, TakeGate, GateTimesOut, Goto, Before
<1> QED BY <1>1, <1>2, MoveOn DEF Labels, PcServe, PcVerb, WriteLabels, Ended

LEMMA OpenAnswers ==
  ASSUME TypeInv, StopInv, AnswerInv, NEW p \in Serves,
         \/ StartShare(p) \/ ClaimRead(p) \/ ClaimWrite(p) \/ SetUp(p) \/ StillOurs(p)
         \/ OpenRead(p) \/ OpenWrite(p) \/ Announce(p)
  PROVE  AnswerInv'
<1>0. p \in Procs /\ p \in Procs \ Ops /\ p \notin Ops
  BY ProcsAssumption DEF Procs
<1>r. rec \in Record
  BY DEF TypeInv, TypeOK
<1>1. CASE StartShare(p)
  <2>1. /\ Unanswered /\ rec' = rec /\ pc[p] \in Before
        /\ \E l \in {"refused", "opengate"} : pc' = [pc EXCEPT ![p] = l]
    BY <1>1 DEF StartShare, Goto, Unanswered, disk, world, past, Before
  <2> QED BY <1>0, <2>1, MoveOn DEF Labels, PcServe, WriteLabels, Ended
<1>2. CASE ClaimRead(p)
  <2>1. CASE Prepare(p, Claimed(p), "claimwrite")
    <3>1. NewClaim(p, Claimed(p), "claimwrite") /\ pc[p] = "gated"
      BY <1>2 DEF ClaimRead, NewClaim, Begun
    <3>2. Claimed(p) \in Record /\ "claimwrite" \in WriteLabels
      BY RecordTypes DEF WriteLabels
    <3> QED BY <1>0, <1>2, <2>1, <3>1, <3>2, ReadAnswers DEF ClaimRead, world, local, past
  <2>2. CASE Leave(p, "refused") /\ UNCHANGED seen
    <3>1. Unanswered /\ rec' = rec /\ pc' = [pc EXCEPT ![p] = "refused"]
      BY <1>2, <2>2 DEF ClaimRead, Leave, Unanswered, world, local, past
    <3> QED BY <1>0, <3>1, MoveOn DEF Labels, PcServe, WriteLabels, Before, Ended
  <2> QED BY <1>2, <2>1, <2>2 DEF ClaimRead
<1>3. CASE ClaimWrite(p)
  <2>1. Writer(p) /\ "setup" \in Labels \ (WriteLabels \cup Before)
    BY <1>3 DEF ClaimWrite, Writer, WriteLabels, Before, Labels, PcServe
  <2> QED BY <1>0, <1>3, <2>1, WriteAnswers DEF ClaimWrite, WriteBack, world, local, past
<1>4. CASE SetUp(p)
  <2>1. /\ Unanswered /\ rec' = rec
        /\ \E l \in {"check", "clear"} : pc' = [pc EXCEPT ![p] = l]
    BY <1>4 DEF SetUp, Goto, Unanswered, disk, world, local, past
  <2> QED BY <1>0, <2>1, MoveOn DEF Labels, PcServe, WriteLabels, Before
<1>5. CASE StillOurs(p)
  <2>1. /\ Unanswered /\ rec' = rec
        /\ \E l \in {"open", "clear"} : pc' = [pc EXCEPT ![p] = l]
    BY <1>5 DEF StillOurs, Goto, Unanswered, disk, world, local, past
  <2> QED BY <1>0, <2>1, MoveOn DEF Labels, PcServe, WriteLabels, Before
<1>6. CASE OpenRead(p)
  <2>1. CASE pc' = [pc EXCEPT ![p] = "clear"] /\ GiveUp(p) /\ UNCHANGED <<seen, minted>>
    <3>1. Unanswered /\ rec' = rec
      BY <1>6, <2>1 DEF OpenRead, Unanswered, local, past
    <3> QED BY <1>0, <2>1, <3>1, MoveOn DEF Labels, PcServe, WriteLabels, Before
  <2>2. CASE ~(pc' = [pc EXCEPT ![p] = "clear"] /\ GiveUp(p) /\ UNCHANGED <<seen, minted>>)
    <3>1. PICK g \in Grants :
            /\ Fresh(g) /\ minted' = minted \cup {g}
            /\ Prepare(p, [rec EXCEPT !.starting = FALSE, !.grants = @ \cup {g}], "openwrite")
      BY <1>6, <2>2 DEF OpenRead
    <3> DEFINE r == [rec EXCEPT !.starting = FALSE, !.grants = @ \cup {g}]
    <3>2. Ours(p) /\ ~rec.winding /\ Present(rec)
      BY <1>6, <2>2 DEF OpenRead, OpenMay, Ours, Present
    <3>3. r \in Record
      BY <1>r, EditTypes
    <3>4. /\ r.owner = rec.owner /\ r.starting = FALSE
          /\ r.grants = rec.grants \cup {g} /\ r.revoked = rec.revoked
      BY <1>r DEF Record
    <3>5. Prepare(p, r, "openwrite")
      BY <3>1
    <3> HIDE DEF r
    <3>6. rec.grants \subseteq minted /\ g \notin minted
      BY <3>1 DEF Fresh, AnswerInv, AllSound, Sound
    <3>7. Edit(p, r, "openwrite")
      BY <3>1, <3>2, <3>4, <3>6 DEF Edit, Ours
    <3> QED BY <1>0, <1>6, <3>1, <3>3, <3>5, <3>7, ReadAnswers
            DEF OpenRead, local, past, WriteLabels
  <2> QED BY <2>1, <2>2
<1>7. CASE OpenWrite(p)
  <2>1. Writer(p) /\ "announce" \in Labels \ (WriteLabels \cup Before)
    BY <1>7 DEF OpenWrite, Writer, WriteLabels, Before, Labels, PcServe
  <2> QED BY <1>0, <1>7, <2>1, WriteAnswers DEF OpenWrite, WriteBack, world, local, past
<1>8. CASE Announce(p)
  <2>1. /\ UNCHANGED <<seen, minted, arg, cmd, ans>> /\ rec' = rec
        /\ pc' = [pc EXCEPT ![p] = "serving"]
        /\ \A q \in announced' : q \in announced \/ pc[q] = "announce"
    BY <1>8 DEF Announce, Goto, disk, world, local
  <2> QED BY <1>0, <2>1, MoveAnswers DEF Labels, PcServe, WriteLabels, Before
<1> QED BY <1>1, <1>2, <1>3, <1>4, <1>5, <1>6, <1>7, <1>8

LEMMA ServeAnswers ==
  ASSUME TypeInv, StopInv, AnswerInv, NEW p \in Serves,
         \/ NoticeSpent(p) \/ NoticeBoxGone(p) \/ ServeEnds(p) \/ Interrupted(p)
         \/ WindUpRead(p) \/ WindUpWrite(p) \/ TearDown(p) \/ WriteReceipt(p)
         \/ ClearRead(p) \/ ClearDelete(p) \/ Exit(p) \/ HardCheck(p) \/ HardDelete(p)
  PROVE  AnswerInv'
<1>0. p \in Procs /\ p \in Procs \ Ops /\ p \notin Ops
  BY ProcsAssumption DEF Procs
<1>r. rec \in Record
  BY DEF TypeInv, TypeOK
<1>1. CASE NoticeSpent(p) \/ NoticeBoxGone(p) \/ ServeEnds(p) \/ Interrupted(p)
  <2>1. Unanswered /\ rec' = rec /\ pc' = [pc EXCEPT ![p] = "windup"]
    BY <1>1 DEF NoticeSpent, NoticeBoxGone, ServeEnds, Interrupted, Goto, Unanswered,
       disk, world, local, past
  <2> QED BY <1>0, <2>1, MoveOn DEF Labels, PcServe, WriteLabels, Before
<1>2. CASE WindUpRead(p)
  <2>1. CASE Present(rec) /\ Prepare(p, Mark(p), "windwrite")
    <3>1. Mark(p) \in Record
      BY <1>r DEF Mark, Record
    <3>2. /\ Mark(p).owner = rec.owner /\ Mark(p).starting = rec.starting
          /\ Mark(p).grants = rec.grants /\ Mark(p).revoked = rec.revoked
      BY <1>r DEF Mark, Record
    <3>3. UNCHANGED <<rec, ans, cmd, announced, minted, arg>> /\ pc[p] = "windup"
      BY <1>2, <2>1 DEF WindUpRead, world, past
    <3>4. Sound(rec)
      BY DEF AnswerInv, AllSound
    <3>5. Edit(p, Mark(p), "windwrite")
      BY <2>1, <3>2, <3>3, <3>4 DEF Edit, Sound
    <3> QED BY <1>0, <2>1, <3>1, <3>3, <3>5, ReadAnswers DEF WriteLabels
  <2>2. CASE UNCHANGED seen /\ \E l \in {"windup", "teardown"} : pc' = [pc EXCEPT ![p] = l]
    <3>1. Unanswered /\ rec' = rec
      BY <1>2, <2>2 DEF WindUpRead, Unanswered, world, past
    <3> QED BY <1>0, <2>2, <3>1, MoveOn DEF Labels, PcServe, WriteLabels, Before
  <2> QED BY <1>2, <2>1, <2>2 DEF WindUpRead
<1>3. CASE WindUpWrite(p)
  <2>1. Writer(p) /\ "teardown" \in Labels \ (WriteLabels \cup Before)
    BY <1>3 DEF WindUpWrite, Writer, WriteLabels, Before, Labels, PcServe
  <2> QED BY <1>0, <1>3, <2>1, WriteAnswers DEF WindUpWrite, WriteBack, world, local, past
<1>4. CASE TearDown(p) \/ WriteReceipt(p) \/ ClearRead(p) \/ Exit(p)
  <2>1. /\ Unanswered /\ rec' = rec
        /\ \E l \in {"receipt", "clear", "cleardelete", "leaving", "exited"} :
             pc' = [pc EXCEPT ![p] = l]
    BY <1>4 DEF TearDown, WriteReceipt, ClearRead, Exit, Goto, Unanswered,
       disk, world, local, past
  <2> QED BY <1>0, <2>1, MoveOn DEF Labels, PcServe, WriteLabels, Before, Ended
<1>5. CASE ClearDelete(p) \/ HardDelete(p)
  <2>1. /\ Unanswered /\ rec' = Gone
        /\ \E l \in {"leaving", "aborted"} : pc' = [pc EXCEPT ![p] = l]
    BY <1>5 DEF ClearDelete, HardDelete, Leave, Unanswered, world, local, past
  <2> QED BY <1>0, <2>1, MoveOn DEF Labels, PcServe, WriteLabels, Before, Ended
<1>6. CASE HardCheck(p)
  <2>1. Unanswered /\ rec' = rec
    BY <1>6 DEF HardCheck, Unanswered, world, past
  <2>2. CASE UNCHANGED pc
    BY <2>1, <2>2, NoWriteAnswers
       DEF Unanswered, NoWrite, Stays, Answered, Writer, Begun, AnswerInv, OpKnows
  <2>3. CASE Leave(p, "aborted")
    <3>1. pc' = [pc EXCEPT ![p] = "aborted"]
      BY <2>3 DEF Leave
    <3> QED BY <1>0, <2>1, <3>1, MoveOn DEF Labels, PcServe, WriteLabels, Before, Ended
  <2> QED BY <1>6, <2>2, <2>3 DEF HardCheck
<1> QED BY <1>1, <1>2, <1>3, <1>4, <1>5, <1>6

(* A command moves on and may change its answer, or has just begun.         *)
LEMMA OpMoves ==
  ASSUME TypeInv, StopInv, AnswerInv, NEW o \in Ops,
         NEW l \in {"peek", "lock", "delete", "look", "done"},
         pc' = [pc EXCEPT ![o] = l], rec' \in {rec, Gone},
         UNCHANGED <<seen, minted, announced>>,
         \A q \in Ops \ {o} : arg'[q] = arg[q] /\ cmd'[q] = cmd[q] /\ ans'[q] = ans[q],
         pc[o] \in {"look", "done"} => l = "done" /\ arg'[o] = arg[o],
         l \in {"look", "delete"} => cmd'[o] = "force",
         \/ ans'[o] = ans[o]
         \/ /\ l \in {"look", "done"}
            /\ \/ ans'[o].said \in {"nothing", "deleting", "deleted", "reappeared"}
               \/ ans'[o].said = "over" /\ ans[o].said = "revoked"
  PROVE  AnswerInv'
<1>1. /\ o \in Procs /\ o \notin Serves
      /\ pc'[o] = l /\ \A y \in Procs \ {o} : pc'[y] = pc[y]
  BY ProcsAssumption DEF TypeInv, TypeOK, Procs
<1>2. \A y \in Procs : Writer(y)' => Writer(y)
  BY <1>1 DEF Writer, WriteLabels
<1>3. \A q \in Ops : Stays(q)
  <2> TAKE q \in Ops
  <2>1. CASE q = o
    BY <1>1, <2>1 DEF Stays, Answered
  <2>2. CASE q # o
    BY <1>1, <2>2 DEF Stays, Answered, Procs, AnswerInv, OpKnows
  <2> QED BY <2>1, <2>2
<1>4. \A p \in Serves : pc'[p] = pc[p]
  BY <1>1 DEF Procs
<1> QED BY <1>2, <1>3, <1>4, NoWriteAnswers DEF NoWrite, Begun

LEMMA OpAnswers ==
  ASSUME TypeInv, StopInv, AnswerInv, NEW o \in Ops,
         \/ StartOp(o) \/ StopPeek(o) \/ OpRefused(o) \/ GrantRead(o) \/ RevokeRead(o)
         \/ StopRead(o) \/ OpWrite(o) \/ RevokeLook(o)
         \/ ForceLock(o) \/ ForceDelete(o) \/ ForceLook(o)
  PROVE  AnswerInv'
<1>0. o \in Procs /\ o \notin Serves
  BY ProcsAssumption DEF Procs
<1>r. rec \in Record /\ Sound(rec)
  BY DEF TypeInv, TypeOK, AnswerInv, AllSound
<1>t. /\ arg \in [Ops -> Grants \cup {NoGrant}]
      /\ cmd \in [Ops \cup Verbs -> AllOps \cup AllVerbs \cup {"none"}]
      /\ ans \in [Ops -> [said : Said, owner : Owners]]
  BY DEF TypeInv, TypeOK
<1>1. CASE StartOp(o)
  <2>1. /\ UNCHANGED <<rec, seen, minted, announced, ans>> /\ pc[o] = "idle"
        /\ \E l \in {"peek", "lock"} : pc' = [pc EXCEPT ![o] = l]
    BY <1>1 DEF StartOp, Goto, disk, world, past
  <2>2. \A q \in Ops \ {o} : arg'[q] = arg[q] /\ cmd'[q] = cmd[q] /\ ans'[q] = ans[q]
    BY <1>1, <1>t, <2>1 DEF StartOp
  <2> QED BY <2>1, <2>2, OpMoves
<1>2. CASE StopPeek(o) \/ OpRefused(o) \/ ForceLock(o)
  <2>1. /\ UNCHANGED <<rec, seen, minted, announced, ans, arg, cmd>> /\ pc[o] \in {"peek", "lock"}
        /\ \/ \E l \in {"lock", "done"} : pc' = [pc EXCEPT ![o] = l]
           \/ cmd[o] = "force" /\ pc' = [pc EXCEPT ![o] = "delete"]
    BY <1>2 DEF StopPeek, OpRefused, ForceLock, Goto, disk, world, local, past
  <2> QED BY <2>1, OpMoves
<1>3. CASE GrantRead(o)
  <2>1. PICK g \in Grants :
          /\ Fresh(g) /\ minted' = minted \cup {g} /\ arg' = [arg EXCEPT ![o] = g]
          /\ Prepare(o, [rec EXCEPT !.grants = @ \cup {g}], "write")
    BY <1>3 DEF GrantRead
  <2> DEFINE r == [rec EXCEPT !.grants = @ \cup {g}]
  <2>2. r \in Record
    BY <1>r, EditTypes
  <2>3. /\ r.owner = rec.owner /\ r.starting = rec.starting
        /\ r.grants = rec.grants \cup {g} /\ r.revoked = rec.revoked
    BY <1>r DEF Record
  <2>4. Prepare(o, r, "write")
    BY <2>1
  <2> HIDE DEF r
  <2>5. arg'[o] = g /\ \A q \in Ops \ {o} : arg'[q] = arg[q]
    BY <1>t, <2>1
  <2>6. /\ UNCHANGED <<rec, ans, cmd, announced>> /\ pc[o] = "lock"
        /\ cmd[o] = "grant" /\ Present(rec)
    BY <1>3 DEF GrantRead, IsLive, past
  <2>7. rec.grants \subseteq minted /\ g \notin minted
    BY <1>r, <2>1 DEF Fresh, Sound
  <2>8. Edit(o, r, "write")
    BY <2>1, <2>3, <2>5, <2>6, <2>7 DEF Edit
  <2> QED BY <1>0, <2>1, <2>2, <2>4, <2>5, <2>6, <2>8, ReadAnswers DEF WriteLabels
<1>4. CASE RevokeRead(o)
  <2> DEFINE r == [rec EXCEPT !.revoked = @ \cup {arg[o]}]
  <2>1. /\ UNCHANGED <<rec, ans, cmd, arg, minted, announced>> /\ pc[o] = "lock"
        /\ cmd[o] = "revoke" /\ Present(rec) /\ arg[o] \in rec.grants
    BY <1>4 DEF RevokeRead, IsLive, world, local, past
  <2>2. r \in Record
    BY <1>r, <2>1, EditTypes DEF Record
  <2>3. /\ r.owner = rec.owner /\ r.starting = rec.starting
        /\ r.grants = rec.grants /\ r.revoked = rec.revoked \cup {arg[o]}
    BY <1>r DEF Record
  <2>4. Prepare(o, r, "write")
    BY <1>4 DEF RevokeRead
  <2> HIDE DEF r
  <2>5. Edit(o, r, "write")
    BY <1>r, <2>1, <2>3 DEF Edit, Sound
  <2> QED BY <1>0, <2>1, <2>2, <2>4, <2>5, ReadAnswers DEF WriteLabels
<1>5. CASE StopRead(o)
  <2>1. /\ UNCHANGED <<rec, ans, cmd, arg, minted, announced>> /\ pc[o] = "lock"
        /\ cmd[o] = "stop" /\ Present(rec)
    BY <1>5 DEF StopRead, world, local, past
  <2>2. CASE IsLive(rec)
    <3>1. Stopped(rec) \in Record
      BY <1>r DEF Stopped, Record
    <3>2. /\ Stopped(rec).owner = rec.owner /\ Stopped(rec).starting = rec.starting
          /\ Stopped(rec).grants = rec.grants /\ Stopped(rec).revoked = rec.grants
      BY <1>r DEF Stopped, Record
    <3>3. Prepare(o, Stopped(rec), "write")
      BY <1>5, <2>2 DEF StopRead
    <3>4. Edit(o, Stopped(rec), "write")
      BY <1>r, <2>1, <3>2 DEF Edit, Sound
    <3> QED BY <1>0, <2>1, <3>1, <3>3, <3>4, ReadAnswers DEF WriteLabels
  <2>3. CASE ~IsLive(rec)
    <3>1. Prepare(o, Gone, "write") /\ Removal(o, Gone, "write")
      BY <1>5, <2>1, <2>3 DEF StopRead, Removal
    <3> QED BY <1>0, <2>1, <3>1, RecordTypes, ReadAnswers DEF WriteLabels
  <2> QED BY <2>2, <2>3
<1>6. CASE OpWrite(o)
  <2>1. /\ UNCHANGED <<seen, minted, arg, cmd, announced>> /\ pc[o] = "write"
        /\ rec' = seen[o] /\ Leave(o, IF cmd[o] = "revoke" THEN "look" ELSE "done")
    BY <1>6 DEF OpWrite, world, local
  <2>2. /\ ans'[o].owner = seen[o].owner
        /\ \A q \in Ops \ {o} : ans'[q] = ans[q]
    BY <1>6, <1>t DEF OpWrite, Answer
  <2>3. cmd[o] \in {"grant", "revoke", "stop"}
    BY <2>1 DEF StopInv, StopWrites
  <2>4. ans'[o].said = CASE cmd[o] = "grant" -> "minted"
                         [] cmd[o] = "revoke" -> "revoked"
                         [] OTHER -> IF ~Present(seen[o]) THEN "stale"
                                     ELSE IF early[o] THEN "starting" ELSE "serving"
    BY <1>6, <1>t DEF OpWrite, Answer
  <2>5. (CASE cmd[o] = "grant" -> ans'[o].said = "minted"
           [] cmd[o] = "revoke" -> ans'[o].said = "revoked"
           [] OTHER -> \/ ans'[o].said = "stale"
                       \/ StopAnswered(o)' /\ Present(seen[o]))
    BY <2>3, <2>4 DEF StopAnswered
  <2>6. PICK l \in {"look", "done"} : l = (IF cmd[o] = "revoke" THEN "look" ELSE "done")
    OBVIOUS
  <2>7. l \in Labels \ (WriteLabels \cup Before) /\ Writer(o) /\ l # "announce"
    BY <2>1, <2>6 DEF Labels, PcOp, WriteLabels, Before, Writer
  <2> QED BY <1>0, <2>1, <2>2, <2>5, <2>6, <2>7, WriteAnswers
<1>7. CASE RevokeLook(o)
  <2>1. /\ UNCHANGED <<rec, seen, minted, announced, arg, cmd>>
        /\ pc[o] = "look" /\ cmd[o] = "revoke" /\ pc' = [pc EXCEPT ![o] = "done"]
    BY <1>7 DEF RevokeLook, Goto, disk, world, local
  <2>2. ans[o].said = "revoked"
    BY <2>1 DEF AnswerInv, OpKnows
  <2>3. /\ \A q \in Ops \ {o} : ans'[q] = ans[q]
        /\ ans'[o] = ans[o] \/ ans'[o].said = "over"
    BY <1>7, <1>t DEF RevokeLook, Answer
  <2> QED BY <2>1, <2>2, <2>3, OpMoves
<1>8. CASE ForceDelete(o)
  <2>1. /\ rec' = Gone /\ UNCHANGED <<seen, minted, announced, arg, cmd>>
        /\ pc[o] = "delete"
        /\ \/ pc' = [pc EXCEPT ![o] = "done"]
           \/ pc' = [pc EXCEPT ![o] = "look"]
    BY <1>8 DEF ForceDelete, Leave, world, local
  <2>2. /\ \A q \in Ops \ {o} : ans'[q] = ans[q]
        /\ ans'[o].said \in {"nothing", "deleting"}
    BY <1>8, <1>t DEF ForceDelete, Answer
  <2>3. cmd[o] = "force"
    BY <2>1 DEF AnswerInv, OpKnows
  <2> QED BY <2>1, <2>2, <2>3, OpMoves
<1>9. CASE ForceLook(o)
  <2>1. /\ UNCHANGED <<rec, seen, minted, announced, arg, cmd>>
        /\ pc[o] = "look" /\ pc' = [pc EXCEPT ![o] = "done"]
    BY <1>9 DEF ForceLook, Leave, world, local
  <2>2. /\ \A q \in Ops \ {o} : ans'[q] = ans[q]
        /\ ans'[o].said \in {"deleted", "reappeared"}
    BY <1>9, <1>t DEF ForceLook, Answer
  <2> QED BY <2>1, <2>2, OpMoves
<1> QED BY <1>1, <1>2, <1>3, <1>4, <1>5, <1>6, <1>7, <1>8, <1>9

LEMMA VerbAnswers ==
  ASSUME TypeInv, StopInv, AnswerInv, NEW v \in Verbs,
         StartVerb(v) \/ VerbDecide(v) \/ VerbWork(v) \/ Erase(v)
  PROVE  AnswerInv'
<1>0. v \in Procs /\ v \notin Serves /\ v \notin Ops /\ v \in Procs \ Ops
  BY ProcsAssumption DEF Procs
<1>1. CASE StartVerb(v)
  <2>1. \A o \in Ops : cmd'[o] = cmd[o]
    BY <1>0, <1>1 DEF StartVerb, TypeInv, TypeOK
  <2>2. /\ UNCHANGED <<rec, seen, minted, arg, ans, announced>>
        /\ pc' = [pc EXCEPT ![v] = "opengate"]
    BY <1>1 DEF StartVerb, Goto, disk, world, past
  <2> QED BY <1>0, <2>1, <2>2, MoveAnswers DEF Labels, PcVerb, WriteLabels
<1>2. CASE VerbDecide(v) \/ VerbWork(v)
  <2>1. /\ Unanswered /\ rec' = rec
        /\ \E l \in {"work", "done"} : pc' = [pc EXCEPT ![v] = l]
    BY <1>2 DEF VerbDecide, VerbWork, Leave, Unanswered, world, local, past
  <2> QED BY <1>0, <2>1, MoveOn DEF Labels, PcVerb, WriteLabels, Before
<1>3. CASE Erase(v)
  <2>1. Unanswered /\ rec' = Gone
    BY <1>3 DEF Erase, Unanswered, world, local, past
  <2>2. \A y \in Procs : pc'[y] = IF y = v THEN "done"
                                  ELSE IF pc[y] = "gatewait" THEN "gatelost" ELSE pc[y]
    BY <1>3 DEF Erase
  <2>3. \A y \in Procs : Writer(y)' => Writer(y)
    BY <2>2 DEF Writer, WriteLabels
  <2>4. \A o \in Ops : pc'[o] \in {pc[o], "gatelost"} /\ (Answered(o) => pc'[o] = pc[o])
    BY <1>0, <2>2 DEF Procs, Answered
  <2>5. \A o \in Ops : Stays(o)
    BY <2>1, <2>4 DEF Stays, Answered, Unanswered, AnswerInv, OpKnows
  <2>6. \A p \in Serves : /\ Begun(p) => Begun(p)'
                          /\ pc'[p] \in {"openwrite", "announce"} => pc'[p] = pc[p]
    BY <1>0, <2>2 DEF Begun, Procs
  <2> QED BY <2>1, <2>3, <2>5, <2>6, NoWriteAnswers DEF NoWrite, Unanswered
<1> QED BY <1>1, <1>2, <1>3

LEMMA SurroundingsAnswers ==
  ASSUME TypeInv, StopInv, AnswerInv, Surroundings
  PROVE  AnswerInv'
<1>1. CASE \/ BoxStops \/ BoxStarts \/ Corrupt
           \/ \E g \in Grants : Expire(g)
           \/ \E p \in Serves : Recycle(p)
  <2>1. Unanswered /\ pc' = pc /\ rec' \in {rec, Unreadable}
    BY <1>1 DEF BoxStops, BoxStarts, Corrupt, Expire, Recycle, Unanswered, disk, world, local, past
  <2>2. \A o \in Ops : Stays(o)
    BY <2>1 DEF Stays, Answered, Unanswered, AnswerInv, OpKnows
  <2> QED BY <2>1, <2>2, NoWriteAnswers DEF NoWrite, Unanswered, Writer, Begun
<1>2. CASE \E x \in Procs : Kill(x)
  <2> PICK x \in Procs : Kill(x)
    BY <1>2
  <2>1. /\ Unanswered /\ rec' = rec
        /\ pc' = [pc EXCEPT ![x] = IF x \in Serves THEN "killed" ELSE "done"]
    BY DEF Kill, Leave, Unanswered, world, local, past
  <2>2. CASE x \in Serves
    <3>1. pc' = [pc EXCEPT ![x] = "killed"] /\ x \notin Ops
      BY <2>1, <2>2, ProcsAssumption
    <3> QED BY <2>1, <3>1, MoveAnswers
            DEF Unanswered, Labels, PcServe, Ended, WriteLabels, Before
  <2>3. CASE x \notin Serves
    <3>1. pc' = [pc EXCEPT ![x] = "done"]
      BY <2>1, <2>3
    <3> QED BY <2>1, <2>3, <3>1, MoveAnswers DEF Unanswered, Labels, PcOp, WriteLabels, Before
  <2> QED BY <2>2, <2>3
<1> QED BY <1>1, <1>2 DEF Surroundings

LEMMA InitAnswers == Init => AnswerInv
<1> SUFFICES ASSUME Init PROVE AnswerInv
  OBVIOUS
<1>1. /\ \A x \in Procs : ~Writer(x)
      /\ \A o \in Ops : pc[o] = "idle" /\ ans[o].said = "none"
      /\ \A p \in Serves : pc[p] = "idle" /\ p \notin announced
  BY DEF Init, Writer, WriteLabels, Procs
<1>2. rec.owner = NoOne /\ rec.grants = {} /\ ~rec.starting /\ NoOne \notin Serves
  BY ProcsAssumption DEF Init, Gone, Blank, Procs
<1>3. Sound(rec)
  BY <1>1, <1>2 DEF Sound, Present
<1>4. \A o \in Ops : OpKnows(o)
  BY <1>1 DEF OpKnows, StopAnswered
<1> QED BY <1>1, <1>3, <1>4 DEF AnswerInv, AllSound, OpenerKnows

LEMMA NextAnswers == TypeInv /\ StopInv /\ AnswerInv /\ [Next]_vars => AnswerInv'
<1> SUFFICES ASSUME TypeInv, StopInv, AnswerInv, [Next]_vars PROVE AnswerInv'
  OBVIOUS
<1>0. Serves \subseteq Procs \ Ops /\ Verbs \subseteq Procs \ Ops
  BY ProcsAssumption DEF Procs
<1>1. ASSUME NEW p \in Serves, StartShare(p) \/ ServeStep(p) \/ Signalled(p) PROVE AnswerInv'
  BY <1>0, <1>1, GateAnswers, OpenAnswers, ServeAnswers DEF ServeStep, Signalled
<1>2. ASSUME NEW o \in Ops, StartOp(o) \/ OpStep(o) PROVE AnswerInv'
  BY <1>2, OpAnswers DEF OpStep
<1>3. ASSUME NEW v \in Verbs, StartVerb(v) \/ VerbStep(v) PROVE AnswerInv'
  BY <1>0, <1>3, GateAnswers, VerbAnswers DEF VerbStep
<1>4. CASE Surroundings
  BY <1>4, SurroundingsAnswers
<1>5. CASE UNCHANGED vars
  <2>1. Unanswered /\ pc' = pc /\ rec' = rec
    BY <1>5 DEF vars, Unanswered
  <2>2. \A o \in Ops : Stays(o)
    BY <2>1 DEF Stays, Answered, Unanswered, AnswerInv, OpKnows
  <2> QED BY <2>1, <2>2, NoWriteAnswers DEF NoWrite, Unanswered, Writer, Begun
<1> QED BY <1>1, <1>2, <1>3, <1>4, <1>5 DEF Next

(* ... unless somebody was waiting for share.lock when `rm` erased it. *)
LEMMA AnswersInvariant == Spec => [](old.raced \/ AnswerInv)
<1> DEFINE Safe == TypeInv /\ (old.raced \/ (StopInv /\ AnswerInv))
<1>1. Init => Safe
  BY InitTypes, InitStop, InitAnswers
<1>2. Safe /\ [Next]_vars => Safe'
  <2> SUFFICES ASSUME Safe, [Next]_vars PROVE Safe'
    OBVIOUS
  <2>1. TypeInv'
    BY NextTypes
  <2>2. CASE old.raced
    BY <2>1, <2>2, NextMoves DEF OldMoves
  <2>3. CASE ~old.raced
    BY <2>1, <2>3, StepStop, NextAnswers
  <2> QED BY <2>2, <2>3
<1> QED BY <1>1, <1>2, PTL DEF Spec

(* A stop that reached the record of a share that was still starting keeps  *)
(* that share from ever printing its invite, with any number of shares and  *)
(* commands and every fault: no record that says `starting` is anywhere     *)
(* once its share has passed the opening step, which looks again.  The one  *)
(* way out is a command that was waiting for the lock file `rm` erased.     *)
THEOREM StoppedNeverOpens == Spec => []StoppedBeforeOpening
<1>1. (old.raced \/ AnswerInv) => StoppedBeforeOpening
  BY DEF AnswerInv, OpKnows, StoppedBeforeOpening
<1> QED BY <1>1, AnswersInvariant, PTL

(* What an operator was told of a grant stays true, with any number of      *)
(* shares and commands and every fault: a revoked grant admits nobody under *)
(* any record, a minted one stays in its share's table; again unless a      *)
(* command was waiting for the lock file `rm` erased.                       *)
THEOREM AnswersStay == Spec => []AnswersHold
<1>1. (old.raced \/ AnswerInv) => AnswersHold
  BY DEF AnswerInv, AllSound, Sound, AnswersHold, Live, Ours
<1> QED BY <1>1, AnswersInvariant, PTL

-----------------------------------------------------------------------------
(* Shares that leave each other alone.                                      *)

(* The lock does what it is for: nobody gives up waiting for it and goes on *)
(* without it, no pid is taken for another, and the box is not removed.     *)
Unbroken == /\ Faults \cap {"timeout", "recycle"} = {}
            /\ VerbCommands \cap {"rm", "rmforce"} = {}

\* A process in the middle of reading and then changing the record.
Held(x) == pc[x] \in WriteLabels \cup {"cleardelete"}

\* What a share may still rely on of what it read.
KnowsRecord(p) ==
  /\ pc[p] = "claimwrite" => ~IsLive(rec)
  /\ pc[p] \in {"openwrite", "cleardelete"} => Ours(p) \/ ~Present(rec)
  /\ pc[p] = "windwrite" => Ours(p) \/ seen[p] = rec \/ ~Present(rec)

LockedInv ==
  /\ dir /\ recycled = {}
  /\ \A v \in Verbs : cmd[v] \notin {"rm", "rmforce"}
  /\ \A x \in Procs : Held(x) => lock = x
  /\ \A p \in Serves : KnowsRecord(p)

(* Nobody else is disturbed by a step that changes the record only with the *)
(* lock in hand, or takes it away.                                          *)
LEMMA StepLocked ==
  ASSUME TypeInv, StopInv, LockedInv, NEW x \in Procs,
         \A y \in Procs \ {x} : /\ pc'[y] = pc[y] /\ seen'[y] = seen[y]
                                /\ lock = y => lock' = y,
         dir', recycled' = recycled,
         \A v \in Verbs : cmd'[v] \notin {"rm", "rmforce"},
         rec' \in {rec, Gone, Unreadable} \/ lock = x,
         Held(x)' => lock' = x,
         x \in Serves => KnowsRecord(x)',
         x \in Serves /\ pc[x] \in Ended => pc'[x] \in Ended
  PROVE  LockedInv'
<1>1. \A y \in Procs : Held(y)' => lock' = y
  BY DEF LockedInv, Held
<1>2. ASSUME NEW p \in Serves, p # x PROVE KnowsRecord(p)'
  <2>0. p \in Procs
    BY DEF Procs
  <2> SUFFICES ASSUME pc[p] \in {"claimwrite", "openwrite", "cleardelete", "windwrite"}
               PROVE  KnowsRecord(p)'
    BY <1>2, <2>0 DEF KnowsRecord
  <2>1. lock = p /\ rec' \in {rec, Gone, Unreadable}
    BY <1>2, <2>0 DEF LockedInv, Held, WriteLabels
  <2>2. CASE rec' \in {Gone, Unreadable}
    <3>1. ~Present(rec')
      BY <2>2, ProcsAssumption DEF Gone, Unreadable, Blank, Present, Procs
    <3> QED BY <3>1 DEF KnowsRecord, IsLive, Present
  <2>3. CASE rec' = rec
    <3>1. ~IsLive(rec) => ~IsLive(rec)'
      <4> SUFFICES ASSUME ~IsLive(rec), Present(rec) PROVE ~IsLive(rec)'
        BY <2>3 DEF IsLive, Present
      <4>1. rec.owner \in Serves /\ Begun(rec.owner) /\ ~Alive(rec.owner)
        BY DEF StopInv, OwnersBegan, Present, IsLive
      <4>2. pc[rec.owner] \in Ended
        BY <4>1 DEF Alive, Begun
      <4>3. pc'[rec.owner] \in Ended
        BY <4>1, <4>2 DEF Procs
      <4> QED BY <2>3, <4>3 DEF IsLive, Alive, LockedInv
    <3> QED BY <1>2, <2>0, <2>3, <3>1 DEF KnowsRecord, LockedInv, Ours, Present
  <2> QED BY <2>1, <2>2, <2>3
<1> QED BY <1>1, <1>2 DEF LockedInv

\* Labels at which a process has nothing pending.
Idle == Labels \ (WriteLabels \cup {"cleardelete"})

(* A process moves on without the lock, or leaves it. *)
LEMMA MoveLocked ==
  ASSUME TypeInv, StopInv, LockedInv, NEW x \in Procs, NEW l \in Idle,
         pc' = [pc EXCEPT ![x] = l], seen' = seen, dir' = dir, recycled' = recycled,
         \A v \in Verbs : cmd'[v] \notin {"rm", "rmforce"},
         \A y \in Procs \ {x} : lock = y => lock' = y,
         rec' \in {rec, Gone, Unreadable},
         x \in Serves => pc[x] \notin Ended
  PROVE  LockedInv'
<1>1. pc'[x] = l /\ \A y \in Procs \ {x} : pc'[y] = pc[y]
  BY DEF TypeInv, TypeOK
<1>2. ~Held(x)' /\ (x \in Serves => KnowsRecord(x)')
  BY <1>1 DEF Held, KnowsRecord, Idle, WriteLabels
<1>3. dir'
  BY DEF LockedInv
<1> QED BY <1>1, <1>2, <1>3, StepLocked

(* A process that found the lock free prepares its write. *)
LEMMA ReadLocked ==
  ASSUME TypeInv, StopInv, ~old.raced, LockedInv, NEW x \in Procs, NEW r \in Record, NEW l \in WriteLabels,
         Prepare(x, r, l), CanLock(x), UNCHANGED <<rec, dir, recycled, cmd>>,
         pc[x] \notin Ended,
         l = "claimwrite" => x \in Serves /\ ~IsLive(rec) /\ pc[x] \in Before,
         x \in Serves /\ l = "openwrite" => Ours(x),
         x \in Serves /\ l = "windwrite" => Ours(x) \/ r = rec
  PROVE  LockedInv'
<1>1. /\ pc'[x] = l /\ \A y \in Procs \ {x} : pc'[y] = pc[y]
      /\ seen'[x] = r /\ \A y \in Procs \ {x} : seen'[y] = seen[y]
      /\ lock = NoOne /\ lock' = x
  BY OneLock DEF Prepare, TypeInv, TypeOK
<1>2. \A y \in Procs \ {x} : lock # y
  BY <1>1, ProcsAssumption
<1>3. l = "claimwrite" => ~IsLive(rec)'
  <2> SUFFICES ASSUME l = "claimwrite" PROVE ~IsLive(rec)'
    OBVIOUS
  <2>1. Present(rec) => rec.owner # x /\ rec.owner \in Procs
    BY DEF StopInv, OwnersBegan, Begun, Before, Present, Procs
  <2> QED BY <1>1, <2>1 DEF IsLive, Present, Alive
<1>4. x \in Serves => KnowsRecord(x)'
  BY <1>1, <1>3 DEF KnowsRecord, WriteLabels, Ours
<1>5. dir' /\ \A v \in Verbs : cmd'[v] \notin {"rm", "rmforce"}
  BY DEF LockedInv
<1> QED BY <1>1, <1>2, <1>4, <1>5, StepLocked

(* A process writes, with the lock in hand, and leaves it. *)
LEMMA WriteLocked ==
  ASSUME TypeInv, StopInv, LockedInv, NEW x \in Procs, NEW l \in Idle,
         Writer(x), Leave(x, l), UNCHANGED <<recycled, cmd, seen>>, dir'
  PROVE  LockedInv'
<1>1. /\ pc'[x] = l /\ \A y \in Procs \ {x} : pc'[y] = pc[y] /\ seen'[y] = seen[y]
      /\ lock = x
  BY DEF Leave, TypeInv, TypeOK, LockedInv, Held, Writer
<1>2. ~Held(x)' /\ (x \in Serves => KnowsRecord(x)')
  BY <1>1 DEF Held, KnowsRecord, Idle, WriteLabels
<1>3. \A v \in Verbs : cmd'[v] \notin {"rm", "rmforce"}
  BY DEF LockedInv
<1>4. pc[x] \notin Ended
  BY DEF Writer, WriteLabels, Ended
<1> QED BY <1>1, <1>2, <1>3, <1>4, StepLocked

(* Only the surroundings move. *)
LEMMA StillLocked ==
  ASSUME TypeInv, LockedInv, rec' \in {rec, Unreadable},
         UNCHANGED <<lock, dir, recycled, pc, seen, cmd>>
  PROVE  LockedInv'
<1>1. ASSUME NEW p \in Serves PROVE KnowsRecord(p)'
  <2>1. CASE rec' = rec
    BY <1>1, <2>1 DEF LockedInv, KnowsRecord, IsLive, Present, Alive, Ours
  <2>2. CASE rec' = Unreadable
    <3>1. ~Present(rec')
      BY <2>2, ProcsAssumption DEF Unreadable, Blank, Present, Procs
    <3> QED BY <3>1 DEF KnowsRecord, IsLive, Present
  <2> QED BY <2>1, <2>2
<1> QED BY <1>1 DEF LockedInv, Held

LEMMA GateLocked ==
  ASSUME TypeInv, StopInv, LockedInv, NEW x \in Procs,
         OpenGate(x) \/ TakeGate(x) \/ GateTimesOut(x)
  PROVE  LockedInv'
<1>1. /\ UNCHANGED <<rec, lock, recycled, seen, cmd>> /\ dir' = dir
  BY DEF OpenGate, TakeGate, GateTimesOut, disk, world, local, LockedInv
<1>2. /\ pc[x] \notin Ended
      /\ \E l \in {"gatewait", "gated", "refused", "done"} : pc' = [pc EXCEPT ![x] = l]
  BY DEF OpenGate, TakeGate, GateTimesOut, Goto, Ended
<1> QED BY <1>1, <1>2, MoveLocked
        DEF LockedInv, Idle, Labels, PcServe, PcVerb, WriteLabels, Ended

LEMMA OpenLocked ==
  ASSUME Unbroken, TypeInv, StopInv, ~old.raced, LockedInv, NEW p \in Serves,
         \/ StartShare(p) \/ ClaimRead(p) \/ ClaimWrite(p) \/ SetUp(p) \/ StillOurs(p)
         \/ OpenRead(p) \/ OpenWrite(p) \/ Announce(p)
  PROVE  LockedInv'
<1>0. p \in Procs /\ \A v \in Verbs : cmd[v] \notin {"rm", "rmforce"}
  BY DEF Procs, LockedInv
<1>1. CASE StartShare(p) \/ SetUp(p) \/ StillOurs(p) \/ Announce(p)
  <2>1. /\ UNCHANGED <<rec, lock, dir, recycled, seen, cmd>> /\ pc[p] \notin Ended
        /\ \E l \in {"refused", "opengate", "check", "clear", "open", "serving"} :
             pc' = [pc EXCEPT ![p] = l]
    BY <1>1 DEF StartShare, SetUp, StillOurs, Announce, Goto, disk, world, local, past, Ended
  <2> QED BY <1>0, <2>1, MoveLocked DEF Idle, Labels, PcServe, WriteLabels, Ended
<1>2. CASE ClaimRead(p)
  <2>0. UNCHANGED <<rec, dir, recycled, cmd>> /\ pc[p] = "gated"
    BY <1>2 DEF ClaimRead, world, local
  <2>1. CASE CanLock(p) /\ ClaimMay(rec) /\ Prepare(p, Claimed(p), "claimwrite")
    <3>1. ~IsLive(rec) /\ pc[p] \in Before /\ pc[p] \notin Ended
      BY <2>0, <2>1 DEF ClaimMay, Before, Ended
    <3>2. Claimed(p) \in Record /\ "claimwrite" \in WriteLabels
      BY RecordTypes DEF WriteLabels
    <3> QED BY <1>0, <2>0, <2>1, <3>1, <3>2, ReadLocked
  <2>2. CASE Leave(p, "refused") /\ UNCHANGED seen
    <3>1. pc' = [pc EXCEPT ![p] = "refused"] /\ \A y \in Procs \ {p} : lock = y => lock' = y
      BY <2>2 DEF Leave, Freed
    <3> QED BY <1>0, <2>0, <2>2, <3>1, MoveLocked DEF Idle, Labels, PcServe, WriteLabels, Ended
  <2> QED BY <1>2, <2>1, <2>2 DEF ClaimRead
<1>3. CASE ClaimWrite(p) \/ OpenWrite(p)
  <2>1. Writer(p) /\ WriteBack(p) /\ UNCHANGED <<recycled, cmd, seen>>
    BY <1>3 DEF ClaimWrite, OpenWrite, Writer, WriteLabels, world, local
  <2>2. PICK l \in {"setup", "announce"} : Leave(p, l)
    BY <1>3 DEF ClaimWrite, OpenWrite
  <2>3. l \in Idle
    BY <2>2 DEF Idle, Labels, PcServe, WriteLabels
  <2> QED BY <1>0, <2>1, <2>2, <2>3, WriteLocked DEF WriteBack
<1>4. CASE OpenRead(p)
  <2>0. UNCHANGED <<rec, dir, recycled, cmd>> /\ pc[p] = "open"
    BY <1>4 DEF OpenRead, local
  <2>1. CASE pc' = [pc EXCEPT ![p] = "clear"] /\ GiveUp(p) /\ UNCHANGED <<seen, minted>>
    BY <1>0, <2>0, <2>1, MoveLocked DEF GiveUp, Idle, Labels, PcServe, WriteLabels, Ended
  <2>2. CASE ~(pc' = [pc EXCEPT ![p] = "clear"] /\ GiveUp(p) /\ UNCHANGED <<seen, minted>>)
    <3>1. PICK g \in Grants :
            Prepare(p, [rec EXCEPT !.starting = FALSE, !.grants = @ \cup {g}], "openwrite")
      BY <1>4, <2>2 DEF OpenRead
    <3>2. Ours(p) /\ CanLock(p)
      BY <1>4, <2>2 DEF OpenRead, OpenMay
    <3>3. [rec EXCEPT !.starting = FALSE, !.grants = @ \cup {g}] \in Record
      BY EditTypes DEF TypeInv, TypeOK
    <3>4. "openwrite" \in WriteLabels /\ pc[p] \notin Ended
      BY <2>0 DEF WriteLabels, Ended
    <3> QED BY <1>0, <2>0, <3>1, <3>2, <3>3, <3>4, ReadLocked
  <2> QED BY <2>1, <2>2
<1> QED BY <1>1, <1>2, <1>3, <1>4

LEMMA ServeLocked ==
  ASSUME Unbroken, TypeInv, StopInv, ~old.raced, LockedInv, NEW p \in Serves,
         \/ NoticeSpent(p) \/ NoticeBoxGone(p) \/ ServeEnds(p) \/ Interrupted(p)
         \/ WindUpRead(p) \/ WindUpWrite(p) \/ TearDown(p) \/ WriteReceipt(p)
         \/ ClearRead(p) \/ ClearDelete(p) \/ Exit(p) \/ HardCheck(p) \/ HardDelete(p)
  PROVE  LockedInv'
<1>0. /\ p \in Procs /\ dir /\ \A v \in Verbs : cmd[v] \notin {"rm", "rmforce"}
  BY DEF Procs, LockedInv
<1>1. CASE \/ NoticeSpent(p) \/ NoticeBoxGone(p) \/ ServeEnds(p) \/ Interrupted(p)
           \/ TearDown(p) \/ WriteReceipt(p) \/ Exit(p)
  <2>1. /\ UNCHANGED <<rec, lock, dir, recycled, seen, cmd>> /\ pc[p] \notin Ended
        /\ \E l \in {"windup", "receipt", "clear", "exited"} : pc' = [pc EXCEPT ![p] = l]
    BY <1>1 DEF NoticeSpent, NoticeBoxGone, ServeEnds, Interrupted, TearDown, WriteReceipt,
       Exit, Goto, disk, world, local, Ended
  <2> QED BY <1>0, <2>1, MoveLocked DEF Idle, Labels, PcServe, WriteLabels, Ended
<1>2. CASE WindUpRead(p)
  <2>0. UNCHANGED <<rec, dir, recycled, cmd>> /\ pc[p] = "windup" /\ pc[p] \notin Ended
    BY <1>2 DEF WindUpRead, world, Ended
  <2>1. CASE CanLock(p) /\ Present(rec) /\ Prepare(p, Mark(p), "windwrite")
    <3>1. Mark(p) \in Record /\ (Ours(p) \/ Mark(p) = rec) /\ "windwrite" \in WriteLabels
      BY DEF Mark, Record, TypeInv, TypeOK, WriteLabels
    <3> QED BY <1>0, <2>0, <2>1, <3>1, ReadLocked
  <2>2. CASE GiveUp(p) /\ UNCHANGED seen /\ \E l \in {"windup", "teardown"} : pc' = [pc EXCEPT ![p] = l]
    BY <1>0, <2>0, <2>2, MoveLocked DEF GiveUp, Idle, Labels, PcServe, WriteLabels
  <2> QED BY <1>2, <2>1, <2>2 DEF WindUpRead
<1>3. CASE WindUpWrite(p)
  <2>1. Writer(p) /\ "teardown" \in Idle
    BY <1>3 DEF WindUpWrite, Writer, Idle, Labels, PcServe, WriteLabels
  <2> QED BY <1>0, <1>3, <2>1, WriteLocked DEF WindUpWrite, WriteBack, world, local
<1>4. CASE ClearRead(p)
  <2>0. UNCHANGED <<rec, dir, recycled, cmd, seen>> /\ pc[p] = "clear" /\ CanLock(p)
    BY <1>0, <1>4 DEF ClearRead, LockFails, Unbroken, TypeInv, Unwaited, world, local
  <2>1. CASE Ours(p)
    <3>1. /\ lock = NoOne /\ lock' = p
          /\ pc'[p] = "cleardelete" /\ \A y \in Procs \ {p} : pc'[y] = pc[y]
      BY <1>0, <1>4, <2>0, <2>1, OneLock DEF ClearRead, TypeInv, TypeOK
    <3>2. \A y \in Procs : lock # y
      BY <3>1, ProcsAssumption
    <3>3. KnowsRecord(p)'
      BY <2>0, <2>1, <3>1 DEF KnowsRecord, Ours
    <3> QED BY <1>0, <2>0, <3>1, <3>2, <3>3, StepLocked DEF Ended, LockedInv
  <2>2. CASE ~Ours(p)
    <3>1. lock' = lock /\ pc' = [pc EXCEPT ![p] = "leaving"]
      BY <1>4, <2>2 DEF ClearRead, GiveUp
    <3> QED BY <1>0, <2>0, <3>1, MoveLocked DEF Idle, Labels, PcServe, WriteLabels, Ended
  <2> QED BY <2>1, <2>2
<1>5. CASE ClearDelete(p) \/ HardDelete(p)
  <2>1. /\ UNCHANGED <<dir, recycled, cmd, seen>> /\ rec' = Gone /\ pc[p] \notin Ended
        /\ \E l \in {"leaving", "aborted"} : pc' = [pc EXCEPT ![p] = l]
        /\ \A y \in Procs \ {p} : lock = y => lock' = y
    BY <1>5 DEF ClearDelete, HardDelete, Leave, Freed, Alive, Ended, world, local
  <2> QED BY <1>0, <2>1, MoveLocked DEF Idle, Labels, PcServe, WriteLabels, Ended
<1>6. CASE HardCheck(p)
  <2>1. UNCHANGED <<rec, dir, recycled, cmd, seen>> /\ pc[p] \notin Ended
    BY <1>6 DEF HardCheck, Alive, world
  <2>2. CASE UNCHANGED <<pc, lock>>
    BY <2>1, <2>2, StillLocked
  <2>3. CASE Leave(p, "aborted")
    <3>1. pc' = [pc EXCEPT ![p] = "aborted"] /\ \A y \in Procs \ {p} : lock = y => lock' = y
      BY <2>3 DEF Leave, Freed
    <3> QED BY <1>0, <2>1, <3>1, MoveLocked DEF Idle, Labels, PcServe, WriteLabels, Ended
  <2> QED BY <1>6, <2>2, <2>3 DEF HardCheck
<1> QED BY <1>1, <1>2, <1>3, <1>4, <1>5, <1>6

LEMMA OpLocked ==
  ASSUME Unbroken, TypeInv, StopInv, ~old.raced, LockedInv, NEW o \in Ops,
         \/ StartOp(o) \/ StopPeek(o) \/ OpRefused(o) \/ GrantRead(o) \/ RevokeRead(o)
         \/ StopRead(o) \/ OpWrite(o) \/ RevokeLook(o)
         \/ ForceLock(o) \/ ForceDelete(o) \/ ForceLook(o)
  PROVE  LockedInv'
<1>0. o \in Procs /\ o \notin Serves /\ dir /\ \A v \in Verbs : v # o
  BY ProcsAssumption DEF Procs, LockedInv
<1>v. \A v \in Verbs : cmd[v] \notin {"rm", "rmforce"}
  BY DEF LockedInv
<1>1. CASE StartOp(o)
  <2>1. /\ UNCHANGED <<rec, lock, dir, recycled, seen>>
        /\ \E l \in {"peek", "lock"} : pc' = [pc EXCEPT ![o] = l]
    BY <1>1 DEF StartOp, Goto, disk, world
  <2>2. \A v \in Verbs : cmd'[v] = cmd[v]
    BY <1>0, <1>1 DEF StartOp, TypeInv, TypeOK
  <2> QED BY <1>0, <1>v, <2>1, <2>2, MoveLocked DEF Idle, Labels, PcOp, WriteLabels
<1>2. CASE StopPeek(o) \/ OpRefused(o) \/ RevokeLook(o) \/ ForceLook(o)
  <2>1. /\ UNCHANGED <<rec, dir, recycled, seen, cmd>>
        /\ \E l \in {"lock", "done"} : pc' = [pc EXCEPT ![o] = l]
        /\ \A y \in Procs \ {o} : lock = y => lock' = y
    BY <1>2 DEF StopPeek, OpRefused, RevokeLook, ForceLook, GiveUp, Leave, Freed, Goto, disk,
       world, local
  <2> QED BY <1>0, <1>v, <2>1, MoveLocked DEF Idle, Labels, PcOp, WriteLabels
<1>3. CASE GrantRead(o)
  <2>1. PICK g \in Grants : Prepare(o, [rec EXCEPT !.grants = @ \cup {g}], "write")
    BY <1>3 DEF GrantRead
  <2>2. [rec EXCEPT !.grants = @ \cup {g}] \in Record
    BY EditTypes DEF TypeInv, TypeOK
  <2>3. /\ CanLock(o) /\ UNCHANGED <<rec, dir, recycled, cmd>> /\ pc[o] \notin Ended
        /\ "write" \in WriteLabels
    BY <1>3 DEF GrantRead, Ended, WriteLabels
  <2> QED BY <1>0, <2>1, <2>2, <2>3, ReadLocked
<1>4. CASE RevokeRead(o)
  <2>1. /\ CanLock(o) /\ UNCHANGED <<rec, dir, recycled, cmd>> /\ pc[o] \notin Ended
        /\ arg[o] \in rec.grants /\ "write" \in WriteLabels
        /\ Prepare(o, [rec EXCEPT !.revoked = @ \cup {arg[o]}], "write")
    BY <1>4 DEF RevokeRead, Ended, WriteLabels, world, local
  <2>2. rec \in Record /\ arg[o] \in Grants
    BY <2>1 DEF TypeInv, TypeOK, Record
  <2>3. [rec EXCEPT !.revoked = @ \cup {arg[o]}] \in Record
    BY <2>2, EditTypes
  <2> QED BY <1>0, <2>1, <2>3, ReadLocked
<1>5. CASE StopRead(o)
  <2>1. /\ CanLock(o) /\ UNCHANGED <<rec, dir, recycled, cmd>> /\ pc[o] \notin Ended
        /\ "write" \in WriteLabels
    BY <1>5 DEF StopRead, Ended, WriteLabels, world, local
  <2>2. PICK r \in {Stopped(rec), Gone} : Prepare(o, r, "write")
    BY <1>5 DEF StopRead
  <2>3. r \in Record
    BY RecordTypes DEF Stopped, Record, TypeInv, TypeOK
  <2> QED BY <1>0, <2>1, <2>2, <2>3, ReadLocked
<1>6. CASE OpWrite(o)
  <2>1. /\ Writer(o) /\ UNCHANGED <<recycled, cmd, seen>> /\ dir'
        /\ \E l \in {"look", "done"} : Leave(o, l)
    BY <1>0, <1>6 DEF OpWrite, Writer, WriteLabels, world, local
  <2> QED BY <1>0, <2>1, WriteLocked DEF Idle, Labels, PcOp, WriteLabels
<1>7. CASE ForceLock(o) \/ ForceDelete(o)
  <2>1. /\ UNCHANGED <<dir, recycled, seen, cmd>> /\ rec' \in {rec, Gone}
        /\ \E l \in {"delete", "look", "done"} : pc' = [pc EXCEPT ![o] = l]
    BY <1>7 DEF ForceLock, ForceDelete, Leave, Goto, world, local
  <2>2. \A y \in Procs \ {o} : lock = y => lock' = y
    BY <1>0, <1>7, OneLock, ProcsAssumption DEF ForceLock, ForceDelete, GiveUp, Leave, Freed
  <2> QED BY <1>0, <1>v, <2>1, <2>2, MoveLocked DEF Idle, Labels, PcOp, WriteLabels
<1> QED BY <1>1, <1>2, <1>3, <1>4, <1>5, <1>6, <1>7

LEMMA VerbLocked ==
  ASSUME Unbroken, TypeInv, StopInv, LockedInv, NEW v \in Verbs,
         StartVerb(v) \/ VerbDecide(v) \/ VerbWork(v) \/ Erase(v)
  PROVE  LockedInv'
<1>0. v \in Procs /\ v \notin Serves /\ \A w \in Verbs : cmd[w] \notin {"rm", "rmforce"}
  BY ProcsAssumption DEF Procs, LockedInv
<1>1. CASE StartVerb(v)
  <2>1. \A w \in Verbs : cmd'[w] \notin {"rm", "rmforce"}
    BY <1>0, <1>1 DEF StartVerb, Unbroken, TypeInv, TypeOK
  <2>2. /\ UNCHANGED <<rec, lock, dir, recycled, seen>> /\ pc' = [pc EXCEPT ![v] = "opengate"]
    BY <1>1 DEF StartVerb, Goto, disk, world
  <2> QED BY <1>0, <2>1, <2>2, MoveLocked DEF Idle, Labels, PcVerb, WriteLabels
<1>2. CASE VerbDecide(v) \/ VerbWork(v)
  <2>1. /\ UNCHANGED <<rec, dir, recycled, seen, cmd>>
        /\ \E l \in {"work", "done"} : pc' = [pc EXCEPT ![v] = l]
        /\ \A y \in Procs \ {v} : lock = y => lock' = y
    BY <1>2 DEF VerbDecide, VerbWork, Leave, Freed, world, local
  <2> QED BY <1>0, <2>1, MoveLocked DEF Idle, Labels, PcVerb, WriteLabels
<1>3. CASE Erase(v)
  BY <1>0, <1>3 DEF Erase
<1> QED BY <1>1, <1>2, <1>3

LEMMA SurroundingsLocked ==
  ASSUME Unbroken, TypeInv, StopInv, LockedInv, Surroundings
  PROVE  LockedInv'
<1>1. CASE BoxStops \/ BoxStarts \/ Corrupt \/ \E g \in Grants : Expire(g)
  <2>1. rec' \in {rec, Unreadable} /\ UNCHANGED <<lock, dir, recycled, pc, seen, cmd>>
    BY <1>1 DEF BoxStops, BoxStarts, Corrupt, Expire, disk, world, local
  <2> QED BY <2>1, StillLocked
<1>2. CASE \E p \in Serves : Recycle(p)
  BY <1>2 DEF Recycle, Unbroken
<1>3. CASE \E x \in Procs : Kill(x)
  <2> PICK x \in Procs : Kill(x)
    BY <1>3
  <2>1. /\ UNCHANGED <<rec, dir, recycled, seen, cmd>>
        /\ \E l \in {"killed", "done"} : pc' = [pc EXCEPT ![x] = l]
        /\ \A y \in Procs \ {x} : lock = y => lock' = y
        /\ x \in Serves => pc[x] \notin Ended
    BY DEF Kill, Leave, Freed, Alive, world, local
  <2>2. \A v \in Verbs : cmd[v] \notin {"rm", "rmforce"}
    BY DEF LockedInv
  <2> QED BY <2>1, <2>2, MoveLocked DEF Idle, Labels, PcServe, PcOp, WriteLabels, Ended
<1> QED BY <1>1, <1>2, <1>3 DEF Surroundings

LEMMA InitLocked == Init => LockedInv
  BY DEF Init, LockedInv, Held, KnowsRecord, WriteLabels, Procs

LEMMA NextLocked ==
  ASSUME Unbroken
  PROVE  TypeInv /\ StopInv /\ ~old.raced /\ LockedInv /\ [Next]_vars => LockedInv'
<1> SUFFICES ASSUME TypeInv, StopInv, ~old.raced, LockedInv, [Next]_vars PROVE LockedInv'
  OBVIOUS
<1>0. Serves \subseteq Procs /\ Verbs \subseteq Procs
  BY DEF Procs
<1>1. ASSUME NEW p \in Serves, StartShare(p) \/ ServeStep(p) \/ Signalled(p) PROVE LockedInv'
  BY <1>0, <1>1, GateLocked, OpenLocked, ServeLocked DEF ServeStep, Signalled
<1>2. ASSUME NEW o \in Ops, StartOp(o) \/ OpStep(o) PROVE LockedInv'
  BY <1>2, OpLocked DEF OpStep
<1>3. ASSUME NEW v \in Verbs, StartVerb(v) \/ VerbStep(v) PROVE LockedInv'
  BY <1>0, <1>3, GateLocked, VerbLocked DEF VerbStep
<1>4. CASE Surroundings
  BY <1>4, SurroundingsLocked
<1>5. CASE UNCHANGED vars
  BY <1>5, StillLocked DEF vars
<1> QED BY <1>1, <1>2, <1>3, <1>4, <1>5 DEF Next

(* Without `rm` nobody ever loses the lock file he waits for. *)
LEMMA NoRace == TypeInv /\ ~old.raced /\ LockedInv /\ [Next]_vars => ~old'.raced
  BY NextMoves DEF OldMoves, LockedInv, Erase

(* A share that does not find its own record leaves a live one as it is. *)
LEMMA StepLeavesOthers ==
  ASSUME TypeInv, LockedInv, NEW p \in Serves, ServeStep(p), IsLive(rec), ~Ours(p)
  PROVE  rec' = rec
<1>0. KnowsRecord(p) /\ Present(rec)
  BY DEF LockedInv, IsLive
<1>1. CASE ClaimWrite(p)
  BY <1>0, <1>1 DEF ClaimWrite, KnowsRecord
<1>2. CASE OpenWrite(p) \/ ClearDelete(p)
  BY <1>0, <1>2 DEF OpenWrite, ClearDelete, KnowsRecord
<1>3. CASE WindUpWrite(p)
  BY <1>0, <1>3 DEF WindUpWrite, WriteBack, KnowsRecord
<1>4. CASE \/ OpenGate(p) \/ TakeGate(p) \/ GateTimesOut(p)
           \/ ClaimRead(p) \/ SetUp(p) \/ StillOurs(p)
           \/ OpenRead(p) \/ Announce(p)
           \/ NoticeSpent(p) \/ NoticeBoxGone(p)
           \/ WindUpRead(p) \/ TearDown(p) \/ WriteReceipt(p)
           \/ ClearRead(p) \/ Exit(p)
  BY <1>4 DEF OpenGate, TakeGate, GateTimesOut, ClaimRead, SetUp, StillOurs, OpenRead,
     Announce, NoticeSpent, NoticeBoxGone, WindUpRead, TearDown, WriteReceipt, ClearRead,
     Exit, disk
<1> QED BY <1>1, <1>2, <1>3, <1>4 DEF ServeStep

(* No share changes or removes the live record of another one, with any     *)
(* number of shares and commands, kills, signals and damaged records, as    *)
(* long as the lock does what it is for: every step that changes the record *)
(* of a share is decided and taken under share.lock, by its identity.       *)
THEOREM SharesLeaveOthersAlone ==
  ASSUME Unbroken
  PROVE  Spec => OthersUntouched
<1> DEFINE Inv == TypeInv /\ StopInv /\ ~old.raced /\ LockedInv
<1>1. Init => Inv
  BY InitTypes, InitStop, InitLocked DEF Init, NoRelic
<1>2. Inv /\ [Next]_vars => Inv'
  BY NextTypes, StepStop, NextLocked, NoRace
<1>3. TypeInv /\ LockedInv /\ [Next]_vars =>
        [\A p \in Serves : ServeStep(p) /\ IsLive(rec) /\ ~Ours(p) => rec' = rec]_vars
  BY StepLeavesOthers
<1> QED BY <1>1, <1>2, <1>3, PTL DEF Spec, OthersUntouched

-----------------------------------------------------------------------------
(* One share at a time.                                                     *)

(* Nobody gives up waiting for the lock, forces or damages the record, or   *)
(* interrupts a share twice.  Shares may be killed, boxes stopped, started  *)
(* and removed, grants may expire and a wait for the gate may end.          *)
Orderly == /\ Faults \subseteq {"kill", "box", "expire", "gate"}
           /\ "force" \notin OpCommands /\ "rmforce" \notin VerbCommands

\* Where a share stands that claimed the box and has not taken its claim back.
Doorlike == {"open", "openwrite", "announce", "serving", "windup", "windwrite",
             "teardown", "receipt"}
Stage == Doorlike \cup {"setup", "check", "clear", "cleardelete"}

\* Where a process stands that took the gate.
AtGate == {"gated", "claimwrite", "work"}

(* Whoever holds the lock to write knows the record it will replace; only   *)
(* after `rm` is there a writer with another lock file in hand, and what it *)
(* writes is the record of a share that died.                               *)
Pending(x) ==
  IF pc[x] = "claimwrite" THEN ~IsLive(rec)
  ELSE seen[x].owner = rec.owner \/ (seen[x] = Gone /\ ~IsLive(rec))
Stray(x) == pc[x] # "claimwrite" /\ (Present(seen[x]) => pc[seen[x].owner] \in Ended)
Writes(x) ==
  IF lock = x THEN removed \/ Pending(x) ELSE removed /\ Stray(x)

Calm == /\ recycled = {}
        /\ \A o \in Ops : cmd[o] # "force" /\ pc[o] # "delete"
        /\ \A v \in Verbs : cmd[v] # "rmforce"
        /\ \A p \in Serves : signal[p] = "none" /\ (pc[p] # "idle" => pinned[p] # 0)

\* A share is where its record and the box say.
Place(p) ==
  /\ pc[p] \in Stage => dir /\ (removed \/ Ours(p))
  /\ pc[p] = "cleardelete" => lock = p
  /\ pc[p] \in {"leaving", "exited"} =>
       ~Ours(p) /\ \A x \in Procs : Writer(x) => seen[x].owner # p

Gatekeeping ==
  /\ ~removed => dir /\ \A x \in Procs : pc[x] # "gatelost" /\ (pc[x] \in AtGate => gate = x)
  /\ removed => /\ route = 0
                /\ \A p \in Serves : pc[p] \notin Doorlike
                /\ \A v \in Verbs : pc[v] # "work"
  /\ \A v \in Verbs : pc[v] = "work" => ~IsLive(rec) /\ (cmd[v] = "rm" => route = 0)

OrderInv == /\ Calm /\ Gatekeeping
            /\ \A x \in Procs : Writer(x) => Writes(x)
            /\ \A p \in Serves : Place(p)

(* A dead record stays dead when nobody claims. *)
LEMMA DeadStays ==
  ASSUME TypeInv, StopInv, ~IsLive(rec), rec'.owner = rec.owner, recycled = {}, recycled' = {},
         \A p \in Serves : pc[p] \in Ended => pc'[p] \in Ended
  PROVE  ~IsLive(rec)'
<1> SUFFICES ASSUME Present(rec) PROVE ~IsLive(rec)'
  BY DEF IsLive, Present
<1>1. rec.owner \in Serves /\ Begun(rec.owner) /\ ~Alive(rec.owner)
  BY DEF StopInv, OwnersBegan, Present, IsLive
<1>2. pc[rec.owner] \in Ended
  BY <1>1 DEF Alive, Begun
<1>3. pc'[rec.owner] \in Ended
  BY <1>1, <1>2
<1> QED BY <1>3 DEF IsLive, Alive

(* What holds of every step below but those of the surroundings. *)
CalmStep(x) ==
  /\ recycled' = recycled /\ signal' = signal
  /\ \A o \in Ops : cmd'[o] # "force"
  /\ \A v \in Verbs : cmd'[v] # "rmforce"
  /\ \A p \in Serves : pinned'[p] = pinned[p] \/ pinned'[p] # 0
  /\ x \in Serves /\ pc[x] = "idle" => pinned'[x] # 0
  /\ x \in Serves /\ pc[x] \in Ended => pc'[x] \in Ended
  /\ x \in Ops => pc'[x] # "delete"
  /\ pc'[x] # "idle"

LEMMA CalmKept ==
  ASSUME Calm, NEW x \in Procs, CalmStep(x), \A y \in Procs \ {x} : pc'[y] = pc[y]
  PROVE  Calm'
<1>1. ASSUME NEW o \in Ops PROVE cmd'[o] # "force" /\ pc'[o] # "delete"
  BY DEF Calm, CalmStep, Procs
<1>2. ASSUME NEW p \in Serves PROVE signal'[p] = "none" /\ (pc'[p] # "idle" => pinned'[p] # 0)
  BY DEF Calm, CalmStep, Procs
<1> QED BY <1>1, <1>2 DEF Calm, CalmStep

(* A process moves on and leaves the record as it is. *)
LEMMA MoveOrder ==
  ASSUME TypeInv, StopInv, OrderInv, NEW x \in Procs,
         NEW l \in Labels \ (WriteLabels \cup {"gatelost"}),
         pc' = [pc EXCEPT ![x] = l], CalmStep(x),
         UNCHANGED <<rec, seen, removed, route>>,
         dir => dir',
         \A y \in Procs \ {x} : (lock = y => lock' = y) /\ (gate = y => gate' = y),
         \A v \in Verbs \ {x} : cmd'[v] = cmd[v],
         l \in AtGate => gate' = x \/ removed,
         l \in Stage => pc[x] \in Stage /\ (l \in Doorlike => ~removed),
         l = "cleardelete" => lock' = x,
         x \in Serves /\ l = "exited" => pc[x] = "leaving",
         x \in Serves /\ l = "leaving" =>
            ~Ours(x) /\ \A y \in Procs : Writer(y) => seen[y].owner # x,
         l = "work" => ~removed /\ ~IsLive(rec) /\ route = 0 /\ cmd'[x] = cmd[x]
  PROVE  OrderInv'
<1>1. pc'[x] = l /\ \A y \in Procs \ {x} : pc'[y] = pc[y]
  BY DEF TypeInv, TypeOK
<1>2. Calm'
  BY <1>1, CalmKept DEF OrderInv
<1>3. \A p \in Serves : pc[p] \in Ended => pc'[p] \in Ended
  BY <1>1 DEF CalmStep, Procs
<1>4. ~IsLive(rec) => ~IsLive(rec)'
  BY <1>2, <1>3, DeadStays DEF OrderInv, Calm
<1>5. Gatekeeping'
  <2>1. removed' => /\ route' = 0
                    /\ \A p \in Serves : pc'[p] \notin Doorlike
                    /\ \A v \in Verbs : pc'[v] # "work"
    BY <1>1 DEF OrderInv, Gatekeeping, Stage
  <2>2. ~removed' => dir' /\ \A y \in Procs : pc'[y] # "gatelost" /\ (pc'[y] \in AtGate => gate' = y)
    BY <1>1 DEF OrderInv, Gatekeeping
  <2>3. \A v \in Verbs : pc'[v] = "work" => ~IsLive(rec)' /\ (cmd'[v] = "rm" => route' = 0)
    BY <1>1, <1>4 DEF OrderInv, Gatekeeping, Procs
  <2> QED BY <2>1, <2>2, <2>3 DEF Gatekeeping
<1>6. ASSUME NEW y \in Procs, Writer(y)' PROVE Writes(y)'
  <2>1. Writer(y) /\ y # x /\ pc'[y] = pc[y]
    BY <1>1, <1>6 DEF Writer
  <2>2. Pending(y) => Pending(y)'
    BY <1>4, <2>1 DEF Pending
  <2>3. Stray(y) => Stray(y)'
    BY <1>3, <2>1 DEF Stray, Present
  <2>4. Writes(y)
    BY <2>1 DEF OrderInv
  <2>5. CASE lock = y
    BY <2>1, <2>2, <2>4, <2>5 DEF Writes
  <2>6. CASE lock # y
    <3>1. removed' /\ Stray(y)'
      BY <2>3, <2>4, <2>6 DEF Writes
    <3> QED BY <3>1 DEF Writes
  <2> QED BY <2>5, <2>6
<1>7. ASSUME NEW p \in Serves PROVE Place(p)'
  <2>0. Place(p) /\ p \in Procs
    BY DEF OrderInv, Procs
  <2>1. pc'[p] \in Stage => dir' /\ (removed' \/ Ours(p)')
    BY <1>1, <2>0 DEF Place, Ours
  <2>2. pc'[p] = "cleardelete" => lock' = p
    BY <1>1, <2>0 DEF Place
  <2>3. pc'[p] \in {"leaving", "exited"} =>
          ~Ours(p)' /\ \A y \in Procs : Writer(y)' => seen'[y].owner # p
    BY <1>1, <2>0 DEF Place, Ours, Writer
  <2> QED BY <2>1, <2>2, <2>3 DEF Place
<1> QED BY <1>2, <1>5, <1>6, <1>7 DEF OrderInv

(* A process that found the lock free prepares its write. *)
LEMMA ReadOrder ==
  ASSUME TypeInv, StopInv, ~old.raced, OrderInv, NEW x \in Procs, NEW r \in Record, NEW l \in WriteLabels,
         Prepare(x, r, l), CanLock(x), CalmStep(x),
         UNCHANGED <<rec, gate, dir, removed, route, cmd>>,
         pc[x] # "idle",
         \/ l = "claimwrite" /\ pc[x] = "gated" /\ ~IsLive(rec) /\ r.owner = x
         \/ l # "claimwrite" /\ (r.owner = rec.owner \/ (r = Gone /\ ~IsLive(rec))),
         l \in Doorlike => pc[x] \in Doorlike
  PROVE  OrderInv'
<1>1. /\ pc'[x] = l /\ \A y \in Procs \ {x} : pc'[y] = pc[y]
      /\ seen'[x] = r /\ \A y \in Procs \ {x} : seen'[y] = seen[y]
      /\ lock = NoOne /\ lock' = x /\ dir
  BY OneLock DEF Prepare, TypeInv, TypeOK
<1>2. Calm'
  BY <1>1, CalmKept DEF OrderInv
<1>3. \A p \in Serves : pc[p] \in Ended => pc'[p] \in Ended
  BY <1>1 DEF CalmStep, Procs
<1>4. ~IsLive(rec) => ~IsLive(rec)'
  BY <1>2, <1>3, DeadStays DEF OrderInv, Calm
<1>l. l # "gatelost" /\ l # "work" /\ l # "gated" /\ l # "cleardelete"
      /\ (l \in Stage => l \in Doorlike) /\ l \notin {"leaving", "exited"}
  BY DEF WriteLabels, Stage, Doorlike
<1>5. Gatekeeping'
  <2>1. removed' => /\ route' = 0
                    /\ \A p \in Serves : pc'[p] \notin Doorlike
                    /\ \A v \in Verbs : pc'[v] # "work"
    BY <1>1, <1>l DEF OrderInv, Gatekeeping, Procs
  <2>2. ~removed' => dir' /\ \A y \in Procs : pc'[y] # "gatelost" /\ (pc'[y] \in AtGate => gate' = y)
    BY <1>1, <1>l DEF OrderInv, Gatekeeping, AtGate
  <2>3. \A v \in Verbs : pc'[v] = "work" => ~IsLive(rec)' /\ (cmd'[v] = "rm" => route' = 0)
    BY <1>1, <1>4, <1>l DEF OrderInv, Gatekeeping, Procs
  <2> QED BY <2>1, <2>2, <2>3 DEF Gatekeeping
<1>n. \A y \in Procs : lock # y
  BY <1>1, ProcsAssumption
<1>6. ASSUME NEW y \in Procs, Writer(y)' PROVE Writes(y)'
  <2>1. CASE y = x
    <3>1. Pending(x)'
      BY <1>1, <1>4 DEF Pending
    <3> QED BY <1>1, <2>1, <3>1 DEF Writes
  <2>2. CASE y # x
    <3>1. Writes(y) /\ lock # y /\ lock' # y
      BY <1>1, <1>6, <1>n, <2>2 DEF OrderInv, Writer
    <3>2. removed /\ Stray(y)
      BY <3>1 DEF Writes
    <3>3. Stray(y)'
      BY <1>1, <1>3, <2>2, <3>2 DEF Stray, Present
    <3> QED BY <3>1, <3>2, <3>3 DEF Writes
  <2> QED BY <2>1, <2>2
<1>7. ASSUME NEW p \in Serves PROVE Place(p)'
  <2>0. Place(p) /\ p \in Procs
    BY DEF OrderInv, Procs
  <2>1. pc'[p] \in Stage => dir' /\ (removed' \/ Ours(p)')
    BY <1>1, <1>l, <2>0 DEF Place, Ours, Stage
  <2>2. pc'[p] = "cleardelete" => lock' = p
    BY <1>1, <1>l, <1>n, <2>0 DEF Place
  <2>3. ASSUME pc'[p] \in {"leaving", "exited"}
        PROVE  ~Ours(p)' /\ \A y \in Procs : Writer(y)' => seen'[y].owner # p
    <3>1. p # x /\ ~Ours(p) /\ \A y \in Procs : Writer(y) => seen[y].owner # p
      BY <1>1, <1>l, <2>0, <2>3 DEF Place
    <3>2. r.owner # p
      BY <3>1, ProcsAssumption DEF Ours, Gone, Blank, Procs
    <3> QED BY <1>1, <3>1, <3>2 DEF Ours, Writer
  <2> QED BY <2>1, <2>2, <2>3 DEF Place
<1> QED BY <1>2, <1>5, <1>6, <1>7 DEF OrderInv

(* A process writes what it prepared and leaves the lock. *)
LEMMA WriteOrder ==
  ASSUME TypeInv, StopInv, OrderInv, NEW x \in Procs,
         NEW l \in {"setup", "announce", "teardown", "look", "done"},
         Writer(x), rec' = seen[x], Leave(x, l), CalmStep(x),
         UNCHANGED <<removed, route, cmd, seen>>,
         dir => dir', l \in Stage => dir',
         l \in Stage => pc[x] \in Stage \/ (pc[x] = "claimwrite" /\ l = "setup"),
         l \in Doorlike => pc[x] \in Doorlike
  PROVE  OrderInv'
<1>1. /\ pc'[x] = l /\ \A y \in Procs \ {x} : pc'[y] = pc[y]
      /\ \A y \in Procs \ {x} : (lock = y => lock' = y) /\ (gate = y => gate' = y)
      /\ lock' = IF lock = x THEN NoOne ELSE lock
  BY DEF Leave, Freed, GateFreed, TypeInv, TypeOK
<1>l. l # "gatelost" /\ l \notin AtGate /\ l # "cleardelete" /\ l \notin {"leaving", "exited"}
      /\ l \notin WriteLabels
  BY DEF WriteLabels, AtGate
<1>2. Calm'
  BY <1>1, CalmKept DEF OrderInv
<1>3. \A p \in Serves : pc[p] \in Ended => pc'[p] \in Ended
  BY <1>1 DEF CalmStep, Procs
<1>w. \/ lock = x /\ (removed \/ Pending(x))
      \/ lock # x /\ removed /\ Stray(x)
  BY DEF OrderInv, Writes
<1>4. ASSUME ~removed, rec'.owner = rec.owner, ~IsLive(rec) PROVE ~IsLive(rec)'
  BY <1>2, <1>3, <1>4, DeadStays DEF OrderInv, Calm
<1>5. Gatekeeping'
  <2>1. removed' => /\ route' = 0
                    /\ \A p \in Serves : pc'[p] \notin Doorlike
                    /\ \A v \in Verbs : pc'[v] # "work"
    BY <1>1, <1>l DEF OrderInv, Gatekeeping, AtGate, Procs
  <2>2. ~removed' => dir' /\ \A y \in Procs : pc'[y] # "gatelost" /\ (pc'[y] \in AtGate => gate' = y)
    BY <1>1, <1>l DEF OrderInv, Gatekeeping
  <2>3. ASSUME NEW v \in Verbs, pc'[v] = "work"
        PROVE  ~IsLive(rec)' /\ (cmd'[v] = "rm" => route' = 0)
    <3>1. v \in Procs /\ v # x /\ pc[v] = "work" /\ ~removed /\ gate = v
      BY <1>1, <1>l, <2>3 DEF OrderInv, Gatekeeping, AtGate, Procs
    <3>2. ~IsLive(rec) /\ (cmd[v] = "rm" => route = 0)
      BY <3>1 DEF OrderInv, Gatekeeping
    <3>3. pc[x] # "claimwrite"
      BY <3>1 DEF OrderInv, Gatekeeping, AtGate
    <3>4. rec'.owner = rec.owner \/ rec' = Gone
      BY <1>w, <3>1, <3>3 DEF Pending
    <3>5. CASE rec' = Gone
      BY <3>2, <3>5, ProcsAssumption DEF IsLive, Present, Gone, Blank, Procs
    <3>6. CASE rec'.owner = rec.owner
      BY <1>4, <3>1, <3>2, <3>6
    <3> QED BY <3>4, <3>5, <3>6
  <2> QED BY <2>1, <2>2, <2>3 DEF Gatekeeping
<1>6. ASSUME NEW y \in Procs, Writer(y)' PROVE Writes(y)'
  <2>1. Writer(y) /\ y # x /\ pc'[y] = pc[y]
    BY <1>1, <1>6, <1>l DEF Writer
  <2>2. Writes(y)
    BY <2>1 DEF OrderInv
  <2>3. removed
    BY <1>w, <2>1, <2>2 DEF Writes
  <2>4. CASE lock = y
    BY <2>3, <2>4, <1>1, <2>1 DEF Writes
  <2>5. CASE lock # y
    <3>1. Stray(y)
      BY <2>2, <2>5 DEF Writes
    <3>2. Stray(y)'
      BY <1>3, <2>1, <3>1 DEF Stray, Present
    <3> QED BY <2>3, <3>2 DEF Writes
  <2> QED BY <2>4, <2>5
<1>7. ASSUME NEW p \in Serves PROVE Place(p)'
  <2>0. Place(p) /\ p \in Procs
    BY DEF OrderInv, Procs
  <2>1. ASSUME pc'[p] \in Stage PROVE dir' /\ (removed' \/ Ours(p)')
    <3>1. CASE pc[p] \in Stage
      <4>1. dir'
        BY <2>0, <3>1 DEF Place
      <4>2. CASE removed
        BY <4>1, <4>2
      <4>3. CASE ~removed
        <5>1. rec.owner = p
          BY <2>0, <3>1, <4>3 DEF Place, Ours
        <5>2. IsLive(rec)
          BY <3>1, <5>1 DEF IsLive, Present, Alive, Ended, Stage, Doorlike
        <5>3. Pending(x)
          BY <1>w, <4>3
        <5>4. rec'.owner = p
          BY <5>1, <5>2, <5>3 DEF Pending
        <5> QED BY <4>1, <5>4 DEF Ours
      <4> QED BY <4>2, <4>3
    <3>2. CASE pc[p] \notin Stage
      <4>1. p = x /\ pc[x] = "claimwrite" /\ dir'
        BY <1>1, <2>0, <2>1, <3>2
      <4>2. seen[x].owner = x
        BY <4>1 DEF StopInv, OwnersBegan
      <4> QED BY <4>1, <4>2 DEF Ours
    <3> QED BY <3>1, <3>2
  <2>2. pc'[p] = "cleardelete" => lock' = p
    BY <1>1, <1>l, <2>0 DEF Place
  <2>3. pc'[p] \in {"leaving", "exited"} =>
          ~Ours(p)' /\ \A y \in Procs : Writer(y)' => seen'[y].owner # p
    BY <1>1, <1>l, <2>0 DEF Place, Ours, Writer
  <2> QED BY <2>1, <2>2, <2>3 DEF Place
<1> QED BY <1>2, <1>5, <1>6, <1>7 DEF OrderInv

(* A share takes its own record away. *)
LEMMA ClearOrder ==
  ASSUME TypeInv, StopInv, OrderInv, NEW p \in Serves, ClearDelete(p)
  PROVE  OrderInv'
<1>0. /\ p \in Procs /\ p \notin Ops
      /\ UNCHANGED <<dir, removed, route, recycled, seen, cmd, pinned, signal>>
      /\ pc[p] = "cleardelete" /\ lock = p /\ rec' = Gone
  BY ProcsAssumption DEF ClearDelete, Procs, OrderInv, Place, world, local
<1>1. /\ pc'[p] = "leaving" /\ \A y \in Procs \ {p} : pc'[y] = pc[y]
      /\ lock' = NoOne
      /\ \A y \in Procs \ {p} : gate = y => gate' = y
  BY <1>0 DEF ClearDelete, Leave, Freed, GateFreed, TypeInv, TypeOK
<1>2. Calm'
  BY <1>0, <1>1, CalmKept DEF OrderInv, CalmStep, Calm, Ended
<1>3. \A q \in Serves : pc[q] \in Ended => pc'[q] \in Ended
  BY <1>0, <1>1 DEF Ended, Procs
<1>4. ~Present(rec') /\ ~IsLive(rec') /\ ~IsLive(rec)' /\ rec'.owner = NoOne /\ NoOne \notin Serves
  BY <1>0, ProcsAssumption DEF IsLive, Present, Gone, Blank, Procs
<1>5. Gatekeeping'
  <2>1. removed' => /\ route' = 0
                    /\ \A q \in Serves : pc'[q] \notin Doorlike
                    /\ \A v \in Verbs : pc'[v] # "work"
    BY <1>0, <1>1 DEF OrderInv, Gatekeeping, Doorlike, Procs
  <2>2. ~removed' => dir' /\ \A y \in Procs : pc'[y] # "gatelost" /\ (pc'[y] \in AtGate => gate' = y)
    BY <1>0, <1>1 DEF OrderInv, Gatekeeping, AtGate
  <2>3. \A v \in Verbs : pc'[v] = "work" => ~IsLive(rec)' /\ (cmd'[v] = "rm" => route' = 0)
    BY <1>0, <1>1, <1>4 DEF OrderInv, Gatekeeping, Procs
  <2> QED BY <2>1, <2>2, <2>3 DEF Gatekeeping
<1>6. ASSUME NEW y \in Procs, Writer(y)'
      PROVE  Writer(y) /\ removed /\ Stray(y) /\ seen[y].owner # p /\ Writes(y)'
  <2>1. Writer(y) /\ y # p /\ pc'[y] = pc[y]
    BY <1>1, <1>6 DEF Writer, WriteLabels
  <2>2. Writes(y) /\ lock # y /\ lock' # y
    BY <1>0, <1>1, <2>1, ProcsAssumption DEF OrderInv
  <2>3. removed /\ Stray(y)
    BY <2>2 DEF Writes
  <2>4. Stray(y)'
    BY <1>0, <1>3, <2>1, <2>3 DEF Stray, Present
  <2>5. seen[y].owner # p
    BY <1>0, <2>3 DEF Stray, Present, Ended
  <2> QED BY <1>0, <2>1, <2>2, <2>3, <2>4, <2>5 DEF Writes
<1>7. ASSUME NEW q \in Serves PROVE Place(q)'
  <2>0. Place(q) /\ q \in Procs /\ Place(p)
    BY DEF OrderInv, Procs
  <2>1. ASSUME pc'[q] \in Stage PROVE dir' /\ (removed' \/ Ours(q)')
    <3>1. q # p /\ pc[q] \in Stage
      BY <1>1, <2>0, <2>1 DEF Stage, Doorlike
    <3> QED BY <1>0, <2>0, <3>1 DEF Place, Ours, Stage
  <2>2. pc'[q] = "cleardelete" => lock' = q
    BY <1>0, <1>1, <2>0 DEF Place
  <2>3. pc'[q] \in {"leaving", "exited"} =>
          ~Ours(q)' /\ \A y \in Procs : Writer(y)' => seen'[y].owner # q
    BY <1>0, <1>1, <1>4, <1>6, <2>0 DEF Place, Ours
  <2> QED BY <2>1, <2>2, <2>3 DEF Place
<1> QED BY <1>2, <1>5, <1>6, <1>7 DEF OrderInv

(* `rm` erases a box that nobody shares. *)
LEMMA EraseOrder ==
  ASSUME TypeInv, StopInv, OrderInv, NEW v \in Verbs, Erase(v)
  PROVE  OrderInv'
<1>0. /\ v \in Procs /\ v \notin Serves /\ v \notin Ops
      /\ UNCHANGED <<route, recycled, seen, cmd, pinned, signal>>
      /\ pc[v] = "work" /\ cmd[v] = "rm"
      /\ rec' = Gone /\ lock' = NoOne /\ ~dir' /\ removed'
  BY ProcsAssumption DEF Erase, Procs, OrderInv, Calm, world, local
<1>1. \A y \in Procs : pc'[y] = IF y = v THEN "done"
                                ELSE IF pc[y] = "gatewait" THEN "gatelost" ELSE pc[y]
  BY DEF Erase
<1>2. ~removed /\ ~IsLive(rec) /\ route = 0 /\ gate = v
  BY <1>0 DEF OrderInv, Gatekeeping, AtGate
<1>3. \A y \in Procs : pc[y] \in AtGate => y = v
  BY <1>2 DEF OrderInv, Gatekeeping
<1>4. \A p \in Serves : pc[p] \notin Stage
  <2> SUFFICES ASSUME NEW p \in Serves, pc[p] \in Stage PROVE FALSE
    OBVIOUS
  <2>1. rec.owner = p
    BY <1>2 DEF OrderInv, Place, Ours
  <2> QED BY <1>2, <2>1 DEF IsLive, Present, Alive, Ended, Stage, Doorlike
<1>5. Calm'
  <2>1. \A o \in Ops : pc'[o] # "delete"
    BY <1>0, <1>1 DEF OrderInv, Calm, Procs
  <2>2. \A p \in Serves : pc'[p] # "idle" => pc[p] # "idle"
    BY <1>0, <1>1 DEF Procs
  <2> QED BY <1>0, <2>1, <2>2 DEF OrderInv, Calm
<1>n. rec'.owner = NoOne /\ NoOne \notin Serves /\ NoOne \notin Procs
  BY <1>0, ProcsAssumption DEF Gone, Blank, Procs
<1>6. Gatekeeping'
  BY <1>0, <1>1, <1>2, <1>3, <1>4, <1>n DEF Gatekeeping, Stage, Doorlike, AtGate, IsLive, Present, Procs
<1>7. ASSUME NEW y \in Procs, Writer(y)' PROVE Writes(y)'
  <2>1. Writer(y) /\ pc'[y] = pc[y] /\ pc[y] # "claimwrite"
    BY <1>0, <1>1, <1>3, <1>7 DEF Writer, WriteLabels, AtGate
  <2>2. Pending(y)
    BY <1>2, <2>1 DEF OrderInv, Writes
  <2>3. ASSUME Present(seen[y]) PROVE pc'[seen[y].owner] \in Ended
    <3>1. seen[y].owner \in Serves /\ rec.owner = seen[y].owner
      BY <1>n, <2>1, <2>2, <2>3 DEF Pending, Present, Gone, Blank
    <3>2. Begun(rec.owner) /\ ~Alive(rec.owner)
      BY <1>2, <3>1 DEF StopInv, OwnersBegan, Present, IsLive
    <3>3. pc[seen[y].owner] \in Ended
      BY <3>1, <3>2 DEF Alive, Begun
    <3> QED BY <1>0, <1>1, <3>1, <3>3 DEF Ended, Procs
  <2>4. Stray(y)'
    BY <1>0, <2>1, <2>3 DEF Stray, Present
  <2> QED BY <1>0, <1>n, <2>4 DEF Writes
<1>8. ASSUME NEW p \in Serves PROVE Place(p)'
  <2>1. p \in Procs /\ Place(p) /\ p # v
    BY <1>0 DEF OrderInv, Procs
  <2>2. pc'[p] \notin Stage
    BY <1>1, <1>4, <2>1 DEF Stage, Doorlike
  <2>3. ASSUME pc'[p] \in {"leaving", "exited"}
        PROVE  ~Ours(p)' /\ \A y \in Procs : Writer(y)' => seen'[y].owner # p
    <3>1. pc[p] \in {"leaving", "exited"}
      BY <1>1, <2>1, <2>3
    <3>2. \A y \in Procs : Writer(y)' => Writer(y)
      BY <1>1 DEF Writer, WriteLabels
    <3> QED BY <1>0, <1>n, <2>1, <3>1, <3>2 DEF Place, Ours
  <2> QED BY <2>2, <2>3 DEF Place, Stage
<1> QED BY <1>5, <1>6, <1>7, <1>8 DEF OrderInv

(* Every action keeps the order.                                            *)

LEMMA Calmly ==
  ASSUME OrderInv, NEW x \in Procs, NEW l \in Labels \ {"idle"},
         pc' = [pc EXCEPT ![x] = l], TypeInv,
         UNCHANGED <<recycled, signal, cmd, pinned>>,
         x \in Serves => pc[x] # "idle" /\ (pc[x] \in Ended => l \in Ended),
         l # "delete"
  PROVE  CalmStep(x)
  BY DEF OrderInv, Calm, CalmStep, TypeInv, TypeOK

LEMMA GateOrder ==
  ASSUME TypeInv, StopInv, OrderInv, NEW x \in Procs,
         OpenGate(x) \/ TakeGate(x) \/ GateTimesOut(x)
  PROVE  OrderInv'
<1>1. UNCHANGED <<rec, lock, removed, route, recycled, signal, pinned, seen, cmd>>
  BY DEF OpenGate, TakeGate, GateTimesOut, disk, world, local
<1>2. CASE OpenGate(x) \/ GateTimesOut(x)
  <2>1. PICK l \in {"gatewait", "refused", "done"} : pc' = [pc EXCEPT ![x] = l]
    BY <1>2 DEF OpenGate, GateTimesOut, Goto
  <2>2. gate' = gate /\ (dir => dir') /\ pc[x] \in {"opengate", "gatewait"}
    BY <1>2 DEF OpenGate, GateTimesOut, Goto, disk
  <2>3. l \in Labels \ (WriteLabels \cup {"gatelost"}) /\ l \notin {"idle", "delete"}
    BY <2>1 DEF Labels, PcServe, PcVerb, Ended, WriteLabels
  <2>4. CalmStep(x)
    BY <1>1, <2>1, <2>2, <2>3, Calmly DEF Ended
  <2> QED BY <1>1, <2>1, <2>2, <2>3, <2>4, MoveOrder DEF AtGate, Stage, Doorlike
<1>3. CASE TakeGate(x)
  <2>1. /\ pc' = [pc EXCEPT ![x] = "gated"] /\ dir' = dir
        /\ pc[x] \in {"gatewait", "gatelost"}
    BY <1>3 DEF TakeGate
  <2>2. CalmStep(x)
    BY <1>1, <2>1, Calmly DEF Labels, PcServe, Ended
  <2>3. gate' = x \/ removed
    BY <1>3 DEF TakeGate, OrderInv, Gatekeeping
  <2>4. \A y \in Procs \ {x} : gate = y => gate' = y
    BY <1>3, ProcsAssumption DEF TakeGate
  <2> QED BY <1>1, <2>1, <2>2, <2>3, <2>4, MoveOrder
          DEF Labels, PcServe, WriteLabels, Stage, Doorlike
<1> QED BY <1>2, <1>3

LEMMA OpenOrder ==
  ASSUME Orderly, TypeInv, StopInv, ~old.raced, OrderInv, NEW p \in Serves,
         \/ StartShare(p) \/ ClaimRead(p) \/ ClaimWrite(p) \/ SetUp(p) \/ StillOurs(p)
         \/ OpenRead(p) \/ OpenWrite(p) \/ Announce(p)
  PROVE  OrderInv'
<1>0. p \in Procs /\ p \notin Ops /\ p \notin Verbs
  BY ProcsAssumption DEF Procs
<1>1. CASE StartShare(p)
  <2>1. /\ UNCHANGED <<rec, lock, gate, dir, removed, route, recycled, signal, seen, cmd>>
        /\ pc[p] = "idle" /\ pinned' = [pinned EXCEPT ![p] = route] /\ route # 0
    BY <1>1 DEF StartShare, Goto, disk, world
  <2>2. PICK l \in {"refused", "opengate"} : pc' = [pc EXCEPT ![p] = l]
    BY <1>1 DEF StartShare, Goto
  <2>3. l \in Labels \ (WriteLabels \cup {"gatelost"})
    BY <2>2 DEF Labels, PcServe, Ended, WriteLabels
  <2>4. \A q \in Serves : pinned'[q] = IF q = p THEN route ELSE pinned[q]
    BY <2>1 DEF TypeInv, TypeOK
  <2>5. pc'[p] = l
    BY <1>0, <2>2 DEF TypeInv, TypeOK
  <2>6. CalmStep(p)
    BY <1>0, <2>1, <2>2, <2>4, <2>5 DEF CalmStep, OrderInv, Calm, Ended
  <2> QED BY <1>0, <2>1, <2>2, <2>3, <2>6, MoveOrder DEF AtGate, Stage, Doorlike
<1>2. CASE ClaimRead(p)
  <2>0. UNCHANGED <<rec, dir, removed, route, recycled, signal, pinned, cmd>> /\ pc[p] = "gated"
    BY <1>2 DEF ClaimRead, world, local
  <2>1. CASE CanLock(p) /\ ClaimMay(rec) /\ Prepare(p, Claimed(p), "claimwrite") /\ UNCHANGED gate
    <3>1. pc' = [pc EXCEPT ![p] = "claimwrite"] /\ Claimed(p).owner = p /\ ~IsLive(rec)
      BY <2>1 DEF Prepare, Claimed, Blank, ClaimMay
    <3>2. Claimed(p) \in Record /\ "claimwrite" \in WriteLabels
      BY RecordTypes DEF WriteLabels
    <3>3. CalmStep(p)
      BY <1>0, <2>0, <3>1, Calmly DEF Labels, PcServe, Ended
    <3> QED BY <1>0, <2>0, <2>1, <3>1, <3>2, <3>3, ReadOrder DEF Doorlike
  <2>2. CASE Leave(p, "refused") /\ UNCHANGED seen
    <3>1. /\ pc' = [pc EXCEPT ![p] = "refused"]
          /\ \A y \in Procs \ {p} : (lock = y => lock' = y) /\ (gate = y => gate' = y)
      BY <2>2 DEF Leave, Freed, GateFreed
    <3>2. CalmStep(p)
      BY <1>0, <2>0, <3>1, Calmly DEF Labels, PcServe, Ended
    <3> QED BY <1>0, <2>0, <2>2, <3>1, <3>2, MoveOrder
            DEF Labels, PcServe, WriteLabels, Ended, AtGate, Stage, Doorlike
  <2> QED BY <1>2, <2>1, <2>2 DEF ClaimRead
<1>3. CASE ClaimWrite(p) \/ OpenWrite(p)
  <2>1. PICK l \in {"setup", "announce"} :
          /\ Leave(p, l)
          /\ l = "setup" => pc[p] = "claimwrite"
          /\ l = "announce" => pc[p] = "openwrite"
    BY <1>3 DEF ClaimWrite, OpenWrite
  <2>2. /\ Writer(p) /\ rec' = seen[p] /\ dir'
        /\ UNCHANGED <<removed, route, recycled, signal, pinned, cmd, seen>>
    BY <1>3 DEF ClaimWrite, OpenWrite, WriteBack, Writer, WriteLabels, world, local
  <2>3. CalmStep(p)
    BY <1>0, <2>1, <2>2, Calmly DEF Labels, PcServe, Ended, Leave
  <2> QED BY <1>0, <2>1, <2>2, <2>3, WriteOrder DEF Stage, Doorlike
<1>4. CASE SetUp(p) \/ StillOurs(p) \/ Announce(p)
  <2>1. /\ UNCHANGED <<rec, lock, gate, dir, removed, route, recycled, signal, pinned, seen, cmd>>
        /\ pc[p] \in {"setup", "check", "announce"}
    BY <1>4 DEF SetUp, StillOurs, Announce, Goto, disk, world, local
  <2>2. PICK l \in {"check", "clear", "open", "serving"} :
          /\ pc' = [pc EXCEPT ![p] = l]
          /\ l = "open" => route = pinned[p]
          /\ l = "serving" => pc[p] = "announce"
    BY <1>4 DEF SetUp, StillOurs, Announce, Goto
  <2>3. l \in {"open", "serving"} => ~removed
    BY <2>1, <2>2 DEF OrderInv, Gatekeeping, Calm, Doorlike
  <2>4. l \in Labels \ (WriteLabels \cup {"gatelost"})
    BY <2>2 DEF Labels, PcServe, WriteLabels
  <2>5. CalmStep(p)
    BY <1>0, <2>1, <2>2, <2>4, Calmly DEF Ended
  <2> QED BY <1>0, <2>1, <2>2, <2>3, <2>4, <2>5, MoveOrder DEF AtGate, Stage, Doorlike
<1>5. CASE OpenRead(p)
  <2>0. UNCHANGED <<rec, gate, dir, removed, route, recycled, signal, pinned, cmd>> /\ pc[p] = "open"
    BY <1>5 DEF OpenRead, local
  <2>1. CASE pc' = [pc EXCEPT ![p] = "clear"] /\ GiveUp(p) /\ UNCHANGED <<seen, minted>>
    <3>1. CalmStep(p)
      BY <1>0, <2>0, <2>1, Calmly DEF Labels, PcServe, Ended
    <3> QED BY <1>0, <2>0, <2>1, <3>1, MoveOrder
            DEF GiveUp, Labels, PcServe, WriteLabels, AtGate, Stage, Doorlike
  <2>2. CASE ~(pc' = [pc EXCEPT ![p] = "clear"] /\ GiveUp(p) /\ UNCHANGED <<seen, minted>>)
    <3>1. PICK g \in Grants :
            Prepare(p, [rec EXCEPT !.starting = FALSE, !.grants = @ \cup {g}], "openwrite")
      BY <1>5, <2>2 DEF OpenRead
    <3>2. CanLock(p)
      BY <1>5, <2>2 DEF OpenRead
    <3> DEFINE r == [rec EXCEPT !.starting = FALSE, !.grants = @ \cup {g}]
    <3>3. r \in Record /\ r.owner = rec.owner
      BY EditTypes DEF TypeInv, TypeOK, Record
    <3>4. Prepare(p, r, "openwrite") /\ "openwrite" \in WriteLabels
      BY <3>1 DEF WriteLabels
    <3> HIDE DEF r
    <3>5. CalmStep(p)
      BY <1>0, <2>0, <3>4, Calmly DEF Prepare, Labels, PcServe, Ended
    <3> QED BY <1>0, <2>0, <3>2, <3>3, <3>4, <3>5, ReadOrder DEF Doorlike
  <2> QED BY <2>1, <2>2
<1> QED BY <1>1, <1>2, <1>3, <1>4, <1>5

LEMMA ServeOrder ==
  ASSUME Orderly, TypeInv, StopInv, ~old.raced, OrderInv, NEW p \in Serves,
         \/ NoticeSpent(p) \/ NoticeBoxGone(p) \/ ServeEnds(p) \/ Interrupted(p)
         \/ WindUpRead(p) \/ WindUpWrite(p) \/ TearDown(p) \/ WriteReceipt(p)
         \/ ClearRead(p) \/ ClearDelete(p) \/ Exit(p) \/ HardCheck(p) \/ HardDelete(p)
  PROVE  OrderInv'
<1>0. p \in Procs /\ p \notin Ops /\ p \notin Verbs /\ signal[p] = "none" /\ Place(p)
  BY ProcsAssumption DEF Procs, OrderInv, Calm
<1>d. pc[p] \in Doorlike => ~removed
  BY DEF OrderInv, Gatekeeping
<1>s. "signal" \notin Faults /\ "timeout" \notin Faults
  BY DEF Orderly
<1>1. CASE \/ NoticeSpent(p) \/ NoticeBoxGone(p) \/ ServeEnds(p) \/ TearDown(p)
           \/ WriteReceipt(p) \/ Exit(p)
  <2>1. /\ UNCHANGED <<rec, lock, gate, dir, removed, route, recycled, signal, pinned, seen, cmd>>
        /\ pc[p] \in Doorlike \/ pc[p] = "leaving"
    BY <1>1, <1>s DEF NoticeSpent, NoticeBoxGone, ServeEnds, TearDown, WriteReceipt, Exit,
       Goto, disk, world, local, Doorlike
  <2>2. PICK l \in {"windup", "receipt", "clear", "exited"} :
          /\ pc' = [pc EXCEPT ![p] = l]
          /\ l = "exited" <=> pc[p] = "leaving"
    BY <1>1 DEF NoticeSpent, NoticeBoxGone, ServeEnds, TearDown, WriteReceipt, Exit, Goto
  <2>3. l \in Labels \ (WriteLabels \cup {"gatelost"}) /\ l \notin AtGate
    BY <2>2 DEF Labels, PcServe, WriteLabels, Ended, AtGate
  <2>4. CalmStep(p)
    BY <1>0, <2>1, <2>2, <2>3, Calmly DEF Ended, Doorlike
  <2>5. l \in Stage => pc[p] \in Stage /\ ~removed
    BY <1>d, <2>1, <2>2 DEF Stage, Doorlike
  <2> QED BY <1>0, <2>1, <2>2, <2>3, <2>4, <2>5, MoveOrder
<1>2. CASE WindUpRead(p)
  <2>0. /\ UNCHANGED <<rec, gate, dir, removed, route, recycled, signal, pinned, cmd>>
        /\ pc[p] = "windup" /\ ~removed
    BY <1>2, <1>d DEF WindUpRead, world, Doorlike
  <2>1. CASE CanLock(p) /\ Present(rec) /\ Prepare(p, Mark(p), "windwrite")
    <3>1. Mark(p) \in Record /\ Mark(p).owner = rec.owner /\ "windwrite" \in WriteLabels
      BY DEF Mark, Record, TypeInv, TypeOK, WriteLabels
    <3>2. CalmStep(p)
      BY <1>0, <2>0, <2>1, Calmly DEF Prepare, Labels, PcServe, Ended
    <3> QED BY <1>0, <2>0, <2>1, <3>1, <3>2, ReadOrder DEF Doorlike
  <2>2. CASE GiveUp(p) /\ UNCHANGED seen /\ \E l \in {"windup", "teardown"} : pc' = [pc EXCEPT ![p] = l]
    <3>1. CalmStep(p)
      BY <1>0, <2>0, <2>2, Calmly DEF Labels, PcServe, Ended
    <3> QED BY <1>0, <2>0, <2>2, <3>1, MoveOrder
            DEF GiveUp, Labels, PcServe, WriteLabels, AtGate, Stage, Doorlike
  <2> QED BY <1>2, <2>1, <2>2 DEF WindUpRead
<1>3. CASE WindUpWrite(p)
  <2>1. /\ Writer(p) /\ rec' = seen[p] /\ dir' /\ Leave(p, "teardown") /\ pc[p] = "windwrite"
        /\ UNCHANGED <<removed, route, recycled, signal, pinned, cmd, seen>>
    BY <1>3 DEF WindUpWrite, WriteBack, Writer, WriteLabels, world, local
  <2>2. CalmStep(p)
    BY <1>0, <2>1, Calmly DEF Labels, PcServe, Ended, Leave
  <2> QED BY <1>0, <2>1, <2>2, WriteOrder DEF Stage, Doorlike
<1>4. CASE ClearRead(p)
  <2>0. /\ UNCHANGED <<rec, gate, dir, removed, route, recycled, signal, pinned, seen, cmd>>
        /\ pc[p] = "clear"
    BY <1>4 DEF ClearRead, world, local
  <2>1. dir /\ lock = NoOne
    BY <1>0, <1>4, <1>s, <2>0 DEF ClearRead, CanLock, LockFails, TypeInv, Unwaited, Place, Stage
  <2>2. \A y \in Procs : lock # y
    BY <2>1, ProcsAssumption
  <2>3. PICK l \in {"cleardelete", "leaving"} :
          /\ pc' = [pc EXCEPT ![p] = l]
          /\ l = "cleardelete" => lock' = p
          /\ l = "leaving" => ~Ours(p) /\ lock' = lock
    BY <1>0, <1>4, <2>1, OneLock DEF ClearRead, GiveUp
  <2>4. \A y \in Procs : Writer(y) => seen[y].owner # p
    <3> SUFFICES ASSUME NEW y \in Procs, Writer(y), seen[y].owner = p PROVE FALSE
      OBVIOUS
    <3>1. Stray(y)
      BY <2>2 DEF OrderInv, Writes
    <3> QED BY <2>0, <3>1 DEF Stray, Present, Ended
  <2>5. CalmStep(p)
    BY <1>0, <2>0, <2>3, Calmly DEF Labels, PcServe, Ended
  <2> QED BY <1>0, <2>0, <2>2, <2>3, <2>4, <2>5, MoveOrder
          DEF Labels, PcServe, WriteLabels, AtGate, Stage, Doorlike
<1>5. CASE ClearDelete(p)
  BY <1>5, ClearOrder
<1>6. CASE Interrupted(p) \/ HardCheck(p) \/ HardDelete(p)
  BY <1>0, <1>s, <1>6 DEF Interrupted, HardCheck, HardDelete
<1> QED BY <1>1, <1>2, <1>3, <1>4, <1>5, <1>6

LEMMA OpOrder ==
  ASSUME Orderly, TypeInv, StopInv, ~old.raced, OrderInv, NEW o \in Ops,
         \/ StartOp(o) \/ StopPeek(o) \/ OpRefused(o) \/ GrantRead(o) \/ RevokeRead(o)
         \/ StopRead(o) \/ OpWrite(o) \/ RevokeLook(o)
         \/ ForceLock(o) \/ ForceDelete(o) \/ ForceLook(o)
  PROVE  OrderInv'
<1>0. /\ o \in Procs /\ o \notin Serves /\ o \notin Verbs
      /\ cmd[o] # "force" /\ pc[o] # "delete"
  BY ProcsAssumption DEF Procs, OrderInv, Calm
<1>1. CASE StartOp(o)
  <2>1. /\ UNCHANGED <<rec, lock, gate, dir, removed, route, recycled, signal, pinned, seen>>
    BY <1>1 DEF StartOp, disk, world
  <2>2. PICK l \in {"peek", "lock"} : pc' = [pc EXCEPT ![o] = l]
    BY <1>1 DEF StartOp, Goto
  <2>3. /\ cmd'[o] # "force" /\ \A y \in (Ops \cup Verbs) \ {o} : cmd'[y] = cmd[y]
    BY <1>1 DEF StartOp, Orderly, TypeInv, TypeOK
  <2>4. pc'[o] = l
    BY <1>0, <2>2 DEF TypeInv, TypeOK
  <2>5. CalmStep(o)
    BY <1>0, <2>1, <2>2, <2>3, <2>4 DEF CalmStep, OrderInv, Calm
  <2> QED BY <1>0, <2>1, <2>2, <2>3, <2>5, MoveOrder
          DEF Labels, PcOp, WriteLabels, AtGate, Stage, Doorlike
<1>2. CASE StopPeek(o) \/ OpRefused(o) \/ RevokeLook(o)
  <2>1. UNCHANGED <<rec, lock, gate, dir, removed, route, recycled, signal, pinned, seen, cmd>>
    BY <1>2 DEF StopPeek, OpRefused, RevokeLook, GiveUp, disk, world, local
  <2>2. PICK l \in {"lock", "done"} : pc' = [pc EXCEPT ![o] = l]
    BY <1>2 DEF StopPeek, OpRefused, RevokeLook, Goto
  <2>3. CalmStep(o)
    BY <1>0, <2>1, <2>2, Calmly DEF Labels, PcOp
  <2> QED BY <1>0, <2>1, <2>2, <2>3, MoveOrder
          DEF Labels, PcOp, WriteLabels, AtGate, Stage, Doorlike
<1>3. CASE GrantRead(o) \/ RevokeRead(o) \/ StopRead(o)
  <2>1. /\ UNCHANGED <<rec, gate, dir, removed, route, recycled, signal, pinned, cmd>>
        /\ CanLock(o) /\ pc[o] = "lock"
    BY <1>3 DEF GrantRead, RevokeRead, StopRead, world, local
  <2>2. PICK r \in Record :
          /\ Prepare(o, r, "write")
          /\ r.owner = rec.owner \/ (r = Gone /\ ~IsLive(rec))
    <3>0. rec \in Record
      BY DEF TypeInv, TypeOK
    <3>1. CASE GrantRead(o)
      <4>1. PICK g \in Grants : Prepare(o, [rec EXCEPT !.grants = @ \cup {g}], "write")
        BY <3>1 DEF GrantRead
      <4>2. /\ [rec EXCEPT !.grants = @ \cup {g}] \in Record
            /\ [rec EXCEPT !.grants = @ \cup {g}].owner = rec.owner
        BY <3>0, EditTypes DEF Record
      <4> QED BY <4>1, <4>2
    <3>2. CASE RevokeRead(o)
      <4>1. Prepare(o, [rec EXCEPT !.revoked = @ \cup {arg[o]}], "write") /\ arg[o] \in Grants
        BY <3>0, <3>2 DEF RevokeRead, Record
      <4>2. /\ [rec EXCEPT !.revoked = @ \cup {arg[o]}] \in Record
            /\ [rec EXCEPT !.revoked = @ \cup {arg[o]}].owner = rec.owner
        BY <3>0, <4>1, EditTypes DEF Record
      <4> QED BY <4>1, <4>2
    <3>3. CASE StopRead(o)
      <4>1. Stopped(rec) \in Record /\ Stopped(rec).owner = rec.owner
        BY <3>0 DEF Stopped, Record
      <4> QED BY <3>3, <4>1, RecordTypes DEF StopRead
    <3> QED BY <1>3, <3>1, <3>2, <3>3
  <2>3. CalmStep(o)
    BY <1>0, <2>1, <2>2, Calmly DEF Prepare, Labels, PcOp
  <2> QED BY <1>0, <2>1, <2>2, <2>3, ReadOrder DEF WriteLabels, Doorlike
<1>4. CASE OpWrite(o)
  <2>1. /\ Writer(o) /\ rec' = seen[o] /\ (dir => dir') /\ pc[o] = "write"
        /\ UNCHANGED <<removed, route, recycled, signal, pinned, cmd, seen>>
    BY <1>4 DEF OpWrite, Writer, WriteLabels, world, local
  <2>2. PICK l \in {"look", "done"} : Leave(o, l)
    BY <1>4 DEF OpWrite
  <2>3. CalmStep(o)
    BY <1>0, <2>1, <2>2, Calmly DEF Labels, PcOp, Leave
  <2> QED BY <1>0, <2>1, <2>2, <2>3, WriteOrder DEF Stage, Doorlike
<1>5. CASE ForceLock(o) \/ ForceDelete(o) \/ ForceLook(o)
  BY <1>0, <1>5 DEF ForceLock, ForceDelete, ForceLook
<1> QED BY <1>1, <1>2, <1>3, <1>4, <1>5

LEMMA VerbOrder ==
  ASSUME Orderly, TypeInv, StopInv, OrderInv, NEW v \in Verbs,
         StartVerb(v) \/ VerbDecide(v) \/ VerbWork(v) \/ Erase(v)
  PROVE  OrderInv'
<1>0. v \in Procs /\ v \notin Serves /\ v \notin Ops /\ cmd[v] # "rmforce"
  BY ProcsAssumption DEF Procs, OrderInv, Calm
<1>1. CASE StartVerb(v)
  <2>1. /\ UNCHANGED <<rec, lock, gate, dir, removed, route, recycled, signal, pinned, seen>>
        /\ pc' = [pc EXCEPT ![v] = "opengate"]
    BY <1>1 DEF StartVerb, Goto, disk, world
  <2>2. cmd'[v] # "rmforce" /\ \A y \in (Ops \cup Verbs) \ {v} : cmd'[y] = cmd[y]
    BY <1>1 DEF StartVerb, Orderly, TypeInv, TypeOK
  <2>3. pc'[v] = "opengate"
    BY <1>0, <2>1 DEF TypeInv, TypeOK
  <2>4. CalmStep(v)
    BY <1>0, <2>1, <2>2, <2>3 DEF CalmStep, OrderInv, Calm
  <2> QED BY <1>0, <2>1, <2>2, <2>4, MoveOrder
          DEF Labels, PcVerb, WriteLabels, AtGate, Stage, Doorlike
<1>2. CASE VerbDecide(v) \/ VerbWork(v)
  <2>1. UNCHANGED <<rec, dir, removed, route, recycled, signal, pinned, seen, cmd>>
    BY <1>2 DEF VerbDecide, VerbWork, world, local
  <2>2. PICK l \in {"work", "done"} :
          /\ pc' = [pc EXCEPT ![v] = l]
          /\ l = "work" => pc[v] = "gated" /\ VerbMay(v) /\ gate' = gate
    BY <1>2 DEF VerbDecide, VerbWork, Leave
  <2>3. \A y \in Procs \ {v} : (lock = y => lock' = y) /\ (gate = y => gate' = y)
    BY <1>2 DEF VerbDecide, VerbWork, Leave, Freed, GateFreed
  <2>4. l = "work" => ~removed /\ ~IsLive(rec) /\ route = 0 /\ gate' = v
    BY <1>0, <2>2 DEF VerbMay, OrderInv, Gatekeeping, AtGate
  <2>5. CalmStep(v)
    BY <1>0, <2>1, <2>2, Calmly DEF Labels, PcVerb
  <2> QED BY <1>0, <2>1, <2>2, <2>3, <2>4, <2>5, MoveOrder
          DEF Labels, PcVerb, WriteLabels, AtGate, Stage, Doorlike
<1>3. CASE Erase(v)
  BY <1>3, EraseOrder
<1> QED BY <1>1, <1>2, <1>3

(* The box is stopped and started, and grants expire: no process moves. *)
LEMMA StillOrder ==
  ASSUME TypeInv, OrderInv,
         UNCHANGED <<disk, recycled, pc, seen, cmd, pinned, signal>>,
         route' # 0 => ~removed /\ \A v \in Verbs : pc[v] = "work" => cmd[v] # "rm",
         removed => route' = route
  PROVE  OrderInv'
<1>1. UNCHANGED <<rec, lock, gate, dir, removed>>
  BY DEF disk
<1>2. Calm' /\ Gatekeeping'
  BY <1>1 DEF OrderInv, Calm, Gatekeeping, IsLive, Alive, Present
<1>3. ASSUME NEW y \in Procs, Writer(y)' PROVE Writes(y)'
  <2>1. Writes(y)
    BY <1>3 DEF OrderInv, Writer
  <2> QED BY <1>1, <2>1 DEF Writes, Pending, Stray, IsLive, Alive, Present
<1>4. ASSUME NEW p \in Serves PROVE Place(p)'
  <2>1. Place(p)
    BY DEF OrderInv
  <2> QED BY <1>1, <2>1 DEF Place, Ours, Writer
<1> QED BY <1>2, <1>3, <1>4 DEF OrderInv

LEMMA SurroundingsOrder ==
  ASSUME Orderly, TypeInv, StopInv, OrderInv, Surroundings
  PROVE  OrderInv'
<1>0. "corrupt" \notin Faults /\ "recycle" \notin Faults
  BY DEF Orderly
<1>1. CASE BoxStops \/ \E g \in Grants : Expire(g)
  <2>1. /\ UNCHANGED <<disk, recycled, pc, seen, cmd, pinned, signal>>
        /\ route' \in {route, 0}
    BY <1>1 DEF BoxStops, Expire, local
  <2>2. /\ removed => route = 0
        /\ \A v \in Verbs : pc[v] = "work" /\ cmd[v] = "rm" => route = 0
    BY DEF OrderInv, Gatekeeping
  <2>3. route' # 0 => ~removed /\ \A v \in Verbs : pc[v] = "work" => cmd[v] # "rm"
    BY <2>1, <2>2
  <2> QED BY <2>1, <2>2, <2>3, StillOrder
<1>2. CASE BoxStarts
  <2>1. /\ UNCHANGED <<disk, recycled, pc, seen, cmd, pinned, signal>>
        /\ ~removed /\ \A v \in Verbs : pc[v] = "work" => cmd[v] = "export"
    BY <1>2 DEF BoxStarts, local
  <2> QED BY <2>1, StillOrder
<1>3. CASE \E x \in Procs : Kill(x)
  <2> PICK x \in Procs : Kill(x)
    BY <1>3
  <2>1. /\ UNCHANGED <<rec, dir, removed, route, recycled, seen, cmd, pinned, signal>>
        /\ \A y \in Procs \ {x} : (lock = y => lock' = y) /\ (gate = y => gate' = y)
        /\ x \in Serves => Alive(x)
    BY DEF Kill, Leave, Freed, GateFreed, world, local
  <2>2. PICK l \in {"killed", "done"} : pc' = [pc EXCEPT ![x] = l]
    BY DEF Kill, Leave
  <2>3. l \in Labels \ (WriteLabels \cup {"gatelost"}) /\ l \notin {"idle", "delete"}
    BY <2>2 DEF Labels, PcServe, PcOp, Ended, WriteLabels
  <2>4. CalmStep(x)
    BY <2>1, <2>2, <2>3, Calmly DEF Alive
  <2> QED BY <2>1, <2>2, <2>3, <2>4, MoveOrder DEF AtGate, Stage, Doorlike
<1>4. CASE Corrupt \/ \E p \in Serves : Recycle(p)
  BY <1>0, <1>4 DEF Corrupt, Recycle
<1> QED BY <1>1, <1>2, <1>3, <1>4 DEF Surroundings

LEMMA InitOrder == Init => OrderInv
  BY DEF Init, OrderInv, Calm, Gatekeeping, Place, Writer, WriteLabels, AtGate, Stage,
     Doorlike, Procs

LEMMA NextOrder ==
  ASSUME Orderly
  PROVE  TypeInv /\ StopInv /\ ~old.raced /\ OrderInv /\ [Next]_vars => OrderInv'
<1> SUFFICES ASSUME TypeInv, StopInv, ~old.raced, OrderInv, [Next]_vars PROVE OrderInv'
  OBVIOUS
<1>0. Serves \subseteq Procs /\ Verbs \subseteq Procs
  BY DEF Procs
<1>1. ASSUME NEW p \in Serves, StartShare(p) \/ ServeStep(p) \/ Signalled(p) PROVE OrderInv'
  BY <1>0, <1>1, GateOrder, OpenOrder, ServeOrder DEF ServeStep, Signalled
<1>2. ASSUME NEW o \in Ops, StartOp(o) \/ OpStep(o) PROVE OrderInv'
  BY <1>2, OpOrder DEF OpStep
<1>3. ASSUME NEW v \in Verbs, StartVerb(v) \/ VerbStep(v) PROVE OrderInv'
  BY <1>0, <1>3, GateOrder, VerbOrder DEF VerbStep
<1>4. CASE Surroundings
  BY <1>4, SurroundingsOrder
<1>5. CASE UNCHANGED vars
  <2>1. UNCHANGED <<disk, route, recycled, pc, seen, cmd, pinned, signal>>
    BY <1>5 DEF vars, disk
  <2>2. route # 0 => ~removed /\ \A v \in Verbs : pc[v] = "work" => cmd[v] # "rm"
    BY DEF OrderInv, Gatekeeping
  <2> QED BY <2>1, <2>2, StillOrder
<1> QED BY <1>1, <1>2, <1>3, <1>4, <1>5 DEF Next

(* Once the box is gone: no lifecycle command gets to work, and whatever    *)
(* happens, one process moves, and none that claimed is before its claim    *)
(* again.                                                                   *)
Closed == removed /\ \A v \in Verbs : pc[v] # "work"

MovesOn(x) ==
  /\ removed'
  /\ \A y \in Procs \ {x} : pc'[y] = pc[y]
  /\ pc'[x] \in Before => pc[x] \in Before
  /\ pc'[x] = "work" => pc[x] = "work"

LEMMA ServeMovesOn ==
  ASSUME TypeInv, Closed, NEW p \in Serves, StartShare(p) \/ ServeStep(p) \/ Signalled(p)
  PROVE  MovesOn(p)
<1>0. p \in Procs /\ pc \in [Procs -> Labels] /\ removed
  BY DEF Procs, Closed, TypeInv, TypeOK, Labels
<1>1. CASE StartShare(p)
  BY <1>0, <1>1 DEF StartShare
<1>2. CASE OpenGate(p) \/ TakeGate(p) \/ GateTimesOut(p)
  BY <1>0, <1>2 DEF OpenGate, TakeGate, GateTimesOut, Goto, disk, Before, MovesOn
<1>3. CASE ClaimRead(p) \/ ClaimWrite(p)
  BY <1>0, <1>3 DEF ClaimRead, ClaimWrite, Prepare, Leave, Before, MovesOn
<1>4. CASE SetUp(p) \/ StillOurs(p) \/ Announce(p)
  BY <1>0, <1>4 DEF SetUp, StillOurs, Announce, Goto, disk, Before, MovesOn
<1>5. CASE OpenRead(p) \/ OpenWrite(p)
  BY <1>0, <1>5 DEF OpenRead, OpenWrite, Prepare, Leave, Before, MovesOn
<1>6. CASE NoticeSpent(p) \/ NoticeBoxGone(p) \/ ServeEnds(p) \/ Interrupted(p)
  BY <1>0, <1>6 DEF NoticeSpent, NoticeBoxGone, ServeEnds, Interrupted, Goto, disk, Before,
     MovesOn
<1>7. CASE WindUpRead(p) \/ WindUpWrite(p)
  BY <1>0, <1>7 DEF WindUpRead, WindUpWrite, Prepare, Leave, Before, MovesOn
<1>8. CASE TearDown(p) \/ WriteReceipt(p) \/ Exit(p)
  BY <1>0, <1>8 DEF TearDown, WriteReceipt, Exit, Goto, disk, Before, MovesOn
<1>9. CASE ClearRead(p) \/ ClearDelete(p)
  BY <1>0, <1>9 DEF ClearRead, ClearDelete, Leave, Before, MovesOn
<1>10. CASE HardCheck(p) \/ HardDelete(p)
  BY <1>0, <1>10 DEF HardCheck, HardDelete, Leave, Alive, Before, Ended, MovesOn
<1> QED BY <1>1, <1>2, <1>3, <1>4, <1>5, <1>6, <1>7, <1>8, <1>9, <1>10
        DEF ServeStep, Signalled

LEMMA OpMovesOn ==
  ASSUME TypeInv, Closed, NEW o \in Ops, StartOp(o) \/ OpStep(o)
  PROVE  MovesOn(o)
<1>0. o \in Procs /\ pc \in [Procs -> Labels] /\ removed
  BY DEF Procs, Closed, TypeInv, TypeOK, Labels
<1>1. CASE StartOp(o)
  BY <1>0, <1>1 DEF StartOp
<1>2. CASE StopPeek(o) \/ OpRefused(o) \/ RevokeLook(o) \/ ForceLock(o)
  BY <1>0, <1>2 DEF StopPeek, OpRefused, RevokeLook, ForceLock, Goto, disk, Before, MovesOn
<1>3. CASE GrantRead(o) \/ RevokeRead(o) \/ StopRead(o)
  BY <1>0, <1>3 DEF GrantRead, RevokeRead, StopRead, Prepare, Before, MovesOn
<1>4. CASE OpWrite(o) \/ ForceDelete(o) \/ ForceLook(o)
  BY <1>0, <1>4 DEF OpWrite, ForceDelete, ForceLook, Leave, Before, MovesOn
<1> QED BY <1>1, <1>2, <1>3, <1>4 DEF OpStep

LEMMA VerbMovesOn ==
  ASSUME TypeInv, Closed, NEW v \in Verbs, StartVerb(v) \/ VerbStep(v)
  PROVE  MovesOn(v)
<1>0. v \in Procs /\ pc \in [Procs -> Labels] /\ removed /\ pc[v] # "work"
  BY DEF Procs, Closed, TypeInv, TypeOK, Labels
<1>1. CASE StartVerb(v) \/ VerbWork(v) \/ Erase(v)
  BY <1>0, <1>1 DEF StartVerb, VerbWork, Erase
<1>2. CASE OpenGate(v) \/ TakeGate(v) \/ GateTimesOut(v)
  BY <1>0, <1>2 DEF OpenGate, TakeGate, GateTimesOut, Goto, disk, Before, MovesOn
<1>3. CASE VerbDecide(v)
  BY <1>0, <1>3 DEF VerbDecide, VerbMay, Leave, Before, MovesOn
<1> QED BY <1>1, <1>2, <1>3 DEF VerbStep

LEMMA KillMovesOn ==
  ASSUME TypeInv, Closed, NEW x \in Procs, Kill(x)
  PROVE  MovesOn(x)
  BY DEF Kill, Leave, Closed, TypeInv, TypeOK, Before, MovesOn

(* The race needs a box that is erased, and stays one. *)
LEMMA ClosedStays ==
  ASSUME TypeInv, Closed, [Next]_vars
  PROVE  /\ Closed'
         /\ \/ UNCHANGED pc
            \/ \E x \in Procs : MovesOn(x)
<1>1. ASSUME NEW x \in Procs, MovesOn(x) PROVE Closed'
  BY <1>1 DEF MovesOn, Closed, Procs
<1>2. ASSUME UNCHANGED <<pc, removed>> PROVE Closed'
  BY <1>2 DEF Closed
<1>3. CASE \E p \in Serves : StartShare(p) \/ ServeStep(p) \/ Signalled(p)
  BY <1>1, <1>3, ServeMovesOn DEF Procs
<1>4. CASE \E o \in Ops : StartOp(o) \/ OpStep(o)
  BY <1>1, <1>4, OpMovesOn DEF Procs
<1>5. CASE \E v \in Verbs : StartVerb(v) \/ VerbStep(v)
  BY <1>1, <1>5, VerbMovesOn DEF Procs
<1>6. CASE \/ BoxStops \/ BoxStarts \/ Corrupt
           \/ \E g \in Grants : Expire(g)
           \/ \E p \in Serves : Recycle(p)
  BY <1>2, <1>6 DEF BoxStops, BoxStarts, Corrupt, Expire, Recycle, disk
<1>7. CASE \E x \in Procs : Kill(x)
  BY <1>1, <1>7, KillMovesOn
<1>8. CASE UNCHANGED vars
  BY <1>2, <1>8 DEF vars
<1> QED BY <1>3, <1>4, <1>5, <1>6, <1>7, <1>8 DEF Next, Surroundings

(* The order holds until somebody loses the lock file he waits for; by then *)
(* the box is gone.                                                         *)
OrderSafe == IF old.raced THEN Closed ELSE StopInv /\ OrderInv

LEMMA NextOrderSafe ==
  ASSUME Orderly
  PROVE  TypeInv /\ OrderSafe /\ [Next]_vars => OrderSafe'
<1> SUFFICES ASSUME TypeInv, OrderSafe, [Next]_vars PROVE OrderSafe'
  OBVIOUS
<1>1. CASE old.raced
  <2>1. old'.raced
    BY <1>1, NextMoves DEF OldMoves
  <2>2. Closed'
    BY <1>1, ClosedStays DEF OrderSafe
  <2> QED BY <2>1, <2>2 DEF OrderSafe
<1>2. CASE ~old.raced
  <2>1. StopInv' /\ OrderInv'
    BY <1>2, StepStop, NextOrder DEF OrderSafe
  <2>2. ASSUME old'.raced PROVE Closed'
    <3>1. removed'
      BY <1>2, <2>2, NextMoves DEF OldMoves, Erase
    <3> QED BY <2>1, <3>1 DEF OrderInv, Gatekeeping, Closed
  <2> QED BY <2>1, <2>2 DEF OrderSafe
<1> QED BY <1>1, <1>2

LEMMA OrderInvariant ==
  ASSUME Orderly
  PROVE  Spec => []OrderSafe
<1>1. Init => TypeInv /\ OrderSafe
  BY InitTypes, InitStop, InitOrder DEF OrderSafe, Init, NoRelic
<1>2. TypeInv /\ OrderSafe /\ [Next]_vars => (TypeInv /\ OrderSafe)'
  BY NextTypes, NextOrderSafe
<1> QED BY <1>1, <1>2, PTL DEF Spec

(* A share with an open door is the one the record names, and one that left *)
(* in order took its record with it, with any number of shares, commands    *)
(* and lifecycle commands, kills, removals and restarts of the box, unless  *)
(* somebody was waiting for the lock file `rm` erased.                      *)
THEOREM ServingOwns ==
  ASSUME Orderly
  PROVE  Spec => []ServingOwnsRecord
<1>1. OrderSafe => ServingOwnsRecord
  BY DEF OrderSafe, OrderInv, Gatekeeping, Place, ServingOwnsRecord, Opened, Stage, Doorlike
<1> QED BY <1>1, OrderInvariant, PTL

(* While `apply`, `export` or `rm` is at work on the box no record is live  *)
(* and no door is open, with any number of shares and commands and however  *)
(* the processes are killed: the gate is held from the look to the end.     *)
THEOREM NoDoorUnderVerb ==
  ASSUME Orderly
  PROVE  Spec => []NoShareUnderVerb
<1>1. ASSUME OrderInv, NEW v \in Verbs, pc[v] = "work", NEW p \in Serves, Opened(p)
      PROVE  FALSE
  <2>1. ~removed /\ ~IsLive(rec)
    BY <1>1 DEF OrderInv, Gatekeeping
  <2>2. rec.owner = p
    BY <1>1, <2>1 DEF OrderInv, Place, Ours, Opened, Stage, Doorlike
  <2> QED BY <1>1, <2>1, <2>2 DEF Opened, IsLive, Present, Alive, Ended
<1>2. OrderSafe => NoShareUnderVerb
  BY <1>1 DEF OrderSafe, Closed, OrderInv, Gatekeeping, NoShareUnderVerb
<1> QED BY <1>2, OrderInvariant, PTL

-----------------------------------------------------------------------------
(* Sharing is the abstract door of ShareDoor.                               *)

(* Also orderly: where shares are killed and the box is removed there is    *)
(* one command at most.  A command that read the record of a share that was *)
(* killed writes it back into the emptied directory, over the claim of the  *)
(* next share; a second command that has that claim in hand would put it    *)
(* back.                                                                    *)
Lonely == \A o, u \in Ops : o = u
Unmixed == "kill" \notin Faults \/ "rm" \notin VerbCommands \/ Lonely

(* What a writer knows: it is the only one, and the record it is about to   *)
(* replace is the one it read.                                              *)
Prepared(x) ==
  CASE pc[x] = "claimwrite" -> ~IsLive(rec) /\ seen[x] = Claimed(x)
    [] pc[x] = "openwrite" -> /\ Present(rec) /\ Ours(x) /\ rec.starting /\ ~rec.winding
                              /\ seen[x].owner = x
                              /\ ~seen[x].starting /\ ~seen[x].winding
    [] OTHER -> /\ Present(rec)
                /\ \/ seen[x] = Gone /\ ~IsLive(rec)
                   \/ /\ seen[x].owner = rec.owner /\ seen[x].starting = rec.starting
                      /\ rec.winding => seen[x].winding

(* Or it is the one command, whose lock file was erased with the box.       *)
Leftover(x) == removed /\ "kill" \in Faults /\ Lonely /\ x \in Ops /\ Stray(x)

\* Shares and commands write, each where it does.
Kind(x) == IF pc[x] = "write" THEN x \in Ops ELSE x \in Serves

Opening == {"setup", "check", "open", "openwrite"}

TidyInv ==
  /\ \A x \in Procs : Writer(x) => Kind(x) /\ ((lock = x /\ Prepared(x)) \/ Leftover(x))
  /\ \A p \in Serves : pc[p] \in Opening => removed \/ rec.starting
  /\ "kill" \notin Faults => (Present(rec) => Alive(rec.owner))
  /\ "rm" \notin VerbCommands => \A v \in Verbs : cmd[v] # "rm"

(* What ShareDoor sees.  At most one share stands in the door.              *)
Standing(p) == rec.owner = p /\ Alive(p) /\ ~rec.winding
IsOver(p) == Begun(p) /\ ~Standing(p)
IsOpen(p) == Standing(p) /\ ~rec.starting
Over == {p \in Serves : IsOver(p)}
Now == IF \E p \in Serves : IsOpen(p) THEN rec.owner ELSE NoOne

DoorMoves ==
  \E p \in Serves :
    /\ p \notin Over
    /\ \/ Now = NoOne /\ Now' = p /\ Over' = Over
       \/ /\ Over' = Over \cup {p}
          /\ Now' = IF Now = p THEN NoOne ELSE Now
DoorStep == DoorMoves \/ UNCHANGED <<Now, Over>>

(* A step that moves one share at the door. *)
LEMMA OneAtTheDoor ==
  ASSUME NEW q \in Serves,
         \A p \in Serves \ {q} : (IsOver(p)' <=> IsOver(p)) /\ (IsOpen(p)' <=> IsOpen(p)),
         \/ (IsOver(q)' <=> IsOver(q)) /\ (IsOpen(q)' <=> IsOpen(q))
         \/ ~IsOver(q) /\ IsOver(q)'
         \/ ~IsOver(q) /\ ~IsOver(q)' /\ IsOpen(q)' /\ ~\E p \in Serves : IsOpen(p)
  PROVE  DoorStep
<1>n. NoOne \notin Serves
  BY ProcsAssumption DEF Procs
<1>u. \A p \in Serves : /\ IsOpen(p) => rec.owner = p /\ ~IsOver(p)
                        /\ IsOpen(p)' => rec'.owner = p /\ ~IsOver(p)'
  BY DEF IsOpen, IsOver, Standing
<1>1. CASE (IsOver(q)' <=> IsOver(q)) /\ (IsOpen(q)' <=> IsOpen(q))
  <2>1. \A p \in Serves : (IsOver(p)' <=> IsOver(p)) /\ (IsOpen(p)' <=> IsOpen(p))
    BY <1>1
  <2>2. Over' = Over
    BY <2>1 DEF Over, Now
  <2>3. Now' = Now
    <3>1. CASE \E p \in Serves : IsOpen(p)
      <4> PICK p \in Serves : IsOpen(p)
        BY <3>1
      <4>1. rec.owner = p /\ rec'.owner = p /\ IsOpen(p)'
        BY <1>u, <2>1
      <4> QED BY <4>1 DEF Over, Now
    <3>2. CASE ~\E p \in Serves : IsOpen(p)
      BY <2>1, <3>2 DEF Over, Now
    <3> QED BY <3>1, <3>2
  <2> QED BY <2>2, <2>3 DEF DoorStep
<1>2. CASE ~IsOver(q) /\ IsOver(q)'
  <2>1. q \notin Over /\ Over' = Over \cup {q}
    BY <1>2 DEF Over, Now
  <2>2. Now' = IF Now = q THEN NoOne ELSE Now
    <3>1. CASE \E p \in Serves \ {q} : IsOpen(p)
      <4> PICK p \in Serves \ {q} : IsOpen(p)
        BY <3>1
      <4>1. rec.owner = p /\ rec'.owner = p /\ IsOpen(p)'
        BY <1>u
      <4>2. Now = p /\ Now' = p
        BY <4>1 DEF Over, Now
      <4> QED BY <4>2
    <3>2. CASE ~\E p \in Serves \ {q} : IsOpen(p)
      <4>1. ~\E p \in Serves : IsOpen(p)'
        BY <1>2, <1>u, <3>2
      <4>2. Now' = NoOne
        BY <4>1 DEF Over, Now
      <4>3. Now \in {q, NoOne}
        BY <1>u, <3>2 DEF Over, Now
      <4> QED BY <4>2, <4>3
    <3> QED BY <3>1, <3>2
  <2> QED BY <2>1, <2>2 DEF DoorStep, DoorMoves
<1>3. CASE ~IsOver(q) /\ ~IsOver(q)' /\ IsOpen(q)' /\ ~\E p \in Serves : IsOpen(p)
  <2>1. q \notin Over /\ Over' = Over
    BY <1>3 DEF Over, Now
  <2>2. Now = NoOne /\ Now' = q
    BY <1>3, <1>u DEF Over, Now
  <2> QED BY <2>1, <2>2 DEF DoorStep, DoorMoves
<1> QED BY <1>1, <1>2, <1>3

LEMMA NobodyAtTheDoor ==
  ASSUME \A p \in Serves : (IsOver(p)' <=> IsOver(p)) /\ (IsOpen(p)' <=> IsOpen(p))
  PROVE  DoorStep
<1>1. CASE Serves = {}
  BY <1>1 DEF DoorStep, Over, Now
<1>2. CASE Serves # {}
  <2> PICK q \in Serves : TRUE
    BY <1>2
  <2> QED BY OneAtTheDoor
<1> QED BY <1>1, <1>2

RmKnown(c) == "rm" \notin VerbCommands => \A v \in Verbs : c[v] # "rm"

(* A process moves on and leaves the record as it is. *)
LEMMA MoveTidy ==
  ASSUME TypeInv, StopInv, OrderInv, TidyInv, NEW x \in Procs,
         NEW l \in Labels \ (WriteLabels \cup {"idle"}),
         pc' = [pc EXCEPT ![x] = l],
         UNCHANGED <<rec, seen, removed, recycled>>, RmKnown(cmd'),
         \A y \in Procs \ {x} : lock = y => lock' = y,
         l \in Opening => pc[x] \in Opening,
         x \in Serves => /\ l \in Before => pc[x] \in Before
                         /\ pc[x] \in Ended => l \in Ended
                         /\ l \in Ended => "kill" \in Faults \/ ~Ours(x)
  PROVE  TidyInv' /\ DoorStep
<1>1. pc'[x] = l /\ \A y \in Procs \ {x} : pc'[y] = pc[y]
  BY DEF TypeInv, TypeOK
<1>2. \A p \in Serves : /\ p \in Procs
                        /\ pc[p] \in Ended => pc'[p] \in Ended
                        /\ p # x => (Begun(p)' <=> Begun(p)) /\ (Alive(p)' <=> Alive(p))
  BY <1>1 DEF Procs, Begun, Alive
<1>3. ~IsLive(rec) => ~IsLive(rec)'
  BY <1>2, DeadStays DEF OrderInv, Calm
<1>4. ASSUME NEW y \in Procs, Writer(y)'
      PROVE  /\ Writer(y) /\ (lock = y => lock' = y)
             /\ Prepared(y) => Prepared(y)'
             /\ Leftover(y) => Leftover(y)'
             /\ Kind(y) => Kind(y)'
  <2>1. Writer(y) /\ y # x /\ pc'[y] = pc[y] /\ seen'[y] = seen[y]
    BY <1>1, <1>4 DEF Writer
  <2>2. /\ pc[y] = "claimwrite" /\ Prepared(y) => Prepared(y)'
    BY <1>3, <2>1 DEF Prepared, Claimed, Blank
  <2>3. pc[y] = "openwrite" /\ Prepared(y) => Prepared(y)'
    BY <2>1 DEF Prepared, Present, Ours
  <2>4. pc[y] \notin {"claimwrite", "openwrite"} /\ Prepared(y) => Prepared(y)'
    BY <1>3, <2>1 DEF Prepared, Present
  <2>5. Leftover(y) => Leftover(y)'
    BY <1>2, <2>1 DEF Leftover, Stray, Present
  <2> QED BY <2>1, <2>2, <2>3, <2>4, <2>5 DEF Kind
<1>5. \A y \in Procs : Writer(y)' => Kind(y)' /\ ((lock' = y /\ Prepared(y)') \/ Leftover(y)')
  BY <1>4 DEF TidyInv
<1>6. \A p \in Serves : pc'[p] \in Opening => removed' \/ rec'.starting
  BY <1>1, <1>2 DEF TidyInv
<1>7. "kill" \notin Faults => (Present(rec') => pc'[rec'.owner] \notin Ended \cup {"idle"})
  BY <1>1, <1>2 DEF TidyInv, Present, Alive, Ours
<1>8. TidyInv'
  BY <1>5, <1>6, <1>7 DEF TidyInv, RmKnown, Present, Alive
<1>9. \A p \in Serves \ {x} : (IsOver(p)' <=> IsOver(p)) /\ (IsOpen(p)' <=> IsOpen(p))
  BY <1>2 DEF IsOver, IsOpen, Standing
<1>10. DoorStep
  <2>1. CASE x \notin Serves
    BY <1>9, <2>1, NobodyAtTheDoor
  <2>2. CASE x \in Serves
    <3>1. Begun(x) => Begun(x)'
      BY <1>1, <2>2 DEF Begun, Before
    <3>2. Standing(x) => Begun(x)
      BY <2>2 DEF Standing, StopInv, OwnersBegan, Present
    <3>3. Standing(x)' => Standing(x)
      <4> SUFFICES ASSUME rec.owner = x, pc'[x] \notin Ended, ~rec.winding PROVE Standing(x)
        BY DEF Standing, Alive
      <4>1. Begun(x) /\ pc[x] \notin Ended
        BY <1>2, <2>2 DEF StopInv, OwnersBegan, Present
      <4> QED BY <4>1 DEF Standing, Alive, Begun
    <3>4. IsOver(x) => IsOver(x)'
      BY <3>1, <3>3 DEF IsOver
    <3>5. ~IsOver(x)' => (IsOpen(x)' <=> IsOpen(x))
      BY <3>1, <3>2, <3>3 DEF IsOver, IsOpen, Standing
    <3>6. IsOver(x) => ~IsOpen(x) /\ ~IsOpen(x)'
      BY <3>4 DEF IsOver, IsOpen
    <3> QED BY <1>9, <2>2, <3>4, <3>5, <3>6, OneAtTheDoor
  <2> QED BY <2>1, <2>2
<1> QED BY <1>8, <1>10

(* A process that found the lock free prepares its write. *)
LEMMA ReadTidy ==
  ASSUME TypeInv, StopInv, ~old.raced, OrderInv, TidyInv, NEW x \in Procs, NEW r \in Record,
         NEW l \in WriteLabels,
         Prepare(x, r, l), CanLock(x),
         UNCHANGED <<rec, removed, recycled, cmd>>,
         x \in Serves => pc[x] \notin Ended \cup {"idle"},
         CASE l = "claimwrite" -> x \in Serves /\ pc[x] = "gated" /\ ~IsLive(rec) /\ r = Claimed(x)
           [] l = "openwrite" -> /\ Present(rec) /\ Ours(x) /\ rec.starting /\ ~rec.winding
                                 /\ r.owner = x /\ ~r.starting /\ ~r.winding
                                 /\ pc[x] = "open"
           [] OTHER -> /\ Present(rec)
                       /\ \/ r = Gone /\ ~IsLive(rec)
                          \/ /\ r.owner = rec.owner /\ r.starting = rec.starting
                             /\ rec.winding => r.winding
         ,
         x \in Serves /\ l # "claimwrite" => Begun(x),
         IF l = "write" THEN x \in Ops ELSE x \in Serves
  PROVE  TidyInv' /\ DoorStep
<1>1. /\ pc'[x] = l /\ \A y \in Procs \ {x} : pc'[y] = pc[y]
      /\ seen'[x] = r /\ \A y \in Procs \ {x} : seen'[y] = seen[y]
      /\ lock = NoOne /\ lock' = x
  BY OneLock DEF Prepare, TypeInv, TypeOK
<1>l. l \notin Ended /\ l # "idle" /\ (l \in Before => l = "claimwrite") /\ (l \in Opening => l = "openwrite")
  BY DEF WriteLabels, Ended, Before, Opening
<1>2. \A p \in Serves : /\ p \in Procs
                        /\ pc[p] \in Ended => pc'[p] \in Ended
                        /\ Begun(p)' <=> Begun(p)
                        /\ Alive(p)' <=> Alive(p)
  BY <1>1, <1>l DEF Procs, Begun, Alive, Before
<1>3. ~IsLive(rec) => ~IsLive(rec)'
  BY <1>2, DeadStays DEF OrderInv, Calm
<1>4. \A y \in Procs : lock # y
  BY <1>1, ProcsAssumption
<1>5. ASSUME NEW y \in Procs, Writer(y)', y # x PROVE Leftover(y)' /\ Kind(y)'
  <2>1. Leftover(y) /\ Kind(y) /\ pc'[y] = pc[y] /\ seen'[y] = seen[y]
    BY <1>1, <1>4, <1>5 DEF Writer, TidyInv
  <2> QED BY <1>2, <2>1 DEF Leftover, Stray, Present, Kind
<1>k. Kind(x)'
  BY <1>1 DEF Kind
<1>6. Prepared(x)'
  <2>1. CASE l = "claimwrite"
    BY <1>1, <1>3, <2>1 DEF Prepared, Claimed, Blank
  <2>2. CASE l = "openwrite"
    BY <1>1, <2>2 DEF Prepared, Present, Ours
  <2>3. CASE l \notin {"claimwrite", "openwrite"}
    BY <1>1, <1>3, <2>3 DEF Prepared, Present
  <2> QED BY <2>1, <2>2, <2>3
<1>7. ASSUME NEW p \in Serves, pc'[p] \in Opening PROVE removed' \/ rec'.starting
  <2>1. CASE p = x
    BY <1>1, <1>7, <1>l, <2>1
  <2>2. CASE p # x
    BY <1>1, <1>2, <1>7, <2>2 DEF TidyInv
  <2> QED BY <2>1, <2>2
<1>8. TidyInv'
  BY <1>1, <1>2, <1>5, <1>6, <1>7, <1>k DEF TidyInv, Present, Alive
<1>9. DoorStep
  BY <1>2, NobodyAtTheDoor DEF IsOver, IsOpen, Standing
<1> QED BY <1>8, <1>9

(* A process writes what it prepared and leaves the lock. *)
LEMMA WriteAsRead ==
  ASSUME TypeInv, StopInv, OrderInv, TidyInv, NEW x \in Procs,
         NEW l \in {"setup", "announce", "teardown", "look", "done"},
         Writer(x), rec' = seen[x], Leave(x, l),
         UNCHANGED <<removed, recycled, cmd, seen>>,
         l = "setup" <=> pc[x] = "claimwrite",
         pc[x] \in {"claimwrite", "openwrite"} => x \in Serves,
         lock = x, Prepared(x)
  PROVE  TidyInv' /\ DoorStep
<1>1. /\ pc'[x] = l /\ \A y \in Procs \ {x} : pc'[y] = pc[y]
      /\ lock = x /\ Prepared(x)
  BY DEF Leave, TypeInv, TypeOK
<1>l. /\ l \notin WriteLabels /\ l \notin Ended /\ l # "idle" /\ l \notin Before
      /\ (l \in Opening => l = "setup")
      /\ pc[x] \notin Ended /\ pc[x] # "idle" /\ (pc[x] \in Before => l = "setup")
  BY DEF WriteLabels, Ended, Before, Opening, Writer
<1>2. \A p \in Serves : /\ p \in Procs
                        /\ Alive(p)' <=> Alive(p)
                        /\ p # x \/ l # "setup" => (Begun(p)' <=> Begun(p))
                        /\ pc'[p] \in Opening => \/ p = x /\ l = "setup"
                                                 \/ p # x /\ pc[p] \in Opening
  BY <1>1, <1>l DEF Procs, Begun, Alive, Before
<1>e. \A p \in Serves : pc[p] \in Ended => pc'[p] \in Ended
  BY <1>1, <1>l DEF Procs
<1>3. ASSUME NEW y \in Procs, Writer(y)' PROVE Leftover(y)' /\ Kind(y)'
  <2>1. Leftover(y) /\ Kind(y) /\ pc'[y] = pc[y] /\ seen'[y] = seen[y]
    BY <1>1, <1>3, <1>l DEF Writer, TidyInv
  <2> QED BY <1>e, <2>1 DEF Leftover, Stray, Present, Kind
<1>n. NoOne \notin Serves
  BY ProcsAssumption DEF Procs
<1>u. \A p \in Serves : /\ Standing(p) => IsLive(rec)
                        /\ Standing(p) <=> rec.owner = p /\ Alive(p) /\ ~rec.winding
                        /\ Standing(p)' <=> rec'.owner = p /\ Alive(p) /\ ~rec'.winding
  BY <1>2 DEF Standing, IsLive, Present
<1>r. \A p \in Serves : pc[p] \in Opening => removed \/ (Ours(p) /\ rec.starting /\ IsLive(rec))
  <2> TAKE p \in Serves
  <2>1. Place(p)
    BY DEF OrderInv
  <2> QED BY <2>1 DEF Place, TidyInv, Opening, Stage, Doorlike, IsLive, Present, Alive, Ended, Ours
<1>c. "rm" \notin VerbCommands => \A v \in Verbs : cmd'[v] # "rm"
  BY DEF TidyInv
<1>4. CASE pc[x] = "claimwrite"
  <2>1. /\ rec'.owner = x /\ rec'.starting /\ ~rec'.winding
        /\ ~IsLive(rec) /\ x \in Serves /\ l = "setup"
    BY <1>1, <1>4 DEF Prepared, Claimed, Blank
  <2>2. Alive(x)'
    BY <1>1, <1>l DEF Alive
  <2>3. TidyInv'
    BY <1>2, <1>3, <1>c, <1>r, <2>1, <2>2 DEF TidyInv, Present
  <2>4. ~Begun(x)
    BY <1>4 DEF Begun
  <2>5. \A p \in Serves : (IsOver(p)' <=> IsOver(p)) /\ ~IsOpen(p)' /\ ~IsOpen(p)
    BY <1>2, <1>u, <2>1, <2>2, <2>4 DEF IsOver, IsOpen
  <2> QED BY <2>3, <2>5, NobodyAtTheDoor
<1>5. CASE pc[x] = "openwrite"
  <2>1. /\ rec'.owner = x /\ ~rec'.starting /\ ~rec'.winding /\ x \in Serves
        /\ rec.owner = x /\ rec.starting /\ ~rec.winding /\ l # "setup"
    BY <1>1, <1>5 DEF Prepared, Ours
  <2>2. Alive(x) /\ Alive(x)'
    BY <1>1, <1>2, <1>l, <2>1 DEF Alive
  <2>3. \A p \in Serves : pc'[p] \in Opening => removed'
    BY <1>2, <1>r, <2>1 DEF Ours
  <2>4. TidyInv'
    BY <1>3, <1>c, <2>1, <2>2, <2>3 DEF TidyInv, Present
  <2>5. \A p \in Serves \ {x} : (IsOver(p)' <=> IsOver(p)) /\ ~IsOpen(p)' /\ ~IsOpen(p)
    BY <1>2, <1>u, <2>1 DEF IsOver, IsOpen
  <2>6. ~IsOver(x) /\ ~IsOver(x)' /\ IsOpen(x)' /\ ~IsOpen(x)
    BY <1>u, <2>1, <2>2 DEF IsOver, IsOpen
  <2> QED BY <2>1, <2>4, <2>5, <2>6, OneAtTheDoor
<1>6. CASE pc[x] \notin {"claimwrite", "openwrite"}
  <2>0. l # "setup" /\ \A p \in Serves : Begun(p)' <=> Begun(p)
    BY <1>2, <1>6
  <2>1. CASE seen[x] = Gone /\ ~IsLive(rec)
    <3>1. rec'.owner = NoOne
      BY <2>1 DEF Gone, Blank
    <3>2. \A p \in Serves : pc'[p] \in Opening => removed'
      BY <1>2, <1>r, <2>0, <2>1
    <3>3. TidyInv'
      BY <1>3, <1>c, <1>n, <3>1, <3>2 DEF TidyInv, Present
    <3>4. \A p \in Serves : (IsOver(p)' <=> IsOver(p)) /\ ~IsOpen(p)' /\ ~IsOpen(p)
      BY <1>u, <1>n, <2>0, <2>1, <3>1 DEF IsOver, IsOpen
    <3> QED BY <3>3, <3>4, NobodyAtTheDoor
  <2>2. CASE ~(seen[x] = Gone /\ ~IsLive(rec))
    <3>1. /\ rec'.owner = rec.owner /\ rec'.starting = rec.starting
          /\ rec.winding => rec'.winding
          /\ rec.owner \in Serves
      BY <1>1, <1>6, <2>2 DEF Prepared, Present
    <3>2. \A p \in Serves : pc'[p] \in Opening => removed' \/ rec'.starting
      BY <1>2, <1>r, <2>0, <3>1
    <3> PICK q \in Serves : q = rec.owner
      BY <3>1
    <3>3. "kill" \notin Faults => Alive(q)'
      BY <1>2, <3>1 DEF TidyInv, Present
    <3>4. TidyInv'
      BY <1>3, <1>c, <3>1, <3>2, <3>3 DEF TidyInv
    <3>5. \A p \in Serves \ {q} : (IsOver(p)' <=> IsOver(p)) /\ ~IsOpen(p)' /\ ~IsOpen(p)
      BY <1>u, <2>0, <3>1 DEF IsOver, IsOpen
    <3>6. (Begun(q)' <=> Begun(q)) /\ Begun(q) /\ (Standing(q)' => Standing(q))
      BY <1>u, <2>0, <3>1 DEF StopInv, OwnersBegan, Present
    <3>7. /\ IsOver(q) => IsOver(q)' /\ ~IsOpen(q) /\ ~IsOpen(q)'
          /\ ~IsOver(q)' => (IsOpen(q)' <=> IsOpen(q))
      BY <3>1, <3>6 DEF IsOver, IsOpen
    <3> QED BY <3>4, <3>5, <3>7, OneAtTheDoor
  <2> QED BY <2>1, <2>2
<1> QED BY <1>4, <1>5, <1>6

(* The one command brings a dead record back after `rm`: who stood at the   *)
(* door, not yet in it, is over.                                            *)
LEMMA WriteLeftover ==
  ASSUME TypeInv, StopInv, OrderInv, TidyInv, NEW x \in Procs, NEW l \in {"look", "done"},
         Writer(x), rec' = seen[x], Leave(x, l), Leftover(x),
         UNCHANGED <<removed, recycled, cmd, seen>>
  PROVE  TidyInv' /\ DoorStep
<1>1. /\ pc'[x] = l /\ \A y \in Procs \ {x} : pc'[y] = pc[y]
      /\ \A y \in Procs \ {x} : lock = y => lock' = y
      /\ removed /\ removed' /\ "kill" \in Faults
      /\ x \notin Serves
  BY ProcsAssumption DEF Leave, Freed, TypeInv, TypeOK, Leftover
<1>2. \A p \in Serves : /\ p \in Procs /\ pc'[p] = pc[p]
                        /\ Alive(p)' <=> Alive(p)
                        /\ Begun(p)' <=> Begun(p)
  BY <1>1 DEF Procs, Begun, Alive
<1>3. ~IsLive(rec') /\ ~IsLive(rec)' /\ \A p \in Serves : ~Standing(p)'
  <2>1. Present(rec') => pc'[rec'.owner] \in Ended
    BY <1>2 DEF Leftover, Stray, Present
  <2>2. recycled = {} /\ recycled' = {}
    BY DEF OrderInv, Calm
  <2>3. \A p \in Serves : rec'.owner = p => pc'[p] \in Ended
    BY <2>1 DEF Present
  <2> QED BY <1>2, <2>2, <2>3 DEF IsLive, Present, Alive, Standing
<1>4. ASSUME NEW y \in Procs, Writer(y)'
      PROVE  Kind(y)' /\ ((lock' = y /\ Prepared(y)') \/ Leftover(y)')
  <2>1. Writer(y) /\ y # x /\ pc'[y] = pc[y] /\ seen'[y] = seen[y] /\ Kind(y)
    BY <1>1, <1>4 DEF Writer, WriteLabels, TidyInv
  <2>2. CASE Leftover(y)
    BY <1>2, <2>1, <2>2 DEF Leftover, Stray, Present, Kind
  <2>3. CASE lock = y /\ Prepared(y)
    <3>1. y \notin Ops
      BY <2>1 DEF Leftover, Lonely
    <3>2. y \in Serves /\ pc[y] \notin Doorlike /\ pc[y] # "write"
      BY <1>1, <2>1, <3>1 DEF OrderInv, Gatekeeping, Kind
    <3>3. pc[y] = "claimwrite"
      BY <2>1, <3>2 DEF Writer, WriteLabels, Doorlike
    <3>4. seen[y] = Claimed(y)
      BY <2>3, <3>3 DEF Prepared
    <3>5. Prepared(y)'
      BY <1>3, <2>1, <3>3, <3>4 DEF Prepared, Claimed, Blank
    <3> QED BY <1>1, <2>1, <2>3, <3>5 DEF Kind
  <2> QED BY <2>1, <2>2, <2>3 DEF TidyInv
<1>5. TidyInv'
  BY <1>1, <1>4 DEF TidyInv
<1>6. \A q \in Serves : Standing(q) => rec.owner = q /\ Begun(q)
  BY DEF Standing, StopInv, OwnersBegan, Present
<1>7. CASE \E q \in Serves : Standing(q)
  <2> PICK q \in Serves : Standing(q)
    BY <1>7
  <2>1. \A p \in Serves \ {q} : (IsOver(p)' <=> IsOver(p)) /\ (IsOpen(p)' <=> IsOpen(p))
    BY <1>2, <1>3, <1>6 DEF IsOver, IsOpen
  <2>2. ~IsOver(q) /\ IsOver(q)'
    BY <1>2, <1>3, <1>6 DEF IsOver
  <2> QED BY <1>5, <2>1, <2>2, OneAtTheDoor
<1>8. CASE ~\E q \in Serves : Standing(q)
  <2>1. \A p \in Serves : (IsOver(p)' <=> IsOver(p)) /\ (IsOpen(p)' <=> IsOpen(p))
    BY <1>2, <1>3, <1>8 DEF IsOver, IsOpen
  <2> QED BY <1>5, <2>1, NobodyAtTheDoor
<1> QED BY <1>7, <1>8

LEMMA WriteTidy ==
  ASSUME TypeInv, StopInv, OrderInv, TidyInv, NEW x \in Procs,
         NEW l \in {"setup", "announce", "teardown", "look", "done"},
         Writer(x), rec' = seen[x], Leave(x, l),
         UNCHANGED <<removed, recycled, cmd, seen>>,
         l = "setup" <=> pc[x] = "claimwrite",
         pc[x] \in {"claimwrite", "openwrite"} => x \in Serves,
         x \in Ops => l \in {"look", "done"}
  PROVE  TidyInv' /\ DoorStep
<1>1. CASE lock = x /\ Prepared(x)
  BY <1>1, WriteAsRead
<1>2. CASE Leftover(x)
  BY <1>2, WriteLeftover DEF Leftover
<1> QED BY <1>1, <1>2 DEF TidyInv

(* A share takes its own record away. *)
LEMMA ClearTidy ==
  ASSUME TypeInv, StopInv, OrderInv, TidyInv, NEW p \in Serves, ClearDelete(p)
  PROVE  TidyInv' /\ DoorStep
<1>0. /\ p \in Procs /\ UNCHANGED <<removed, recycled, seen, cmd>>
      /\ pc[p] = "cleardelete" /\ lock = p /\ rec'.owner = NoOne /\ NoOne \notin Serves
  BY ProcsAssumption DEF ClearDelete, Procs, OrderInv, Place, world, local, Gone, Blank
<1>1. /\ pc'[p] = "leaving" /\ \A y \in Procs \ {p} : pc'[y] = pc[y]
  BY <1>0 DEF ClearDelete, Leave, TypeInv, TypeOK
<1>2. \A q \in Serves : /\ q \in Procs
                        /\ Alive(q)' <=> Alive(q)
                        /\ Begun(q)' <=> Begun(q)
                        /\ pc'[q] \in Opening => q # p /\ pc[q] \in Opening
  BY <1>0, <1>1 DEF Procs, Begun, Alive, Ended, Opening
<1>3. ASSUME NEW y \in Procs, Writer(y)' PROVE Leftover(y)' /\ Kind(y)'
  <2>1. Leftover(y) /\ Kind(y) /\ pc'[y] = pc[y] /\ seen'[y] = seen[y]
    BY <1>0, <1>1, <1>3 DEF Writer, WriteLabels, TidyInv
  <2>2. \A q \in Serves : pc[q] \in Ended => pc'[q] \in Ended
    BY <1>0, <1>1 DEF Ended, Procs
  <2> QED BY <1>0, <2>1, <2>2 DEF Leftover, Stray, Present, Kind
<1>4. removed \/ rec.owner = p
  BY <1>0 DEF OrderInv, Place, Stage, Ours
<1>5. \A q \in Serves : pc[q] \in Opening => removed \/ rec.owner = q
  BY DEF OrderInv, Place, Opening, Stage, Doorlike, Ours
<1>6. TidyInv'
  BY <1>0, <1>2, <1>3, <1>4, <1>5 DEF TidyInv, Present
<1>7. \A q \in Serves : ~Standing(q)' /\ ~IsOpen(q)'
  BY <1>0 DEF Standing, IsOpen
<1>8. \A q \in Serves : Standing(q) => rec.owner = q /\ Begun(q) /\ IsLive(rec)
  BY DEF Standing, StopInv, OwnersBegan, Present, IsLive
<1>9. CASE \E q \in Serves : Standing(q)
  <2> PICK q \in Serves : Standing(q)
    BY <1>9
  <2>1. \A r \in Serves \ {q} : ~Standing(r)
    BY <1>8
  <2>2. \A r \in Serves \ {q} : (IsOver(r)' <=> IsOver(r)) /\ (IsOpen(r)' <=> IsOpen(r))
    BY <1>2, <1>7, <2>1 DEF IsOver, IsOpen
  <2>3. ~IsOver(q) /\ IsOver(q)'
    BY <1>2, <1>7, <1>8 DEF IsOver
  <2> QED BY <1>6, <2>2, <2>3, OneAtTheDoor
<1>10. CASE ~\E q \in Serves : Standing(q)
  <2>1. \A q \in Serves : (IsOver(q)' <=> IsOver(q)) /\ (IsOpen(q)' <=> IsOpen(q))
    BY <1>2, <1>7, <1>10 DEF IsOver, IsOpen
  <2> QED BY <1>6, <2>1, NobodyAtTheDoor
<1> QED BY <1>9, <1>10

(* `rm` erases a box that nobody shares. *)
LEMMA EraseFindsNobody ==
  ASSUME OrderInv, NEW v \in Verbs, Erase(v), NEW p \in Serves
  PROVE  (Begun(p)' <=> Begun(p)) /\ ~Standing(p) /\ ~Standing(p)'
<1>1. /\ rec'.owner = NoOne /\ NoOne \notin Serves /\ p # v /\ p \in Procs
      /\ \A y \in Procs : pc'[y] = IF y = v THEN "done"
                                   ELSE IF pc[y] = "gatewait" THEN "gatelost" ELSE pc[y]
  BY ProcsAssumption DEF Erase, Gone, Blank, Procs
<1>2. rec.owner = p => ~Alive(p)
  BY DEF Erase, OrderInv, Gatekeeping, IsLive, Present
<1> QED BY <1>1, <1>2 DEF Begun, Standing

LEMMA EraseTidy ==
  ASSUME Unmixed, TypeInv, StopInv, OrderInv, TidyInv, NEW v \in Verbs, Erase(v)
  PROVE  TidyInv' /\ DoorStep
<1>0. /\ v \in Procs /\ v \notin Serves
      /\ UNCHANGED <<seen, cmd>>
      /\ pc[v] = "work" /\ cmd[v] = "rm"
      /\ rec'.owner = NoOne /\ removed' /\ NoOne \notin Serves
  BY ProcsAssumption DEF Erase, Procs, OrderInv, Calm, world, local, Gone, Blank
<1>1. \A y \in Procs : pc'[y] = IF y = v THEN "done"
                                ELSE IF pc[y] = "gatewait" THEN "gatelost" ELSE pc[y]
  BY DEF Erase
<1>2. ~removed /\ ~IsLive(rec) /\ gate = v
  BY <1>0 DEF OrderInv, Gatekeeping, AtGate
<1>3. \A p \in Serves : rec.owner = p => ~Alive(p)
  BY <1>2 DEF IsLive, Present
<1>4. ASSUME NEW y \in Procs, Writer(y)' PROVE Leftover(y)' /\ Kind(y)'
  <2>1. Writer(y) /\ y # v /\ pc'[y] = pc[y] /\ seen'[y] = seen[y] /\ Kind(y)
    BY <1>0, <1>1, <1>4 DEF Writer, WriteLabels, TidyInv
  <2>2. lock = y /\ Prepared(y)
    BY <1>2, <2>1 DEF TidyInv, Leftover
  <2>3. pc[y] # "claimwrite"
    BY <1>2, <2>1 DEF OrderInv, Gatekeeping, AtGate
  <2>4. ASSUME pc[y] # "write" PROVE FALSE
    <3>1. pc[y] \in {"openwrite", "windwrite"} /\ y \in Serves
      BY <2>1, <2>3, <2>4 DEF Writer, WriteLabels, Kind
    <3>2. rec.owner = y
      BY <1>2, <3>1 DEF OrderInv, Place, Stage, Doorlike, Ours
    <3> QED BY <1>3, <3>1, <3>2 DEF Alive, Ended
  <2>5. y \in Ops /\ pc[y] = "write"
    BY <2>1, <2>4 DEF Kind
  <2>6. Present(rec) /\ (seen[y] = Gone \/ seen[y].owner = rec.owner)
    BY <2>2, <2>5 DEF Prepared
  <2>7. "kill" \in Faults
    BY <1>3, <2>6 DEF TidyInv, Present
  <2>8. Lonely
    BY <1>0, <2>7 DEF TidyInv, Unmixed
  <2>9. PICK q \in Serves : q = rec.owner
    BY <2>6 DEF Present
  <2>10. pc[q] \in Ended /\ q # v /\ q \in Procs
    BY <1>0, <1>3, <2>6, <2>9 DEF StopInv, OwnersBegan, Present, Alive, Begun, Procs
  <2>11. pc'[q] \in Ended
    BY <1>1, <2>10 DEF Ended
  <2>12. Stray(y)'
    BY <1>0, <2>1, <2>3, <2>6, <2>9, <2>11 DEF Stray, Present, Gone, Blank
  <2> QED BY <1>0, <2>1, <2>5, <2>7, <2>8, <2>12 DEF Leftover, Kind
<1>5. TidyInv'
  BY <1>0, <1>4 DEF TidyInv, Present
<1>6. \A p \in Serves : /\ Begun(p)' <=> Begun(p)
                        /\ ~Standing(p) /\ ~Standing(p)'
  BY EraseFindsNobody
<1>7. \A p \in Serves : (IsOver(p)' <=> IsOver(p)) /\ (IsOpen(p)' <=> IsOpen(p))
  BY <1>6 DEF IsOver, IsOpen
<1> QED BY <1>5, <1>7, NobodyAtTheDoor

(* Every action keeps the record tidy and is a step at the door.            *)

LEMMA StillTidy ==
  ASSUME TypeInv, TidyInv, UNCHANGED <<disk, recycled, pc, seen, cmd>>
  PROVE  TidyInv' /\ DoorStep
<1>1. UNCHANGED <<rec, lock, removed>>
  BY DEF disk
<1>2. ASSUME NEW y \in Procs, Writer(y)'
      PROVE  Kind(y)' /\ ((lock' = y /\ Prepared(y)') \/ Leftover(y)')
  <2>k. Kind(y) /\ Kind(y)'
    BY <1>2 DEF TidyInv, Writer, Kind
  <2>1. CASE lock = y /\ Prepared(y)
    BY <1>1, <2>k, <2>1 DEF Prepared, Present, IsLive, Alive, Ours, Claimed, Blank
  <2>2. CASE Leftover(y)
    BY <1>1, <2>k, <2>2 DEF Leftover, Stray, Present
  <2> QED BY <1>2, <2>1, <2>2 DEF TidyInv, Writer
<1>3. TidyInv'
  BY <1>1, <1>2 DEF TidyInv, Present, Alive
<1>4. DoorStep
  BY <1>1, NobodyAtTheDoor DEF IsOver, IsOpen, Standing, Begun, Alive
<1> QED BY <1>3, <1>4

LEMMA GateTidy ==
  ASSUME TypeInv, StopInv, OrderInv, TidyInv, NEW x \in Procs,
         OpenGate(x) \/ TakeGate(x) \/ GateTimesOut(x)
  PROVE  TidyInv' /\ DoorStep
<1>1. UNCHANGED <<rec, lock, removed, recycled, seen, cmd>> /\ RmKnown(cmd')
  BY DEF OpenGate, TakeGate, GateTimesOut, disk, world, local, RmKnown, TidyInv
<1>2. PICK l \in {"gatewait", "gated", "refused", "done"} : pc' = [pc EXCEPT ![x] = l]
  BY DEF OpenGate, TakeGate, GateTimesOut, Goto
<1>3. pc[x] \in Before
  BY DEF OpenGate, TakeGate, GateTimesOut, Goto, Before
<1>4. /\ l \in Labels \ (WriteLabels \cup {"idle"}) /\ l \notin Opening
      /\ pc[x] \notin Ended
      /\ x \in Serves => ~Ours(x)
  <2>1. x \in Serves => ~Begun(x)
    BY <1>3 DEF Begun, Before
  <2> QED BY <1>2, <1>3, <2>1 DEF Labels, PcServe, PcVerb, Ended, WriteLabels, Opening, Before,
          StopInv, OwnersBegan, Present, Ours
<1> QED BY <1>1, <1>2, <1>3, <1>4, MoveTidy

LEMMA OpenTidy ==
  ASSUME Orderly, TypeInv, StopInv, ~old.raced, OrderInv, TidyInv, NEW p \in Serves,
         \/ StartShare(p) \/ ClaimRead(p) \/ ClaimWrite(p) \/ SetUp(p) \/ StillOurs(p)
         \/ OpenRead(p) \/ OpenWrite(p) \/ Announce(p)
  PROVE  TidyInv' /\ DoorStep
<1>0. p \in Procs /\ p \notin Ops /\ RmKnown(cmd)
  BY ProcsAssumption DEF Procs, RmKnown, TidyInv
<1>o. pc[p] \in Before => ~Ours(p)
  BY DEF Before, Begun, StopInv, OwnersBegan, Present, Ours
<1>1. CASE StartShare(p) \/ (ClaimRead(p) /\ Leave(p, "refused") /\ UNCHANGED seen)
  <2>1. /\ UNCHANGED <<rec, removed, recycled, seen, cmd>>
        /\ pc[p] \in {"idle", "gated"}
        /\ \A y \in Procs \ {p} : lock = y => lock' = y
    BY <1>1 DEF StartShare, ClaimRead, Leave, Freed, Goto, disk, world, local
  <2>2. PICK l \in {"refused", "opengate"} : pc' = [pc EXCEPT ![p] = l]
    BY <1>1 DEF StartShare, Leave, Goto
  <2>3. /\ pc[p] \in Before /\ pc[p] \notin Ended
        /\ l \in Labels \ (WriteLabels \cup {"idle"}) /\ l \notin Opening
    BY <2>1, <2>2 DEF Before, Ended, Labels, PcServe, WriteLabels, Opening
  <2> QED BY <1>0, <1>o, <2>1, <2>2, <2>3, MoveTidy
<1>2. CASE ClaimRead(p) /\ ~(Leave(p, "refused") /\ UNCHANGED seen)
  <2>1. /\ CanLock(p) /\ ~IsLive(rec) /\ Prepare(p, Claimed(p), "claimwrite")
        /\ UNCHANGED <<rec, removed, recycled, cmd>> /\ pc[p] = "gated"
    BY <1>2 DEF ClaimRead, ClaimMay, world, local
  <2>2. Claimed(p) \in Record /\ "claimwrite" \in WriteLabels /\ pc[p] \notin Ended \cup {"idle"}
    BY <2>1, RecordTypes DEF WriteLabels, Ended
  <2> QED BY <1>0, <2>1, <2>2, ReadTidy
<1>3. CASE ClaimWrite(p) \/ OpenWrite(p)
  <2>1. /\ Writer(p) /\ rec' = seen[p] /\ UNCHANGED <<removed, recycled, cmd, seen>>
    BY <1>3 DEF ClaimWrite, OpenWrite, WriteBack, Writer, WriteLabels, world, local
  <2>2. PICK l \in {"setup", "announce"} : Leave(p, l) /\ (l = "setup" <=> pc[p] = "claimwrite")
    BY <1>3 DEF ClaimWrite, OpenWrite
  <2> QED BY <1>0, <2>1, <2>2, WriteTidy
<1>4. CASE SetUp(p) \/ StillOurs(p) \/ Announce(p)
           \/ (OpenRead(p) /\ pc' = [pc EXCEPT ![p] = "clear"] /\ GiveUp(p) /\ UNCHANGED <<seen, minted>>)
  <2>1. /\ UNCHANGED <<rec, lock, removed, recycled, seen, cmd>>
        /\ pc[p] \in Opening \cup {"announce"}
    BY <1>4 DEF SetUp, StillOurs, Announce, OpenRead, GiveUp, Goto, disk, world, local, Opening
  <2>2. PICK l \in {"check", "clear", "open", "serving"} :
          /\ pc' = [pc EXCEPT ![p] = l]
          /\ l \in Opening => pc[p] \in Opening
    BY <1>4 DEF SetUp, StillOurs, Announce, OpenRead, Goto, Opening
  <2>3. /\ l \in Labels \ (WriteLabels \cup {"idle"}) /\ l \notin Before /\ l \notin Ended
        /\ pc[p] \notin Ended
    BY <2>1, <2>2 DEF Labels, PcServe, WriteLabels, Before, Ended, Opening
  <2> QED BY <1>0, <2>1, <2>2, <2>3, MoveTidy
<1>5. CASE OpenRead(p) /\ ~(pc' = [pc EXCEPT ![p] = "clear"] /\ GiveUp(p) /\ UNCHANGED <<seen, minted>>)
  <2>1. PICK g \in Grants :
          Prepare(p, [rec EXCEPT !.starting = FALSE, !.grants = @ \cup {g}], "openwrite")
    BY <1>5 DEF OpenRead
  <2>2. /\ CanLock(p) /\ rec.owner = p /\ ~rec.winding /\ pc[p] = "open"
        /\ UNCHANGED <<rec, removed, recycled, cmd>>
    BY <1>5 DEF OpenRead, OpenMay, Ours, local
  <2> DEFINE r == [rec EXCEPT !.starting = FALSE, !.grants = @ \cup {g}]
  <2>3. r \in Record /\ r.owner = rec.owner /\ r.winding = rec.winding /\ ~r.starting
    BY EditTypes DEF TypeInv, TypeOK, Record
  <2>4. Prepare(p, r, "openwrite") /\ "openwrite" \in WriteLabels
    BY <2>1 DEF WriteLabels
  <2> HIDE DEF r
  <2>5. rec.starting /\ Present(rec) /\ Begun(p) /\ pc[p] \notin Ended \cup {"idle"}
    BY <2>2 DEF TidyInv, OrderInv, Gatekeeping, Doorlike, Opening, Present, Begun, Ended
  <2> QED BY <1>0, <2>2, <2>3, <2>4, <2>5, ReadTidy DEF Ours
<1> QED BY <1>1, <1>2, <1>3, <1>4, <1>5

LEMMA ServeTidy ==
  ASSUME Orderly, TypeInv, StopInv, ~old.raced, OrderInv, TidyInv, NEW p \in Serves,
         \/ NoticeSpent(p) \/ NoticeBoxGone(p) \/ ServeEnds(p) \/ Interrupted(p)
         \/ WindUpRead(p) \/ WindUpWrite(p) \/ TearDown(p) \/ WriteReceipt(p)
         \/ ClearRead(p) \/ ClearDelete(p) \/ Exit(p) \/ HardCheck(p) \/ HardDelete(p)
  PROVE  TidyInv' /\ DoorStep
<1>0. /\ p \in Procs /\ p \notin Ops /\ signal[p] = "none" /\ Place(p)
      /\ RmKnown(cmd) /\ "signal" \notin Faults
  BY ProcsAssumption DEF Procs, OrderInv, Calm, TidyInv, RmKnown, Orderly
<1>1. CASE \/ NoticeSpent(p) \/ NoticeBoxGone(p) \/ ServeEnds(p) \/ TearDown(p)
           \/ WriteReceipt(p) \/ ClearRead(p) \/ Exit(p)
  <2>1. /\ UNCHANGED <<rec, removed, recycled, seen, cmd>>
        /\ \A y \in Procs \ {p} : lock = y => lock' = y
    BY <1>0, <1>1, OneLock, ProcsAssumption DEF NoticeSpent, NoticeBoxGone, ServeEnds, TearDown, WriteReceipt,
       ClearRead, GiveUp, Exit, Goto, disk, world, local
  <2>2. PICK l \in {"windup", "receipt", "clear", "cleardelete", "leaving", "exited"} :
          /\ pc' = [pc EXCEPT ![p] = l] /\ pc[p] \notin Ended
          /\ l = "exited" => pc[p] = "leaving"
    BY <1>1 DEF NoticeSpent, NoticeBoxGone, ServeEnds, TearDown, WriteReceipt, ClearRead,
       Exit, Goto, Ended
  <2>3. /\ l \in Labels \ (WriteLabels \cup {"idle"}) /\ l \notin Opening \cup Before
        /\ l \in Ended => ~Ours(p)
    BY <1>0, <2>2 DEF Labels, PcServe, WriteLabels, Ended, Opening, Before, Place
  <2> QED BY <1>0, <2>1, <2>2, <2>3, MoveTidy
<1>2. CASE WindUpRead(p)
  <2>0. UNCHANGED <<rec, removed, recycled, cmd>> /\ pc[p] = "windup" /\ pc[p] \notin Ended
    BY <1>2 DEF WindUpRead, world, Ended
  <2>1. CASE CanLock(p) /\ Present(rec) /\ Prepare(p, Mark(p), "windwrite")
    <3>1. /\ Mark(p) \in Record /\ Mark(p).owner = rec.owner /\ Mark(p).starting = rec.starting
          /\ rec.winding => Mark(p).winding
      BY DEF Mark, Record, TypeInv, TypeOK
    <3>2. "windwrite" \in WriteLabels /\ Begun(p) /\ pc[p] # "idle"
      BY <2>0 DEF WriteLabels, Begun
    <3> QED BY <1>0, <2>0, <2>1, <3>1, <3>2, ReadTidy
  <2>2. CASE GiveUp(p) /\ UNCHANGED seen /\ \E l \in {"windup", "teardown"} : pc' = [pc EXCEPT ![p] = l]
    BY <1>0, <2>0, <2>2, MoveTidy DEF GiveUp, Labels, PcServe, WriteLabels, Opening, Before, Ended
  <2> QED BY <1>2, <2>1, <2>2 DEF WindUpRead
<1>3. CASE WindUpWrite(p)
  <2>1. /\ Writer(p) /\ rec' = seen[p] /\ Leave(p, "teardown") /\ pc[p] = "windwrite"
        /\ UNCHANGED <<removed, recycled, cmd, seen>>
    BY <1>3 DEF WindUpWrite, WriteBack, Writer, WriteLabels, world, local
  <2> QED BY <1>0, <2>1, WriteTidy
<1>4. CASE ClearDelete(p)
  BY <1>4, ClearTidy
<1>5. CASE Interrupted(p) \/ HardCheck(p) \/ HardDelete(p)
  BY <1>0, <1>5 DEF Interrupted, HardCheck, HardDelete
<1> QED BY <1>1, <1>2, <1>3, <1>4, <1>5

LEMMA OpTidy ==
  ASSUME Orderly, TypeInv, StopInv, ~old.raced, OrderInv, TidyInv, NEW o \in Ops,
         \/ StartOp(o) \/ StopPeek(o) \/ OpRefused(o) \/ GrantRead(o) \/ RevokeRead(o)
         \/ StopRead(o) \/ OpWrite(o) \/ RevokeLook(o)
         \/ ForceLock(o) \/ ForceDelete(o) \/ ForceLook(o)
  PROVE  TidyInv' /\ DoorStep
<1>0. /\ o \in Procs /\ o \notin Serves /\ o \notin Verbs
      /\ cmd[o] # "force" /\ pc[o] # "delete" /\ RmKnown(cmd)
  BY ProcsAssumption DEF Procs, OrderInv, Calm, TidyInv, RmKnown
<1>1. CASE StartOp(o) \/ StopPeek(o) \/ OpRefused(o) \/ RevokeLook(o)
  <2>1. UNCHANGED <<rec, lock, removed, recycled, seen>>
    BY <1>1 DEF StartOp, StopPeek, OpRefused, RevokeLook, GiveUp, disk, world
  <2>2. \A v \in Verbs : cmd'[v] = cmd[v]
    BY <1>0, <1>1 DEF StartOp, StopPeek, OpRefused, RevokeLook, local, TypeInv, TypeOK
  <2>3. PICK l \in {"peek", "lock", "done"} : pc' = [pc EXCEPT ![o] = l]
    BY <1>1 DEF StartOp, StopPeek, OpRefused, RevokeLook, Goto
  <2>4. RmKnown(cmd') /\ l \in Labels \ (WriteLabels \cup {"idle"}) /\ l \notin Opening
    BY <1>0, <2>2, <2>3 DEF RmKnown, Labels, PcOp, WriteLabels, Opening
  <2> QED BY <1>0, <2>1, <2>3, <2>4, MoveTidy
<1>2. CASE GrantRead(o) \/ RevokeRead(o) \/ StopRead(o)
  <2>1. /\ UNCHANGED <<rec, removed, recycled, cmd>> /\ CanLock(o) /\ Present(rec)
    BY <1>2 DEF GrantRead, RevokeRead, StopRead, IsLive, world, local
  <2>2. PICK r \in Record :
          /\ Prepare(o, r, "write")
          /\ \/ r = Gone /\ ~IsLive(rec)
             \/ /\ r.owner = rec.owner /\ r.starting = rec.starting
                /\ rec.winding => r.winding
    <3>0. rec \in Record
      BY DEF TypeInv, TypeOK
    <3>1. CASE GrantRead(o)
      <4>1. PICK g \in Grants : Prepare(o, [rec EXCEPT !.grants = @ \cup {g}], "write")
        BY <3>1 DEF GrantRead
      <4> DEFINE r == [rec EXCEPT !.grants = @ \cup {g}]
      <4>2. r \in Record /\ r.owner = rec.owner /\ r.starting = rec.starting /\ r.winding = rec.winding
        BY <3>0, EditTypes DEF Record
      <4> QED BY <4>1, <4>2
    <3>2. CASE RevokeRead(o)
      <4> DEFINE r == [rec EXCEPT !.revoked = @ \cup {arg[o]}]
      <4>1. Prepare(o, r, "write") /\ arg[o] \in Grants
        BY <3>0, <3>2 DEF RevokeRead, Record
      <4>2. r \in Record /\ r.owner = rec.owner /\ r.starting = rec.starting /\ r.winding = rec.winding
        BY <3>0, <4>1, EditTypes DEF Record
      <4> QED BY <4>1, <4>2
    <3>3. CASE StopRead(o)
      <4>1. /\ Stopped(rec) \in Record /\ Stopped(rec).owner = rec.owner
            /\ Stopped(rec).starting = rec.starting /\ Stopped(rec).winding
        BY <3>0 DEF Stopped, Record
      <4> QED BY <3>3, <4>1, RecordTypes DEF StopRead
    <3> QED BY <1>2, <3>1, <3>2, <3>3
  <2>3. "write" \in WriteLabels
    BY DEF WriteLabels
  <2> QED BY <1>0, <2>1, <2>2, <2>3, ReadTidy
<1>3. CASE OpWrite(o)
  <2>1. /\ Writer(o) /\ rec' = seen[o] /\ pc[o] = "write"
        /\ UNCHANGED <<removed, recycled, cmd, seen>>
    BY <1>3 DEF OpWrite, Writer, WriteLabels, world, local
  <2>2. PICK l \in {"look", "done"} : Leave(o, l)
    BY <1>3 DEF OpWrite
  <2> QED BY <1>0, <2>1, <2>2, WriteTidy
<1>4. CASE ForceLock(o) \/ ForceDelete(o) \/ ForceLook(o)
  BY <1>0, <1>4 DEF ForceLock, ForceDelete, ForceLook
<1> QED BY <1>1, <1>2, <1>3, <1>4

LEMMA VerbTidy ==
  ASSUME Orderly, Unmixed, TypeInv, StopInv, OrderInv, TidyInv, NEW v \in Verbs,
         StartVerb(v) \/ VerbDecide(v) \/ VerbWork(v) \/ Erase(v)
  PROVE  TidyInv' /\ DoorStep
<1>0. v \in Procs /\ v \notin Serves
  BY ProcsAssumption DEF Procs
<1>1. CASE StartVerb(v) \/ VerbDecide(v) \/ VerbWork(v)
  <2>1. /\ UNCHANGED <<rec, removed, recycled, seen>>
        /\ \A y \in Procs \ {v} : lock = y => lock' = y
    BY <1>1 DEF StartVerb, VerbDecide, VerbWork, Leave, Freed, disk, world
  <2>2. RmKnown(cmd')
    <3>1. CASE StartVerb(v)
      BY <3>1 DEF StartVerb, RmKnown, TidyInv, TypeInv, TypeOK
    <3>2. CASE VerbDecide(v) \/ VerbWork(v)
      BY <3>2 DEF VerbDecide, VerbWork, RmKnown, TidyInv, local
    <3> QED BY <1>1, <3>1, <3>2
  <2>3. PICK l \in {"opengate", "work", "done"} : pc' = [pc EXCEPT ![v] = l]
    BY <1>1 DEF StartVerb, VerbDecide, VerbWork, Leave, Goto
  <2>4. l \in Labels \ (WriteLabels \cup {"idle"}) /\ l \notin Opening
    BY <2>3 DEF Labels, PcVerb, WriteLabels, Opening
  <2> QED BY <1>0, <2>1, <2>2, <2>3, <2>4, MoveTidy
<1>2. CASE Erase(v)
  BY <1>2, EraseTidy
<1> QED BY <1>1, <1>2

LEMMA SurroundingsTidy ==
  ASSUME Orderly, TypeInv, StopInv, OrderInv, TidyInv, Surroundings
  PROVE  TidyInv' /\ DoorStep
<1>0. "corrupt" \notin Faults /\ "recycle" \notin Faults
  BY DEF Orderly
<1>1. CASE BoxStops \/ BoxStarts \/ \E g \in Grants : Expire(g)
  <2>1. UNCHANGED <<disk, recycled, pc, seen, cmd>>
    BY <1>1 DEF BoxStops, BoxStarts, Expire, local
  <2> QED BY <2>1, StillTidy
<1>2. CASE \E x \in Procs : Kill(x)
  <2> PICK x \in Procs : Kill(x)
    BY <1>2
  <2>1. /\ UNCHANGED <<rec, removed, recycled, seen, cmd>> /\ RmKnown(cmd') /\ "kill" \in Faults
        /\ \A y \in Procs \ {x} : lock = y => lock' = y
    BY DEF Kill, Leave, Freed, world, local, RmKnown, TidyInv
  <2>2. PICK l \in {"killed", "done"} :
          pc' = [pc EXCEPT ![x] = l] /\ (x \in Serves => l = "killed")
    BY DEF Kill, Leave
  <2>3. l \in Labels \ (WriteLabels \cup {"idle"}) /\ l \notin Opening \cup Before
    BY <2>2 DEF Labels, PcServe, PcOp, Ended, WriteLabels, Opening, Before
  <2>4. x \in Serves => l \in Ended
    BY <2>2 DEF Ended
  <2> QED BY <2>1, <2>2, <2>3, <2>4, MoveTidy
<1>3. CASE Corrupt \/ \E p \in Serves : Recycle(p)
  BY <1>0, <1>3 DEF Corrupt, Recycle
<1> QED BY <1>1, <1>2, <1>3 DEF Surroundings

LEMMA InitTidy == Init => TidyInv
<1> SUFFICES ASSUME Init PROVE TidyInv
  OBVIOUS
<1>1. /\ rec.owner = NoOne /\ NoOne \notin Serves
      /\ \A x \in Procs : ~Writer(x) /\ pc[x] = "idle"
      /\ \A v \in Verbs : cmd[v] = "none"
  BY ProcsAssumption DEF Init, Gone, Blank, Writer, WriteLabels, Procs
<1> QED BY <1>1 DEF TidyInv, Present, Opening, Procs

LEMMA NextTidy ==
  ASSUME Orderly, Unmixed
  PROVE  TypeInv /\ StopInv /\ ~old.raced /\ OrderInv /\ TidyInv /\ [Next]_vars => TidyInv' /\ DoorStep
<1> SUFFICES ASSUME TypeInv, StopInv, ~old.raced, OrderInv, TidyInv, [Next]_vars
             PROVE  TidyInv' /\ DoorStep
  OBVIOUS
<1>0. Serves \subseteq Procs /\ Verbs \subseteq Procs
  BY DEF Procs
<1>1. ASSUME NEW p \in Serves, StartShare(p) \/ ServeStep(p) \/ Signalled(p)
      PROVE  TidyInv' /\ DoorStep
  BY <1>0, <1>1, GateTidy, OpenTidy, ServeTidy DEF ServeStep, Signalled
<1>2. ASSUME NEW o \in Ops, StartOp(o) \/ OpStep(o) PROVE TidyInv' /\ DoorStep
  BY <1>2, OpTidy DEF OpStep
<1>3. ASSUME NEW v \in Verbs, StartVerb(v) \/ VerbStep(v) PROVE TidyInv' /\ DoorStep
  BY <1>0, <1>3, GateTidy, VerbTidy DEF VerbStep
<1>4. CASE Surroundings
  BY <1>4, SurroundingsTidy
<1>5. CASE UNCHANGED vars
  BY <1>5, StillTidy DEF vars, disk
<1> QED BY <1>1, <1>2, <1>3, <1>4, <1>5 DEF Next

(* What ShareDoor sees: all of that, or after the race a door shut for good.*)
DoorNow == IF DoorOpen = {} THEN NoOne ELSE CHOOSE p \in DoorOpen : TRUE

LEMMA DoorSees ==
  /\ ~old.raced => DoorNow = Now /\ DoorOver = Over
  /\ old.raced => DoorNow = NoOne /\ DoorOver = {p \in Serves : Begun(p)}
<1>1. ASSUME ~old.raced PROVE DoorNow = Now /\ DoorOver = Over
  <2>1. /\ DoorOpen = {p \in Serves : IsOpen(p)}
        /\ DoorOver = Over
    BY <1>1 DEF DoorOpen, DoorOver, Admitting, Over, IsOpen, IsOver, Standing, Ours
  <2>2. ASSUME DoorOpen # {} PROVE DoorNow = rec.owner
    <3>1. \A p \in DoorOpen : p = rec.owner
      BY <2>1 DEF IsOpen, Standing
    <3> QED BY <2>2, <3>1 DEF DoorNow
  <2>3. DoorOpen = {} => DoorNow = NoOne
    BY DEF DoorNow
  <2> QED BY <2>1, <2>2, <2>3 DEF Now
<1>2. ASSUME old.raced PROVE DoorNow = NoOne /\ DoorOver = {p \in Serves : Begun(p)}
  BY <1>2 DEF DoorOpen, DoorOver, DoorNow, Admitting
<1> QED BY <1>1, <1>2

LEMMA DoorSeesNext ==
  /\ ~old'.raced => DoorNow' = Now' /\ DoorOver' = Over'
  /\ old'.raced => DoorNow' = NoOne /\ DoorOver' = {p \in Serves : Begun(p)'}
<1>1. ASSUME ~old'.raced PROVE DoorNow' = Now' /\ DoorOver' = Over'
  <2>1. /\ DoorOpen' = {p \in Serves : IsOpen(p)'}
        /\ DoorOver' = Over'
    BY <1>1 DEF DoorOpen, DoorOver, Admitting, Over, IsOpen, IsOver, Standing, Ours
  <2>2. ASSUME DoorOpen' # {} PROVE DoorNow' = rec'.owner
    <3>1. \A p \in DoorOpen' : p = rec'.owner
      BY <2>1 DEF IsOpen, Standing
    <3> QED BY <2>2, <3>1 DEF DoorNow
  <2>3. DoorOpen' = {} => DoorNow' = NoOne
    BY DEF DoorNow
  <2> QED BY <2>1, <2>2, <2>3 DEF Now
<1>2. ASSUME old'.raced PROVE DoorNow' = NoOne /\ DoorOver' = {p \in Serves : Begun(p)'}
  BY <1>2 DEF DoorOpen, DoorOver, DoorNow, Admitting
<1> QED BY <1>1, <1>2

(* The race itself shuts no door: `rm` found none open. *)
LEMMA RaceAtTheDoor ==
  ASSUME OrderInv, ~old.raced, old'.raced, NEW v \in Verbs, Erase(v)
  PROVE  UNCHANGED <<DoorNow, DoorOver>>
<1>1. \A p \in Serves : (Begun(p)' <=> Begun(p)) /\ ~Standing(p)
  BY EraseFindsNobody
<1>2. Now = NoOne /\ Over = {p \in Serves : Begun(p)}
  BY <1>1 DEF Now, Over, IsOpen, IsOver
<1> QED BY <1>1, <1>2, DoorSees, DoorSeesNext

(* After it at most one share a step gives up the door it never had. *)
LEMMA NoDoorLeft ==
  ASSUME TypeInv, Closed, old.raced, old'.raced, [Next]_vars
  PROVE  Door!Next \/ UNCHANGED <<DoorNow, DoorOver>>
<1>1. DoorNow = NoOne /\ DoorNow' = NoOne
  BY DoorSees, DoorSeesNext
<1>2. DoorOver = {p \in Serves : Begun(p)} /\ DoorOver' = {p \in Serves : Begun(p)'}
  BY DoorSees, DoorSeesNext
<1>3. CASE UNCHANGED pc
  BY <1>1, <1>2, <1>3 DEF Begun
<1>4. CASE \E x \in Procs : MovesOn(x)
  <2>1. PICK x \in Procs : MovesOn(x)
    BY <1>4
  <2>2. \A p \in Serves \ {x} : Begun(p)' <=> Begun(p)
    BY <2>1 DEF MovesOn, Begun, Procs
  <2>3. x \in Serves /\ Begun(x) => Begun(x)'
    BY <2>1 DEF MovesOn, Begun, Before
  <2>4. CASE x \in Serves /\ ~Begun(x) /\ Begun(x)'
    <3>1. x \notin DoorOver /\ DoorOver' = DoorOver \cup {x}
      BY <1>2, <2>2, <2>4
    <3> QED BY <1>1, <2>4, <3>1, ProcsAssumption DEF DoorNow, Door!Next, Door!Shut, Procs
  <2>5. CASE ~(x \in Serves /\ ~Begun(x) /\ Begun(x)')
    BY <1>1, <1>2, <2>2, <2>3, <2>5
  <2> QED BY <2>4, <2>5
<1> QED BY <1>3, <1>4, ClosedStays

(* The shares of a box, with their files, locks and crashes, are the        *)
(* abstract door of ShareDoor: one share at a time stands open, and one     *)
(* that was stopped, ended, killed or given up never opens again.  After a  *)
(* race for the lock file `rm` erased, the door counts as shut for good.    *)
THEOREM SharesAreADoor ==
  ASSUME Orderly, Unmixed
  PROVE  Spec => DoorSpec
<1> DEFINE Inv == TypeInv /\ OrderSafe /\ (old.raced \/ TidyInv)
<1>1. Init => Inv
  BY InitTypes, InitStop, InitOrder, InitTidy DEF OrderSafe, Init, NoRelic
<1>2. Inv /\ [Next]_vars => Inv'
  <2> SUFFICES ASSUME Inv, [Next]_vars PROVE Inv'
    OBVIOUS
  <2>1. TypeInv' /\ OrderSafe'
    BY NextTypes, NextOrderSafe
  <2>2. CASE old.raced
    BY <2>1, <2>2, NextMoves DEF OldMoves
  <2>3. CASE ~old.raced
    BY <2>1, <2>3, NextTidy DEF OrderSafe
  <2> QED BY <2>2, <2>3
<1>3. Init => Door!Init
  <2> SUFFICES ASSUME Init PROVE Door!Init
    OBVIOUS
  <2>1. ~old.raced /\ rec.owner = NoOne /\ NoOne \notin Serves
        /\ \A p \in Serves : pc[p] = "idle"
    BY ProcsAssumption DEF Init, NoRelic, Gone, Blank, Procs
  <2>2. \A p \in Serves : ~IsOver(p) /\ ~IsOpen(p)
    BY <2>1 DEF IsOver, IsOpen, Standing, Begun
  <2>3. DoorNow = NoOne /\ DoorOver = {}
    BY <2>1, <2>2, DoorSees DEF Now, Over
  <2> QED BY <2>3 DEF Door!Init, DoorNow
<1>4. Inv /\ [Next]_vars => Door!Next \/ UNCHANGED <<DoorNow, DoorOver>>
  <2> SUFFICES ASSUME Inv, [Next]_vars PROVE Door!Next \/ UNCHANGED <<DoorNow, DoorOver>>
    OBVIOUS
  <2>1. CASE old.raced
    BY <2>1, NextMoves, NoDoorLeft DEF OldMoves, OrderSafe
  <2>2. CASE ~old.raced /\ old'.raced
    BY <2>2, NextMoves, RaceAtTheDoor DEF OldMoves, OrderSafe
  <2>3. CASE ~old.raced /\ ~old'.raced
    <3>1. /\ DoorNow = Now /\ DoorOver = Over
          /\ DoorNow' = Now' /\ DoorOver' = Over'
      BY <2>3, DoorSees, DoorSeesNext
    <3>2. DoorStep
      BY <2>3, NextTidy DEF OrderSafe
    <3>3. CASE DoorMoves
      BY <3>1, <3>3 DEF DoorMoves, DoorNow, Door!Next, Door!Open, Door!Shut
    <3>4. CASE UNCHANGED <<Now, Over>>
      BY <3>1, <3>4
    <3> QED BY <3>2, <3>3, <3>4 DEF DoorStep
  <2> QED BY <2>1, <2>2, <2>3
<1>5. Inv /\ [Next]_vars
        => [Door!Next]_<<IF DoorOpen = {} THEN NoOne ELSE CHOOSE p \in DoorOpen : TRUE, DoorOver>>
  BY <1>4 DEF DoorNow
<1> QED BY <1>1, <1>2, <1>3, <1>5, PTL DEF Spec, DoorSpec, Door!Spec

=============================================================================
