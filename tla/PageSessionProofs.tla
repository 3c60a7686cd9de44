-------------------------- MODULE PageSessionProofs --------------------------
(***************************************************************************)
(* Theorems about the browser session's page thread, for any viewers,      *)
(* bounds and failures to paint.                                           *)
(*                                                                         *)
(* First what the handlers make of the page (Good), then what SendFrame    *)
(* does to one viewer and Present to all of them, then one lemma per       *)
(* action for the inductive invariant.                                     *)
(***************************************************************************)
EXTENDS PageSession, TLAPS

-----------------------------------------------------------------------------
(* What the handlers do to the session.                                    *)

Remembered(s) ==
  /\ s.served # NoReading => s.served = s.doc
  /\ s.hints # NoReading => s.hints = s.doc
  /\ s.login => s.served = NoReading

\* One session is a later one, as far as the invariants go.
Onward(s, t) ==
  /\ t \in Sessions
  /\ s.rev <= t.rev
  /\ Remembered(s) => Remembered(t)

\* What an outcome is.
Told == [session : Sessions, moved : BOOLEAN, silent : BOOLEAN]

\* A handler's outcome: a change of looks is reported, or known to be silent.
Good(s, o) ==
  /\ o \in Told
  /\ Onward(s, o.session)
  /\ o.session.rev # s.rev => o.moved \/ o.silent

LEMMA OutcomeFields ==
  ASSUME NEW T, NEW m \in BOOLEAN, NEW q \in BOOLEAN, NEW o \in Outcomes(T, m, q)
  PROVE  o.session \in T /\ o.moved = m /\ o.silent = q
<1>1. PICK t \in T : o = [session |-> t, moved |-> m, silent |-> q] BY DEF Outcomes
<1>2. o.session = t BY <1>1
<1>3. o.moved = m BY <1>1, Zenon
<1>4. o.silent = q BY <1>1, Zenon
<1> QED BY <1>2, <1>3, <1>4

LEMMA ToldMade ==
  ASSUME NEW T, NEW m \in BOOLEAN, NEW q \in BOOLEAN, NEW o \in Outcomes(T, m, q),
         o.session \in Sessions
  PROVE  o \in Told
BY DEF Outcomes, Told

LEMMA OutcomeGood ==
  ASSUME NEW s, NEW T, NEW m \in BOOLEAN, NEW q \in BOOLEAN, NEW o \in Outcomes(T, m, q),
         \A t \in T : Onward(s, t),
         m \/ q \/ \A t \in T : t.rev = s.rev
  PROVE  Good(s, o)
<1>1. o.session \in T /\ o.moved = m /\ o.silent = q BY OutcomeFields
<1>2. Onward(s, o.session) BY <1>1
<1>3. o \in Told BY <1>2, ToldMade DEF Onward
<1>4. o.session.rev # s.rev => o.moved \/ o.silent BY <1>1, Zenon
<1> QED BY <1>2, <1>3, <1>4 DEF Good

LEMMA LandedFacts ==
  ASSUME NEW s \in Sessions, NEW t \in Landed(s) \cup Anchored(s)
  PROVE  Onward(s, t) /\ Remembered(t) /\ t.login = s.login /\ t.rev = s.rev + 1
<1>1. CASE t \in Landed(s)
  <2>1. PICK f \in BOOLEAN :
           t = [s EXCEPT !.doc = @ + 1, !.rev = @ + 1, !.form = f,
                         !.served = NoReading, !.hints = NoReading]
    BY <1>1 DEF Landed
  <2>2. t \in Sessions
    <3>1. s.doc + 1 \in Nat /\ s.rev + 1 \in Nat BY DEF Sessions
    <3> QED BY <2>1, <3>1 DEF Sessions
  <2>3. t.rev = s.rev + 1 /\ t.login = s.login BY <2>1 DEF Sessions
  <2>4. t.served = NoReading /\ t.hints = NoReading BY <2>1 DEF Sessions
  <2> QED BY <2>2, <2>3, <2>4 DEF Onward, Remembered, Sessions
<1>2. CASE t \in Anchored(s)
  <2>1. PICK f \in BOOLEAN :
           t = [s EXCEPT !.rev = @ + 1, !.form = f,
                         !.served = NoReading, !.hints = NoReading]
    BY <1>2 DEF Anchored, Sessions
  <2>2. t \in Sessions
    <3>1. s.doc + 1 \in Nat /\ s.rev + 1 \in Nat BY DEF Sessions
    <3> QED BY <2>1, <3>1 DEF Sessions
  <2>3. t.rev = s.rev + 1 /\ t.login = s.login BY <2>1 DEF Sessions
  <2>4. t.served = NoReading /\ t.hints = NoReading BY <2>1 DEF Sessions
  <2> QED BY <2>2, <2>3, <2>4 DEF Onward, Remembered, Sessions
<1> QED BY <1>1, <1>2

LEMMA AlteredFacts ==
  ASSUME NEW s \in Sessions, NEW t \in Altered(s)
  PROVE  Onward(s, t)
<1>1. PICK f \in BOOLEAN : t = [s EXCEPT !.rev = @ + 1, !.form = f]
  BY DEF Altered, Sessions
<1>2. t \in Sessions
  <2>1. s.rev + 1 \in Nat BY DEF Sessions
  <2> QED BY <1>1, <2>1 DEF Sessions
<1>3. t.rev = s.rev + 1 /\ t.login = s.login BY <1>1 DEF Sessions
<1>4. t.served = s.served /\ t.hints = s.hints /\ t.doc = s.doc BY <1>1 DEF Sessions
<1> QED BY <1>2, <1>3, <1>4 DEF Onward, Remembered, Sessions

LEMMA OnwardSame == ASSUME NEW s \in Sessions PROVE Onward(s, s)
BY DEF Onward, Sessions

\* An outcome that says nothing moved, and nothing did.
LEMMA StillGood ==
  ASSUME NEW s, NEW t, NEW o \in Quiet(t), Onward(s, t), t.rev = s.rev
  PROVE  Good(s, o)
<1>1. o \in Outcomes({t}, FALSE, FALSE) BY DEF Quiet
<1>2. o.session = t /\ o.moved = FALSE /\ o.silent = FALSE BY <1>1, OutcomeFields
<1>3. o \in Told BY <1>1, <1>2, ToldMade DEF Onward
<1> QED BY <1>2, <1>3 DEF Good

LEMMA QuietGood ==
  ASSUME NEW s \in Sessions, NEW o \in Quiet(s)
  PROVE  Good(s, o)
BY OnwardSame, StillGood

LEMMA MovedGood ==
  ASSUME NEW s, NEW T, NEW o \in Moved(T), \A t \in T : Onward(s, t)
  PROVE  Good(s, o)
BY OutcomeGood DEF Moved

LEMMA LandingGood ==
  ASSUME NEW s \in Sessions, NEW o \in Moved(Landed(s) \cup Anchored(s))
  PROVE  Good(s, o)
BY LandedFacts, MovedGood

LEMMA AlteringGood ==
  ASSUME NEW s \in Sessions,
         NEW o \in Moved(Altered(s)) \cup Outcomes(Altered(s), FALSE, TRUE)
  PROVE  Good(s, o)
BY AlteredFacts, MovedGood, OutcomeGood

LEMMA NavigateGood ==
  ASSUME NEW s \in Sessions, NEW o \in Navigate(s)
  PROVE  Good(s, o)
BY QuietGood, LandingGood DEF Navigate

LEMMA ActGood ==
  ASSUME NEW s \in Sessions, NEW o \in Act(s)
  PROVE  Good(s, o)
BY AlteringGood, NavigateGood DEF Act

\* A reading is of the document it is taken of.
LEMMA ReadFacts ==
  ASSUME NEW s \in Sessions, ~s.login
  PROVE  Onward(s, Read(s)) /\ Read(s).rev = s.rev
<1>1. Read(s) \in Sessions BY DEF Read, Sessions
<1>2. Read(s).rev = s.rev BY DEF Read, Sessions
<1>3. Read(s).served = s.doc /\ Read(s).doc = s.doc BY DEF Read, Sessions
<1>4. Read(s).hints = s.hints /\ Read(s).login = s.login BY DEF Read, Sessions
<1> QED BY <1>1, <1>2, <1>3, <1>4 DEF Onward, Remembered, Sessions

LEMMA OnwardTwice ==
  ASSUME NEW s \in Sessions, NEW t, NEW u, Onward(s, t), Onward(t, u)
  PROVE  Onward(s, u)
BY DEF Onward, Sessions

LEMMA VisitGood ==
  ASSUME NEW s \in Sessions, ~s.login, NEW o \in Visit(s)
  PROVE  Good(s, o)
<1> DEFINE T == {Read(t) : t \in Landed(s) \cup Anchored(s)}
<1>1. ASSUME NEW t \in Landed(s) \cup Anchored(s) PROVE Onward(s, Read(t))
  <2>1. Onward(s, t) /\ ~t.login BY LandedFacts, Zenon
  <2>2. Onward(t, Read(t)) BY <2>1, ReadFacts DEF Onward
  <2> QED BY <2>1, <2>2, OnwardTwice
<1>2. \A t \in T : Onward(s, t) BY <1>1
<1> HIDE DEF T
<1>3. CASE o \in Moved(T) BY <1>2, <1>3, MovedGood
<1>4. CASE o \in Quiet(s) BY <1>4, QuietGood
<1> QED BY <1>3, <1>4 DEF Visit, T

LEMMA LoginGood ==
  ASSUME NEW s \in Sessions, NEW on \in BOOLEAN, NEW o \in Login(s, on)
  PROVE  Good(s, o)
<1> DEFINE t == [s EXCEPT !.login = on, !.served = NoReading]
<1>1. t \in Sessions BY DEF Sessions
<1>2. t.rev = s.rev /\ t.served = NoReading BY DEF Sessions
<1>3. t.hints = s.hints /\ t.doc = s.doc BY DEF Sessions
<1> HIDE DEF t
<1>4. Onward(s, t) BY <1>1, <1>2, <1>3 DEF Onward, Remembered, Sessions
<1>5. o \in Quiet(t) BY DEF Login, t
<1> QED BY <1>2, <1>4, <1>5, StillGood

\* A verb that is not refused in login mode leaves the session in order.
LEMMA InnerGood ==
  ASSUME NEW s \in Sessions, NEW verb \in Verbs, ~Gated(s, verb), NEW o \in Inner(s, verb)
  PROVE  Good(s, o)
<1>1. CASE verb = "status" BY <1>1, QuietGood DEF Inner
<1>2. CASE verb = "login" BY <1>2, LoginGood DEF Inner
<1>3. CASE verb = "logout" BY <1>3, LoginGood DEF Inner
<1>4. CASE verb = "snapshot"
  <2>1. ~s.login BY <1>4 DEF Gated
  <2>2. o \in Quiet(Read(s)) BY <1>4 DEF Inner, Snapshot
  <2> QED BY <2>1, <2>2, ReadFacts, StillGood
<1>5. CASE verb = "visit" BY <1>5, VisitGood DEF Inner, Gated
<1>6. CASE verb = "navigate" BY <1>6, NavigateGood DEF Inner
<1>7. CASE verb = "ref" BY <1>7, ActGood, QuietGood DEF Inner
<1>8. CASE verb = "selector" BY <1>8, ActGood DEF Inner
<1> QED BY <1>1, <1>2, <1>3, <1>4, <1>5, <1>6, <1>7, <1>8 DEF Verbs

LEMMA FollowGood ==
  ASSUME NEW s \in Sessions, NEW o, Good(s, o), NEW q \in Follow(o)
  PROVE  Good(s, q)
<1>0. o.session \in Sessions /\ o \in Told BY DEF Good, Onward
<1>1. CASE q = o BY <1>1
<1>2. CASE q \in Moved(Landed(o.session))
  <2>1. \A t \in Landed(o.session) : Onward(s, t)
    BY <1>0, LandedFacts, OnwardTwice DEF Good
  <2> QED BY <1>2, <2>1, MovedGood
<1>3. CASE q = [o EXCEPT !.session.form = FALSE]
  <2>1. q.session = [o.session EXCEPT !.form = FALSE] BY <1>0, <1>3 DEF Told
  <2>2. q.moved = o.moved /\ q.silent = o.silent BY <1>0, <1>3, Zenon DEF Told
  <2>3. q.session \in Sessions BY <1>0, <2>1 DEF Sessions
  <2>4. q.session.rev = o.session.rev /\ q.session.served = o.session.served
    BY <1>0, <2>1 DEF Sessions
  <2>5. q.session.hints = o.session.hints /\ q.session.doc = o.session.doc
    BY <1>0, <2>1 DEF Sessions
  <2>6. q.session.login = o.session.login BY <1>0, <2>1 DEF Sessions
  <2>7. Onward(s, q.session)
    BY <2>3, <2>4, <2>5, <2>6 DEF Good, Onward, Remembered
  <2>8. q \in Told BY <1>0, <1>3, <2>1, <2>3 DEF Told
  <2> QED BY <2>2, <2>4, <2>7, <2>8 DEF Good
<1> QED BY <1>1, <1>2, <1>3 DEF Follow

LEMMA ControlGood ==
  ASSUME NEW s \in Sessions, NEW verb \in Verbs, NEW o \in ControlVerb(s, verb)
  PROVE  Good(s, o)
<1>1. CASE Gated(s, verb) BY <1>1, QuietGood DEF ControlVerb
<1>2. CASE ~Gated(s, verb)
  <2>1. PICK q \in Inner(s, verb) : o \in Follow(q) BY <1>2 DEF ControlVerb
  <2> QED BY <1>2, <2>1, InnerGood, FollowGood
<1> QED BY <1>1, <1>2

LEMMA DroppedGood ==
  ASSUME NEW s \in Sessions, NEW o, Good(s, o)
  PROVE  Good(s, Dropped(o))
<1> DEFINE q == [o EXCEPT !.session.hints = NoReading]
<1>0. o.session \in Sessions /\ o \in Told BY DEF Good, Onward
<1>1. q.session = [o.session EXCEPT !.hints = NoReading] BY <1>0 DEF Told
<1>2. q.moved = o.moved /\ q.silent = o.silent BY <1>0, Zenon DEF Told
<1>3. q.session \in Sessions BY <1>0, <1>1 DEF Sessions
<1>4. q.session.rev = o.session.rev /\ q.session.served = o.session.served
  BY <1>0, <1>1 DEF Sessions
<1>5. q.session.hints = NoReading /\ q.session.doc = o.session.doc
  BY <1>0, <1>1 DEF Sessions
<1>6. q.session.login = o.session.login BY <1>0, <1>1 DEF Sessions
<1>7. Onward(s, q.session) BY <1>3, <1>4, <1>5, <1>6 DEF Good, Onward, Remembered
<1>8. q \in Told BY <1>0, <1>1, <1>3 DEF Told
<1>9. Good(s, q) BY <1>2, <1>4, <1>7, <1>8 DEF Good
<1> QED BY <1>9 DEF Dropped

\* Labels are of the document they are drawn on.
LEMMA HintsGood ==
  ASSUME NEW s \in Sessions, NEW o \in Quiet([s EXCEPT !.hints = s.doc])
  PROVE  Good(s, o)
<1> DEFINE t == [s EXCEPT !.hints = s.doc]
<1>1. t \in Sessions BY DEF Sessions
<1>2. t.rev = s.rev /\ t.served = s.served BY DEF Sessions
<1>3. t.hints = s.doc /\ t.doc = s.doc /\ t.login = s.login BY DEF Sessions
<1> HIDE DEF t
<1>4. Onward(s, t) BY <1>1, <1>2, <1>3 DEF Onward, Remembered, Sessions
<1>5. o \in Quiet(t) BY DEF t
<1> QED BY <1>2, <1>4, <1>5, StillGood

LEMMA HandledGood ==
  ASSUME NEW s \in Sessions, NEW input \in Inputs, NEW o \in Handled(s, input)
  PROVE  Good(s, o)
<1>1. CASE input = "keys" BY <1>1, AlteringGood, QuietGood DEF Handled
<1>2. CASE input = "link"
  <2>1. \A t \in Landed(s) \cup {s} : Onward(s, t) BY LandedFacts, OnwardSame
  <2> QED BY <1>2, <2>1, MovedGood DEF Handled
<1>3. CASE input = "hints" BY <1>3, HintsGood DEF Handled
<1>4. CASE input = "act"
  <2>1. PICK q \in ControlVerb(s, "ref") : o = Dropped(q) BY <1>4 DEF Handled
  <2> QED BY <2>1, ControlGood, DroppedGood DEF Verbs
<1>5. CASE input = "put"
  <2>1. \A t \in Altered(s) \cup {s} : Onward(s, t) BY AlteredFacts, OnwardSame
  <2>2. o \in Quiet(s) \/ o \in Moved(Altered(s) \cup {s}) BY <1>5 DEF Handled
  <2> QED BY <2>1, <2>2, MovedGood, QuietGood
<1>6. CASE input = "reload"
  <2>1. \A t \in Landed(s) : Onward(s, t) BY LandedFacts
  <2>2. o \in Quiet(s) \/ o \in Moved(Landed(s)) BY <1>6 DEF Handled
  <2> QED BY <2>1, <2>2, MovedGood, QuietGood
<1> QED BY <1>1, <1>2, <1>3, <1>4, <1>5, <1>6 DEF Inputs

-----------------------------------------------------------------------------
(* What frames do to the viewers.                                          *)

Latest(w, drawn) ==
  IF w.pending # NoFrame THEN w.pending
  ELSE IF w.tx # <<>> THEN w.tx[Len(w.tx)] ELSE drawn

\* Frames come in the order they were painted, none newer than the page.
InLine(w, drawn, rev) ==
  /\ drawn <= rev /\ w.pending <= rev
  /\ \A i \in 1..Len(w.tx) : drawn <= w.tx[i] /\ w.tx[i] <= rev
  /\ \A i \in 1..Len(w.tx) : w.pending # NoFrame => w.tx[i] <= w.pending
  /\ w.pending # NoFrame => drawn <= w.pending
  /\ \A i, j \in 1..Len(w.tx) : i <= j => w.tx[i] <= w.tx[j]

LEMMA Appended ==
  ASSUME NEW t \in Seq(Nat), NEW f \in Nat
  PROVE  /\ Append(t, f) \in Seq(Nat) /\ Append(t, f) # <<>>
         /\ Len(t) \in Nat /\ Len(Append(t, f)) = Len(t) + 1
         /\ Append(t, f)[Len(t) + 1] = f
         /\ \A i \in 1..Len(t) : Append(t, f)[i] = t[i] /\ t[i] \in Nat
OBVIOUS

\* Two ways to fare: the frame goes out, or it is held.
LEMMA SentCases ==
  ASSUME NEW w \in ViewerRecords, NEW f \in Nat \ {0}
  PROVE  /\ SendFrame(w, f) \in ViewerRecords
         /\ SendFrame(w, f).ack_pacing = w.ack_pacing
         /\ CanTake(w) => /\ w.pending = NoFrame
                          /\ SendFrame(w, f).tx = Append(w.tx, f)
                          /\ SendFrame(w, f).pending = NoFrame
                          /\ ~w.awaiting_ack
                          /\ SendFrame(w, f).awaiting_ack = w.ack_pacing
         /\ ~CanTake(w) => /\ SendFrame(w, f).tx = w.tx
                           /\ SendFrame(w, f).pending = f
                           /\ SendFrame(w, f).awaiting_ack = w.awaiting_ack
<1>0. /\ w.tx \in Seq(Nat) /\ w.ack_pacing \in BOOLEAN /\ w.awaiting_ack \in BOOLEAN
      /\ w.pending \in Nat
  BY DEF ViewerRecords
<1>1. (w.awaiting_ack => w.ack_pacing) /\ (w.pending # NoFrame => w.awaiting_ack)
  BY DEF ViewerRecords
<1>2. CASE CanTake(w)
  <2>1. SendFrame(w, f) = [w EXCEPT !.tx = Append(@, f), !.awaiting_ack = @ \/ w.ack_pacing]
    BY <1>2 DEF SendFrame
  <2>2. ~w.awaiting_ack /\ w.pending = NoFrame BY <1>1, <1>2 DEF CanTake
  <2>3. Append(w.tx, f) \in Seq(Nat) BY <1>0
  <2>4. SendFrame(w, f).tx = Append(w.tx, f) /\ SendFrame(w, f).pending = w.pending
    BY <2>1 DEF ViewerRecords
  <2>5. SendFrame(w, f).ack_pacing = w.ack_pacing BY <2>1, Zenon DEF ViewerRecords
  <2>6. SendFrame(w, f).awaiting_ack = (w.awaiting_ack \/ w.ack_pacing)
    BY <2>1, Zenon DEF ViewerRecords
  <2>7. SendFrame(w, f).awaiting_ack = w.ack_pacing BY <1>0, <2>2, <2>6
  <2>8. SendFrame(w, f) \in [tx : Seq(Nat), ack_pacing : BOOLEAN, awaiting_ack : BOOLEAN,
                             pending : Nat]
    BY <1>0, <2>1, <2>3 DEF ViewerRecords
  <2>9. SendFrame(w, f) \in ViewerRecords
    BY <2>2, <2>4, <2>5, <2>7, <2>8 DEF ViewerRecords
  <2> QED BY <1>2, <2>2, <2>4, <2>5, <2>7, <2>9
<1>3. CASE ~CanTake(w)
  <2>1. SendFrame(w, f) = [w EXCEPT !.pending = f] BY <1>3 DEF SendFrame
  <2>2. w.awaiting_ack BY <1>0, <1>3 DEF CanTake
  <2>3. SendFrame(w, f).tx = w.tx /\ SendFrame(w, f).pending = f
    BY <2>1 DEF ViewerRecords
  <2>4. /\ SendFrame(w, f).ack_pacing = w.ack_pacing
        /\ SendFrame(w, f).awaiting_ack = w.awaiting_ack
    BY <2>1, Zenon DEF ViewerRecords
  <2>5. SendFrame(w, f) \in ViewerRecords BY <1>1, <2>1, <2>2 DEF ViewerRecords
  <2> QED BY <1>3, <2>3, <2>4, <2>5
<1> QED BY <1>2, <1>3

\* Whoever is sent a frame has it as the latest, no frame overtakes another,
\* and one who is paced has no more on its way than before.
LEMMA SentFacts ==
  ASSUME NEW w \in ViewerRecords, NEW f \in Nat \ {0}
  PROVE  /\ \A d : Latest(SendFrame(w, f), d) = f
         /\ w.ack_pacing => Surplus(SendFrame(w, f)) <= Surplus(w)
         /\ \A d, r \in Nat : InLine(w, d, r) /\ r <= f => InLine(SendFrame(w, f), d, f)
<1> DEFINE u == SendFrame(w, f)
<1>0. w.tx \in Seq(Nat) /\ w.pending \in Nat BY DEF ViewerRecords
<1>1. CASE CanTake(w)
  <2>1. u.tx = Append(w.tx, f) /\ u.pending = NoFrame /\ w.pending = NoFrame
    BY <1>1, SentCases
  <2>2. ~w.awaiting_ack /\ u.awaiting_ack = w.ack_pacing BY <1>1, SentCases
  <2> HIDE DEF u
  <2>3. /\ u.tx # <<>> /\ Len(w.tx) \in Nat /\ Len(u.tx) = Len(w.tx) + 1
        /\ u.tx[Len(w.tx) + 1] = f
        /\ \A i \in 1..Len(w.tx) : u.tx[i] = w.tx[i] /\ w.tx[i] \in Nat
    BY <1>0, <2>1, Appended
  <2>4. \A d : Latest(u, d) = f BY <2>1, <2>3 DEF Latest
  <2>5. w.ack_pacing => Surplus(u) <= Surplus(w) BY <2>2, <2>3 DEF Surplus
  <2>6. ASSUME NEW d \in Nat, NEW r \in Nat, InLine(w, d, r), r <= f
        PROVE  InLine(u, d, f)
    <3>1. d <= f /\ u.pending <= f BY <2>1, <2>6 DEF InLine, NoFrame
    <3> DEFINE n == Len(w.tx)
    <3>a. n \in Nat /\ \A i \in 1..n : d <= w.tx[i] /\ w.tx[i] <= r BY <2>3, <2>6 DEF InLine
    <3>b. \A i \in 1..n : u.tx[i] = w.tx[i] /\ w.tx[i] \in Nat BY <2>3
    <3>2. ASSUME NEW i \in 1..Len(u.tx) PROVE d <= u.tx[i] /\ u.tx[i] <= f
      <4> HIDE DEF n
      <4>1. CASE i = n + 1
        <5>1. u.tx[i] = f BY <2>3, <4>1 DEF n
        <5> QED BY <3>1, <5>1
      <4>2. CASE i # n + 1
        <5>1. i \in 1..n BY <2>3, <3>a, <4>2 DEF n
        <5>2. d <= w.tx[i] /\ w.tx[i] <= r BY <3>a, <5>1
        <5>3. u.tx[i] = w.tx[i] /\ w.tx[i] \in Nat BY <3>b, <5>1
        <5> QED BY <2>6, <5>2, <5>3
      <4> QED BY <4>1, <4>2
    <3>3. ASSUME NEW i \in 1..Len(u.tx), NEW j \in 1..Len(u.tx), i <= j
          PROVE  u.tx[i] <= u.tx[j]
      <4>1. CASE j = Len(w.tx) + 1 BY <2>3, <3>2, <4>1
      <4>2. CASE j # Len(w.tx) + 1
        <5>1. i \in 1..Len(w.tx) /\ j \in 1..Len(w.tx) BY <2>3, <3>3, <4>2
        <5> QED BY <2>3, <2>6, <3>3, <5>1 DEF InLine
      <4> QED BY <4>1, <4>2
    <3> QED BY <2>1, <3>1, <3>2, <3>3 DEF InLine
  <2> QED BY <2>4, <2>5, <2>6 DEF u
<1>2. CASE ~CanTake(w)
  <2>1. u.tx = w.tx /\ u.pending = f /\ u.awaiting_ack = w.awaiting_ack
    BY <1>2, SentCases
  <2> HIDE DEF u
  <2>2. Len(w.tx) \in Nat /\ \A i \in 1..Len(w.tx) : w.tx[i] \in Nat BY <1>0
  <2>3. \A d : Latest(u, d) = f BY <2>1 DEF Latest, NoFrame
  <2>4. Surplus(u) <= Surplus(w) BY <2>1, <2>2 DEF Surplus
  <2>5. ASSUME NEW d \in Nat, NEW r \in Nat, InLine(w, d, r), r <= f
        PROVE  InLine(u, d, f)
    BY <2>1, <2>2, <2>5 DEF InLine
  <2> QED BY <2>3, <2>4, <2>5 DEF u
<1> QED BY <1>1, <1>2

\* How the viewers fare when one frame, or none, reaches them all: `shown`
\* says that everybody who is there has it.
Fared(ws, us, rev) ==
  /\ us \in [Viewers -> ViewerRecords]
  /\ \A v \in Viewers :
       /\ us[v].ack_pacing = ws[v].ack_pacing
       /\ ws[v].ack_pacing => Surplus(us[v]) <= Surplus(ws[v])
       /\ \A d, r \in Nat : InLine(ws[v], d, r) /\ r <= rev => InLine(us[v], d, rev)
ShownTo(us, rev) == \A v \in Joined : \A d : Latest(us[v], d) = rev

LEMMA LineStays ==
  ASSUME NEW w \in ViewerRecords, NEW d \in Nat, NEW r \in Nat, NEW rev \in Nat,
         InLine(w, d, r), r <= rev
  PROVE  InLine(w, d, rev)
<1>1. w.tx \in Seq(Nat) /\ w.pending \in Nat BY DEF ViewerRecords
<1>2. Len(w.tx) \in Nat /\ \A i \in 1..Len(w.tx) : w.tx[i] \in Nat BY <1>1
<1> QED BY <1>1, <1>2 DEF InLine

LEMMA SurplusType ==
  ASSUME NEW w \in ViewerRecords
  PROVE  /\ Len(w.tx) \in Nat /\ Surplus(w) \in Int
         /\ w.awaiting_ack => Surplus(w) = Len(w.tx) - 1
         /\ ~w.awaiting_ack => Surplus(w) = Len(w.tx)
<1>1. Len(w.tx) \in Nat BY DEF ViewerRecords
<1> DEFINE out == IF w.awaiting_ack THEN 1 ELSE 0
<1>2. (w.awaiting_ack => out = 1) /\ (~w.awaiting_ack => out = 0) BY Zenon
<1>3. Surplus(w) = Len(w.tx) - out BY DEF Surplus
<1> HIDE DEF out
<1> QED BY <1>1, <1>2, <1>3

LEMMA NobodyFares ==
  ASSUME NEW ws \in [Viewers -> ViewerRecords], NEW rev \in Nat
  PROVE  Fared(ws, ws, rev)
<1>1. \A v \in Viewers : Surplus(ws[v]) <= Surplus(ws[v]) BY SurplusType
<1> QED BY <1>1, LineStays DEF Fared

LEMMA EveryoneFares ==
  ASSUME NEW ws \in [Viewers -> ViewerRecords], NEW rev \in Nat \ {0}
  PROVE  Fared(ws, Everyone(ws, rev), rev) /\ ShownTo(Everyone(ws, rev), rev)
<1> DEFINE us == Everyone(ws, rev)
<1>1. ASSUME NEW v \in Viewers
      PROVE  /\ us[v] \in ViewerRecords /\ us[v].ack_pacing = ws[v].ack_pacing
             /\ ws[v].ack_pacing => Surplus(us[v]) <= Surplus(ws[v])
             /\ \A d, r \in Nat : InLine(ws[v], d, r) /\ r <= rev => InLine(us[v], d, rev)
  <2>1. CASE v \in Joined
    <3>1. us[v] = SendFrame(ws[v], rev) BY <2>1 DEF Everyone
    <3> QED BY <3>1, SentCases, SentFacts
  <2>2. CASE v \notin Joined
    <3>1. us[v] = ws[v] BY <2>2 DEF Everyone
    <3> QED BY <3>1, NobodyFares DEF Fared
  <2> QED BY <2>1, <2>2
<1>2. us \in [Viewers -> ViewerRecords] BY <1>1 DEF Everyone
<1>3. ASSUME NEW v \in Joined PROVE \A d : Latest(us[v], d) = rev
  <2>1. v \in Viewers /\ us[v] = SendFrame(ws[v], rev) BY DEF Everyone, Joined
  <2> QED BY <2>1, SentFacts
<1> QED BY <1>1, <1>2, <1>3 DEF Fared, ShownTo

LEMMA FareTwice ==
  ASSUME NEW ws \in [Viewers -> ViewerRecords], NEW us, NEW xs, NEW rev \in Nat,
         Fared(ws, us, rev), Fared(us, xs, rev)
  PROVE  Fared(ws, xs, rev)
<1>1. ASSUME NEW v \in Viewers
      PROVE  /\ xs[v].ack_pacing = ws[v].ack_pacing
             /\ ws[v].ack_pacing => Surplus(xs[v]) <= Surplus(ws[v])
  <2>1. Surplus(ws[v]) \in Int /\ Surplus(us[v]) \in Int /\ Surplus(xs[v]) \in Int
    BY SurplusType DEF Fared
  <2>2. xs[v].ack_pacing = us[v].ack_pacing /\ us[v].ack_pacing = ws[v].ack_pacing
    BY DEF Fared
  <2>3. /\ ws[v].ack_pacing => Surplus(us[v]) <= Surplus(ws[v])
        /\ us[v].ack_pacing => Surplus(xs[v]) <= Surplus(us[v])
    BY DEF Fared
  <2> QED BY <2>1, <2>2, <2>3
<1>2. ASSUME NEW v \in Viewers, NEW d \in Nat, NEW r \in Nat, InLine(ws[v], d, r), r <= rev
      PROVE  InLine(xs[v], d, rev)
  <2>1. InLine(us[v], d, rev) BY <1>2 DEF Fared
  <2> QED BY <2>1 DEF Fared
<1> QED BY <1>1, <1>2 DEF Fared

\* Either everybody is shown the page as it is, or nobody is sent anything,
\* and then a frame is owed, all are left out, or nothing had moved.
LEMMA PresentFacts ==
  ASSUME NEW ws \in [Viewers -> ViewerRecords], NEW o \in Told, o.session.rev # 0,
         owed \in BOOLEAN, missed \subseteq Viewers, Present(ws, o)
  PROVE  /\ session' = o.session
         /\ Fared(ws, viewers', o.session.rev)
         /\ owed' \in BOOLEAN /\ missed' \subseteq Viewers
         /\ \/ ShownTo(viewers', o.session.rev)
            \/ /\ viewers' = ws
               /\ \/ owed' \/ missed' = Joined
                  \/ ~o.moved /\ ~o.silent /\ owed' = owed /\ missed' = missed
<1> DEFINE rev == o.session.rev
<1>0. rev \in Nat \ {0} BY DEF Told, Sessions
<1>1. PICK first \in BOOLEAN, second \in BOOLEAN :
        LET ready == AnyoneReady(ws)
            shown == o.moved /\ ready /\ first
            after == IF shown THEN Everyone(ws, rev) ELSE ws
            due == owed \/ (o.moved /\ ~ready)
            served == due /\ AnyoneReady(after) /\ second
        IN /\ session' = o.session
           /\ viewers' = IF served THEN Everyone(after, rev) ELSE after
           /\ owed' = (due /\ ~served)
           /\ missed' = IF shown \/ served THEN {}
                        ELSE IF o.silent \/ (o.moved /\ ready /\ ~first) THEN Joined
                        ELSE missed
  BY ZenonT(60) DEF Present, Rendered
<1> DEFINE ready == AnyoneReady(ws)
           shown == o.moved /\ ready /\ first
           after == IF shown THEN Everyone(ws, rev) ELSE ws
           due == owed \/ (o.moved /\ ~ready)
           served == due /\ AnyoneReady(after) /\ second
<1>2. /\ viewers' = IF served THEN Everyone(after, rev) ELSE after
      /\ owed' = (due /\ ~served)
      /\ missed' = IF shown \/ served THEN {}
                   ELSE IF o.silent \/ (o.moved /\ ready /\ ~first) THEN Joined
                   ELSE missed
  BY <1>1
<1>3. session' = o.session BY <1>1
<1> HIDE DEF rev, ready, served
<1>4. Fared(ws, after, rev) /\ (shown => ShownTo(after, rev))
  BY <1>0, EveryoneFares, NobodyFares
<1>5. after \in [Viewers -> ViewerRecords] BY <1>4 DEF Fared
<1> HIDE DEF after
<1>6. Fared(ws, viewers', rev) /\ (shown \/ served => ShownTo(viewers', rev))
  <2>1. CASE served
    <3>1. viewers' = Everyone(after, rev) BY <1>2, <2>1
    <3> QED BY <1>0, <1>4, <1>5, <2>1, <3>1, EveryoneFares, FareTwice
  <2>2. CASE ~served
    <3>1. viewers' = after BY <1>2, <2>2
    <3> QED BY <1>4, <2>2, <3>1
  <2> QED BY <2>1, <2>2
<1>7. owed' \in BOOLEAN BY <1>2
<1>8. missed' \subseteq Viewers
  <2>1. Joined \subseteq Viewers BY DEF Joined
  <2> QED BY <1>2, <2>1
<1>9. ASSUME ~shown, ~served
      PROVE  /\ viewers' = ws
             /\ \/ owed' \/ missed' = Joined
                \/ ~o.moved /\ ~o.silent /\ owed' = owed /\ missed' = missed
  <2>1. viewers' = ws BY <1>2, <1>9 DEF after
  <2>2. owed' = due BY <1>2, <1>9
  <2>3. CASE o.silent \/ (o.moved /\ ready /\ ~first) BY <1>2, <1>9, <2>1, <2>3
  <2>4. CASE ~(o.silent \/ (o.moved /\ ready /\ ~first))
    <3>1. missed' = missed BY <1>2, <1>9, <2>4
    <3>2. CASE o.moved
      <4>1. ~ready BY <1>9, <2>4, <3>2
      <4>2. owed' BY <2>2, <3>2, <4>1
      <4> QED BY <2>1, <4>2
    <3>3. CASE ~o.moved
      <4>1. owed' = owed BY <2>2, <3>3
      <4> QED BY <2>1, <2>4, <3>1, <3>3, <4>1
    <3> QED BY <3>2, <3>3
  <2> QED BY <2>3, <2>4
<1> QED BY <1>3, <1>6, <1>7, <1>8, <1>9 DEF rev

-----------------------------------------------------------------------------
(* The inductive invariant: with the properties, that a viewer is paced    *)
(* exactly when its config has asked for it, and that frames are in line.  *)

Paced ==
  \A v \in Viewers :
    /\ viewers[v].ack_pacing <=> clients[v].configured /\ clients[v].paces
    /\ clients[v].at # "on" => ~clients[v].configured

AllInLine == \A v \in Joined : InLine(viewers[v], clients[v].drawn, session.rev)

Inv == /\ TypeOK /\ session.rev # 0
       /\ ReadingsHold
       /\ Paced
       /\ AllInLine
       /\ NothingForgotten

LEMMA NewestIsLatest == \A v : Newest(v) = Latest(viewers[v], clients[v].drawn)
BY DEF Newest, Latest

LEMMA BacklogIsSurplus ==
  ASSUME NEW v \in Viewers, Inv, Inv'
  PROVE  /\ Backlog(v) = Surplus(viewers[v]) + clients[v].acks
         /\ Backlog(v)' = Surplus(viewers'[v]) + clients'[v].acks
         /\ Surplus(viewers[v]) \in Int /\ Surplus(viewers'[v]) \in Int
         /\ clients[v].acks \in Nat /\ clients'[v].acks \in Nat
         /\ clients[v].drawn \in Nat /\ clients'[v].drawn \in Nat
<1>1. viewers[v] \in ViewerRecords /\ viewers'[v] \in ViewerRecords BY DEF Inv, TypeOK
<1>2. clients[v] \in ClientRecords /\ clients'[v] \in ClientRecords BY DEF Inv, TypeOK
<1>4. /\ clients[v].acks \in Nat /\ clients'[v].acks \in Nat
      /\ clients[v].drawn \in Nat /\ clients'[v].drawn \in Nat
  BY <1>2 DEF ClientRecords
<1>5. Backlog(v) = Surplus(viewers[v]) + clients[v].acks BY DEF Backlog
<1>6. Backlog(v)' = Surplus(viewers'[v]) + clients'[v].acks BY DEF Backlog, Surplus
<1> QED BY <1>1, <1>4, <1>5, <1>6, SurplusType

LEMMA NewViewerFacts ==
  /\ NewViewer \in ViewerRecords /\ ~NewViewer.ack_pacing
  /\ NewClient \in ClientRecords /\ NewClient.drawn = 0 /\ ~NewClient.configured
  /\ \A rev \in Nat : InLine(NewViewer, 0, rev)
BY DEF NewViewer, NewClient, ViewerRecords, ClientRecords, InLine, NoFrame

\* A change of the clients alone that the invariant does not see.
SameClients ==
  /\ clients' \in [Viewers -> ClientRecords]
  /\ \A v \in Viewers : /\ clients'[v].at = clients[v].at
                         /\ clients'[v].drawn = clients[v].drawn

\* What follows once everybody, or nobody, has been sent the page.
LEMMA ShownFacts ==
  ASSUME Inv, NEW ws \in [Viewers -> ViewerRecords], NEW o, Good(session, o),
         SameClients, session' = o.session, owed' \in BOOLEAN, missed' \subseteq Viewers,
         Fared(ws, viewers', o.session.rev),
         \/ ShownTo(viewers', o.session.rev)
         \/ /\ viewers' = ws
            /\ \/ owed' \/ missed' = Joined
               \/ ~o.moved /\ ~o.silent /\ (owed => owed') /\ missed' = missed,
         \A v \in Viewers :
           /\ ws[v].ack_pacing <=> clients'[v].configured /\ clients'[v].paces
           /\ clients[v].at # "on" => ~clients'[v].configured
           /\ Latest(ws[v], clients[v].drawn) = Latest(viewers[v], clients[v].drawn),
         \A v \in Joined : InLine(ws[v], clients[v].drawn, session.rev)
  PROVE  Inv'
<1>0. Joined' = Joined BY DEF Joined, SameClients
<1>1. /\ o.session \in Sessions /\ session \in Sessions /\ session.rev <= o.session.rev
      /\ Remembered(session) => Remembered(o.session)
  BY DEF Good, Onward, Inv, TypeOK
<1>2. TypeOK' BY <1>1 DEF TypeOK, Fared, SameClients
<1>3. session'.rev # 0 BY <1>1 DEF Inv, Sessions
<1>4. ReadingsHold' BY <1>1 DEF Inv, ReadingsHold, Remembered
<1>5. Paced'
  <2>1. ASSUME NEW v \in Viewers
        PROVE  /\ viewers'[v].ack_pacing <=> clients'[v].configured /\ clients'[v].paces
               /\ clients'[v].at # "on" => ~clients'[v].configured
    <3>1. viewers'[v].ack_pacing = ws[v].ack_pacing BY DEF Fared
    <3> QED BY <3>1 DEF SameClients
  <2> QED BY <2>1 DEF Paced
<1>6. AllInLine'
  <2>1. ASSUME NEW v \in Joined PROVE InLine(viewers'[v], clients'[v].drawn, session'.rev)
    <3>1. v \in Viewers /\ clients[v].drawn \in Nat
      BY DEF Joined, Inv, TypeOK, ClientRecords
    <3>2. session.rev \in Nat BY <1>1 DEF Sessions
    <3>3. InLine(viewers'[v], clients[v].drawn, o.session.rev)
      BY <1>1, <3>1, <3>2 DEF Fared
    <3> QED BY <3>1, <3>3 DEF SameClients
  <2> QED BY <1>0, <2>1 DEF AllInLine
<1>7. NothingForgotten'
  <2> SUFFICES ASSUME NEW v \in Joined, ~owed', v \notin missed'
               PROVE  Latest(viewers'[v], clients'[v].drawn) = session'.rev
    BY <1>0 DEF NothingForgotten, Newest, Latest
  <2>1. v \in Viewers /\ clients'[v].drawn = clients[v].drawn BY DEF Joined, SameClients
  <2>2. CASE ShownTo(viewers', o.session.rev) BY <2>2 DEF ShownTo
  <2>3. CASE ~ShownTo(viewers', o.session.rev)
    <3>1. viewers' = ws /\ ~o.moved /\ ~o.silent /\ ~owed /\ missed' = missed
      BY <2>3
    <3>2. session'.rev = session.rev BY <3>1 DEF Good
    <3>3. Latest(viewers[v], clients[v].drawn) = session.rev
      BY <3>1, NewestIsLatest DEF Inv, NothingForgotten
    <3> QED BY <2>1, <3>1, <3>2, <3>3
  <2> QED BY <2>2, <2>3
<1> QED BY <1>2, <1>3, <1>4, <1>5, <1>6, <1>7 DEF Inv

LEMMA GoodFacts ==
  ASSUME Inv, NEW o, Good(session, o)
  PROVE  o \in Told /\ o.session.rev # 0 /\ o.session.rev \in Nat
<1>1. o \in Told /\ o.session \in Sessions /\ session.rev <= o.session.rev
  BY DEF Good, Onward
<1> QED BY <1>1 DEF Inv, TypeOK, Sessions

LEMMA InvInit == Init => Inv
<1> SUFFICES ASSUME Init PROVE Inv OBVIOUS
<1>1. session \in Sessions BY PageAssumption DEF Init, Sessions
<1>2. viewers \in [Viewers -> ViewerRecords] BY NewViewerFacts DEF Init
<1>3. clients \in [Viewers -> ClientRecords] BY NewViewerFacts DEF Init
<1>4. TypeOK BY <1>1, <1>2, <1>3 DEF Init, TypeOK
<1>5. Joined = {} BY DEF Init, Joined, NewClient
<1>6. ReadingsHold BY DEF Init, ReadingsHold
<1>7. Paced BY NewViewerFacts DEF Init, Paced
<1>8. session.rev # 0 BY DEF Init
<1> QED BY <1>4, <1>5, <1>6, <1>7, <1>8 DEF Inv, AllInLine, NothingForgotten

-----------------------------------------------------------------------------
(* One lemma per action.                                                   *)

LEMMA ControlStep ==
  ASSUME Inv, NEW verb \in Verbs, Control(verb)
  PROVE  Inv' /\ NeverBehind
<1>1. PICK o \in ControlVerb(session, verb), painted \in BOOLEAN :
        /\ session' = o.session
        /\ viewers' = IF o.moved /\ painted THEN Everyone(viewers, o.session.rev) ELSE viewers
        /\ missed' = IF o.moved /\ painted THEN {}
                     ELSE IF o.moved \/ o.silent THEN Joined ELSE missed
        /\ UNCHANGED <<owed, clients>>
  BY DEF Control, Rendered
<1>2. Good(session, o) BY ControlGood DEF Inv, TypeOK
<1>3. o.session.rev \in Nat \ {0} BY <1>2, GoodFacts
<1>4. viewers \in [Viewers -> ViewerRecords] BY DEF Inv, TypeOK
<1>5. SameClients BY <1>1 DEF SameClients, Inv, TypeOK
<1>6. Fared(viewers, viewers', o.session.rev)
  BY <1>1, <1>3, <1>4, EveryoneFares, NobodyFares
<1>7. \/ ShownTo(viewers', o.session.rev)
      \/ /\ viewers' = viewers
         /\ \/ owed' \/ missed' = Joined
            \/ ~o.moved /\ ~o.silent /\ (owed => owed') /\ missed' = missed
  <2>1. CASE o.moved /\ painted BY <1>1, <1>3, <1>4, <2>1, EveryoneFares
  <2>2. CASE ~(o.moved /\ painted) /\ (o.moved \/ o.silent) BY <1>1, <2>2
  <2>3. CASE ~o.moved /\ ~o.silent BY <1>1, <2>3
  <2> QED BY <2>1, <2>2, <2>3
<1>8. owed' \in BOOLEAN /\ missed' \subseteq Viewers
  <2>1. Joined \subseteq Viewers BY DEF Joined
  <2>2. owed \in BOOLEAN /\ missed \subseteq Viewers BY DEF Inv, TypeOK
  <2> QED BY <1>1, <2>1, <2>2
<1>9. Inv'
  <2>1. \A v \in Viewers :
          /\ viewers[v].ack_pacing <=> clients'[v].configured /\ clients'[v].paces
          /\ clients[v].at # "on" => ~clients'[v].configured
    BY <1>1 DEF Inv, Paced
  <2>2. \A v \in Joined : InLine(viewers[v], clients[v].drawn, session.rev)
    BY DEF Inv, AllInLine
  <2> QED BY <1>1, <1>2, <1>4, <1>5, <1>6, <1>7, <1>8, <2>1, <2>2, ShownFacts
<1>10. NeverBehind
  <2> SUFFICES ASSUME NEW v \in Viewers
               PROVE  /\ clients[v].drawn <= clients'[v].drawn
                      /\ clients[v].configured /\ clients[v].paces => Backlog(v)' <= Backlog(v)
    BY DEF NeverBehind
  <2>1. clients[v].configured /\ clients[v].paces
           => Surplus(viewers'[v]) <= Surplus(viewers[v])
    BY <1>6 DEF Fared, Inv, Paced
  <2> QED BY <1>1, <1>9, <2>1, BacklogIsSurplus
<1> QED BY <1>9, <1>10

LEMMA InputStep ==
  ASSUME Inv, NEW v \in Viewers, NEW input \in Inputs, Input(v, input)
  PROVE  Inv' /\ NeverBehind
<1>1. PICK o \in Handled(session, input) : Present(viewers, o) /\ UNCHANGED clients
  BY DEF Input
<1>2. Good(session, o) BY HandledGood DEF Inv, TypeOK
<1>3. o \in Told /\ o.session.rev # 0 BY <1>2, GoodFacts
<1>4. viewers \in [Viewers -> ViewerRecords] /\ owed \in BOOLEAN /\ missed \subseteq Viewers
  BY DEF Inv, TypeOK
<1>5. SameClients BY <1>1 DEF SameClients, Inv, TypeOK
<1>6. /\ session' = o.session
      /\ Fared(viewers, viewers', o.session.rev)
      /\ owed' \in BOOLEAN /\ missed' \subseteq Viewers
      /\ \/ ShownTo(viewers', o.session.rev)
         \/ /\ viewers' = viewers
            /\ \/ owed' \/ missed' = Joined
               \/ ~o.moved /\ ~o.silent /\ owed' = owed /\ missed' = missed
  BY <1>1, <1>3, <1>4, PresentFacts
<1>7. Inv'
  <2>1. \A u \in Viewers :
          /\ viewers[u].ack_pacing <=> clients'[u].configured /\ clients'[u].paces
          /\ clients[u].at # "on" => ~clients'[u].configured
    BY <1>1 DEF Inv, Paced
  <2>2. \A u \in Joined : InLine(viewers[u], clients[u].drawn, session.rev)
    BY DEF Inv, AllInLine
  <2> QED BY <1>2, <1>4, <1>5, <1>6, <2>1, <2>2, ShownFacts
<1>8. NeverBehind
  <2> SUFFICES ASSUME NEW u \in Viewers
               PROVE  /\ clients[u].drawn <= clients'[u].drawn
                      /\ clients[u].configured /\ clients[u].paces => Backlog(u)' <= Backlog(u)
    BY DEF NeverBehind
  <2>1. clients[u].configured /\ clients[u].paces
           => Surplus(viewers'[u]) <= Surplus(viewers[u])
    BY <1>6 DEF Fared, Inv, Paced
  <2> QED BY <1>1, <1>7, <2>1, BacklogIsSurplus
<1> QED BY <1>7, <1>8

\* What is held for a viewer becomes the one frame that is out.
LEMMA ReleasedFacts ==
  ASSUME NEW w \in ViewerRecords
  PROVE  /\ Released(w) \in ViewerRecords
         /\ Released(w).ack_pacing = w.ack_pacing
         /\ w.ack_pacing => Surplus(Released(w)) <= Surplus(w) + 1
         /\ \A d : Latest(Released(w), d) = Latest(w, d)
         /\ \A d, r \in Nat : InLine(w, d, r) => InLine(Released(w), d, r)
<1>0. /\ w.tx \in Seq(Nat) /\ w.pending \in Nat
      /\ w.awaiting_ack \in BOOLEAN /\ w.ack_pacing \in BOOLEAN
      /\ w.pending # NoFrame => w.awaiting_ack
      /\ w.awaiting_ack => w.ack_pacing
      /\ w \in [tx : Seq(Nat), ack_pacing : BOOLEAN, awaiting_ack : BOOLEAN, pending : Nat]
  BY DEF ViewerRecords
<1>1. Len(w.tx) \in Nat BY <1>0
<1>2. CASE w.pending = NoFrame
  <2> DEFINE u == [w EXCEPT !.awaiting_ack = FALSE]
  <2>1. Released(w) = u BY <1>2 DEF Released
  <2>2. u.tx = w.tx /\ u.pending = w.pending BY <1>0
  <2>3. u.ack_pacing = w.ack_pacing BY <1>0, Zenon
  <2>4. ~u.awaiting_ack BY <1>0, Zenon
  <2>5. u \in ViewerRecords BY <1>0, <1>2, <2>2, <2>4 DEF ViewerRecords
  <2> HIDE DEF u
  <2>6. Surplus(u) <= Surplus(w) + 1 BY <1>0, <2>2, <2>4, <2>5, SurplusType
  <2>7. \A d : Latest(u, d) = Latest(w, d) BY <2>2 DEF Latest
  <2>8. \A d, r \in Nat : InLine(w, d, r) => InLine(u, d, r) BY <2>2 DEF InLine
  <2> QED BY <2>1, <2>3, <2>5, <2>6, <2>7, <2>8
<1>3. CASE w.pending # NoFrame
  <2> DEFINE m == [w EXCEPT !.awaiting_ack = FALSE, !.pending = NoFrame]
             u == SendFrame(m, w.pending)
  <2>1. Released(w) = u BY <1>3 DEF Released
  <2>2. m.tx = w.tx /\ m.pending = NoFrame BY <1>0
  <2>3. m.ack_pacing = w.ack_pacing BY <1>0, Zenon
  <2>4. ~m.awaiting_ack BY <1>0, Zenon
  <2>5. m \in ViewerRecords BY <1>0, <2>2, <2>4 DEF ViewerRecords, NoFrame
  <2> HIDE DEF m
  <2>6. CanTake(m) BY <2>4 DEF CanTake
  <2>7. w.pending \in Nat \ {0} BY <1>0, <1>3 DEF NoFrame
  <2>8. u \in ViewerRecords /\ u.ack_pacing = w.ack_pacing BY <2>3, <2>5, <2>7, SentCases
  <2>9. w.ack_pacing => Surplus(u) <= Surplus(w) + 1
    <3>1. w.ack_pacing => Surplus(u) <= Surplus(m) BY <2>3, <2>5, <2>7, SentFacts
    <3>2. Surplus(m) <= Surplus(w) + 1 BY <1>0, <2>2, <2>4, <2>5, SurplusType
    <3>3. Surplus(u) \in Int /\ Surplus(m) \in Int /\ Surplus(w) \in Int
      BY <2>5, <2>8, SurplusType
    <3> QED BY <3>1, <3>2, <3>3
  <2>10. \A d : Latest(u, d) = Latest(w, d)
    <3>1. \A d : Latest(u, d) = w.pending BY <2>5, <2>7, SentFacts
    <3> QED BY <1>3, <3>1 DEF Latest
  <2>11. ASSUME NEW d \in Nat, NEW r \in Nat, InLine(w, d, r) PROVE InLine(u, d, r)
    <3>1. \A i \in 1..Len(w.tx) : w.tx[i] \in Nat BY <1>0
    <3>2. InLine(m, d, w.pending)
      <4>1. d <= w.pending /\ m.pending <= w.pending BY <1>0, <1>3, <2>2, <2>11 DEF InLine, NoFrame
      <4>2. \A i \in 1..Len(w.tx) : d <= w.tx[i] /\ w.tx[i] <= w.pending
        BY <1>3, <2>11 DEF InLine
      <4>3. \A i, j \in 1..Len(w.tx) : i <= j => w.tx[i] <= w.tx[j] BY <2>11 DEF InLine
      <4> QED BY <2>2, <4>1, <4>2, <4>3 DEF InLine
    <3>3. InLine(u, d, w.pending) BY <2>5, <2>7, <3>2, SentFacts
    <3>4. w.pending <= r BY <2>11 DEF InLine
    <3> HIDE DEF u
    <3> QED BY <2>7, <2>8, <3>3, <3>4, LineStays
  <2> QED BY <2>1, <2>8, <2>9, <2>10, <2>11
<1> QED BY <1>2, <1>3

LEMMA AckStep ==
  ASSUME Inv, NEW v \in Viewers, Ack(v)
  PROVE  Inv' /\ NeverBehind
<1> DEFINE ws == [viewers EXCEPT ![v] = Released(@)]
<1>1. /\ v \in Joined /\ clients[v].acks > 0
      /\ clients' = [clients EXCEPT ![v].acks = @ - 1]
  BY DEF Ack
<1>2. PICK o \in Quiet(session) : Present(ws, o) BY DEF Ack
<1>3. viewers \in [Viewers -> ViewerRecords] /\ owed \in BOOLEAN /\ missed \subseteq Viewers
  BY DEF Inv, TypeOK
<1>4. clients \in [Viewers -> ClientRecords] BY DEF Inv, TypeOK
<1>5. /\ ws \in [Viewers -> ViewerRecords] /\ ws[v] = Released(viewers[v])
      /\ \A u \in Viewers \ {v} : ws[u] = viewers[u]
  BY <1>3, ReleasedFacts
<1> HIDE DEF ws
<1>6. Good(session, o) BY QuietGood DEF Inv, TypeOK
<1>7. o \in Told /\ o.session.rev # 0 BY <1>6, GoodFacts
<1>8. /\ session' = o.session
      /\ Fared(ws, viewers', o.session.rev)
      /\ owed' \in BOOLEAN /\ missed' \subseteq Viewers
      /\ \/ ShownTo(viewers', o.session.rev)
         \/ /\ viewers' = ws
            /\ \/ owed' \/ missed' = Joined
               \/ ~o.moved /\ ~o.silent /\ owed' = owed /\ missed' = missed
  BY <1>2, <1>3, <1>5, <1>7, PresentFacts
<1>9. /\ clients' \in [Viewers -> ClientRecords]
      /\ \A u \in Viewers \ {v} : clients'[u] = clients[u]
      /\ clients'[v].acks = clients[v].acks - 1
      /\ clients'[v].at = clients[v].at /\ clients'[v].drawn = clients[v].drawn
      /\ clients'[v].configured = clients[v].configured
      /\ clients'[v].paces = clients[v].paces
  <2>1. clients[v] \in ClientRecords /\ clients[v].acks - 1 \in Nat
    BY <1>1, <1>4 DEF ClientRecords
  <2>2. [clients[v] EXCEPT !.acks = @ - 1] \in ClientRecords BY <2>1 DEF ClientRecords
  <2>3. clients'[v] = [clients[v] EXCEPT !.acks = @ - 1] BY <1>1, <1>4
  <2>4. /\ clients'[v].acks = clients[v].acks - 1
        /\ clients'[v].at = clients[v].at /\ clients'[v].drawn = clients[v].drawn
    BY <2>1, <2>3 DEF ClientRecords
  <2>5. /\ clients'[v].configured = clients[v].configured
        /\ clients'[v].paces = clients[v].paces
    BY <2>1, <2>3, Zenon DEF ClientRecords
  <2> QED BY <1>1, <1>4, <2>2, <2>3, <2>4, <2>5
<1>10. SameClients BY <1>9 DEF SameClients
<1>11. ASSUME NEW u \in Viewers
       PROVE  /\ ws[u].ack_pacing = viewers[u].ack_pacing
              /\ Latest(ws[u], clients[u].drawn) = Latest(viewers[u], clients[u].drawn)
              /\ clients'[u].configured = clients[u].configured
              /\ clients'[u].paces = clients[u].paces
  BY <1>3, <1>5, <1>9, ReleasedFacts
<1>12. \A u \in Viewers :
         /\ ws[u].ack_pacing <=> clients'[u].configured /\ clients'[u].paces
         /\ clients[u].at # "on" => ~clients'[u].configured
  BY <1>11 DEF Inv, Paced
<1>13. ASSUME NEW u \in Joined PROVE InLine(ws[u], clients[u].drawn, session.rev)
  <2>1. u \in Viewers /\ clients[u].drawn \in Nat BY <1>4 DEF Joined, ClientRecords
  <2>2. session.rev \in Nat BY DEF Inv, TypeOK, Sessions
  <2>3. InLine(viewers[u], clients[u].drawn, session.rev) BY DEF Inv, AllInLine
  <2> QED BY <1>3, <1>5, <2>1, <2>2, <2>3, ReleasedFacts
<1>14. Inv' BY <1>5, <1>6, <1>8, <1>10, <1>11, <1>12, <1>13, ShownFacts
<1>15. NeverBehind
  <2> SUFFICES ASSUME NEW u \in Viewers
               PROVE  /\ clients[u].drawn <= clients'[u].drawn
                      /\ clients[u].configured /\ clients[u].paces => Backlog(u)' <= Backlog(u)
    BY DEF NeverBehind
  <2>1. clients'[u].drawn = clients[u].drawn BY <1>10 DEF SameClients
  <2>2. ASSUME clients[u].configured, clients[u].paces PROVE Backlog(u)' <= Backlog(u)
    <3>1. viewers[u].ack_pacing /\ ws[u].ack_pacing BY <1>11, <2>2 DEF Inv, Paced
    <3>2. Surplus(viewers'[u]) <= Surplus(ws[u]) BY <1>8, <3>1 DEF Fared
    <3>3. Surplus(ws[u]) \in Int BY <1>5, SurplusType
    <3>4. CASE u = v
      <4>1. Surplus(ws[u]) <= Surplus(viewers[u]) + 1
        BY <1>3, <1>5, <3>1, <3>4, ReleasedFacts
      <4>2. clients'[u].acks = clients[u].acks - 1 BY <1>9, <3>4
      <4> QED BY <1>14, <3>2, <3>3, <4>1, <4>2, BacklogIsSurplus
    <3>5. CASE u # v
      <4>1. ws[u] = viewers[u] /\ clients'[u].acks = clients[u].acks BY <1>5, <1>9, <3>5
      <4> QED BY <1>14, <3>2, <4>1, BacklogIsSurplus
    <3> QED BY <3>4, <3>5
  <2> QED BY <1>14, <2>1, <2>2, BacklogIsSurplus
<1> QED BY <1>14, <1>15

LEMMA ConfigStep ==
  ASSUME Inv, NEW v \in Viewers, Config(v)
  PROVE  Inv' /\ NeverBehind
<1> DEFINE ws == [viewers EXCEPT ![v].ack_pacing = clients[v].paces]
<1>1. /\ v \in Joined /\ ~clients[v].configured
      /\ clients' = [clients EXCEPT ![v].configured = TRUE]
  BY DEF Config
<1>2. PICK o \in Moved({session}) : Present(ws, o) BY DEF Config
<1>3. viewers \in [Viewers -> ViewerRecords] /\ owed \in BOOLEAN /\ missed \subseteq Viewers
  BY DEF Inv, TypeOK
<1>4. clients \in [Viewers -> ClientRecords] BY DEF Inv, TypeOK
<1>5. /\ ws \in [Viewers -> ViewerRecords]
      /\ ws[v].tx = viewers[v].tx /\ ws[v].pending = viewers[v].pending
      /\ ws[v].ack_pacing = clients[v].paces
      /\ \A u \in Viewers \ {v} : ws[u] = viewers[u]
  <2>1. viewers[v] \in ViewerRecords /\ clients[v].paces \in BOOLEAN
    BY <1>3, <1>4 DEF ClientRecords
  <2> DEFINE u == [viewers[v] EXCEPT !.ack_pacing = clients[v].paces]
  <2>2. ws = [viewers EXCEPT ![v] = u] BY <1>3
  <2>3. u.tx = viewers[v].tx /\ u.pending = viewers[v].pending BY <2>1 DEF ViewerRecords
  <2>4. u.ack_pacing = clients[v].paces /\ u.awaiting_ack = viewers[v].awaiting_ack
    BY <2>1, Zenon DEF ViewerRecords
  <2>5. ~viewers[v].awaiting_ack /\ viewers[v].pending = NoFrame
    BY <1>1, <2>1 DEF Inv, Paced, ViewerRecords
  <2>6. u \in [tx : Seq(Nat), ack_pacing : BOOLEAN, awaiting_ack : BOOLEAN, pending : Nat]
    BY <2>1 DEF ViewerRecords
  <2>7. u \in ViewerRecords BY <2>3, <2>4, <2>5, <2>6 DEF ViewerRecords
  <2> HIDE DEF u
  <2> QED BY <1>3, <2>2, <2>3, <2>4, <2>7
<1> HIDE DEF ws
<1>6. Good(session, o)
  <2>1. \A t \in {session} : Onward(session, t) BY OnwardSame DEF Inv, TypeOK
  <2> QED BY <2>1, MovedGood
<1>7. o \in Told /\ o.session.rev # 0 BY <1>6, GoodFacts
<1>8. /\ session' = o.session
      /\ Fared(ws, viewers', o.session.rev)
      /\ owed' \in BOOLEAN /\ missed' \subseteq Viewers
      /\ \/ ShownTo(viewers', o.session.rev)
         \/ /\ viewers' = ws
            /\ \/ owed' \/ missed' = Joined
               \/ ~o.moved /\ ~o.silent /\ owed' = owed /\ missed' = missed
  BY <1>2, <1>3, <1>5, <1>7, PresentFacts
<1>9. /\ clients' \in [Viewers -> ClientRecords]
      /\ \A u \in Viewers \ {v} : clients'[u] = clients[u]
      /\ clients'[v].acks = clients[v].acks
      /\ clients'[v].at = clients[v].at /\ clients'[v].drawn = clients[v].drawn
      /\ clients'[v].configured /\ clients'[v].paces = clients[v].paces
  <2>1. clients[v] \in ClientRecords BY <1>4
  <2>2. [clients[v] EXCEPT !.configured = TRUE] \in ClientRecords BY <2>1 DEF ClientRecords
  <2>3. clients'[v] = [clients[v] EXCEPT !.configured = TRUE] BY <1>1, <1>4
  <2>4. /\ clients'[v].acks = clients[v].acks
        /\ clients'[v].at = clients[v].at /\ clients'[v].drawn = clients[v].drawn
    BY <2>1, <2>3 DEF ClientRecords
  <2>5. clients'[v].configured /\ clients'[v].paces = clients[v].paces
    BY <2>1, <2>3, Zenon DEF ClientRecords
  <2> QED BY <1>1, <1>4, <2>2, <2>3, <2>4, <2>5
<1>10. SameClients BY <1>9 DEF SameClients
<1>11. ASSUME NEW u \in Viewers
       PROVE  /\ Latest(ws[u], clients[u].drawn) = Latest(viewers[u], clients[u].drawn)
              /\ \A d, r : InLine(viewers[u], d, r) => InLine(ws[u], d, r)
  BY <1>5 DEF Latest, InLine
<1>12. ASSUME NEW u \in Viewers
       PROVE  /\ ws[u].ack_pacing <=> clients'[u].configured /\ clients'[u].paces
              /\ clients[u].at # "on" => ~clients'[u].configured
  <2>1. CASE u = v
    <3>1. clients[v].at = "on" BY <1>1 DEF Joined
    <3> QED BY <1>5, <1>9, <2>1, <3>1
  <2>2. CASE u # v BY <1>5, <1>9, <2>2 DEF Inv, Paced
  <2> QED BY <2>1, <2>2
<1>13. \A u \in Joined : InLine(ws[u], clients[u].drawn, session.rev)
  BY <1>11 DEF Inv, AllInLine, Joined
<1>14. Inv' BY <1>5, <1>6, <1>8, <1>10, <1>11, <1>12, <1>13, ShownFacts
<1>15. NeverBehind
  <2> SUFFICES ASSUME NEW u \in Viewers
               PROVE  /\ clients[u].drawn <= clients'[u].drawn
                      /\ clients[u].configured /\ clients[u].paces => Backlog(u)' <= Backlog(u)
    BY DEF NeverBehind
  <2>1. clients'[u].drawn = clients[u].drawn BY <1>10 DEF SameClients
  <2>2. ASSUME clients[u].configured, clients[u].paces PROVE Backlog(u)' <= Backlog(u)
    <3>1. u # v BY <1>1, <2>2
    <3>2. ws[u] = viewers[u] /\ clients'[u].acks = clients[u].acks BY <1>5, <1>9, <3>1
    <3>3. viewers[u].ack_pacing BY <2>2 DEF Inv, Paced
    <3>4. Surplus(viewers'[u]) <= Surplus(viewers[u]) BY <1>8, <3>2, <3>3 DEF Fared
    <3> QED BY <1>14, <3>2, <3>4, BacklogIsSurplus
  <2> QED BY <1>14, <2>1, <2>2, BacklogIsSurplus
<1> QED BY <1>14, <1>15

\* When only one viewer is concerned, it is enough to look at that one.
LEMMA OneViewer ==
  ASSUME Inv, NEW v \in Viewers, UNCHANGED <<session, owed>>,
         viewers' \in [Viewers -> ViewerRecords], clients' \in [Viewers -> ClientRecords],
         missed' \subseteq Viewers, missed \subseteq missed' \cup {v},
         \A u \in Viewers \ {v} : viewers'[u] = viewers[u] /\ clients'[u] = clients[u],
         viewers'[v].ack_pacing <=> clients'[v].configured /\ clients'[v].paces,
         clients'[v].at # "on" => ~clients'[v].configured,
         clients'[v].at = "on" =>
           /\ InLine(viewers'[v], clients'[v].drawn, session.rev)
           /\ \/ Latest(viewers'[v], clients'[v].drawn) = session.rev
              \/ owed \/ v \in missed',
         clients[v].at = "on" /\ clients'[v].at = "on" =>
           /\ clients[v].drawn <= clients'[v].drawn
           /\ Surplus(viewers'[v]) + clients'[v].acks <= Surplus(viewers[v]) + clients[v].acks
  PROVE  Inv' /\ NeverBehind
<1>1. TypeOK' BY DEF Inv, TypeOK
<1>2. session'.rev # 0 /\ ReadingsHold' BY DEF Inv, ReadingsHold
<1>3. Paced'
  <2>1. ASSUME NEW u \in Viewers
        PROVE  /\ viewers'[u].ack_pacing <=> clients'[u].configured /\ clients'[u].paces
               /\ clients'[u].at # "on" => ~clients'[u].configured
    <3>1. CASE u = v BY <3>1
    <3>2. CASE u # v BY <3>2 DEF Inv, Paced
    <3> QED BY <3>1, <3>2
  <2> QED BY <2>1 DEF Paced
<1>4. ASSUME NEW u \in Viewers, clients'[u].at = "on"
      PROVE  /\ InLine(viewers'[u], clients'[u].drawn, session.rev)
             /\ \/ Latest(viewers'[u], clients'[u].drawn) = session.rev
                \/ owed \/ u \in missed'
  <2>1. CASE u = v BY <1>4, <2>1
  <2>2. CASE u # v
    <3>1. u \in Joined BY <1>4, <2>2 DEF Joined
    <3>2. InLine(viewers[u], clients[u].drawn, session.rev) BY <3>1 DEF Inv, AllInLine
    <3>3. Latest(viewers[u], clients[u].drawn) = session.rev \/ owed \/ u \in missed
      BY <3>1, NewestIsLatest DEF Inv, NothingForgotten
    <3> QED BY <2>2, <3>2, <3>3
  <2> QED BY <2>1, <2>2
<1>5. AllInLine' BY <1>4 DEF AllInLine, Joined
<1>6. NothingForgotten' BY <1>4 DEF NothingForgotten, Joined, Newest, Latest
<1>7. Inv' BY <1>1, <1>2, <1>3, <1>5, <1>6 DEF Inv
<1>8. NeverBehind
  <2> SUFFICES ASSUME NEW u \in Viewers, clients[u].at = "on", clients'[u].at = "on"
               PROVE  /\ clients[u].drawn <= clients'[u].drawn
                      /\ clients[u].configured /\ clients[u].paces => Backlog(u)' <= Backlog(u)
    BY DEF NeverBehind
  <2>1. CASE u = v BY <1>7, <2>1, BacklogIsSurplus
  <2>2. CASE u # v BY <1>7, <2>2, BacklogIsSurplus
  <2> QED BY <2>1, <2>2
<1> QED BY <1>7, <1>8

LEMMA JoinStep ==
  ASSUME Inv, NEW v \in Viewers, NEW paces \in BOOLEAN, Join(v, paces)
  PROVE  Inv' /\ NeverBehind
<1> DEFINE c == [NewClient EXCEPT !.at = "on", !.paces = paces]
<1>1. PICK painted \in BOOLEAN :
        /\ viewers' = [viewers EXCEPT ![v] =
                         IF painted THEN SendFrame(NewViewer, session.rev) ELSE NewViewer]
        /\ missed' = IF painted THEN missed ELSE missed \cup {v}
  BY DEF Join, Rendered
<1>2. /\ clients[v].at = "away" /\ clients' = [clients EXCEPT ![v] = c]
      /\ UNCHANGED <<session, owed>>
  BY DEF Join
<1>3. c \in ClientRecords /\ c.drawn = 0 /\ ~c.configured
  <2>1. c \in ClientRecords /\ c.drawn = 0 BY NewViewerFacts DEF ClientRecords
  <2>2. ~c.configured BY NewViewerFacts, Zenon DEF ClientRecords
  <2> QED BY <2>1, <2>2
<1> HIDE DEF c
<1>4. /\ clients' \in [Viewers -> ClientRecords] /\ clients'[v] = c
      /\ \A u \in Viewers \ {v} : clients'[u] = clients[u]
  BY <1>2, <1>3 DEF Inv, TypeOK
<1>5. session.rev \in Nat \ {0} BY DEF Inv, TypeOK, Sessions
<1> DEFINE first == SendFrame(NewViewer, session.rev)
<1>6. /\ first \in ViewerRecords /\ ~first.ack_pacing
      /\ Latest(first, 0) = session.rev
      /\ InLine(first, 0, session.rev)
  <2>1. first \in ViewerRecords /\ first.ack_pacing = NewViewer.ack_pacing
    BY <1>5, NewViewerFacts, SentCases
  <2>2. Latest(first, 0) = session.rev BY <1>5, NewViewerFacts, SentFacts
  <2>3. InLine(NewViewer, 0, session.rev) BY <1>5, NewViewerFacts
  <2>4. \A d, r \in Nat :
          InLine(NewViewer, d, r) /\ r <= session.rev => InLine(first, d, session.rev)
    BY <1>5, NewViewerFacts, SentFacts
  <2>5. InLine(first, 0, session.rev) BY <1>5, <2>3, <2>4
  <2> QED BY <2>1, <2>2, <2>5, NewViewerFacts
<1> HIDE DEF first
<1>7. viewers'[v] = IF painted THEN first ELSE NewViewer BY <1>1 DEF first, Inv, TypeOK
<1>8. \A u \in Viewers \ {v} : viewers'[u] = viewers[u] BY <1>1 DEF Inv, TypeOK
<1>9. viewers' \in [Viewers -> ViewerRecords]
  BY <1>1, <1>6, NewViewerFacts DEF first, Inv, TypeOK
<1>10. missed' \subseteq Viewers /\ missed \subseteq missed' \cup {v}
  BY <1>1 DEF Inv, TypeOK
<1>11. viewers'[v].ack_pacing <=> clients'[v].configured /\ clients'[v].paces
  BY <1>3, <1>4, <1>6, <1>7, NewViewerFacts
<1>12. clients'[v].at # "on" => ~clients'[v].configured BY <1>3, <1>4
<1>13. InLine(viewers'[v], clients'[v].drawn, session.rev)
  BY <1>3, <1>4, <1>5, <1>6, <1>7, NewViewerFacts
<1>14. Latest(viewers'[v], clients'[v].drawn) = session.rev \/ v \in missed'
  BY <1>1, <1>3, <1>4, <1>6, <1>7
<1>15. clients[v].at # "on" BY <1>2
<1> QED
  BY <1>2, <1>4, <1>8, <1>9, <1>10, <1>11, <1>12, <1>13, <1>14, <1>15, OneViewer

LEMMA LeaveStep ==
  ASSUME Inv, NEW v \in Viewers, Leave(v)
  PROVE  Inv' /\ NeverBehind
<1> DEFINE c == [NewClient EXCEPT !.at = "left"]
<1>1. c \in ClientRecords /\ c.at = "left" /\ ~c.configured
  <2>1. c \in ClientRecords /\ c.at = "left" BY NewViewerFacts DEF ClientRecords
  <2>2. ~c.configured BY NewViewerFacts, Zenon DEF ClientRecords
  <2> QED BY <2>1, <2>2
<1>2. /\ clients' = [clients EXCEPT ![v] = c] /\ viewers' = [viewers EXCEPT ![v] = NewViewer]
      /\ missed' = missed \ {v} /\ UNCHANGED <<session, owed>>
  BY DEF Leave
<1> HIDE DEF c
<1>3. /\ clients' \in [Viewers -> ClientRecords] /\ clients'[v] = c
      /\ \A u \in Viewers \ {v} : clients'[u] = clients[u]
  BY <1>1, <1>2 DEF Inv, TypeOK
<1>4. /\ viewers' \in [Viewers -> ViewerRecords] /\ viewers'[v] = NewViewer
      /\ \A u \in Viewers \ {v} : viewers'[u] = viewers[u]
  BY <1>2, NewViewerFacts DEF Inv, TypeOK
<1>5. missed' \subseteq Viewers /\ missed \subseteq missed' \cup {v}
  BY <1>2 DEF Inv, TypeOK
<1>6. clients'[v].at # "on" /\ ~clients'[v].configured BY <1>1, <1>3
<1>7. ~viewers'[v].ack_pacing BY <1>4, NewViewerFacts
<1> QED BY <1>2, <1>3, <1>4, <1>5, <1>6, <1>7, OneViewer

\* The frame at the head of the queue becomes the one that is on the screen.
LEMMA DrawnFacts ==
  ASSUME NEW w \in ViewerRecords, w.tx # <<>>, NEW u, u = [w EXCEPT !.tx = Tail(@)],
         NEW d \in Nat, NEW r \in Nat, InLine(w, d, r)
  PROVE  /\ u \in ViewerRecords /\ u.ack_pacing = w.ack_pacing
         /\ Head(w.tx) \in Nat /\ d <= Head(w.tx)
         /\ Surplus(u) = Surplus(w) - 1
         /\ Latest(u, Head(w.tx)) = Latest(w, d)
         /\ InLine(u, Head(w.tx), r)
<1>0. /\ w.tx \in Seq(Nat) /\ w.pending \in Nat
      /\ w.awaiting_ack \in BOOLEAN /\ w.ack_pacing \in BOOLEAN
      /\ w.pending # NoFrame => w.awaiting_ack
      /\ w.awaiting_ack => w.ack_pacing
      /\ w \in [tx : Seq(Nat), ack_pacing : BOOLEAN, awaiting_ack : BOOLEAN, pending : Nat]
  BY DEF ViewerRecords
<1> DEFINE t == Tail(w.tx)
           n == Len(w.tx)
<1>1. /\ n \in Nat \ {0} /\ t \in Seq(Nat) /\ Len(t) = n - 1
      /\ Head(w.tx) = w.tx[1] /\ \A i \in 1..n : w.tx[i] \in Nat
  BY <1>0
<1>2. \A i \in 1..(n - 1) : t[i] = w.tx[i + 1] BY <1>0
<1>3. u.tx = t /\ u.pending = w.pending BY <1>0
<1>4. u.ack_pacing = w.ack_pacing /\ u.awaiting_ack = w.awaiting_ack BY <1>0, Zenon
<1>5. u \in ViewerRecords
  <2>1. u \in [tx : Seq(Nat), ack_pacing : BOOLEAN, awaiting_ack : BOOLEAN, pending : Nat]
    BY <1>0, <1>1
  <2> QED BY <1>0, <1>3, <1>4, <2>1 DEF ViewerRecords
<1> HIDE DEF t, n
<1>6. Surplus(u) = Surplus(w) - 1 BY <1>1, <1>3, <1>4, <1>5, SurplusType DEF n
<1>7. Head(w.tx) \in Nat /\ d <= Head(w.tx) BY <1>1 DEF InLine, n
<1>8. Latest(u, Head(w.tx)) = Latest(w, d)
  <2>1. CASE w.pending # NoFrame BY <1>3, <2>1 DEF Latest
  <2>2. CASE w.pending = NoFrame /\ n = 1
    <3>1. t = <<>> BY <1>1, <2>2
    <3> QED BY <1>1, <1>3, <2>2, <3>1 DEF Latest, n
  <2>3. CASE w.pending = NoFrame /\ n # 1
    <3>1. n - 1 \in 1..(n - 1) /\ (n - 1) + 1 = n BY <1>1, <2>3
    <3>2. t # <<>> BY <1>1, <3>1
    <3>3. t[Len(t)] = w.tx[n] BY <1>1, <1>2, <3>1
    <3> QED BY <1>3, <2>3, <3>2, <3>3 DEF Latest, n
  <2> QED BY <2>1, <2>2, <2>3
<1>9. InLine(u, Head(w.tx), r)
  <2>1. 1 \in 1..n BY <1>1
  <2>2. ASSUME NEW i \in 1..Len(t)
        PROVE  /\ i + 1 \in 1..n /\ t[i] = w.tx[i + 1]
               /\ Head(w.tx) <= t[i] /\ t[i] <= r
               /\ w.pending # NoFrame => t[i] <= w.pending
    <3>1. i \in 1..(n - 1) /\ i + 1 \in 1..n /\ 1 <= i + 1 BY <1>1
    <3> QED BY <1>1, <1>2, <2>1, <3>1 DEF InLine, n
  <2>3. ASSUME NEW i \in 1..Len(t), NEW j \in 1..Len(t), i <= j PROVE t[i] <= t[j]
    <3>1. i + 1 <= j + 1 BY <1>1, <2>3
    <3> QED BY <2>2, <3>1 DEF InLine, n
  <2>4. Head(w.tx) <= r /\ w.pending <= r /\ (w.pending # NoFrame => Head(w.tx) <= w.pending)
    BY <1>1, <2>1 DEF InLine, n
  <2> QED BY <1>3, <2>2, <2>3, <2>4 DEF InLine
<1> QED BY <1>4, <1>5, <1>6, <1>7, <1>8, <1>9

LEMMA DrawStep ==
  ASSUME Inv, NEW v \in Viewers, Draw(v)
  PROVE  Inv' /\ NeverBehind
<1> DEFINE w == viewers[v]
           u == [w EXCEPT !.tx = Tail(@)]
           k == clients[v]
           c == [k EXCEPT !.drawn = Head(w.tx), !.acks = IF k.paces THEN @ + 1 ELSE @]
<1>0. viewers \in [Viewers -> ViewerRecords] /\ clients \in [Viewers -> ClientRecords]
  BY DEF Inv, TypeOK
<1>1. /\ v \in Joined /\ w.tx # <<>>
      /\ viewers' = [viewers EXCEPT ![v] = u] /\ clients' = [clients EXCEPT ![v] = c]
      /\ UNCHANGED <<session, owed, missed>>
  BY <1>0 DEF Draw
<1>2. /\ w \in ViewerRecords /\ k \in ClientRecords /\ k.drawn \in Nat
      /\ k.acks \in Nat /\ session.rev \in Nat
  BY <1>0 DEF ClientRecords, Inv, TypeOK, Sessions
<1>3. InLine(w, k.drawn, session.rev) BY <1>1 DEF Inv, AllInLine
<1> HIDE DEF w, k
<1>4. /\ u \in ViewerRecords /\ u.ack_pacing = w.ack_pacing
      /\ Head(w.tx) \in Nat /\ k.drawn <= Head(w.tx)
      /\ Surplus(u) = Surplus(w) - 1
      /\ Latest(u, Head(w.tx)) = Latest(w, k.drawn)
      /\ InLine(u, Head(w.tx), session.rev)
  BY <1>1, <1>2, <1>3, DrawnFacts
<1>5. /\ c \in ClientRecords /\ c.drawn = Head(w.tx) /\ c.at = k.at
      /\ c.configured = k.configured /\ c.paces = k.paces
      /\ c.acks \in Nat /\ c.acks <= k.acks + 1
  <2> DEFINE n == IF k.paces THEN k.acks + 1 ELSE k.acks
  <2>1. k.acks + 1 \in Nat BY <1>2
  <2>2. n \in Nat /\ n <= k.acks + 1 BY <1>2, <2>1
  <2>3. c = [k EXCEPT !.drawn = Head(w.tx), !.acks = n] BY <1>2 DEF ClientRecords
  <2> HIDE DEF n, c
  <2>4. c.acks = n /\ c.drawn = Head(w.tx) /\ c.at = k.at BY <1>2, <2>3 DEF ClientRecords
  <2>5. c.configured = k.configured /\ c.paces = k.paces
    BY <1>2, <2>3, Zenon DEF ClientRecords
  <2>6. c \in ClientRecords BY <1>2, <1>4, <2>2, <2>3 DEF ClientRecords
  <2> QED BY <2>2, <2>4, <2>5, <2>6
<1> HIDE DEF u, c
<1>6. /\ viewers' \in [Viewers -> ViewerRecords] /\ clients' \in [Viewers -> ClientRecords]
      /\ viewers'[v] = u /\ clients'[v] = c
      /\ \A x \in Viewers \ {v} : viewers'[x] = viewers[x] /\ clients'[x] = clients[x]
  BY <1>0, <1>1, <1>4, <1>5
<1>7. /\ viewers'[v].ack_pacing <=> clients'[v].configured /\ clients'[v].paces
      /\ clients'[v].at # "on" => ~clients'[v].configured
  BY <1>4, <1>5, <1>6 DEF Inv, Paced, w, k
<1>8. InLine(viewers'[v], clients'[v].drawn, session.rev) BY <1>4, <1>5, <1>6
<1>9. Latest(viewers'[v], clients'[v].drawn) = session.rev \/ owed \/ v \in missed'
  BY <1>1, <1>4, <1>5, <1>6, NewestIsLatest DEF Inv, NothingForgotten, w, k
<1>10. clients[v].drawn <= clients'[v].drawn BY <1>4, <1>5, <1>6 DEF k
<1>11. Surplus(viewers'[v]) + clients'[v].acks <= Surplus(viewers[v]) + clients[v].acks
  <2>1. Surplus(w) \in Int BY <1>2, SurplusType
  <2> QED BY <1>2, <1>4, <1>5, <1>6, <2>1 DEF w, k
<1>12. missed' \subseteq Viewers /\ missed \subseteq missed' \cup {v}
  BY <1>1 DEF Inv, TypeOK
<1> QED BY <1>1, <1>6, <1>7, <1>8, <1>9, <1>10, <1>11, <1>12, OneViewer

-----------------------------------------------------------------------------
(* The theorems.                                                           *)

LEMMA Step ==
  ASSUME Inv, Next
  PROVE  Inv' /\ NeverBehind
<1>1. CASE \E verb \in Verbs : Control(verb) BY <1>1, ControlStep
<1>2. ASSUME NEW v \in Viewers,
             \/ \E paces \in BOOLEAN : Join(v, paces)
             \/ Draw(v) \/ Config(v) \/ Ack(v) \/ Leave(v)
             \/ \E input \in Inputs : Input(v, input)
      PROVE  Inv' /\ NeverBehind
  <2>1. CASE \E paces \in BOOLEAN : Join(v, paces) BY <2>1, JoinStep
  <2>2. CASE Draw(v) BY <2>2, DrawStep
  <2>3. CASE Config(v) BY <2>3, ConfigStep
  <2>4. CASE Ack(v) BY <2>4, AckStep
  <2>5. CASE Leave(v) BY <2>5, LeaveStep
  <2>6. CASE \E input \in Inputs : Input(v, input) BY <2>6, InputStep
  <2> QED BY <1>2, <2>1, <2>2, <2>3, <2>4, <2>5, <2>6
<1> QED BY <1>1, <1>2 DEF Next

LEMMA Stutter ==
  ASSUME Inv, UNCHANGED vars
  PROVE  Inv'
BY DEF Inv, vars, TypeOK, ReadingsHold, Paced, AllInLine, NothingForgotten, Joined,
       Newest, Latest

\* The invariant the theorems follow from.
LEMMA Invariant == Spec => []Inv
<1>1. Inv /\ [Next]_vars => Inv' BY Step, Stutter
<1> QED BY <1>1, InvInit, PTL DEF Spec

(* Every variable keeps to its type: a viewer owes an ack only under ack     *)
(* pacing, and a frame is held only for one who owes an ack.                 *)
THEOREM PageTypes == Spec => []TypeOK
<1>1. Inv => TypeOK BY DEF Inv
<1> QED BY <1>1, Invariant, PTL

(* Refs and labels are always of the document on the page, whatever sequence *)
(* of verbs, input and page submissions led there; a login leaves no reading.*)
THEOREM ReadingsAreOfThePage == Spec => []ReadingsHold
<1>1. Inv => ReadingsHold BY DEF Inv
<1> QED BY <1>1, Invariant, PTL

(* A viewer who is there has, has queued or has held for it the page as it   *)
(* is, unless a frame is owed or painting failed or was never asked for.     *)
THEOREM NobodyForgotten == Spec => []NothingForgotten
<1>1. Inv => NothingForgotten BY DEF Inv
<1> QED BY <1>1, Invariant, PTL

(* Nobody is taken back to an older picture, and under ack pacing frames and *)
(* answers under way never become more.                                      *)
THEOREM PacingHolds == Spec => PacedDelivery
<1>1. Inv /\ [Next]_vars => [NeverBehind]_vars BY Step
<1> QED BY <1>1, Invariant, PTL DEF Spec, PacedDelivery
=============================================================================
