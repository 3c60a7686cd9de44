----------------------------- MODULE PageSession -----------------------------
(***************************************************************************)
(* The engine of one browser session, seen from its page thread: the page, *)
(* the readings the session remembers of it, and the viewers that watch.   *)
(*                                                                         *)
(* One thread owns the page and takes one command after another: a viewer  *)
(* joins, leaves, acknowledges a frame or sends input, or a control client *)
(* asks for a verb.  A viewer under ack pacing gets a frame only when it   *)
(* does not owe an answer for the last one; meanwhile the newest frame is  *)
(* held for it, or, when nobody can take one, not even painted but owed.   *)
(* A ref (`@e5`) is honoured against the readings that minted it, the      *)
(* agent's or the overlay a viewer asked for, and a login ends what the    *)
(* agent has read.                                                         *)
(*                                                                         *)
(* A frame is the number of the look of the page it shows; elements, urls, *)
(* labels and the list of visited pages are left out.  What a viewer has   *)
(* sent and the page thread has not taken yet is its config, its acks and  *)
(* input, which may come at any time.                                      *)
(***************************************************************************)
EXTENDS Integers, Sequences

CONSTANTS
  Viewers,     \* the connections made while the session lasts
  NoReading,
  Faults,      \* where painting a frame may fail: "join", "verb", "viewer"
  MaxRev,      \* bound: how often the page changes its look
  MaxQueue     \* bound: the frames a viewer may be behind for others to go on

ASSUME PageAssumption == /\ MaxRev \in Nat \ {0} /\ MaxQueue \in Nat
                         /\ NoReading \notin Nat

VARIABLES
  session,   \* struct Session: the page and what is remembered of it
  owed,      \* frame_owed: the page moved and nobody could be shown it
  viewers,   \* struct Viewer, of each connection
  clients,   \* the other ends of the connections
  missed     \* (history) viewers whose last picture of the page failed, or was
             \* never asked for by the code that changed the page

vars == <<session, owed, viewers, clients, missed>>

NoFrame == 0

-----------------------------------------------------------------------------
(* The session: `doc` numbers the documents it has loaded, `rev` what the  *)
(* page has looked like, `form` is a submission a page script has asked    *)
(* for and nobody has sent. Of the two sets of refs it is kept which       *)
(* document they are of.                                                   *)

\* Refs of the document being left are kept for whoever holds them.
LandedKept(s) == {[s EXCEPT !.doc = @ + 1, !.rev = @ + 1, !.form = f, !.served = NoReading] :
                  f \in BOOLEAN}

\* Another document takes the place of the page: both sets of refs go.
Landed(s) == {[s EXCEPT !.doc = @ + 1, !.rev = @ + 1, !.form = f,
                        !.served = NoReading, !.hints = NoReading] : f \in BOOLEAN}

\* An anchor of the same document, whose handlers may rewrite it.
Anchored(s) == {[s EXCEPT !.rev = @ + 1, !.form = f,
                          !.served = NoReading, !.hints = NoReading] :
                f \in {s.form, TRUE}}

\* An event, a value or a scroll, with what the page's handlers make of it.
Altered(s) == {[s EXCEPT !.rev = @ + 1, !.form = f] : f \in {s.form, TRUE}}

\* What a handler did: the session after it, whether it says that the page
\* moved, and whether it moved the page without saying so.
Outcomes(states, moved, silent) ==
  {[session |-> t, moved |-> moved, silent |-> silent] : t \in states}
Quiet(s) == Outcomes({s}, FALSE, FALSE)
Moved(states) == Outcomes(states, TRUE, FALSE)

Navigate(s) == Moved(Landed(s) \cup Anchored(s)) \cup Quiet(s)

\* The reading is handed out, after going to a url if one is given.
Read(s) == [s EXCEPT !.served = s.doc]
Snapshot(s) == Quiet(Read(s))
Visit(s) == Moved({Read(t) : t \in Landed(s) \cup Anchored(s)}) \cup Quiet(s)

\* Login mode, on or off: what the agent has read is dropped.
Login(s, on) == Quiet([s EXCEPT !.login = on, !.served = NoReading])

\* A ref needs a reading that has it, whoever asked for it; that it still
\* names the same element is not modelled, so any ref may also be refused.
Honoured(s) == s.served # NoReading \/ s.hints # NoReading

\* click, press, type, select, submit, scroll, wait: a link is followed, a form
\* is sent, a handler takes the event; or the page handles a click and the navigation
\* that should follow is refused, which is answered as if nothing had moved.
Act(s) == Moved(Altered(s)) \cup Navigate(s) \cup Outcomes(Altered(s), FALSE, TRUE)

Verbs == {"status", "login", "logout", "snapshot", "visit", "navigate", "ref", "selector"}
Inner(s, verb) ==
  CASE verb = "status" -> Quiet(s)
    [] verb = "login" -> Login(s, TRUE)
    [] verb = "logout" -> Login(s, FALSE)
    [] verb = "snapshot" -> Snapshot(s)
    [] verb = "visit" -> Visit(s)
    [] verb = "navigate" -> Navigate(s)
    [] verb = "ref" -> IF Honoured(s) THEN Act(s) ELSE Quiet(s)
    [] verb = "selector" -> Act(s)

\* follow_page_submission: what a script asked to submit is sent now. A page
\* that submits again at once is followed further, which is one landing here.
Follow(o) ==
  IF o.session.form
  THEN Moved(Landed(o.session)) \cup {[o EXCEPT !.session.form = FALSE]}
  ELSE {o}

\* While a human is logging in only these verbs are answered.
Gated(s, verb) == s.login /\ verb \notin {"status", "login", "logout"}

ControlVerb(s, verb) ==
  IF Gated(s, verb) THEN Quiet(s) ELSE UNION {Follow(o) : o \in Inner(s, verb)}

-----------------------------------------------------------------------------
(* What viewers send: keys and the wheel, a click on a link, the overlay,  *)
(* an act on one of its labels, a caret or text put into a field, and      *)
(* reload or a step in the history.                                        *)

Dropped(o) == IF o.moved THEN [o EXCEPT !.session.hints = NoReading] ELSE o

Inputs == {"keys", "link", "hints", "act", "put", "reload"}
Handled(s, input) ==
  CASE input = "keys" -> Moved(Altered(s)) \cup Quiet(s)
    [] input = "link" -> Moved(Landed(s) \cup {s})
    [] input = "hints" -> Quiet([s EXCEPT !.hints = s.doc])
    [] input = "act" -> {Dropped(o) : o \in ControlVerb(s, "ref")}
    [] input = "put" -> Quiet(s) \cup (IF Honoured(s) THEN Moved(Altered(s) \cup {s}) ELSE {})
    [] input = "reload" -> Moved(Landed(s)) \cup Quiet(s)

-----------------------------------------------------------------------------
(* Frames.                                                                 *)

\* In the map of viewers: from Join to Leave.
Joined == {v \in Viewers : clients[v].at = "on"}

CanTake(w) == ~(w.ack_pacing /\ w.awaiting_ack)
AnyoneReady(ws) == \E v \in Joined : CanTake(ws[v])

\* The frame that was held first goes out, and the newer one is forgotten.
SendFrameOldest(w, frame) ==
  IF CanTake(w) THEN [w EXCEPT !.tx = Append(@, frame), !.awaiting_ack = @ \/ w.ack_pacing]
  ELSE [w EXCEPT !.pending = IF @ = NoFrame THEN frame ELSE @]

\* Pacing is forgotten once the viewer is served.
SendFrameUnpaced(w, frame) ==
  IF CanTake(w) THEN [w EXCEPT !.tx = Append(@, frame)] ELSE [w EXCEPT !.pending = frame]

SendFrame(w, frame) ==
  IF CanTake(w) THEN [w EXCEPT !.tx = Append(@, frame), !.awaiting_ack = @ \/ w.ack_pacing]
  ELSE [w EXCEPT !.pending = frame]

Everyone(ws, frame) ==
  [v \in Viewers |-> IF v \in Joined THEN SendFrame(ws[v], frame) ELSE ws[v]]

\* Painting may fail; the code prints that and goes on.
Rendered(where) == IF where \in Faults THEN BOOLEAN ELSE {TRUE}

\* After a command of a viewer: handle_with paints if there is somebody who
\* can take it, dispatch hands it to all, serve_owed paints what is owed.
Present(ws, o) ==
  \E first, second \in Rendered("viewer") :
    LET ready == AnyoneReady(ws)
        shown == o.moved /\ ready /\ first
        after == IF shown THEN Everyone(ws, o.session.rev) ELSE ws
        due == owed \/ (o.moved /\ ~ready)
        served == due /\ AnyoneReady(after) /\ second
    IN /\ session' = o.session
       /\ viewers' = IF served THEN Everyone(after, o.session.rev) ELSE after
       /\ owed' = (due /\ ~served)
       /\ missed' = IF shown \/ served THEN {}
                    ELSE IF o.silent \/ (o.moved /\ ready /\ ~first) THEN Joined
                    ELSE missed

InBounds(s) ==
  /\ s.rev <= MaxRev
  /\ \A v \in Viewers : Len(viewers[v].tx) + clients[v].acks < MaxQueue

\* A verb of a control client: if it says that the page moved, all are shown.
Control(verb) ==
  \E o \in ControlVerb(session, verb), painted \in Rendered("verb") :
    /\ InBounds(o.session)
    /\ session' = o.session
    /\ LET shown == o.moved /\ painted IN
       /\ viewers' = IF shown THEN Everyone(viewers, o.session.rev) ELSE viewers
       /\ missed' = IF shown THEN {}
                    ELSE IF o.moved \/ o.silent THEN Joined ELSE missed
    /\ UNCHANGED <<owed, clients>>

-----------------------------------------------------------------------------
(* The viewers.                                                            *)

NewViewer == [tx |-> <<>>, ack_pacing |-> FALSE, awaiting_ack |-> FALSE, pending |-> NoFrame]
NewClient == [at |-> "away", paces |-> FALSE, configured |-> FALSE, acks |-> 0,
              drawn |-> NoFrame]

\* Join: the first frame goes to the one who joined, whatever its pacing.
Join(v, paces) ==
  /\ clients[v].at = "away"
  /\ clients' = [clients EXCEPT ![v] = [NewClient EXCEPT !.at = "on", !.paces = paces]]
  /\ \E painted \in Rendered("join") :
       /\ viewers' = [viewers EXCEPT ![v] =
                        IF painted THEN SendFrame(NewViewer, session.rev) ELSE NewViewer]
       /\ missed' = IF painted THEN missed ELSE missed \cup {v}
  /\ UNCHANGED <<session, owed>>

\* The client draws the next frame and, if it asked for ack pacing, says so.
Draw(v) ==
  /\ v \in Joined /\ viewers[v].tx # <<>>
  /\ viewers' = [viewers EXCEPT ![v].tx = Tail(@)]
  /\ clients' = [clients EXCEPT ![v].drawn = Head(viewers[v].tx),
                                ![v].acks = IF clients[v].paces THEN @ + 1 ELSE @]
  /\ UNCHANGED <<session, owed, missed>>

\* A config is the first thing a client sends; it is answered with a frame.
Config(v) ==
  /\ v \in Joined /\ ~clients[v].configured
  /\ clients' = [clients EXCEPT ![v].configured = TRUE]
  /\ \E o \in Moved({session}) :
       Present([viewers EXCEPT ![v].ack_pacing = clients[v].paces], o)

\* What was held stays held.
ReleasedKept(w) == [w EXCEPT !.awaiting_ack = FALSE]
\* An ack ends the wait of one viewer and releases what was held for it.
Released(w) ==
  IF w.pending = NoFrame THEN [w EXCEPT !.awaiting_ack = FALSE]
  ELSE SendFrame([w EXCEPT !.awaiting_ack = FALSE, !.pending = NoFrame], w.pending)
\* The viewer is freed, and what the page owes is not painted for it.
AckUnserved(v) ==
  /\ v \in Joined /\ clients[v].configured /\ clients[v].acks > 0
  /\ clients' = [clients EXCEPT ![v].acks = @ - 1]
  /\ viewers' = [viewers EXCEPT ![v] = Released(@)]
  /\ UNCHANGED <<session, owed, missed>>

Ack(v) ==
  /\ v \in Joined /\ clients[v].configured /\ clients[v].acks > 0
  /\ clients' = [clients EXCEPT ![v].acks = @ - 1]
  /\ \E o \in Quiet(session) : Present([viewers EXCEPT ![v] = Released(@)], o)

Input(v, input) ==
  /\ v \in Joined /\ clients[v].configured
  /\ \E o \in Handled(session, input) : InBounds(o.session) /\ Present(viewers, o)
  /\ UNCHANGED clients

\* The socket ended. A viewer that has gone and whose Leave is still on its
\* way is to the others like one that does not draw.
Leave(v) ==
  /\ v \in Joined
  /\ clients' = [clients EXCEPT ![v] = [NewClient EXCEPT !.at = "left"]]
  /\ viewers' = [viewers EXCEPT ![v] = NewViewer]
  /\ missed' = missed \ {v}
  /\ UNCHANGED <<session, owed>>

-----------------------------------------------------------------------------
Init ==
  /\ session = [doc |-> 1, rev |-> 1, form |-> FALSE, login |-> FALSE,
                served |-> NoReading, hints |-> NoReading]
  /\ owed = FALSE
  /\ viewers = [v \in Viewers |-> NewViewer]
  /\ clients = [v \in Viewers |-> NewClient]
  /\ missed = {}

Next ==
  \/ \E verb \in Verbs : Control(verb)
  \/ \E v \in Viewers : \/ \E paces \in BOOLEAN : Join(v, paces)
                        \/ Draw(v) \/ Config(v) \/ Ack(v) \/ Leave(v)
                        \/ \E input \in Inputs : Input(v, input)

Spec == Init /\ [][Next]_vars

\* The page thread takes every command in turn, and a client that is there
\* draws what it is sent. Nobody has to change the page, to come or to go.
FairSpec == /\ Spec
            /\ \A v \in Viewers : /\ WF_vars(Draw(v)) /\ WF_vars(Config(v))
                                  /\ WF_vars(Ack(v))

-----------------------------------------------------------------------------
(* Properties                                                               *)

(* Every variable holds a value of its kind; only a viewer under ack pacing  *)
(* owes an ack, and only for one that owes an ack is a frame held.           *)
Sessions == [doc : Nat, rev : Nat, form : BOOLEAN, login : BOOLEAN,
             served : Nat \cup {NoReading}, hints : Nat \cup {NoReading}]
ViewerRecords ==
  {w \in [tx : Seq(Nat), ack_pacing : BOOLEAN, awaiting_ack : BOOLEAN, pending : Nat] :
     /\ w.awaiting_ack => w.ack_pacing
     /\ w.pending # NoFrame => w.awaiting_ack}
ClientRecords == [at : {"away", "on", "left"}, paces : BOOLEAN,
                  configured : BOOLEAN, acks : Nat, drawn : Nat]
TypeOK ==
  /\ session \in Sessions
  /\ owed \in BOOLEAN
  /\ viewers \in [Viewers -> ViewerRecords]
  /\ clients \in [Viewers -> ClientRecords]
  /\ missed \subseteq Viewers

(* What is remembered of a page is of the page there is, however it was      *)
(* replaced and by whom, and while a human is logging in nothing is held of  *)
(* it that an agent could act on or compare with afterwards.                 *)
ReadingsHold ==
  /\ session.served # NoReading => session.served = session.doc
  /\ session.hints # NoReading => session.hints = session.doc
  /\ session.login => session.served = NoReading

(* The newest picture a viewer has, has in its queue or has held for it is   *)
(* the page as it is now, or a frame is owed, or the viewer is one of those  *)
(* the code itself left out.                                                 *)
Newest(v) == LET w == viewers[v] IN
  IF w.pending # NoFrame THEN w.pending
  ELSE IF w.tx # <<>> THEN w.tx[Len(w.tx)] ELSE clients[v].drawn
NothingForgotten ==
  \A v \in Joined :
    Newest(v) = session.rev \/ owed \/ v \in missed

(* No step takes a viewer back to an older picture, and under ack pacing no  *)
(* backlog builds up: what is on its way or not yet answered, the one frame  *)
(* that may be out left aside, never becomes more.                           *)
Surplus(w) == Len(w.tx) - (IF w.awaiting_ack THEN 1 ELSE 0)
Backlog(v) == Surplus(viewers[v]) + clients[v].acks
NeverBehind ==
  \A v \in Viewers : clients[v].at = "on" /\ clients'[v].at = "on" =>
    /\ clients[v].drawn <= clients'[v].drawn
    /\ clients[v].configured /\ clients[v].paces => Backlog(v)' <= Backlog(v)
PacedDelivery == [][NeverBehind]_vars

(* When the page comes to rest, every viewer that stays is eventually shown  *)
(* it as it is: what is held or owed is delivered as the acks come in.       *)
OnScreen(v) == clients[v].drawn = session.rev \/ v \notin Joined \/ v \in missed
PageIsShown == \A v \in Viewers : []<>OnScreen(v)
=============================================================================
