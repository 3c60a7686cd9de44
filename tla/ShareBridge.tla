----------------------------- MODULE ShareBridge -----------------------------
(***************************************************************************)
(* The serving loop of one share: the process of `h5i box share` from the  *)
(* moment its door is open to its receipt.  ShareSession has the record    *)
(* `share.json` and who may write it; here is what the record is for.      *)
(*                                                                         *)
(* A connection is accepted and takes a place in front.  A stream on it    *)
(* presents a ticket, is authorised against the record as it is on disk    *)
(* now, takes one of MAX_CONNECTIONS permits, has the box dialled on a     *)
(* blocking thread and is piped.  In the tunnel a connection is one        *)
(* request and its handler; peer to peer it carries many streams and has a *)
(* watchdog.  Meanwhile other commands revoke, grant, stop and force-stop, *)
(* the grants run out, and the process winds up: it raises a flag, closes  *)
(* the transport, waits for its handlers for a bounded time and writes a   *)
(* receipt that says whether they finished.                                *)
(*                                                                         *)
(* Tasks run on several threads.  A step is what a task does between two   *)
(* looks at something another task or process can change.                  *)
(***************************************************************************)
EXTENDS Naturals, FiniteSets

CONSTANTS
  Conns, Streams,  \* bound: whoever arrives while the share lasts
  ConnOf,          \* the connection a stream is on, under each transport
  Ours, Theirs,    \* grants of this share, and of one that replaces its record
  NoGrant,
  Transports,      \* the transports to consider
  MaxLive          \* MAX_CONNECTIONS

ASSUME BridgeAssumption ==
  /\ ConnOf \in [{"tunnel", "p2p"} -> [Streams -> Conns]]
  /\ Ours \cap Theirs = {} /\ NoGrant \notin Ours \cup Theirs
  /\ Transports \subseteq {"tunnel", "p2p"}
  /\ IsFiniteSet(Streams) /\ MaxLive \in Nat \ {0}

VARIABLES
  transport,
  disk,      \* whose record is in the box's directory: "ours", "other", "gone";
             \* "held" when it was removed under a writer that had read it
  grants,    \* what the record says of each grant of this share
  winding,   \* winding_up, in the record
  bad,       \* the record cannot be read just now
  main,      \* where the serving process is
  shutdown,  \* Bridge::shutdown
  armed,     \* a second signal ends the process at once
  settled,   \* what quiesce returned
  receipt,   \* what the receipt says of the connections
  link,      \* of each connection: the handler holds its place in front
  shut,      \* how a connection was closed, and what its peer was told
  owner,     \* the grant that admitted a connection
  doubt,     \* a watchdog between its two questions: what the first one met
  step,      \* where a stream is
  ticket,    \* the grant a stream presented
  late       \* (history) streams that said nothing before the flag was raised

record == <<disk, grants, winding, bad>>
process == <<main, shutdown, armed, settled, receipt>>
conns == <<link, shut, owner, doubt>>
said == <<ticket, late>>
streams == <<step, said>>
vars == <<transport, record, process, conns, streams>>

-----------------------------------------------------------------------------
(* The record, as the bridge reads it: one that is not the one it claimed  *)
(* is gone.                                                                *)

OurRecord == IF bad THEN "unreadable" ELSE IF disk = "ours" THEN "present" ELSE "gone"

\* The grants in the record that admit somebody.
Table == IF disk = "ours" THEN {g \in Ours : grants[g] = "live"} ELSE Theirs

\* The watchdogs ask about the share instead of about their own grant.
GrantIsLiveForAll(g) == OurRecord = "present" /\ Table # {}

GrantIsLive(g) == OurRecord = "present" /\ g \in Table

\* A record that is not there says nothing.
ShareIsEndingIfSaid == OurRecord = "present" /\ winding

ShareIsEnding == \/ OurRecord = "present" /\ winding
                 \/ OurRecord = "gone"

\* Only a table that was read and admits nobody ends the share.
IsSpentIfRead == OurRecord = "present" /\ Table = {}

IsSpent == OurRecord # "present" \/ Table = {}

-----------------------------------------------------------------------------
(* The other processes: what ShareSession's commands do to the record, and *)
(* the clock.  Every grant is minted from the start; one that `share       *)
(* grant` adds later is one that nobody has presented so far.  Peer to     *)
(* peer run.rs mints one only; the bridge takes a table with more (as its  *)
(* own tests hand it one) and so does the model.                           *)

\* `share revoke`, or the grant's time runs out.
Lapse(g) ==
  /\ disk = "ours" /\ grants[g] = "live"
  /\ grants' = [grants EXCEPT ![g] = "dead"]
  /\ UNCHANGED <<disk, winding, bad>>

Stopped ==
  /\ winding' = TRUE
  /\ grants' = [g \in Ours |-> IF grants[g] = "live" THEN "stopped" ELSE grants[g]]

StopShare ==
  /\ disk = "ours" /\ ~bad /\ ~winding
  /\ Stopped
  /\ UNCHANGED <<disk, bad>>

\* `share stop --force` removes the record and leaves the process alone.  It
\* does so without share.lock when a writer keeps it from getting it.
ForceStop ==
  /\ disk = "ours"
  /\ disk' \in {"gone", "held"}
  /\ UNCHANGED <<grants, winding, bad>>

\* The writer puts back what it had read, with its change: a grant (of which
\* the model has nothing to write), a revocation, a stop, or the mark of the
\* process that winds up.
WriteBack ==
  /\ disk = "held"
  /\ disk' = "ours"
  /\ \/ UNCHANGED <<grants, winding>>
     \/ \E g \in Ours : grants' = [grants EXCEPT ![g] = "dead"] /\ UNCHANGED winding
     \/ Stopped
     \/ main = "winding" /\ winding' = TRUE /\ UNCHANGED grants
  /\ UNCHANGED bad

\* It fails, or is killed.
WriterDies ==
  /\ disk = "held"
  /\ disk' = "gone"
  /\ UNCHANGED <<grants, winding, bad>>

\* Another share claims the box, which takes the lock.
Replace ==
  /\ disk = "gone"
  /\ disk' = "other"
  /\ UNCHANGED <<grants, winding, bad>>

\* Reading fails, or works again.  Bound: it starts to fail before the
\* teardown does.
Sicken ==
  /\ bad \/ main \in {"serving", "winding"}
  /\ bad' = ~bad
  /\ UNCHANGED <<disk, grants, winding>>

Others ==
  /\ \/ \E g \in Ours : Lapse(g)
     \/ StopShare \/ ForceStop \/ WriteBack \/ WriterDies \/ Replace \/ Sicken
  /\ main # "over"
  /\ UNCHANGED <<transport, process, conns, streams>>

-----------------------------------------------------------------------------
(* Places.                                                                 *)

On(s) == ConnOf[transport][s]
StreamsOf(c) == {s \in Streams : On(s) = c}

\* A task that runs from the hello to the dial does not pause in between.
Running == {"knock", "table", "admit"}
Inside == {"dial", "pipe"}

Held == {c \in Conns : link[c] = "in"}
Live == {s \in Streams : step[s] \in Inside}

\* A handler that returns gives up its place and forgets what it knew.
HandlersReturn(cs) ==
  /\ link' = [c \in Conns |-> IF c \in cs THEN "gone" ELSE link[c]]
  /\ shut' = [c \in Conns |-> IF c \in cs THEN "open" ELSE shut[c]]
  /\ owner' = [c \in Conns |-> IF c \in cs THEN NoGrant ELSE owner[c]]
  /\ doubt' = [c \in Conns |-> IF c \in cs THEN "none" ELSE doubt[c]]

StreamsEnd(ss) ==
  /\ step' = [s \in Streams |-> IF s \in ss THEN "done" ELSE step[s]]
  /\ ticket' = [s \in Streams |-> IF s \in ss THEN NoGrant ELSE ticket[s]]
  /\ late' = late \ ss

\* A tunnel's connection is its one handler and goes with it.
Ends(s) ==
  /\ StreamsEnd({s})
  /\ HandlersReturn(IF transport = "tunnel" THEN {On(s)} ELSE {})

Init ==
  /\ transport \in Transports
  /\ disk = "ours" /\ winding = FALSE /\ bad = FALSE
  /\ grants = [g \in Ours |-> "live"]
  /\ main = "serving" /\ shutdown = FALSE /\ armed = FALSE
  /\ settled = FALSE /\ receipt = "none" /\ late = {}
  /\ link = [c \in Conns |-> "out"]
  /\ shut = [c \in Conns |-> "open"]
  /\ owner = [c \in Conns |-> NoGrant]
  /\ doubt = [c \in Conns |-> "none"]
  /\ step = [s \in Streams |-> "idle"]
  /\ ticket = [s \in Streams |-> NoGrant]

-----------------------------------------------------------------------------
(* A connection.  The accept loop is a branch of the main task's select    *)
(* and is dropped with it, so nothing is accepted once the share winds up. *)

\* Slots beyond MAX_PENDING or MAX_LIVE_CONNECTIONS are refused unheard,
\* as if nobody had come.
Accept(c) ==
  /\ main = "serving" /\ link[c] = "out" /\ StreamsOf(c) # {}
  /\ link' = [link EXCEPT ![c] = "in"]
  /\ UNCHANGED <<shut, owner, doubt, streams>>

Close(c, why) ==
  /\ shut' = [shut EXCEPT ![c] = why]
  /\ doubt' = [doubt EXCEPT ![c] = "none"]
  /\ UNCHANGED <<link, owner, streams>>

Open(c) == link[c] = "in" /\ shut[c] = "open"

\* A browser that sends no request; a peer that goes away.
Leave(c) ==
  /\ Open(c)
  /\ \/ /\ transport = "tunnel" /\ \A s \in StreamsOf(c) : step[s] = "idle"
        /\ HandlersReturn({c}) /\ UNCHANGED streams
     \/ transport = "p2p" /\ Close(c, "closed")

\* The watchdog: nobody greeted within UNAUTHENTICATED_GRACE.
Ungreeted(c) ==
  /\ transport = "p2p" /\ Open(c) /\ owner[c] = NoGrant
  /\ Close(c, "closed")

\* The watchdog's two reads of the record: is the grant dead, and why.  The
\* first one need not have met a record at all.
Doubt(c) ==
  /\ transport = "p2p" /\ Open(c) /\ doubt[c] = "none"
  /\ owner[c] # NoGrant /\ ~GrantIsLive(owner[c])
  /\ doubt' = [doubt EXCEPT ![c] = IF OurRecord = "present" THEN "dead" ELSE "blind"]
  /\ UNCHANGED <<link, shut, owner, streams>>

Cut(c) ==
  /\ Open(c) /\ doubt[c] # "none"
  /\ Close(c, IF ShareIsEnding THEN "ended" ELSE "revoked")

\* The watchdog's child, waiting for the flag.
TellEnded(c) ==
  /\ transport = "p2p" /\ Open(c) /\ shutdown
  /\ Close(c, "ended")

\* serve_connection after its loop: drain the streams, give up the place in
\* front.  After STREAM_DRAIN it aborts what is left.  Only a dial outlasts
\* a closed connection that long: reads, pumps and writes see the close.
Drain(c) ==
  /\ transport = "p2p" /\ link[c] = "in" /\ shut[c] # "open"
  /\ \A s \in StreamsOf(c) : step[s] \in {"idle", "done", "dial"}
  /\ HandlersReturn({c})
  /\ StreamsEnd({s \in StreamsOf(c) : step[s] = "dial"})

Connection(c) ==
  /\ \/ Accept(c) \/ Leave(c) \/ Ungreeted(c)
     \/ Doubt(c) \/ Cut(c) \/ TellEnded(c) \/ Drain(c)
  /\ UNCHANGED <<transport, record, process>>

-----------------------------------------------------------------------------
(* A stream.                                                               *)

\* The hello, or the head of a request, is in.
Greet(s) ==
  /\ Open(On(s)) /\ step[s] = "idle"
  /\ transport = "tunnel" => \A t \in StreamsOf(On(s)) : step[t] = "idle"
  /\ step' = [step EXCEPT ![s] = "knock"]
  /\ UNCHANGED <<conns, said>>

Goes(s, next) == step' = [step EXCEPT ![s] = next]

\* The record catches up with the flag sooner or later.
KnockUnflagged(s) ==
  /\ step[s] = "knock" /\ Goes(s, "table")
  /\ UNCHANGED <<conns, said>>

\* authorize: the flag first.
Knock(s) ==
  /\ step[s] = "knock"
  /\ \/ shutdown /\ Ends(s)
     \/ ~shutdown /\ Goes(s, "table") /\ UNCHANGED <<conns, said>>

\* authorize: then the table, read now.  One connection carries one grant:
\* the first stream to get this far makes it the connection's.
Mismatch(s, g) == owner[On(s)] \notin {NoGrant, g}

Refuse(s, g) ==
  /\ step[s] = "table"
  /\ ~GrantIsLive(g) \/ Mismatch(s, g)
  /\ Ends(s)

\* A probe stops here, the connection's grant recorded.
Accepts(s, g) ==
  /\ owner' = [owner EXCEPT ![On(s)] = g]
  /\ \/ Goes(s, "admit") /\ ticket' = [ticket EXCEPT ![s] = g] /\ UNCHANGED late
     \/ transport = "p2p" /\ StreamsEnd({s})
  /\ UNCHANGED <<link, shut, doubt>>

\* The tunnel answers the invite link itself.
Redirect(s, g) ==
  /\ transport = "tunnel" /\ step[s] = "table" /\ GrantIsLive(g)
  /\ Ends(s)

\* The connection's grant is the most recent one.
AuthorizeLatest(s, g) == step[s] = "table" /\ GrantIsLive(g) /\ Accepts(s, g)

Authorize(s, g) ==
  /\ step[s] = "table"
  /\ GrantIsLive(g) /\ ~Mismatch(s, g)
  /\ Accepts(s, g)

\* Nobody counts the connections.
AdmitAll(s) == step[s] = "admit" /\ Goes(s, "dial") /\ UNCHANGED <<conns, said>>

Admit(s) ==
  /\ step[s] = "admit"
  /\ \/ /\ Cardinality(Live) < MaxLive
        /\ Goes(s, "dial")
        /\ UNCHANGED <<conns, said>>
     \/ Cardinality(Live) >= MaxLive /\ Ends(s)

\* The blocking thread opened a socket into the box, or could not.  A dial
\* whose stream has gone runs on and drops what it opened.
Dialled(s) ==
  /\ step[s] = "dial"
  /\ \/ Goes(s, "pipe") /\ UNCHANGED <<conns, said>>
     \/ Ends(s)

\* The arms of the two selects: the grant, asked every REVOKE_POLL; the
\* flag; the connection; and the pump itself.
Revoked(s) ==
  /\ step[s] \in Inside /\ ~GrantIsLive(ticket[s])
  /\ Ends(s)

ShuttingDown(s) ==
  /\ step[s] \in Inside /\ shutdown
  /\ Ends(s)

Closed(s) ==
  /\ step[s] = "pipe" /\ shut[On(s)] # "open"
  /\ Ends(s)

Finish(s) ==
  /\ step[s] = "pipe"
  /\ Ends(s)

\* Whatever ticket it is.
Weighed(s) ==
  \E g \in Ours \cup Theirs : Refuse(s, g) \/ Redirect(s, g) \/ Authorize(s, g)

Stream(s) ==
  /\ \/ Greet(s) \/ Knock(s) \/ Weighed(s)
     \/ Admit(s) \/ Dialled(s) \/ Revoked(s) \/ ShuttingDown(s) \/ Closed(s)
     \/ Finish(s)
  /\ UNCHANGED <<transport, record, process>>

-----------------------------------------------------------------------------
(* The process winds up.                                                   *)

\* The ways out of the main select: the transport died or the box went away;
\* a signal; and stopped_elsewhere, every STOP_POLL.
BoxWentAway ==
  /\ main = "serving" /\ main' = "winding"
  /\ UNCHANGED <<record, shutdown, armed, settled, receipt, conns, streams>>

Interrupted ==
  /\ main = "serving" /\ main' = "winding"
  /\ armed' = TRUE
  /\ UNCHANGED <<record, shutdown, settled, receipt, conns, streams>>

StoppedElsewhere ==
  /\ main = "serving" /\ IsSpent
  /\ main' = "winding"
  /\ UNCHANGED <<record, shutdown, armed, settled, receipt, conns, streams>>

\* begin_winding_up, which only warns when it fails.
MarkWinding ==
  /\ main = "winding" /\ main' = "marked"
  /\ winding' = (winding \/ OurRecord = "present")
  /\ UNCHANGED <<disk, grants, bad, shutdown, armed, settled, receipt, conns, streams>>

\* begin_shutdown.
RaiseFlag ==
  /\ main = "marked" /\ main' = "flagged"
  /\ shutdown' = TRUE
  /\ late' = {s \in Streams : step[s] = "idle"}
  /\ UNCHANGED <<record, armed, settled, receipt, conns, step, ticket>>

\* Endpoint::close, which gives no reason.  The tunnel's listener has gone.
EndpointClosed ==
  /\ shut' = [c \in Conns |-> IF transport = "p2p" /\ Open(c) THEN "closed"
                              ELSE shut[c]]
  /\ doubt' = [c \in Conns |-> "none"]

CloseTransport ==
  /\ main = "flagged" /\ main' = "closing"
  /\ EndpointClosed
  /\ UNCHANGED <<record, shutdown, armed, settled, receipt, link, owner, streams>>

\* The connections into the box only.
QuietInside == Live = {}

\* What quiesce waits for: every place in front, then every permit.
Quiet == Held = {} /\ Live = {}

\* It gets them, or its time runs out.
Quiesce ==
  /\ main = "closing" /\ main' = "write"
  /\ \/ Quiet /\ settled' = TRUE
     \/ UNCHANGED settled
  /\ UNCHANGED <<record, shutdown, armed, receipt, conns, streams>>

\* A first signal during the teardown stops the waiting, not the receipt.
SkipWait ==
  /\ main \in {"flagged", "closing"} /\ ~armed
  /\ main' = "write" /\ armed' = TRUE
  /\ EndpointClosed
  /\ UNCHANGED <<record, shutdown, settled, receipt, link, owner, streams>>

WriteReceipt ==
  /\ main = "write" /\ main' = "clear"
  /\ receipt' = IF settled THEN "whole" ELSE "partial"
  /\ UNCHANGED <<record, shutdown, armed, settled, conns, streams>>

\* session::clear, and the process ends with everything in it.
Dies ==
  /\ main' = "over"
  /\ disk' = IF OurRecord = "present" THEN "gone" ELSE disk
  /\ HandlersReturn(Conns)
  /\ StreamsEnd(Streams)
  /\ UNCHANGED <<grants, winding, bad, shutdown, armed, settled, receipt>>

Exit == main = "clear" /\ Dies

\* The second signal: at once and without a receipt.
HardExit ==
  /\ armed /\ main \in {"winding", "marked", "flagged", "closing", "write", "clear"}
  /\ Dies

MainTask ==
  /\ \/ BoxWentAway \/ Interrupted \/ StoppedElsewhere \/ MarkWinding \/ RaiseFlag
     \/ CloseTransport \/ Quiesce \/ SkipWait \/ WriteReceipt \/ Exit \/ HardExit
  /\ UNCHANGED transport

-----------------------------------------------------------------------------
Next ==
  \/ Others
  \/ \E c \in Conns : Connection(c)
  \/ \E s \in Streams : Stream(s)
  \/ MainTask

Spec == Init /\ [][Next]_vars

\* The runtime polls its tasks, timers fire, a dial has CONNECT_TIMEOUT, and
\* the main task gets on.  Peers, operators and signals owe nothing.  None of
\* these steps can be taken back and each is taken a bounded number of times,
\* so weak fairness of all of them together starves none.  The process sees
\* that its record is gone only if it polls before a writer puts it back.
Progress ==
  \/ /\ \/ StoppedElsewhere \/ MarkWinding \/ RaiseFlag \/ CloseTransport
        \/ Quiesce \/ WriteReceipt \/ Exit
     /\ UNCHANGED transport
  \/ /\ \/ \E c \in Conns : Doubt(c) \/ Cut(c) \/ Drain(c)
        \/ \E s \in Streams : \/ Knock(s) \/ Weighed(s) \/ Admit(s) \/ Dialled(s)
                              \/ Revoked(s) \/ Closed(s)
     /\ UNCHANGED <<transport, record, process>>

FairSpec == Spec /\ WF_vars(Progress)

-----------------------------------------------------------------------------
(* Properties.                                                             *)

Typed ==
  /\ transport \in Transports
  /\ disk \in {"ours", "held", "other", "gone"}
  /\ grants \in [Ours -> {"live", "dead", "stopped"}]
  /\ winding \in BOOLEAN /\ bad \in BOOLEAN
  /\ main \in {"serving", "winding", "marked", "flagged", "closing", "write",
               "clear", "over"}
  /\ shutdown \in BOOLEAN /\ armed \in BOOLEAN /\ settled \in BOOLEAN
  /\ receipt \in {"none", "whole", "partial"}
  /\ late \subseteq Streams
  /\ link \in [Conns -> {"out", "in", "gone"}]
  /\ shut \in [Conns -> {"open", "ended", "revoked", "closed"}]
  /\ owner \in [Conns -> Ours \cup Theirs \cup {NoGrant}]
  /\ doubt \in [Conns -> {"none", "dead", "blind"}]
  /\ step \in [Streams -> Running \cup Inside \cup {"idle", "done"}]
  /\ ticket \in [Streams -> Ours \cup Theirs \cup {NoGrant}]

\* Every variable has its type, and the permits are not overdrawn.
TypeOK == Typed /\ Cardinality(Live) <= MaxLive

\* A receipt that says the share settled is whole: no handler is under way
\* any more that could still be authorised, dial the box or move a byte the
\* receipt does not count.
SettledIsWhole == receipt = "whole" => \A s \in Streams : step[s] \in {"idle", "done"}

\* Whoever says nothing before the shutdown flag is raised gets no ticket
\* weighed and no way into the box, although the record still holds live
\* grants until the teardown is over and the handler was accepted long ago.
NoLateEntry == \A s \in late : step[s] \notin {"table", "admit"} \cup Inside

\* One connection carries one ticket, of this share: every stream of it that
\* gets further than its ticket got there by the grant the connection's
\* watchdog asks about, however its streams race, and never by one of the
\* share whose record has replaced a force-stopped one.
OneTicket ==
  \A s \in Streams :
    step[s] \in {"admit"} \cup Inside => ticket[s] = owner[On(s)] /\ ticket[s] \in Ours

\* A peer whose watchdog saw its grant in the record is told that it was
\* revoked or has expired only if it was, although the watchdog reads the
\* record twice and `share stop` writes both facts at once; a record that was
\* not there or not readable at either reading is the exception.  A peer is
\* told that the share has ended only if it is ending or its record is gone
\* from the directory.  That is not for good when a forced stop met a writer
\* (`held`): the writer puts the record back, and the share goes on.
EndingIsTrue ==
  [][\A c \in Conns :
       /\ shut[c] = "open" /\ shut'[c] = "revoked"
            => bad \/ doubt[c] = "blind" \/ grants[owner[c]] = "dead"
       /\ shut[c] = "open" /\ shut'[c] = "ended"
            => winding \/ shutdown \/ disk # "ours"]_vars

\* A grant that no longer admits anybody ends the connections it admitted,
\* those being authorised or dialled while it is revoked included, and no
\* matter that other grants of the share still live.
CutOff ==
  \A c \in Conns :
    link[c] = "in" /\ owner[c] \in Ours /\ grants[owner[c]] \in {"dead", "stopped"}
      ~> link[c] = "gone"

\* A share that was stopped, or whose record is removed or replaced, ends its
\* process, whatever its connections do, unless a writer puts the record back
\* and it does not say that the share is stopped: a forced stop is no promise,
\* and only a stop that is in the record is.
CalledOff == winding \/ disk # "ours"

ShareEnds == CalledOff ~> main = "over" \/ ~CalledOff
=============================================================================
