-------------------------- MODULE ShareBridgeProofs --------------------------
(***************************************************************************)
(* What the serving loop of a share keeps, for any number of connections,  *)
(* streams and grants.                                                     *)
(***************************************************************************)
EXTENDS ShareBridge, FiniteSetTheorems, TLAPS

Active(s) == step[s] \in Running \cup Inside
Past(s) == step[s] \in {"admit"} \cup Inside

\* A stream under way has its handler; a tunnel's handler has one stream
\* under way; a stream past its ticket carries its connection's grant.
Grounded ==
  /\ \A s \in Streams : Active(s) => link[On(s)] = "in"
  /\ transport = "tunnel" =>
       \A s, t \in Streams : s # t /\ On(s) = On(t) => ~(Active(s) /\ Active(t))
  /\ \A s \in Streams : Past(s) => ticket[s] = owner[On(s)] /\ ticket[s] \in Ours

Lateness == \A s \in late : shutdown /\ step[s] \in {"idle", "knock"}

\* Once quiesce has had every place in front, nobody takes one again.
Settling ==
  /\ settled => Held = {} /\ main \in {"write", "clear", "over"}
  /\ receipt = "whole" => settled

Inv == Typed /\ Grounded /\ Lateness /\ Settling

\* What a step leaves behind in the connections and streams.
Sound ==
  /\ link \in [Conns -> {"out", "in", "gone"}]
  /\ shut \in [Conns -> {"open", "ended", "revoked", "closed"}]
  /\ owner \in [Conns -> Ours \cup Theirs \cup {NoGrant}]
  /\ doubt \in [Conns -> {"none", "dead", "blind"}]
  /\ step \in [Streams -> Running \cup Inside \cup {"idle", "done"}]
  /\ ticket \in [Streams -> Ours \cup Theirs \cup {NoGrant}]
  /\ late \subseteq Streams
  /\ Grounded

-----------------------------------------------------------------------------
LEMMA OnType == ASSUME Typed PROVE \A s \in Streams : On(s) \in Conns
  BY BridgeAssumption DEF Typed, On

\* Handlers that return and streams that end leave the rest as it was.
LEMMA Returning ==
  ASSUME Typed, Grounded, Lateness,
         NEW cs \in SUBSET Conns, NEW ss \in SUBSET Streams,
         HandlersReturn(cs), StreamsEnd(ss), transport' = transport,
         \A s \in Streams : On(s) \in cs => ~Active(s) \/ s \in ss
  PROVE  /\ Sound'
         /\ Held' \subseteq Held
         /\ Live' \subseteq Live
         /\ \A s \in late' : s \in late /\ step'[s] = step[s]
<1>1. \A s \in Streams : On(s)' = On(s) BY DEF On
<1>2. \A s \in Streams : On(s) \in Conns BY OnType
<1>3. /\ link' \in [Conns -> {"out", "in", "gone"}]
      /\ shut' \in [Conns -> {"open", "ended", "revoked", "closed"}]
      /\ owner' \in [Conns -> Ours \cup Theirs \cup {NoGrant}]
      /\ doubt' \in [Conns -> {"none", "dead", "blind"}]
  BY DEF Typed, HandlersReturn
<1>4. /\ step' \in [Streams -> Running \cup Inside \cup {"idle", "done"}]
      /\ ticket' \in [Streams -> Ours \cup Theirs \cup {NoGrant}]
      /\ late' \subseteq Streams
  BY DEF Typed, StreamsEnd
<1>5. \A s \in Streams : Active(s)' => Active(s) /\ s \notin ss /\ step'[s] = step[s]
                                       /\ ticket'[s] = ticket[s]
  BY DEF StreamsEnd, Active, Running, Inside
<1>6. \A s \in Streams : Active(s)' => On(s) \notin cs
  BY <1>5
<1>7. \A c \in Conns : c \notin cs => link'[c] = link[c] /\ owner'[c] = owner[c]
  BY DEF HandlersReturn
<1>8. \A s \in Streams : Active(s)' => link'[On(s)'] = "in"
  BY <1>1, <1>2, <1>5, <1>6, <1>7 DEF Grounded
<1>9. transport' = "tunnel" =>
        \A s, t \in Streams : s # t /\ On(s)' = On(t)' => ~(Active(s)' /\ Active(t)')
  BY <1>1, <1>5 DEF Grounded
<1>10. \A s \in Streams : Past(s)' => Active(s)' /\ Past(s)
  BY <1>5 DEF Past, Active, Running, Inside
<1>11. \A s \in Streams : Past(s)' => ticket'[s] = owner'[On(s)'] /\ ticket'[s] \in Ours
  BY <1>1, <1>2, <1>5, <1>6, <1>7, <1>10 DEF Grounded
<1>12. Grounded' BY <1>8, <1>9, <1>11 DEF Grounded
<1>13. Held' \subseteq Held BY DEF Held, HandlersReturn
<1>14. Live' \subseteq Live BY DEF Live, StreamsEnd, Inside
<1>15. \A s \in late' : s \in late /\ step'[s] = step[s]
  BY DEF StreamsEnd, Typed
<1> QED BY <1>3, <1>4, <1>12, <1>13, <1>14, <1>15 DEF Sound

\* The same when a stream ends by itself.
LEMMA Ending ==
  ASSUME Inv, NEW s \in Streams, Ends(s), Active(s), transport' = transport
  PROVE  /\ Sound'
         /\ Held' \subseteq Held
         /\ Live' \subseteq Live
         /\ \A t \in late' : t \in late /\ step'[t] = step[t]
<1> DEFINE cs == IF transport = "tunnel" THEN {On(s)} ELSE {}
<1>1. cs \in SUBSET Conns BY OnType DEF Inv
<1>2. HandlersReturn(cs) /\ StreamsEnd({s}) BY DEF Ends
<1>3. \A t \in Streams : On(t) \in cs => ~Active(t) \/ t \in {s}
  BY DEF Inv, Grounded
<1> HIDE DEF cs
<1> QED BY <1>1, <1>2, <1>3, Returning DEF Inv

\* A step of a connection or a stream that leaves the process alone.
LEMMA Framed ==
  ASSUME Inv, Sound', UNCHANGED <<transport, record, process>>,
         Held' \subseteq Held \/ ~settled,
         \A s \in late' : s \in late /\ step'[s] \in {"idle", "knock"}
  PROVE  Inv'
<1>1. Typed' BY DEF Inv, Typed, Sound, record, process
<1>2. Lateness' BY DEF Inv, Lateness, process
<1>3. Settling' BY DEF Inv, Settling, process
<1> QED BY <1>1, <1>2, <1>3 DEF Inv, Sound

LEMMA EndingFramed ==
  ASSUME Inv, NEW s \in Streams, Ends(s), Active(s),
         UNCHANGED <<transport, record, process>>
  PROVE  Inv' /\ Live' \subseteq Live
<1>1. Sound' /\ Held' \subseteq Held /\ Live' \subseteq Live
      /\ \A t \in late' : t \in late /\ step'[t] = step[t]
  BY Ending
<1>2. \A t \in late' : t \in late /\ step'[t] \in {"idle", "knock"}
  BY <1>1 DEF Inv, Lateness
<1> QED BY <1>1, <1>2, Framed

\* A stream that moves on keeps its connection.
LEMMA Going ==
  ASSUME Inv, NEW s \in Streams, NEW next \in Running \cup Inside, Goes(s, next),
         link[On(s)] = "in", UNCHANGED <<transport, record, process, conns, said>>,
         transport = "tunnel" =>
           \A t \in Streams : t # s /\ On(t) = On(s) => ~Active(t),
         next \in {"admit"} \cup Inside => Past(s),
         s \in late => next = "knock"
  PROVE  Inv'
<1>1. step' = [step EXCEPT ![s] = next] BY DEF Goes
<1>2. step \in [Streams -> Running \cup Inside \cup {"idle", "done"}] BY DEF Inv, Typed
<1>3. \A t \in Streams : step'[t] = IF t = s THEN next ELSE step[t] BY <1>1, <1>2
<1>4. \A t \in Streams : On(t)' = On(t) BY DEF On
<1>5. \A t \in Streams : Active(t)' => Active(t) \/ t = s BY <1>3 DEF Active
<1>6. \A t \in Streams : Past(t)' => Past(t) BY <1>3 DEF Past
<1>7. \A t \in Streams : Active(t)' => link'[On(t)'] = "in"
  BY <1>4, <1>5 DEF Inv, Grounded, conns
<1>8. transport' = "tunnel" =>
        \A t, u \in Streams : t # u /\ On(t)' = On(u)' => ~(Active(t)' /\ Active(u)')
  BY <1>4, <1>5 DEF Inv, Grounded
<1>9. \A t \in Streams : Past(t)' => ticket'[t] = owner'[On(t)'] /\ ticket'[t] \in Ours
  BY <1>4, <1>6 DEF Inv, Grounded, conns, said
<1>10. Grounded' BY <1>7, <1>8, <1>9 DEF Grounded
<1>11. step' \in [Streams -> Running \cup Inside \cup {"idle", "done"}] BY <1>1, <1>2
<1>12. Sound' BY <1>10, <1>11 DEF Inv, Typed, Sound, conns, said
<1>13. Held' = Held BY DEF Held, conns
<1>14. \A t \in late' : t \in late /\ step'[t] \in {"idle", "knock"}
  BY <1>3 DEF Inv, Typed, Lateness, said
<1> QED BY <1>12, <1>13, <1>14, Framed

\* A stream whose ticket is good makes its grant the connection's.
LEMMA Accepting ==
  ASSUME Inv, NEW s \in Streams, NEW g \in Ours \cup Theirs, Authorize(s, g),
         UNCHANGED <<transport, record, process>>
  PROVE  Inv' /\ Live' \subseteq Live
<1>1. \A t \in Streams : On(t) \in Conns BY OnType DEF Inv
<1>2. \A t \in Streams : On(t)' = On(t) BY DEF On
<1>3. g \in Ours BY DEF Authorize, GrantIsLive, OurRecord, Table
<1>4. /\ owner' = [owner EXCEPT ![On(s)] = g]
      /\ link' = link /\ shut' = shut /\ doubt' = doubt
  BY DEF Authorize, Accepts
<1>5. step[s] = "table" /\ owner[On(s)] \in {NoGrant, g}
  BY DEF Authorize, Mismatch
<1>6. owner \in [Conns -> Ours \cup Theirs \cup {NoGrant}] BY DEF Inv, Typed
<1>7. Active(s) BY <1>5 DEF Active, Running
<1>8. s \notin late BY <1>5 DEF Inv, Lateness
<1>9. owner'[On(s)] = g BY <1>1, <1>4, <1>6
<1>10. \A t \in Streams : Past(t) => owner'[On(t)] = ticket[t] /\ ticket[t] \in Ours
  <2> SUFFICES ASSUME NEW t \in Streams, Past(t)
               PROVE  owner'[On(t)] = ticket[t] /\ ticket[t] \in Ours
    OBVIOUS
  <2>1. ticket[t] = owner[On(t)] /\ ticket[t] \in Ours BY DEF Inv, Grounded
  <2>2. CASE On(t) = On(s) BY <1>5, <1>9, <2>1, <2>2, BridgeAssumption
  <2>3. CASE On(t) # On(s) BY <1>1, <1>4, <1>6, <2>1, <2>3
  <2> QED BY <2>2, <2>3
<1>11. /\ link' \in [Conns -> {"out", "in", "gone"}]
       /\ shut' \in [Conns -> {"open", "ended", "revoked", "closed"}]
       /\ owner' \in [Conns -> Ours \cup Theirs \cup {NoGrant}]
       /\ doubt' \in [Conns -> {"none", "dead", "blind"}]
  BY <1>3, <1>4, <1>6 DEF Inv, Typed
<1>12. Held' = Held BY <1>4 DEF Held
<1>13. CASE Goes(s, "admit") /\ ticket' = [ticket EXCEPT ![s] = g] /\ UNCHANGED late
  <2>1. step' = [step EXCEPT ![s] = "admit"] BY <1>13 DEF Goes
  <2>2. step \in [Streams -> Running \cup Inside \cup {"idle", "done"}]
        /\ ticket \in [Streams -> Ours \cup Theirs \cup {NoGrant}]
    BY DEF Inv, Typed
  <2>3. \A t \in Streams : /\ step'[t] = IF t = s THEN "admit" ELSE step[t]
                           /\ ticket'[t] = IF t = s THEN g ELSE ticket[t]
    BY <1>13, <2>1, <2>2
  <2>4. \A t \in Streams : Active(t)' => Active(t) BY <1>7, <2>3 DEF Active
  <2>5. \A t \in Streams : Past(t)' => Past(t) \/ t = s BY <2>3 DEF Past
  <2>6. \A t \in Streams : Active(t)' => link'[On(t)'] = "in"
    BY <1>2, <1>4, <2>4 DEF Inv, Grounded
  <2>7. transport' = "tunnel" =>
          \A t, u \in Streams : t # u /\ On(t)' = On(u)' => ~(Active(t)' /\ Active(u)')
    BY <1>2, <2>4 DEF Inv, Grounded
  <2>8. \A t \in Streams : Past(t)' => ticket'[t] = owner'[On(t)'] /\ ticket'[t] \in Ours
    BY <1>2, <1>3, <1>9, <1>10, <2>3, <2>5
  <2>9. Grounded' BY <2>6, <2>7, <2>8 DEF Grounded
  <2>10. /\ step' \in [Streams -> Running \cup Inside \cup {"idle", "done"}]
         /\ ticket' \in [Streams -> Ours \cup Theirs \cup {NoGrant}]
         /\ late' \subseteq Streams
    BY <1>13, <2>1, <2>2 DEF Running, Inv, Typed
  <2>11. Sound' BY <1>11, <2>9, <2>10 DEF Sound
  <2>12. \A t \in late' : t \in late /\ step'[t] \in {"idle", "knock"}
    BY <1>8, <1>13, <2>3 DEF Inv, Typed, Lateness
  <2>13. Inv' BY <1>12, <2>11, <2>12, Framed
  <2>14. Live' \subseteq Live BY <2>3 DEF Live, Inside
  <2> QED BY <2>13, <2>14
<1>14. CASE transport = "p2p" /\ StreamsEnd({s})
  <2>1. step' = [t \in Streams |-> IF t \in {s} THEN "done" ELSE step[t]]
        /\ ticket' = [t \in Streams |-> IF t \in {s} THEN NoGrant ELSE ticket[t]]
        /\ late' = late \ {s}
    BY <1>14 DEF StreamsEnd
  <2>2. \A t \in Streams : Active(t)' => Active(t) /\ t # s
    BY <2>1 DEF Active, Running, Inside
  <2>3. \A t \in Streams : Past(t)' => Past(t) /\ t # s BY <2>1 DEF Past, Inside
  <2>4. \A t \in Streams : Active(t)' => link'[On(t)'] = "in"
    BY <1>2, <1>4, <2>2 DEF Inv, Grounded
  <2>5. \A t \in Streams : Past(t)' => ticket'[t] = owner'[On(t)'] /\ ticket'[t] \in Ours
    BY <1>2, <1>10, <2>1, <2>3
  <2>6. transport' # "tunnel" BY <1>14
  <2>7. Grounded' BY <2>4, <2>5, <2>6 DEF Grounded
  <2>8. /\ step' \in [Streams -> Running \cup Inside \cup {"idle", "done"}]
        /\ ticket' \in [Streams -> Ours \cup Theirs \cup {NoGrant}]
        /\ late' \subseteq Streams
    BY <2>1 DEF Inv, Typed
  <2>9. Sound' BY <1>11, <2>7, <2>8 DEF Sound
  <2>10. \A t \in late' : t \in late /\ step'[t] \in {"idle", "knock"}
    BY <2>1 DEF Inv, Typed, Lateness
  <2>11. Inv' BY <1>12, <2>9, <2>10, Framed
  <2>12. Live' \subseteq Live BY <2>1 DEF Live, Inside
  <2> QED BY <2>11, <2>12
<1> QED BY <1>13, <1>14 DEF Authorize, Accepts

-----------------------------------------------------------------------------
LEMMA OthersKeep ==
  ASSUME Inv, Others
  PROVE  Inv' /\ Live' = Live
<1>1. UNCHANGED <<transport, process, conns, streams>> BY DEF Others
<1>2. /\ disk \in {"ours", "held", "other", "gone"}
      /\ grants \in [Ours -> {"live", "dead", "stopped"}]
      /\ winding \in BOOLEAN /\ bad \in BOOLEAN
  BY DEF Inv, Typed
<1>3. /\ disk' \in {"ours", "held", "other", "gone"}
      /\ grants' \in [Ours -> {"live", "dead", "stopped"}]
      /\ winding' \in BOOLEAN /\ bad' \in BOOLEAN
  <2>1. CASE \E g \in Ours : Lapse(g) BY <1>2, <2>1 DEF Lapse
  <2>2. CASE StopShare
    <3>1. grants' = [g \in Ours |-> IF grants[g] = "live" THEN "stopped" ELSE grants[g]]
          /\ winding' = TRUE /\ disk' = disk /\ bad' = bad
      BY <2>2 DEF StopShare, Stopped
    <3> QED BY <1>2, <3>1
  <2>3. CASE ForceStop BY <1>2, <2>3 DEF ForceStop
  <2>4. CASE Replace BY <1>2, <2>4 DEF Replace
  <2>5. CASE Sicken BY <1>2, <2>5 DEF Sicken
  <2>6. CASE WriteBack
    <3>1. disk' = "ours" /\ bad' = bad BY <2>6 DEF WriteBack
    <3>2. ASSUME UNCHANGED grants, winding' \in BOOLEAN
          PROVE  /\ grants' \in [Ours -> {"live", "dead", "stopped"}]
                 /\ winding' \in BOOLEAN
      BY <1>2, <3>2
    <3>4. ASSUME NEW g \in Ours, grants' = [grants EXCEPT ![g] = "dead"],
                 UNCHANGED winding
          PROVE  /\ grants' \in [Ours -> {"live", "dead", "stopped"}]
                 /\ winding' \in BOOLEAN
      BY <1>2, <3>4
    <3>3. CASE Stopped
      <4>1. grants' = [g \in Ours |-> IF grants[g] = "live" THEN "stopped" ELSE grants[g]]
            /\ winding' = TRUE
        BY <3>3 DEF Stopped
      <4> QED BY <1>2, <3>1, <4>1
    <3>5. CASE UNCHANGED <<grants, winding>> BY <1>2, <3>1, <3>2, <3>5
    <3>6. CASE winding' = TRUE /\ UNCHANGED grants BY <1>2, <3>1, <3>2, <3>6
    <3>7. CASE (\E g \in Ours : grants' = [grants EXCEPT ![g] = "dead"]) /\ UNCHANGED winding
      BY <1>2, <3>1, <3>4, <3>7
    <3> QED BY <2>6, <3>3, <3>5, <3>6, <3>7 DEF WriteBack
  <2>7. CASE WriterDies BY <1>2, <2>7 DEF WriterDies
  <2> QED BY <2>1, <2>2, <2>3, <2>4, <2>5, <2>6, <2>7 DEF Others
<1>4. Typed' BY <1>1, <1>3 DEF Inv, Typed, process, conns, streams, said
<1>5. Grounded' BY <1>1 DEF Inv, Grounded, On, Active, Past, conns, streams, said
<1>6. Lateness' BY <1>1 DEF Inv, Lateness, process, streams, said
<1>7. Settling' BY <1>1 DEF Inv, Settling, Held, process, conns
<1>8. Live' = Live BY <1>1 DEF Live, streams
<1> QED BY <1>4, <1>5, <1>6, <1>7, <1>8 DEF Inv

\* A connection that is only closed or questioned keeps its streams.
LEMMA Closing ==
  ASSUME Inv, UNCHANGED <<transport, record, process, link, owner, streams>>,
         shut' \in [Conns -> {"open", "ended", "revoked", "closed"}],
         doubt' \in [Conns -> {"none", "dead", "blind"}]
  PROVE  Inv' /\ Live' = Live
<1>1. Grounded' BY DEF Inv, Grounded, On, Active, Past, streams, said
<1>2. Sound' BY <1>1 DEF Inv, Typed, Sound, streams, said
<1>3. Held' = Held BY DEF Held
<1>4. \A s \in late' : s \in late /\ step'[s] \in {"idle", "knock"}
  BY DEF Inv, Lateness, streams, said
<1>5. Live' = Live BY DEF Live, streams
<1> QED BY <1>2, <1>3, <1>4, <1>5, Framed

LEMMA ConnectionKeeps ==
  ASSUME Inv, NEW c \in Conns, Connection(c)
  PROVE  Inv' /\ Live' \subseteq Live
<1>1. UNCHANGED <<transport, record, process>> BY DEF Connection
<1>2. CASE Accept(c)
  <2>1. main = "serving" /\ link[c] = "out" /\ link' = [link EXCEPT ![c] = "in"]
        /\ UNCHANGED <<shut, owner, doubt, streams>>
    BY <1>2 DEF Accept
  <2>2. link \in [Conns -> {"out", "in", "gone"}] BY DEF Inv, Typed
  <2>3. link' \in [Conns -> {"out", "in", "gone"}] BY <2>1, <2>2
  <2>4. \A d \in Conns : link[d] = "in" => link'[d] = "in" BY <2>1, <2>2
  <2>5. \A s \in Streams : On(s)' = On(s) /\ On(s) \in Conns
    BY <1>1, OnType DEF On, Inv
  <2>6. \A s \in Streams : /\ Active(s)' = Active(s) /\ Past(s)' = Past(s)
                           /\ ticket'[s] = ticket[s]
    BY <2>1 DEF Active, Past, streams, said
  <2>7. Grounded'
    <3>1. \A s \in Streams : Active(s)' => link'[On(s)'] = "in"
      BY <2>4, <2>5, <2>6 DEF Inv, Grounded
    <3>2. transport' = "tunnel" =>
            \A s, t \in Streams : s # t /\ On(s)' = On(t)' => ~(Active(s)' /\ Active(t)')
      BY <1>1, <2>5, <2>6 DEF Inv, Grounded
    <3>3. \A s \in Streams : Past(s)' => ticket'[s] = owner'[On(s)'] /\ ticket'[s] \in Ours
      BY <2>1, <2>5, <2>6 DEF Inv, Grounded
    <3> QED BY <3>1, <3>2, <3>3 DEF Grounded
  <2>8. Sound' BY <2>1, <2>3, <2>7 DEF Inv, Typed, Sound, streams, said
  <2>9. ~settled BY <2>1 DEF Inv, Settling
  <2>10. \A s \in late' : s \in late /\ step'[s] \in {"idle", "knock"}
    BY <2>1 DEF Inv, Lateness, streams, said
  <2>11. Inv' BY <1>1, <2>8, <2>9, <2>10, Framed
  <2>12. Live' = Live BY <2>1 DEF Live, streams
  <2> QED BY <2>11, <2>12
<1>3. CASE /\ transport = "tunnel" /\ \A s \in StreamsOf(c) : step[s] = "idle"
           /\ HandlersReturn({c}) /\ UNCHANGED streams
  <2>1. StreamsEnd({})
    <3>1. /\ step' = step /\ ticket' = ticket /\ late' = late
          /\ step \in [Streams -> Running \cup Inside \cup {"idle", "done"}]
          /\ ticket \in [Streams -> Ours \cup Theirs \cup {NoGrant}]
      BY <1>3 DEF streams, said, Inv, Typed
    <3> QED BY <3>1 DEF StreamsEnd
  <2>2. \A s \in Streams : On(s) \in {c} => ~Active(s) \/ s \in {}
    BY <1>3 DEF StreamsOf, Active, Running, Inside
  <2>3. HandlersReturn({c}) BY <1>3
  <2>4. Sound' /\ Held' \subseteq Held /\ Live' \subseteq Live
        /\ \A t \in late' : t \in late /\ step'[t] = step[t]
    BY <1>1, <2>1, <2>2, <2>3, Returning DEF Inv
  <2>5. \A t \in late' : t \in late /\ step'[t] \in {"idle", "knock"}
    BY <2>4 DEF Inv, Lateness
  <2> QED BY <1>1, <2>4, <2>5, Framed
<1>4. ASSUME NEW why \in {"closed", "ended", "revoked"}, Close(c, why)
      PROVE  Inv' /\ Live' \subseteq Live
  <2>1. UNCHANGED <<link, owner, streams>> BY <1>4 DEF Close
  <2>2. shut' \in [Conns -> {"open", "ended", "revoked", "closed"}]
        /\ doubt' \in [Conns -> {"none", "dead", "blind"}]
    BY <1>4 DEF Close, Inv, Typed
  <2> QED BY <1>1, <2>1, <2>2, Closing
<1>5. CASE Leave(c) BY <1>3, <1>4, <1>5 DEF Leave
<1>6. CASE Ungreeted(c) BY <1>4, <1>6 DEF Ungreeted
<1>7. CASE Doubt(c)
  <2>1. UNCHANGED <<link, shut, owner, streams>> BY <1>7 DEF Doubt
  <2>2. shut' \in [Conns -> {"open", "ended", "revoked", "closed"}]
        /\ doubt' \in [Conns -> {"none", "dead", "blind"}]
    BY <1>7 DEF Doubt, Inv, Typed
  <2> QED BY <1>1, <2>1, <2>2, Closing
<1>8. CASE Cut(c) BY <1>4, <1>8 DEF Cut
<1>9. CASE TellEnded(c) BY <1>4, <1>9 DEF TellEnded
<1>10. CASE Drain(c)
  <2> DEFINE ss == {s \in StreamsOf(c) : step[s] = "dial"}
  <2>1. ss \in SUBSET Streams BY DEF StreamsOf
  <2>2. \A s \in Streams : On(s) \in {c} => ~Active(s) \/ s \in ss
    BY <1>10 DEF Drain, StreamsOf, Active, Running, Inside
  <2>3. HandlersReturn({c}) /\ StreamsEnd(ss) BY <1>10 DEF Drain
  <2> HIDE DEF ss
  <2>4. Sound' /\ Held' \subseteq Held /\ Live' \subseteq Live
        /\ \A t \in late' : t \in late /\ step'[t] = step[t]
    BY <1>1, <2>1, <2>2, <2>3, Returning DEF Inv
  <2>5. \A t \in late' : t \in late /\ step'[t] \in {"idle", "knock"}
    BY <2>4 DEF Inv, Lateness
  <2> QED BY <1>1, <2>4, <2>5, Framed
<1> QED BY <1>2, <1>5, <1>6, <1>7, <1>8, <1>9, <1>10 DEF Connection

\* Only a stream that is admitted comes to be in the box.
LEMMA StreamKeeps ==
  ASSUME Inv, NEW s \in Streams, Stream(s)
  PROVE  /\ Inv'
         /\ \/ Live' \subseteq Live
            \/ Cardinality(Live) < MaxLive /\ Live' \subseteq Live \cup {s}
<1>1. UNCHANGED <<transport, record, process>> BY DEF Stream
<1>2. step \in [Streams -> Running \cup Inside \cup {"idle", "done"}] BY DEF Inv, Typed
<1>3. ASSUME Active(s), Ends(s)
      PROVE  Inv' /\ Live' \subseteq Live
  BY <1>1, <1>3, EndingFramed
<1>4. ASSUME NEW next \in Running \cup Inside, Goes(s, next), Active(s),
             UNCHANGED <<conns, said>>,
             next \in {"admit"} \cup Inside => Past(s),
             s \in late => next = "knock"
      PROVE  Inv'
  <2>1. link[On(s)] = "in" BY <1>4 DEF Inv, Grounded
  <2>2. transport = "tunnel" =>
          \A t \in Streams : t # s /\ On(t) = On(s) => ~Active(t)
    BY <1>4 DEF Inv, Grounded
  <2>3. UNCHANGED <<transport, record, process, conns, said>> BY <1>1, <1>4
  <2> QED BY <1>4, <2>1, <2>2, <2>3, Going
<1>5. ASSUME NEW next \in Running \cup Inside, Goes(s, next)
      PROVE  /\ Live' \subseteq Live \cup {s}
             /\ next \notin Inside \/ step[s] \in Inside => Live' \subseteq Live
  <2>1. \A t \in Streams : step'[t] = IF t = s THEN next ELSE step[t]
    BY <1>2, <1>5 DEF Goes
  <2> QED BY <2>1 DEF Live
<1>6. CASE Greet(s)
  <2>1. Goes(s, "knock") /\ UNCHANGED <<conns, said>> BY <1>6 DEF Greet, Goes
  <2>2. link[On(s)] = "in" /\ step[s] = "idle" BY <1>6 DEF Greet, Open
  <2>3. transport = "tunnel" =>
          \A t \in Streams : t # s /\ On(t) = On(s) => ~Active(t)
    BY <1>6 DEF Greet, StreamsOf, Active, Running, Inside
  <2>4. UNCHANGED <<transport, record, process, conns, said>> BY <1>1, <2>1
  <2>5. "knock" \in Running \cup Inside /\ "knock" \notin {"admit"} \cup Inside
    BY DEF Running, Inside
  <2>6. Inv' BY <2>1, <2>2, <2>3, <2>4, <2>5, Going
  <2> QED BY <1>5, <2>1, <2>5, <2>6
<1>7. CASE Knock(s)
  <2>1. step[s] = "knock" BY <1>7 DEF Knock
  <2>2. Active(s) BY <2>1 DEF Active, Running
  <2>3. CASE ~shutdown /\ Goes(s, "table") /\ UNCHANGED <<conns, said>>
    <3>1. s \notin late BY <2>3 DEF Inv, Lateness
    <3>2. "table" \in Running \cup Inside /\ "table" \notin {"admit"} \cup Inside
      BY DEF Running, Inside
    <3> QED BY <1>4, <1>5, <2>2, <2>3, <3>1, <3>2
  <2> QED BY <1>3, <1>7, <2>2, <2>3 DEF Knock
<1>8. CASE Weighed(s)
  <2>1. PICK g \in Ours \cup Theirs : Refuse(s, g) \/ Redirect(s, g) \/ Authorize(s, g)
    BY <1>8 DEF Weighed
  <2>2. step[s] = "table" BY <2>1 DEF Refuse, Redirect, Authorize
  <2>3. Active(s) BY <2>2 DEF Active, Running
  <2>4. CASE Authorize(s, g) BY <1>1, <2>4, Accepting
  <2> QED BY <1>3, <2>1, <2>3, <2>4 DEF Refuse, Redirect
<1>9. CASE Admit(s)
  <2>1. step[s] = "admit" BY <1>9 DEF Admit
  <2>2. Active(s) /\ Past(s) BY <2>1 DEF Active, Past, Running
  <2>3. s \notin late BY <2>1 DEF Inv, Lateness
  <2>4. CASE Cardinality(Live) < MaxLive /\ Goes(s, "dial") /\ UNCHANGED <<conns, said>>
    <3>1. "dial" \in Running \cup Inside BY DEF Inside
    <3> QED BY <1>4, <1>5, <2>2, <2>3, <2>4, <3>1
  <2> QED BY <1>3, <1>9, <2>2, <2>4 DEF Admit
<1>10. CASE Dialled(s)
  <2>1. step[s] = "dial" BY <1>10 DEF Dialled
  <2>2. Active(s) /\ Past(s) BY <2>1 DEF Active, Past, Inside
  <2>3. s \notin late BY <2>1 DEF Inv, Lateness
  <2>4. CASE Goes(s, "pipe") /\ UNCHANGED <<conns, said>>
    <3>1. "pipe" \in Running \cup Inside /\ "dial" \in Inside BY DEF Inside
    <3> QED BY <1>4, <1>5, <2>1, <2>2, <2>3, <2>4, <3>1
  <2> QED BY <1>3, <1>10, <2>2, <2>4 DEF Dialled
<1>11. CASE Revoked(s) \/ ShuttingDown(s) \/ Closed(s) \/ Finish(s)
  <2>1. Active(s) /\ Ends(s)
    BY <1>11 DEF Revoked, ShuttingDown, Closed, Finish, Active, Inside
  <2> QED BY <1>3, <2>1
<1> QED BY <1>6, <1>7, <1>8, <1>9, <1>10, <1>11 DEF Stream

LEMMA MainKeeps ==
  ASSUME Inv, MainTask
  PROVE  Inv' /\ Live' \subseteq Live
<1>1. transport' = transport BY DEF MainTask
<1>2. ASSUME UNCHANGED <<conns, streams>>
      PROVE  Sound' /\ Held' = Held /\ Live' = Live
  <2>1. Grounded' BY <1>1, <1>2 DEF Inv, Grounded, On, Active, Past, conns, streams, said
  <2>2. Sound' BY <1>2, <2>1 DEF Inv, Typed, Sound, conns, streams, said
  <2> QED BY <1>2, <2>2 DEF Held, Live, conns, streams
<1>3. CASE \/ BoxWentAway \/ Interrupted \/ StoppedElsewhere \/ MarkWinding
           \/ Quiesce \/ WriteReceipt
  <2>1. UNCHANGED <<conns, streams>>
    BY <1>3 DEF BoxWentAway, Interrupted, StoppedElsewhere, MarkWinding, Quiesce, WriteReceipt
  <2>2. Sound' /\ Held' = Held /\ Live' = Live BY <1>2, <2>1
  <2>3. shutdown' = shutdown
    BY <1>3 DEF BoxWentAway, Interrupted, StoppedElsewhere, MarkWinding, Quiesce, WriteReceipt
  <2>4. Lateness' BY <2>1, <2>3 DEF Inv, Lateness, streams, said
  <2>5. /\ disk' = disk /\ grants' = grants /\ bad' = bad
        /\ winding' \in BOOLEAN
    BY <1>3 DEF BoxWentAway, Interrupted, StoppedElsewhere, MarkWinding, Quiesce,
                WriteReceipt, record, Inv, Typed
  <2>6. /\ main' \in {"winding", "marked", "write", "clear"}
        /\ armed' \in BOOLEAN /\ settled' \in BOOLEAN
        /\ receipt' \in {"none", "whole", "partial"}
    BY <1>3 DEF BoxWentAway, Interrupted, StoppedElsewhere, MarkWinding, Quiesce,
                WriteReceipt, Inv, Typed
  <2>7. Settling'
    <3>1. CASE BoxWentAway \/ Interrupted \/ StoppedElsewhere \/ MarkWinding
      BY <2>2, <3>1 DEF BoxWentAway, Interrupted, StoppedElsewhere, MarkWinding, Inv, Settling
    <3>2. CASE Quiesce BY <2>2, <3>2 DEF Quiesce, Quiet, Inv, Settling
    <3>3. CASE WriteReceipt BY <2>2, <3>3 DEF WriteReceipt, Inv, Settling
    <3> QED BY <1>3, <3>1, <3>2, <3>3
  <2>8. Typed' BY <1>1, <2>2, <2>3, <2>5, <2>6 DEF Inv, Typed, Sound
  <2> QED BY <2>2, <2>4, <2>7, <2>8 DEF Inv, Sound
<1>4. CASE RaiseFlag
  <2>1. /\ main = "marked" /\ main' = "flagged" /\ shutdown' = TRUE
        /\ late' = {s \in Streams : step[s] = "idle"}
        /\ UNCHANGED <<record, armed, settled, receipt, conns, step, ticket>>
    BY <1>4 DEF RaiseFlag
  <2>2. Grounded' BY <1>1, <2>1 DEF Inv, Grounded, On, Active, Past, conns
  <2>3. Lateness' BY <2>1 DEF Lateness
  <2>4. Settling' BY <2>1 DEF Inv, Settling
  <2>5. Typed' BY <1>1, <2>1 DEF Inv, Typed, record, conns
  <2>6. Live' = Live BY <2>1 DEF Live
  <2> QED BY <2>2, <2>3, <2>4, <2>5, <2>6 DEF Inv
<1>5. CASE CloseTransport \/ SkipWait
  <2>1. /\ main \in {"flagged", "closing"} /\ main' \in {"closing", "write"}
        /\ armed' \in {armed, TRUE}
        /\ UNCHANGED <<record, shutdown, settled, receipt, link, owner, streams>>
    BY <1>5 DEF CloseTransport, SkipWait
  <2>2. EndpointClosed BY <1>5 DEF CloseTransport, SkipWait
  <2>3. /\ shut' \in [Conns -> {"open", "ended", "revoked", "closed"}]
        /\ doubt' \in [Conns -> {"none", "dead", "blind"}]
    BY <2>2 DEF EndpointClosed, Inv, Typed
  <2>4. Grounded' BY <1>1, <2>1 DEF Inv, Grounded, On, Active, Past, streams, said
  <2>5. Lateness' BY <2>1 DEF Inv, Lateness, streams, said
  <2>6. Settling' BY <2>1 DEF Inv, Settling
  <2>7. Typed' BY <1>1, <2>1, <2>3, ZenonT(60) DEF Inv, Typed, record, streams, said
  <2>8. Live' = Live BY <2>1 DEF Live, streams
  <2> QED BY <2>4, <2>5, <2>6, <2>7, <2>8 DEF Inv
<1>6. CASE Exit \/ HardExit
  <2>1. /\ main' = "over" /\ disk' \in {disk, "gone"}
        /\ HandlersReturn(Conns) /\ StreamsEnd(Streams)
        /\ UNCHANGED <<grants, winding, bad, shutdown, armed, settled, receipt>>
    BY <1>6 DEF Exit, HardExit, Dies
  <2>2. \A s \in Streams : On(s) \in Conns => ~Active(s) \/ s \in Streams
    OBVIOUS
  <2>3. Sound' /\ Held' \subseteq Held /\ Live' \subseteq Live
        /\ \A t \in late' : t \in late /\ step'[t] = step[t]
    BY <1>1, <2>1, <2>2, Returning DEF Inv
  <2>4. Lateness' BY <2>1, <2>3 DEF Inv, Lateness
  <2>5. Settling' BY <2>1, <2>3 DEF Inv, Settling
  <2>6. Typed' BY <1>1, <2>1, <2>3 DEF Inv, Typed, Sound
  <2> QED BY <2>3, <2>4, <2>5, <2>6 DEF Inv, Sound
<1> QED BY <1>3, <1>4, <1>5, <1>6 DEF MainTask

-----------------------------------------------------------------------------
LEMMA Initially == Init => Inv /\ Live = {}
<1> SUFFICES ASSUME Init PROVE Inv /\ Live = {}
  OBVIOUS
<1>1. Typed BY BridgeAssumption DEF Init, Typed
<1>2. Grounded BY DEF Init, Grounded, Active, Past, Running, Inside
<1>3. Lateness BY DEF Init, Lateness
<1>4. Settling BY DEF Init, Settling
<1>5. Live = {} BY DEF Init, Live, Inside
<1> QED BY <1>1, <1>2, <1>3, <1>4, <1>5 DEF Inv

LEMMA StepKeeps ==
  ASSUME Inv, [Next]_vars
  PROVE  /\ Inv'
         /\ \/ Live' \subseteq Live
            \/ \E s \in Streams : Cardinality(Live) < MaxLive /\ Live' \subseteq Live \cup {s}
<1>1. CASE Others BY <1>1, OthersKeep
<1>2. CASE \E c \in Conns : Connection(c) BY <1>2, ConnectionKeeps
<1>3. CASE \E s \in Streams : Stream(s) BY <1>3, StreamKeeps
<1>4. CASE MainTask BY <1>4, MainKeeps
<1>5. CASE UNCHANGED vars
  <2>1. UNCHANGED <<transport, record, process, conns, streams>> BY <1>5 DEF vars
  <2>2. Typed' BY <2>1 DEF Inv, Typed, record, process, conns, streams, said
  <2>3. Grounded' BY <2>1 DEF Inv, Grounded, On, Active, Past, conns, streams, said
  <2>4. Lateness' BY <2>1 DEF Inv, Lateness, process, streams, said
  <2>5. Settling' BY <2>1 DEF Inv, Settling, Held, process, conns
  <2>6. Live' = Live BY <2>1 DEF Live, streams
  <2> QED BY <2>2, <2>3, <2>4, <2>5, <2>6 DEF Inv
<1> QED BY <1>1, <1>2, <1>3, <1>4, <1>5 DEF Next

LEMMA Permits ==
  ASSUME Inv, Cardinality(Live) <= MaxLive, [Next]_vars
  PROVE  Cardinality(Live') <= MaxLive
<1>1. IsFiniteSet(Live) /\ MaxLive \in Nat
  BY BridgeAssumption, FS_Subset DEF Live
<1>2. Cardinality(Live) \in Nat BY <1>1, FS_CardinalityType
<1>3. CASE Live' \subseteq Live
  <2>1. Cardinality(Live') <= Cardinality(Live) /\ IsFiniteSet(Live')
    BY <1>1, <1>3, FS_Subset
  <2>2. Cardinality(Live') \in Nat BY <2>1, FS_CardinalityType
  <2> QED BY <1>1, <1>2, <2>1, <2>2
<1>4. CASE \E s \in Streams : Cardinality(Live) < MaxLive /\ Live' \subseteq Live \cup {s}
  <2>1. PICK s \in Streams : Cardinality(Live) < MaxLive /\ Live' \subseteq Live \cup {s}
    BY <1>4
  <2>2. IsFiniteSet(Live \cup {s})
        /\ Cardinality(Live \cup {s}) \in {Cardinality(Live), Cardinality(Live) + 1}
    BY <1>1, FS_AddElement
  <2>3. IsFiniteSet(Live') /\ Cardinality(Live') <= Cardinality(Live \cup {s})
    BY <2>1, <2>2, FS_Subset
  <2>4. Cardinality(Live') \in Nat BY <2>3, FS_CardinalityType
  <2> QED BY <1>1, <1>2, <2>1, <2>2, <2>3, <2>4
<1> QED BY <1>3, <1>4, StepKeeps

LEMMA Invariant == Spec => [](Inv /\ Cardinality(Live) <= MaxLive)
<1>1. Init => Inv /\ Cardinality(Live) <= MaxLive
  <2>1. Cardinality({}) = 0 BY FS_EmptySet
  <2> QED BY <2>1, Initially, BridgeAssumption
<1>2. Inv /\ Cardinality(Live) <= MaxLive /\ [Next]_vars
        => (Inv /\ Cardinality(Live) <= MaxLive)'
  BY StepKeeps, Permits
<1> QED BY <1>1, <1>2, PTL DEF Spec

-----------------------------------------------------------------------------
\* Every variable of the serving loop keeps its type, and a share never
\* carries more connections into the box than it has permits, whatever
\* handlers are revoked, cut or abandoned at their dial.
THEOREM BridgeTypes == Spec => []TypeOK
<1>1. Inv /\ Cardinality(Live) <= MaxLive => TypeOK BY DEF Inv, TypeOK
<1> QED BY <1>1, Invariant, PTL

\* A receipt that says its share settled was written with no handler under
\* way, and none comes after it: taking every place in front is a barrier
\* although it is let go at once.
THEOREM SettledHolds == Spec => []SettledIsWhole
<1>1. Inv => SettledIsWhole
  <2> SUFFICES ASSUME Inv, receipt = "whole", NEW s \in Streams
               PROVE  step[s] \in {"idle", "done"}
    BY DEF SettledIsWhole
  <2>1. Held = {} BY DEF Inv, Settling
  <2>2. On(s) \in Conns BY OnType DEF Inv
  <2>3. ~Active(s) BY <2>1, <2>2 DEF Inv, Grounded, Held
  <2> QED BY <2>3 DEF Active, Inv, Typed
<1> QED BY <1>1, Invariant, PTL

\* Nobody who was silent when the shutdown flag was raised is ever let in.
THEOREM LateHolds == Spec => []NoLateEntry
<1>1. Inv => NoLateEntry BY DEF Inv, Lateness, NoLateEntry, Inside
<1> QED BY <1>1, Invariant, PTL

\* Whoever is let in was let in by a ticket of this share, and by the one its
\* connection is watched for.
THEOREM TicketsHold == Spec => []OneTicket
<1>1. Inv => OneTicket BY DEF Inv, Grounded, Past, OneTicket
<1> QED BY <1>1, Invariant, PTL

-----------------------------------------------------------------------------
(* What a peer is told.                                                    *)

\* Every connection is admitted by a grant of this share, and a watchdog that
\* saw in the record that one is dead has met a fact that no later step
\* undoes.
Informed ==
  /\ \A c \in Conns : owner[c] \in Ours \cup {NoGrant}
  /\ \A c \in Conns : doubt[c] # "none" => owner[c] \in Ours
  /\ \A c \in Conns : doubt[c] = "dead" => grants[owner[c]] # "live"
  /\ \A g \in Ours : grants[g] = "stopped" => winding

Told ==
  \A c \in Conns :
    /\ shut[c] = "open" /\ shut'[c] = "revoked"
         => bad \/ doubt[c] = "blind" \/ grants[owner[c]] = "dead"
    /\ shut[c] = "open" /\ shut'[c] = "ended"
         => winding \/ shutdown \/ disk # "ours"

\* What was said of the grants stays said, by a writer too that puts back a
\* record removed under it: one that lapsed does not come back.
Settled ==
  /\ \A g \in Ours : grants[g] # "live" => grants'[g] # "live"
  /\ \A g \in Ours : grants'[g] = "stopped" => winding'

\* A connection keeps its grant and its doubt, or has no doubt.
Asking(c) ==
  \/ doubt'[c] = "none" /\ owner'[c] \in Ours \cup {NoGrant}
  \/ doubt'[c] = doubt[c] /\ owner'[c] = owner[c]

LEMMA Remaining ==
  ASSUME Informed, Settled, \A c \in Conns : Asking(c)
  PROVE  Informed'
<1>1. \A c \in Conns : owner'[c] \in Ours \cup {NoGrant} BY DEF Informed, Asking
<1>2. \A c \in Conns : doubt'[c] # "none" => owner'[c] \in Ours
  BY DEF Informed, Asking
<1>3. ASSUME NEW c \in Conns, doubt'[c] = "dead"
      PROVE  grants'[owner'[c]] # "live"
  <2>1. doubt[c] = "dead" /\ owner'[c] = owner[c] BY <1>3 DEF Asking
  <2>2. owner[c] \in Ours /\ grants[owner[c]] # "live"
    BY <2>1 DEF Informed
  <2> QED BY <2>1, <2>2 DEF Settled
<1>4. \A g \in Ours : grants'[g] = "stopped" => winding' BY DEF Settled
<1> QED BY <1>1, <1>2, <1>3, <1>4 DEF Informed

LEMMA RecordRests == ASSUME Informed, UNCHANGED record PROVE Settled
  BY DEF Informed, Settled, record

LEMMA OthersSettle ==
  ASSUME Inv, Informed, Others
  PROVE  Informed' /\ Told
<1>1. UNCHANGED conns BY DEF Others
<1>2. grants \in [Ours -> {"live", "dead", "stopped"}] BY DEF Inv, Typed
<1>3. Settled
  <2>1. ASSUME NEW g \in Ours, Lapse(g) PROVE Settled
    <3>1. /\ grants' = [grants EXCEPT ![g] = "dead"]
          /\ disk' = disk /\ winding' = winding
      BY <2>1 DEF Lapse
    <3>2. \A h \in Ours : grants'[h] = IF h = g THEN "dead" ELSE grants[h]
      BY <1>2, <3>1
    <3> QED BY <3>1, <3>2 DEF Informed, Settled
  <2>2. CASE StopShare
    <3>1. /\ \A g \in Ours : grants'[g] = IF grants[g] = "live" THEN "stopped" ELSE grants[g]
          /\ winding' = TRUE
      BY <2>2 DEF StopShare, Stopped
    <3> QED BY <3>1 DEF Settled
  <2>3. CASE ForceStop BY <2>3 DEF ForceStop, Informed, Settled
  <2>4. CASE Replace BY <2>4 DEF Replace, Informed, Settled
  <2>5. CASE Sicken BY <2>5 DEF Sicken, Informed, Settled
  <2>6. CASE WriteBack
    <3>1. CASE Stopped
      <4>1. /\ \A g \in Ours : grants'[g] = IF grants[g] = "live" THEN "stopped"
                                                             ELSE grants[g]
            /\ winding' = TRUE
        BY <3>1 DEF Stopped
      <4> QED BY <4>1 DEF Settled
    <3>2. CASE UNCHANGED <<grants, winding>> BY <3>2 DEF Informed, Settled
    <3>3. CASE winding' = TRUE /\ UNCHANGED grants BY <3>3 DEF Settled
    <3>4. ASSUME NEW g \in Ours, grants' = [grants EXCEPT ![g] = "dead"],
                 UNCHANGED winding
          PROVE  Settled
      <4>1. \A h \in Ours : grants'[h] = IF h = g THEN "dead" ELSE grants[h]
        BY <1>2, <3>4
      <4> QED BY <3>4, <4>1 DEF Informed, Settled
    <3> QED BY <2>6, <3>1, <3>2, <3>3, <3>4 DEF WriteBack
  <2>7. CASE WriterDies BY <2>7 DEF WriterDies, Informed, Settled
  <2> QED BY <2>1, <2>2, <2>3, <2>4, <2>5, <2>6, <2>7 DEF Others
<1>4. \A c \in Conns : Asking(c) BY <1>1 DEF Asking, conns
<1>5. Told BY <1>1 DEF Told, conns
<1> QED BY <1>3, <1>4, <1>5, Remaining

\* Handlers that return take their doubts along and tell nobody anything.
LEMMA Silently ==
  ASSUME Inv, Informed, NEW cs \in SUBSET Conns, HandlersReturn(cs)
  PROVE  (\A c \in Conns : Asking(c)) /\ Told
<1>1. \A c \in Conns : /\ owner'[c] = (IF c \in cs THEN NoGrant ELSE owner[c])
                       /\ doubt'[c] = (IF c \in cs THEN "none" ELSE doubt[c])
                       /\ shut'[c] = (IF c \in cs THEN "open" ELSE shut[c])
  BY DEF HandlersReturn
<1> QED BY <1>1 DEF Asking, Told

\* The second reading of the record gives the reason that the first one met,
\* or a newer one that is as true.
LEMMA SecondReading ==
  ASSUME Inv, Informed, NEW c \in Conns, doubt[c] # "none"
  PROVE  /\ ~ShareIsEnding =>
              bad \/ doubt[c] = "blind" \/ grants[owner[c]] = "dead"
         /\ ShareIsEnding => winding \/ disk # "ours"
<1>1. ShareIsEnding => winding \/ disk # "ours" BY DEF ShareIsEnding, OurRecord
<1>2. ASSUME ~ShareIsEnding, ~bad, doubt[c] # "blind"
      PROVE  grants[owner[c]] = "dead"
  <2>1. disk = "ours" /\ ~winding BY <1>2 DEF ShareIsEnding, OurRecord
  <2>2. doubt[c] = "dead" BY <1>2 DEF Inv, Typed
  <2>3. owner[c] \in Ours /\ grants[owner[c]] # "live" BY <2>1, <2>2 DEF Informed
  <2>4. grants[owner[c]] # "stopped" BY <2>1, <2>3 DEF Informed
  <2> QED BY <2>3, <2>4 DEF Inv, Typed
<1> QED BY <1>1, <1>2

LEMMA ConnectionTells ==
  ASSUME Inv, Informed, NEW c \in Conns, Connection(c)
  PROVE  Informed' /\ Told
<1>1. UNCHANGED record BY DEF Connection
<1>2. Settled BY <1>1, RecordRests
<1>3. shut \in [Conns -> {"open", "ended", "revoked", "closed"}]
      /\ doubt \in [Conns -> {"none", "dead", "blind"}]
  BY DEF Inv, Typed
<1>4. ASSUME UNCHANGED <<shut, owner, doubt>> PROVE Informed' /\ Told
  BY <1>2, <1>4, Remaining DEF Asking, Told
<1>5. ASSUME HandlersReturn({c}) PROVE Informed' /\ Told
  BY <1>2, <1>5, Silently, Remaining
<1>6. ASSUME NEW why \in {"closed", "ended", "revoked"}, Close(c, why)
      PROVE  /\ Informed'
             /\ \A d \in Conns : shut'[d] = IF d = c THEN why ELSE shut[d]
  <2>1. owner' = owner /\ doubt' = [doubt EXCEPT ![c] = "none"]
        /\ shut' = [shut EXCEPT ![c] = why]
    BY <1>6 DEF Close
  <2>2. \A d \in Conns : doubt'[d] = IF d = c THEN "none" ELSE doubt[d]
    BY <1>3, <2>1
  <2>3. \A d \in Conns : Asking(d) BY <2>1, <2>2 DEF Asking, Informed
  <2> QED BY <1>2, <1>3, <2>1, <2>3, Remaining
<1>7. CASE Accept(c) BY <1>4, <1>7 DEF Accept
<1>8. CASE Leave(c) \/ Ungreeted(c) \/ Drain(c)
  <2>1. CASE Close(c, "closed") BY <1>6, <2>1 DEF Told
  <2> QED BY <1>5, <1>8, <2>1 DEF Leave, Ungreeted, Drain
<1>9. CASE Doubt(c)
  <2>1. /\ UNCHANGED <<shut, owner>>
        /\ owner[c] # NoGrant /\ ~GrantIsLive(owner[c])
        /\ doubt' = [doubt EXCEPT ![c] =
                       IF OurRecord = "present" THEN "dead" ELSE "blind"]
    BY <1>9 DEF Doubt
  <2>2. \A d \in Conns :
          doubt'[d] = IF d = c THEN (IF OurRecord = "present" THEN "dead" ELSE "blind")
                               ELSE doubt[d]
    BY <1>3, <2>1
  <2>3. owner[c] \in Ours BY <2>1 DEF Informed
  <2>4. OurRecord = "present" => grants[owner[c]] # "live"
    BY <2>1, <2>3 DEF GrantIsLive, OurRecord, Table
  <2>5. UNCHANGED <<disk, grants, winding>> BY <1>1 DEF record
  <2>6. Informed' BY <2>1, <2>2, <2>3, <2>4, <2>5 DEF Informed
  <2> QED BY <2>1, <2>6 DEF Told
<1>10. CASE Cut(c)
  <2>1. doubt[c] # "none" /\ Close(c, IF ShareIsEnding THEN "ended" ELSE "revoked")
    BY <1>10 DEF Cut
  <2>2. CASE ShareIsEnding BY <1>6, <2>1, <2>2, SecondReading DEF Told
  <2>3. CASE ~ShareIsEnding BY <1>6, <2>1, <2>3, SecondReading DEF Told
  <2> QED BY <2>2, <2>3
<1>11. CASE TellEnded(c)
  <2>1. shutdown /\ Close(c, "ended") BY <1>11 DEF TellEnded
  <2> QED BY <1>6, <2>1 DEF Told
<1> QED BY <1>7, <1>8, <1>9, <1>10, <1>11 DEF Connection

\* Only a connection without a grant gets one, and no watchdog doubts that.
LEMMA StreamTells ==
  ASSUME Inv, Informed, NEW s \in Streams, Stream(s)
  PROVE  Informed' /\ Told
<1>1. UNCHANGED record BY DEF Stream
<1>2. Settled BY <1>1, RecordRests
<1>3. On(s) \in Conns BY OnType DEF Inv
<1>4. ASSUME UNCHANGED conns PROVE Informed' /\ Told
  BY <1>2, <1>4, Remaining DEF Asking, Told, conns
<1>5. ASSUME Ends(s) PROVE Informed' /\ Told
  <2>1. PICK cs \in SUBSET Conns : HandlersReturn(cs) BY <1>3, <1>5 DEF Ends
  <2> QED BY <1>2, <2>1, Silently, Remaining
<1>6. ASSUME NEW g \in Ours \cup Theirs, Authorize(s, g) PROVE Informed' /\ Told
  <2>1. /\ owner' = [owner EXCEPT ![On(s)] = g]
        /\ UNCHANGED <<shut, doubt>>
        /\ GrantIsLive(g) /\ ~Mismatch(s, g)
    BY <1>6 DEF Authorize, Accepts
  <2>2. owner \in [Conns -> Ours \cup Theirs \cup {NoGrant}] BY DEF Inv, Typed
  <2>3. \A c \in Conns : owner'[c] = IF c = On(s) THEN g ELSE owner[c]
    BY <2>1, <2>2
  <2>4. g \in Ours BY <2>1 DEF GrantIsLive, OurRecord, Table
  <2>5. owner[On(s)] = g \/ doubt[On(s)] = "none"
    BY <1>3, <2>1, BridgeAssumption DEF Mismatch, Informed
  <2>6. \A c \in Conns : Asking(c) BY <2>1, <2>3, <2>4, <2>5 DEF Asking
  <2>7. Told BY <2>1 DEF Told
  <2> QED BY <1>2, <2>6, <2>7, Remaining
<1>7. CASE Weighed(s) BY <1>5, <1>6, <1>7 DEF Weighed, Refuse, Redirect
<1>8. CASE Greet(s) \/ Knock(s) \/ Admit(s) \/ Dialled(s)
  BY <1>4, <1>5, <1>8 DEF Greet, Knock, Admit, Dialled
<1>9. CASE Revoked(s) \/ ShuttingDown(s) \/ Closed(s) \/ Finish(s)
  BY <1>5, <1>9 DEF Revoked, ShuttingDown, Closed, Finish
<1> QED BY <1>7, <1>8, <1>9 DEF Stream

\* The process closes its connections without a word and marks the record
\* only as ending.
LEMMA MainTells ==
  ASSUME Inv, Informed, MainTask
  PROVE  Informed' /\ Told
<1>1. /\ Settled
      /\ \/ UNCHANGED conns
         \/ EndpointClosed /\ UNCHANGED owner
         \/ HandlersReturn(Conns)
  <2>1. CASE \/ BoxWentAway \/ Interrupted \/ StoppedElsewhere \/ RaiseFlag
             \/ Quiesce \/ WriteReceipt
    <3>1. UNCHANGED record /\ UNCHANGED conns
      BY <2>1 DEF BoxWentAway, Interrupted, StoppedElsewhere, RaiseFlag, Quiesce,
                  WriteReceipt
    <3> QED BY <3>1, RecordRests
  <2>2. CASE MarkWinding
    <3>1. /\ winding' = (winding \/ OurRecord = "present")
          /\ UNCHANGED <<disk, grants, conns>> /\ winding \in BOOLEAN
      BY <2>2 DEF MarkWinding, Inv, Typed
    <3> QED BY <3>1 DEF Informed, Settled
  <2>3. CASE CloseTransport \/ SkipWait
    <3>1. UNCHANGED record /\ EndpointClosed /\ UNCHANGED owner
      BY <2>3 DEF CloseTransport, SkipWait
    <3> QED BY <3>1, RecordRests
  <2>4. CASE Exit \/ HardExit
    <3>1. /\ disk' \in {disk, "gone"} /\ HandlersReturn(Conns)
          /\ UNCHANGED <<grants, winding>>
      BY <2>4 DEF Exit, HardExit, Dies
    <3> QED BY <3>1 DEF Informed, Settled
  <2> QED BY <2>1, <2>2, <2>3, <2>4 DEF MainTask
<1>2. CASE UNCHANGED conns BY <1>1, <1>2, Remaining DEF Asking, Told, conns
<1>3. CASE EndpointClosed /\ UNCHANGED owner
  <2>1. \A c \in Conns : doubt'[c] = "none" /\ shut'[c] \in {"closed", shut[c]}
    BY <1>3 DEF EndpointClosed
  <2>2. \A c \in Conns : Asking(c) BY <1>3, <2>1 DEF Asking, Informed
  <2>3. Told BY <2>1 DEF Told
  <2> QED BY <1>1, <2>2, <2>3, Remaining
<1>4. CASE HandlersReturn(Conns) BY <1>1, <1>4, Silently, Remaining
<1> QED BY <1>1, <1>2, <1>3, <1>4

\* A peer whose watchdog found its grant in the record and that then reads
\* "revoked" had its ticket revoked or run out, and one that reads "ended" was
\* on a share that is ending or has no record, for any connections and grants
\* and whatever is written between the watchdog's two readings, a record that
\* a forced stop removed and a writer put back included.
THEOREM EndingsAreTrue == Spec => EndingIsTrue
<1>1. Init => Informed BY DEF Init, Informed
<1>2. ASSUME Inv, Informed, [Next]_vars PROVE Informed' /\ [Told]_vars
  <2>1. CASE Others BY <1>2, <2>1, OthersSettle
  <2>2. CASE \E c \in Conns : Connection(c) BY <1>2, <2>2, ConnectionTells
  <2>3. CASE \E s \in Streams : Stream(s) BY <1>2, <2>3, StreamTells
  <2>4. CASE MainTask BY <1>2, <2>4, MainTells
  <2>5. CASE UNCHANGED vars
    <3>1. UNCHANGED <<record, conns>> BY <2>5 DEF vars
    <3> QED BY <1>2, <2>5, <3>1 DEF Informed, record, conns
  <2> QED BY <1>2, <2>1, <2>2, <2>3, <2>4, <2>5 DEF Next
<1>3. Spec => []Inv
  BY Invariant, PTL
<1>4. Spec => [][Told]_vars
  BY <1>1, <1>2, <1>3, PTL DEF Spec
<1> QED BY <1>4 DEF EndingIsTrue, Told

=============================================================================
