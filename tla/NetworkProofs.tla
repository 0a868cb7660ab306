---------------------------- MODULE NetworkProofs ----------------------------
(* Proofs about the network layer and its block producers: the handshake and *)
(* the sessions it leaves (module Sessions), the filter on gossip (module    *)
(* GossipIntake), the round-robin devnet (module Devnet), the slot loop of   *)
(* the miner (module Miner), the locators and the chain selection of         *)
(* bootstrap synchronisation (module Sync), and the keys that evolve from    *)
(* period to period (module Kes).                                            *)
EXTENDS MCServices, SumTheorems, SequenceTheorems, FiniteSets, FiniteSetTheorems, TLAPS

\* The variables under the names that modules Sessions and GossipIntake give them.
ends == x1
phase == x2
request == x3
session == x4
peers == x5
crossed == x6

clock == x1
buckets == x2
seen == x3
last == x4
failures == x5
events == x6
accepted == x7

USE DEF ends, phase, request, session, peers, crossed,
        clock, buckets, seen, last, failures, events, accepted

-------------------------------------------------------------------------------
(* The inductive invariant of the handshake.                                 *)

Link == [dialer : Peers, listener : Peers]
Hello == [at : {"hello", "ack", "done", "refused", "lost"}, via : Connections, waiting : BOOLEAN]

PeerInfo ==
    [state : {"Unknown", "Connected", "Disconnected"}, direction : {None, "Inbound", "Outbound"},
     reputation : Int]

\* None is neither a connection nor a record.
Absent == None \notin Connections \cup Link \cup Hello

Types ==
    /\ ends \in [Connections -> Link \cup {None}]
    /\ phase \in [Connections ->
                    [Peers -> {"none", "opening", "open", "closing", "closed"}]]
    /\ request \in [Connections -> Hello \cup {None}]
    /\ session \in [Peers -> [Peers -> Connections \cup {None}]]
    /\ peers \in [Peers -> [Peers -> PeerInfo]]

\* A connection joins two different peers, and is not in use before it is dialled.
JoinedAt(c) ==
    /\ ends[c] # None => ends[c].dialer # ends[c].listener
    /\ request[c] # None =>
         /\ ends[c] # None
         /\ phase[c][ends[c].dialer] # "opening"
         /\ ends[request[c].via] # None
         /\ S!Ends(request[c].via) = S!Ends(c)
         /\ request[c].at = "ack" =>
              S!HANDSHAKE_VERSION(ends[c].dialer) = S!HANDSHAKE_VERSION(ends[c].listener)
Joined == \A c \in Connections : JoinedAt(c)

\* A session names a handshake of its two peers.
SessionOfPair ==
    \A n, p \in Peers : session[n][p] # None =>
        /\ ends[session[n][p]] # None
        /\ S!Ends(session[n][p]) = {n, p}

\* Handshakes that are under way together are on record.
Together == \A c, d \in S!UnderWay : c # d => {c, d} \in crossed

\* While handshake c is under way, its initiator holds no session, or one whose
\* handshake crossed c; the responder that has answered holds c, or one that crossed c.
Crossing ==
    \A c \in S!UnderWay :
        LET a == ends[c].dialer
            b == ends[c].listener
        IN  /\ session[a][b] # None => session[a][b] # c /\ {session[a][b], c} \in crossed
            /\ request[c].at = "ack" /\ session[b][a] # None /\ session[b][a] # c
                 => {session[b][a], c} \in crossed

SessionInv ==
    /\ Types /\ Joined /\ SessionOfPair /\ Together /\ Crossing
    /\ S!SessionsAgree /\ S!SessionsAreLive

\* The peer at the other end of a connection.
LEMMA OtherEnd ==
    ASSUME Types, Joined, NEW c \in Connections, ends[c] # None, NEW n \in S!Ends(c)
    PROVE  /\ S!Other(c, n) \in Peers /\ S!Other(c, n) # n
           /\ S!Ends(c) = {n, S!Other(c, n)}
           /\ n = ends[c].dialer => S!Other(c, n) = ends[c].listener
           /\ n = ends[c].listener => S!Other(c, n) = ends[c].dialer
           /\ ends[c].dialer \in Peers /\ ends[c].listener \in Peers
  <1>1. ends[c] \in Link /\ ends[c].dialer # ends[c].listener
    BY DEF Types, Joined, JoinedAt
  <1>2. ends[c].dialer \in Peers /\ ends[c].listener \in Peers
    BY <1>1 DEF Link
  <1>3. S!Ends(c) = {ends[c].dialer, ends[c].listener}
    BY DEF S!Ends
  <1>4. \E p \in S!Ends(c) : p # n
    BY <1>1, <1>3
  <1>5. S!Other(c, n) \in S!Ends(c) /\ S!Other(c, n) # n
    BY <1>4 DEF S!Other
  <1> QED BY <1>1, <1>2, <1>3, <1>5

LEMMA UpsertKeepsType ==
    ASSUME NEW info \in PeerInfo, NEW dir \in {"Outbound", "Inbound"}
    PROVE  S!upsert(info, dir) \in PeerInfo
  <1>1. CASE info.state = "Unknown"
    <2>1. S!upsert(info, dir) = [info EXCEPT !.state = "Connected", !.direction = dir]
      BY <1>1 DEF S!upsert
    <2> QED BY <2>1 DEF PeerInfo
  <1>2. CASE info.state # "Unknown"
    <2>1. S!upsert(info, dir) = [info EXCEPT !.state = "Connected", !.direction = @]
      BY <1>2 DEF S!upsert
    <2> QED BY <2>1 DEF PeerInfo
  <1> QED BY <1>1, <1>2

LEMMA FailureKeepsType ==
    ASSUME NEW info \in PeerInfo
    PROVE  /\ S!record_failure(info) \in PeerInfo
           /\ S!record_failure(info).state = info.state
  BY DEF S!record_failure, PeerInfo

LEMMA Start == ASSUME Absent, S!Init PROVE SessionInv
  <1>1. Types
    BY DEF S!Init, Types, S!new_peer, PeerInfo
  <1>2. Joined /\ SessionOfPair /\ Together /\ Crossing
    BY DEF S!Init, Joined, JoinedAt, SessionOfPair, Together, Crossing, S!UnderWay
  <1>3. S!SessionsAgree /\ S!SessionsAreLive
    BY DEF S!Init, S!SessionsAgree, S!SessionsAreLive, S!new_peer
  <1> QED BY <1>1, <1>2, <1>3 DEF SessionInv

\* A connection that is dialled was not in use.
LEMMA Dialled ==
    ASSUME Absent, SessionInv, NEW a \in Peers, NEW b \in Peers, a # b, S!Dial(a, b)
    PROVE  SessionInv'
  <1>0. PICK c \in Connections :
        /\ ends[c] = None
        /\ ends' = [ends EXCEPT ![c] = [dialer |-> a, listener |-> b]]
        /\ phase' = [phase EXCEPT ![c] =
                       [n \in Peers |-> IF n \in {a, b} THEN "opening" ELSE "none"]]
    BY DEF S!Dial
  <1>1. UNCHANGED <<request, session, peers, crossed>>
    BY DEF S!Dial
  <1>2. Types /\ Joined /\ SessionOfPair
    BY DEF SessionInv
  <1>3. [dialer |-> a, listener |-> b] \in Link /\ [dialer |-> a, listener |-> b] # None
    BY DEF Link, Absent
  <1>4. \A d \in Connections : d # c => ends'[d] = ends[d] /\ phase'[d] = phase[d]
    BY <1>0, <1>2 DEF Types
  <1>5. request[c] = None /\ \A d \in Connections : request[d] # None => request[d].via # c
    BY <1>0, <1>2 DEF Joined, JoinedAt
  <1>6. \A n, p \in Peers : session[n][p] # c
    BY <1>0, <1>2, <1>3 DEF SessionOfPair, Absent
  <1>7. \A d \in Connections : request[d] # None => request[d].via \in Connections
    BY <1>2 DEF Types, Hello
  <1>8. Types'
    BY <1>0, <1>1, <1>2, <1>3 DEF Types
  <1>9. Joined'
    BY <1>0, <1>1, <1>2, <1>3, <1>4, <1>5, <1>7
      DEF Joined, JoinedAt, Types, S!Ends, S!HANDSHAKE_VERSION
  <1>10. SessionOfPair'
    <2>1. \A d \in Connections : d # c => S!Ends(d)' = S!Ends(d)
      BY <1>4 DEF S!Ends
    <2>2. \A n, p \in Peers : session[n][p] # None => session[n][p] \in Connections \ {c}
      BY <1>2, <1>6 DEF Types
    <2> QED BY <1>1, <1>2, <1>4, <2>1, <2>2 DEF SessionOfPair
  <1>11. Together' /\ S!SessionsAgree'
    BY <1>1 DEF SessionInv, Together, S!SessionsAgree, S!UnderWay
  <1>12. Crossing'
    <2>1. S!UnderWay' = S!UnderWay /\ S!UnderWay \subseteq Connections \ {c}
      BY <1>0, <1>1, <1>5 DEF S!UnderWay
    <2>2. \A d \in S!UnderWay : ends'[d] = ends[d]
      BY <1>4, <2>1
    <2>3. Crossing
      BY DEF SessionInv
    <2>4. request' = request /\ session' = session /\ crossed' = crossed
      BY <1>1
    <2> QED BY <2>1, <2>2, <2>3, <2>4 DEF Crossing
  <1>13. S!SessionsAreLive'
    <2>1. \A n, p \in Peers : \A d \in S!Between(n, p) :
             d \in Connections /\ d # c /\ d \in S!Between(n, p)'
      BY <1>0, <1>2, <1>4 DEF S!Between, S!Ends, Types
    <2>2. S!SessionsAreLive
      BY DEF SessionInv
    <2> QED BY <1>1, <1>4, <2>1, <2>2 DEF S!SessionsAreLive
  <1> QED BY <1>8, <1>9, <1>10, <1>11, <1>12, <1>13 DEF SessionInv

\* The initiator sends its Hello when it has no session, once per connection.
LEMMA Established ==
    ASSUME Absent, SessionInv, NEW n \in Peers, NEW c \in Connections,
           S!ConnectionEstablished(n, c)
    PROVE  SessionInv'
  <1>0. Types /\ Joined /\ SessionOfPair /\ Together /\ Crossing
        /\ S!SessionsAgree /\ S!SessionsAreLive
    BY DEF SessionInv
  <1> PICK p : p = S!Other(c, n)
    OBVIOUS
  <1>1. /\ ends[c] # None
        /\ n \in S!Ends(c)
        /\ phase[c][n] = "opening"
        /\ phase' = [phase EXCEPT ![c][n] = "open"]
        /\ UNCHANGED <<ends, session>>
    BY DEF S!ConnectionEstablished
  <1>2. /\ p \in Peers /\ p # n /\ S!Ends(c) = {n, p}
        /\ n = ends[c].dialer => p = ends[c].listener
    BY <1>0, <1>1, OtherEnd
  <1>3. peers' = [peers EXCEPT ![n][p] =
                    S!upsert(@, IF ends[c].dialer = n THEN "Outbound" ELSE "Inbound")]
    BY DEF S!ConnectionEstablished
  <1>4. \A d \in Connections : S!Ends(d)' = S!Ends(d)
    BY <1>1 DEF S!Ends
  <1>5. /\ phase' \in [Connections -> [Peers -> {"none", "opening", "open", "closing", "closed"}]]
        /\ phase'[c][n] = "open"
        /\ \A d \in Connections, m \in Peers : d # c \/ m # n => phase'[d][m] = phase[d][m]
    BY <1>0, <1>1 DEF Types
  <1>6. /\ peers' \in [Peers -> [Peers -> PeerInfo]]
        /\ \A m, q \in Peers : m # n \/ q # p => peers'[m][q] = peers[m][q]
    <2> PICK dir : dir = IF ends[c].dialer = n THEN "Outbound" ELSE "Inbound"
      OBVIOUS
    <2>1. dir \in {"Outbound", "Inbound"}
      OBVIOUS
    <2>2. S!upsert(peers[n][p], dir) \in PeerInfo
      BY <1>0, <1>2, <2>1, UpsertKeepsType DEF Types
    <2>3. peers' = [peers EXCEPT ![n][p] = S!upsert(peers[n][p], dir)]
      BY <1>3
    <2> QED BY <1>0, <1>2, <2>2, <2>3 DEF Types
  <1>7. S!SessionsAreLive'
    <2>1. \A m, q \in Peers : S!Between(m, q)' = S!Between(m, q)
      BY <1>1, <1>4 DEF S!Between
    <2>2. c \in S!Between(n, p)
      BY <1>1, <1>2 DEF S!Between
    <2>3. \A m, q \in Peers : S!Between(m, q) \subseteq Connections
      BY DEF S!Between
    <2>4. ASSUME NEW m \in Peers, NEW q \in Peers, m # n \/ q # p,
                 session'[m][q] # None \/ peers'[m][q].state = "Connected"
          PROVE  \E d \in S!Between(m, q) : phase'[d][m] \in {"open", "closing"}
      <3>1. PICK d \in S!Between(m, q) : phase[d][m] \in {"open", "closing"}
        BY <1>0, <1>1, <1>6, <2>4 DEF S!SessionsAreLive
      <3>2. phase'[d][m] \in {"open", "closing"}
        BY <1>5, <2>3, <3>1
      <3> QED BY <3>2
    <2> QED BY <1>5, <2>1, <2>2, <2>4 DEF S!SessionsAreLive
  <1>8. CASE S!SendsHello(n, p, c)
    <2>1. PICK via \in S!Open(n, p) \cup {c} :
              /\ request' = [request EXCEPT ![c] = [at |-> "hello", via |-> via, waiting |-> TRUE]]
              /\ crossed' = crossed \cup {{c, d} : d \in S!UnderWay}
      BY <1>8 DEF S!ConnectionEstablished
    <2>2. ends[c].dialer = n /\ ends[c].listener = p /\ session[n][p] = None /\ request[c] = None
      BY <1>0, <1>1, <1>2, <1>8 DEF S!SendsHello, Joined, JoinedAt
    <2>3. via \in Connections /\ ends[via] # None /\ S!Ends(via) = S!Ends(c)
      BY <1>1, <1>2 DEF S!Open, S!Between
    <2> PICK hello : hello = [at |-> "hello", via |-> via, waiting |-> TRUE]
      OBVIOUS
    <2>4. hello \in Hello /\ hello # None /\ hello.via = via /\ hello.at = "hello"
      <3>1. hello \in Hello /\ hello.via = via /\ hello.at = "hello"
        BY <2>3 DEF Hello
      <3> QED BY <3>1 DEF Absent
    <2>5. request'[c] = hello /\ \A d \in Connections : d # c => request'[d] = request[d]
      BY <1>0, <2>1 DEF Types
    <2>6. request' \in [Connections -> Hello \cup {None}]
      BY <1>0, <2>1, <2>4 DEF Types
    <2>7. c \notin S!UnderWay /\ S!UnderWay' = S!UnderWay \cup {c}
      BY <2>2, <2>4, <2>5 DEF S!UnderWay
    <2>8. Types'
      BY <1>0, <1>1, <1>5, <1>6, <2>6 DEF Types
    <2>9. Joined'
      <3>1. \A d \in Connections : d # c /\ request[d] # None =>
                 ends[d].dialer \in Peers /\ request[d].via \in Connections
        BY <1>0 DEF Types, Joined, JoinedAt, Link, Hello
      <3>2. ASSUME NEW d \in Connections, d # c PROVE JoinedAt(d)'
        <4>1. JoinedAt(d)
          BY <1>0 DEF Joined
        <4> QED BY <1>1, <1>5, <2>5, <3>1, <3>2, <4>1 DEF JoinedAt, S!Ends, S!HANDSHAKE_VERSION
      <3>3. JoinedAt(c)'
        <4>1. JoinedAt(c)
          BY <1>0 DEF Joined
        <4>2. ends'[via] # None /\ S!Ends(via)' = S!Ends(c)'
          BY <1>1, <1>4, <2>3
        <4> QED BY <1>1, <1>5, <2>2, <2>4, <2>5, <4>1, <4>2 DEF JoinedAt
      <3> QED BY <3>2, <3>3 DEF Joined
    <2>10. SessionOfPair'
      BY <1>0, <1>1 DEF SessionOfPair, S!Ends
    <2>11. Together'
      <3>1. \A d \in S!UnderWay : {c, d} \in crossed' /\ {d, c} \in crossed'
        BY <2>1
      <3> QED BY <1>0, <2>1, <2>7, <3>1 DEF Together
    <2>12. Crossing'
      <3>1. \A d \in S!UnderWay : d \in Connections /\ d # c
        BY <2>7 DEF S!UnderWay
      <3>2. crossed \subseteq crossed'
        BY <2>1
      <3> QED BY <1>0, <1>1, <2>2, <2>4, <2>5, <2>7, <3>1, <3>2 DEF Crossing
    <2>13. S!SessionsAgree'
      BY <1>0, <1>1, <2>1 DEF S!SessionsAgree
    <2> QED BY <1>7, <2>8, <2>9, <2>10, <2>11, <2>12, <2>13 DEF SessionInv
  <1>9. CASE ~S!SendsHello(n, p, c)
    <2>1. UNCHANGED <<request, crossed>>
      BY <1>9 DEF S!ConnectionEstablished
    <2>2. Types'
      BY <1>0, <1>1, <1>5, <1>6, <2>1 DEF Types
    <2>3. Joined'
      <3>1. \A d \in Connections : request[d] # None =>
                 ends[d].dialer \in Peers /\ request[d].via \in Connections
        BY <1>0 DEF Types, Joined, JoinedAt, Link, Hello
      <3>2. \A d \in Connections, m \in Peers :
               phase[d][m] # "opening" => phase'[d][m] # "opening"
        BY <1>5
      <3> QED BY <1>0, <1>1, <1>4, <2>1, <3>1, <3>2 DEF Joined, JoinedAt, S!HANDSHAKE_VERSION
    <2>4. SessionOfPair'
      BY <1>0, <1>1 DEF SessionOfPair, S!Ends
    <2>5. Together' /\ Crossing' /\ S!SessionsAgree'
      BY <1>0, <1>1, <2>1 DEF Together, Crossing, S!SessionsAgree, S!UnderWay
    <2> QED BY <1>7, <2>2, <2>3, <2>4, <2>5 DEF SessionInv
  <1> QED BY <1>8, <1>9

\* The failure of a peer leaves what is said of connections and sessions alone.
LEMMA FailedPeer ==
    ASSUME Types, NEW n \in Peers, NEW p \in Peers,
           peers' = [peers EXCEPT ![n][p] = S!record_failure(@)]
    PROVE  /\ peers' \in [Peers -> [Peers -> PeerInfo]]
           /\ \A m, q \in Peers : peers'[m][q].state = peers[m][q].state
  <1>1. peers' = [peers EXCEPT ![n][p] = S!record_failure(peers[n][p])]
    OBVIOUS
  <1>2. peers[n][p] \in PeerInfo
    BY DEF Types
  <1>3. S!record_failure(peers[n][p]) \in PeerInfo
        /\ S!record_failure(peers[n][p]).state = peers[n][p].state
    BY <1>2, FailureKeepsType
  <1> QED BY <1>1, <1>3 DEF Types

Writes(c, n, p) ==
    /\ c \in S!UnderWay /\ n \in Peers /\ p \in Peers /\ n # p
    /\ S!Ends(c) = {n, p} /\ ends[c] # None
    /\ session' = [session EXCEPT ![n][p] = c]
    /\ UNCHANGED <<ends, crossed>>

\* A session written by handshake c of two peers, which is under way, crossed any other
\* handshake under way.
LEMMA Inserted ==
    ASSUME Absent, SessionInv, NEW c, NEW n, NEW p, Writes(c, n, p)
    PROVE  /\ session' \in [Peers -> [Peers -> Connections \cup {None}]]
           /\ SessionOfPair'
           /\ session'[n][p] = c
           /\ \A m, q \in Peers : m # n \/ q # p => session'[m][q] = session[m][q]
           /\ \A d \in S!UnderWay : d # c => {c, d} \in crossed'
  <1> USE DEF Writes
  <1>0. Types /\ SessionOfPair /\ Together
    BY DEF SessionInv
  <1>1. c \in Connections
    BY DEF S!UnderWay
  <1>2. /\ session' \in [Peers -> [Peers -> Connections \cup {None}]]
        /\ session'[n][p] = c
        /\ \A m, q \in Peers : m # n \/ q # p => session'[m][q] = session[m][q]
    BY <1>0, <1>1 DEF Types
  <1>3. SessionOfPair'
    <2>1. ASSUME NEW m \in Peers, NEW q \in Peers, session'[m][q] # None
          PROVE  ends'[session'[m][q]] # None /\ S!Ends(session[m][q])' = {m, q}
      <3>1. CASE m = n /\ q = p
        BY <1>2, <3>1 DEF S!Ends
      <3>2. CASE m # n \/ q # p
        <4>1. session'[m][q] = session[m][q]
          BY <1>2, <3>2
        <4>2. ends[session[m][q]] # None /\ S!Ends(session[m][q]) = {m, q}
          BY <1>0, <2>1, <4>1 DEF SessionOfPair
        <4> QED BY <4>1, <4>2 DEF S!Ends
      <3> QED BY <3>1, <3>2
    <2> QED BY <2>1 DEF SessionOfPair
  <1>4. \A d \in S!UnderWay : d # c => {c, d} \in crossed'
    BY <1>0 DEF Together
  <1> QED BY <1>2, <1>3, <1>4

\* The connection that carries a request joins the peers of the request.
LEMMA Carrier ==
    ASSUME Types, Joined, NEW c \in Connections, request[c] # None
    PROVE  /\ request[c].via \in Connections
           /\ request[c].via \in S!Between(ends[c].dialer, ends[c].listener)
           /\ request[c].via \in S!Between(ends[c].listener, ends[c].dialer)
  <1>1. request[c].via \in Connections
    BY DEF Types, Hello
  <1>2. ends[request[c].via] # None /\ S!Ends(request[c].via) = {ends[c].dialer, ends[c].listener}
    BY DEF Joined, JoinedAt, S!Ends
  <1> QED BY <1>1, <1>2 DEF S!Between

\* The responder writes the secret of c; the initiator holds none, or a crossing one.
LEMMA HelloHandled ==
    ASSUME Absent, SessionInv, NEW c \in Connections, S!HandleHello(c)
    PROVE  SessionInv'
  <1>0. Types /\ Joined /\ SessionOfPair /\ Together /\ Crossing
        /\ S!SessionsAgree /\ S!SessionsAreLive
    BY DEF SessionInv
  <1>1. request[c] # None /\ request[c].at = "hello" /\ c \in S!UnderWay
        /\ UNCHANGED <<ends, phase, crossed>>
    BY DEF S!HandleHello, S!UnderWay
  <1>p. PICK n, p : n = ends[c].listener /\ p = ends[c].dialer
    OBVIOUS
  <1>2. /\ ends[c] # None /\ n \in Peers /\ p \in Peers /\ n # p
        /\ S!Ends(c) = {n, p}
    BY <1>0, <1>1, <1>p, OtherEnd DEF Joined, JoinedAt, S!Ends
  <1>3. phase[request[c].via][n] = "open"
    BY <1>p DEF S!HandleHello, S!Carried
  <1>4. \A d \in Connections : S!Ends(d)' = S!Ends(d)
    BY <1>1 DEF S!Ends
  <1>5. CASE S!respond_to_hello(S!make_hello(p), n, c) # None
    <2>1. /\ session' = [session EXCEPT ![n][p] = c]
          /\ request' = [request EXCEPT ![c].at = "ack"]
          /\ UNCHANGED peers
      BY <1>5, <1>p DEF S!HandleHello, S!SessionInsert
    <2>2. S!HANDSHAKE_VERSION(p) = S!HANDSHAKE_VERSION(n)
      <3>1. S!make_hello(p).version = S!HANDSHAKE_VERSION(p)
        BY DEF S!make_hello
      <3> QED BY <1>5, <3>1, Zenon DEF S!respond_to_hello
    <2>3. /\ session' \in [Peers -> [Peers -> Connections \cup {None}]]
          /\ SessionOfPair'
          /\ session'[n][p] = c
          /\ \A m, q \in Peers : m # n \/ q # p => session'[m][q] = session[m][q]
          /\ \A d \in S!UnderWay : d # c => {c, d} \in crossed'
      <3>1. Writes(c, n, p)
        BY <1>1, <1>2, <2>1 DEF Writes
      <3> QED BY <3>1, Inserted
    <2>4. /\ request' \in [Connections -> Hello \cup {None}]
          /\ request'[c] # None /\ request'[c].at = "ack" /\ request'[c].via = request[c].via
          /\ \A d \in Connections : d # c => request'[d] = request[d]
      <3>1. request[c] \in Hello
        BY <1>0, <1>1 DEF Types
      <3>2. [request[c] EXCEPT !.at = "ack"] \in Hello
        BY <3>1 DEF Hello
      <3>3. request' = [request EXCEPT ![c] = [request[c] EXCEPT !.at = "ack"]]
        BY <2>1
      <3>4. /\ [request[c] EXCEPT !.at = "ack"].at = "ack"
            /\ [request[c] EXCEPT !.at = "ack"].via = request[c].via
        BY <3>1 DEF Hello
      <3> QED BY <1>0, <3>2, <3>3, <3>4 DEF Types, Absent
    <2>5. S!UnderWay' = S!UnderWay
      BY <1>1, <2>4 DEF S!UnderWay
    <2>6. Types'
      BY <1>0, <1>1, <2>1, <2>3, <2>4 DEF Types
    <2>7. Joined'
      <3>1. \A d \in Connections : JoinedAt(d)
        BY <1>0 DEF Joined
      <3>2. \A d \in Connections : d # c => JoinedAt(d)'
        BY <1>1, <2>4, <3>1 DEF JoinedAt, S!Ends, S!HANDSHAKE_VERSION
      <3>3. JoinedAt(c)'
        BY <1>1, <1>p, <2>2, <2>4, <3>1 DEF JoinedAt, S!Ends, S!HANDSHAKE_VERSION
      <3> QED BY <3>2, <3>3 DEF Joined
    <2>8. Together'
      BY <1>0, <1>1, <2>5 DEF Together
    <2>9. Crossing'
      <3>1. ASSUME NEW d \in S!UnderWay, NEW a, NEW b, a = ends[d].dialer, b = ends[d].listener
            PROVE  /\ session'[a][b] # None => session'[a][b] # d /\ {session'[a][b], d} \in crossed'
                   /\ request'[d].at = "ack" /\ session'[b][a] # None /\ session'[b][a] # d
                        => {session'[b][a], d} \in crossed'
        <4>1. d \in Connections /\ request[d] # None
          BY DEF S!UnderWay
        <4>2. ends[d] # None /\ a \in Peers /\ b \in Peers /\ a # b
          BY <1>0, <3>1, <4>1, OtherEnd DEF Joined, JoinedAt, S!Ends
        <4>3. /\ session[a][b] # None => session[a][b] # d /\ {session[a][b], d} \in crossed
              /\ request[d].at = "ack" /\ session[b][a] # None /\ session[b][a] # d
                   => {session[b][a], d} \in crossed
          BY <1>0, <3>1 DEF Crossing
        <4>4. CASE d = c
          BY <1>1, <1>p, <1>2, <2>3, <3>1, <4>2, <4>3, <4>4
        <4>5. CASE d # c
          <5>1. {c, d} \in crossed'
            BY <2>3, <4>5
          <5>2. request'[d] = request[d]
            BY <2>4, <4>1, <4>5
          <5>3. session'[a][b] = session[a][b] \/ session'[a][b] = c
            BY <2>3, <4>2
          <5>4. session'[b][a] = session[b][a] \/ session'[b][a] = c
            BY <2>3, <4>2
          <5> QED BY <1>1, <4>3, <4>5, <5>1, <5>2, <5>3, <5>4
        <4> QED BY <4>4, <4>5
      <3> QED BY <1>1, <2>5, <3>1 DEF Crossing
    <2>10. S!SessionsAgree'
      <3>1. session[p][n] # None => {session[p][n], c} \in crossed
        BY <1>0, <1>1, <1>p DEF Crossing
      <3>2. {session[p][n], c} = {c, session[p][n]}
        OBVIOUS
      <3>3. ASSUME NEW a \in Peers, NEW b \in Peers
            PROVE  \/ a = b \/ session'[a][b] = None \/ session'[b][a] = None
                   \/ session'[a][b] = session'[b][a]
                   \/ {session'[a][b], session'[b][a]} \in crossed'
        <4>1. CASE a = n /\ b = p
          BY <1>1, <1>2, <2>3, <3>1, <3>2, <4>1
        <4>2. CASE a = p /\ b = n
          BY <1>1, <1>2, <2>3, <3>1, <4>2
        <4>3. CASE ~(a = n /\ b = p) /\ ~(a = p /\ b = n)
          BY <1>0, <1>1, <2>3, <4>3 DEF S!SessionsAgree
        <4> QED BY <4>1, <4>2, <4>3
      <3> QED BY <3>3 DEF S!SessionsAgree
    <2>11. S!SessionsAreLive'
      <3>1. \A m, q \in Peers : S!Between(m, q)' = S!Between(m, q)
        BY <1>1, <1>4 DEF S!Between
      <3>2. request[c].via \in S!Between(n, p)
        BY <1>0, <1>1, <1>p, Carrier
      <3> QED BY <1>0, <1>1, <1>3, <2>1, <2>3, <3>1, <3>2 DEF S!SessionsAreLive
    <2> QED BY <2>3, <2>6, <2>7, <2>8, <2>9, <2>10, <2>11 DEF SessionInv
  <1>6. CASE S!respond_to_hello(S!make_hello(p), n, c) = None
    <2>1. /\ peers' = [peers EXCEPT ![n][p] = S!record_failure(@)]
          /\ request' = [request EXCEPT ![c].at = "refused"]
          /\ UNCHANGED session
      BY <1>6, <1>p DEF S!HandleHello
    <2>2. /\ peers' \in [Peers -> [Peers -> PeerInfo]]
          /\ \A m, q \in Peers : peers'[m][q].state = peers[m][q].state
      BY <1>0, <1>2, <2>1, FailedPeer
    <2>3. /\ request' \in [Connections -> Hello \cup {None}]
          /\ request'[c] # None /\ request'[c].at = "refused" /\ request'[c].via = request[c].via
          /\ \A d \in Connections : d # c => request'[d] = request[d]
      <3>1. request[c] \in Hello
        BY <1>0, <1>1 DEF Types
      <3>2. [request[c] EXCEPT !.at = "refused"] \in Hello
        BY <3>1 DEF Hello
      <3>3. request' = [request EXCEPT ![c] = [request[c] EXCEPT !.at = "refused"]]
        BY <2>1
      <3>4. /\ [request[c] EXCEPT !.at = "refused"].at = "refused"
            /\ [request[c] EXCEPT !.at = "refused"].via = request[c].via
        BY <3>1 DEF Hello
      <3> QED BY <1>0, <3>2, <3>3, <3>4 DEF Types, Absent
    <2>4. S!UnderWay' = S!UnderWay \ {c}
      BY <1>1, <2>3 DEF S!UnderWay
    <2>5. Types'
      BY <1>0, <1>1, <2>1, <2>2, <2>3 DEF Types
    <2>6. Joined'
      <3>1. \A d \in Connections : JoinedAt(d)
        BY <1>0 DEF Joined
      <3>2. \A d \in Connections : d # c => JoinedAt(d)'
        BY <1>1, <2>3, <3>1 DEF JoinedAt, S!Ends, S!HANDSHAKE_VERSION
      <3>3. JoinedAt(c)'
        BY <1>1, <2>3, <3>1 DEF JoinedAt, S!Ends, S!HANDSHAKE_VERSION
      <3> QED BY <3>2, <3>3 DEF Joined
    <2>7. SessionOfPair'
      BY <1>0, <1>1, <2>1 DEF SessionOfPair, S!Ends
    <2>8. Together'
      BY <1>0, <1>1, <2>4 DEF Together
    <2>9. Crossing'
      <3>1. \A d \in S!UnderWay' : d \in S!UnderWay /\ request'[d] = request[d]
        BY <2>3, <2>4 DEF S!UnderWay
      <3> QED BY <1>0, <1>1, <2>1, <3>1 DEF Crossing
    <2>10. S!SessionsAgree'
      BY <1>0, <1>1, <2>1 DEF S!SessionsAgree
    <2>11. S!SessionsAreLive'
      <3>1. \A m, q \in Peers : S!Between(m, q)' = S!Between(m, q)
        BY <1>1, <1>4 DEF S!Between
      <3> QED BY <1>0, <1>1, <2>1, <2>2, <3>1 DEF S!SessionsAreLive
    <2> QED BY <2>5, <2>6, <2>7, <2>8, <2>9, <2>10, <2>11 DEF SessionInv
  <1> QED BY <1>5, <1>6

\* The initiator writes the secret of c; the responder holds it, none, or a crossing one.
LEMMA AckHandled ==
    ASSUME Absent, SessionInv, NEW c \in Connections, S!HandleAck(c)
    PROVE  SessionInv'
  <1>0. Types /\ Joined /\ SessionOfPair /\ Together /\ Crossing
        /\ S!SessionsAgree /\ S!SessionsAreLive
    BY DEF SessionInv
  <1>1. request[c] # None /\ request[c].at = "ack" /\ c \in S!UnderWay
        /\ UNCHANGED <<ends, phase, peers, crossed>>
    BY DEF S!HandleAck, S!UnderWay
  <1>p. PICK n, p : n = ends[c].dialer /\ p = ends[c].listener
    OBVIOUS
  <1>2. /\ ends[c] # None /\ n \in Peers /\ p \in Peers /\ n # p
        /\ S!Ends(c) = {n, p}
        /\ S!HANDSHAKE_VERSION(n) = S!HANDSHAKE_VERSION(p)
    BY <1>0, <1>1, <1>p, OtherEnd DEF Joined, JoinedAt, S!Ends
  <1>3. phase[request[c].via][n] = "open"
    BY <1>p DEF S!HandleAck, S!Carried
  <1>4. \A d \in Connections : S!Ends(d)' = S!Ends(d)
    BY <1>1 DEF S!Ends
  <1>5. S!process_ack(S!respond_to_hello(S!make_hello(n), p, c), n) = c
    <2> PICK bind : bind = S!compute_session_binding(c, n, p)
      OBVIOUS
    <2>1. S!make_hello(n).version = S!HANDSHAKE_VERSION(p) /\ S!make_hello(n).initiator_peer_id = n
      BY <1>2 DEF S!make_hello
    <2>2. S!respond_to_hello(S!make_hello(n), p, c)
            = [version |-> S!HANDSHAKE_VERSION(p), responder_peer_id |-> p, ciphertext |-> c,
               session_binding |-> bind]
      BY <2>1, Zenon DEF S!respond_to_hello
    <2> PICK ack : ack = S!respond_to_hello(S!make_hello(n), p, c)
      OBVIOUS
    <2>3. /\ ack.version = S!HANDSHAKE_VERSION(n) /\ ack.responder_peer_id = p
          /\ ack.ciphertext = c /\ ack.session_binding = bind
      BY <1>2, <2>2
    <2>4. S!process_ack(ack, n) = c
      BY <2>3, Zenon DEF S!process_ack
    <2> QED BY <2>4
  <1>6. session' = [session EXCEPT ![n][p] = c]
    BY <1>5, <1>p DEF S!HandleAck, S!SessionInsert
  <1>7. /\ session' \in [Peers -> [Peers -> Connections \cup {None}]]
        /\ SessionOfPair'
        /\ session'[n][p] = c
        /\ \A m, q \in Peers : m # n \/ q # p => session'[m][q] = session[m][q]
        /\ \A d \in S!UnderWay : d # c => {c, d} \in crossed'
    <2>1. Writes(c, n, p)
      BY <1>1, <1>2, <1>6 DEF Writes
    <2> QED BY <2>1, Inserted
  <1>8. /\ request' \in [Connections -> Hello \cup {None}]
        /\ request'[c] # None /\ request'[c].at = "done" /\ request'[c].via = request[c].via
        /\ \A d \in Connections : d # c => request'[d] = request[d]
    <2>1. request[c] \in Hello
      BY <1>0, <1>1 DEF Types
    <2>p. PICK r : r = [request[c] EXCEPT !.at = "done", !.waiting = FALSE]
      OBVIOUS
    <2>2. r \in Hello /\ r.at = "done" /\ r.via = request[c].via
      BY <2>1, <2>p DEF Hello
    <2>3. request' = [request EXCEPT ![c] = r]
      BY <2>p DEF S!HandleAck
    <2> QED BY <1>0, <2>2, <2>3 DEF Types, Absent
  <1>9. S!UnderWay' = S!UnderWay \ {c}
    BY <1>1, <1>8 DEF S!UnderWay
  <1>10. Types'
    BY <1>0, <1>1, <1>7, <1>8 DEF Types
  <1>11. Joined'
    <2>1. \A d \in Connections : JoinedAt(d)
      BY <1>0 DEF Joined
    <2>2. \A d \in Connections : d # c => JoinedAt(d)'
      BY <1>1, <1>8, <2>1 DEF JoinedAt, S!Ends, S!HANDSHAKE_VERSION
    <2>3. JoinedAt(c)'
      BY <1>1, <1>8, <2>1 DEF JoinedAt, S!Ends, S!HANDSHAKE_VERSION
    <2> QED BY <2>2, <2>3 DEF Joined
  <1>12. Together'
    BY <1>0, <1>1, <1>9 DEF Together
  <1>13. Crossing'
    <2>1. ASSUME NEW d \in S!UnderWay, d # c, NEW a, NEW b,
                 a = ends[d].dialer, b = ends[d].listener
          PROVE  /\ session'[a][b] # None => session'[a][b] # d /\ {session'[a][b], d} \in crossed'
                 /\ request'[d].at = "ack" /\ session'[b][a] # None /\ session'[b][a] # d
                      => {session'[b][a], d} \in crossed'
      <3>1. d \in Connections /\ request[d] # None
        BY DEF S!UnderWay
      <3>2. ends[d] # None /\ a \in Peers /\ b \in Peers /\ a # b
        BY <1>0, <2>1, <3>1, OtherEnd DEF Joined, JoinedAt, S!Ends
      <3>3. /\ session[a][b] # None => session[a][b] # d /\ {session[a][b], d} \in crossed
            /\ request[d].at = "ack" /\ session[b][a] # None /\ session[b][a] # d
                 => {session[b][a], d} \in crossed
        BY <1>0, <2>1 DEF Crossing
      <3>4. {c, d} \in crossed'
        BY <1>7, <2>1
      <3>5. request'[d] = request[d]
        BY <1>8, <2>1, <3>1
      <3>6. session'[a][b] = session[a][b] \/ session'[a][b] = c
        BY <1>7, <3>2
      <3>7. session'[b][a] = session[b][a] \/ session'[b][a] = c
        BY <1>7, <3>2
      <3> QED BY <1>1, <2>1, <3>3, <3>4, <3>5, <3>6, <3>7
    <2> QED BY <1>1, <1>9, <2>1 DEF Crossing
  <1>14. S!SessionsAgree'
    <2>1. session[p][n] # None /\ session[p][n] # c => {session[p][n], c} \in crossed
      BY <1>0, <1>1, <1>p DEF Crossing
    <2>2. {session[p][n], c} = {c, session[p][n]}
      OBVIOUS
    <2>3. ASSUME NEW a \in Peers, NEW b \in Peers
          PROVE  \/ a = b \/ session'[a][b] = None \/ session'[b][a] = None
                 \/ session'[a][b] = session'[b][a]
                 \/ {session'[a][b], session'[b][a]} \in crossed'
      <3>1. CASE a = n /\ b = p
        BY <1>1, <1>2, <1>7, <2>1, <2>2, <3>1
      <3>2. CASE a = p /\ b = n
        BY <1>1, <1>2, <1>7, <2>1, <3>2
      <3>3. CASE ~(a = n /\ b = p) /\ ~(a = p /\ b = n)
        BY <1>0, <1>1, <1>7, <3>3 DEF S!SessionsAgree
      <3> QED BY <3>1, <3>2, <3>3
    <2> QED BY <2>3 DEF S!SessionsAgree
  <1>15. S!SessionsAreLive'
    <2>1. \A m, q \in Peers : S!Between(m, q)' = S!Between(m, q)
      BY <1>1, <1>4 DEF S!Between
    <2>2. request[c].via \in S!Between(n, p)
      BY <1>0, <1>1, <1>p, Carrier
    <2> QED BY <1>0, <1>1, <1>3, <1>7, <2>1, <2>2 DEF S!SessionsAreLive
  <1> QED BY <1>7, <1>10, <1>11, <1>12, <1>13, <1>14, <1>15 DEF SessionInv

LEMMA RequestFailed ==
    ASSUME Absent, SessionInv, NEW c \in Connections, S!OutboundFailure(c)
    PROVE  SessionInv'
  <1>0. Types /\ Joined /\ SessionOfPair /\ Together /\ Crossing
        /\ S!SessionsAgree /\ S!SessionsAreLive
    BY DEF SessionInv
  <1>1. /\ request[c] # None
        /\ request' = [request EXCEPT ![c].waiting = FALSE]
        /\ UNCHANGED <<ends, phase, session, crossed>>
    BY DEF S!OutboundFailure
  <1>p. PICK n, p : n = ends[c].dialer /\ p = ends[c].listener
    OBVIOUS
  <1>2. n \in Peers /\ p \in Peers
    BY <1>0, <1>1, <1>p, OtherEnd DEF Joined, JoinedAt, S!Ends
  <1>3. peers' = [peers EXCEPT ![n][p] = S!record_failure(@)]
    BY <1>p DEF S!OutboundFailure
  <1>4. /\ peers' \in [Peers -> [Peers -> PeerInfo]]
        /\ \A m, q \in Peers : peers'[m][q].state = peers[m][q].state
    BY <1>0, <1>2, <1>3, FailedPeer
  <1>5. /\ request' \in [Connections -> Hello \cup {None}]
        /\ \A d \in Connections : (request'[d] = None <=> request[d] = None)
              /\ request'[d].at = request[d].at /\ request'[d].via = request[d].via
    <2>1. request[c] \in Hello
      BY <1>0, <1>1 DEF Types
    <2>p. PICK r : r = [request[c] EXCEPT !.waiting = FALSE]
      OBVIOUS
    <2>2. r \in Hello /\ r.at = request[c].at /\ r.via = request[c].via
      BY <2>1, <2>p DEF Hello
    <2>3. request' = [request EXCEPT ![c] = r]
      BY <1>1, <2>p
    <2> QED BY <1>0, <1>1, <2>2, <2>3 DEF Types, Absent
  <1>6. S!UnderWay' = S!UnderWay
    BY <1>5 DEF S!UnderWay
  <1>7. Types'
    BY <1>0, <1>1, <1>4, <1>5 DEF Types
  <1>8. Joined'
    <2>1. \A d \in Connections : JoinedAt(d)
      BY <1>0 DEF Joined
    <2>2. \A d \in Connections : JoinedAt(d)'
      BY <1>1, <1>5, <2>1 DEF JoinedAt, S!Ends, S!HANDSHAKE_VERSION
    <2> QED BY <2>2 DEF Joined
  <1>9. SessionOfPair' /\ Together' /\ S!SessionsAgree'
    BY <1>0, <1>1, <1>6 DEF SessionOfPair, Together, S!SessionsAgree, S!Ends
  <1>10. Crossing'
    <2>1. \A d \in S!UnderWay : request'[d].at = request[d].at
      BY <1>5 DEF S!UnderWay
    <2> QED BY <1>0, <1>1, <1>6, <2>1 DEF Crossing
  <1>11. S!SessionsAreLive'
    <2>1. \A m, q \in Peers : S!Between(m, q)' = S!Between(m, q)
      BY <1>1 DEF S!Between, S!Ends
    <2> QED BY <1>0, <1>1, <1>4, <2>1 DEF S!SessionsAreLive
  <1> QED BY <1>7, <1>8, <1>9, <1>10, <1>11 DEF SessionInv

LEMMA Dropped ==
    ASSUME Absent, SessionInv, NEW c \in Connections, S!Drop(c)
    PROVE  SessionInv'
  <1>0. Types /\ Joined /\ SessionOfPair /\ Together /\ Crossing
        /\ S!SessionsAgree /\ S!SessionsAreLive
    BY DEF SessionInv
  <1>1. /\ ends[c] # None
        /\ \A n \in S!Ends(c) : phase[c][n] = "open"
        /\ phase' = [phase EXCEPT ![c] = [n \in Peers |-> IF n \in S!Ends(c) THEN "closing" ELSE "none"]]
        /\ UNCHANGED <<ends, session, peers, crossed>>
    BY DEF S!Drop
  <1>2. request' = [d \in Connections |->
                      IF d \in S!UnderWay /\ request[d].via = c
                      THEN [request[d] EXCEPT !.at = "lost"] ELSE request[d]]
    BY DEF S!Drop
  <1>3. ASSUME NEW d \in Connections
        PROVE  /\ request'[d] \in Hello \cup {None}
               /\ request'[d] # None <=> request[d] # None
               /\ request[d] # None => request'[d].via = request[d].via
               /\ request'[d] = request[d] \/ request'[d].at = "lost"
    <2>1. CASE d \in S!UnderWay /\ request[d].via = c
      <3>p. PICK r : r = [request[d] EXCEPT !.at = "lost"]
        OBVIOUS
      <3>1. request'[d] = r
        BY <1>2, <2>1, <3>p
      <3>2. request[d] # None /\ request[d] \in Hello
        BY <1>0, <2>1 DEF S!UnderWay, Types
      <3>3. r \in Hello /\ r.at = "lost" /\ r.via = request[d].via
        BY <3>p, <3>2 DEF Hello
      <3> QED BY <3>1, <3>2, <3>3 DEF Absent
    <2>2. CASE ~(d \in S!UnderWay /\ request[d].via = c)
      BY <1>0, <1>2, <2>2 DEF Types
    <2> QED BY <2>1, <2>2
  <1>4. \A d \in S!UnderWay' : d \in S!UnderWay /\ request'[d] = request[d]
    BY <1>3 DEF S!UnderWay
  <1>5. /\ phase' \in [Connections -> [Peers -> {"none", "opening", "open", "closing", "closed"}]]
        /\ \A d \in Connections, m \in Peers :
             /\ phase[d][m] # "opening" => phase'[d][m] # "opening"
             /\ phase[d][m] \in {"open", "closing"} /\ (d = c => m \in S!Ends(c))
                  => phase'[d][m] \in {"open", "closing"}
    BY <1>0, <1>1 DEF Types
  <1>6. Types'
    <2>1. request' \in [Connections -> Hello \cup {None}]
      BY <1>2, <1>3
    <2> QED BY <1>0, <1>1, <1>5, <2>1 DEF Types
  <1>7. Joined'
    <2>1. ASSUME NEW d \in Connections PROVE JoinedAt(d)'
      <3>1. JoinedAt(d) /\ (ends[d] # None => ends[d].dialer \in Peers)
        BY <1>0 DEF Joined, Types, Link
      <3> QED BY <1>1, <1>3, <1>5, <3>1 DEF JoinedAt, S!Ends, S!HANDSHAKE_VERSION
    <2> QED BY <2>1 DEF Joined
  <1>8. SessionOfPair' /\ S!SessionsAgree'
    BY <1>0, <1>1 DEF SessionOfPair, S!SessionsAgree, S!Ends
  <1>9. Together'
    BY <1>0, <1>1, <1>4 DEF Together
  <1>10. Crossing'
    BY <1>0, <1>1, <1>4 DEF Crossing
  <1>11. S!SessionsAreLive'
    <2>1. \A m, q \in Peers : S!Between(m, q)' = S!Between(m, q)
      BY <1>1 DEF S!Between, S!Ends
    <2>2. \A m, q \in Peers : \A d \in S!Between(m, q) : d \in Connections /\ m \in S!Ends(d)
      BY DEF S!Between
    <2>3. ASSUME NEW m \in Peers, NEW q \in Peers,
                 session'[m][q] # None \/ peers'[m][q].state = "Connected"
          PROVE  \E d \in S!Between(m, q) : phase'[d][m] \in {"open", "closing"}
      <3>1. PICK d \in S!Between(m, q) : phase[d][m] \in {"open", "closing"}
        BY <1>0, <1>1, <2>3 DEF S!SessionsAreLive
      <3>2. phase'[d][m] \in {"open", "closing"}
        BY <1>5, <2>2, <3>1
      <3> QED BY <3>2
    <2> QED BY <2>1, <2>3 DEF S!SessionsAreLive
  <1> QED BY <1>6, <1>7, <1>8, <1>9, <1>10, <1>11 DEF SessionInv

LEMMA ClosedConnection ==
    ASSUME Absent, SessionInv, NEW n \in Peers, NEW c \in Connections, S!ConnectionClosed(n, c)
    PROVE  SessionInv'
  <1>0. Types /\ Joined /\ SessionOfPair /\ Together /\ Crossing
        /\ S!SessionsAgree /\ S!SessionsAreLive
    BY DEF SessionInv
  <1>p. PICK p : p = S!Other(c, n)
    OBVIOUS
  <1>1. /\ ends[c] # None
        /\ n \in S!Ends(c)
        /\ phase[c][n] = "closing"
        /\ phase' = [phase EXCEPT ![c][n] = "closed"]
        /\ peers' = [peers EXCEPT ![n][p].state = "Disconnected"]
        /\ session' = [session EXCEPT ![n][p] = None]
        /\ UNCHANGED <<ends, request, crossed>>
    BY <1>p DEF S!ConnectionClosed, S!closed_session
  <1>2. p \in Peers /\ p # n /\ S!Ends(c) = {n, p}
    BY <1>0, <1>p, <1>1, OtherEnd
  <1>3. /\ session' \in [Peers -> [Peers -> Connections \cup {None}]]
        /\ session'[n][p] = None
        /\ \A m, q \in Peers : m # n \/ q # p => session'[m][q] = session[m][q]
    BY <1>0, <1>1, <1>2 DEF Types
  <1>4. /\ peers' \in [Peers -> [Peers -> PeerInfo]]
        /\ peers'[n][p].state = "Disconnected"
        /\ \A m, q \in Peers : m # n \/ q # p => peers'[m][q] = peers[m][q]
    <2>1. peers[n][p] \in PeerInfo
      BY <1>0, <1>2 DEF Types
    <2>p. PICK i : i = [peers[n][p] EXCEPT !.state = "Disconnected"]
      OBVIOUS
    <2>2. i \in PeerInfo /\ i.state = "Disconnected"
      BY <2>1, <2>p DEF PeerInfo
    <2>3. peers' = [peers EXCEPT ![n][p] = i]
      BY <1>1, <2>p
    <2> QED BY <1>0, <1>2, <2>2, <2>3 DEF Types
  <1>5. /\ phase' \in [Connections -> [Peers -> {"none", "opening", "open", "closing", "closed"}]]
        /\ \A d \in Connections, m \in Peers :
             /\ phase[d][m] # "opening" => phase'[d][m] # "opening"
             /\ d # c \/ m # n => phase'[d][m] = phase[d][m]
    BY <1>0, <1>1 DEF Types
  <1>6. Types'
    BY <1>0, <1>1, <1>3, <1>4, <1>5 DEF Types
  <1>7. Joined'
    <2>1. ASSUME NEW d \in Connections PROVE JoinedAt(d)'
      <3>1. JoinedAt(d) /\ (ends[d] # None => ends[d].dialer \in Peers)
        BY <1>0 DEF Joined, Types, Link
      <3> QED BY <1>1, <1>5, <3>1 DEF JoinedAt, S!Ends, S!HANDSHAKE_VERSION
    <2> QED BY <2>1 DEF Joined
  <1>8. \A m, q \in Peers : session'[m][q] # None => session'[m][q] = session[m][q]
    BY <1>2, <1>3
  <1>u. UNCHANGED <<ends, request, crossed>>
    BY <1>1
  <1>9. SessionOfPair' /\ S!SessionsAgree'
    <2>1. ASSUME NEW m \in Peers, NEW q \in Peers, session'[m][q] # None
          PROVE  ends'[session'[m][q]] # None /\ S!Ends(session[m][q])' = {m, q}
      <3>1. session'[m][q] = session[m][q]
        BY <1>8, <2>1
      <3>2. ends[session[m][q]] # None /\ S!Ends(session[m][q]) = {m, q}
        BY <1>0, <2>1, <3>1 DEF SessionOfPair
      <3> QED BY <1>u, <3>1, <3>2 DEF S!Ends
    <2>2. SessionOfPair'
      BY <2>1 DEF SessionOfPair
    <2>3. S!SessionsAgree'
      BY <1>0, <1>u, <1>8 DEF S!SessionsAgree
    <2> QED BY <2>2, <2>3
  <1>10. Together'
    BY <1>0, <1>1 DEF Together, S!UnderWay
  <1>11. Crossing'
    <2>1. ASSUME NEW d \in S!UnderWay
          PROVE  d \in Connections /\ ends[d].dialer \in Peers /\ ends[d].listener \in Peers
      BY <1>0, OtherEnd DEF S!UnderWay, Joined, JoinedAt, S!Ends
    <2>2. S!UnderWay' = S!UnderWay
      BY <1>1 DEF S!UnderWay
    <2>3. ASSUME NEW d \in S!UnderWay, NEW a, NEW b, a = ends[d].dialer, b = ends[d].listener
          PROVE  /\ session'[a][b] # None => session'[a][b] # d /\ {session'[a][b], d} \in crossed'
                 /\ request'[d].at = "ack" /\ session'[b][a] # None /\ session'[b][a] # d
                      => {session'[b][a], d} \in crossed'
      <3>1. /\ session[a][b] # None => session[a][b] # d /\ {session[a][b], d} \in crossed
            /\ request[d].at = "ack" /\ session[b][a] # None /\ session[b][a] # d
                 => {session[b][a], d} \in crossed
        BY <1>0, <2>3 DEF Crossing
      <3>2. a \in Peers /\ b \in Peers
        BY <2>1, <2>3
      <3>3. session'[a][b] \in {None, session[a][b]} /\ session'[b][a] \in {None, session[b][a]}
        BY <1>8, <3>2
      <3> QED BY <1>u, <3>1, <3>3
    <2> QED BY <1>u, <2>2, <2>3 DEF Crossing
  <1>12. S!SessionsAreLive'
    <2>1. \A m, q \in Peers : S!Between(m, q)' = S!Between(m, q)
      BY <1>1 DEF S!Between, S!Ends
    <2>2. \A m, q \in Peers : \A d \in S!Between(m, q) :
             d \in Connections /\ S!Ends(d) = {m, q}
      BY DEF S!Between
    <2>3. ASSUME NEW m \in Peers, NEW q \in Peers,
                 session'[m][q] # None \/ peers'[m][q].state = "Connected"
          PROVE  \E d \in S!Between(m, q) : phase'[d][m] \in {"open", "closing"}
      <3>1. m # n \/ q # p
        BY <1>3, <1>4, <2>3
      <3>2. PICK d \in S!Between(m, q) : phase[d][m] \in {"open", "closing"}
        BY <1>0, <1>3, <1>4, <2>3, <3>1 DEF S!SessionsAreLive
      <3>3. d # c \/ m # n
        BY <1>2, <2>2, <3>1, <3>2
      <3>4. phase'[d][m] = phase[d][m]
        BY <1>5, <2>2, <3>2, <3>3
      <3> QED BY <3>2, <3>4
    <2> QED BY <2>1, <2>3 DEF S!SessionsAreLive
  <1> QED BY <1>6, <1>7, <1>9, <1>10, <1>11, <1>12 DEF SessionInv

LEMMA SessionStep == ASSUME Absent, SessionInv, [S!Next]_S!vars PROVE SessionInv'
  <1>1. CASE UNCHANGED S!vars
    <2>0. UNCHANGED <<ends, phase, request, session, peers, crossed>>
      BY <1>1 DEF S!vars
    <2>1. Types' /\ SessionOfPair' /\ S!SessionsAgree'
      BY <2>0 DEF SessionInv, Types, SessionOfPair, S!SessionsAgree, S!Ends
    <2>2. Joined'
      BY <2>0 DEF SessionInv, Joined, JoinedAt, S!Ends, S!HANDSHAKE_VERSION
    <2>3. Together' /\ Crossing'
      BY <2>0 DEF SessionInv, Together, Crossing, S!UnderWay
    <2>4. S!SessionsAreLive'
      BY <2>0 DEF SessionInv, S!SessionsAreLive, S!Between, S!Ends
    <2> QED BY <2>1, <2>2, <2>3, <2>4 DEF SessionInv
  <1>2. CASE S!Next
    BY <1>2, Dialled, HelloHandled, AckHandled, RequestFailed, Dropped, Established,
        ClosedConnection DEF S!Next
  <1> QED BY <1>1, <1>2

\* The invariant of the handshake.
THEOREM SessionInvariance == ASSUME Absent PROVE S!Spec => []SessionInv
  BY Start, SessionStep, PTL DEF S!Spec

\* Part S of the network behaves as S!Spec says.
LEMMA SessionsPart ==
    ASSUME Absent PROVE Spec => [](focus = "sessions" => SessionInv)
  <1> DEFINE I == focus = "sessions" => SessionInv
  <1>1. Init => I
    BY Start DEF Init
  <1>2. ASSUME I, [Next]_vars PROVE I'
    <2>1. focus' = focus
      BY <1>2 DEF Next, vars
    <2>2. CASE focus = "sessions"
      <3>1. [S!Next]_S!vars
        BY <1>2, <2>2 DEF Next, vars, S!vars
      <3> QED BY <1>2, <2>2, <3>1, SessionStep
    <2> QED BY <2>1, <2>2
  <1> QED BY <1>1, <1>2, PTL DEF Spec

\* Two peers that both hold a session hold the same secret, unless the handshakes of the
\* two were under way together (respond_to_hello, process_ack, ConnectionClosed): for any
\* number of peers and connections, whatever is lost, late or timed out.
THEOREM Agreement == ASSUME Absent PROVE Spec => []SessionsAgree
  <1>1. (focus = "sessions" => SessionInv) => SessionsAgree
    BY DEF SessionInv, SessionsAgree
  <1> QED BY <1>1, SessionsPart, PTL

\* No session and no mark Connected outlives the connections to the peer
\* (ConnectionClosed).
THEOREM NoStaleSession == ASSUME Absent PROVE Spec => []SessionsAreLive
  <1>1. (focus = "sessions" => SessionInv) => SessionsAreLive
    BY DEF SessionInv, SessionsAreLive
  <1> QED BY <1>1, SessionsPart, PTL

-------------------------------------------------------------------------------
(* The filter on gossip.  An event is remembered: its id is in the cache     *)
(* with a time not before the event, or its time is over, or a full cache    *)
(* pushed it out, and then as many messages as the cache holds, and one      *)
(* more, were admitted since.                                                *)

Ids == {m.id : m \in Messages}
Within(A, lo, hi) == {a \in A : a.at >= lo /\ a.at <= hi}
Crowded(A, lo, hi) == Cardinality(Within(A, lo, hi)) > seen_cache_capacity

GossipTypes ==
    /\ clock \in Nat
    /\ \A i \in DOMAIN seen : seen[i] \in Nat /\ seen[i] <= clock
    /\ events \in Seq([id : Ids, at : Nat])
    /\ \A i \in DOMAIN events : events[i].at <= clock
    /\ IsFiniteSet(accepted)
    /\ \A a \in accepted : a.at \in Nat /\ a.at <= clock

Remembered ==
    \A i \in DOMAIN events :
        \/ events[i].id \in DOMAIN seen /\ seen[events[i].id] >= events[i].at
        \/ clock - events[i].at >= seen_cache_ttl_secs
        \/ Crowded(accepted, events[i].at, clock)

Witnessed == \A i \in DOMAIN seen : \E a \in accepted : a.id = i /\ a.at = seen[i]

Spaced ==
    \A i, j \in DOMAIN events :
        i < j /\ events[i].id = events[j].id
            => \/ events[j].at - events[i].at >= seen_cache_ttl_secs
               \/ Crowded(accepted, events[i].at, events[j].at)

GossipInv == GossipTypes /\ Remembered /\ Witnessed /\ Spaced

\* The durations and the capacity are unsigned integers.
GossipConfig == seen_cache_ttl_secs \in Nat /\ seen_cache_capacity \in Nat

\* The one Cardinality, seen through the instance.
LEMMA SameCardinality == \A A : G!Cardinality(A) = Cardinality(A)
  BY Zenon DEF G!Cardinality, Cardinality

\* As many admissions as ids that have one.
LEMMA OneEach ==
    ASSUME NEW ids, NEW A, IsFiniteSet(A), \A y \in ids : \E a \in A : a.id = y
    PROVE  IsFiniteSet(ids) /\ Cardinality(ids) <= Cardinality(A)
  <1> DEFINE f == [y \in ids |-> CHOOSE a \in A : a.id = y]
  <1>1. \A y \in ids : f[y] \in A /\ f[y].id = y
    OBVIOUS
  <1>2. f \in [ids -> A]
    BY <1>1
  <1> HIDE DEF f
  <1>3. f \in Injection(ids, A)
    BY <1>1, <1>2 DEF Injection, IsInjective
  <1> QED BY <1>3, FS_Injection

\* A crowd stays one.
LEMMA StillCrowded ==
    ASSUME NEW lo \in Nat, NEW hi \in Nat, NEW hi2 \in Nat, hi <= hi2, GossipConfig,
           NEW A, NEW B, A \subseteq B, IsFiniteSet(B), \A a \in B : a.at \in Nat,
           Crowded(A, lo, hi)
    PROVE  Crowded(B, lo, hi2)
  <1>1. Within(A, lo, hi) \subseteq Within(B, lo, hi2) /\ Within(B, lo, hi2) \subseteq B
    BY DEF Within
  <1>2. Cardinality(Within(A, lo, hi)) > seen_cache_capacity
    BY DEF Crowded
  <1>3. IsFiniteSet(Within(B, lo, hi2))
    BY <1>1, FS_Subset
  <1>4. /\ IsFiniteSet(Within(A, lo, hi))
        /\ Cardinality(Within(A, lo, hi)) <= Cardinality(Within(B, lo, hi2))
    BY <1>1, <1>3, FS_Subset
  <1>5. Cardinality(Within(A, lo, hi)) \in Nat /\ Cardinality(Within(B, lo, hi2)) \in Nat
    BY <1>3, <1>4, FS_CardinalityType
  <1> QED BY <1>2, <1>4, <1>5 DEF GossipConfig, Crowded

LEMMA GossipStart == ASSUME G!Init PROVE GossipInv
  <1>1. clock = 0 /\ seen = <<>> /\ events = <<>> /\ accepted = {}
    BY DEF G!Init
  <1>2. DOMAIN seen = {} /\ DOMAIN events = {} /\ events \in Seq([id : Ids, at : Nat])
    BY <1>1
  <1>3. IsFiniteSet({})
    BY FS_EmptySet
  <1> QED BY <1>1, <1>2, <1>3 DEF GossipInv, GossipTypes, Remembered, Witnessed, Spaced

\* More admissions.
Grows ==
    /\ clock' \in Nat /\ clock <= clock'
    /\ accepted \subseteq accepted'
    /\ IsFiniteSet(accepted')
    /\ \A a \in accepted' : a.at \in Nat /\ a.at <= clock'

LEMMA EventTypes ==
    ASSUME GossipTypes, NEW i \in DOMAIN events
    PROVE  events[i].id \in Ids /\ events[i].at \in Nat /\ events[i].at <= clock
  <1>p. PICK R : R = [id : Ids, at : Nat]
    OBVIOUS
  <1>0. events \in Seq(R)
    BY <1>p DEF GossipTypes
  <1>1. events[i] \in R
    BY <1>0
  <1>2. events[i].id \in Ids /\ events[i].at \in Nat
    BY <1>p, <1>1
  <1> QED BY <1>2 DEF GossipTypes

LEMMA SpacedStays ==
    ASSUME GossipConfig, GossipInv, Grows, NEW i \in DOMAIN events, NEW j \in DOMAIN events,
           i < j, events[i].id = events[j].id
    PROVE  \/ events[j].at - events[i].at >= seen_cache_ttl_secs
           \/ Crowded(accepted', events[i].at, events[j].at)
  <1>p. PICK lo, hi : lo = events[i].at /\ hi = events[j].at
    OBVIOUS
  <1>1. lo \in Nat /\ hi \in Nat
    BY <1>p, EventTypes DEF GossipInv
  <1>2. hi - lo >= seen_cache_ttl_secs \/ Crowded(accepted, lo, hi)
    BY <1>p DEF GossipInv, Spaced
  <1>3. Crowded(accepted, lo, hi)
          => Crowded(accepted', lo, hi)
    BY <1>1, StillCrowded DEF Grows
  <1> QED BY <1>p, <1>2, <1>3

LEMMA RememberedStays ==
    ASSUME GossipConfig, GossipInv, Grows, NEW i \in DOMAIN events
    PROVE  \/ events[i].id \in DOMAIN seen /\ seen[events[i].id] >= events[i].at
           \/ clock' - events[i].at >= seen_cache_ttl_secs
           \/ Crowded(accepted', events[i].at, clock')
  <1>p. PICK lo, x : lo = events[i].at /\ x = events[i].id
    OBVIOUS
  <1>1. lo \in Nat /\ clock \in Nat /\ clock' \in Nat /\ clock <= clock'
    BY <1>p, EventTypes DEF GossipInv, GossipTypes, Grows
  <1>2. \/ x \in DOMAIN seen /\ seen[x] >= lo
        \/ clock - lo >= seen_cache_ttl_secs
        \/ Crowded(accepted, lo, clock)
    BY <1>p DEF GossipInv, Remembered
  <1>3. Crowded(accepted, lo, clock)
          => Crowded(accepted', lo, clock')
    BY <1>1, StillCrowded DEF Grows
  <1>4. clock - lo >= seen_cache_ttl_secs => clock' - lo >= seen_cache_ttl_secs
    <2>p. PICK t, u, ttl : t = clock /\ u = clock' /\ ttl = seen_cache_ttl_secs
      OBVIOUS
    <2>1. t \in Int /\ u \in Int /\ ttl \in Int /\ lo \in Int /\ t <= u
      BY <1>1, <2>p DEF GossipConfig
    <2>2. t - lo >= ttl => u - lo >= ttl
      BY <2>1
    <2> QED BY <2>p, <2>2
  <1> QED BY <1>p, <1>2, <1>3, <1>4

LEMMA Ticked == ASSUME GossipConfig, GossipInv, G!Tick PROVE GossipInv'
  <1>1. clock' = clock + 1 /\ UNCHANGED <<seen, events, accepted>>
    BY DEF G!Tick
  <1>2. Grows
    BY <1>1 DEF Grows, GossipInv, GossipTypes
  <1>3. GossipTypes'
    <2>1. \A i \in DOMAIN events : events[i].at \in Nat /\ events[i].at <= clock
      BY EventTypes DEF GossipInv
    <2> QED BY <1>1, <2>1 DEF GossipInv, GossipTypes
  <1>4. Witnessed'
    BY <1>1 DEF GossipInv, Witnessed
  <1>5. Spaced'
    BY <1>1, <1>2, SpacedStays DEF Spaced
  <1>6. Remembered'
    BY <1>1, <1>2, RememberedStays DEF Remembered
  <1> QED BY <1>3, <1>4, <1>5, <1>6 DEF GossipInv

\* A message past the limiter, of an id.
LEMMA Admitted ==
    ASSUME GossipInv, NEW s \in Sources, NEW m \in Messages, G!Admit(s, m), UNCHANGED clock
    PROVE  Grows /\ [source |-> s, id |-> m.id, at |-> clock] \in accepted'
  <1>p. PICK e : e = [source |-> s, id |-> m.id, at |-> clock]
    OBVIOUS
  <1>1. accepted' = accepted \cup {e}
    BY <1>p DEF G!Admit
  <1>2. e.at = clock
    BY <1>p
  <1>3. IsFiniteSet(accepted')
    BY <1>1, FS_AddElement DEF GossipInv, GossipTypes
  <1> QED BY <1>p, <1>1, <1>2, <1>3 DEF GossipInv, GossipTypes, Grows

LEMMA Limited ==
    ASSUME GossipConfig, GossipInv, NEW s \in Sources, NEW m \in Messages,
           G!RateLimited(s, m), UNCHANGED clock
    PROVE  GossipInv'
  BY DEF G!RateLimited, GossipInv, GossipTypes, Remembered, Witnessed, Spaced

LEMMA Repeated ==
    ASSUME GossipConfig, GossipInv, NEW s \in Sources, NEW m \in Messages,
           G!Duplicate(s, m), UNCHANGED clock
    PROVE  GossipInv'
  <1>1. Grows
    BY Admitted DEF G!Duplicate
  <1>2. UNCHANGED <<clock, events>>
    BY DEF G!Duplicate
  <1>p. PICK U : U = G!unexpired
    OBVIOUS
  <1>3. seen' = [x \in U |-> seen[x]] /\ U \subseteq DOMAIN seen
    BY <1>p DEF G!Duplicate, G!Restrict, G!unexpired
  <1>4. DOMAIN seen' = U /\ \A x \in U : seen'[x] = seen[x]
    BY <1>3
  <1>5. \A x \in DOMAIN seen : x \in U \/ clock - seen[x] >= seen_cache_ttl_secs
    BY <1>p DEF G!unexpired, GossipInv, GossipTypes, GossipConfig
  <1>6. GossipTypes'
    BY <1>1, <1>2, <1>3, <1>4 DEF GossipInv, GossipTypes, Grows
  <1>7. Witnessed'
    BY <1>1, <1>3, <1>4 DEF GossipInv, Witnessed, Grows
  <1>8. Spaced'
    BY <1>1, <1>2, SpacedStays DEF Spaced
  <1>9. Remembered'
    <2>1. ASSUME NEW i \in DOMAIN events
          PROVE  \/ events[i].id \in DOMAIN seen' /\ seen'[events[i].id] >= events[i].at
                 \/ clock' - events[i].at >= seen_cache_ttl_secs
                 \/ Crowded(accepted', events[i].at, clock')
      <3>1. CASE events[i].id \in DOMAIN seen /\ seen[events[i].id] >= events[i].at
        <4>1. events[i].at \in Nat /\ seen[events[i].id] \in Nat /\ clock \in Nat
          BY <3>1, EventTypes DEF GossipInv, GossipTypes
        <4> QED BY <1>2, <1>4, <1>5, <3>1, <4>1 DEF GossipConfig
      <3> QED BY <1>1, <3>1, RememberedStays
    <2> QED BY <1>2, <2>1 DEF Remembered
  <1> QED BY <1>6, <1>7, <1>8, <1>9 DEF GossipInv

\* An id that a full cache pushed out for another one is the oldest of as many ids as
\* the cache holds, and the new one comes on top.
LEMMA PushedOut ==
    ASSUME GossipConfig, GossipInv, NEW s \in Sources, NEW m \in Messages, UNCHANGED clock,
           G!Admit(s, m), m.id \notin G!unexpired, NEW x \in G!oldest(G!unexpired),
           Cardinality(G!unexpired) >= seen_cache_capacity, NEW lo \in Nat, seen[x] >= lo
    PROVE  Crowded(accepted', lo, clock')
  <1>p. PICK U, new : U = G!unexpired /\ new = [source |-> s, id |-> m.id, at |-> clock]
    OBVIOUS
  <1>1. Grows /\ new \in accepted' /\ new.id = m.id /\ new.at = clock
    BY <1>p, Admitted
  <1>2. clock \in Nat /\ clock' = clock
        /\ U \subseteq DOMAIN seen /\ \A y \in U : seen[y] \in Nat /\ seen[y] <= clock
    BY <1>p DEF GossipInv, GossipTypes, G!unexpired
  <1>3. \A y \in U : seen[y] >= lo
    <2>1. x \in U /\ \A y \in U : seen[x] <= seen[y]
      BY <1>p DEF G!oldest
    <2> QED BY <1>2, <2>1
  <1>4. \A y \in U \cup {m.id} : \E a \in Within(accepted', lo, clock') : a.id = y
    <2>1. ASSUME NEW y \in U PROVE \E a \in Within(accepted', lo, clock') : a.id = y
      <3>1. PICK a \in accepted : a.id = y /\ a.at = seen[y]
        BY <1>2 DEF GossipInv, Witnessed
      <3>2. a \in Within(accepted', lo, clock')
        BY <1>1, <1>2, <1>3, <3>1 DEF Within, Grows
      <3> QED BY <3>1, <3>2
    <2>2. lo <= clock
      <3>1. x \in U
        BY <1>p DEF G!oldest
      <3> QED BY <1>2, <3>1
    <2>3. new \in Within(accepted', lo, clock')
      BY <1>1, <1>2, <2>2 DEF Within
    <2> QED BY <1>1, <2>1, <2>3
  <1>5. IsFiniteSet(Within(accepted', lo, clock'))
    <2>1. Within(accepted', lo, clock') \subseteq accepted'
      BY DEF Within
    <2> QED BY <1>1, <2>1, FS_Subset DEF Grows
  <1>6. /\ IsFiniteSet(U \cup {m.id})
        /\ Cardinality(U \cup {m.id}) <= Cardinality(Within(accepted', lo, clock'))
    BY <1>4, <1>5, OneEach
  <1>7. IsFiniteSet(U)
    BY <1>6, FS_Subset
  <1>8. Cardinality(U \cup {m.id}) = Cardinality(U) + 1
    BY <1>p, <1>7, FS_AddElement
  <1>9. Cardinality(U) \in Nat /\ Cardinality(Within(accepted', lo, clock')) \in Nat
    BY <1>5, <1>7, FS_CardinalityType
  <1> QED BY <1>p, <1>6, <1>8, <1>9 DEF Crowded, GossipConfig

LEMMA Handled ==
    ASSUME GossipConfig, GossipInv, NEW s \in Sources, NEW m \in Messages,
           G!Handle(s, m), UNCHANGED clock
    PROVE  GossipInv'
  <1>p. PICK U, x : U = G!unexpired /\ x = m.id
    OBVIOUS
  <1>1. Grows /\ [source |-> s, id |-> m.id, at |-> clock] \in accepted'
    BY Admitted DEF G!Handle
  <1>2. PICK gone \in SUBSET U : G!evict(gone) /\ seen' = G!insert(x, gone)
    BY <1>p DEF G!Handle
  <1>3. x \notin U /\ U \subseteq DOMAIN seen /\ clock' = clock /\ clock \in Nat
    BY <1>p DEF G!Handle, G!unexpired, GossipInv, GossipTypes
  <1>4. /\ DOMAIN seen' = (U \ gone) \cup {x}
        /\ seen'[x] = clock
        /\ \A y \in U \ gone : seen'[y] = seen[y]
    <2>1. seen' = G!Put([y \in U \ gone |-> seen[y]], x, clock)
      BY <1>p, <1>2 DEF G!insert, G!Restrict
    <2> QED BY <1>3, <2>1 DEF G!Put
  <1>5. \A y \in DOMAIN seen : y \in U \/ clock - seen[y] >= seen_cache_ttl_secs
    BY <1>p DEF G!unexpired, GossipInv, GossipTypes, GossipConfig
  <1>6. x \in Ids
    BY <1>p DEF Ids
  <1>e. PICK e : e = [id |-> x, at |-> clock]
    OBVIOUS
  <1>7. events' = events \/ events' = Append(events, e)
    BY <1>p, <1>e DEF G!Handle
  <1>8. /\ events \in Seq([id : Ids, at : Nat])
        /\ e \in [id : Ids, at : Nat] /\ e.id = x /\ e.at = clock
    BY <1>3, <1>6, <1>e DEF GossipInv, GossipTypes
  <1>9. /\ events' \in Seq([id : Ids, at : Nat])
        /\ \A i \in DOMAIN events' :
             \/ i \in DOMAIN events /\ events'[i] = events[i]
             \/ i = Len(events) + 1 /\ events'[i] = e
    <2>p. PICK R : R = [id : Ids, at : Nat]
      OBVIOUS
    <2>1. events \in Seq(R) /\ e \in R
      BY <1>8, <2>p
    <2>2. /\ events' \in Seq(R)
          /\ \A i \in DOMAIN events' :
               \/ i \in DOMAIN events /\ events'[i] = events[i]
               \/ i = Len(events) + 1 /\ events'[i] = e
      BY <1>7, <2>1
    <2> QED BY <2>p, <2>2
  <1>10. GossipTypes'
    <2>1. \A i \in DOMAIN events' : events'[i].at <= clock'
      BY <1>3, <1>8, <1>9 DEF GossipInv, GossipTypes
    <2>2. \A y \in DOMAIN seen' : seen'[y] \in Nat /\ seen'[y] <= clock'
      BY <1>3, <1>4 DEF GossipInv, GossipTypes
    <2> QED BY <1>1, <1>9, <2>1, <2>2 DEF GossipTypes, Grows
  <1>11. Witnessed'
    <2>1. ASSUME NEW y \in DOMAIN seen' PROVE \E a \in accepted' : a.id = y /\ a.at = seen'[y]
      <3>1. CASE y = x
        BY <1>p, <1>1, <1>4, <3>1
      <3>2. CASE y \in U \ gone
        BY <1>1, <1>3, <1>4, <3>2 DEF GossipInv, Witnessed, Grows
      <3> QED BY <1>4, <3>1, <3>2
    <2> QED BY <2>1 DEF Witnessed
  \* Each event so far, before the new one is taken into account.
  <1>12. ASSUME NEW i \in DOMAIN events, NEW lo, NEW y, lo = events[i].at, y = events[i].id
         PROVE  \/ y \in DOMAIN seen' /\ y # x /\ seen'[y] >= lo
                \/ y = x /\ lo <= clock
                \/ clock - lo >= seen_cache_ttl_secs
                \/ Crowded(accepted', lo, clock')
    <2>1. lo \in Nat /\ lo <= clock
      BY <1>12, EventTypes DEF GossipInv
    <2>2. CASE y \in DOMAIN seen /\ seen[y] >= lo
      <3>1. seen[y] \in Nat
        BY <2>2 DEF GossipInv, GossipTypes
      <3>2. CASE y \notin U
        <4>1. clock - seen[y] >= seen_cache_ttl_secs
          BY <1>5, <2>2, <3>2
        <4> QED BY <1>3, <2>1, <2>2, <3>1, <4>1 DEF GossipConfig
      <3>3. CASE y \in U \ gone
        BY <1>3, <1>4, <2>2, <3>3
      <3>4. CASE y \in gone
        <4>1. /\ Cardinality(G!unexpired) >= seen_cache_capacity
              /\ y \in G!oldest(G!unexpired)
          <5>1. G!evict(gone) /\ gone # {}
            BY <1>2, <3>4
          <5>2. CASE Cardinality(G!unexpired) >= seen_cache_capacity
            <6>1. PICK o \in G!oldest(G!unexpired) : gone = {o}
              BY <5>1, <5>2, Zenon DEF G!evict
            <6> QED BY <3>4, <5>2, <6>1
          <5>3. CASE ~(Cardinality(G!unexpired) >= seen_cache_capacity)
            BY <5>1, <5>3, SameCardinality, Zenon DEF G!evict
          <5> QED BY <5>2, <5>3
        <4> QED BY <1>p, <1>3, <2>1, <2>2, <4>1, PushedOut DEF G!Handle
      <3> QED BY <3>2, <3>3, <3>4
    <2> QED BY <1>1, <1>3, <1>12, <2>2, RememberedStays
  <1>13. Remembered'
    <2>1. ASSUME NEW i \in DOMAIN events'
          PROVE  \/ events'[i].id \in DOMAIN seen' /\ seen'[events'[i].id] >= events'[i].at
                 \/ clock' - events'[i].at >= seen_cache_ttl_secs
                 \/ Crowded(accepted', events'[i].at, clock')
      <3>1. CASE i \in DOMAIN events /\ events'[i] = events[i]
        BY <1>3, <1>4, <1>12, <3>1
      <3>2. CASE events'[i] = e
        BY <1>3, <1>4, <1>8, <3>2
      <3> QED BY <1>9, <3>1, <3>2
    <2> QED BY <2>1 DEF Remembered
  <1>14. Spaced'
    <2>1. ASSUME NEW i \in DOMAIN events', NEW j \in DOMAIN events', i < j,
                 events'[i].id = events'[j].id
          PROVE  \/ events'[j].at - events'[i].at >= seen_cache_ttl_secs
                 \/ Crowded(accepted', events'[i].at, events'[j].at)
      <3>0. DOMAIN events = 1 .. Len(events) /\ Len(events) \in Nat
        <4>p. PICK R : R = [id : Ids, at : Nat]
          OBVIOUS
        <4>1. events \in Seq(R)
          BY <1>8, <4>p
        <4> QED BY <4>1
      <3>1. i \in DOMAIN events /\ events'[i] = events[i]
        BY <1>9, <2>1, <3>0
      <3>2. CASE j \in DOMAIN events /\ events'[j] = events[j]
        BY <1>1, <2>1, <3>1, <3>2, SpacedStays
      <3>3. CASE events'[j] = e
        <4>1. events[i].id = x
          BY <1>8, <2>1, <3>1, <3>3
        <4>2. \/ x \in DOMAIN seen /\ seen[x] >= events[i].at
              \/ clock' - events[i].at >= seen_cache_ttl_secs
              \/ Crowded(accepted', events[i].at, clock')
          BY <1>1, <3>1, <4>1, RememberedStays
        <4>3. CASE x \in DOMAIN seen /\ seen[x] >= events[i].at
          <5>1. clock - seen[x] >= seen_cache_ttl_secs
            BY <1>3, <1>5, <4>3
          <5>2. events[i].at \in Nat /\ seen[x] \in Nat
            BY <3>1, <4>3, EventTypes DEF GossipInv, GossipTypes
          <5>3. clock - events[i].at >= seen_cache_ttl_secs
            BY <1>3, <4>3, <5>1, <5>2 DEF GossipConfig
          <5> QED BY <1>8, <3>1, <3>3, <5>3
        <4> QED BY <1>3, <1>8, <3>1, <3>3, <4>2, <4>3
      <3> QED BY <1>9, <2>1, <3>2, <3>3
    <2> QED BY <2>1 DEF Spaced
  <1> QED BY <1>10, <1>11, <1>13, <1>14 DEF GossipInv

LEMMA GossipStep == ASSUME GossipConfig, GossipInv, [G!Next]_G!vars PROVE GossipInv'
  <1>1. CASE UNCHANGED G!vars
    BY <1>1 DEF G!vars, GossipInv, GossipTypes, Remembered, Witnessed, Spaced
  <1>2. CASE G!Tick
    BY <1>2, Ticked
  <1>3. CASE \E s \in Sources, m \in Messages : G!Receive(s, m)
    BY <1>3, Limited, Repeated, Handled DEF G!Receive
  <1> QED BY <1>1, <1>2, <1>3 DEF G!Next

\* The invariant is strong enough.
LEMMA FilteredByInvariant == ASSUME GossipInv PROVE G!Filtered
  <1>1. \A i \in DOMAIN seen : \E a \in accepted : a.id = i /\ a.at = seen[i]
    BY DEF GossipInv, Witnessed
  <1>2. ASSUME NEW i \in DOMAIN events, NEW j \in DOMAIN events,
               i < j /\ events[i].id = events[j].id
        PROVE  \/ events[j].at - events[i].at >= seen_cache_ttl_secs
               \/ G!Cardinality({a \in accepted : a.at >= events[i].at /\ a.at <= events[j].at})
                    > seen_cache_capacity
    BY <1>2, SameCardinality, Zenon DEF GossipInv, Spaced, Crowded, Within
  <1>3. \A i, j \in DOMAIN events :
           i < j /\ events[i].id = events[j].id
             => \/ events[j].at - events[i].at >= seen_cache_ttl_secs
                \/ G!Cardinality({a \in accepted : a.at >= events[i].at /\ a.at <= events[j].at})
                     > seen_cache_capacity
    BY <1>2, Zenon
  <1> QED BY <1>1, <1>3, Zenon DEF G!Filtered

\* The invariant of the filter.
THEOREM GossipInvariance == ASSUME GossipConfig PROVE G!Spec => []GossipInv
  BY GossipStart, GossipStep, PTL DEF G!Spec

\* The main loop sees a message again only after its time in the cache, or after as many
\* other admissions as the cache holds; and what the limiter drops is not marked as seen
\* (SeenCache::insert): for any sources, messages, rates, capacity and durations.
THEOREM GossipFilter == ASSUME GossipConfig PROVE Spec => []Filtered
  <1> DEFINE I == focus = "gossip" => GossipInv
  <1>1. Init => I
    BY GossipStart DEF Init
  <1>2. ASSUME I, [Next]_vars PROVE I'
    <2>1. focus' = focus
      BY <1>2 DEF Next, vars
    <2>2. CASE focus = "gossip"
      <3>1. [G!Next]_G!vars
        BY <1>2, <2>2 DEF Next, vars, G!vars
      <3> QED BY <1>2, <2>2, <3>1, GossipStep
    <2> QED BY <2>1, <2>2
  <1>3. I => Filtered
    BY FilteredByInvariant DEF Filtered
  <1> QED BY <1>1, <1>2, <1>3, PTL DEF Spec

-------------------------------------------------------------------------------
(* The inductive invariant of the devnet.  While no slot is late, the nodes  *)
(* share a chain up to the one block that the leader of the slot may build;  *)
(* whoever lacks that block has its parent, and will get it.                 *)

slot == x1
chains == x2
inbox == x3
ticker == x4
air == x5
heard == x6
late == x7

USE DEF slot, chains, inbox, ticker, air, heard, late

Entry == [slot : Nat, by : Members, variant : Variants]
Chain == Seq(Entry)

DevnetTypes ==
    /\ slot \in Nat
    /\ chains \in [Members -> Chain]
    /\ inbox \in [Members -> Seq(Chain)]
    /\ ticker \in [Members -> [running : BOOLEAN, due : Nat, block : Chain \cup {Idle}]]
    /\ air \in [Members -> SUBSET Chain]
    /\ heard \in [Members -> SUBSET Chain]
    /\ late \in BOOLEAN

\* No block under construction is not a block.
IdleApart == Idle \notin Chain

\* The blocks on their way to node n, or in its ticker.
Items(s) == {s[i] : i \in DOMAIN s}
Queued(n) == Items(inbox[n])
InFlight(n) == Queued(n) \cup air[n] \cup ({ticker[n].block} \ {Idle})

\* Node n has a block of this slot.
Fresh(n) == chains[n] # <<>> /\ D!Last(chains[n]).slot = slot
\* Node n may still build a block in this slot.
Unticked(n) == ~ticker[n].running \/ ticker[n].due > 0

\* A chain grows by slots, with blocks of their leaders.
Sound(c) ==
    \A i \in DOMAIN c :
        /\ i > 1 => c[i].slot > c[i - 1].slot
        /\ c[i].by = D!leader_of(c[i].slot)
\* Its last block has a slot after genesis that is not in the future.
Dated(c) == c # <<>> => D!Last(c).slot > 0 /\ D!Last(c).slot <= slot
\* A block, accepted or not, is one of the leader of its slot.
Sealed(b) ==
    b # <<>> /\ D!Last(b).by = D!leader_of(D!Last(b).slot) /\ D!Last(b).slot <= slot

Started(n) == ~ticker[n].running => ticker[n].due = 0 /\ ticker[n].block = Idle

Always ==
    \A n \in Members :
        /\ Sound(chains[n]) /\ Dated(chains[n])
        /\ \A b \in InFlight(n) \cup heard[n] : Sealed(b)
        /\ Started(n)

\* Two nodes have the same chain, or one is ahead by a block that the other will get.
LevelAt(n, p) ==
    /\ (Fresh(n) <=> Fresh(p)) => chains[n] = chains[p]
    /\ Fresh(n) /\ ~Fresh(p) =>
         D!Front(chains[n]) = chains[p] /\ chains[n] \in Queued(p) \cup air[p]

\* A block under way is of this slot, and every node has it or has its parent.
Fits(b, p) ==
    /\ D!Last(b).slot = slot
    /\ IF Fresh(p) THEN b = chains[p] ELSE D!Front(b) = chains[p]

\* What a node has heard of in this slot it has accepted or will handle; a block of slot 0
\* is refused everywhere.
Known(n, b) == D!Last(b).slot = slot => Fresh(n) \/ b \in Queued(n) \/ slot = 0

\* Until the leader of the slot ticks, there is no block of the slot.
Quiet == \A p \in Members : InFlight(p) = {} /\ ~Fresh(p)

OneTick == \A n \in Members : ticker[n].due \in {0, 1}
Level == \A n, p \in Members : LevelAt(n, p)
AllFit == \A n, p \in Members : \A b \in InFlight(n) : Fits(b, p)
OneBlock == \A n, p \in Members : \A b \in InFlight(n), c \in InFlight(p) : b = c
AllKnown == \A n \in Members : \A b \in heard[n] : Known(n, b)
LeaderFirst == \A n \in Members : D!leader_of(slot) = n /\ Unticked(n) => Quiet

InStep == OneTick /\ Level /\ AllFit /\ OneBlock /\ AllKnown /\ LeaderFirst

DevnetInv == DevnetTypes /\ Always /\ (~late => InStep)

-------------------------------------------------------------------------------
(* Chains.                                                                   *)

LEMMA Extended ==
    ASSUME NEW c \in Chain, NEW e \in Entry
    PROVE  /\ Append(c, e) \in Chain /\ Append(c, e) # <<>>
           /\ D!Last(Append(c, e)) = e /\ D!Front(Append(c, e)) = c
  BY DEF Chain, D!Last, D!Front

LEMMA Parent ==
    ASSUME NEW b \in Chain, b # <<>>
    PROVE  /\ D!Front(b) \in Chain /\ Len(b) = Len(D!Front(b)) + 1
           /\ \A i \in 1..Len(D!Front(b)) : D!Front(b)[i] = b[i]
           /\ D!Last(b) \in Entry /\ D!Last(b) = b[Len(b)] /\ Len(b) \in Nat \ {0}
  <1>1. Len(b) \in Nat \ {0} /\ \A i \in 1..Len(b) : b[i] \in Entry
    BY DEF Chain
  <1>2. D!Last(b) = b[Len(b)] /\ D!Last(b) \in Entry
    BY <1>1 DEF D!Last
  <1>3. D!Front(b) = [i \in 1..(Len(b) - 1) |-> b[i]]
    BY <1>1 DEF D!Front
  <1>4. D!Front(b) \in Chain /\ Len(D!Front(b)) = Len(b) - 1
    BY <1>1, <1>3 DEF Chain
  <1> QED BY <1>1, <1>2, <1>3, <1>4

LEMMA Prefixes ==
    ASSUME NEW b \in Chain
    PROVE  D!IsPrefix(b, b) /\ (b # <<>> => D!IsPrefix(D!Front(b), b))
  <1>1. D!IsPrefix(b, b)
    BY DEF Chain, D!IsPrefix
  <1>2. ASSUME b # <<>> PROVE D!IsPrefix(D!Front(b), b)
    BY <1>2 DEF Chain, D!IsPrefix, D!Front
  <1> QED BY <1>1, <1>2

\* A block that links to a sound chain ends a sound chain.
LEMMA SoundLink ==
    ASSUME NEW b \in Chain, Sealed(b), NEW c \in Chain, Sound(c), D!Front(b) = c,
           D!Last(b).slot > D!tip_slot(c)
    PROVE  Sound(b) /\ D!Last(b).slot > 0
  <1>1. b # <<>> /\ D!Last(b).by = D!leader_of(D!Last(b).slot)
    BY DEF Sealed
  <1>2. /\ Len(c) \in Nat /\ Len(b) = Len(c) + 1 /\ DOMAIN b = 1..Len(b) /\ DOMAIN c = 1..Len(c)
        /\ \A i \in 1..Len(c) : c[i] = b[i]
        /\ D!Last(b) = b[Len(b)] /\ D!Last(b) \in Entry
    <2>1. /\ Len(b) = Len(c) + 1 /\ \A i \in 1..Len(c) : c[i] = b[i]
          /\ D!Last(b) = b[Len(b)] /\ D!Last(b) \in Entry
      BY <1>1, Parent
    <2>2. Len(c) \in Nat /\ DOMAIN b = 1..Len(b) /\ DOMAIN c = 1..Len(c)
      BY DEF Chain
    <2> QED BY <2>1, <2>2
  <1>3. c # <<>> => D!tip_slot(c) = c[Len(c)].slot /\ c[Len(c)].slot \in Nat /\ Len(c) > 0
    <2>1. ASSUME c # <<>> PROVE c[Len(c)] \in Entry /\ D!Last(c) = c[Len(c)] /\ Len(c) > 0
      BY <2>1, Parent
    <2> QED BY <2>1 DEF D!tip_slot, Entry
  <1>4. c = <<>> => D!tip_slot(c) = 0 /\ Len(c) = 0
    BY DEF D!tip_slot
  <1>5. ASSUME NEW i \in DOMAIN b
        PROVE  /\ i > 1 => b[i].slot > b[i - 1].slot
               /\ b[i].by = D!leader_of(b[i].slot)
    <2>1. CASE i \in 1..Len(c)
      <3>1. i > 1 => i - 1 \in 1..Len(c)
        BY <1>2, <2>1
      <3>2. /\ i > 1 => c[i].slot > c[i - 1].slot
            /\ c[i].by = D!leader_of(c[i].slot)
        BY <1>2, <2>1 DEF Sound
      <3> QED BY <1>2, <2>1, <3>1, <3>2
    <2>2. CASE i = Len(c) + 1
      <3>1. b[i].by = D!leader_of(b[i].slot)
        BY <1>1, <1>2, <2>2
      <3>2. ASSUME i > 1 PROVE b[i].slot > b[i - 1].slot
        <4>1. c # <<>> /\ i - 1 = Len(c)
          BY <1>2, <1>4, <2>2, <3>2
        <4>2. b[i - 1] = c[Len(c)]
          BY <1>2, <1>3, <4>1
        <4> QED BY <1>2, <1>3, <2>2, <4>1, <4>2
      <3> QED BY <3>1, <3>2
    <2> QED BY <1>2, <2>1, <2>2
  <1>6. D!Last(b).slot > 0
    BY <1>2, <1>3, <1>4 DEF Entry
  <1> QED BY <1>5, <1>6 DEF Sound

LEMMA Appended ==
    ASSUME NEW s \in Seq(Chain), NEW b \in Chain
    PROVE  Append(s, b) \in Seq(Chain) /\ Items(Append(s, b)) = Items(s) \cup {b}
  <1>1. /\ Append(s, b) \in Seq(Chain) /\ Len(s) \in Nat
        /\ DOMAIN Append(s, b) = 1..(Len(s) + 1) /\ DOMAIN s = 1..Len(s)
        /\ Append(s, b)[Len(s) + 1] = b
        /\ \A i \in 1..Len(s) : Append(s, b)[i] = s[i]
    OBVIOUS
  <1> QED BY <1>1 DEF Items

LEMMA Removed ==
    ASSUME NEW s \in Seq(Chain), s # <<>>
    PROVE  /\ Head(s) \in Chain /\ Head(s) \in Items(s) /\ Tail(s) \in Seq(Chain)
           /\ Items(Tail(s)) \subseteq Items(s)
           /\ Items(s) \subseteq Items(Tail(s)) \cup {Head(s)}
  <1>1. /\ Len(s) \in Nat \ {0} /\ Head(s) = s[1] /\ DOMAIN s = 1..Len(s)
        /\ \A i \in 1..Len(s) : s[i] \in Chain
    OBVIOUS
  <1>2. /\ Tail(s) \in Seq(Chain) /\ DOMAIN Tail(s) = 1..(Len(s) - 1)
        /\ \A i \in 1..(Len(s) - 1) : Tail(s)[i] = s[i + 1]
    BY <1>1
  <1>3. Items(Tail(s)) \subseteq Items(s)
    BY <1>1, <1>2 DEF Items
  <1>4. ASSUME NEW i \in DOMAIN s PROVE s[i] \in Items(Tail(s)) \cup {Head(s)}
    <2>1. CASE i = 1
      BY <1>1, <2>1
    <2>2. CASE i # 1
      <3>1. i - 1 \in 1..(Len(s) - 1) /\ s[(i - 1) + 1] = s[i]
        BY <1>1, <2>2
      <3>2. Tail(s)[i - 1] = s[i]
        BY <1>2, <3>1
      <3> QED BY <1>2, <3>1, <3>2 DEF Items
    <2> QED BY <2>1, <2>2
  <1> QED BY <1>1, <1>2, <1>3, <1>4 DEF Items

-------------------------------------------------------------------------------
(* The steps of the devnet.                                                  *)

LEMMA DevnetStart == ASSUME D!Init PROVE DevnetInv
  <1>1. /\ slot = 0 /\ chains = [n \in Members |-> <<>>] /\ inbox = [n \in Members |-> <<>>]
        /\ ticker = [n \in Members |-> [running |-> FALSE, due |-> 0, block |-> Idle]]
        /\ air = [n \in Members |-> {}] /\ heard = [n \in Members |-> {}] /\ late = FALSE
    BY DEF D!Init
  <1>2. DevnetTypes
    <2>1. <<>> \in Chain /\ <<>> \in Seq(Chain)
      BY DEF Chain
    <2> QED BY <1>1, <2>1 DEF DevnetTypes
  <1>3. Items(<<>>) = {} /\ Sound(<<>>)
    BY DEF Items, Sound
  <1>4. ASSUME NEW n \in Members
        PROVE  /\ InFlight(n) = {} /\ Queued(n) = {} /\ ~Fresh(n) /\ heard[n] = {}
               /\ chains[n] = <<>> /\ Started(n) /\ ticker[n].due = 0
    BY <1>1, <1>3 DEF InFlight, Queued, Fresh, Started
  <1>5. Always
    BY <1>3, <1>4 DEF Always, Dated
  <1>6. InStep
    BY <1>4 DEF InStep, OneTick, Level, LevelAt, AllFit, OneBlock, AllKnown, LeaderFirst, Quiet
  <1> QED BY <1>2, <1>5, <1>6 DEF DevnetInv

\* A step within the nodes: no chain changes and no block comes or goes.
Steady ==
    /\ UNCHANGED <<slot, chains, air, heard, late>>
    /\ DevnetTypes'
    /\ \A m \in Members :
         /\ InFlight(m)' = InFlight(m)
         /\ Queued(m) \subseteq Queued(m)'
         /\ Unticked(m)' => Unticked(m)
         /\ Started(m)'
         /\ ~late => ticker'[m].due \in {0, 1}

LEMMA SteadyStep == ASSUME DevnetInv, Steady PROVE DevnetInv'
  <1>1. slot' = slot /\ chains' = chains /\ air' = air /\ heard' = heard /\ late' = late
    BY DEF Steady
  <1>2. \A m \in Members : Fresh(m)' <=> Fresh(m)
    BY <1>1 DEF Fresh
  <1>3. Always'
    BY <1>1 DEF DevnetInv, Steady, Always, Sound, Dated, Sealed
  <1>4. ASSUME ~late PROVE InStep'
    <2>1. OneTick'
      BY <1>4 DEF Steady, OneTick
    <2>2. Level'
      BY <1>1, <1>2, <1>4 DEF DevnetInv, InStep, Steady, Level, LevelAt
    <2>3. AllFit'
      BY <1>1, <1>2, <1>4 DEF DevnetInv, InStep, Steady, AllFit, Fits
    <2>4. OneBlock'
      BY <1>4 DEF DevnetInv, InStep, Steady, OneBlock
    <2>5. AllKnown'
      BY <1>1, <1>2, <1>4 DEF DevnetInv, InStep, Steady, AllKnown, Known
    <2>6. LeaderFirst'
      BY <1>1, <1>2, <1>4 DEF DevnetInv, InStep, Steady, LeaderFirst, Quiet, D!leader_of
    <2> QED BY <2>1, <2>2, <2>3, <2>4, <2>5, <2>6 DEF InStep
  <1> QED BY <1>1, <1>3, <1>4 DEF DevnetInv, Steady

LEMMA Starts ==
    ASSUME DevnetInv, NEW n \in Members, D!StartTicker(n) PROVE DevnetInv'
  <1>1. UNCHANGED <<slot, chains, inbox, air, heard, late>>
    BY DEF D!StartTicker
  <1>2. DevnetTypes /\ Always /\ (~late => OneTick)
    BY DEF DevnetInv, InStep
  <1>3. /\ ~ticker[n].running
        /\ ticker' = [ticker EXCEPT ![n] = [@ EXCEPT !.running = TRUE, !.due = 1]]
    BY DEF D!StartTicker
  <1>4. /\ ticker'[n].running /\ ticker'[n].due = 1 /\ ticker'[n].block = ticker[n].block
        /\ \A m \in Members : m # n => ticker'[m] = ticker[m]
    BY <1>2, <1>3 DEF DevnetTypes
  <1>5. DevnetTypes'
    BY <1>1, <1>2, <1>3 DEF DevnetTypes
  <1>6. ASSUME NEW m \in Members
        PROVE  /\ InFlight(m)' = InFlight(m) /\ Queued(m)' = Queued(m)
               /\ Unticked(m)' => Unticked(m)
               /\ Started(m)' /\ (~late => ticker'[m].due \in {0, 1})
    <2>1. Started(m) /\ ticker'[m].block = ticker[m].block /\ (~late => ticker[m].due \in {0, 1})
      BY <1>2, <1>4 DEF Always, OneTick
    <2>2. InFlight(m)' = InFlight(m) /\ Queued(m)' = Queued(m)
      BY <1>1, <2>1 DEF InFlight, Queued
    <2>3. CASE m = n
      BY <1>3, <1>4, <2>2, <2>3 DEF Unticked, Started
    <2>4. CASE m # n
      BY <1>4, <2>1, <2>2, <2>4 DEF Unticked, Started
    <2> QED BY <2>3, <2>4
  <1>7. Steady
    BY <1>1, <1>5, <1>6 DEF Steady
  <1> QED BY <1>7, SteadyStep

LEMMA Dispatched ==
    ASSUME IdleApart, DevnetInv, NEW n \in Members, D!Dispatch(n) PROVE DevnetInv'
  <1>1. UNCHANGED <<slot, chains, air, heard, late>>
    BY DEF D!Dispatch
  <1>2. DevnetTypes /\ Always /\ (~late => OneTick)
    BY DEF DevnetInv, InStep
  <1>3. /\ ticker[n].block # Idle
        /\ inbox' = [inbox EXCEPT ![n] = Append(@, ticker[n].block)]
        /\ ticker' = [ticker EXCEPT ![n].block = Idle]
    BY DEF D!Dispatch
  <1>4. ticker[n].block \in Chain /\ inbox[n] \in Seq(Chain)
    BY <1>2, <1>3 DEF DevnetTypes
  <1>5. /\ \A m \in Members : /\ ticker'[m].running = ticker[m].running
                              /\ ticker'[m].due = ticker[m].due
        /\ \A m \in Members : m # n => ticker'[m].block = ticker[m].block /\ inbox'[m] = inbox[m]
        /\ ticker'[n].block = Idle /\ inbox'[n] = Append(inbox[n], ticker[n].block)
    BY <1>2, <1>3 DEF DevnetTypes
  <1>6. DevnetTypes'
    <2>1. Append(inbox[n], ticker[n].block) \in Seq(Chain)
      BY <1>4, Appended
    <2> QED BY <1>1, <1>2, <1>3, <2>1 DEF DevnetTypes
  <1>7. ASSUME NEW m \in Members
        PROVE  /\ InFlight(m)' = InFlight(m) /\ Queued(m) \subseteq Queued(m)'
               /\ Unticked(m)' => Unticked(m)
               /\ Started(m)' /\ (~late => ticker'[m].due \in {0, 1})
    <2>1. Started(m) /\ (~late => ticker[m].due \in {0, 1})
      BY <1>2 DEF Always, OneTick
    <2>2. Started(m)' /\ (Unticked(m)' => Unticked(m)) /\ (~late => ticker'[m].due \in {0, 1})
      <3>1. ticker'[m].block = Idle \/ ticker'[m].block = ticker[m].block
        BY <1>5
      <3> QED BY <1>5, <2>1, <3>1 DEF Started, Unticked
    <2>3. CASE m = n
      <3>1. Queued(m)' = Queued(m) \cup {ticker[n].block}
        BY <1>4, <1>5, <2>3, Appended DEF Queued
      <3> QED BY <1>1, <1>3, <1>5, <2>2, <2>3, <3>1 DEF InFlight
    <2>4. CASE m # n
      <3>1. Queued(m)' = Queued(m)
        BY <1>5, <2>4 DEF Queued
      <3> QED BY <1>1, <1>5, <2>2, <2>4, <3>1 DEF InFlight
    <2> QED BY <2>3, <2>4
  <1>8. Steady
    BY <1>1, <1>6, <1>7 DEF Steady
  <1> QED BY <1>8, SteadyStep

\* A tick of a node that does not lead the slot.
LEMMA TickedIdly ==
    ASSUME DevnetInv, NEW n \in Members, D!Tick(n), D!leader_of(slot) # n
    PROVE  DevnetInv'
  <1>1. UNCHANGED <<slot, chains, inbox, air, heard, late>>
    BY DEF D!Tick
  <1>2. DevnetTypes /\ Always /\ (~late => OneTick)
    BY DEF DevnetInv, InStep
  <1>3. /\ ticker[n].due > 0 /\ ticker[n].block = Idle
        /\ ticker' = [ticker EXCEPT ![n] =
                       [running |-> @.running, due |-> @.due - 1, block |-> Idle]]
    BY DEF D!Tick, D!leads
  <1>4. /\ ticker'[n].running = ticker[n].running /\ ticker'[n].due = ticker[n].due - 1
        /\ ticker'[n].block = ticker[n].block /\ ticker[n].due \in Nat
        /\ \A m \in Members : m # n => ticker'[m] = ticker[m]
    BY <1>2, <1>3 DEF DevnetTypes
  <1>5. DevnetTypes'
    <2>1. ticker[n].running \in BOOLEAN /\ ticker[n].due - 1 \in Nat
      BY <1>2, <1>3 DEF DevnetTypes
    <2> QED BY <1>1, <1>2, <1>3, <2>1 DEF DevnetTypes
  <1>6. ASSUME NEW m \in Members
        PROVE  /\ InFlight(m)' = InFlight(m) /\ Queued(m)' = Queued(m)
               /\ Unticked(m)' => Unticked(m)
               /\ Started(m)' /\ (~late => ticker'[m].due \in {0, 1})
    <2>1. Started(m) /\ ticker'[m].block = ticker[m].block /\ (~late => ticker[m].due \in {0, 1})
      BY <1>2, <1>4 DEF Always, OneTick
    <2>2. InFlight(m)' = InFlight(m) /\ Queued(m)' = Queued(m)
      BY <1>1, <2>1 DEF InFlight, Queued
    <2>3. CASE m = n
      BY <1>3, <1>4, <2>1, <2>2, <2>3 DEF Unticked, Started
    <2>4. CASE m # n
      BY <1>4, <2>1, <2>2, <2>4 DEF Unticked, Started
    <2> QED BY <2>3, <2>4
  <1>7. Steady
    BY <1>1, <1>5, <1>6 DEF Steady
  <1> QED BY <1>7, SteadyStep

\* The leader's tick: until then the slot was quiet, so that the block fits everywhere.
LEMMA TickedLeading ==
    ASSUME IdleApart, DevnetInv, NEW n \in Members, D!Tick(n), D!leader_of(slot) = n
    PROVE  DevnetInv'
  <1>1. /\ slot' = slot /\ chains' = chains /\ inbox' = inbox /\ air' = air
        /\ heard' = heard /\ late' = late
    BY DEF D!Tick
  <1>2. DevnetTypes /\ Always
    BY DEF DevnetInv
  <1>3. PICK v \in Variants :
          ticker' = [ticker EXCEPT ![n] =
                       [running |-> @.running, due |-> @.due - 1,
                        block |-> Append(chains[n], [slot |-> slot, by |-> n, variant |-> v])]]
    BY DEF D!Tick, D!leads
  <1>4. PICK b : b = Append(chains[n], [slot |-> slot, by |-> n, variant |-> v])
    OBVIOUS
  <1>5. ticker[n].due > 0 /\ ticker[n].block = Idle
    BY DEF D!Tick
  <1>6. /\ [slot |-> slot, by |-> n, variant |-> v] \in Entry /\ chains[n] \in Chain
    BY <1>2 DEF DevnetTypes, Entry
  <1>7. /\ b \in Chain /\ b # <<>> /\ D!Front(b) = chains[n]
        /\ D!Last(b) = [slot |-> slot, by |-> n, variant |-> v]
    BY <1>4, <1>6, Extended
  <1>8. /\ ticker'[n].running = ticker[n].running /\ ticker'[n].due = ticker[n].due - 1
        /\ ticker'[n].block = b /\ ticker[n].due \in Nat /\ ticker[n].running \in BOOLEAN
        /\ \A m \in Members : m # n => ticker'[m] = ticker[m]
    BY <1>2, <1>3, <1>4 DEF DevnetTypes
  <1>9. DevnetTypes'
    <2>1. ticker[n].due - 1 \in Nat
      BY <1>5, <1>8
    <2> QED BY <1>1, <1>2, <1>3, <1>4, <1>7, <1>8, <2>1 DEF DevnetTypes
  <1>10. \A m \in Members : /\ Queued(m)' = Queued(m) /\ (Fresh(m)' <=> Fresh(m))
                            /\ m # n => InFlight(m)' = InFlight(m)
    BY <1>1, <1>8 DEF Queued, Fresh, InFlight
  <1>11. InFlight(n)' = InFlight(n) \cup {b}
    BY <1>1, <1>5, <1>7, <1>8, <1>10 DEF InFlight, IdleApart
  <1>12. Always'
    <2>1. Sealed(b)'
      BY <1>1, <1>2, <1>7 DEF Sealed, DevnetTypes, D!leader_of
    <2>2. ASSUME NEW m \in Members
          PROVE  (Sound(chains[m]) /\ Dated(chains[m]) /\ Started(m))'
      <3>1. Sound(chains[m]) /\ Dated(chains[m]) /\ Started(m)
        BY <1>2 DEF Always
      <3>2. Started(m)'
        <4>1. CASE m = n
          BY <1>5, <1>8, <3>1, <4>1 DEF Started
        <4>2. CASE m # n
          BY <1>8, <3>1, <4>2 DEF Started
        <4> QED BY <4>1, <4>2
      <3> QED BY <1>1, <3>1, <3>2 DEF Sound, Dated
    <2>3. \A m \in Members : \A c \in InFlight(m)' \cup heard'[m] : Sealed(c)'
      <3>1. \A m \in Members : \A c \in InFlight(m) \cup heard[m] : Sealed(c)
        BY <1>2 DEF Always
      <3>2. \A c : Sealed(c) => Sealed(c)'
        BY <1>1 DEF Sealed
      <3> QED BY <1>1, <1>10, <1>11, <2>1, <3>1, <3>2
    <2> QED BY <2>2, <2>3 DEF Always
  <1>13. ASSUME ~late PROVE InStep'
    <2>1. InStep /\ Quiet
      BY <1>5, <1>13 DEF DevnetInv, InStep, LeaderFirst, Unticked
    <2>2. \A m \in Members : chains[m] = chains[n] /\ ~Fresh(m) /\ InFlight(m) = {}
      BY <2>1 DEF InStep, Quiet, Level, LevelAt
    <2>3. \A m \in Members : InFlight(m)' \subseteq {b} /\ ~Fresh(m)'
      BY <1>10, <1>11, <2>2
    <2>4. OneTick'
      <3>1. \A m \in Members : ticker[m].due \in {0, 1}
        BY <2>1 DEF InStep, OneTick
      <3>2. \A m \in Members : ticker'[m].due \in {0, 1}
        BY <1>5, <1>8, <3>1
      <3> QED BY <3>2 DEF OneTick
    <2>5. Level'
      BY <1>1, <2>2, <2>3 DEF Level, LevelAt
    <2>6. AllFit'
      BY <1>1, <1>7, <2>2, <2>3 DEF AllFit, Fits
    <2>7. OneBlock'
      BY <2>3 DEF OneBlock
    <2>8. AllKnown'
      BY <1>1, <1>10, <2>1 DEF InStep, AllKnown, Known
    <2>9. LeaderFirst'
      <3>1. ticker[n].due = 1 /\ ticker[n].running
        BY <1>2, <1>5, <2>1 DEF InStep, OneTick, Always, Started
      <3>2. ~Unticked(n)'
        BY <1>8, <3>1 DEF Unticked
      <3> QED BY <1>1, <3>2 DEF LeaderFirst, D!leader_of
    <2> QED BY <2>4, <2>5, <2>6, <2>7, <2>8, <2>9 DEF InStep
  <1> QED BY <1>1, <1>9, <1>12, <1>13 DEF DevnetInv

\* A loss ends what is claimed of the slot.
LEMMA Lost ==
    ASSUME DevnetInv, NEW n \in Members, NEW b \in air[n], D!Lose(n, b) PROVE DevnetInv'
  <1>1. /\ slot' = slot /\ chains' = chains /\ inbox' = inbox /\ ticker' = ticker
        /\ heard' = heard /\ late' = TRUE /\ air' = [air EXCEPT ![n] = @ \ {b}]
    BY DEF D!Lose
  <1>2. DevnetTypes /\ Always
    BY DEF DevnetInv
  <1>3. DevnetTypes'
    BY <1>1, <1>2 DEF DevnetTypes
  <1>4. \A m \in Members : InFlight(m)' \subseteq InFlight(m)
    <2>1. \A m \in Members : air'[m] \subseteq air[m]
      BY <1>1, <1>2 DEF DevnetTypes
    <2> QED BY <1>1, <2>1 DEF InFlight, Queued
  <1>5. Always'
    BY <1>1, <1>2, <1>4 DEF Always, Sound, Dated, Sealed, Started
  <1> QED BY <1>1, <1>3, <1>5 DEF DevnetInv

LEMMA Received ==
    ASSUME DevnetInv, NEW n \in Members, NEW b \in air[n], D!Receive(n, b) PROVE DevnetInv'
  <1>1. /\ slot' = slot /\ chains' = chains /\ ticker' = ticker /\ late' = late
        /\ air' = [air EXCEPT ![n] = @ \ {b}]
        /\ heard' = [heard EXCEPT ![n] = @ \cup {b}]
        /\ inbox' = IF b \in heard[n] THEN inbox ELSE [inbox EXCEPT ![n] = Append(@, b)]
    BY DEF D!Receive
  <1>2. DevnetTypes /\ Always
    BY DEF DevnetInv
  <1>3. b \in Chain /\ inbox[n] \in Seq(Chain) /\ b \in InFlight(n)
    BY <1>2 DEF DevnetTypes, InFlight
  <1>4. Append(inbox[n], b) \in Seq(Chain) /\ Items(Append(inbox[n], b)) = Items(inbox[n]) \cup {b}
    BY <1>3, Appended
  <1>5. DevnetTypes'
    <2>1. inbox' \in [Members -> Seq(Chain)]
      BY <1>1, <1>2, <1>4 DEF DevnetTypes
    <2> QED BY <1>1, <1>2, <1>3, <2>1 DEF DevnetTypes
  <1>6. /\ \A m \in Members : m # n => air'[m] = air[m] /\ heard'[m] = heard[m] /\ Queued(m)' = Queued(m)
        /\ air'[n] = air[n] \ {b} /\ heard'[n] = heard[n] \cup {b}
        /\ Queued(n)' = IF b \in heard[n] THEN Queued(n) ELSE Queued(n) \cup {b}
    <2>1. \A m \in Members : m # n => inbox'[m] = inbox[m]
      BY <1>1, <1>2 DEF DevnetTypes
    <2>2. inbox'[n] = IF b \in heard[n] THEN inbox[n] ELSE Append(inbox[n], b)
      BY <1>1, <1>2 DEF DevnetTypes
    <2>3. \A m \in Members : m # n => air'[m] = air[m] /\ heard'[m] = heard[m]
      BY <1>1, <1>2 DEF DevnetTypes
    <2>4. air'[n] = air[n] \ {b} /\ heard'[n] = heard[n] \cup {b}
      BY <1>1, <1>2 DEF DevnetTypes
    <2> QED BY <1>4, <2>1, <2>2, <2>3, <2>4 DEF Queued
  <1>7. \A m \in Members : /\ InFlight(m)' \subseteq InFlight(m) /\ Queued(m) \subseteq Queued(m)'
                           /\ (Fresh(m)' <=> Fresh(m)) /\ heard'[m] \subseteq heard[m] \cup InFlight(m)
    <2>1. \A m \in Members : Fresh(m)' <=> Fresh(m)
      BY <1>1 DEF Fresh
    <2>2. \A m \in Members : InFlight(m)' \subseteq InFlight(m)
      BY <1>1, <1>3, <1>6 DEF InFlight
    <2> QED BY <1>3, <1>6, <2>1, <2>2
  <1>8. Always'
    BY <1>1, <1>2, <1>7 DEF Always, Sound, Dated, Sealed, Started
  <1>9. ASSUME ~late PROVE InStep'
    <2>1. InStep
      BY <1>9 DEF DevnetInv
    <2>2. OneTick' /\ OneBlock'
      BY <1>1, <1>7, <2>1 DEF InStep, OneTick, OneBlock
    <2>3. AllFit'
      BY <1>1, <1>7, <2>1 DEF InStep, AllFit, Fits
    <2>4. LeaderFirst'
      BY <1>1, <1>3, <2>1 DEF InStep, LeaderFirst, Quiet, Unticked, D!leader_of
    <2>5. AllKnown'
      <3>1. ASSUME NEW m \in Members, NEW c \in heard'[m] PROVE Known(m, c)'
        <4>1. CASE c \in heard[m]
          BY <1>1, <1>7, <2>1, <4>1 DEF InStep, AllKnown, Known
        <4>2. CASE c \notin heard[m]
          BY <1>6, <3>1, <4>2 DEF Known
        <4> QED BY <4>1, <4>2
      <3> QED BY <3>1 DEF AllKnown
    <2>6. Level'
      <3>1. ASSUME NEW q \in Members, NEW p \in Members, Fresh(q), ~Fresh(p)
            PROVE  chains[q] \in Queued(p)' \cup air'[p]
        <4>1. chains[q] \in Queued(p) \cup air[p]
          BY <2>1, <3>1 DEF InStep, Level, LevelAt
        <4>2. D!Last(chains[q]).slot = slot /\ slot # 0
          BY <1>2, <3>1 DEF Always, Dated, Fresh, DevnetTypes
        <4>3. CASE p = n /\ chains[q] = b /\ b \in heard[n]
          BY <1>7, <2>1, <3>1, <4>2, <4>3 DEF InStep, AllKnown, Known
        <4> QED BY <1>6, <4>1, <4>3
      <3> QED BY <1>1, <1>7, <2>1, <3>1 DEF InStep, Level, LevelAt
    <2> QED BY <2>2, <2>3, <2>4, <2>5, <2>6 DEF InStep
  <1> QED BY <1>1, <1>5, <1>8, <1>9 DEF DevnetInv

\* A new slot: when the last one is settled, no block is missing anywhere.
LEMMA SlotBegun == ASSUME DevnetInv, D!NextSlot PROVE DevnetInv'
  <1>1. /\ chains' = chains /\ inbox' = inbox /\ air' = air /\ heard' = heard
        /\ slot' = slot + 1 /\ late' = (late \/ ~D!Settled)
        /\ ticker' = [n \in Members |->
                        IF ticker[n].running THEN [ticker[n] EXCEPT !.due = @ + 1] ELSE ticker[n]]
    BY DEF D!NextSlot
  <1>2. DevnetTypes /\ Always
    BY DEF DevnetInv
  <1>3. ASSUME NEW m \in Members
        PROVE  /\ ticker'[m].running = ticker[m].running /\ ticker'[m].block = ticker[m].block
               /\ ticker'[m].due = IF ticker[m].running THEN ticker[m].due + 1 ELSE ticker[m].due
               /\ ticker'[m] \in [running : BOOLEAN, due : Nat, block : Chain \cup {Idle}]
    <2>1. ticker[m] \in [running : BOOLEAN, due : Nat, block : Chain \cup {Idle}]
      BY <1>2 DEF DevnetTypes
    <2>2. ticker'[m] = IF ticker[m].running THEN [ticker[m] EXCEPT !.due = @ + 1] ELSE ticker[m]
      BY <1>1
    <2> QED BY <2>1, <2>2
  <1>4. DevnetTypes'
    <2>1. D!Settled \in BOOLEAN
      BY DEF D!Settled
    <2>2. ticker' \in [Members -> [running : BOOLEAN, due : Nat, block : Chain \cup {Idle}]]
      BY <1>1, <1>3
    <2>3. late' \in BOOLEAN
      BY <1>1, <1>2, <2>1 DEF DevnetTypes
    <2> QED BY <1>1, <1>2, <2>2, <2>3 DEF DevnetTypes
  <1>5. \A m \in Members : Queued(m)' = Queued(m) /\ InFlight(m)' = InFlight(m)
    BY <1>1, <1>3 DEF Queued, InFlight
  <1>6. ASSUME NEW m \in Members PROVE ~Fresh(m)'
    <2>1. chains[m] \in Chain /\ Dated(chains[m]) /\ slot \in Nat
      BY <1>2 DEF DevnetTypes, Always
    <2>2. chains[m] # <<>> => D!Last(chains[m]).slot \in Nat
      BY <2>1, Parent DEF Entry
    <2> QED BY <1>1, <2>1, <2>2 DEF Dated, Fresh
  <1>7. \A m \in Members : \A c \in InFlight(m) \cup heard[m] :
           c \in Chain /\ Sealed(c) /\ D!Last(c).slot \in Nat /\ D!Last(c).slot < slot'
    <2>1. ASSUME NEW m \in Members, NEW c \in InFlight(m) \cup heard[m]
          PROVE  c \in Chain /\ Sealed(c) /\ D!Last(c).slot \in Nat /\ D!Last(c).slot < slot'
      <3>1. Sealed(c)
        BY <1>2, <2>1 DEF Always
      <3>2. c \in Chain
        BY <1>2, <2>1 DEF DevnetTypes, InFlight, Queued, Items
      <3>3. D!Last(c).slot \in Nat
        BY <3>1, <3>2, Parent DEF Sealed, Entry
      <3> QED BY <1>1, <1>2, <3>1, <3>2, <3>3 DEF Sealed, DevnetTypes
    <2> QED BY <2>1
  <1>8. Always'
    <2>1. ASSUME NEW m \in Members PROVE (Sound(chains[m]) /\ Dated(chains[m]) /\ Started(m))'
      <3>1. Sound(chains[m]) /\ Dated(chains[m]) /\ Started(m)
        BY <1>2 DEF Always
      <3>2. Started(m)'
        BY <1>3, <3>1 DEF Started
      <3>3. chains[m] # <<>> => D!Last(chains[m]).slot \in Nat
        BY <1>2, Parent DEF DevnetTypes, Entry
      <3>4. Dated(chains[m])'
        BY <1>1, <1>2, <3>1, <3>3 DEF Dated, DevnetTypes
      <3> QED BY <1>1, <3>1, <3>2, <3>4 DEF Sound
    <2>2. \A m \in Members : \A c \in InFlight(m)' \cup heard'[m] : Sealed(c)'
      <3>1. ASSUME NEW m \in Members, NEW c \in InFlight(m)' \cup heard'[m] PROVE Sealed(c)'
        <4>1. Sealed(c) /\ D!Last(c).slot \in Nat /\ D!Last(c).slot < slot'
          BY <1>1, <1>5, <1>7
        <4> QED BY <1>1, <1>2, <4>1 DEF Sealed, DevnetTypes
      <3> QED BY <3>1
    <2> QED BY <2>1, <2>2 DEF Always
  <1>9. ASSUME ~late' PROVE InStep'
    <2>1. InStep /\ D!Settled
      BY <1>1, <1>9 DEF DevnetInv
    <2>2. \A m \in Members : /\ InFlight(m) = {} /\ Queued(m) = {} /\ air[m] = {}
                             /\ ticker[m].due = 0
      BY <2>1 DEF D!Settled, InFlight, Queued, Items
    <2>3. \A q, p \in Members : chains[q] = chains[p]
      BY <2>1, <2>2 DEF InStep, Level, LevelAt
    <2>4. OneTick'
      BY <1>3, <2>2 DEF OneTick
    <2>5. Level'
      BY <1>1, <1>6, <2>3 DEF Level, LevelAt
    <2>6. AllFit' /\ OneBlock'
      BY <1>5, <2>2 DEF AllFit, OneBlock
    <2>7. AllKnown'
      BY <1>1, <1>7 DEF AllKnown, Known
    <2>8. LeaderFirst'
      BY <1>5, <1>6, <2>2 DEF LeaderFirst, Quiet
    <2> QED BY <2>4, <2>5, <2>6, <2>7, <2>8 DEF InStep
  <1> QED BY <1>4, <1>8, <1>9 DEF DevnetInv

\* A block is accepted or refused, and passed on.  While the slots are in step, only a node
\* that has it already refuses it, or everybody does, in slot 0.
LEMMA BlockHandled ==
    ASSUME DevnetInv, NEW n \in Members, D!HandleBlock(n) PROVE DevnetInv'
  <1>1. PICK b : b = Head(inbox[n])
    OBVIOUS
  <1>2. /\ slot' = slot /\ ticker' = ticker /\ late' = late /\ inbox[n] # <<>>
        /\ inbox' = [inbox EXCEPT ![n] = Tail(@)]
        /\ heard' = [heard EXCEPT ![n] = @ \cup {b}]
        /\ air' = [p \in Members |-> IF p = n \/ b \in heard[p] THEN air[p] ELSE air[p] \cup {b}]
    BY <1>1 DEF D!HandleBlock
  <1>3. chains' = IF D!validate_chain_linkage(n, b) THEN [chains EXCEPT ![n] = b] ELSE chains
    BY <1>1 DEF D!HandleBlock
  <1>4. DevnetTypes /\ Always
    BY DEF DevnetInv
  <1>5. /\ b \in Chain /\ b \in Queued(n) /\ Tail(inbox[n]) \in Seq(Chain)
        /\ Items(Tail(inbox[n])) \subseteq Queued(n)
        /\ Queued(n) \subseteq Items(Tail(inbox[n])) \cup {b}
    BY <1>1, <1>2, <1>4, Removed DEF DevnetTypes, Queued
  <1>6. DevnetTypes'
    <2>1. chains' \in [Members -> Chain]
      BY <1>3, <1>4, <1>5 DEF DevnetTypes
    <2>2. air' \in [Members -> SUBSET Chain]
      BY <1>2, <1>4, <1>5 DEF DevnetTypes
    <2> QED BY <1>2, <1>4, <1>5, <2>1, <2>2 DEF DevnetTypes
  <1>7. /\ \A m \in Members : m # n => heard'[m] = heard[m] /\ Queued(m)' = Queued(m) /\ chains'[m] = chains[m]
        /\ heard'[n] = heard[n] \cup {b}
        /\ Queued(n)' \subseteq Queued(n) /\ Queued(n) \subseteq Queued(n)' \cup {b}
        /\ chains'[n] = IF D!validate_chain_linkage(n, b) THEN b ELSE chains[n]
    <2>1. /\ \A m \in Members : m # n => heard'[m] = heard[m] /\ inbox'[m] = inbox[m] /\ chains'[m] = chains[m]
          /\ heard'[n] = heard[n] \cup {b} /\ inbox'[n] = Tail(inbox[n])
          /\ chains'[n] = IF D!validate_chain_linkage(n, b) THEN b ELSE chains[n]
      BY <1>2, <1>3, <1>4 DEF DevnetTypes
    <2> QED BY <1>5, <2>1 DEF Queued
  <1>8. /\ \A m \in Members : air[m] \subseteq air'[m] /\ air'[m] \subseteq air[m] \cup {b}
        /\ \A m \in Members : m # n /\ b \notin heard[m] => b \in air'[m]
    BY <1>2
  <1>9. /\ b \in InFlight(n)
        /\ \A m \in Members : InFlight(m)' \subseteq InFlight(m) \cup {b}
    <2>1. \A m \in Members : Queued(m)' \subseteq Queued(m)
      BY <1>7
    <2> QED BY <1>2, <1>5, <1>8, <2>1 DEF InFlight
  <1>10. Sealed(b) /\ D!Last(b) \in Entry
    BY <1>4, <1>5, <1>9, Parent DEF Always, Sealed
  <1>11. D!validate_chain_linkage(n, b) <=>
            D!Front(b) = chains[n] /\ D!Last(b).slot > D!tip_slot(chains[n])
    BY DEF D!validate_chain_linkage
  <1>12. Always'
    <2>1. ASSUME NEW m \in Members PROVE (Sound(chains[m]) /\ Dated(chains[m]))'
      <3>1. Sound(chains[m]) /\ Dated(chains[m]) /\ chains[m] \in Chain
        BY <1>4 DEF Always, DevnetTypes
      <3>2. CASE m = n /\ D!validate_chain_linkage(n, b)
        <4>1. Sound(b) /\ D!Last(b).slot > 0
          BY <1>5, <1>10, <1>11, <3>1, <3>2, SoundLink
        <4> QED BY <1>2, <1>7, <1>10, <3>2, <4>1 DEF Sound, Dated, Sealed
      <3>3. CASE ~(m = n /\ D!validate_chain_linkage(n, b))
        <4>1. chains'[m] = chains[m]
          BY <1>7, <3>3
        <4> QED BY <1>2, <3>1, <4>1 DEF Sound, Dated
      <3> QED BY <3>2, <3>3
    <2>2. ASSUME NEW m \in Members, NEW c \in InFlight(m)' \cup heard'[m] PROVE Sealed(c)'
      <3>1. c \in InFlight(m) \cup heard[m] \cup {b}
        BY <1>7, <1>9
      <3>2. Sealed(c)
        BY <1>4, <1>10, <3>1 DEF Always
      <3> QED BY <1>2, <3>2 DEF Sealed
    <2>3. \A m \in Members : Started(m)'
      BY <1>2, <1>4 DEF Always, Started
    <2> QED BY <2>1, <2>2, <2>3 DEF Always
  <1>13. ASSUME ~late PROVE InStep'
    <2>1. InStep
      BY <1>13 DEF DevnetInv
    <2>2. \A p \in Members : Fits(b, p)
      BY <1>9, <2>1 DEF InStep, AllFit
    <2>3. \A m \in Members : \A c \in InFlight(m) : c = b
      BY <1>9, <2>1 DEF InStep, OneBlock
    <2>4. \A m \in Members : InFlight(m)' \subseteq {b}
      BY <1>9, <2>3
    <2>5. D!Last(b).slot = slot /\ b # <<>> /\ slot \in Nat
      BY <1>4, <1>10, <2>2 DEF Fits, Sealed, DevnetTypes
    <2>6. \A m \in Members : Fresh(m) => chains[m] = b /\ slot # 0
      BY <1>4, <2>2 DEF Always, Dated, Fits, Fresh, DevnetTypes
    <2>7. \A m \in Members : ~Fresh(m) => chains[m] = D!Front(b)
      BY <2>2 DEF Fits
    <2>8. D!validate_chain_linkage(n, b) <=> ~Fresh(n) /\ slot # 0
      <3>1. CASE Fresh(n)
        <4>1. D!tip_slot(chains[n]) = slot
          BY <3>1 DEF Fresh, D!tip_slot
        <4> QED BY <1>11, <2>5, <3>1, <4>1
      <3>2. CASE ~Fresh(n)
        <4>1. CASE chains[n] = <<>>
          BY <1>11, <2>5, <2>7, <3>2, <4>1 DEF D!tip_slot
        <4>2. CASE chains[n] # <<>>
          <5>1. /\ D!tip_slot(chains[n]) = D!Last(chains[n]).slot
                /\ D!Last(chains[n]).slot \in Nat /\ D!Last(chains[n]).slot > 0
                /\ D!Last(chains[n]).slot <= slot
            BY <1>4, <4>2, Parent DEF D!tip_slot, Always, Dated, DevnetTypes, Entry
          <5>2. D!Last(chains[n]).slot # slot
            BY <3>2, <4>2 DEF Fresh
          <5> QED BY <1>11, <2>5, <2>7, <3>2, <5>1, <5>2
        <4> QED BY <4>1, <4>2
      <3> QED BY <3>1, <3>2
    <2>9. \A m \in Members : m # n => (Fresh(m)' <=> Fresh(m)) /\ chains'[m] = chains[m]
      BY <1>2, <1>7 DEF Fresh
    <2>10. /\ Fresh(n)' <=> slot # 0
           /\ slot # 0 => chains'[n] = b
           /\ slot = 0 => chains'[n] = chains[n]
      <3>1. CASE slot # 0
        <4>1. chains'[n] = b
          BY <1>7, <2>6, <2>8, <3>1
        <4> QED BY <1>2, <2>5, <3>1, <4>1 DEF Fresh
      <3>2. CASE slot = 0
        <4>1. chains'[n] = chains[n]
          BY <1>7, <2>8, <3>2
        <4> QED BY <1>2, <2>6, <3>2, <4>1 DEF Fresh
      <3> QED BY <3>1, <3>2
    <2>11. \A m \in Members : /\ Fresh(m)' => chains'[m] = b
                              /\ ~Fresh(m)' => ~Fresh(m) /\ chains'[m] = D!Front(b)
      BY <2>6, <2>7, <2>9, <2>10
    <2>12. OneTick' /\ OneBlock'
      BY <1>2, <2>1, <2>4 DEF InStep, OneTick, OneBlock
    <2>13. AllFit'
      BY <1>2, <2>4, <2>5, <2>11 DEF AllFit, Fits
    <2>14. Level'
      <3>1. ASSUME NEW q \in Members, NEW p \in Members, Fresh(q)', ~Fresh(p)'
            PROVE  b \in Queued(p)' \cup air'[p]
        <4>1. slot # 0
          BY <2>6, <2>9, <2>10, <3>1
        <4>2. p # n
          BY <2>10, <3>1, <4>1
        <4>3. CASE b \in heard[p]
          <5>1. b \in Queued(p)
            BY <2>1, <2>5, <2>11, <3>1, <4>1, <4>3 DEF InStep, AllKnown, Known
          <5> QED BY <1>7, <4>2, <5>1
        <4> QED BY <1>8, <4>2, <4>3
      <3>2. ASSUME NEW q \in Members, NEW p \in Members PROVE LevelAt(q, p)'
        BY <2>11, <3>1 DEF LevelAt
      <3> QED BY <3>2 DEF Level
    <2>15. AllKnown'
      <3>1. ASSUME NEW m \in Members, NEW c \in heard'[m] PROVE Known(m, c)'
        <4>1. CASE m # n
          BY <1>2, <1>7, <2>1, <2>9, <3>1, <4>1 DEF InStep, AllKnown, Known
        <4>2. CASE m = n
          BY <1>2, <2>10, <4>2 DEF Known
        <4> QED BY <4>1, <4>2
      <3> QED BY <3>1 DEF AllKnown
    <2>16. LeaderFirst'
      BY <1>2, <1>9, <2>1 DEF InStep, LeaderFirst, Quiet, Unticked, D!leader_of
    <2> QED BY <2>12, <2>13, <2>14, <2>15, <2>16 DEF InStep
  <1> QED BY <1>2, <1>6, <1>12, <1>13 DEF DevnetInv

LEMMA DevnetStep == ASSUME IdleApart, DevnetInv, [D!Next]_D!vars PROVE DevnetInv'
  <1>1. CASE UNCHANGED D!vars
    <2>1. UNCHANGED <<slot, chains, inbox, ticker, air, heard, late>>
      BY <1>1 DEF D!vars
    <2>2. DevnetTypes'
      BY <2>1 DEF DevnetInv, DevnetTypes
    <2>3. Steady
      BY <2>1, <2>2 DEF Steady, DevnetInv, InStep, OneTick, Always, InFlight, Queued, Unticked, Started
    <2> QED BY <2>3, SteadyStep
  <1>2. CASE D!Next
    BY <1>2, SlotBegun, Starts, TickedIdly, TickedLeading, Dispatched, BlockHandled, Received, Lost
       DEF D!Next
  <1> QED BY <1>1, <1>2

\* The invariant gives the property.
LEMMA OneChainHolds == ASSUME DevnetInv PROVE D!OneChain
  <1>1. ASSUME ~late, NEW n \in Members, NEW p \in Members
        PROVE  D!IsPrefix(chains[n], chains[p]) \/ D!IsPrefix(chains[p], chains[n])
    <2>1. LevelAt(n, p) /\ LevelAt(p, n) /\ chains[n] \in Chain /\ chains[p] \in Chain
      BY <1>1 DEF DevnetInv, InStep, Level, DevnetTypes
    <2>2. CASE Fresh(n) <=> Fresh(p)
      BY <2>1, <2>2, Prefixes DEF LevelAt
    <2>3. CASE Fresh(n) /\ ~Fresh(p)
      BY <2>1, <2>3, Prefixes DEF LevelAt, Fresh
    <2>4. CASE Fresh(p) /\ ~Fresh(n)
      BY <2>1, <2>4, Prefixes DEF LevelAt, Fresh
    <2> QED BY <2>2, <2>3, <2>4
  <1>2. \A n \in Members : Sound(chains[n])
    BY DEF DevnetInv, Always
  <1> QED BY <1>1, <1>2 DEF D!OneChain, D!NeverForks, Sound

\* The invariant of the devnet.
THEOREM DevnetInvariance == ASSUME IdleApart PROVE D!Spec => []DevnetInv
  BY DevnetStart, DevnetStep, PTL DEF D!Spec

\* Producers on the round-robin schedule hold one chain as long as every slot is settled
\* before the next begins, and whatever is lost or late, a chain grows by slots and only
\* with blocks of their leaders (SlotTicker::run, validate_chain_linkage): for any number
\* of nodes and any schedule.
THEOREM ProducersAgree == ASSUME IdleApart PROVE Spec => []OneChain
  <1> DEFINE I == focus = "devnet" => DevnetInv
  <1>1. Init => I
    BY DevnetStart DEF Init
  <1>2. ASSUME I, [Next]_vars PROVE I'
    <2>1. focus' = focus
      BY <1>2 DEF Next, vars
    <2>2. CASE focus = "devnet"
      <3>1. [D!Next]_D!vars
        BY <1>2, <2>2 DEF Next, vars, D!vars
      <3> QED BY <1>2, <2>2, <3>1, DevnetStep
    <2> QED BY <2>1, <2>2
  <1>3. I => OneChain
    BY OneChainHolds DEF OneChain
  <1> QED BY <1>1, <1>2, <1>3, PTL DEF Spec

-------------------------------------------------------------------------------
(* The slot loop of the miner.  It counts slots and does not read the clock: *)
(* the slot it is in and the ticks that still wait add up to the slot of the *)
(* clock, and one more.                                                      *)

now == x1
due == x2
loop == x3
work == x5
submitted == x6

USE DEF now, due, loop, work, submitted

\* The steps of the modelled clock fit into a slot.
ClockConfig ==
    /\ slot_duration_ms \in Nat \ {0} /\ tick_ms \in Nat \ {0}
    /\ \E k \in Nat : slot_duration_ms = tick_ms * k

MinerInv ==
    /\ now \in Nat /\ due \in Nat /\ loop.current_slot \in Nat
    /\ \E a \in Nat : now = tick_ms * a
    /\ loop.current_slot + due = M!time_to_slot(now) + 1
    /\ \A s \in submitted : s.header.slot \in Nat /\ s.header.slot <= loop.current_slot
    /\ \A r, s \in submitted : r.header.slot = s.header.slot => r = s
    /\ work = M!Waiting \/ ( /\ work.slot = loop.current_slot
                             /\ \A s \in submitted : s.header.slot # loop.current_slot )

\* Quotient and remainder are unique.
LEMMA Quotient ==
    ASSUME NEW d \in Nat \ {0}, NEW q \in Nat, NEW r \in Nat, r < d
    PROVE  (d * q + r) \div d = q /\ (d * q + r) % d = r
  OBVIOUS

LEMMA Multiple ==
    ASSUME NEW g \in Nat, NEW a \in Nat, NEW k \in Nat, NEW q \in Nat, NEW r \in Nat,
           g * a = (g * k) * q + r
    PROVE  r = g * (a - k * q)
  <1>1. (g * k) * q = g * (k * q)
    OBVIOUS
  <1>2. g * (a - k * q) = g * a - g * (k * q)
    OBVIOUS
  <1>3. g * a \in Nat /\ g * (k * q) \in Nat
    OBVIOUS
  <1> QED BY <1>1, <1>2, <1>3

LEMMA ClockStep ==
    ASSUME ClockConfig, NEW t \in Nat, NEW a \in Nat, t = tick_ms * a
    PROVE  (t + tick_ms) \div slot_duration_ms =
              IF (t + tick_ms) % slot_duration_ms = 0
              THEN (t \div slot_duration_ms) + 1 ELSE t \div slot_duration_ms
  <1> DEFINE d == slot_duration_ms
             q == t \div d
             r == t % d
  <1>1. PICK k \in Nat : d = tick_ms * k
    BY DEF ClockConfig
  <1>2. d \in Nat \ {0} /\ tick_ms \in Nat \ {0}
    BY DEF ClockConfig
  <1>3. q \in Nat /\ r \in Nat /\ r < d /\ t = d * q + r
    BY <1>2
  <1>4. r + tick_ms <= d
    <2>1. r = tick_ms * (a - k * q)
      <3>1. tick_ms * a = (tick_ms * k) * q + r
        BY <1>1, <1>3
      <3> HIDE DEF d, q, r
      <3> QED BY <1>2, <1>3, <3>1, Multiple
    <2>2. a - k * q < k
      BY <1>1, <1>2, <1>3, <2>1
    <2>3. a - k * q + 1 <= k
      BY <1>3, <2>2
    <2> QED BY <1>1, <1>2, <1>3, <2>1, <2>3
  <1> HIDE DEF d, q, r
  <1>5. CASE r + tick_ms = d
    <2>1. t + tick_ms = d * (q + 1) + 0
      BY <1>2, <1>3, <1>5
    <2>2. q + 1 \in Nat /\ 0 \in Nat /\ 0 < d
      BY <1>2, <1>3
    <2>3. (d * (q + 1) + 0) \div d = q + 1 /\ (d * (q + 1) + 0) % d = 0
      BY <1>2, <2>2, Quotient, Zenon
    <2>4. (t + tick_ms) \div d = q + 1 /\ (t + tick_ms) % d = 0
      BY <2>1, <2>3, Zenon
    <2> QED BY <2>4 DEF d, q
  <1>6. CASE r + tick_ms < d
    <2>1. t + tick_ms = d * q + (r + tick_ms)
      BY <1>2, <1>3
    <2>2. (t + tick_ms) \div d = q /\ (t + tick_ms) % d = r + tick_ms
      BY <1>2, <1>3, <1>6, <2>1, Quotient
    <2>3. r + tick_ms # 0
      BY <1>2, <1>3
    <2> QED BY <2>2, <2>3 DEF d, q
  <1> QED BY <1>2, <1>3, <1>4, <1>5, <1>6

LEMMA MinerStart == ASSUME ClockConfig, M!Init PROVE MinerInv
  <1>1. /\ now = 0 /\ due = 1 /\ work = M!Waiting /\ submitted = {}
        /\ loop.current_slot = M!time_to_slot(0)
    BY DEF M!Init
  <1>2. M!time_to_slot(0) = 0
    <2>1. slot_duration_ms \in Nat \ {0} /\ 0 \in Nat /\ 0 < slot_duration_ms
      BY DEF ClockConfig
    <2>2. (slot_duration_ms * 0 + 0) \div slot_duration_ms = 0
      BY <2>1, Quotient, Zenon
    <2>3. slot_duration_ms * 0 + 0 = 0
      BY <2>1
    <2> QED BY <2>2, <2>3 DEF M!time_to_slot
  <1>3. 0 \in Nat /\ tick_ms * 0 = 0
    BY DEF ClockConfig
  <1>4. \E a \in Nat : now = tick_ms * a
    BY <1>1, <1>3
  <1> QED BY <1>1, <1>2, <1>3, <1>4 DEF MinerInv

\* A block under construction is not what the loop waits with.
LEMMA Busy == ASSUME NEW w, w.stage # "waiting" PROVE w # M!Waiting
  BY DEF M!Waiting

LEMMA MinerStep == ASSUME ClockConfig, MinerInv, [M!Next]_M!vars PROVE MinerInv'
  <1>1. /\ now \in Nat /\ due \in Nat /\ loop.current_slot \in Nat
        /\ loop.current_slot + due = M!time_to_slot(now) + 1
    BY DEF MinerInv
  <1>2. CASE UNCHANGED M!vars
    BY <1>2 DEF M!vars, MinerInv, M!time_to_slot, M!Waiting
  <1>3. CASE M!Elapse
    <2>1. /\ now' = now + tick_ms /\ loop' = loop /\ work' = work /\ submitted' = submitted
          /\ due' = IF now' % slot_duration_ms = 0 THEN due + 1 ELSE due
      BY <1>3 DEF M!Elapse
    <2>2. PICK a \in Nat : now = tick_ms * a
      BY DEF MinerInv
    <2>3. tick_ms \in Nat /\ now + tick_ms = tick_ms * (a + 1) /\ a + 1 \in Nat
      BY <2>2 DEF ClockConfig
    <2>4. M!time_to_slot(now)' = IF now' % slot_duration_ms = 0
                                 THEN M!time_to_slot(now) + 1 ELSE M!time_to_slot(now)
      BY <1>1, <2>1, <2>2, ClockStep DEF M!time_to_slot
    <2>5. M!time_to_slot(now) \in Nat
      BY <1>1 DEF M!time_to_slot, ClockConfig
    <2>6. now' \in Nat /\ due' \in Nat /\ (loop.current_slot + due = M!time_to_slot(now) + 1)'
      BY <1>1, <2>1, <2>3, <2>4, <2>5
    <2>7. \E c \in Nat : now' = tick_ms * c
      BY <2>1, <2>3
    <2> QED BY <1>1, <2>1, <2>6, <2>7 DEF MinerInv, M!Waiting
  <1>4. CASE M!RunSlotLoop
    <2>1. /\ due > 0 /\ due' = due - 1 /\ now' = now /\ submitted' = submitted
          /\ loop'.current_slot = loop.current_slot + 1
      BY <1>4 DEF M!RunSlotLoop, M!advance_slot
    <2>2. work' = M!Waiting \/ work'.slot = loop'.current_slot
      BY <1>4, <2>1 DEF M!RunSlotLoop, M!advance_slot
    <2>3. \A s \in submitted : /\ s.header.slot \in Nat /\ s.header.slot <= loop'.current_slot
                               /\ s.header.slot # loop'.current_slot
      BY <1>1, <2>1 DEF MinerInv
    <2>4. due' \in Nat /\ loop'.current_slot \in Nat
          /\ (loop.current_slot + due = M!time_to_slot(now) + 1)'
      BY <1>1, <2>1 DEF M!time_to_slot
    <2> QED BY <1>1, <2>1, <2>2, <2>3, <2>4 DEF MinerInv, M!Waiting
  <1>5. ASSUME UNCHANGED <<now, due, loop, submitted>>,
               work' = M!Waiting \/ (work # M!Waiting /\ work'.slot = work.slot)
        PROVE  MinerInv'
    BY <1>5 DEF MinerInv, M!time_to_slot, M!Waiting
  <1>6. CASE M!GetTip \/ M!GetPending \/ M!GetCommitment
    <2>1. UNCHANGED <<now, due, loop, submitted>>
      BY <1>6 DEF M!GetTip, M!GetPending, M!GetCommitment, M!Call
    <2>2. work.stage # "waiting" /\ work'.slot = work.slot
      BY <1>6 DEF M!GetTip, M!GetPending, M!GetCommitment, M!Call
    <2> QED BY <1>5, <2>1, <2>2, Busy
  <1>7. CASE M!Fail
    BY <1>5, <1>7 DEF M!Fail
  <1>8. CASE M!NodeMoves
    BY <1>8 DEF M!NodeMoves, MinerInv, M!time_to_slot, M!Waiting
  <1>9. CASE M!SubmitBlock
    <2>1. /\ UNCHANGED <<now, due, loop>> /\ work' = M!Waiting /\ work.stage = "sign"
          /\ submitted' = submitted \cup {[header |-> M!signed_header(work), parent |-> work.tip, at |-> now]}
      BY <1>9 DEF M!SubmitBlock, M!submit_block
    <2>2. work # M!Waiting
      BY <2>1, Busy
    <2>3. work.slot = loop.current_slot /\ \A s \in submitted : s.header.slot # loop.current_slot
      BY <2>2 DEF MinerInv
    <2>4. M!signed_header(work).slot = work.slot
      BY DEF M!signed_header, M!unsigned_header
    <2>5. PICK z : z = [header |-> M!signed_header(work), parent |-> work.tip, at |-> now]
      OBVIOUS
    <2>6. z.header.slot = loop.current_slot /\ submitted' = submitted \cup {z}
      BY <2>1, <2>3, <2>4, <2>5
    <2>7. \A s \in submitted : s.header.slot \in Nat /\ s.header.slot <= loop.current_slot
      BY DEF MinerInv
    <2>8. \A s \in submitted' : s.header.slot \in Nat /\ s.header.slot <= loop'.current_slot
      BY <1>1, <2>1, <2>6, <2>7
    <2>9. \A r, s \in submitted' : r.header.slot = s.header.slot => r = s
      BY <2>3, <2>6 DEF MinerInv
    <2> QED BY <1>1, <2>1, <2>8, <2>9 DEF MinerInv, M!time_to_slot, M!Waiting
  <1> QED BY <1>2, <1>3, <1>4, <1>6, <1>7, <1>8, <1>9 DEF M!Next

\* The miner never signs two headers for one slot, whatever fails or is late, and its loop
\* is at most one slot ahead of the clock (SlotLoop::advance_slot, the block producer of
\* cmd_run): for any slot duration, election and chain.
THEOREM OneHeaderPerSlot == ASSUME ClockConfig PROVE Spec => []SignsOnce
  <1> DEFINE I == focus = "miner" => MinerInv
  <1>1. Init => I
    BY MinerStart DEF Init
  <1>2. ASSUME I, [Next]_vars PROVE I'
    <2>1. focus' = focus
      BY <1>2 DEF Next, vars
    <2>2. CASE focus = "miner"
      <3>1. [M!Next]_M!vars
        BY <1>2, <2>2 DEF Next, vars, M!vars
      <3> QED BY <1>2, <2>2, <3>1, MinerStep
    <2> QED BY <2>1, <2>2
  <1>3. I => SignsOnce
    <2>1. ASSUME MinerInv PROVE M!SignsOnce
      <3>1. now \in Nat /\ M!time_to_slot(now) \in Nat
        BY <2>1 DEF MinerInv, M!time_to_slot, ClockConfig
      <3> QED BY <2>1, <3>1 DEF MinerInv, M!SignsOnce
    <2> QED BY <2>1 DEF SignsOnce
  <1> QED BY <1>1, <1>2, <1>3, PTL DEF Spec

-------------------------------------------------------------------------------
(* Synchronisation.                                                          *)

chain == x1
unused == x2
mail == x4

USE DEF chain, unused, mail

\* Depths, windows and bounds are unsigned integers.
SyncConfig ==
    /\ MaxHash \in Nat /\ MaxSlot \in Nat /\ k_finality \in Nat /\ window_slots \in Nat
    /\ dense_entries \in Nat /\ max_headers \in Nat

Block == [hash : Nat, parent : Nat, slot : Nat]

\* A chain from genesis, and two chains of one tree: a hash has one place and one past.
Linked(c) ==
    /\ c \in Seq(Block) /\ Len(c) >= 1 /\ c[1] = Y!Genesis
    /\ \A i \in 2..Len(c) : c[i].parent = c[i - 1].hash
Agree(c, d) ==
    \A i \in 1..Len(c), j \in 1..Len(d) :
        c[i].hash = d[j].hash => i = j /\ \A l \in 1..i : c[l] = d[l]
Pair(c, d) == Linked(c) /\ Linked(d) /\ Agree(c, d)

LEMMA InitialSegment ==
    ASSUME NEW T, NEW m \in Nat, T \subseteq 1..m, \A i \in T : \A j \in 1..i : j \in T
    PROVE  \E n \in 0..m : T = 1..n
  <1> DEFINE Closed(A1, k) == A1 \subseteq 1..k /\ \A i \in A1 : \A j \in 1..i : j \in A1
             Segment(A1, k) == \E n \in 0..k : A1 = 1..n
             ok == {k \in Nat : \A A1 : Closed(A1, k) => Segment(A1, k)}
  <1>1. 0 \in ok
    <2>1. 1..0 = {} /\ 0 \in 0..0
      OBVIOUS
    <2>2. \A A1 : Closed(A1, 0) => Segment(A1, 0)
      BY <2>1
    <2> HIDE DEF Closed, Segment
    <2> QED BY <2>2
  <1>2. ASSUME NEW k \in Nat, k \in ok PROVE k + 1 \in ok
    <2>1. ASSUME NEW A1, Closed(A1, k + 1) PROVE Segment(A1, k + 1)
      <3>1. CASE k + 1 \in A1
        <4>1. A1 = 1..(k + 1)
          BY <2>1, <3>1
        <4> QED BY <4>1
      <3>2. CASE k + 1 \notin A1
        <4>1. Closed(A1, k)
          BY <2>1, <3>2
        <4>2. PICK n \in 0..k : A1 = 1..n
          BY <1>2, <4>1
        <4>3. n \in 0..(k + 1)
          BY <4>2
        <4> QED BY <4>2, <4>3
      <3> QED BY <3>1, <3>2
    <2> HIDE DEF Closed, Segment
    <2> QED BY <2>1
  <1>3. Nat \subseteq ok
    <2> HIDE DEF ok
    <2> QED BY <1>1, <1>2, NatSetInduction
  <1>4. Closed(T, m) => Segment(T, m)
    <2> HIDE DEF Closed, Segment
    <2> QED BY <1>3
  <1> QED BY <1>4

LEMMA SyncSize == \A A1 : Y!Cardinality(A1) = Cardinality(A1)
  BY Zenon DEF Y!Cardinality, Cardinality

LEMMA SegmentSize == ASSUME NEW n \in Nat PROVE Y!Cardinality(1..n) = n
  <1>1. Cardinality(1..n) = IF 1 > n THEN 0 ELSE n - 1 + 1
    BY FS_Interval
  <1> QED BY <1>1, SyncSize

\* The fork of two chains: up to m they are the same, and past m they share no hash.
Fork(c, d, m) ==
    /\ m \in 1..Len(c) /\ m \in 1..Len(d)
    /\ \A i \in 1..m : c[i] = d[i]
    /\ \A i \in 1..Len(c), j \in 1..Len(d) : c[i].hash = d[j].hash => i = j /\ i <= m

LEMMA ForkExists ==
    ASSUME NEW c, NEW d, Pair(c, d)
    PROVE  Fork(c, d, Y!common_prefix_len(c, d))
  <1> DEFINE T == {i \in DOMAIN c \cap DOMAIN d : \A j \in 1..i : c[j].hash = d[j].hash}
  <1>1. /\ c \in Seq(Block) /\ d \in Seq(Block) /\ Len(c) >= 1 /\ Len(d) >= 1
        /\ c[1] = Y!Genesis /\ d[1] = Y!Genesis
    BY DEF Pair, Linked
  <1>2. DOMAIN c = 1..Len(c) /\ DOMAIN d = 1..Len(d) /\ Len(c) \in Nat /\ Len(d) \in Nat
    BY <1>1
  <1>3. T \subseteq 1..Len(c) /\ 1 \in T
    BY <1>1, <1>2
  <1>4. \A i \in T : \A j \in 1..i : j \in T
    BY <1>2
  <1>5. PICK m \in 0..Len(c) : T = 1..m
    <2> HIDE DEF T
    <2> QED BY <1>2, <1>3, <1>4, InitialSegment
  <1>6. m \in 1..Len(c) /\ m \in T
    BY <1>3, <1>5
  <1>7. m = Y!common_prefix_len(c, d)
    <2>1. Y!Cardinality(1..m) = m
      BY <1>5, SegmentSize
    <2>2. Y!common_prefix_len(c, d) = Y!Cardinality(T)
      BY Zenon DEF Y!common_prefix_len
    <2> HIDE DEF T
    <2> QED BY <1>5, <2>1, <2>2
  <1>8. m \in 1..Len(d) /\ c[m].hash = d[m].hash
    BY <1>2, <1>6
  <1>9. \A i \in 1..m : c[i] = d[i]
    BY <1>6, <1>8 DEF Pair, Agree
  <1>10. ASSUME NEW i \in 1..Len(c), NEW j \in 1..Len(d), c[i].hash = d[j].hash
         PROVE  i = j /\ i <= m
    <2>1. i = j /\ \A l \in 1..i : c[l] = d[l]
      BY <1>10 DEF Pair, Agree
    <2>2. i \in T
      BY <1>2, <2>1
    <2> QED BY <1>5, <2>1, <2>2
  <1> QED BY <1>6, <1>7, <1>8, <1>9, <1>10 DEF Fork

LEMMA CommonSymmetric ==
    ASSUME NEW c, NEW d, Pair(c, d), Pair(d, c)
    PROVE  Y!common_prefix_len(c, d) = Y!common_prefix_len(d, c)
  <1> PICK m, n : m = Y!common_prefix_len(c, d) /\ n = Y!common_prefix_len(d, c)
    OBVIOUS
  <1>1. Fork(c, d, m) /\ Fork(d, c, n)
    BY ForkExists
  <1>2. c[m].hash = d[m].hash /\ c[n].hash = d[n].hash
    BY <1>1 DEF Fork
  <1>3. m <= n
    BY <1>1, <1>2 DEF Fork
  <1>4. n <= m
    BY <1>1, <1>2 DEF Fork
  <1>5. m \in Int /\ n \in Int
    BY <1>1 DEF Fork
  <1> QED BY <1>3, <1>4, <1>5

LEMMA DensityCounts ==
    ASSUME NEW c \in Seq(Block), NEW m, NEW from, NEW to
    PROVE  Y!density_in_window(c, m, from, to) \in Nat
  <1> DEFINE T == {i \in DOMAIN c : i > m /\ c[i].slot > from /\ c[i].slot <= to}
  <1>1. T \subseteq 1..Len(c) /\ Len(c) \in Nat
    OBVIOUS
  <1>2. Y!density_in_window(c, m, from, to) = Y!Cardinality(T)
    BY Zenon DEF Y!density_in_window
  <1> HIDE DEF T
  <1>3. IsFiniteSet(1..Len(c))
    BY <1>1, FS_Interval
  <1>4. IsFiniteSet(T)
    BY <1>1, <1>3, FS_Subset
  <1> QED BY <1>2, <1>4, SyncSize, FS_CardinalityType

LEMMA TipOrder ==
    ASSUME NEW c, NEW d, Pair(c, d)
    PROVE  /\ ~(Y!longer_chain(c, d) /\ Y!longer_chain(d, c))
           /\ c # d => Y!longer_chain(c, d) \/ Y!longer_chain(d, c)
  <1>1. c \in Seq(Block) /\ d \in Seq(Block) /\ Len(c) \in Nat \ {0} /\ Len(d) \in Nat \ {0}
    BY DEF Pair, Linked
  <1> PICK a : a = Y!Last(c).hash
    OBVIOUS
  <1> PICK b : b = Y!Last(d).hash
    OBVIOUS
  <1>2. a = c[Len(c)].hash /\ b = d[Len(d)].hash /\ a \in Nat /\ b \in Nat
    <2>1. c[Len(c)] \in Block /\ d[Len(d)] \in Block
      BY <1>1
    <2> QED BY <2>1 DEF Y!Last, Block
  <1>3. ~(Y!longer_chain(c, d) /\ Y!longer_chain(d, c))
    BY <1>1, <1>2 DEF Y!longer_chain
  <1>4. ASSUME c # d, Len(c) = Len(d) PROVE a # b
    <2> SUFFICES ASSUME a = b PROVE FALSE
      OBVIOUS
    <2>1. \A l \in 1..Len(c) : c[l] = d[l]
      BY <1>1, <1>2, <1>4 DEF Pair, Agree
    <2>2. c = d
      BY <1>1, <1>4, <2>1
    <2> QED BY <1>4, <2>2
  <1>5. c # d => Y!longer_chain(c, d) \/ Y!longer_chain(d, c)
    BY <1>1, <1>2, <1>4 DEF Y!longer_chain
  <1> QED BY <1>3, <1>5

\* Who takes whose chain when c and d part after m blocks, at slot fs.
WhoTakes(c, d, m, fs) ==
    /\ /\ Y!maxvalid_bg(c, d, k_finality, window_slots)
       /\ Y!maxvalid_bg(d, c, k_finality, window_slots)
       <=> \/ /\ Len(c) - m <= k_finality /\ ~(Len(d) - m <= k_finality)
              /\ Y!density_in_window(c, m, fs, fs + window_slots)
                   > Y!density_in_window(d, m, fs, fs + window_slots)
           \/ /\ Len(d) - m <= k_finality /\ ~(Len(c) - m <= k_finality)
              /\ Y!density_in_window(d, m, fs, fs + window_slots)
                   > Y!density_in_window(c, m, fs, fs + window_slots)
    /\ Len(c) - m <= k_finality /\ c # d =>
           \/ Y!maxvalid_bg(c, d, k_finality, window_slots)
           \/ Y!maxvalid_bg(d, c, k_finality, window_slots)

LEMMA OneTakes ==
    ASSUME SyncConfig, NEW c, NEW d, Pair(c, d), Pair(d, c), NEW m, m = Y!common_prefix_len(c, d),
           NEW fs, fs = c[m].slot
    PROVE  WhoTakes(c, d, m, fs)
  <1>1. m = Y!common_prefix_len(d, c) /\ Fork(c, d, m)
    BY CommonSymmetric, ForkExists
  <1>2. m \in 1..Len(c) /\ c[m] = d[m] /\ m > 0
    <2>1. Len(c) \in Nat /\ m \in 1..Len(c)
      BY <1>1 DEF Fork, Pair, Linked
    <2> QED BY <1>1, <2>1 DEF Fork
  <1> DEFINE density(x) == Y!density_in_window(x, m, fs, fs + window_slots)
             takes(x, y) == IF Len(x) - m <= k_finality THEN Y!longer_chain(x, y) ELSE density(y) > density(x)
  <1>3. Y!maxvalid_bg(c, d, k_finality, window_slots) <=> takes(c, d)
    BY <1>2, Zenon DEF Y!maxvalid_bg
  <1>4. Y!maxvalid_bg(d, c, k_finality, window_slots) <=> takes(d, c)
    <2>1. d[m].slot = fs
      BY <1>2
    <2> QED BY <1>1, <1>2, <2>1, Zenon DEF Y!maxvalid_bg
  <1>5. density(c) \in Nat /\ density(d) \in Nat
    BY DensityCounts DEF Pair, Linked
  <1> HIDE DEF density
  <1>6. /\ ~(Y!longer_chain(c, d) /\ Y!longer_chain(d, c))
        /\ c # d => Y!longer_chain(c, d) \/ Y!longer_chain(d, c)
    BY TipOrder
  <1>7. Len(c) \in Nat /\ Len(d) \in Nat /\ m \in Nat /\ k_finality \in Nat
    BY <1>2 DEF Pair, Linked, SyncConfig
  <1>8. /\ Len(c) > Len(d) => Y!longer_chain(d, c)
        /\ Len(d) > Len(c) => Y!longer_chain(c, d)
    BY <1>7 DEF Y!longer_chain
  <1>9. /\ takes(c, d) /\ takes(d, c)
           <=> \/ Len(c) - m <= k_finality /\ ~(Len(d) - m <= k_finality) /\ density(c) > density(d)
               \/ Len(d) - m <= k_finality /\ ~(Len(c) - m <= k_finality) /\ density(d) > density(c)
        /\ Len(c) - m <= k_finality /\ c # d => takes(c, d) \/ takes(d, c)
    BY <1>5, <1>6, <1>7, <1>8
  <1> HIDE DEF takes
  <1> USE DEF density
  <1> QED BY <1>3, <1>4, <1>9, Zenon DEF WhoTakes

\* The walk of build_locator: positions in the chain and the strides between them.
Walk(g, c) ==
    g = [n \in 0..Len(c) |-> IF n = 0 THEN [idx |-> Len(c), step |-> 1] ELSE Y!locator_step(g[n - 1], n)]
Entries(g, c) == {n \in 0..Len(c) : \A m \in 0..(n - 1) : g[m].idx # 1}

LEMMA LocatorIsChoice ==
    ASSUME NEW c, NEW f, Walk(f, c)
    PROVE  \E g : /\ Walk(g, c)
                  /\ Y!build_locator(c) = [n \in 1..Y!Cardinality(Entries(g, c)) |-> c[g[n - 1].idx].hash]
  <1> PICK g : g = CHOOSE h : Walk(h, c)
    OBVIOUS
  <1>1. Walk(g, c)
    BY Zenon
  <1>2. Y!build_locator(c) = [n \in 1..Y!Cardinality(Entries(g, c)) |-> c[g[n - 1].idx].hash]
    BY DEF Y!build_locator, Walk, Entries
  <1> QED BY <1>1, <1>2

Place(len) == [idx : 1..len, step : Nat \ {0}]

Turn(a, b, len) ==
    /\ b \in Place(len)
    /\ (a.idx = 1 => b.idx = 1) /\ (b.idx < a.idx \/ a.idx = 1) /\ a.idx - b.idx <= a.step
    /\ b.idx = 1 \/ a.step > len - a.idx + 1 \/ b.step <= len - b.idx + 1

LEMMA WalkStep ==
    ASSUME SyncConfig, NEW len \in Nat \ {0}, NEW a \in Place(len), NEW n \in Nat
    PROVE  Turn(a, Y!locator_step(a, n), len)
  <1> PICK s : s = Y!stride(n, a.step)
    OBVIOUS
  <1>1. a.idx \in 1..len /\ a.step \in Nat \ {0}
    BY DEF Place
  <1>2. dense_entries \in Nat
    BY DEF SyncConfig
  <1>3. s = IF n < dense_entries THEN 1 ELSE a.step
    BY DEF Y!stride
  <1> PICK x, y : /\ x = IF a.idx - s < 1 THEN 1 ELSE a.idx - s
                  /\ y = IF n >= dense_entries THEN 2 * a.step ELSE a.step
    OBVIOUS
  <1>4. Y!locator_step(a, n) = [idx |-> x, step |-> y]
    BY DEF Y!locator_step
  <1>5. Y!locator_step(a, n).idx = x /\ Y!locator_step(a, n).step = y
    BY <1>4
  <1>6. x \in 1..len /\ y \in Nat \ {0}
    BY <1>1, <1>2, <1>3
  <1>7. Y!locator_step(a, n) \in Place(len)
    BY <1>4, <1>6 DEF Place
  <1>8. (a.idx = 1 => x = 1) /\ (x < a.idx \/ a.idx = 1) /\ a.idx - x <= a.step
    BY <1>1, <1>2, <1>3
  <1>9. x = 1 \/ a.step > len - a.idx + 1 \/ y <= len - x + 1
    BY <1>1, <1>2, <1>3
  <1> QED BY <1>5, <1>7, <1>8, <1>9 DEF Turn

LEMMA WalkUnfold ==
    ASSUME NEW c, Len(c) \in Nat, NEW g, Walk(g, c)
    PROVE  /\ g[0] = [idx |-> Len(c), step |-> 1]
           /\ \A n \in 1..Len(c) : g[n] = Y!locator_step(g[n - 1], n)
  <1> PICK m \in Nat : m = Len(c)
    OBVIOUS
  <1>1. g = [n \in 0..m |-> IF n = 0 THEN [idx |-> m, step |-> 1] ELSE Y!locator_step(g[n - 1], n)]
    BY DEF Walk
  <1>2. 0 \in 0..m /\ \A n \in 1..m : n \in 0..m /\ n # 0
    OBVIOUS
  <1>3. \A n \in 0..m : g[n] = IF n = 0 THEN [idx |-> m, step |-> 1] ELSE Y!locator_step(g[n - 1], n)
    BY <1>1, Zenon
  <1> QED BY <1>2, <1>3

LEMMA WalkExists ==
    ASSUME SyncConfig, NEW c, Len(c) \in Nat \ {0}
    PROVE  \E f : Walk(f, c)
  <1> PICK len \in Nat \ {0} : len = Len(c)
    OBVIOUS
  <1> DEFINE st == Place(len)
             base == [idx |-> len, step |-> 1]
             turn == [n \in 1..len |-> [a \in st |-> Y!locator_step(a, n)]]
  <1>1. \A n \in 1..len, a \in st : Y!locator_step(a, n) \in st
    <2>1. \A n \in 1..len : n \in Nat
      OBVIOUS
    <2>2. \A n \in Nat, a \in st : Turn(a, Y!locator_step(a, n), len)
      BY WalkStep
    <2> QED BY <2>1, <2>2 DEF Turn
  <1>2. turn \in [1..len -> [st -> st]]
    BY <1>1
  <1>3. base \in st
    BY DEF Place
  <1>4. \A n \in 1..len, a \in st : turn[n][a] = Y!locator_step(a, n)
    OBVIOUS
  <1>0. base = [idx |-> len, step |-> 1]
    OBVIOUS
  <1> HIDE DEF st, turn, base
  <1>5. PICK f : Follows(f, st, base, len, turn)
    BY <1>2, <1>3, Iterates DEF Stepwise
  <1>6. Walk(f, c)
    <2>1. \A n \in 1..len : n - 1 \in 0..len /\ n # 0
      OBVIOUS
    <2>2. \A n \in 1..len : f[n] = Y!locator_step(f[n - 1], n)
      BY <1>4, <1>5, <2>1 DEF Follows
    <2>3. \A n \in 0..len : f[n] = IF n = 0 THEN base ELSE Y!locator_step(f[n - 1], n)
      BY <1>5, <2>2 DEF Follows
    <2>4. f = [n \in 0..len |-> IF n = 0 THEN base ELSE Y!locator_step(f[n - 1], n)]
      BY <1>5, <2>3 DEF Follows
    <2> QED BY <1>0, <2>4, Zenon DEF Walk
  <1> QED BY <1>6

\* Strides are never longer than what was already walked, and lead to genesis in time.
Tracks(g, len, k) ==
    /\ g[k] \in Place(len)
    /\ g[k].idx = 1 \/ (g[k].step <= len - g[k].idx + 1 /\ g[k].idx <= len - k)

LEMMA TrackOn ==
    ASSUME NEW len \in Int, NEW k \in Int, NEW ai \in Int, NEW ast \in Int, NEW bi \in Int, NEW bst \in Int,
           ai = 1 \/ (ast <= len - ai + 1 /\ ai <= len - k),
           (ai = 1 => bi = 1) /\ (bi < ai \/ ai = 1),
           bi = 1 \/ ast > len - ai + 1 \/ bst <= len - bi + 1
    PROVE  bi = 1 \/ (bst <= len - bi + 1 /\ bi <= len - (k + 1))
  OBVIOUS

LEMMA WalkTracks ==
    ASSUME SyncConfig, NEW c, Len(c) \in Nat \ {0}, NEW g, Walk(g, c)
    PROVE  \A n \in 0..Len(c) : Tracks(g, Len(c), n)
  <1> PICK len \in Nat \ {0} : len = Len(c)
    OBVIOUS
  <1>1. g[0] = [idx |-> len, step |-> 1] /\ \A n \in 1..len : g[n] = Y!locator_step(g[n - 1], n)
    BY WalkUnfold
  <1> DEFINE ok == {k \in Nat : k <= len => Tracks(g, len, k)}
  <1>2. 0 \in ok
    <2>1. g[0].idx = len /\ g[0].step = 1 /\ g[0] \in Place(len)
      BY <1>1 DEF Place
    <2> QED BY <2>1 DEF Tracks
  <1>3. ASSUME NEW k \in Nat, k \in ok PROVE k + 1 \in ok
    <2> SUFFICES ASSUME k + 1 <= len PROVE Tracks(g, len, k + 1)
      OBVIOUS
    <2>1. k + 1 \in 1..len /\ (k + 1) - 1 = k
      OBVIOUS
    <2>2. g[k + 1] = Y!locator_step(g[k], k + 1)
      BY <1>1, <2>1
    <2>3. Tracks(g, len, k)
      BY <1>3
    <2> PICK a : a = g[k]
      OBVIOUS
    <2> PICK b : b = g[k + 1]
      OBVIOUS
    <2>4. /\ a \in Place(len)
          /\ a.idx = 1 \/ (a.step <= len - a.idx + 1 /\ a.idx <= len - k)
      BY <2>3 DEF Tracks
    <2>5. Turn(a, b, len)
      <3>1. k + 1 \in Nat
        OBVIOUS
      <3> QED BY <2>2, <2>4, <3>1, WalkStep, Zenon
    <2>6. b \in Place(len)
      BY <2>5 DEF Turn
    <2>0. len \in Int /\ k \in Int /\ k + 1 <= len
      OBVIOUS
    <2> PICK ai, ast, bi, bst : ai = a.idx /\ ast = a.step /\ bi = b.idx /\ bst = b.step
      OBVIOUS
    <2>7. ai \in 1..len /\ ast \in Nat /\ bi \in 1..len /\ bst \in Nat
      BY <2>4, <2>6 DEF Place
    <2>8. /\ ai = 1 \/ (ast <= len - ai + 1 /\ ai <= len - k)
          /\ (ai = 1 => bi = 1) /\ (bi < ai \/ ai = 1)
          /\ bi = 1 \/ ast > len - ai + 1 \/ bst <= len - bi + 1
      BY <2>4, <2>5 DEF Turn
    <2>9. bi = 1 \/ (bst <= len - bi + 1 /\ bi <= len - (k + 1))
      <3>1. ai \in Int /\ ast \in Int /\ bi \in Int /\ bst \in Int
        BY <2>7
      <3> QED BY <2>0, <2>8, <3>1, TrackOn
    <2> QED BY <2>6, <2>9 DEF Tracks
  <1>4. Nat \subseteq ok
    <2> HIDE DEF ok
    <2> QED BY <1>2, <1>3, NatSetInduction
  <1> QED BY <1>4

\* A locator: from the tip to genesis, in steps not longer than the way already walked.
Locates(l, c, z, g) ==
    /\ z \in 0..Len(c) /\ DOMAIN l = 1..(z + 1)
    /\ \A n \in 1..(z + 1) : l[n] = c[g[n - 1].idx].hash
    /\ \A n \in 0..z : g[n].idx \in 1..Len(c)
    /\ g[0].idx = Len(c) /\ g[z].idx = 1
    /\ \A n \in 1..z : g[n - 1].idx - g[n].idx <= Len(c) - g[n - 1].idx + 1

LEMMA IntervalSize == ASSUME NEW z \in Nat PROVE Cardinality(0..z) = z + 1
  <1>1. Cardinality(0..z) = IF 0 > z THEN 0 ELSE z - 0 + 1
    BY FS_Interval
  <1> QED BY <1>1

LEMMA LocatorIs ==
    ASSUME SyncConfig, NEW c, Len(c) \in Nat \ {0}
    PROVE  \E z, g : Locates(Y!build_locator(c), c, z, g)
  <1> PICK len \in Nat \ {0} : len = Len(c)
    OBVIOUS
  <1> PICK l : l = Y!build_locator(c)
    OBVIOUS
  <1>1. PICK g : Walk(g, c) /\ l = [n \in 1..Y!Cardinality(Entries(g, c)) |-> c[g[n - 1].idx].hash]
    BY WalkExists, LocatorIsChoice
  <1>2. g[0] = [idx |-> len, step |-> 1] /\ \A n \in 1..len : g[n] = Y!locator_step(g[n - 1], n)
    BY <1>1, WalkUnfold
  <1>3. \A n \in 0..len : Tracks(g, len, n)
    BY <1>1, WalkTracks
  <1>4. \A n \in 0..len : g[n].idx \in 1..len /\ g[n].step \in Nat \ {0} /\ g[n] \in Place(len)
    BY <1>3 DEF Tracks, Place
  <1> DEFINE T == {n \in 0..len : g[n].idx = 1}
  <1>5. T \subseteq Nat /\ len \in T
    BY <1>3, <1>4 DEF Tracks
  <1>6. PICK z \in T : \A y \in T : ~(y < z)
    <2> HIDE DEF T
    <2> QED BY <1>5, LeastElement
  <1>7. z \in 0..len /\ g[z].idx = 1 /\ \A n \in 0..len : g[n].idx = 1 => z <= n
    BY <1>6
  <1>8. Entries(g, c) = 0..z
    <2>1. ASSUME NEW n \in 0..len PROVE n \in 0..z <=> \A m \in 0..(n - 1) : g[m].idx # 1
      <3>1. ASSUME n \in 0..z, NEW m \in 0..(n - 1) PROVE g[m].idx # 1
        BY <1>7, <3>1
      <3>2. ASSUME n \notin 0..z PROVE ~\A m \in 0..(n - 1) : g[m].idx # 1
        <4>1. z \in 0..(n - 1)
          BY <1>7, <3>2
        <4> QED BY <1>7, <4>1
      <3> QED BY <3>1, <3>2
    <2>2. 0..z \subseteq 0..len
      BY <1>7
    <2> QED BY <2>1, <2>2 DEF Entries
  <1>9. Y!Cardinality(Entries(g, c)) = z + 1
    <2>1. Cardinality(0..z) = z + 1
      BY <1>7, IntervalSize
    <2> QED BY <1>7, <1>8, <2>1, SyncSize
  <1>10. DOMAIN l = 1..(z + 1) /\ \A n \in 1..(z + 1) : l[n] = c[g[n - 1].idx].hash
    BY <1>1, <1>9
  <1>11. g[0].idx = len
    BY <1>2
  <1>12. ASSUME NEW n \in 1..z PROVE g[n - 1].idx - g[n].idx <= len - g[n - 1].idx + 1
    <2>1. n - 1 \in 0..len /\ n \in 1..len /\ n - 1 < z
      BY <1>7
    <2>2. g[n - 1].idx # 1
      BY <1>7, <2>1
    <2>3. g[n - 1].step <= len - g[n - 1].idx + 1
      BY <1>3, <2>1, <2>2 DEF Tracks
    <2>4. g[n] = Y!locator_step(g[n - 1], n)
      BY <1>2, <2>1
    <2>5. Turn(g[n - 1], g[n], len)
      <3>1. n \in Nat /\ g[n - 1] \in Place(len)
        BY <1>4, <2>1
      <3> QED BY <2>4, <3>1, WalkStep, Zenon
    <2> PICK a, s, b : a = g[n - 1].idx /\ s = g[n - 1].step /\ b = g[n].idx
      OBVIOUS
    <2>0. len \in Int
      OBVIOUS
    <2>6. n \in 0..len
      BY <2>1
    <2>7. a \in Int /\ s \in Int /\ b \in Int
      BY <1>4, <2>1, <2>6
    <2>8. a - b <= s /\ s <= len - a + 1
      BY <2>3, <2>5 DEF Turn
    <2>9. a - b <= len - a + 1
      BY ONLY <2>0, <2>7, <2>8
    <2> QED BY <2>9
  <1>13. \A n \in 0..z : g[n].idx \in 1..len
    BY <1>4, <1>7
  <1>14. Locates(l, c, z, g)
    BY <1>7, <1>10, <1>11, <1>12, <1>13 DEF Locates
  <1> QED BY <1>14

OnChain(d, h) == \E i \in 1..Len(d) : d[i].hash = h

LEMMA OnChainIs == ASSUME NEW d \in Seq(Block), NEW h PROVE Y!position(d, h) # {} <=> OnChain(d, h)
  BY DEF Y!position, OnChain

\* An answer: what follows the first block of the locator that the server has.
Answer(d, l, k, mx, f, s, e) ==
    /\ f \in 1..k /\ s \in 1..Len(d) /\ e \in 0..Len(d)
    /\ d[s].hash = l[f] /\ s <= e /\ (mx = Len(d) => e = Len(d))
    /\ \A j \in 1..k : OnChain(d, l[j]) => f <= j
    /\ Y!select_headers_for_locator(d, l, mx) = SubSeq(d, s + 1, e)

Located(d, l, k) == DOMAIN l = 1..k /\ \E i \in 1..k : OnChain(d, l[i])

LEMMA SelectIs ==
    ASSUME NEW d \in Seq(Block), NEW l, NEW k \in Nat, Located(d, l, k), NEW mx \in Nat
    PROVE  \E f, s, e : Answer(d, l, k, mx, f, s, e)
  <1> DEFINE known == {i \in DOMAIN l : Y!position(d, l[i]) # {}}
             first == CHOOSE i \in known : \A j \in known : i <= j
             start == IF known = {} THEN 0 ELSE CHOOSE p \in Y!position(d, l[first]) : TRUE
             end == IF start + mx < Len(d) THEN start + mx ELSE Len(d)
  <1>1. Y!select_headers_for_locator(d, l, mx) = SubSeq(d, start + 1, end)
    BY Zenon DEF Y!select_headers_for_locator
  <1>0. DOMAIN l = 1..k
    BY DEF Located
  <1>2. \A i \in 1..k : i \in known <=> OnChain(d, l[i])
    BY <1>0, OnChainIs
  <1>3. known \subseteq Nat /\ known \subseteq 1..k /\ known # {}
    <2>1. known \subseteq 1..k
      BY <1>0
    <2>2. 1..k \subseteq Nat
      OBVIOUS
    <2>3. PICK i \in 1..k : OnChain(d, l[i])
      BY DEF Located
    <2> HIDE DEF known
    <2>4. i \in known
      BY <1>2, <2>3
    <2> QED BY <2>1, <2>2, <2>4
  <1>4. \E i \in known : \A j \in known : i <= j
    <2> HIDE DEF known
    <2>1. PICK x \in known : \A y \in known : ~(y < x)
      BY <1>3, LeastElement
    <2>2. \A y \in known : x <= y
      BY <1>3, <2>1
    <2> QED BY <2>2
  <1>5. first \in known /\ \A j \in known : first <= j
    <2> HIDE DEF known
    <2> QED BY <1>4
  <1>6. Y!position(d, l[first]) # {}
    <2> HIDE DEF first
    <2> QED BY <1>5
  <1>7. start \in Y!position(d, l[first])
    <2> HIDE DEF known, first
    <2> QED BY <1>3, <1>6
  <1> HIDE DEF first, start
  <1>8. start \in 1..Len(d) /\ d[start].hash = l[first]
    BY <1>7 DEF Y!position
  <1>9. end \in 0..Len(d) /\ start <= end /\ (mx = Len(d) => end = Len(d))
    BY <1>8
  <1> HIDE DEF end
  <1>10. first \in 1..k /\ \A j \in 1..k : OnChain(d, l[j]) => first <= j
    <2> HIDE DEF known
    <2> QED BY <1>2, <1>3, <1>5
  <1>11. Answer(d, l, k, mx, first, start, end)
    BY <1>1, <1>8, <1>9, <1>10 DEF Answer
  <1> QED BY <1>11

LEMMA ReverseIs ==
    ASSUME NEW B, NEW q \in Seq(B), NEW n \in Nat, n = Len(q)
    PROVE  /\ Y!Reverse(q) \in Seq(B) /\ Len(Y!Reverse(q)) = n
           /\ \A i \in 1..n : Y!Reverse(q)[i] = q[n - i + 1]
  <1> PICK rev : rev = Y!Reverse(q)
    OBVIOUS
  <1>1. rev = [i \in 1..n |-> q[n - i + 1]]
    BY DEF Y!Reverse
  <1>2. \A i \in 1..n : n - i + 1 \in 1..n
    OBVIOUS
  <1>3. \A i \in 1..n : q[n - i + 1] \in B
    BY <1>2
  <1>4. rev \in [1..n -> B]
    BY <1>1, <1>3
  <1>5. rev \in Seq(B) /\ Len(rev) = n
    BY <1>4
  <1> QED BY <1>1, <1>5

LEMMA TailSize ==
    ASSUME NEW B, NEW d \in Seq(B), NEW s \in 0..Len(d)
    PROVE  /\ SubSeq(d, s + 1, Len(d)) \in Seq(B) /\ Len(SubSeq(d, s + 1, Len(d))) = Len(d) - s
           /\ \A i \in 1..(Len(d) - s) : SubSeq(d, s + 1, Len(d))[i] = d[s + i]
  OBVIOUS

LEMMA Shift ==
    ASSUME NEW len \in Int, NEW s \in Int, NEW m \in Int, NEW i \in Int,
           s <= m, m <= len, 1 <= i, i <= len - m
    PROVE  /\ len - m - i + 1 \in 1..(len - m) /\ len - s - i + 1 \in 1..(len - s) /\ i \in 1..(len - s)
           /\ m + (len - m - i + 1) = len - i + 1 /\ s + (len - s - i + 1) = len - i + 1
  OBVIOUS

LEMMA StrideCovers ==
    ASSUME NEW len \in Int, NEW s \in Int, NEW m \in Int, NEW y \in Int,
           y - s <= len - y + 1, y > m
    PROVE  m - s <= len - m
  OBVIOUS

LEMMA SuffixOf ==
    ASSUME NEW d \in Seq(Block), NEW s \in 0..Len(d), NEW m \in s..Len(d)
    PROVE  Y!IsSuffix(SubSeq(d, m + 1, Len(d)), SubSeq(d, s + 1, Len(d)))
  <1> PICK len \in Nat : len = Len(d)
    OBVIOUS
  <1> PICK x : x = SubSeq(d, m + 1, len)
    OBVIOUS
  <1> PICK y : y = SubSeq(d, s + 1, len)
    OBVIOUS
  <1>1. /\ x \in Seq(Block) /\ Len(x) = len - m /\ \A i \in 1..(len - m) : x[i] = d[m + i]
    OBVIOUS
  <1>2. /\ y \in Seq(Block) /\ Len(y) = len - s /\ \A i \in 1..(len - s) : y[i] = d[s + i]
    OBVIOUS
  <1> PICK rx : rx = Y!Reverse(x)
    OBVIOUS
  <1> PICK ry : ry = Y!Reverse(y)
    OBVIOUS
  <1>0. len - m \in Nat /\ len - s \in Nat /\ s \in Int /\ m \in Int /\ s <= m /\ m <= len
    OBVIOUS
  <1>3. rx \in Seq(Block) /\ Len(rx) = len - m /\ \A i \in 1..(len - m) : rx[i] = x[len - m - i + 1]
    <2> PICK n : n = len - m
      OBVIOUS
    <2>1. n \in Nat /\ n = Len(x) /\ x \in Seq(Block)
      BY <1>0, <1>1
    <2>2. /\ Y!Reverse(x) \in Seq(Block) /\ Len(Y!Reverse(x)) = n
          /\ \A i \in 1..n : Y!Reverse(x)[i] = x[n - i + 1]
      BY ONLY <2>1, ReverseIs
    <2> QED BY <2>2
  <1>4. ry \in Seq(Block) /\ Len(ry) = len - s /\ \A i \in 1..(len - s) : ry[i] = y[len - s - i + 1]
    <2> PICK n : n = len - s
      OBVIOUS
    <2>1. n \in Nat /\ n = Len(y) /\ y \in Seq(Block)
      BY <1>0, <1>2
    <2>2. /\ Y!Reverse(y) \in Seq(Block) /\ Len(Y!Reverse(y)) = n
          /\ \A i \in 1..n : Y!Reverse(y)[i] = y[n - i + 1]
      BY ONLY <2>1, ReverseIs
    <2> QED BY <2>2
  <1>5. ASSUME NEW i \in 1..(len - m) PROVE rx[i] = ry[i]
    <2>0. i \in Int /\ 1 <= i /\ i <= len - m /\ len \in Int
      BY <1>0
    <2>1. /\ len - m - i + 1 \in 1..(len - m) /\ len - s - i + 1 \in 1..(len - s) /\ i \in 1..(len - s)
          /\ m + (len - m - i + 1) = len - i + 1 /\ s + (len - s - i + 1) = len - i + 1
      BY <1>0, <2>0, Shift
    <2>2. rx[i] = d[m + (len - m - i + 1)] /\ ry[i] = d[s + (len - s - i + 1)]
      BY <1>1, <1>2, <1>3, <1>4, <2>1
    <2> QED BY <2>1, <2>2
  <1>6. len - m <= len - s
    BY <1>0
  <1>7. SubSeq(rx, 1, Len(rx)) = SubSeq(ry, 1, Len(rx))
    BY <1>3, <1>4, <1>5, <1>6
  <1> QED BY <1>3, <1>4, <1>6, <1>7 DEF Y!IsSuffix, Y!IsPrefix

LEMMA ForkFound ==
    ASSUME SyncConfig, NEW c, NEW d, Pair(c, d), NEW hs, NEW missing,
           hs = Y!select_headers_for_locator(d, Y!build_locator(c), Len(d)), missing = Y!missing_hashes(c, d)
    PROVE  /\ Y!IsSuffix(missing, hs)
           /\ hs = <<>> \/ Y!position(c, hs[1].parent) # {}
           /\ Len(hs) - Len(missing) <= Len(c) - Y!common_prefix_len(c, d)
  <1> PICK m : m = Y!common_prefix_len(c, d)
    OBVIOUS
  <1> PICK l : l = Y!build_locator(c)
    OBVIOUS
  <1>1. /\ c \in Seq(Block) /\ d \in Seq(Block) /\ Len(c) \in Nat \ {0} /\ Len(d) \in Nat \ {0}
        /\ Linked(d)
    BY DEF Pair, Linked
  <1>2. Fork(c, d, m)
    BY ForkExists
  <1>3. m \in 1..Len(c) /\ m \in 1..Len(d) /\ m \in Int
    BY <1>1, <1>2 DEF Fork
  <1>4. \E z, g : Locates(l, c, z, g)
    BY <1>1, LocatorIs
  <1>5. PICK z, g : Locates(l, c, z, g)
    BY <1>4
  <1>6. z \in 0..Len(c) /\ DOMAIN l = 1..(z + 1) /\ z + 1 \in 1..(z + 1) /\ z + 1 \in Nat /\ z \in Nat
    BY <1>1, <1>5 DEF Locates
  <1>7. ASSUME NEW n \in 1..(z + 1) PROVE l[n] = c[g[n - 1].idx].hash /\ g[n - 1].idx \in 1..Len(c)
    <2>1. n - 1 \in 0..z
      BY <1>6
    <2> QED BY <1>5, <2>1 DEF Locates
  <1>8. ASSUME NEW n \in 1..(z + 1), g[n - 1].idx <= m PROVE OnChain(d, l[n])
    <2> PICK x : x = g[n - 1].idx
      OBVIOUS
    <2>1. x \in 1..m /\ x \in 1..Len(d) /\ l[n] = c[x].hash
      BY <1>3, <1>7, <1>8
    <2>2. d[x].hash = l[n]
      BY <1>2, <2>1 DEF Fork
    <2> QED BY <2>1, <2>2 DEF OnChain
  <1>9. OnChain(d, l[z + 1])
    <2>1. g[(z + 1) - 1].idx = 1
      BY <1>5, <1>6 DEF Locates
    <2> QED BY <1>3, <1>6, <1>8, <2>1
  <1>10. \E f, s, e : Answer(d, l, z + 1, Len(d), f, s, e)
    <2>1. Len(d) \in Nat
      BY <1>1
    <2>2. Located(d, l, z + 1)
      BY <1>6, <1>9 DEF Located
    <2> QED BY <1>1, <1>6, <2>1, <2>2, SelectIs
  <1>11. PICK f \in 1..(z + 1), s \in 1..Len(d) :
              /\ d[s].hash = l[f]
              /\ \A j \in 1..(z + 1) : OnChain(d, l[j]) => f <= j
              /\ hs = SubSeq(d, s + 1, Len(d))
    BY <1>10 DEF Answer
  <1> PICK x : x = g[f - 1].idx
    OBVIOUS
  <1>12. x = s /\ s <= m /\ s \in 1..Len(c)
    <2>1. x \in 1..Len(c) /\ c[x].hash = d[s].hash
      BY <1>7, <1>11
    <2> QED BY <1>2, <2>1 DEF Fork
  <1>13. m - s <= Len(c) - m
    <2>1. CASE f = 1
      <3>1. x = Len(c)
        BY <1>5, <2>1 DEF Locates
      <3> QED BY <1>1, <1>3, <1>12, <3>1
    <2>2. CASE f # 1
      <3>1. f - 1 \in 1..z /\ f - 1 \in 1..(z + 1) /\ (f - 1) - 1 = f - 2
        BY <1>6, <2>2
      <3> PICK y : y = g[f - 2].idx
        OBVIOUS
      <3>2. y \in 1..Len(c)
        BY <1>7, <3>1
      <3>3. y - x <= Len(c) - y + 1
        BY <1>5, <3>1 DEF Locates
      <3>4. ~(y <= m)
        <4>1. OnChain(d, l[f - 1]) => f <= f - 1
          BY <1>11, <3>1
        <4>2. ~(f <= f - 1)
          BY <1>6
        <4>3. y <= m => OnChain(d, l[f - 1])
          BY <1>8, <3>1
        <4> QED BY <4>1, <4>2, <4>3
      <3> PICK lc \in Nat : lc = Len(c)
        BY <1>1
      <3>5. y \in Int /\ s \in Int /\ m \in Int /\ y - s <= lc - y + 1 /\ y > m
        BY <1>3, <1>12, <3>2, <3>3, <3>4
      <3>6. m - s <= lc - m
        <4>1. lc \in Int
          OBVIOUS
        <4> QED BY <3>5, <4>1, StrideCovers
      <3> QED BY <3>6
    <2> QED BY <2>1, <2>2
  <1>14. missing = SubSeq(d, m + 1, Len(d))
    BY DEF Y!missing_hashes
  <1>15. Y!IsSuffix(missing, hs)
    <2>1. s \in 0..Len(d) /\ m \in s..Len(d)
      BY <1>1, <1>3, <1>12
    <2> QED BY <1>1, <1>11, <1>14, <2>1, SuffixOf
  <1>16. Len(hs) = Len(d) - s /\ Len(missing) = Len(d) - m
    <2>1. s \in 0..Len(d) /\ m \in 0..Len(d)
      BY <1>1, <1>3
    <2> QED BY <1>1, <1>11, <1>14, <2>1, TailSize
  <1>17. hs = <<>> \/ Y!position(c, hs[1].parent) # {}
    <2>1. CASE s = Len(d)
      <3>1. hs = <<>>
        BY <1>1, <1>11, <2>1
      <3> QED BY <3>1
    <2>2. CASE s # Len(d)
      <3>1. s + 1 \in 2..Len(d) /\ (s + 1) - 1 = s
        BY <1>1, <2>2
      <3>2. hs[1] = d[s + 1]
        BY <1>1, <1>11, <3>1
      <3>3. hs[1].parent = d[s].hash
        BY <1>1, <3>1, <3>2 DEF Linked
      <3>4. c[s] = d[s]
        BY <1>2, <1>12 DEF Fork
      <3>5. OnChain(c, hs[1].parent)
        BY <1>12, <3>3, <3>4 DEF OnChain
      <3> QED BY <1>1, <3>5, OnChainIs
    <2> QED BY <2>1, <2>2
  <1>18. Len(hs) - Len(missing) <= Len(c) - m
    BY <1>1, <1>3, <1>12, <1>13, <1>16
  <1> QED BY <1>15, <1>17, <1>18

\* Chains that grew from one genesis block, no two blocks with the same hash.
Tree(W) == \A c \in W : Linked(c) /\ \A d \in W : Agree(c, d)

LEMMA TreePair == ASSUME NEW W, Tree(W), NEW c \in W, NEW d \in W PROVE Pair(c, d)
  BY DEF Tree, Pair

Follower(x, w) == \A c : (Agree(w, c) => Agree(x, c)) /\ (Agree(c, w) => Agree(c, x))

LEMMA PrefixAgrees ==
    ASSUME NEW w, Linked(w), NEW e \in 1..Len(w), NEW x, x = SubSeq(w, 1, e)
    PROVE  /\ Linked(x) /\ Len(x) = e /\ \A i \in 1..e : x[i] = w[i]
           /\ Follower(x, w)
  <1>1. w \in Seq(Block) /\ Len(w) \in Nat
    BY DEF Linked
  <1>2. x \in Seq(Block) /\ Len(x) = e /\ \A i \in 1..e : x[i] = w[i]
    BY <1>1
  <1>3. e \in Nat /\ e >= 1 /\ e <= Len(w) /\ \A i \in 2..e : i - 1 \in 1..e /\ i \in 2..Len(w)
    BY <1>1
  <1>4. Linked(x)
    BY <1>2, <1>3 DEF Linked
  <1>5. \A i \in 1..e : i \in 1..Len(w) /\ \A l \in 1..i : l \in 1..e
    BY <1>1, <1>3
  <1>6. ASSUME NEW c, Agree(w, c) PROVE Agree(x, c)
    BY <1>2, <1>5, <1>6 DEF Agree
  <1>7. ASSUME NEW c, Agree(c, w) PROVE Agree(c, x)
    <2> SUFFICES ASSUME NEW i \in 1..Len(c), NEW j \in 1..e, c[i].hash = x[j].hash
                 PROVE  i = j /\ \A l \in 1..i : c[l] = x[l]
      BY <1>2 DEF Agree
    <2>1. j \in 1..Len(w) /\ c[i].hash = w[j].hash
      BY <1>2, <1>5
    <2>2. i = j /\ \A l \in 1..i : c[l] = w[l]
      BY <1>7, <2>1 DEF Agree
    <2> QED BY <1>2, <1>5, <2>2
  <1>8. Follower(x, w)
    BY <1>6, <1>7 DEF Follower
  <1> QED BY <1>2, <1>4, <1>8

LEMMA TreePrefix ==
    ASSUME NEW W, Tree(W), NEW w \in W, NEW e \in 1..Len(w)
    PROVE  Tree(W \cup {SubSeq(w, 1, e)})
  <1> PICK x : x = SubSeq(w, 1, e)
    OBVIOUS
  <1>1. Linked(w) /\ \A c \in W : Agree(w, c) /\ Agree(c, w)
    BY DEF Tree
  <1>2. Linked(x) /\ Follower(x, w)
    BY <1>1, PrefixAgrees
  <1>3. Agree(x, x) /\ \A c \in W : Agree(x, c) /\ Agree(c, x)
    BY <1>1, <1>2 DEF Follower
  <1> QED BY <1>2, <1>3 DEF Tree

\* No chain has a block of this hash.
Unseen(W, h) == \A c \in W : \A i \in 1..Len(c) : c[i].hash # h

LEMMA TreeGrows ==
    ASSUME NEW W, Tree(W), NEW w \in W, NEW b \in Block, b.parent = w[Len(w)].hash, Unseen(W, b.hash)
    PROVE  Tree(W \cup {Append(w, b)})
  <1> PICK x : x = Append(w, b)
    OBVIOUS
  <1> PICK n : n = Len(w)
    OBVIOUS
  <1>1. Linked(w) /\ w \in Seq(Block) /\ n \in Nat /\ n >= 1 /\ \A c \in W : Agree(w, c) /\ Agree(c, w)
    BY DEF Tree, Linked
  <1>2. x \in Seq(Block) /\ Len(x) = n + 1 /\ x[n + 1] = b /\ \A i \in 1..n : x[i] = w[i]
    BY <1>1
  <1>3. \A i \in 1..(n + 1) : i = n + 1 \/ i \in 1..n
    BY <1>1
  <1>4. Linked(x)
    <2>1. x[1] = Y!Genesis
      BY <1>1, <1>2 DEF Linked
    <2>2. ASSUME NEW i \in 2..(n + 1) PROVE x[i].parent = x[i - 1].hash
      <3>1. CASE i = n + 1
        <4>1. i - 1 = n /\ n \in 1..n
          BY <1>1, <3>1
        <4> QED BY <1>2, <3>1, <4>1
      <3>2. CASE i # n + 1
        <4>1. i \in 2..n /\ i \in 1..n /\ i - 1 \in 1..n
          BY <1>1, <3>2
        <4> QED BY <1>1, <1>2, <4>1 DEF Linked
      <3> QED BY <3>1, <3>2
    <2> QED BY <1>1, <1>2, <2>1, <2>2 DEF Linked
  <1>5. ASSUME NEW c \in W PROVE Agree(x, c)
    <2> SUFFICES ASSUME NEW i \in 1..(n + 1), NEW j \in 1..Len(c), x[i].hash = c[j].hash
                 PROVE  i = j /\ \A l \in 1..i : x[l] = c[l]
      BY <1>2 DEF Agree
    <2>1. i \in 1..n
      BY <1>2, <1>3 DEF Unseen
    <2>2. i = j /\ \A l \in 1..i : w[l] = c[l]
      BY <1>1, <1>2, <2>1 DEF Agree
    <2>3. \A l \in 1..i : l \in 1..n
      BY <1>1, <2>1
    <2> QED BY <1>2, <2>2, <2>3
  <1>6. ASSUME NEW c \in W PROVE Agree(c, x)
    <2> SUFFICES ASSUME NEW i \in 1..Len(c), NEW j \in 1..(n + 1), c[i].hash = x[j].hash
                 PROVE  i = j /\ \A l \in 1..i : c[l] = x[l]
      BY <1>2 DEF Agree
    <2>1. j \in 1..n
      BY <1>2, <1>3 DEF Unseen
    <2>2. i = j /\ \A l \in 1..i : c[l] = w[l]
      BY <1>1, <1>2, <2>1 DEF Agree
    <2>3. \A l \in 1..i : l \in 1..n
      BY <1>1, <2>1, <2>2
    <2> QED BY <1>2, <2>2, <2>3
  <1>7. Agree(x, x)
    <2> SUFFICES ASSUME NEW i \in 1..(n + 1), NEW j \in 1..(n + 1), x[i].hash = x[j].hash
                 PROVE  i = j
      BY <1>2 DEF Agree
    <2>1. \A l \in 1..n : x[l].hash # b.hash
      BY <1>2 DEF Unseen
    <2>2. CASE i \in 1..n /\ j \in 1..n
      BY <1>1, <1>2, <2>2 DEF Agree
    <2> QED BY <1>2, <1>3, <2>1, <2>2
  <1> QED BY <1>4, <1>5, <1>6, <1>7 DEF Tree

\* The exchange a node waits for: a locator that ends in genesis, or a piece of a chain.
Asks(q) == q.kind = "get_headers" /\ \E k \in Nat : DOMAIN q.locator = 1..k /\ \E i \in 1..k : q.locator[i] = 0
Answers(q, w, s, e) == s \in 1..Len(w) /\ e \in 1..Len(w) /\ s <= e /\ q.headers = SubSeq(w, s + 1, e)
MailOK(q, W) ==
    \/ q = Y!NoMail
    \/ Asks(q)
    \/ q.kind = "headers" /\ \E w \in W : \E s, e : Answers(q, w, s, e)

\* All chains are of one tree that has no unused hash, and all mail speaks of it.
SyncOK(W, ch, un, ml) ==
    /\ Tree(W) /\ un \subseteq 1..MaxHash /\ \A h \in un : Unseen(W, h)
    /\ DOMAIN ch = Nodes /\ \A n \in Nodes : ch[n] \in W
    /\ DOMAIN ml = Nodes /\ \A n \in Nodes : MailOK(ml[n], W)

SyncInv == \E W : SyncOK(W, chain, unused, mail)

LEMMA SyncStart == ASSUME SyncConfig, Y!Init PROVE SyncInv
  <1> DEFINE g == <<Y!Genesis>>
  <1>1. Y!Genesis \in Block /\ Y!Genesis.hash = 0
    BY DEF Y!Genesis, Block
  <1>2. g \in Seq(Block) /\ Len(g) = 1 /\ g[1] = Y!Genesis
    BY <1>1
  <1> HIDE DEF g
  <1>3. Linked(g) /\ Agree(g, g)
    <2>1. 2..1 = {} /\ 1 >= 1
      OBVIOUS
    <2>2. \A i \in 1..1 : i = 1
      OBVIOUS
    <2> QED BY <1>2, <2>1, <2>2 DEF Linked, Agree
  <1>4. Tree({g})
    BY <1>3 DEF Tree
  <1>5. ASSUME NEW h \in 1..MaxHash PROVE Unseen({g}, h)
    <2>1. h # 0 /\ \A i \in 1..1 : i = 1
      BY DEF SyncConfig
    <2> QED BY <1>1, <1>2, <2>1 DEF Unseen
  <1>6. SyncOK({g}, chain, unused, mail)
    BY <1>4, <1>5 DEF SyncOK, Y!Init, MailOK, g
  <1> QED BY <1>6 DEF SyncInv

LEMMA MailStays == ASSUME NEW W, NEW V1, W \subseteq V1, NEW q, MailOK(q, W) PROVE MailOK(q, V1)
  BY DEF MailOK

LEMMA Mined ==
    ASSUME SyncConfig, NEW W, SyncOK(W, chain, unused, mail), NEW n \in Nodes, Y!Mine(n)
    PROVE  SyncInv'
  <1>1. PICK h \in unused, s \in 1..MaxSlot :
            /\ unused' = unused \ {h} /\ mail' = mail
            /\ chain' = [chain EXCEPT ![n] =
                            Append(chain[n], [hash |-> h, parent |-> Y!Last(chain[n]).hash, slot |-> s])]
    BY DEF Y!Mine
  <1> PICK w : w = chain[n]
    OBVIOUS
  <1> PICK b : b = [hash |-> h, parent |-> Y!Last(w).hash, slot |-> s]
    OBVIOUS
  <1> PICK x : x = Append(w, b)
    OBVIOUS
  <1>2. w \in W /\ Tree(W) /\ Linked(w) /\ w \in Seq(Block) /\ Len(w) \in Nat /\ Len(w) >= 1
    BY DEF SyncOK, Tree, Linked
  <1>3. Y!Last(w) = w[Len(w)] /\ w[Len(w)] \in Block
    BY <1>2 DEF Y!Last
  <1>4. b \in Block /\ b.hash = h /\ b.parent = w[Len(w)].hash
    <2>1. h \in Nat /\ s \in Nat
      BY <1>1 DEF SyncOK, SyncConfig
    <2> QED BY <1>3, <2>1 DEF Block
  <1>5. Unseen(W, h) /\ \A i \in unused' : Unseen(W, i) /\ i # h
    BY <1>1 DEF SyncOK
  <1>6. Tree(W \cup {x})
    BY <1>2, <1>4, <1>5, TreeGrows
  <1>7. ASSUME NEW i \in unused' PROVE Unseen(W \cup {x}, i)
    <2>1. Len(x) = Len(w) + 1 /\ x[Len(w) + 1] = b /\ \A j \in 1..Len(w) : x[j] = w[j]
      BY <1>2, <1>4
    <2>2. \A j \in 1..(Len(w) + 1) : j = Len(w) + 1 \/ j \in 1..Len(w)
      BY <1>2
    <2>3. b.hash # i /\ \A j \in 1..Len(w) : w[j].hash # i
      BY <1>2, <1>4, <1>5, <1>7 DEF Unseen
    <2>4. \A j \in 1..Len(x) : x[j].hash # i
      BY <2>1, <2>2, <2>3
    <2> QED BY <1>5, <1>7, <2>4 DEF Unseen
  <1>8. chain' = [chain EXCEPT ![n] = x]
    BY <1>1
  <1>9. DOMAIN chain' = Nodes /\ \A p \in Nodes : chain'[p] \in W \cup {x}
    BY <1>8 DEF SyncOK
  <1>10. DOMAIN mail' = Nodes /\ \A p \in Nodes : MailOK(mail'[p], W \cup {x})
    <2>1. W \subseteq W \cup {x}
      OBVIOUS
    <2> QED BY <1>1, <2>1, MailStays DEF SyncOK
  <1>11. unused' \subseteq 1..MaxHash
    BY <1>1 DEF SyncOK
  <1>12. SyncOK(W \cup {x}, chain', unused', mail')
    BY <1>6, <1>7, <1>9, <1>10, <1>11 DEF SyncOK
  <1> QED BY <1>12 DEF SyncInv

LEMMA MailSent ==
    ASSUME NEW W, SyncOK(W, chain, unused, mail), NEW n \in Nodes, NEW q, MailOK(q, W),
           mail' = [mail EXCEPT ![n] = q], chain' = chain, unused' = unused
    PROVE  SyncInv'
  <1>1. DOMAIN mail' = Nodes /\ \A p \in Nodes : MailOK(mail'[p], W)
    BY DEF SyncOK
  <1>2. SyncOK(W, chain', unused', mail')
    BY <1>1 DEF SyncOK
  <1> QED BY <1>2 DEF SyncInv

LEMMA Asked ==
    ASSUME SyncConfig, NEW W, SyncOK(W, chain, unused, mail), NEW n \in Nodes, Y!OnTick(n)
    PROVE  SyncInv'
  <1> PICK c : c = chain[n]
    OBVIOUS
  <1> PICK l : l = Y!build_locator(c)
    OBVIOUS
  <1>1. Linked(c) /\ Len(c) \in Nat \ {0} /\ c[1].hash = 0
    BY DEF SyncOK, Tree, Linked, Y!Genesis
  <1>2. PICK z, g : Locates(l, c, z, g)
    BY <1>1, LocatorIs
  <1>3. z + 1 \in Nat /\ DOMAIN l = 1..(z + 1) /\ z + 1 \in 1..(z + 1) /\ (z + 1) - 1 = z
    BY <1>1, <1>2 DEF Locates
  <1>4. l[z + 1] = 0
    BY <1>1, <1>2, <1>3 DEF Locates
  <1> PICK q : q = [kind |-> "get_headers", locator |-> l]
    OBVIOUS
  <1>5. MailOK(q, W)
    <2>1. q.kind = "get_headers" /\ q.locator = l
      OBVIOUS
    <2> QED BY <1>3, <1>4, <2>1 DEF MailOK, Asks
  <1>6. mail' = [mail EXCEPT ![n] = q] /\ chain' = chain /\ unused' = unused
    BY DEF Y!OnTick
  <1> QED BY <1>5, <1>6, MailSent

LEMMA Served ==
    ASSUME SyncConfig, NEW W, SyncOK(W, chain, unused, mail), NEW n \in Nodes, NEW p \in Nodes, Y!Serve(n, p)
    PROVE  SyncInv'
  <1> PICK d : d = chain[p]
    OBVIOUS
  <1> PICK r : r = mail[n]
    OBVIOUS
  <1>1. d \in W /\ Linked(d) /\ d \in Seq(Block) /\ Len(d) \in Nat /\ Len(d) >= 1 /\ d[1].hash = 0
    BY DEF SyncOK, Tree, Linked, Y!Genesis
  <1>2. Asks(r)
    <2>1. MailOK(r, W) /\ r.kind = "get_headers"
      BY DEF SyncOK, Y!Serve
    <2>2. Y!NoMail.kind = "none"
      BY DEF Y!NoMail
    <2> QED BY <2>1, <2>2 DEF MailOK
  <1>3. PICK k \in Nat : DOMAIN r.locator = 1..k /\ \E i \in 1..k : r.locator[i] = 0
    BY <1>2 DEF Asks
  <1>4. Located(d, r.locator, k)
    <2>1. OnChain(d, 0)
      BY <1>1 DEF OnChain
    <2> QED BY <1>3, <2>1 DEF Located
  <1>5. PICK f, s, e : Answer(d, r.locator, k, max_headers, f, s, e)
    BY <1>1, <1>4, SelectIs DEF SyncConfig
  <1> PICK hs : hs = Y!select_headers_for_locator(d, r.locator, max_headers)
    OBVIOUS
  <1> PICK q : q = [kind |-> "headers", headers |-> hs]
    OBVIOUS
  <1>6. MailOK(q, W)
    <2>1. q.kind = "headers" /\ q.headers = hs
      OBVIOUS
    <2>2. s \in 1..Len(d) /\ e \in 1..Len(d) /\ s <= e /\ hs = SubSeq(d, s + 1, e)
      BY <1>1, <1>5 DEF Answer
    <2>3. Answers(q, d, s, e)
      BY <2>1, <2>2 DEF Answers
    <2> QED BY <1>1, <2>1, <2>3 DEF MailOK
  <1>7. mail' = [mail EXCEPT ![n] = q] /\ chain' = chain /\ unused' = unused
    BY DEF Y!Serve
  <1> QED BY <1>6, <1>7, MailSent

LEMMA PieceIs ==
    ASSUME NEW B, NEW d \in Seq(B), NEW s \in Nat, NEW e \in Nat, s <= e, e <= Len(d)
    PROVE  /\ SubSeq(d, s + 1, e) \in Seq(B) /\ Len(SubSeq(d, s + 1, e)) = e - s
           /\ \A i \in 1..(e - s) : SubSeq(d, s + 1, e)[i] = d[s + i]
  OBVIOUS

LEMMA SamePieces ==
    ASSUME NEW B, NEW x \in Seq(B), NEW y \in Seq(B), Len(y) = Len(x), \A i \in 1..Len(x) : y[i] = x[i]
    PROVE  y = x
  OBVIOUS

Pieces(B, p, q, x, m, n) ==
    /\ p \in Seq(B) /\ q \in Seq(B) /\ x \in Seq(B)
    /\ m <= n /\ Len(p) = m /\ Len(q) = n - m /\ Len(x) = n
    /\ \A l \in 1..m : p[l] = x[l]
    /\ \A l \in 1..(n - m) : q[l] = x[m + l]

LEMMA Inside ==
    ASSUME NEW m \in Nat, NEW n \in Nat, NEW l \in 1..n, l \notin 1..m
    PROVE  l - m \in 1..(n - m) /\ m + (l - m) = l /\ l > m
  OBVIOUS

LEMMA PiecesJoin ==
    ASSUME NEW B, NEW p, NEW q, NEW x, NEW m \in Nat, NEW n \in Nat, Pieces(B, p, q, x, m, n)
    PROVE  p \o q = x
  <1>1. p \in Seq(B) /\ q \in Seq(B) /\ x \in Seq(B) /\ Len(p) = m /\ Len(q) = n - m /\ Len(x) = n /\ m <= n
    BY DEF Pieces
  <1> PICK y : y = p \o q
    OBVIOUS
  <1>2. y \in Seq(B) /\ Len(y) = Len(p) + Len(q)
    <2>1. p \in Seq(B) /\ q \in Seq(B)
      BY <1>1
    <2>2. (p \o q) \in Seq(B) /\ Len(p \o q) = Len(p) + Len(q)
      BY ONLY <2>1, ConcatProperties
    <2> QED BY <2>2
  <1>3. \A l \in 1..(Len(p) + Len(q)) : y[l] = IF l <= Len(p) THEN p[l] ELSE q[l - Len(p)]
    BY <1>1
  <1>4. Len(y) = n
    BY <1>1, <1>2
  <1>5. \A l \in 1..n : y[l] = IF l <= m THEN p[l] ELSE q[l - m]
    BY <1>1, <1>2, <1>3, <1>4
  <1>6. ASSUME NEW l \in 1..n PROVE y[l] = x[l]
    <2>1. CASE l \in 1..m
      <3>1. l <= m
        BY <2>1
      <3> QED BY <1>5, <2>1, <3>1 DEF Pieces
    <2>2. CASE l \notin 1..m
      <3>1. l - m \in 1..(n - m) /\ m + (l - m) = l /\ l > m
        BY <2>2, Inside
      <3>2. ~(l <= m)
        BY <3>1
      <3> QED BY <1>5, <3>1, <3>2 DEF Pieces
    <2> QED BY <2>1, <2>2
  <1> QED BY <1>1, <1>2, <1>4, <1>6, SamePieces

LEMMA Ends ==
    ASSUME NEW len \in Nat, NEW s \in 1..len, NEW e \in 1..len, s < e
    PROVE  /\ s \in Nat /\ e \in Nat /\ s <= e /\ e <= len /\ 1 \in 1..(e - s)
           /\ s + 1 \in 2..len /\ (s + 1) - 1 = s
  OBVIOUS

\* Headers that follow a block of w, joined to the same block of c, are w again.
Joins(c, w, s, e, i) ==
    /\ Pair(c, w) /\ s \in 1..Len(w) /\ e \in 1..Len(w) /\ s < e
    /\ i \in 1..Len(c) /\ c[i].hash = w[s].hash

Rejoined(c, w, s, e, i) == SubSeq(c, 1, i) \o SubSeq(w, s + 1, e) = SubSeq(w, 1, e)

LEMMA JoinIsPrefix ==
    ASSUME NEW c, NEW w, NEW s, NEW e, NEW i, Joins(c, w, s, e, i)
    PROVE  Rejoined(c, w, s, e, i)
  <1>1. c \in Seq(Block) /\ w \in Seq(Block) /\ Len(c) \in Nat /\ Len(w) \in Nat
    BY DEF Joins, Pair, Linked
  <1>0. s \in 1..Len(w) /\ e \in 1..Len(w) /\ s < e /\ i \in 1..Len(c) /\ s \in Nat /\ e \in Nat
    BY <1>1 DEF Joins
  <1>2. i = s /\ \A l \in 1..s : c[l] = w[l]
    BY DEF Joins, Pair, Agree
  <1> PICK p : p = SubSeq(c, 1, i)
    OBVIOUS
  <1> PICK q : q = SubSeq(w, s + 1, e)
    OBVIOUS
  <1> PICK x : x = SubSeq(w, 1, e)
    OBVIOUS
  <1>3. p \in Seq(Block) /\ Len(p) = s /\ \A l \in 1..s : p[l] = c[l]
    BY <1>0, <1>1, <1>2
  <1>4. q \in Seq(Block) /\ Len(q) = e - s /\ \A l \in 1..(e - s) : q[l] = w[s + l]
    <2>1. s <= e /\ e <= Len(w)
      BY <1>0, <1>1
    <2> QED BY <1>0, <1>1, <2>1, PieceIs
  <1>5. x \in Seq(Block) /\ Len(x) = e /\ \A l \in 1..e : x[l] = w[l]
    BY <1>0, <1>1
  <1>6. Pieces(Block, p, q, x, s, e)
    BY <1>0, <1>2, <1>3, <1>4, <1>5 DEF Pieces
  <1>7. p \o q = x
    BY <1>0, <1>6, PiecesJoin
  <1> QED BY <1>7 DEF Rejoined

CutAt(c, x, m) ==
    /\ c \in Seq(Block) /\ x \in Seq(Block) /\ m \in 1..Len(c) /\ m \in 1..Len(x)
    /\ \A l \in 1..m : c[l] = x[l]

LEMMA CutAndJoined ==
    ASSUME NEW c, NEW x, NEW m, CutAt(c, x, m)
    PROVE  SubSeq(c, 1, m) \o SubSeq(x, m + 1, Len(x)) = x
  <1>0. /\ c \in Seq(Block) /\ x \in Seq(Block) /\ m \in 1..Len(c) /\ m \in 1..Len(x) /\ m \in Nat
        /\ \A l \in 1..m : c[l] = x[l]
    BY DEF CutAt
  <1> PICK n \in Nat : n = Len(x)
    BY <1>0
  <1> PICK p : p = SubSeq(c, 1, m)
    OBVIOUS
  <1> PICK q : q = SubSeq(x, m + 1, n)
    OBVIOUS
  <1>1. p \in Seq(Block) /\ Len(p) = m /\ \A l \in 1..m : p[l] = c[l]
    BY <1>0
  <1>2. q \in Seq(Block) /\ Len(q) = n - m /\ \A l \in 1..(n - m) : q[l] = x[m + l]
    <2>1. m <= n /\ n <= Len(x)
      BY <1>0
    <2> QED BY <1>0, <2>1, PieceIs
  <1>3. Pieces(Block, p, q, x, m, n)
    <2>1. m <= n
      BY <1>0
    <2>2. \A l \in 1..m : p[l] = x[l]
      BY <1>0, <1>1
    <2> QED BY <1>0, <1>1, <1>2, <2>1, <2>2 DEF Pieces
  <1> QED BY <1>0, <1>3, PiecesJoin

LEMMA EmptyIsRefused ==
    ASSUME NEW c PROVE ~Y!maxvalid_bg(c, <<>>, k_finality, window_slots)
  <1> DEFINE T == {i \in DOMAIN c \cap DOMAIN <<>> : \A j \in 1..i : c[j].hash = <<>>[j].hash}
  <1>1. T = {}
    OBVIOUS
  <1>2. Y!common_prefix_len(c, <<>>) = Y!Cardinality(T)
    BY Zenon DEF Y!common_prefix_len
  <1> HIDE DEF T
  <1>3. Y!common_prefix_len(c, <<>>) = 0
    BY <1>1, <1>2, SyncSize, FS_EmptySet
  <1>4. ~(0 > 0)
    OBVIOUS
  <1> QED BY <1>3, <1>4, Zenon DEF Y!maxvalid_bg

LEMMA HeadersApplied ==
    ASSUME SyncConfig, NEW W, SyncOK(W, chain, unused, mail), NEW n \in Nodes, Y!OnHeaders(n)
    PROVE  SyncInv'
  <1> PICK c : c = chain[n]
    OBVIOUS
  <1> PICK x : x = Y!candidate(n)
    OBVIOUS
  <1>1. /\ mail[n].kind = "headers" /\ mail' = [mail EXCEPT ![n] = Y!NoMail] /\ unused' = unused
        /\ IF Y!maxvalid_bg(c, x, k_finality, window_slots)
           THEN chain' = [chain EXCEPT ![n] = SubSeq(c, 1, Y!common_prefix_len(c, x)) \o Y!missing_hashes(c, x)]
           ELSE chain' = chain
    BY DEF Y!OnHeaders
  <1>2. MailOK(Y!NoMail, W)
    BY DEF MailOK
  <1>3. CASE ~Y!maxvalid_bg(c, x, k_finality, window_slots)
    <2>1. chain' = chain
      BY <1>1, <1>3
    <2> QED BY <1>1, <1>2, <2>1, MailSent
  <1>4. CASE Y!maxvalid_bg(c, x, k_finality, window_slots)
    <2> PICK hs : hs = mail[n].headers
      OBVIOUS
    <2>1. PICK w, s, e : w \in W /\ Answers(mail[n], w, s, e)
      <3>1. Y!NoMail.kind = "none"
        BY DEF Y!NoMail
      <3> QED BY <1>1, <3>1 DEF SyncOK, MailOK, Asks
    <2>2. s \in 1..Len(w) /\ e \in 1..Len(w) /\ s <= e /\ hs = SubSeq(w, s + 1, e)
      BY <2>1 DEF Answers
    <2>3. Pair(c, w) /\ Linked(w) /\ w \in Seq(Block) /\ c \in Seq(Block) /\ Len(c) \in Nat /\ Len(w) \in Nat
      <3>1. Tree(W) /\ c \in W
        BY DEF SyncOK
      <3>2. Pair(c, w)
        BY <2>1, <3>1, TreePair
      <3> QED BY <3>2 DEF Pair, Linked
    <2> DEFINE joint == Y!position(c, hs[1].parent)
    <2>4. x = IF hs = <<>> \/ joint = {} THEN <<>> ELSE SubSeq(c, 1, CHOOSE i \in joint : TRUE) \o hs
      <3>1. x = IF mail[n].headers = <<>> \/ Y!position(chain[n], mail[n].headers[1].parent) = {} THEN <<>>
                ELSE SubSeq(chain[n], 1, CHOOSE i \in Y!position(chain[n], mail[n].headers[1].parent) : TRUE)
                         \o mail[n].headers
        BY Zenon DEF Y!candidate
      <3> QED BY <3>1
    <2>5. x # <<>>
      BY <1>4, EmptyIsRefused
    <2>6. hs # <<>> /\ joint # {}
      BY <2>4, <2>5
    <2>7. PICK i \in joint : x = SubSeq(c, 1, i) \o hs
      <3> HIDE DEF joint
      <3> QED BY <2>4, <2>6
    <2>8. i \in 1..Len(c) /\ c[i].hash = hs[1].parent
      BY <2>3, <2>7 DEF Y!position
    <2>9. s < e
      <3> SUFFICES ASSUME s = e PROVE FALSE
        BY <2>2, <2>3
      <3>1. hs = <<>>
        BY <2>2, <2>3
      <3> QED BY <2>6, <3>1
    <2>10. c[i].hash = w[s].hash
      <3>1. hs[1] = w[s + 1] /\ s + 1 \in 2..Len(w) /\ (s + 1) - 1 = s
        <4>1. s \in Nat /\ e \in Nat /\ s <= e /\ e <= Len(w) /\ 1 \in 1..(e - s) /\ s + 1 \in 2..Len(w)
              /\ (s + 1) - 1 = s
          BY <2>2, <2>3, <2>9, Ends
        <4> QED BY <2>2, <2>3, <4>1, PieceIs
      <3> QED BY <2>3, <2>8, <3>1 DEF Linked
    <2>11. x = SubSeq(w, 1, e)
      <3>1. Joins(c, w, s, e, i)
        BY <2>2, <2>3, <2>8, <2>9, <2>10 DEF Joins
      <3>2. Rejoined(c, w, s, e, i)
        BY <3>1, JoinIsPrefix
      <3> QED BY <2>2, <2>7, <3>2 DEF Rejoined
    <2>12. Linked(x) /\ Len(x) = e /\ (\A l \in 1..e : x[l] = w[l]) /\ Follower(x, w) /\ x \in Seq(Block)
      <3>1. Linked(x) /\ Len(x) = e /\ (\A l \in 1..e : x[l] = w[l]) /\ Follower(x, w)
        BY <2>2, <2>3, <2>11, PrefixAgrees
      <3> QED BY <3>1 DEF Linked
    <2> PICK m : m = Y!common_prefix_len(c, x)
      OBVIOUS
    <2>13. Fork(c, x, m)
      <3>1. Pair(c, x)
        BY <2>3, <2>12 DEF Pair, Follower
      <3> QED BY <3>1, ForkExists
    <2>14. chain' = [chain EXCEPT ![n] = x]
      <3>1. m \in 1..Len(c) /\ m \in 1..Len(x) /\ \A l \in 1..m : c[l] = x[l]
        BY <2>13 DEF Fork
      <3>2. SubSeq(c, 1, m) \o SubSeq(x, m + 1, Len(x)) = x
        <4>1. CutAt(c, x, m)
          BY <2>3, <2>12, <3>1 DEF CutAt
        <4> QED BY ONLY <4>1, CutAndJoined
      <3>3. Y!missing_hashes(c, x) = SubSeq(x, m + 1, Len(x))
        BY Zenon DEF Y!missing_hashes
      <3> QED BY <1>1, <1>4, <3>2, <3>3
    <2> PICK U : U = W \cup {x}
      OBVIOUS
    <2>15. Tree(U)
      BY <2>1, <2>2, <2>11, TreePrefix DEF SyncOK
    <2>16. ASSUME NEW h \in unused' PROVE Unseen(U, h)
      <3>1. Unseen(W, h)
        BY <1>1 DEF SyncOK
      <3>2. \A l \in 1..e : l \in 1..Len(w)
        BY <2>2, <2>3
      <3>3. \A l \in 1..Len(x) : x[l].hash # h
        BY <2>1, <2>12, <3>1, <3>2 DEF Unseen
      <3> QED BY <3>1, <3>3 DEF Unseen
    <2>17. DOMAIN chain' = Nodes /\ \A p \in Nodes : chain'[p] \in U
      BY <2>14 DEF SyncOK
    <2>18. DOMAIN mail' = Nodes /\ \A p \in Nodes : MailOK(mail'[p], U)
      <3>1. W \subseteq U
        OBVIOUS
      <3>2. DOMAIN mail' = Nodes /\ \A p \in Nodes : MailOK(mail'[p], W)
        BY <1>1, <1>2 DEF SyncOK
      <3> QED BY <3>1, <3>2, MailStays
    <2>19. unused' \subseteq 1..MaxHash
      BY <1>1 DEF SyncOK
    <2>20. SyncOK(U, chain', unused', mail')
      BY <2>15, <2>16, <2>17, <2>18, <2>19 DEF SyncOK
    <2> QED BY <2>20 DEF SyncInv
  <1> QED BY <1>3, <1>4

LEMMA SyncStep == ASSUME SyncConfig, SyncInv, [Y!Next]_Y!vars PROVE SyncInv'
  <1>1. PICK W : SyncOK(W, chain, unused, mail)
    BY DEF SyncInv
  <1>2. CASE chain' = chain /\ unused' = unused /\ mail' = mail
    <2>1. SyncOK(W, chain', unused', mail')
      BY <1>1, <1>2, Zenon
    <2> QED BY <2>1 DEF SyncInv
  <1>3. CASE UNCHANGED Y!vars
    BY <1>2, <1>3 DEF Y!vars
  <1>4. ASSUME NEW n \in Nodes, Y!MarkCaughtUp(n) \/ Y!TriggerResync(n) PROVE SyncInv'
    BY <1>2, <1>4 DEF Y!MarkCaughtUp, Y!TriggerResync
  <1>5. ASSUME NEW n \in Nodes, Y!Mine(n) PROVE SyncInv'
    BY <1>1, <1>5, Mined
  <1>6. ASSUME NEW n \in Nodes, Y!OnTick(n) PROVE SyncInv'
    BY <1>1, <1>6, Asked
  <1>7. ASSUME NEW n \in Nodes, Y!OnHeaders(n) PROVE SyncInv'
    BY <1>1, <1>7, HeadersApplied
  <1>8. ASSUME NEW n \in Nodes, NEW p \in Nodes, Y!Serve(n, p) PROVE SyncInv'
    BY <1>1, <1>8, Served
  <1> QED BY <1>3, <1>4, <1>5, <1>6, <1>7, <1>8 DEF Y!Next

LEMMA SyncPart == ASSUME SyncConfig PROVE Spec => [](focus = "sync" => SyncInv)
  <1> DEFINE I == focus = "sync" => SyncInv
  <1>1. Init => I
    BY SyncStart DEF Init
  <1>2. ASSUME I, [Next]_vars PROVE I'
    <2>1. focus' = focus
      BY <1>2 DEF Next, vars
    <2>2. CASE focus = "sync"
      <3>1. [Y!Next]_Y!vars
        BY <1>2, <2>2 DEF Next, vars, Y!vars
      <3> QED BY <1>2, <2>2, <3>1, SyncStep
    <2> QED BY <2>1, <2>2
  <1> QED BY <1>1, <1>2, PTL DEF Spec

LEMMA SyncPairs ==
    ASSUME SyncInv, NEW n \in Nodes, NEW p \in Nodes
    PROVE  Pair(chain[n], chain[p]) /\ Pair(chain[p], chain[n])
  BY TreePair DEF SyncInv, SyncOK

\* A locator finds the fork of any two nodes: the answer holds all that the client misses,
\* joins its chain, and repeats no more blocks than the client has past the fork
\* (build_locator, select_headers_for_locator): for chains of any length, however they were
\* mined, exchanged and replaced, and for any number of dense entries.
THEOREM ForkIsFound == ASSUME SyncConfig PROVE Spec => []LocatorFindsFork
  <1>1. ASSUME SyncInv PROVE Y!LocatorFindsFork
    <2> SUFFICES ASSUME NEW n \in Nodes, NEW p \in Nodes,
                        NEW hs, hs = Y!select_headers_for_locator(chain[p], Y!build_locator(chain[n]), Len(chain[p])),
                        NEW missing, missing = Y!missing_hashes(chain[n], chain[p])
                 PROVE  /\ Y!IsSuffix(missing, hs)
                        /\ hs = <<>> \/ Y!position(chain[n], hs[1].parent) # {}
                        /\ Len(hs) - Len(missing) <= Len(chain[n]) - Y!common_prefix_len(chain[n], chain[p])
      BY DEF Y!LocatorFindsFork
    <2>1. Pair(chain[n], chain[p])
      BY <1>1, SyncPairs
    <2> QED BY <2>1, ForkFound
  <1>2. (focus = "sync" => SyncInv) => LocatorFindsFork
    BY <1>1 DEF LocatorFindsFork
  <1> QED BY <1>2, SyncPart, PTL

\* Two nodes swap chains exactly when their fork is shallow for the one and deep for the
\* other and the shorter branch is the denser one; in a fork shallow for one of them at
\* least one takes the other's chain (maxvalid_bg, longer_chain): for any chains of one
\* tree, any finality depth and any density window.
THEOREM WhenTwoSwap == ASSUME SyncConfig PROVE Spec => []SwapsExact
  <1>1. ASSUME SyncInv PROVE Y!SwapsExact
    <2>1. ASSUME NEW n \in Nodes, NEW p \in Nodes
          PROVE  WhoTakes(chain[n], chain[p], Y!common_prefix_len(chain[n], chain[p]),
                          chain[n][Y!common_prefix_len(chain[n], chain[p])].slot)
      <3>1. Pair(chain[n], chain[p]) /\ Pair(chain[p], chain[n])
        BY <1>1, SyncPairs
      <3> QED BY <3>1, OneTakes, Zenon
    <2> QED BY ONLY <2>1 DEF Y!SwapsExact, WhoTakes
  <1>2. (focus = "sync" => SyncInv) => SwapsExact
    BY <1>1 DEF SwapsExact
  <1> QED BY <1>2, SyncPart, PTL

-------------------------------------------------------------------------------
(* Key-evolving signatures.                                                  *)

sk == x1
file == x2
signed == x3

USE DEF sk, file, signed

KesConfig == KES_TREE_DEPTH \in Nat

\* The recursive functions of module Kes, at every place of their domains.
Doubles(g) == g = [d \in 0..KES_TREE_DEPTH |-> IF d = 0 THEN 1 ELSE 2 * g[d - 1]]
Layered(g) == g = [d \in 0..KES_TREE_DEPTH |-> IF d = 0 THEN K!leaves ELSE K!next_layer(g[d - 1])]
Halves(g, i) == g = [d \in 0..KES_TREE_DEPTH |-> IF d = 0 THEN i ELSE g[d - 1] \div 2]
Climbs(g, h, i, path) ==
    g = [d \in 0..Len(path) |-> IF d = 0 THEN [index |-> i, hash |-> h] ELSE K!climb(g[d - 1], path[d])]

LEMMA DoublesExists == ASSUME KesConfig PROVE \E g : Doubles(g)
  <1> PICK m \in Nat : m = KES_TREE_DEPTH
    BY DEF KesConfig
  <1> DEFINE step == [n \in 1..m |-> [a \in Nat |-> 2 * a]]
  <1>1. step \in [1..m -> [Nat -> Nat]] /\ \A n \in 1..m, a \in Nat : step[n][a] = 2 * a
    OBVIOUS
  <1> HIDE DEF step
  <1>2. PICK f : Follows(f, Nat, 1, m, step)
    BY <1>1, Iterates DEF Stepwise
  <1>4. ASSUME NEW n \in 0..m PROVE f[n] = IF n = 0 THEN 1 ELSE 2 * f[n - 1]
    <2>1. CASE n = 0
      BY <1>2, <2>1 DEF Follows
    <2>2. CASE n # 0
      <3>1. n \in 1..m /\ f[n - 1] \in Nat /\ f[n] = step[n][f[n - 1]]
        <4>1. n \in 1..m /\ n - 1 \in 0..m
          BY <2>2
        <4> QED BY <1>2, <4>1 DEF Follows
      <3>2. f[n] = 2 * f[n - 1]
        BY <1>1, <3>1
      <3> QED BY <2>2, <3>2
    <2> QED BY <2>1, <2>2
  <1>5. Doubles(f)
    BY <1>2, <1>4 DEF Follows, Doubles
  <1> QED BY <1>5

LEMMA PowerIs == ASSUME KesConfig PROVE Doubles(K!power)
  BY DoublesExists, Zenon DEF K!power, Doubles

LEMMA HalvesExists == ASSUME KesConfig, NEW i \in Nat PROVE \E g : Halves(g, i)
  <1> PICK m \in Nat : m = KES_TREE_DEPTH
    BY DEF KesConfig
  <1> DEFINE step == [n \in 1..m |-> [a \in Nat |-> a \div 2]]
  <1>0. \A a \in Nat : a \div 2 \in Nat
    OBVIOUS
  <1>1. step \in [1..m -> [Nat -> Nat]] /\ \A n \in 1..m, a \in Nat : step[n][a] = a \div 2
    BY <1>0
  <1> HIDE DEF step
  <1>2. PICK f : Follows(f, Nat, i, m, step)
    BY <1>1, Iterates DEF Stepwise
  <1>4. ASSUME NEW n \in 0..m PROVE f[n] = IF n = 0 THEN i ELSE f[n - 1] \div 2
    <2>1. CASE n = 0
      BY <1>2, <2>1 DEF Follows
    <2>2. CASE n # 0
      <3>1. n \in 1..m /\ f[n - 1] \in Nat /\ f[n] = step[n][f[n - 1]]
        <4>1. n \in 1..m /\ n - 1 \in 0..m
          BY <2>2
        <4> QED BY <1>2, <4>1 DEF Follows
      <3>2. f[n] = f[n - 1] \div 2
        BY <1>1, <3>1
      <3> QED BY <2>2, <3>2
    <2> QED BY <2>1, <2>2
  <1>5. Halves(f, i)
    BY <1>2, <1>4 DEF Follows, Halves
  <1> QED BY <1>5

LEMMA IndicesAre == ASSUME KesConfig, NEW i \in Nat PROVE Halves(K!indices(i), i)
  BY HalvesExists, Zenon DEF K!indices, Halves

LEMMA LayeredExists == ASSUME KesConfig PROVE \E g : Layered(g)
  <1> PICK m \in Nat : m = KES_TREE_DEPTH
    BY DEF KesConfig
  <1> DEFINE Upto(g, k) == g = [d \in 0..k |-> IF d = 0 THEN K!leaves ELSE K!next_layer(g[d - 1])]
             ok == {k \in Nat : \E g : Upto(g, k)}
  <1>1. 0 \in ok
    <2> PICK g : g = [d \in 0..0 |-> K!leaves]
      OBVIOUS
    <2>1. Upto(g, 0)
      OBVIOUS
    <2> HIDE DEF Upto
    <2> QED BY <2>1
  <1>2. ASSUME NEW k \in Nat, k \in ok PROVE k + 1 \in ok
    <2>1. PICK g : Upto(g, k)
      BY <1>2
    <2> PICK f : f = [d \in 0..(k + 1) |-> IF d = k + 1 THEN K!next_layer(g[k]) ELSE g[d]]
      OBVIOUS
    <2>2. ASSUME NEW d \in 0..(k + 1) PROVE f[d] = IF d = 0 THEN K!leaves ELSE K!next_layer(f[d - 1])
      <3>1. CASE d = k + 1
        <4>1. d # 0 /\ d - 1 = k /\ k # k + 1 /\ k \in 0..(k + 1)
          BY <3>1
        <4>2. f[k] = g[k] /\ f[d] = K!next_layer(g[k])
          BY <3>1, <4>1
        <4> QED BY <4>1, <4>2
      <3>2. CASE d # k + 1
        <4>1. d \in 0..k /\ (d # 0 => d - 1 \in 0..(k + 1) /\ d - 1 # k + 1)
          BY <3>2
        <4>2. f[d] = g[d] /\ (d # 0 => f[d - 1] = g[d - 1])
          BY <3>2, <4>1
        <4>3. g[d] = IF d = 0 THEN K!leaves ELSE K!next_layer(g[d - 1])
          BY <2>1, <4>1
        <4> QED BY <4>2, <4>3
      <3> QED BY <3>1, <3>2
    <2>3. Upto(f, k + 1)
      BY <2>2
    <2> HIDE DEF Upto
    <2> QED BY <2>3
  <1>3. Nat \subseteq ok
    <2> HIDE DEF ok
    <2> QED BY <1>1, <1>2, NatSetInduction
  <1>4. \E g : Upto(g, m)
    <2> HIDE DEF Upto
    <2> QED BY <1>3
  <1> QED BY <1>4 DEF Layered

LEMMA LayersAre == ASSUME KesConfig PROVE Layered(K!layers)
  BY LayeredExists, Zenon DEF K!layers, Layered

LEMMA ClimbsExists == ASSUME NEW h, NEW i, NEW path, Len(path) \in Nat PROVE \E g : Climbs(g, h, i, path)
  <1> PICK m \in Nat : m = Len(path)
    OBVIOUS
  <1> PICK b : b = [index |-> i, hash |-> h]
    OBVIOUS
  <1> DEFINE Upto(g, k) == g = [d \in 0..k |-> IF d = 0 THEN b ELSE K!climb(g[d - 1], path[d])]
             ok == {k \in Nat : \E g : Upto(g, k)}
  <1>1. 0 \in ok
    <2> PICK g : g = [d \in 0..0 |-> b]
      OBVIOUS
    <2>1. Upto(g, 0)
      OBVIOUS
    <2> HIDE DEF Upto
    <2> QED BY <2>1
  <1>2. ASSUME NEW k \in Nat, k \in ok PROVE k + 1 \in ok
    <2>1. PICK g : Upto(g, k)
      BY <1>2
    <2> PICK f : f = [d \in 0..(k + 1) |-> IF d = k + 1 THEN K!climb(g[k], path[k + 1]) ELSE g[d]]
      OBVIOUS
    <2>2. ASSUME NEW d \in 0..(k + 1) PROVE f[d] = IF d = 0 THEN b ELSE K!climb(f[d - 1], path[d])
      <3>1. CASE d = k + 1
        <4>1. d # 0 /\ d - 1 = k /\ k # k + 1 /\ k \in 0..(k + 1)
          BY <3>1
        <4>2. f[k] = g[k] /\ f[d] = K!climb(g[k], path[k + 1])
          BY <3>1, <4>1
        <4> QED BY <4>1, <4>2
      <3>2. CASE d # k + 1
        <4>1. d \in 0..k /\ (d # 0 => d - 1 \in 0..(k + 1) /\ d - 1 # k + 1)
          BY <3>2
        <4>2. f[d] = g[d] /\ (d # 0 => f[d - 1] = g[d - 1])
          BY <3>2, <4>1
        <4>3. g[d] = IF d = 0 THEN b ELSE K!climb(g[d - 1], path[d])
          BY <2>1, <4>1
        <4> QED BY <4>2, <4>3
      <3> QED BY <3>1, <3>2
    <2>3. Upto(f, k + 1)
      BY <2>2
    <2> HIDE DEF Upto
    <2> QED BY <2>3
  <1>3. Nat \subseteq ok
    <2> HIDE DEF ok
    <2> QED BY <1>1, <1>2, NatSetInduction
  <1>4. \E g : Upto(g, m)
    <2> HIDE DEF Upto
    <2> QED BY <1>3
  <1> QED BY <1>4 DEF Climbs

LEMMA RootIs ==
    ASSUME NEW h, NEW i, NEW path, Len(path) \in Nat
    PROVE  \E g : Climbs(g, h, i, path) /\ K!merkle_root_from_path(h, i, path) = g[Len(path)].hash
  <1> PICK g : g = CHOOSE f : Climbs(f, h, i, path)
    OBVIOUS
  <1>1. Climbs(g, h, i, path)
    BY ClimbsExists, Zenon
  <1>2. K!merkle_root_from_path(h, i, path) = g[Len(path)].hash
    BY DEF K!merkle_root_from_path, Climbs
  <1> QED BY <1>1, <1>2

LEMMA FunctionLength ==
    ASSUME NEW n \in Nat, NEW f, f = [i \in 1..n |-> f[i]]
    PROVE  Len(f) = n
  <1> PICK r : r = {f[i] : i \in 1..n}
    OBVIOUS
  <1>1. f \in [1..n -> r]
    OBVIOUS
  <1>2. f \in Seq(r)
    BY <1>1
  <1> QED BY <1>1, <1>2

LEMMA PowerStep ==
    ASSUME KesConfig
    PROVE  /\ K!power[0] = 1 /\ K!KES_TOTAL_PERIODS = K!power[KES_TREE_DEPTH]
           /\ \A d \in 1..KES_TREE_DEPTH : K!power[d] = 2 * K!power[d - 1]
           /\ \A d \in 0..KES_TREE_DEPTH : K!power[d] \in Nat \ {0}
  <1> PICK m \in Nat : m = KES_TREE_DEPTH
    BY DEF KesConfig
  <1> PICK g : g = K!power
    OBVIOUS
  <1>1. g = [d \in 0..m |-> IF d = 0 THEN 1 ELSE 2 * g[d - 1]]
    BY PowerIs DEF Doubles
  <1>2. \A d \in 0..m : g[d] = IF d = 0 THEN 1 ELSE 2 * g[d - 1]
    BY <1>1, Zenon
  <1>3. g[0] = 1 /\ \A d \in 1..m : g[d] = 2 * g[d - 1]
    BY <1>2
  <1> DEFINE ok == {k \in Nat : k <= m => g[k] \in Nat \ {0}}
  <1>4. 0 \in ok
    BY <1>3
  <1>5. ASSUME NEW k \in Nat, k \in ok PROVE k + 1 \in ok
    <2> SUFFICES ASSUME k + 1 <= m PROVE g[k + 1] \in Nat \ {0}
      OBVIOUS
    <2>1. k + 1 \in 1..m /\ (k + 1) - 1 = k /\ g[k] \in Nat \ {0}
      BY <1>5
    <2>2. g[k + 1] = 2 * g[k]
      BY <1>3, <2>1
    <2> QED BY <2>1, <2>2
  <1>6. Nat \subseteq ok
    <2> HIDE DEF ok
    <2> QED BY <1>4, <1>5, NatSetInduction
  <1>7. \A d \in 0..m : g[d] \in Nat \ {0}
    BY <1>6
  <1> QED BY <1>3, <1>7 DEF K!KES_TOTAL_PERIODS

\* A layer is half as wide as the one below.
Wide(layer, n) == n \in Nat /\ layer = [i \in 1..n |-> layer[i]]

LEMMA LayerStep ==
    ASSUME NEW layer, NEW n \in Nat, Wide(layer, 2 * n)
    PROVE  /\ Wide(K!next_layer(layer), n)
           /\ \A i \in 1..n : K!next_layer(layer)[i] = K!internal_node_hash(layer[2 * i - 1], layer[2 * i])
  <1> PICK x : x = K!next_layer(layer)
    OBVIOUS
  <1>1. Len(layer) = 2 * n
    BY FunctionLength DEF Wide
  <1>2. (2 * n) \div 2 = n
    OBVIOUS
  <1>3. x = [i \in 1..n |-> K!internal_node_hash(layer[2 * i - 1], layer[2 * i])]
    BY <1>1, <1>2 DEF K!next_layer
  <1>4. \A i \in 1..n : x[i] = K!internal_node_hash(layer[2 * i - 1], layer[2 * i])
    BY <1>3
  <1>5. x = [i \in 1..n |-> x[i]]
    BY <1>3
  <1> QED BY <1>4, <1>5 DEF Wide

LEMMA LayersHalve ==
    ASSUME KesConfig
    PROVE  /\ K!layers[0] = K!leaves
           /\ \A d \in 1..KES_TREE_DEPTH : K!layers[d] = K!next_layer(K!layers[d - 1])
           /\ \A d \in 0..KES_TREE_DEPTH : Wide(K!layers[d], K!power[KES_TREE_DEPTH - d])
  <1> PICK m \in Nat : m = KES_TREE_DEPTH
    BY DEF KesConfig
  <1> PICK g : g = K!layers
    OBVIOUS
  <1> PICK p : p = K!power
    OBVIOUS
  <1>1. g = [d \in 0..m |-> IF d = 0 THEN K!leaves ELSE K!next_layer(g[d - 1])]
    BY LayersAre DEF Layered
  <1>2. \A d \in 0..m : g[d] = IF d = 0 THEN K!leaves ELSE K!next_layer(g[d - 1])
    BY <1>1, Zenon
  <1>3. g[0] = K!leaves /\ \A d \in 1..m : g[d] = K!next_layer(g[d - 1])
    BY <1>2
  <1>4. /\ K!KES_TOTAL_PERIODS = p[m] /\ \A d \in 1..m : p[d] = 2 * p[d - 1]
        /\ \A d \in 0..m : p[d] \in Nat \ {0}
    BY PowerStep
  <1> DEFINE ok == {k \in Nat : k <= m => Wide(g[k], p[m - k])}
  <1>5. 0 \in ok
    <2>1. m - 0 = m /\ p[m] \in Nat
      BY <1>4
    <2>2. K!leaves = [i \in 1..p[m] |-> K!leaf_pk_hash(K!derive_leaf_seed(i - 1))]
      BY <1>4 DEF K!leaves
    <2>3. K!leaves = [i \in 1..p[m] |-> K!leaves[i]]
      BY <2>2
    <2> QED BY <1>3, <2>1, <2>3 DEF Wide
  <1>6. ASSUME NEW k \in Nat, k \in ok PROVE k + 1 \in ok
    <2> SUFFICES ASSUME k + 1 <= m PROVE Wide(g[k + 1], p[m - (k + 1)])
      OBVIOUS
    <2>1. k + 1 \in 1..m /\ (k + 1) - 1 = k /\ Wide(g[k], p[m - k])
      BY <1>6
    <2>2. m - k \in 1..m /\ (m - k) - 1 = m - (k + 1) /\ m - (k + 1) \in 0..m
      OBVIOUS
    <2> PICK n : n = p[m - (k + 1)]
      OBVIOUS
    <2>3. n \in Nat /\ p[m - k] = 2 * n
      BY <1>4, <2>2
    <2>4. g[k + 1] = K!next_layer(g[k])
      BY <1>3, <2>1
    <2> QED BY <2>1, <2>3, <2>4, LayerStep
  <1>7. Nat \subseteq ok
    <2> HIDE DEF ok
    <2> QED BY <1>5, <1>6, NatSetInduction
  <1>8. \A d \in 0..m : Wide(g[d], p[m - d])
    BY <1>7
  <1> QED BY <1>3, <1>8

LEMMA IndicesHalve ==
    ASSUME KesConfig, NEW i \in Nat, i < K!KES_TOTAL_PERIODS
    PROVE  /\ K!indices(i)[0] = i
           /\ \A d \in 1..KES_TREE_DEPTH : K!indices(i)[d] = K!indices(i)[d - 1] \div 2
           /\ \A d \in 0..KES_TREE_DEPTH :
                K!indices(i)[d] \in Nat /\ K!indices(i)[d] < K!power[KES_TREE_DEPTH - d]
  <1> PICK m \in Nat : m = KES_TREE_DEPTH
    BY DEF KesConfig
  <1> PICK g : g = K!indices(i)
    OBVIOUS
  <1> PICK p : p = K!power
    OBVIOUS
  <1>1. g = [d \in 0..m |-> IF d = 0 THEN i ELSE g[d - 1] \div 2]
    BY IndicesAre DEF Halves
  <1>2. \A d \in 0..m : g[d] = IF d = 0 THEN i ELSE g[d - 1] \div 2
    BY <1>1, Zenon
  <1>3. g[0] = i /\ \A d \in 1..m : g[d] = g[d - 1] \div 2
    BY <1>2
  <1>4. /\ K!KES_TOTAL_PERIODS = p[m] /\ \A d \in 1..m : p[d] = 2 * p[d - 1]
        /\ \A d \in 0..m : p[d] \in Nat \ {0}
    BY PowerStep
  <1> DEFINE ok == {k \in Nat : k <= m => g[k] \in Nat /\ g[k] < p[m - k]}
  <1>5. 0 \in ok
    BY <1>3, <1>4
  <1>6. ASSUME NEW k \in Nat, k \in ok PROVE k + 1 \in ok
    <2> SUFFICES ASSUME k + 1 <= m PROVE g[k + 1] \in Nat /\ g[k + 1] < p[m - (k + 1)]
      OBVIOUS
    <2>1. k + 1 \in 1..m /\ (k + 1) - 1 = k /\ g[k] \in Nat /\ g[k] < p[m - k]
      BY <1>6
    <2>2. m - k \in 1..m /\ (m - k) - 1 = m - (k + 1) /\ m - (k + 1) \in 0..m
      OBVIOUS
    <2> PICK n : n = p[m - (k + 1)]
      OBVIOUS
    <2> PICK x : x = g[k]
      OBVIOUS
    <2>3. n \in Nat /\ p[m - k] = 2 * n
      BY <1>4, <2>2
    <2>4. g[k + 1] = x \div 2
      BY <1>3, <2>1
    <2>5. x \in Nat /\ x < 2 * n
      BY <2>1, <2>3
    <2>6. x \div 2 \in Nat /\ x \div 2 < n
      BY ONLY <2>3, <2>5
    <2> QED BY <2>4, <2>6
  <1>7. Nat \subseteq ok
    <2> HIDE DEF ok
    <2> QED BY <1>5, <1>6, NatSetInduction
  <1>8. \A d \in 0..m : g[d] \in Nat /\ g[d] < p[m - d]
    BY <1>7
  <1> QED BY <1>3, <1>8

LEMMA Parity ==
    ASSUME NEW x \in Nat, NEW y, y = x \div 2
    PROVE  /\ y \in Nat
           /\ x % 2 = 0 => 2 * (1 + y) - 1 = 1 + x /\ 2 * (1 + y) = 1 + (x + 1)
           /\ x % 2 # 0 => 2 * (1 + y) - 1 = 1 + (x - 1) /\ 2 * (1 + y) = 1 + x
  OBVIOUS

\* One step up: a node and its sibling hash to the node above.
LEMMA ClimbStep ==
    ASSUME NEW layer, NEW n \in Nat, Wide(layer, 2 * n), NEW x \in Nat, x < 2 * n,
           NEW node, node.index = x, node.hash = layer[1 + x]
    PROVE  /\ K!climb(node, layer[1 + K!sibling(x)]).index = x \div 2
           /\ K!climb(node, layer[1 + K!sibling(x)]).hash = K!next_layer(layer)[1 + (x \div 2)]
  <1> PICK y : y = x \div 2
    OBVIOUS
  <1> PICK s : s = layer[1 + K!sibling(x)]
    OBVIOUS
  <1>1. /\ y \in Nat
        /\ x % 2 = 0 => 2 * (1 + y) - 1 = 1 + x /\ 2 * (1 + y) = 1 + (x + 1)
        /\ x % 2 # 0 => 2 * (1 + y) - 1 = 1 + (x - 1) /\ 2 * (1 + y) = 1 + x
    BY Parity
  <1>2. 1 + y \in 1..n
    BY <1>1
  <1>3. K!next_layer(layer)[1 + y] = K!internal_node_hash(layer[2 * (1 + y) - 1], layer[2 * (1 + y)])
    BY <1>2, LayerStep
  <1>4. K!climb(node, s).index = y
    BY DEF K!climb
  <1>5. K!climb(node, s).hash = IF x % 2 = 0 THEN K!internal_node_hash(layer[1 + x], s)
                                ELSE K!internal_node_hash(s, layer[1 + x])
    BY DEF K!climb
  <1>6. CASE x % 2 = 0
    <2>1. s = layer[1 + (x + 1)]
      BY <1>6 DEF K!sibling
    <2> QED BY <1>1, <1>3, <1>4, <1>5, <1>6, <2>1
  <1>7. CASE x % 2 # 0
    <2>1. s = layer[1 + (x - 1)]
      BY <1>7 DEF K!sibling
    <2> QED BY <1>1, <1>3, <1>4, <1>5, <1>7, <2>1
  <1> QED BY <1>6, <1>7

LEMMA PathVerifies ==
    ASSUME KesConfig, NEW i \in Nat, i < K!KES_TOTAL_PERIODS
    PROVE  /\ Len(K!merkle_path_for(i)) = KES_TREE_DEPTH
           /\ K!merkle_root_from_path(K!leaf_pk_hash(K!derive_leaf_seed(i)), i, K!merkle_path_for(i))
                = K!merkle_root_from_leaves
  <1> PICK m \in Nat : m = KES_TREE_DEPTH
    BY DEF KesConfig
  <1> PICK lay : lay = K!layers
    OBVIOUS
  <1> PICK p : p = K!power
    OBVIOUS
  <1> PICK idx : idx = K!indices(i)
    OBVIOUS
  <1> PICK q : q = K!merkle_path_for(i)
    OBVIOUS
  <1> PICK h : h = K!leaf_pk_hash(K!derive_leaf_seed(i))
    OBVIOUS
  <1>1. p[0] = 1 /\ K!KES_TOTAL_PERIODS = p[m] /\ (\A d \in 1..m : p[d] = 2 * p[d - 1]) /\ \A d \in 0..m : p[d] \in Nat \ {0}
    BY PowerStep
  <1>2. lay[0] = K!leaves /\ (\A d \in 1..m : lay[d] = K!next_layer(lay[d - 1])) /\ \A d \in 0..m : Wide(lay[d], p[m - d])
    BY LayersHalve
  <1>3. idx[0] = i /\ (\A d \in 1..m : idx[d] = idx[d - 1] \div 2) /\ \A d \in 0..m : idx[d] \in Nat /\ idx[d] < p[m - d]
    BY IndicesHalve
  <1>4. q = [d \in 1..m |-> lay[d - 1][1 + K!sibling(idx[d - 1])]]
    BY DEF K!merkle_path_for
  <1>5. Len(q) = m
    <2>1. q = [d \in 1..m |-> q[d]]
      BY <1>4
    <2> QED BY <2>1, FunctionLength
  <1>6. PICK g : Climbs(g, h, i, q) /\ K!merkle_root_from_path(h, i, q) = g[m].hash
    BY <1>5, RootIs
  <1>7. \A d \in 0..m : g[d] = IF d = 0 THEN [index |-> i, hash |-> h] ELSE K!climb(g[d - 1], q[d])
    <2>1. g = [d \in 0..m |-> IF d = 0 THEN [index |-> i, hash |-> h] ELSE K!climb(g[d - 1], q[d])]
      BY <1>5, <1>6 DEF Climbs
    <2> QED BY <2>1, Zenon
  <1> DEFINE At(k) == g[k].index = idx[k] /\ g[k].hash = lay[k][1 + idx[k]]
             ok == {k \in Nat : k <= m => At(k)}
  <1>8. 0 \in ok
    <2>1. g[0] = [index |-> i, hash |-> h]
      BY <1>7
    <2>2. 1 + i \in 1..p[m] /\ (1 + i) - 1 = i
      BY <1>1
    <2>3. K!leaves[1 + i] = h
      BY <1>1, <2>2 DEF K!leaves
    <2>4. At(0)
      BY <1>2, <1>3, <2>1, <2>3
    <2> HIDE DEF At
    <2> QED BY <2>4
  <1>9. ASSUME NEW k \in Nat, k \in ok PROVE k + 1 \in ok
    <2> SUFFICES ASSUME k + 1 <= m PROVE At(k + 1)
      OBVIOUS
    <2>1. k + 1 \in 1..m /\ k + 1 \in 0..m /\ k + 1 # 0 /\ (k + 1) - 1 = k /\ k \in 0..m /\ At(k)
      BY <1>9
    <2>2. m - k \in 1..m /\ (m - k) - 1 \in 0..m
      OBVIOUS
    <2> PICK n : n = p[(m - k) - 1]
      OBVIOUS
    <2> PICK x : x = idx[k]
      OBVIOUS
    <2> PICK layer : layer = lay[k]
      OBVIOUS
    <2>3. n \in Nat /\ p[m - k] = 2 * n
      BY <1>1, <2>2
    <2>4. x \in Nat /\ x < 2 * n /\ Wide(layer, 2 * n)
      BY <1>2, <1>3, <2>1, <2>3
    <2>5. g[k + 1] = K!climb(g[k], layer[1 + K!sibling(x)])
      <3>1. q[k + 1] = lay[k][1 + K!sibling(idx[k])]
        BY <1>4, <2>1
      <3> QED BY <1>7, <2>1, <3>1
    <2>6. idx[k + 1] = x \div 2 /\ lay[k + 1] = K!next_layer(layer)
      BY <1>2, <1>3, <2>1
    <2> PICK node : node = g[k]
      OBVIOUS
    <2>7. node.index = x /\ node.hash = layer[1 + x]
      BY <2>1
    <2>8. /\ K!climb(node, layer[1 + K!sibling(x)]).index = x \div 2
          /\ K!climb(node, layer[1 + K!sibling(x)]).hash = K!next_layer(layer)[1 + (x \div 2)]
      BY <2>3, <2>4, <2>7, ClimbStep
    <2> QED BY <2>5, <2>6, <2>8
  <1>10. Nat \subseteq ok
    <2> HIDE DEF ok
    <2> QED BY <1>8, <1>9, NatSetInduction
  <1>11. At(m)
    <2> HIDE DEF At
    <2> QED BY <1>10
  <1>12. idx[m] = 0
    BY <1>1, <1>3
  <1>13. K!merkle_root_from_leaves = lay[m][1]
    BY DEF K!merkle_root_from_leaves
  <1> QED BY <1>5, <1>6, <1>11, <1>12, <1>13

\* A key at a period: the seeds of the periods before it are gone, the others are there.
Evolved(k) ==
    /\ k.period \in 0..K!KES_TOTAL_PERIODS
    /\ DOMAIN k.leaf_seeds = 1..K!KES_TOTAL_PERIODS
    /\ \A i \in 1..K!KES_TOTAL_PERIODS :
         k.leaf_seeds[i] = IF i <= k.period THEN K!Zeroed ELSE K!derive_leaf_seed(i - 1)

Leaf(p, msg) ==
    [period |-> p, leaf_pk |-> K!derive_leaf_seed(p),
     leaf_signature |-> [by |-> K!derive_leaf_seed(p), period |-> p, msg |-> msg],
     merkle_path |-> K!merkle_path_for(p)]

Proper(s) == \E p \in Nat : p < K!KES_TOTAL_PERIODS /\ s.sig = Leaf(p, s.msg) /\ s.floor <= p

OnFile(f) == f.kind = "ok" => f.kes_period \in 0..K!KES_TOTAL_PERIODS
KeptInStep(k, f) == k = K!Down \/ (Evolved(k) /\ (f.kind = "ok" => f.kes_period <= k.period))

\* The key in memory is the one of its period, not before the period on file, and every
\* signature is one that such a key made.
KesInv == KeptInStep(sk, file) /\ OnFile(file) /\ \A s \in signed : Proper(s)

LEMMA PeriodsCount == ASSUME KesConfig PROVE K!KES_TOTAL_PERIODS \in Nat \ {0}
  BY PowerStep DEF KesConfig

LEMMA Asleep == ASSUME KesConfig, NEW k, Evolved(k) PROVE k # K!Down
  <1>1. K!Down.period = -1
    BY DEF K!Down
  <1>2. k.period # -1
    BY PeriodsCount DEF Evolved
  <1> QED BY <1>1, <1>2

LEMMA SignedLeaf ==
    ASSUME KesConfig, NEW k, Evolved(k), ~K!is_exhausted(k), NEW msg
    PROVE  k.period \in Nat /\ k.period < K!KES_TOTAL_PERIODS /\ K!kes_sign(k, msg) = Leaf(k.period, msg)
  <1> PICK t : t = K!KES_TOTAL_PERIODS
    OBVIOUS
  <1> PICK p : p = k.period
    OBVIOUS
  <1>1. t \in Nat /\ p \in 0..t /\ ~(p >= t)
    BY PeriodsCount DEF Evolved, K!is_exhausted
  <1>2. p \in Nat /\ p < t /\ p + 1 \in 1..t /\ ~(p + 1 <= p) /\ (p + 1) - 1 = p
    BY <1>1
  <1>3. k.leaf_seeds[p + 1] = K!derive_leaf_seed(p)
    BY <1>2 DEF Evolved
  <1>4. K!kes_sign(k, msg) = Leaf(p, msg)
    BY <1>3 DEF K!kes_sign, Leaf
  <1> QED BY <1>2, <1>4

LEMMA EvolvedOn ==
    ASSUME KesConfig, NEW k, Evolved(k), ~K!is_exhausted(k)
    PROVE  Evolved(K!kes_evolve(k)) /\ K!kes_evolve(k).period = k.period + 1
  <1> PICK t : t = K!KES_TOTAL_PERIODS
    OBVIOUS
  <1> PICK p : p = k.period
    OBVIOUS
  <1> PICK seeds : seeds = k.leaf_seeds
    OBVIOUS
  <1> PICK e : e = K!kes_evolve(k)
    OBVIOUS
  <1>1. t \in Nat /\ p \in 0..t /\ ~(p >= t)
    BY PeriodsCount DEF Evolved, K!is_exhausted
  <1>2. e.period = p + 1 /\ e.leaf_seeds = [seeds EXCEPT ![p + 1] = K!Zeroed]
    BY DEF K!kes_evolve
  <1>3. p + 1 \in 0..t /\ p + 1 \in 1..t
    BY <1>1
  <1>4. DOMAIN seeds = 1..t /\ \A i \in 1..t : seeds[i] = IF i <= p THEN K!Zeroed ELSE K!derive_leaf_seed(i - 1)
    BY DEF Evolved
  <1>5. DOMAIN e.leaf_seeds = 1..t
    BY <1>2, <1>4
  <1>6. ASSUME NEW i \in 1..t
        PROVE  e.leaf_seeds[i] = IF i <= p + 1 THEN K!Zeroed ELSE K!derive_leaf_seed(i - 1)
    <2>1. CASE i = p + 1
      BY <1>1, <1>2, <1>3, <1>4, <2>1
    <2>2. CASE i # p + 1
      <3>1. e.leaf_seeds[i] = seeds[i]
        BY <1>2, <1>4, <2>2
      <3>2. i <= p <=> i <= p + 1
        BY <1>1, <2>2
      <3> QED BY <1>4, <3>1, <3>2
    <2> QED BY <2>1, <2>2
  <1>7. Evolved(e)
    BY <1>2, <1>3, <1>5, <1>6 DEF Evolved
  <1> QED BY <1>2, <1>7

LEMMA Generated == ASSUME KesConfig PROVE Evolved(K!generate)
  <1> PICK t : t = K!KES_TOTAL_PERIODS
    OBVIOUS
  <1> PICK e : e = K!generate
    OBVIOUS
  <1>1. t \in Nat
    BY PeriodsCount
  <1>2. e.period = 0 /\ e.leaf_seeds = [i \in 1..t |-> K!derive_leaf_seed(i - 1)]
    BY DEF K!generate
  <1>3. 0 \in 0..t /\ \A i \in 1..t : ~(i <= 0)
    BY <1>1
  <1> QED BY <1>2, <1>3 DEF Evolved

LEMMA Reloaded ==
    ASSUME NEW f, f.kind = "ok", OnFile(f)
    PROVE  Evolved(K!load_encrypted(f)) /\ K!load_encrypted(f).period = f.kes_period
  <1> PICK t : t = K!KES_TOTAL_PERIODS
    OBVIOUS
  <1> PICK e : e = K!load_encrypted(f)
    OBVIOUS
  <1>1. /\ e.period = f.kes_period
        /\ e.leaf_seeds = [i \in 1..t |-> IF i <= f.kes_period THEN K!Zeroed ELSE K!derive_leaf_seed(i - 1)]
    BY DEF K!load_encrypted
  <1> QED BY <1>1 DEF Evolved, OnFile

LEMMA KesStart == ASSUME K!Init PROVE KesInv
  <1>1. K!Absent.kind = "absent"
    BY DEF K!Absent
  <1> QED BY <1>1 DEF K!Init, KesInv, KeptInStep, OnFile

LEMMA KesStep == ASSUME KesConfig, KesInv, [K!Next]_K!vars PROVE KesInv'
  <1> PICK t : t = K!KES_TOTAL_PERIODS
    OBVIOUS
  <1>0. t \in Nat /\ t # 0
    BY PeriodsCount
  <1>1. ASSUME KeptInStep(sk', file'), OnFile(file'), signed' = signed PROVE KesInv'
    BY <1>1 DEF KesInv
  <1>2. CASE UNCHANGED K!vars
    BY <1>2 DEF K!vars, KesInv
  <1>3. CASE K!Generate
    <2>1. file.kind = "absent"
      BY <1>3 DEF K!Generate, K!Absent
    <2>2. sk' = K!generate /\ file' = file /\ signed' = signed
      BY <1>3 DEF K!Generate
    <2> QED BY <1>1, <2>1, <2>2, Generated DEF KeptInStep, KesInv
  <1>4. ASSUME NEW msg, K!Sign(msg) PROVE KesInv'
    <2> PICK floor : floor = IF file.kind = "ok" THEN file.kes_period ELSE 0
      OBVIOUS
    <2> PICK s : s = [sig |-> K!kes_sign(sk, msg), msg |-> msg, floor |-> floor]
      OBVIOUS
    <2>1. /\ sk # K!Down /\ ~K!is_exhausted(sk) /\ signed' = signed \cup {s}
          /\ sk' = sk /\ file' = file
      BY <1>4 DEF K!Sign
    <2>2. Evolved(sk) /\ (file.kind = "ok" => file.kes_period <= sk.period)
      BY <2>1 DEF KesInv, KeptInStep
    <2>3. sk.period \in Nat /\ sk.period < K!KES_TOTAL_PERIODS /\ K!kes_sign(sk, msg) = Leaf(sk.period, msg)
      BY <2>1, <2>2, SignedLeaf
    <2>4. s.sig = Leaf(sk.period, s.msg) /\ s.floor = floor
      BY <2>3
    <2>5. floor <= sk.period
      BY <2>2, <2>3
    <2>6. Proper(s)
      BY <2>3, <2>4, <2>5 DEF Proper
    <2> QED BY <2>1, <2>6 DEF KesInv
  <1>5. CASE K!RotateKes
    <2>1. sk # K!Down /\ ~K!is_exhausted(sk) /\ sk' = K!kes_evolve(sk) /\ file' = file /\ signed' = signed
      BY <1>5 DEF K!RotateKes
    <2>2. Evolved(sk) /\ (file.kind = "ok" => file.kes_period <= sk.period) /\ OnFile(file)
      BY <2>1 DEF KesInv, KeptInStep
    <2>3. Evolved(sk') /\ sk'.period = sk.period + 1
      BY <2>1, <2>2, EvolvedOn
    <2>4. file.kind = "ok" => file.kes_period <= sk'.period
      BY <1>0, <2>2, <2>3 DEF Evolved, OnFile
    <2> QED BY <1>1, <2>1, <2>2, <2>3, <2>4 DEF KeptInStep
  <1>6. ASSUME NEW pw, K!SaveEncrypted(pw) PROVE KesInv'
    <2>1. sk # K!Down /\ sk' = sk /\ signed' = signed /\ file' = K!Stored(pw, sk.period)
      BY <1>6 DEF K!SaveEncrypted
    <2>2. file'.kes_period = sk.period
      BY <2>1 DEF K!Stored
    <2>3. Evolved(sk)
      BY <2>1 DEF KesInv, KeptInStep
    <2> QED BY <1>0, <1>1, <2>1, <2>2, <2>3 DEF KeptInStep, OnFile, Evolved
  <1>7. CASE K!CrashInSave
    <2>1. sk' = K!Down /\ file' = K!TornFile /\ signed' = signed
      BY <1>7 DEF K!CrashInSave
    <2>2. file'.kind = "torn"
      BY <2>1 DEF K!TornFile
    <2> QED BY <1>1, <2>1, <2>2 DEF KeptInStep, OnFile
  <1>8. CASE K!Stop
    <2>1. sk' = K!Down /\ file' = file /\ signed' = signed
      BY <1>8 DEF K!Stop
    <2> QED BY <1>1, <2>1 DEF KeptInStep, KesInv
  <1>9. ASSUME NEW pw, K!Load(pw) PROVE KesInv'
    <2>1. file.kind = "ok" /\ sk' = K!load_encrypted(file) /\ file' = file /\ signed' = signed
      BY <1>9 DEF K!Load
    <2>2. OnFile(file)
      BY DEF KesInv
    <2>3. Evolved(sk') /\ sk'.period = file.kes_period
      BY <2>1, <2>2, Reloaded
    <2> QED BY <1>0, <1>1, <2>1, <2>2, <2>3 DEF KeptInStep, OnFile
  <1>10. ASSUME NEW old, NEW new, K!ChangePassword(old, new) PROVE KesInv'
    <2>1. file.kind = "ok" /\ file' = K!Stored(new, file.kes_period) /\ sk' = sk /\ signed' = signed
      BY <1>10 DEF K!ChangePassword
    <2>2. file'.kind = "ok" /\ file'.kes_period = file.kes_period
      BY <2>1 DEF K!Stored
    <2> QED BY <1>1, <2>1, <2>2 DEF KeptInStep, OnFile, KesInv
  <1> QED BY <1>2, <1>3, <1>4, <1>5, <1>6, <1>7, <1>8, <1>9, <1>10 DEF K!Next

LEMMA Verifies ==
    ASSUME KesConfig, NEW s, Proper(s)
    PROVE  /\ K!kes_verify(s.sig, s.msg)
           /\ \A p \in K!Periods, m \in Headers :
                K!kes_verify([s.sig EXCEPT !.period = p], m) => p = s.sig.period /\ m = s.msg
           /\ s.sig.period >= s.floor
  <1>1. PICK q \in Nat : q < K!KES_TOTAL_PERIODS /\ s.sig = Leaf(q, s.msg) /\ s.floor <= q
    BY DEF Proper
  <1> PICK g : g = s.sig
    OBVIOUS
  <1> PICK seed : seed = K!derive_leaf_seed(q)
    OBVIOUS
  <1>2. g.period = q /\ g.leaf_pk = seed /\ g.leaf_signature = [by |-> seed, period |-> q, msg |-> s.msg]
        /\ g.merkle_path = K!merkle_path_for(q)
    BY <1>1 DEF Leaf
  <1>3. /\ Len(K!merkle_path_for(q)) = KES_TREE_DEPTH
        /\ K!merkle_root_from_path(K!leaf_pk_hash(seed), q, K!merkle_path_for(q)) = K!merkle_root_from_leaves
    BY <1>1, PathVerifies
  <1>4. K!kes_verify(g, s.msg)
    BY <1>1, <1>2, <1>3 DEF K!kes_verify, K!public_key
  <1>5. ASSUME NEW p, NEW m, NEW f, f = [g EXCEPT !.period = p], K!kes_verify(f, m)
        PROVE  p = q /\ m = s.msg
    <2>1. g = Leaf(q, s.msg)
      BY <1>1
    <2>2. f.period = p /\ f.leaf_pk = seed /\ f.leaf_signature = [by |-> seed, period |-> q, msg |-> s.msg]
      BY <1>5, <2>1 DEF Leaf
    <2>3. [by |-> seed, period |-> q, msg |-> s.msg] = [by |-> seed, period |-> p, msg |-> m]
      BY <1>5, <2>2 DEF K!kes_verify
    <2> QED BY <2>3
  <1> QED BY <1>1, <1>2, <1>4, <1>5

\* Every signature of an evolving key verifies, for its own period and message only, and is
\* not older than the period on file; a key in memory cannot sign for a period that is over
\* (sign, verify, evolve, merkle_path_for, load_encrypted): for a tree of any depth, and
\* through rotations, crashes, restarts and new passwords.
THEOREM EveryPeriodSigns == ASSUME KesConfig PROVE Spec => []SignaturesExact
  <1> DEFINE I == focus = "kes" => KesInv
  <1>1. Init => I
    BY KesStart DEF Init
  <1>2. ASSUME I, [Next]_vars PROVE I'
    <2>1. focus' = focus
      BY <1>2 DEF Next, vars
    <2>2. CASE focus = "kes"
      <3>1. [K!Next]_K!vars
        BY <1>2, <2>2 DEF Next, vars, K!vars
      <3> QED BY <1>2, <2>2, <3>1, KesStep
    <2> QED BY <2>1, <2>2
  <1>3. I => SignaturesExact
    <2>1. ASSUME KesInv PROVE K!SignaturesExact
      <3>1. \A s \in signed :
              /\ K!kes_verify(s.sig, s.msg)
              /\ \A p \in K!Periods, m \in Headers :
                   K!kes_verify([s.sig EXCEPT !.period = p], m) => p = s.sig.period /\ m = s.msg
              /\ s.sig.period >= s.floor
        BY <2>1, Verifies DEF KesInv
      <3>2. ASSUME sk # K!Down, NEW p \in K!Periods
            PROVE  sk.leaf_seeds[p + 1] = K!derive_leaf_seed(p) <=> p >= sk.period
        <4> PICK t : t = K!KES_TOTAL_PERIODS
          OBVIOUS
        <4>1. Evolved(sk) /\ t \in Nat
          BY <2>1, <3>2, PeriodsCount DEF KesInv, KeptInStep
        <4>2. p \in 0..(t - 1) /\ p + 1 \in 1..t /\ (p + 1) - 1 = p /\ sk.period \in 0..t
          BY <4>1 DEF K!Periods, Evolved
        <4>3. sk.leaf_seeds[p + 1] = IF p + 1 <= sk.period THEN K!Zeroed ELSE K!derive_leaf_seed(p)
          BY <4>1, <4>2 DEF Evolved
        <4>4. p + 1 <= sk.period <=> ~(p >= sk.period)
          BY <4>1, <4>2
        <4>5. K!Zeroed # K!derive_leaf_seed(p)
          BY <4>1, <4>2 DEF K!Zeroed, K!derive_leaf_seed
        <4> QED BY <4>3, <4>4, <4>5
      <3> QED BY <3>1, <3>2 DEF K!SignaturesExact
    <2> QED BY <2>1 DEF SignaturesExact
  <1> QED BY <1>1, <1>2, <1>3, PTL DEF Spec

==============================================================================
