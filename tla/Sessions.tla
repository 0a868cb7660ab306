------------------------------- MODULE Sessions -------------------------------
(* The hybrid handshake of qv-net and what NetworkNode::run remembers of its *)
(* peers: per peer a connection state, a direction, a reputation and the     *)
(* secret of the last completed handshake.  Two peers may hold several       *)
(* connections at once; both ends learn of opening and closing on their own, *)
(* and requests may be lost, late or time out.                               *)
EXTENDS Integers, FiniteSets

CONSTANTS Peers,        \* the network nodes
          Connections,  \* a connection names the request and the secret it causes too
          OldVersion,   \* peers that speak another HANDSHAKE_VERSION
          None          \* no session; no request

VARIABLES ends,      \* ends[c]: dialer and listener of connection c
          phase,     \* phase[c][n]: what end n knows of connection c
          request,   \* request[c]: the Hello caused by c, on its way out or answered
          session,   \* session[n][p]: SessionStore of n
          peers,     \* peers[n][p]: PeerStore of n
          crossed    \* history: pairs of handshakes that were under way together

vars == <<ends, phase, request, session, peers, crossed>>

Ends(c) == {ends[c].dialer, ends[c].listener}
Other(c, n) == CHOOSE p \in Ends(c) : p # n
Between(n, p) == {c \in Connections : ends[c] # None /\ Ends(c) = {n, p}}
Open(n, p) == {c \in Between(n, p) : phase[c][n] = "open"}
UnderWay == {c \in Connections : request[c] # None /\ request[c].at \in {"hello", "ack"}}

new_peer == [state |-> "Unknown", direction |-> None, reputation |-> 0]

record_failure(info) ==
    IF info.state = "Unknown" THEN info ELSE [info EXCEPT !.reputation = @ - 10]

Init ==
    /\ ends = [c \in Connections |-> None]
    /\ phase = [c \in Connections |-> [n \in Peers |-> "none"]]
    /\ request = [c \in Connections |-> None]
    /\ session = [n \in Peers |-> [p \in Peers |-> None]]
    /\ peers = [n \in Peers |-> [p \in Peers |-> new_peer]]
    /\ crossed = {}

\* The transport opens a connection; each end will be told.
Dial(a, b) ==
    \E c \in Connections :
        /\ ends[c] = None
        /\ ends' = [ends EXCEPT ![c] = [dialer |-> a, listener |-> b]]
        /\ phase' = [phase EXCEPT ![c] = [n \in Peers |-> IF n \in {a, b} THEN "opening" ELSE "none"]]
        /\ UNCHANGED <<request, session, peers, crossed>>

\* upsert keeps the direction of a peer that is known already.
upsert(info, direction) ==
    [info EXCEPT !.state = "Connected",
                 !.direction = IF info.state = "Unknown" THEN direction ELSE @]

\* The handshake by what its messages carry: a secret is named by its connection.
HANDSHAKE_VERSION(n) == IF n \in OldVersion THEN "old" ELSE "current"
make_hello(n) == [version |-> HANDSHAKE_VERSION(n), initiator_peer_id |-> n]
compute_session_binding(secret, initiator, responder) == <<secret, initiator, responder>>

\* The acknowledgement, or None.
respond_to_hello(hello, n, secret) ==
    IF hello.version # HANDSHAKE_VERSION(n) THEN None
    ELSE [version |-> HANDSHAKE_VERSION(n), responder_peer_id |-> n, ciphertext |-> secret,
          session_binding |-> compute_session_binding(secret, hello.initiator_peer_id, n)]

\* The secret, or None.
process_ack(ack, n) ==
    IF \/ ack.version # HANDSHAKE_VERSION(n)
       \/ ack.session_binding # compute_session_binding(ack.ciphertext, n, ack.responder_peer_id)
    THEN None ELSE ack.ciphertext

SendsHello(n, p, c) == ends[c].dialer = n /\ session[n][p] = None

\* The behaviour picks one of the open connections to carry the request.
ConnectionEstablished(n, c) ==
    LET p == Other(c, n) IN
    /\ ends[c] # None
    /\ n \in Ends(c)
    /\ phase[c][n] = "opening"
    /\ phase' = [phase EXCEPT ![c][n] = "open"]
    /\ peers' = [peers EXCEPT ![n][p] =
                    upsert(@, IF ends[c].dialer = n THEN "Outbound" ELSE "Inbound")]
    /\ IF SendsHello(n, p, c)
       THEN \E via \in Open(n, p) \cup {c} :
              /\ request' = [request EXCEPT ![c] = [at |-> "hello", via |-> via, waiting |-> TRUE]]
              /\ crossed' = crossed \cup {{c, d} : d \in UnderWay}
       ELSE UNCHANGED <<request, crossed>>
    /\ UNCHANGED <<ends, session>>

Carried(c) == phase[request[c].via]

SessionInsert_first_wins(n, p, c) ==
    session' = [session EXCEPT ![n][p] = IF @ = None THEN c ELSE @]
SessionInsert(n, p, c) == session' = [session EXCEPT ![n][p] = c]

\* respond_to_hello encapsulates a fresh secret; the responder keeps it before the
\* acknowledgement leaves.
HandleHello(c) ==
    LET n == ends[c].listener
        p == ends[c].dialer
    IN
    /\ request[c] # None
    /\ request[c].at = "hello"
    /\ Carried(c)[n] = "open"
    /\ IF respond_to_hello(make_hello(p), n, c) # None
       THEN /\ SessionInsert(n, p, c)
            /\ request' = [request EXCEPT ![c].at = "ack"]
            /\ UNCHANGED peers
       ELSE /\ peers' = [peers EXCEPT ![n][p] = record_failure(@)]
            /\ request' = [request EXCEPT ![c].at = "refused"]
            /\ UNCHANGED session
    /\ UNCHANGED <<ends, phase, crossed>>

\* The binding holds exactly when the initiator decapsulates the secret of the responder,
\* which an acknowledgement of this request guarantees.
HandleAck(c) ==
    LET n == ends[c].dialer
        p == ends[c].listener
    IN
    /\ request[c] # None
    /\ request[c].at = "ack"
    /\ request[c].waiting
    /\ Carried(c)[n] = "open"
    /\ SessionInsert(n, p, process_ack(respond_to_hello(make_hello(n), p, c), n))
    /\ request' = [request EXCEPT ![c] = [@ EXCEPT !.at = "done", !.waiting = FALSE]]
    /\ UNCHANGED <<ends, phase, peers, crossed>>

\* The request times out, is refused without an answer, or loses its connection.  Its
\* Hello may still arrive.
OutboundFailure(c) ==
    LET n == ends[c].dialer
        p == ends[c].listener
    IN
    /\ request[c] # None
    /\ request[c].waiting
    /\ peers' = [peers EXCEPT ![n][p] = record_failure(@)]
    /\ request' = [request EXCEPT ![c].waiting = FALSE]
    /\ UNCHANGED <<ends, phase, session, crossed>>

\* The transport loses connection c with what it carries.
Drop(c) ==
    /\ ends[c] # None
    /\ \A n \in Ends(c) : phase[c][n] = "open"
    /\ phase' = [phase EXCEPT ![c] = [n \in Peers |-> IF n \in Ends(c) THEN "closing" ELSE "none"]]
    /\ request' = [d \in Connections |->
                      IF d \in UnderWay /\ request[d].via = c
                      THEN [request[d] EXCEPT !.at = "lost"] ELSE request[d]]
    /\ UNCHANGED <<ends, session, peers, crossed>>

closed_session_kept(n, p) == session
closed_session(n, p) == [session EXCEPT ![n][p] = None]

ConnectionClosed(n, c) ==
    LET p == Other(c, n) IN
    /\ ends[c] # None
    /\ n \in Ends(c)
    /\ phase[c][n] = "closing"
    /\ phase' = [phase EXCEPT ![c][n] = "closed"]
    /\ peers' = [peers EXCEPT ![n][p].state = "Disconnected"]
    /\ session' = closed_session(n, p)
    /\ UNCHANGED <<ends, request, crossed>>

Next ==
    \/ \E a, b \in Peers : a # b /\ Dial(a, b)
    \/ \E c \in Connections :
         \/ HandleHello(c)
         \/ HandleAck(c)
         \/ OutboundFailure(c)
         \/ Drop(c)
    \/ \E c \in Connections, n \in Peers : ConnectionEstablished(n, c) \/ ConnectionClosed(n, c)

Spec == Init /\ [][Next]_vars

-------------------------------------------------------------------------------
\* Two peers that both hold a session hold the same secret, unless the handshakes of
\* the two secrets were under way together: the session inserts of respond_to_hello and
\* process_ack reach agreement whenever handshakes of a pair follow each other, whatever
\* is lost, late or timed out.
SessionsAgree ==
    \A a, b \in Peers :
        LET i == session[a][b]
            j == session[b][a]
        IN  \/ a = b \/ i = None \/ j = None
            \/ i = j
            \/ {i, j} \in crossed

\* A session secret, and the mark Connected, never outlive the last connection to the
\* peer, although a Hello or an Ack of one connection may arrive after another one of
\* the same pair has closed (ConnectionClosed in NetworkNode::run).
SessionsAreLive ==
    \A n, p \in Peers :
        session[n][p] # None \/ peers[n][p].state = "Connected"
            => \E c \in Between(n, p) : phase[c][n] \in {"open", "closing"}

===============================================================================
