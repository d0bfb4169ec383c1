------------------------------- MODULE Broker -------------------------------
(***************************************************************************)
(* The signaling broker (signaling/server.go).                             *)
(*                                                                         *)
(* Every websocket connection is served by one goroutine running           *)
(* wsHandler, plus a writePump.  A connection c is a member of Conns and is *)
(* used once; the goroutine's control point is pc[c].  The goroutines      *)
(* synchronise only through hub.mu and session.mu, so one action is one    *)
(* critical section (together with the handler-local statements around it) *)
(* and everything between two critical sections may interleave.            *)
(*                                                                         *)
(* A *session object is named after the connection whose getOrCreate        *)
(* allocated it: a handler calls getOrCreate exactly once, so the name is   *)
(* unique, and an object may outlive its entry in hub.sessions.            *)
(***************************************************************************)
EXTENDS Naturals, Sequences, FiniteSets

CONSTANTS
    Conns,                  \* websocket connections (each one dials once)
    NoConn,                 \* "no such peer / no such session object"
    Keys,                   \* (tenant, session_id) pairs: sessionKey
    KeyOf, RoleOf,          \* what a connection's URL, token and first frame name
    FirstFrames,            \* envelope types a peer writes first
    Frames,                 \* envelope types a peer writes afterwards
    SendBuffer,             \* sendBuffer: capacity of peer.send
    IceReplayMaxPerSender,  \* bound of one recentICE queue
    IceReplayMaxAge,        \* iceReplayMaxAge, in ticks of now
    CanShutDown,            \* whether the operator may stop the broker
    MaxDials,               \* bound: connections that dial
    MaxFrames,              \* bound: frames one peer writes
    MaxNow                  \* bound: last value of the clock

Roles == {"client", "browser"}

\* peerRole.other
Other(r) == IF r = "client" THEN "browser" ELSE "client"

\* "eoc" is an ice envelope whose data is null or absent (hasICEData false:
\* hello frames and end-of-candidates); "unknown" is anything not in validTypes.
validTypes == {"offer", "answer", "ice", "eoc", "bye", "request_renegotiate",
               "probe_result"}

replayableTypes == {"offer", "answer", "request_renegotiate"}

ASSUME NoConnAssumption == NoConn \notin Conns
ASSUME IdentityAssumption == KeyOf \in [Conns -> Keys] /\ RoleOf \in [Conns -> Roles]
ASSUME FramesAssumption == FirstFrames \cup Frames \subseteq validTypes \cup {"unknown"}
ASSUME SendBufferAssumption == SendBuffer \in Nat \ {0}
ASSUME IceMaxAssumption == IceReplayMaxPerSender \in Nat \ {0}
ASSUME AgeAssumption == IceReplayMaxAge \in Nat
ASSUME ShutdownAssumption == CanShutDown \in BOOLEAN
ASSUME BoundsAssumption == MaxDials \in Nat /\ MaxFrames \in Nat /\ MaxNow \in Nat

Types == validTypes \cup {"unknown", "peer_absent"}

\* An envelope: who wrote it and the how-manieth frame of that peer it was.
\* The broker's own envelopes (synthesised bye, peer_absent) have n = 0.
Message == [type : Types, from : Conns, n : Nat]

\* bufferedSDP and bufferedICE: an envelope and the time it was seen.
Entry == [m : Message, ts : Nat]

\* Control points of wsHandler and readPump, named for the step that is next.
PCs == {"idle", "register", "peerPresent", "forward", "send", "read",
        "discardOnBye", "discardOnEcho", "unregister", "receivedBye",
        "discardOnLeave", "synthesise", "dropIfEmpty", "done"}

\* Which of its three uses of forward a handler is in: the first frame, the
\* read pump (the write pump runs then), or the cleanup after it.
Stages == {"first", "pump", "cleanup"}

VARIABLES
    hub,            \* hub.sessions: Keys -> session object or NoConn
    shuttingDown,   \* hub.shuttingDown
    peers,          \* session.peers
    recent,         \* session.recent: at most one entry per type
    recentICE,      \* session.recentICE
    pc, stage,      \* control of the handler goroutine
    sess,           \* the session object the handler holds
    cur,            \* the envelope being handled
    target,         \* forward's target after the unlock
    ended,          \* wsHandler's local `ended`
    negotiated, saidBye, byeReceived,      \* the peer's flags
    queued,         \* length of peer.send
    nread,          \* frames read from the peer's socket
    now,            \* wall clock
    handed          \* history: SDP envelopes put to peer.send, or dropped there

hubVars  == <<hub, shuttingDown>>
bufVars  == <<recent, recentICE>>
flagVars == <<negotiated, saidBye, byeReceived>>
outVars  == <<queued, handed>>
vars == <<hub, shuttingDown, peers, recent, recentICE, pc, stage, sess, cur,
          target, ended, negotiated, saidBye, byeReceived, queued, nread, now,
          handed>>

TypeOK ==
    /\ hub \in [Keys -> Conns \cup {NoConn}]
    /\ shuttingDown \in BOOLEAN
    /\ peers \in [Conns -> [Roles -> Conns \cup {NoConn}]]
    /\ recent \in [Conns -> [Roles -> SUBSET Entry]]
    /\ recentICE \in [Conns -> [Roles -> Seq(Entry)]]
    /\ \A s \in Conns, r \in Roles : Len(recentICE[s][r]) <= IceReplayMaxPerSender
    /\ pc \in [Conns -> PCs]
    /\ stage \in [Conns -> Stages]
    /\ sess \in [Conns -> Conns \cup {NoConn}]
    /\ cur \in [Conns -> Message]
    /\ target \in [Conns -> Conns \cup {NoConn}]
    /\ ended \in [Conns -> BOOLEAN]
    /\ negotiated \in [Conns -> BOOLEAN]
    /\ saidBye \in [Conns -> BOOLEAN]
    /\ byeReceived \in [Conns -> BOOLEAN]
    /\ queued \in [Conns -> 0..SendBuffer]
    /\ nread \in [Conns -> Nat]
    /\ now \in Nat
    /\ handed \in [Conns -> SUBSET Message]

NoFrame(c) == [type |-> "unknown", from |-> c, n |-> 0]

Init ==
    /\ hub = [k \in Keys |-> NoConn]
    /\ shuttingDown = FALSE
    /\ peers = [s \in Conns |-> [r \in Roles |-> NoConn]]
    /\ recent = [s \in Conns |-> [r \in Roles |-> {}]]
    /\ recentICE = [s \in Conns |-> [r \in Roles |-> <<>>]]
    /\ pc = [c \in Conns |-> "idle"]
    /\ stage = [c \in Conns |-> "first"]
    /\ sess = [c \in Conns |-> NoConn]
    /\ cur = [c \in Conns |-> NoFrame(c)]
    /\ target = [c \in Conns |-> NoConn]
    /\ ended = [c \in Conns |-> FALSE]
    /\ negotiated = [c \in Conns |-> FALSE]
    /\ saidBye = [c \in Conns |-> FALSE]
    /\ byeReceived = [c \in Conns |-> FALSE]
    /\ queued = [c \in Conns |-> 0]
    /\ nread = [c \in Conns |-> 0]
    /\ now = 0
    /\ handed = [c \in Conns |-> {}]

-----------------------------------------------------------------------------
(***************************************************************************)
(* The clock and the operator (environment).                               *)
(***************************************************************************)

Tick ==
    /\ now < MaxNow
    /\ now' = now + 1
    /\ UNCHANGED <<hubVars, peers, bufVars, pc, stage, sess, cur, target,
                   ended, flagVars, outVars, nread>>

\* main() on SIGTERM: the flag is set before srv.Shutdown.
Shutdown ==
    /\ CanShutDown /\ ~shuttingDown
    /\ shuttingDown' = TRUE
    /\ UNCHANGED <<hub, peers, bufVars, pc, stage, sess, cur, target,
                   ended, flagVars, outVars, nread, now>>

-----------------------------------------------------------------------------
(***************************************************************************)
(* Joining.                                                                *)
(***************************************************************************)

MayDial(c) == pc[c] = "idle" /\ Cardinality({d \in Conns : pc[d] # "idle"}) < MaxDials

\* A connection that is refused before it touches the hub: a bad path, no or
\* a malformed first frame, a bad token, a revoked one.
Reject(c) ==
    /\ MayDial(c)
    /\ pc' = [pc EXCEPT ![c] = "done"]
    /\ UNCHANGED <<hubVars, peers, bufVars, stage, sess, cur, target, ended,
                   flagVars, outVars, nread, now>>

\* Seeded fault: sessions are looked up by session_id, not by (tenant, session_id).
GetOrCreateAnyTenant(c, t) ==
    /\ MayDial(c)
    /\ nread' = [nread EXCEPT ![c] = 1]
    /\ cur' = [cur EXCEPT ![c] = [type |-> t, from |-> c, n |-> 1]]
    /\ LET k == IF \E j \in Keys : hub[j] # NoConn
                  THEN CHOOSE j \in Keys : hub[j] # NoConn ELSE KeyOf[c]
           s == IF hub[k] = NoConn THEN c ELSE hub[k]
       IN  hub' = [hub EXCEPT ![k] = s] /\ sess' = [sess EXCEPT ![c] = s]
    /\ pc' = [pc EXCEPT ![c] = "register"]
    /\ UNCHANGED <<shuttingDown, peers, bufVars, stage, target, ended, flagVars,
                   outVars, now>>

\* The first frame of type t is read (its `from` is the role, the token's
\* subject the tenant); then hub.getOrCreate, under hub.mu.
GetOrCreate(c, t) ==
    /\ MayDial(c)
    /\ nread' = [nread EXCEPT ![c] = 1]
    /\ cur' = [cur EXCEPT ![c] = [type |-> t, from |-> c, n |-> 1]]
    /\ LET k == KeyOf[c]
           s == IF hub[k] = NoConn THEN c ELSE hub[k]
       IN  hub' = [hub EXCEPT ![k] = s] /\ sess' = [sess EXCEPT ![c] = s]
    /\ pc' = [pc EXCEPT ![c] = "register"]
    /\ UNCHANGED <<shuttingDown, peers, bufVars, stage, target, ended, flagVars,
                   outVars, now>>

IsFresh(e) == now - e.ts <= IceReplayMaxAge

\* What register replays to a peer that joins opposite role r, past the age cap
\* nothing: the SDP, then the candidates.
SdpReplay(s, r) == {e \in recent[s][r] : IsFresh(e)}

IceReplay(s, r) == {i \in DOMAIN recentICE[s][r] : IsFresh(recentICE[s][r][i])}

\* Seeded fault: a channel without a capacity.
FillUnbounded(q, n) == q + n

\* n non-blocking sends to a channel that holds q: what does not fit is dropped.
Fill(q, n) == IF q + n <= SendBuffer THEN q + n ELSE SendBuffer

\* Seeded fault: a joining peer is replayed nothing (the broker before T96).
RegisterWithoutReplay(c) ==
    /\ pc[c] = "register"
    /\ peers[sess[c]][RoleOf[c]] = NoConn
    /\ peers' = [peers EXCEPT ![sess[c]][RoleOf[c]] = c]
    /\ pc' = [pc EXCEPT ![c] = "peerPresent"]
    /\ UNCHANGED <<hubVars, bufVars, stage, sess, cur, target, ended, flagVars,
                   outVars, nread, now>>

\* session.register, under session.mu.  Stale SDP is deleted as it is skipped.
RegisterOk(c) ==
    /\ pc[c] = "register"
    /\ peers[sess[c]][RoleOf[c]] = NoConn
    /\ LET s == sess[c]
           o == Other(RoleOf[c])
       IN  /\ peers' = [peers EXCEPT ![s][RoleOf[c]] = c]
           /\ queued' = [queued EXCEPT ![c] =
                            Fill(0, Cardinality(SdpReplay(s, o)) + Cardinality(IceReplay(s, o)))]
           /\ handed' = [handed EXCEPT ![c] = {e.m : e \in SdpReplay(s, o)}]
           /\ recent' = [recent EXCEPT ![s][o] = SdpReplay(s, o)]
    /\ pc' = [pc EXCEPT ![c] = "peerPresent"]
    /\ UNCHANGED <<hubVars, recentICE, stage, sess, cur, target, ended, flagVars,
                   nread, now>>

\* The role is taken: the connection is closed, and dropIfEmpty runs.
RegisterDuplicate(c) ==
    /\ pc[c] = "register"
    /\ peers[sess[c]][RoleOf[c]] # NoConn
    /\ pc' = [pc EXCEPT ![c] = "dropIfEmpty"]
    /\ UNCHANGED <<hubVars, peers, bufVars, stage, sess, cur, target, ended,
                   flagVars, outVars, nread, now>>

\* A non-blocking send to peer p's channel.
Enqueue(p, m) ==
    /\ queued' = [queued EXCEPT ![p] = Fill(@, 1)]
    /\ handed' = IF m.type \in replayableTypes
                   THEN [handed EXCEPT ![p] = @ \cup {m}]
                   ELSE handed

PeerAbsent(c) == [type |-> "peer_absent", from |-> c, n |-> 0]

\* peerPresent under session.mu, then the advisory to a lone peer; the first
\* frame is forwarded if its type is known, and the pumps start.
AdviseIfAlone(c) ==
    /\ pc[c] = "peerPresent"
    /\ \/ /\ peers[sess[c]][Other(RoleOf[c])] = NoConn
          /\ Enqueue(c, PeerAbsent(c))
       \/ /\ peers[sess[c]][Other(RoleOf[c])] # NoConn
          /\ UNCHANGED outVars
    /\ \/ /\ cur[c].type \in validTypes
          /\ pc' = [pc EXCEPT ![c] = "forward"]
          /\ UNCHANGED stage
       \/ /\ cur[c].type \notin validTypes
          /\ pc' = [pc EXCEPT ![c] = "read"]
          /\ stage' = [stage EXCEPT ![c] = "pump"]
    /\ UNCHANGED <<hubVars, peers, bufVars, sess, cur, target, ended, flagVars, nread,
                   now>>

-----------------------------------------------------------------------------
(***************************************************************************)
(* The pumps.                                                              *)
(***************************************************************************)

\* readPump takes a frame of type t and runs up to its first critical section.
\* markNegotiated and clearSaidBye write flags that only this goroutine reads,
\* so they are one step with clearByeReceived.
ReadFrame(c, t) ==
    /\ pc[c] = "read"
    /\ nread[c] < MaxFrames
    /\ nread' = [nread EXCEPT ![c] = @ + 1]
    /\ cur' = [cur EXCEPT ![c] = [type |-> t, from |-> c, n |-> nread[c] + 1]]
    /\ LET sdp == t \in {"offer", "answer"}
       IN  /\ negotiated' = [negotiated EXCEPT ![c] = @ \/ sdp]
           /\ saidBye' = [saidBye EXCEPT ![c] = @ /\ ~sdp]
           /\ byeReceived' = [byeReceived EXCEPT ![c] = @ /\ ~sdp]
           /\ pc' = [pc EXCEPT ![c] = CASE t \notin validTypes -> "read"
                                        [] t = "bye" /\ byeReceived[c] -> "discardOnEcho"
                                        [] OTHER -> "forward"]
    /\ UNCHANGED <<hubVars, peers, bufVars, stage, sess, target, ended,
                   outVars, now>>

Stamp(m) == [m |-> m, ts |-> now]

PushICE(q, e) == Append(IF Len(q) >= IceReplayMaxPerSender THEN Tail(q) ELSE q, e)

\* Seeded fault: the counterpart is looked up in the object hub.sessions holds
\* for the key now, which need not be the one this peer registered in.
CounterpartByKey(c) ==
    LET s == IF hub[KeyOf[c]] = NoConn THEN sess[c] ELSE hub[KeyOf[c]]
    IN  peers[s][Other(RoleOf[c])]

Counterpart(c) == peers[sess[c]][Other(RoleOf[c])]

\* session.forward up to the unlock: buffer, look the target up, note the bye.
Forward(c) ==
    /\ pc[c] = "forward"
    /\ LET s == sess[c]
           m == cur[c]
           to == Counterpart(c)
       IN  /\ recent' = IF m.type \in replayableTypes
                          THEN [recent EXCEPT ![s][RoleOf[c]] =
                                  {e \in @ : e.m.type # m.type} \cup {Stamp(m)}]
                          ELSE recent
           /\ recentICE' = IF m.type = "ice"
                             THEN [recentICE EXCEPT ![s][RoleOf[c]] = PushICE(@, Stamp(m))]
                             ELSE recentICE
           /\ target' = [target EXCEPT ![c] = to]
           /\ byeReceived' = IF m.type = "bye" /\ to # NoConn
                               THEN [byeReceived EXCEPT ![to] = TRUE]
                               ELSE byeReceived
    /\ pc' = [pc EXCEPT ![c] = "send"]
    /\ UNCHANGED <<hubVars, peers, stage, sess, cur, ended, negotiated,
                   saidBye, outVars, nread, now>>

\* Seeded fault: the read pump retries the frame when the channel was full.
AfterForwardRetry(c) ==
    CASE stage[c] = "cleanup" -> "dropIfEmpty"
      [] target[c] # NoConn /\ queued[target[c]] = SendBuffer -> "forward"
      [] stage[c] = "pump" /\ cur[c].type = "bye" -> "discardOnBye"
      [] OTHER -> "read"

\* Where a handler goes when forward returns: only the read pump treats a bye
\* specially, and the pumps start after the first frame.
AfterForward(c) ==
    CASE stage[c] = "cleanup" -> "dropIfEmpty"
      [] stage[c] = "pump" /\ cur[c].type = "bye" -> "discardOnBye"
      [] OTHER -> "read"

\* Seeded fault: the channel send has no default case and blocks when it is full.
SendBlocking(c) ==
    /\ pc[c] = "send"
    /\ \/ target[c] = NoConn /\ UNCHANGED outVars
       \/ target[c] # NoConn /\ queued[target[c]] < SendBuffer /\ Enqueue(target[c], cur[c])
    /\ pc' = [pc EXCEPT ![c] = AfterForward(c)]
    /\ stage' = [stage EXCEPT ![c] = IF @ = "first" THEN "pump" ELSE @]
    /\ target' = [target EXCEPT ![c] = NoConn]
    /\ UNCHANGED <<hubVars, peers, bufVars, sess, cur, ended, flagVars,
                   nread, now>>

\* session.forward after the unlock: the non-blocking channel send.
Send(c) ==
    /\ pc[c] = "send"
    /\ \/ target[c] = NoConn /\ UNCHANGED outVars
       \/ target[c] # NoConn /\ Enqueue(target[c], cur[c])
    /\ pc' = [pc EXCEPT ![c] = AfterForward(c)]
    /\ stage' = [stage EXCEPT ![c] = IF @ = "first" THEN "pump" ELSE @]
    /\ target' = [target EXCEPT ![c] = NoConn]
    /\ UNCHANGED <<hubVars, peers, bufVars, sess, cur, ended, flagVars,
                   nread, now>>

Discard(s, rs) ==
    /\ recent' = [recent EXCEPT ![s] = [r \in Roles |-> IF r \in rs THEN {} ELSE @[r]]]
    /\ recentICE' = [recentICE EXCEPT ![s] = [r \in Roles |-> IF r \in rs THEN <<>> ELSE @[r]]]

\* readPump after a bye: discardReplay (the own buffer for an echo, which was
\* not forwarded, both otherwise), then markSaidBye, which only this goroutine
\* reads.
DiscardOnBye(c) ==
    /\ pc[c] \in {"discardOnBye", "discardOnEcho"}
    /\ Discard(sess[c], IF pc[c] = "discardOnEcho" THEN {RoleOf[c]} ELSE Roles)
    /\ saidBye' = [saidBye EXCEPT ![c] = TRUE]
    /\ pc' = [pc EXCEPT ![c] = "read"]
    /\ UNCHANGED <<hubVars, peers, stage, sess, cur, target, ended, negotiated,
                   byeReceived, outVars, nread, now>>

\* writePump takes one envelope from the channel and writes it to the socket.
WritePump(c) ==
    /\ stage[c] = "pump"
    /\ queued[c] > 0
    /\ queued' = [queued EXCEPT ![c] = @ - 1]
    /\ UNCHANGED <<hubVars, peers, bufVars, pc, stage, sess, cur, target, ended,
                   flagVars, handed, nread, now>>

-----------------------------------------------------------------------------
(***************************************************************************)
(* Leaving: wsHandler after readPump returns.                              *)
(***************************************************************************)

\* ReadMessage fails (the peer closed, the network dropped, the pong deadline
\* lapsed, a write failed): the deferred conn.Close and close(done) end both
\* pumps.
ReadError(c) ==
    /\ pc[c] = "read"
    /\ stage' = [stage EXCEPT ![c] = "cleanup"]
    /\ pc' = [pc EXCEPT ![c] = "unregister"]
    /\ UNCHANGED <<hubVars, peers, bufVars, sess, cur, target, ended, flagVars,
                   outVars, nread, now>>

\* session.unregister.
Unregister(c) ==
    /\ pc[c] = "unregister"
    /\ peers' = IF peers[sess[c]][RoleOf[c]] = c
                  THEN [peers EXCEPT ![sess[c]][RoleOf[c]] = NoConn]
                  ELSE peers
    /\ pc' = [pc EXCEPT ![c] = "receivedBye"]
    /\ UNCHANGED <<hubVars, bufVars, stage, sess, cur, target, ended, flagVars,
                   outVars, nread, now>>

\* ended := sess.receivedBye(p); didNegotiate reads a flag of this goroutine.
ReadEnded(c) ==
    /\ pc[c] = "receivedBye"
    /\ ended' = [ended EXCEPT ![c] = byeReceived[c]]
    /\ pc' = [pc EXCEPT ![c] = "discardOnLeave"]
    /\ UNCHANGED <<hubVars, peers, bufVars, stage, sess, cur, target, flagVars,
                   outVars, nread, now>>

\* Seeded fault: buffers are dropped for a peer that negotiated only.
DiscardIfNegotiated(c) ==
    /\ pc[c] = "discardOnLeave"
    /\ Discard(sess[c], IF negotiated[c] /\ ~ended[c] THEN Roles ELSE {})
    /\ pc' = [pc EXCEPT ![c] = "synthesise"]
    /\ UNCHANGED <<hubVars, peers, stage, sess, cur, target, ended, flagVars,
                   outVars, nread, now>>

\* discardReplay of the own buffer, and of the counterpart's if this peer had
\* negotiated and the counterpart did not end the session first.
DiscardOnLeave(c) ==
    /\ pc[c] = "discardOnLeave"
    /\ Discard(sess[c], {RoleOf[c]} \cup
                 (IF negotiated[c] /\ ~ended[c] THEN {Other(RoleOf[c])} ELSE {}))
    /\ pc' = [pc EXCEPT ![c] = "synthesise"]
    /\ UNCHANGED <<hubVars, peers, stage, sess, cur, target, ended, flagVars,
                   outVars, nread, now>>

SynthesisedBye(c) == [type |-> "bye", from |-> c, n |-> 0]

\* The peer left a session it had negotiated without a word.
ByeIsDue(c) == negotiated[c] /\ ~ended[c] /\ ~saidBye[c]

\* The bye the peer failed to send, unless the broker itself is going away.
Synthesise(c) ==
    /\ pc[c] = "synthesise"
    /\ ~shuttingDown /\ ByeIsDue(c)
    /\ cur' = [cur EXCEPT ![c] = SynthesisedBye(c)]
    /\ pc' = [pc EXCEPT ![c] = "forward"]
    /\ UNCHANGED <<hubVars, peers, bufVars, stage, sess, target, ended, flagVars,
                   outVars, nread, now>>

\* Seeded fault: an early return when no bye is due.
NoByeDueReturns(c) ==
    /\ pc[c] = "synthesise"
    /\ shuttingDown \/ ~ByeIsDue(c)
    /\ pc' = [pc EXCEPT ![c] = "done"]
    /\ UNCHANGED <<hubVars, peers, bufVars, stage, sess, cur, target, ended, flagVars,
                   outVars, nread, now>>

NoByeDue(c) ==
    /\ pc[c] = "synthesise"
    /\ shuttingDown \/ ~ByeIsDue(c)
    /\ pc' = [pc EXCEPT ![c] = "dropIfEmpty"]
    /\ UNCHANGED <<hubVars, peers, bufVars, stage, sess, cur, target, ended, flagVars,
                   outVars, nread, now>>

IsEmpty(s) == \A r \in Roles : peers[s][r] = NoConn

\* The handler returns: its locals and its *peer are garbage.
Forget(c) ==
    /\ cur' = [cur EXCEPT ![c] = NoFrame(c)]
    /\ ended' = [ended EXCEPT ![c] = FALSE]
    /\ negotiated' = [negotiated EXCEPT ![c] = FALSE]
    /\ saidBye' = [saidBye EXCEPT ![c] = FALSE]
    /\ byeReceived' = [byeReceived EXCEPT ![c] = FALSE]
    /\ queued' = [queued EXCEPT ![c] = 0]
    /\ handed' = [handed EXCEPT ![c] = {}]

\* hub.dropIfEmpty, under hub.mu and session.mu: by key, whatever session
\* object the handler itself held.
DropIfEmpty(c) ==
    /\ pc[c] = "dropIfEmpty"
    /\ hub' = IF hub[KeyOf[c]] # NoConn /\ IsEmpty(hub[KeyOf[c]])
                THEN [hub EXCEPT ![KeyOf[c]] = NoConn]
                ELSE hub
    /\ pc' = [pc EXCEPT ![c] = "done"]
    /\ Forget(c)
    /\ UNCHANGED <<shuttingDown, peers, bufVars, stage, sess, target, nread,
                   now>>

-----------------------------------------------------------------------------

\* One step of the goroutine that serves c, once its connection is accepted.
Handler(c) ==
    \/ RegisterOk(c) \/ RegisterDuplicate(c) \/ AdviseIfAlone(c)
    \/ Forward(c) \/ Send(c) \/ DiscardOnBye(c)
    \/ Unregister(c) \/ ReadEnded(c) \/ DiscardOnLeave(c)
    \/ Synthesise(c) \/ NoByeDue(c) \/ DropIfEmpty(c)

\* The steps that wait for the peer: it dials, it writes a frame, it goes away.
Peer(c) ==
    \/ Reject(c)
    \/ \E t \in FirstFrames : GetOrCreate(c, t)
    \/ \E t \in Frames : ReadFrame(c, t)
    \/ ReadError(c)

\* Every connection that may dial has come and gone: the only state in which
\* nothing is left to do.
Finished ==
    /\ \A c \in Conns : pc[c] = "done" \/ (pc[c] = "idle" /\ ~MayDial(c))
    /\ UNCHANGED vars

Next ==
    \/ \E c \in Conns : Handler(c) \/ WritePump(c) \/ Peer(c)
    \/ Tick \/ Shutdown \/ Finished

Spec == Init /\ [][Next]_vars

\* The Go scheduler runs every goroutine that is not blocked; peers promise
\* nothing.
FairSpec == Spec /\ \A c \in Conns : WF_vars(Handler(c)) /\ WF_vars(WritePump(c))

-----------------------------------------------------------------------------
(***************************************************************************)
(* Properties.                                                             *)
(***************************************************************************)

\* Control points from which a handler is still going to run dropIfEmpty.
Leaving == {"unregister", "receivedBye", "discardOnLeave", "synthesise",
            "dropIfEmpty"}

WillDrop(c) ==
    \/ pc[c] \in Leaving
    \/ pc[c] \in {"forward", "send"} /\ stage[c] = "cleanup"

\* No session is leaked: an entry of hub.sessions without peers always has a
\* handler of the same key that is about to register in it or to run
\* dropIfEmpty, however joins, rejections and departures interleave.
NoSessionLeak ==
    \A k \in Keys :
        hub[k] # NoConn /\ IsEmpty(hub[k]) =>
            \E c \in Conns : /\ KeyOf[c] = k
                             /\ \/ WillDrop(c)
                                \/ pc[c] = "register" /\ sess[c] = hub[k]

\* The replay buffers describe live peers: whatever is buffered from a role
\* was written by the peer that holds the role now, or by one that has
\* unregistered and whose discardReplay is still to come.
BufferedSenderAlive ==
    \A s \in Conns, r \in Roles : \A e \in recent[s][r] :
            \/ peers[s][r] = e.m.from
            \/ /\ sess[e.m.from] = s /\ RoleOf[e.m.from] = r
               /\ pc[e.m.from] \in {"receivedBye", "discardOnLeave"}

\* Replay and live forwarding leave no gap: every buffered SDP envelope has
\* been put to the channel of the registered counterpart, or the sender's
\* goroutine is between forward's unlock and its channel send.
HandedOver ==
    \A s \in Conns, r \in Roles : \A e \in recent[s][r] :
        peers[s][Other(r)] # NoConn =>
            \/ e.m \in handed[peers[s][Other(r)]]
            \/ \E d \in Conns : /\ pc[d] = "send" /\ cur[d] = e.m
                                /\ target[d] = peers[s][Other(r)]

\* No envelope is handed over twice: what forward has taken a target for
\* outside the lock has not already reached that peer by replay.
HandedOnce ==
    \A d \in Conns :
        pc[d] = "send" /\ target[d] # NoConn => cur[d] \notin handed[target[d]]

\* Sessions do not leak into each other: a peer is handed SDP of the opposite
\* role of its own (tenant, session_id) only, and of the very session object it
\* registered in.  When that object has been dropped from the hub and another
\* one took its place under the same key, neither's SDP reaches the other.
Isolation ==
    \A c \in Conns : \A m \in handed[c] :
        /\ KeyOf[m.from] = KeyOf[c]
        /\ sess[m.from] = sess[c]
        /\ RoleOf[m.from] = Other(RoleOf[c])

\* A handler never blocks on its counterpart: once the socket is gone the
\* cleanup runs to its end, however full the counterpart's channel is.
CleanupEnds ==
    \A c \in Conns : pc[c] = "unregister" ~> pc[c] = "done"

-----------------------------------------------------------------------------
(***************************************************************************)
(* What the source says and the model refutes (no run; see the README).    *)
(***************************************************************************)

\* server.go: "Exactly one "client" and one "browser" are allowed per
\* session_id."
OneRolePerSession ==
    \A c, d \in Conns :
        c # d /\ KeyOf[c] = KeyOf[d] /\ RoleOf[c] = RoleOf[d] =>
            ~\E s, u \in Conns : peers[s][RoleOf[c]] = c /\ peers[u][RoleOf[d]] = d

=============================================================================
