---------------------------- MODULE BrokerProofs ----------------------------
(***************************************************************************)
(* Proofs about Broker, for any number of connections, sessions, frames    *)
(* and any buffer sizes.                                                   *)
(***************************************************************************)
EXTENDS Broker, FiniteSetTheorems, TLAPS

\* The handler holds its role's slot of its session object.
Registered(c) ==
    \/ pc[c] \in {"peerPresent", "read", "discardOnBye", "discardOnEcho", "unregister"}
    \/ pc[c] \in {"forward", "send"} /\ stage[c] # "cleanup"

\* Which of the three uses of forward goes with which control point.
StageInv ==
    \A c \in Conns :
        /\ pc[c] \in {"idle", "register", "peerPresent"} => stage[c] = "first"
        /\ pc[c] \in {"read", "discardOnBye", "discardOnEcho"} => stage[c] = "pump"
        /\ pc[c] \in {"unregister", "receivedBye", "discardOnLeave", "synthesise"}
              => stage[c] = "cleanup"

\* A running handler has a session object, of its own key; so has the hub.
SessInv ==
    /\ \A c \in Conns : pc[c] \notin {"idle", "done"} => sess[c] \in Conns
    /\ \A c \in Conns : pc[c] = "idle" => sess[c] = NoConn
    /\ \A c \in Conns : sess[c] \in Conns => KeyOf[sess[c]] = KeyOf[c]
    /\ \A k \in Keys : hub[k] \in Conns => KeyOf[hub[k]] = k

\* session.peers is exactly the set of handlers between register and unregister.
PeersInv ==
    \A s \in Conns, r \in Roles, c \in Conns :
        peers[s][r] = c <=> Registered(c) /\ sess[c] = s /\ RoleOf[c] = r

\* The envelope being handled is the handler's own; during cleanup it is a bye.
CurInv ==
    \A c \in Conns :
        /\ cur[c].from = c
        /\ pc[c] \in {"forward", "send"} /\ stage[c] = "cleanup" => cur[c].type = "bye"

\* The replay buffers hold SDP of peers of that session object and role.
BufInv ==
    \A s \in Conns, r \in Roles : \A e \in recent[s][r] :
        /\ sess[e.m.from] = s
        /\ RoleOf[e.m.from] = r
        /\ e.m.type \in replayableTypes

\* The target of a send in progress is the counterpart, past its registration.
TargetInv ==
    \A d \in Conns :
        pc[d] = "send" /\ target[d] # NoConn =>
            /\ KeyOf[target[d]] = KeyOf[d]
            /\ RoleOf[target[d]] = Other(RoleOf[d])
            /\ pc[target[d]] \notin {"idle", "register"}

\* m has been read, and if its sender has not got to forward's critical section
\* with its current frame, m is not that frame.
Older(m) ==
    /\ m.n \in 1..nread[m.from]
    /\ pc[m.from] \in {"register", "peerPresent", "forward"} =>
          m.n < nread[m.from] \/ stage[m.from] = "cleanup"

\* Every buffered or handed envelope is SDP that was read before.
CountInv ==
    /\ \A c \in Conns : pc[c] = "idle" => nread[c] = 0
    /\ \A s \in Conns, r \in Roles : \A e \in recent[s][r] : Older(e.m)
    /\ \A c \in Conns : \A m \in handed[c] : m.type \in replayableTypes /\ Older(m)
    /\ \A c \in Conns :
          pc[c] \in {"register", "peerPresent", "forward", "send"} /\ stage[c] # "cleanup"
              => cur[c].n = nread[c] /\ nread[c] > 0

\* What Isolation says of keys and roles.
Opposite ==
    \A c \in Conns : \A m \in handed[c] :
        KeyOf[m.from] = KeyOf[c] /\ RoleOf[m.from] = Other(RoleOf[c])

\* Who exchanges SDP holds the same session object.
SameSession ==
    /\ \A c \in Conns : pc[c] = "idle" => handed[c] = {}
    /\ \A d \in Conns : pc[d] = "send" /\ target[d] # NoConn => sess[target[d]] = sess[d]
    /\ \A c \in Conns : \A m \in handed[c] : sess[m.from] = sess[c]

FiniteInv == \A s \in Conns, r \in Roles : IsFiniteSet(recent[s][r])

\* The inductive invariant.
IInv ==
    /\ TypeOK /\ StageInv /\ SessInv /\ PeersInv /\ CurInv /\ BufInv /\ TargetInv
    /\ CountInv
    /\ FiniteInv
    /\ NoSessionLeak /\ BufferedSenderAlive /\ HandedOver /\ HandedOnce
    /\ Opposite /\ SameSession

-----------------------------------------------------------------------------

\* The role, key and counterpart of a connection are what the types say.
LEMMA Basics ==
    ASSUME NEW c \in Conns
    PROVE  /\ RoleOf[c] \in Roles
           /\ Other(RoleOf[c]) \in Roles
           /\ Other(RoleOf[c]) # RoleOf[c]
           /\ Other(Other(RoleOf[c])) = RoleOf[c]
           /\ KeyOf[c] \in Keys
           /\ c # NoConn
BY IdentityAssumption, NoConnAssumption DEF Other, Roles

\* An update of a table of tables, entry by entry.
LEMMA Entries ==
    ASSUME NEW S, NEW R, NEW V, NEW f \in [S -> [R -> V]], NEW a \in S, NEW b \in R, NEW v
    PROVE  \A s \in S, r \in R :
             [f EXCEPT ![a][b] = v][s][r] = IF s = a /\ r = b THEN v ELSE f[s][r]
OBVIOUS

\* The empty hub satisfies the inductive invariant.
LEMMA InitIInv == Init => IInv
<1> SUFFICES ASSUME Init PROVE IInv
    OBVIOUS
<1>1. TypeOK
  <2>1. cur \in [Conns -> Message]
    BY DEF Init, NoFrame, Message, Types
  <2>2. recentICE \in [Conns -> [Roles -> Seq(Entry)]]
    BY DEF Init
  <2>3. \A s \in Conns, r \in Roles : Len(recentICE[s][r]) <= IceReplayMaxPerSender
    BY IceMaxAssumption DEF Init
  <2>4. queued \in [Conns -> 0..SendBuffer]
    BY SendBufferAssumption DEF Init
  <2> QED BY <2>1, <2>2, <2>3, <2>4 DEF Init, TypeOK, PCs, Stages
<1>2. StageInv /\ SessInv /\ CurInv /\ BufInv /\ TargetInv /\ CountInv
  BY NoConnAssumption DEF Init, StageInv, SessInv, CurInv, BufInv, TargetInv,
     CountInv, NoFrame
<1>3. PeersInv
  BY NoConnAssumption DEF Init, PeersInv, Registered
<1>4. FiniteInv
  BY FS_EmptySet DEF Init, FiniteInv
<1>5. NoSessionLeak /\ BufferedSenderAlive /\ HandedOver /\ HandedOnce
  BY DEF Init, NoSessionLeak, BufferedSenderAlive, HandedOver, HandedOnce
<1>6. Opposite /\ SameSession
  BY DEF Init, Opposite, SameSession
<1> QED BY <1>1, <1>2, <1>3, <1>4, <1>5, <1>6 DEF IInv

\* Every step keeps the control points that go with a stage of wsHandler.
LEMMA StageStep ==
    ASSUME TypeOK, StageInv, [Next]_vars
    PROVE  StageInv'
<1> USE DEF hubVars, bufVars, flagVars, outVars, TypeOK, StageInv, PCs, Stages
<1>1. CASE UNCHANGED vars
  BY <1>1 DEF vars
<1>2. CASE Tick \/ Shutdown \/ Finished
  BY <1>2 DEF Tick, Shutdown, Finished, vars
<1>3. ASSUME NEW c \in Conns, Reject(c)
      PROVE  StageInv'
  BY <1>3, Basics DEF Reject, MayDial
<1>4. ASSUME NEW c \in Conns, NEW t \in FirstFrames, GetOrCreate(c, t)
      PROVE  StageInv'
  BY <1>4, Basics DEF GetOrCreate, MayDial
<1>5. ASSUME NEW c \in Conns, NEW t \in Frames, ReadFrame(c, t)
      PROVE  StageInv'
  BY <1>5, Basics DEF ReadFrame
<1>6. ASSUME NEW c \in Conns, ReadError(c)
      PROVE  StageInv'
  BY <1>6, Basics DEF ReadError
<1>7. ASSUME NEW c \in Conns, RegisterOk(c)
      PROVE  StageInv'
  BY <1>7, Basics DEF RegisterOk
<1>8. ASSUME NEW c \in Conns, RegisterDuplicate(c)
      PROVE  StageInv'
  BY <1>8, Basics DEF RegisterDuplicate
<1>9. ASSUME NEW c \in Conns, AdviseIfAlone(c)
      PROVE  StageInv'
  <2>1. ASSUME cur[c].type \in validTypes, pc' = [pc EXCEPT ![c] = "forward"], stage' = stage
        PROVE  StageInv'
    BY <1>9, <2>1, Basics DEF AdviseIfAlone
  <2>2. ASSUME pc' = [pc EXCEPT ![c] = "read"], stage' = [stage EXCEPT ![c] = "pump"]
        PROVE  StageInv'
    BY <1>9, <2>2, Basics DEF AdviseIfAlone
  <2> QED BY <1>9, <2>1, <2>2 DEF AdviseIfAlone
<1>10. ASSUME NEW c \in Conns, Forward(c)
      PROVE  StageInv'
  BY <1>10, Basics DEF Forward, Counterpart
<1>11. ASSUME NEW c \in Conns, Send(c)
      PROVE  StageInv'
  BY <1>11, Basics DEF Send, AfterForward
<1>12. ASSUME NEW c \in Conns, DiscardOnBye(c)
      PROVE  StageInv'
  BY <1>12, Basics DEF DiscardOnBye
<1>13. ASSUME NEW c \in Conns, Unregister(c)
      PROVE  StageInv'
  BY <1>13, Basics DEF Unregister
<1>14. ASSUME NEW c \in Conns, ReadEnded(c)
      PROVE  StageInv'
  BY <1>14, Basics DEF ReadEnded
<1>15. ASSUME NEW c \in Conns, DiscardOnLeave(c)
      PROVE  StageInv'
  BY <1>15, Basics DEF DiscardOnLeave
<1>16. ASSUME NEW c \in Conns, Synthesise(c)
      PROVE  StageInv'
  BY <1>16, Basics DEF Synthesise
<1>17. ASSUME NEW c \in Conns, NoByeDue(c)
      PROVE  StageInv'
  BY <1>17, Basics DEF NoByeDue
<1>18. ASSUME NEW c \in Conns, DropIfEmpty(c)
      PROVE  StageInv'
  BY <1>18, Basics DEF DropIfEmpty
<1>19. ASSUME NEW c \in Conns, WritePump(c)
      PROVE  StageInv'
  BY <1>19, Basics DEF WritePump
<1> QED
  BY <1>1, <1>2, <1>3, <1>4, <1>5, <1>6, <1>7, <1>8, <1>9, <1>10, <1>11,
     <1>12, <1>13, <1>14, <1>15, <1>16, <1>17, <1>18, <1>19 DEF Next, Handler, Peer

\* Every step keeps what getOrCreate established: a handler past it holds a
\* session object of its own key.
LEMMA SessStep ==
    ASSUME TypeOK, SessInv, [Next]_vars
    PROVE  SessInv'
<1> USE DEF hubVars, bufVars, flagVars, outVars, TypeOK, SessInv, PCs
<1>1. CASE UNCHANGED vars
  BY <1>1, NoConnAssumption DEF vars
<1>2. CASE Tick \/ Shutdown \/ Finished
  BY <1>2, NoConnAssumption DEF Tick, Shutdown, Finished, vars
<1>3. ASSUME NEW c \in Conns, Reject(c)
      PROVE  SessInv'
  BY <1>3, Basics, NoConnAssumption DEF Reject, MayDial
<1>4. ASSUME NEW c \in Conns, NEW t \in FirstFrames, GetOrCreate(c, t)
      PROVE  SessInv'
  <2> DEFINE k == KeyOf[c]
             s == IF hub[k] = NoConn THEN c ELSE hub[k]
  <2>1. /\ s \in Conns /\ k \in Keys /\ KeyOf[s] = k
    BY Basics, NoConnAssumption DEF TypeOK, SessInv
  <2>2. /\ hub' = [hub EXCEPT ![k] = s] /\ sess' = [sess EXCEPT ![c] = s]
        /\ pc' = [pc EXCEPT ![c] = "register"]
    BY <1>4 DEF GetOrCreate, MayDial
  <2>3. \A d \in Conns : /\ pc'[d] \notin {"idle", "done"} => sess'[d] \in Conns
                         /\ pc'[d] = "idle" => sess'[d] = NoConn
    BY <2>1, <2>2 DEF SessInv, TypeOK
  <2>4. \A d \in Conns : sess'[d] \in Conns => KeyOf[sess'[d]] = KeyOf[d]
    BY <2>1, <2>2 DEF SessInv, TypeOK
  <2>5. \A j \in Keys : hub'[j] \in Conns => KeyOf[hub'[j]] = j
    BY <2>1, <2>2 DEF SessInv, TypeOK
  <2> QED BY <2>3, <2>4, <2>5 DEF SessInv
<1>5. ASSUME NEW c \in Conns, NEW t \in Frames, ReadFrame(c, t)
      PROVE  SessInv'
  BY <1>5, Basics, NoConnAssumption DEF ReadFrame
<1>6. ASSUME NEW c \in Conns, ReadError(c)
      PROVE  SessInv'
  BY <1>6, Basics, NoConnAssumption DEF ReadError
<1>7. ASSUME NEW c \in Conns, RegisterOk(c)
      PROVE  SessInv'
  BY <1>7 DEF RegisterOk
<1>8. ASSUME NEW c \in Conns, RegisterDuplicate(c)
      PROVE  SessInv'
  BY <1>8, Basics, NoConnAssumption DEF RegisterDuplicate
<1>9. ASSUME NEW c \in Conns, AdviseIfAlone(c)
      PROVE  SessInv'
  <2>1. hub' = hub /\ sess' = sess /\ pc[c] = "peerPresent"
    BY <1>9 DEF AdviseIfAlone
  <2>2. pc'[c] \in {"forward", "read"} /\ \A d \in Conns : d # c => pc'[d] = pc[d]
    BY <1>9 DEF AdviseIfAlone, TypeOK
  <2>3. \A d \in Conns : /\ pc'[d] \notin {"idle", "done"} => pc[d] \notin {"idle", "done"}
                         /\ pc'[d] = "idle" => pc[d] = "idle"
    BY <2>1, <2>2
  <2> QED BY <2>1, <2>3 DEF SessInv
<1>10. ASSUME NEW c \in Conns, Forward(c)
      PROVE  SessInv'
  BY <1>10, Basics, NoConnAssumption DEF Forward, Counterpart
<1>11. ASSUME NEW c \in Conns, Send(c)
      PROVE  SessInv'
  BY <1>11, Basics, NoConnAssumption DEF Send, AfterForward
<1>12. ASSUME NEW c \in Conns, DiscardOnBye(c)
      PROVE  SessInv'
  BY <1>12, Basics, NoConnAssumption DEF DiscardOnBye
<1>13. ASSUME NEW c \in Conns, Unregister(c)
      PROVE  SessInv'
  BY <1>13, Basics, NoConnAssumption DEF Unregister
<1>14. ASSUME NEW c \in Conns, ReadEnded(c)
      PROVE  SessInv'
  BY <1>14, Basics, NoConnAssumption DEF ReadEnded
<1>15. ASSUME NEW c \in Conns, DiscardOnLeave(c)
      PROVE  SessInv'
  BY <1>15, Basics, NoConnAssumption DEF DiscardOnLeave
<1>16. ASSUME NEW c \in Conns, Synthesise(c)
      PROVE  SessInv'
  BY <1>16, Basics, NoConnAssumption DEF Synthesise
<1>17. ASSUME NEW c \in Conns, NoByeDue(c)
      PROVE  SessInv'
  BY <1>17, Basics, NoConnAssumption DEF NoByeDue
<1>18. ASSUME NEW c \in Conns, DropIfEmpty(c)
      PROVE  SessInv'
  BY <1>18, Basics, NoConnAssumption DEF DropIfEmpty
<1>19. ASSUME NEW c \in Conns, WritePump(c)
      PROVE  SessInv'
  BY <1>19, Basics, NoConnAssumption DEF WritePump
<1> QED
  BY <1>1, <1>2, <1>3, <1>4, <1>5, <1>6, <1>7, <1>8, <1>9, <1>10, <1>11,
     <1>12, <1>13, <1>14, <1>15, <1>16, <1>17, <1>18, <1>19 DEF Next, Handler, Peer

\* Every step keeps the envelope in hand that of the handler's own peer.
LEMMA CurStep ==
    ASSUME TypeOK, StageInv, CurInv, [Next]_vars
    PROVE  CurInv'
<1> USE DEF hubVars, bufVars, flagVars, outVars, TypeOK, StageInv, CurInv, PCs, Stages, Message
<1>1. CASE UNCHANGED vars
  BY <1>1 DEF vars
<1>2. CASE Tick \/ Shutdown \/ Finished
  BY <1>2 DEF Tick, Shutdown, Finished, vars
<1>3. ASSUME NEW c \in Conns, Reject(c)
      PROVE  CurInv'
  BY <1>3, Basics DEF Reject, MayDial
<1>4. ASSUME NEW c \in Conns, NEW t \in FirstFrames, GetOrCreate(c, t)
      PROVE  CurInv'
  BY <1>4, Basics DEF GetOrCreate, MayDial
<1>5. ASSUME NEW c \in Conns, NEW t \in Frames, ReadFrame(c, t)
      PROVE  CurInv'
  BY <1>5, Basics DEF ReadFrame
<1>6. ASSUME NEW c \in Conns, ReadError(c)
      PROVE  CurInv'
  BY <1>6, Basics DEF ReadError
<1>7. ASSUME NEW c \in Conns, RegisterOk(c)
      PROVE  CurInv'
  BY <1>7, Basics DEF RegisterOk
<1>8. ASSUME NEW c \in Conns, RegisterDuplicate(c)
      PROVE  CurInv'
  BY <1>8, Basics DEF RegisterDuplicate
<1>9. ASSUME NEW c \in Conns, AdviseIfAlone(c)
      PROVE  CurInv'
  <2>1. ASSUME cur[c].type \in validTypes, pc' = [pc EXCEPT ![c] = "forward"], stage' = stage
        PROVE  CurInv'
    BY <1>9, <2>1, Basics DEF AdviseIfAlone
  <2>2. ASSUME pc' = [pc EXCEPT ![c] = "read"], stage' = [stage EXCEPT ![c] = "pump"]
        PROVE  CurInv'
    BY <1>9, <2>2, Basics DEF AdviseIfAlone
  <2> QED BY <1>9, <2>1, <2>2 DEF AdviseIfAlone
<1>10. ASSUME NEW c \in Conns, Forward(c)
      PROVE  CurInv'
  BY <1>10, Basics DEF Forward, Counterpart
<1>11. ASSUME NEW c \in Conns, Send(c)
      PROVE  CurInv'
  BY <1>11, Basics DEF Send, AfterForward
<1>12. ASSUME NEW c \in Conns, DiscardOnBye(c)
      PROVE  CurInv'
  BY <1>12, Basics DEF DiscardOnBye
<1>13. ASSUME NEW c \in Conns, Unregister(c)
      PROVE  CurInv'
  BY <1>13, Basics DEF Unregister
<1>14. ASSUME NEW c \in Conns, ReadEnded(c)
      PROVE  CurInv'
  BY <1>14, Basics DEF ReadEnded
<1>15. ASSUME NEW c \in Conns, DiscardOnLeave(c)
      PROVE  CurInv'
  BY <1>15, Basics DEF DiscardOnLeave
<1>16. ASSUME NEW c \in Conns, Synthesise(c)
      PROVE  CurInv'
  BY <1>16, Basics DEF Synthesise, SynthesisedBye
<1>17. ASSUME NEW c \in Conns, NoByeDue(c)
      PROVE  CurInv'
  BY <1>17, Basics DEF NoByeDue
<1>18. ASSUME NEW c \in Conns, DropIfEmpty(c)
      PROVE  CurInv'
  BY <1>18, Basics DEF DropIfEmpty, Forget, NoFrame
<1>19. ASSUME NEW c \in Conns, WritePump(c)
      PROVE  CurInv'
  BY <1>19, Basics DEF WritePump
<1> QED
  BY <1>1, <1>2, <1>3, <1>4, <1>5, <1>6, <1>7, <1>8, <1>9, <1>10, <1>11,
     <1>12, <1>13, <1>14, <1>15, <1>16, <1>17, <1>18, <1>19 DEF Next, Handler, Peer

\* Every step keeps session.peers in agreement with the control points.
LEMMA PeersStep ==
    ASSUME TypeOK, StageInv, SessInv, PeersInv, [Next]_vars
    PROVE  PeersInv'
<1> USE DEF hubVars, bufVars, flagVars, outVars, PCs
<1>1. CASE UNCHANGED vars
  BY <1>1, NoConnAssumption DEF vars, TypeOK, StageInv, SessInv, PeersInv, Registered, Stages
<1>2. CASE Tick \/ Shutdown \/ Finished
  BY <1>2, NoConnAssumption DEF Tick, Shutdown, Finished, vars, TypeOK, StageInv, SessInv, PeersInv, Registered, Stages
<1>3. ASSUME NEW c \in Conns, Reject(c)
      PROVE  PeersInv'
  <2> SUFFICES ASSUME NEW s \in Conns, NEW r \in Roles, NEW d \in Conns
               PROVE  (peers[s][r] = d <=> Registered(d) /\ sess[d] = s /\ RoleOf[d] = r)'
      BY DEF PeersInv
  <2>1. Registered(d)' <=> Registered(d)
    BY <1>3 DEF Reject, MayDial, Registered, TypeOK, StageInv
  <2> QED BY <1>3, <2>1 DEF Reject, MayDial, PeersInv, TypeOK
<1>4. ASSUME NEW c \in Conns, NEW t \in FirstFrames, GetOrCreate(c, t)
      PROVE  PeersInv'
  <2> SUFFICES ASSUME NEW s \in Conns, NEW r \in Roles, NEW d \in Conns
               PROVE  (peers[s][r] = d <=> Registered(d) /\ sess[d] = s /\ RoleOf[d] = r)'
      BY DEF PeersInv
  <2>1. /\ Registered(d)' <=> Registered(d)
        /\ ~Registered(c)
    BY <1>4 DEF GetOrCreate, MayDial, Registered, TypeOK, StageInv
  <2>2. d # c => sess'[d] = sess[d]
    BY <1>4 DEF GetOrCreate, MayDial, TypeOK
  <2>3. peers' = peers
    BY <1>4 DEF GetOrCreate, MayDial
  <2> QED BY <2>1, <2>2, <2>3 DEF PeersInv
<1>5. ASSUME NEW c \in Conns, NEW t \in Frames, ReadFrame(c, t)
      PROVE  PeersInv'
  <2> SUFFICES ASSUME NEW s \in Conns, NEW r \in Roles, NEW d \in Conns
               PROVE  (peers[s][r] = d <=> Registered(d) /\ sess[d] = s /\ RoleOf[d] = r)'
      BY DEF PeersInv
  <2>1. Registered(d)' <=> Registered(d)
    BY <1>5 DEF ReadFrame, Registered, TypeOK, StageInv
  <2> QED BY <1>5, <2>1 DEF ReadFrame, PeersInv, TypeOK
<1>6. ASSUME NEW c \in Conns, ReadError(c)
      PROVE  PeersInv'
  <2> SUFFICES ASSUME NEW s \in Conns, NEW r \in Roles, NEW d \in Conns
               PROVE  (peers[s][r] = d <=> Registered(d) /\ sess[d] = s /\ RoleOf[d] = r)'
      BY DEF PeersInv
  <2>1. Registered(d)' <=> Registered(d)
    BY <1>6 DEF ReadError, Registered, TypeOK, StageInv
  <2> QED BY <1>6, <2>1 DEF ReadError, PeersInv, TypeOK
<1>7. ASSUME NEW c \in Conns, RegisterOk(c)
      PROVE  PeersInv'
  <2> SUFFICES ASSUME NEW s \in Conns, NEW r \in Roles, NEW d \in Conns
               PROVE  (peers[s][r] = d <=> Registered(d) /\ sess[d] = s /\ RoleOf[d] = r)'
      BY DEF PeersInv
  <2>0. sess[c] \in Conns
    BY <1>7 DEF RegisterOk, SessInv
  <2>1. ~Registered(c) /\ Registered(c)'
    BY <1>7 DEF RegisterOk, Registered, TypeOK
  <2>2. peers'[s][r] = IF s = sess[c] /\ r = RoleOf[c] THEN c ELSE peers[s][r]
    <3>1. peers' = [peers EXCEPT ![sess[c]][RoleOf[c]] = c]
      BY <1>7 DEF RegisterOk
    <3>2. peers \in [Conns -> [Roles -> Conns \cup {NoConn}]] /\ RoleOf[c] \in Roles
      BY Basics DEF TypeOK
    <3> QED BY <2>0, <3>1, <3>2, Entries
  <2>3. sess' = sess /\ peers[sess[c]][RoleOf[c]] = NoConn
    BY <1>7 DEF RegisterOk
  <2>4. d # c => (Registered(d)' <=> Registered(d))
    BY <1>7 DEF RegisterOk, Registered, TypeOK
  <2> QED BY <2>0, <2>1, <2>2, <2>3, <2>4, Basics, NoConnAssumption DEF PeersInv
<1>8. ASSUME NEW c \in Conns, RegisterDuplicate(c)
      PROVE  PeersInv'
  <2> SUFFICES ASSUME NEW s \in Conns, NEW r \in Roles, NEW d \in Conns
               PROVE  (peers[s][r] = d <=> Registered(d) /\ sess[d] = s /\ RoleOf[d] = r)'
      BY DEF PeersInv
  <2>0. sess[c] \in Conns
    BY <1>8 DEF RegisterDuplicate, SessInv
  <2>1. Registered(d)' <=> Registered(d)
    BY <1>8 DEF RegisterDuplicate, Registered, TypeOK, StageInv
  <2> QED BY <1>8, <2>1 DEF RegisterDuplicate, PeersInv, TypeOK
<1>9. ASSUME NEW c \in Conns, AdviseIfAlone(c)
      PROVE  PeersInv'
  <2> SUFFICES ASSUME NEW s \in Conns, NEW r \in Roles, NEW d \in Conns
               PROVE  (peers[s][r] = d <=> Registered(d) /\ sess[d] = s /\ RoleOf[d] = r)'
      BY DEF PeersInv
  <2>0. sess[c] \in Conns
    BY <1>9 DEF AdviseIfAlone, SessInv
  <2>1. Registered(d)' <=> Registered(d)
    BY <1>9 DEF AdviseIfAlone, Registered, TypeOK, StageInv
  <2> QED BY <1>9, <2>1 DEF AdviseIfAlone, PeersInv, TypeOK
<1>10. ASSUME NEW c \in Conns, Forward(c)
      PROVE  PeersInv'
  <2> SUFFICES ASSUME NEW s \in Conns, NEW r \in Roles, NEW d \in Conns
               PROVE  (peers[s][r] = d <=> Registered(d) /\ sess[d] = s /\ RoleOf[d] = r)'
      BY DEF PeersInv
  <2>0. sess[c] \in Conns
    BY <1>10 DEF Forward, Counterpart, SessInv
  <2>1. Registered(d)' <=> Registered(d)
    BY <1>10 DEF Forward, Counterpart, Registered, TypeOK, StageInv
  <2> QED BY <1>10, <2>1 DEF Forward, Counterpart, PeersInv, TypeOK
<1>11. ASSUME NEW c \in Conns, Send(c)
      PROVE  PeersInv'
  <2> SUFFICES ASSUME NEW s \in Conns, NEW r \in Roles, NEW d \in Conns
               PROVE  (peers[s][r] = d <=> Registered(d) /\ sess[d] = s /\ RoleOf[d] = r)'
      BY DEF PeersInv
  <2>0. sess[c] \in Conns
    BY <1>11 DEF Send, SessInv
  <2>1. Registered(d)' <=> Registered(d)
    BY <1>11 DEF Send, Registered, TypeOK, StageInv, AfterForward, Stages
  <2> QED BY <1>11, <2>1 DEF Send, PeersInv, TypeOK
<1>12. ASSUME NEW c \in Conns, DiscardOnBye(c)
      PROVE  PeersInv'
  <2> SUFFICES ASSUME NEW s \in Conns, NEW r \in Roles, NEW d \in Conns
               PROVE  (peers[s][r] = d <=> Registered(d) /\ sess[d] = s /\ RoleOf[d] = r)'
      BY DEF PeersInv
  <2>1. Registered(d)' <=> Registered(d)
    BY <1>12 DEF DiscardOnBye, Registered, TypeOK, StageInv
  <2> QED BY <1>12, <2>1 DEF DiscardOnBye, PeersInv, TypeOK
<1>13. ASSUME NEW c \in Conns, Unregister(c)
      PROVE  PeersInv'
  <2> SUFFICES ASSUME NEW s \in Conns, NEW r \in Roles, NEW d \in Conns
               PROVE  (peers[s][r] = d <=> Registered(d) /\ sess[d] = s /\ RoleOf[d] = r)'
      BY DEF PeersInv
  <2>0. sess[c] \in Conns
    BY <1>13 DEF Unregister, SessInv
  <2>1. Registered(c) /\ ~Registered(c)'
    BY <1>13 DEF Unregister, Registered, TypeOK
  <2>2. peers[sess[c]][RoleOf[c]] = c
    BY <2>0, <2>1, Basics DEF PeersInv
  <2>3. peers'[s][r] = IF s = sess[c] /\ r = RoleOf[c] THEN NoConn ELSE peers[s][r]
    BY <1>13, <2>0, <2>2, Basics DEF Unregister, TypeOK
  <2>4. sess' = sess
    BY <1>13 DEF Unregister
  <2>5. d # c => (Registered(d)' <=> Registered(d))
    BY <1>13 DEF Unregister, Registered, TypeOK
  <2> QED BY <2>0, <2>1, <2>2, <2>3, <2>4, <2>5, Basics, NoConnAssumption DEF PeersInv
<1>14. ASSUME NEW c \in Conns, ReadEnded(c)
      PROVE  PeersInv'
  <2> SUFFICES ASSUME NEW s \in Conns, NEW r \in Roles, NEW d \in Conns
               PROVE  (peers[s][r] = d <=> Registered(d) /\ sess[d] = s /\ RoleOf[d] = r)'
      BY DEF PeersInv
  <2>1. Registered(d)' <=> Registered(d)
    BY <1>14 DEF ReadEnded, Registered, TypeOK, StageInv
  <2> QED BY <1>14, <2>1 DEF ReadEnded, PeersInv, TypeOK
<1>15. ASSUME NEW c \in Conns, DiscardOnLeave(c)
      PROVE  PeersInv'
  <2> SUFFICES ASSUME NEW s \in Conns, NEW r \in Roles, NEW d \in Conns
               PROVE  (peers[s][r] = d <=> Registered(d) /\ sess[d] = s /\ RoleOf[d] = r)'
      BY DEF PeersInv
  <2>1. Registered(d)' <=> Registered(d)
    BY <1>15 DEF DiscardOnLeave, Registered, TypeOK, StageInv
  <2> QED BY <1>15, <2>1 DEF DiscardOnLeave, PeersInv, TypeOK
<1>16. ASSUME NEW c \in Conns, Synthesise(c)
      PROVE  PeersInv'
  <2> SUFFICES ASSUME NEW s \in Conns, NEW r \in Roles, NEW d \in Conns
               PROVE  (peers[s][r] = d <=> Registered(d) /\ sess[d] = s /\ RoleOf[d] = r)'
      BY DEF PeersInv
  <2>1. Registered(d)' <=> Registered(d)
    BY <1>16 DEF Synthesise, Registered, TypeOK, StageInv
  <2> QED BY <1>16, <2>1 DEF Synthesise, PeersInv, TypeOK
<1>17. ASSUME NEW c \in Conns, NoByeDue(c)
      PROVE  PeersInv'
  <2> SUFFICES ASSUME NEW s \in Conns, NEW r \in Roles, NEW d \in Conns
               PROVE  (peers[s][r] = d <=> Registered(d) /\ sess[d] = s /\ RoleOf[d] = r)'
      BY DEF PeersInv
  <2>1. Registered(d)' <=> Registered(d)
    BY <1>17 DEF NoByeDue, Registered, TypeOK, StageInv
  <2> QED BY <1>17, <2>1 DEF NoByeDue, PeersInv, TypeOK
<1>18. ASSUME NEW c \in Conns, DropIfEmpty(c)
      PROVE  PeersInv'
  <2> SUFFICES ASSUME NEW s \in Conns, NEW r \in Roles, NEW d \in Conns
               PROVE  (peers[s][r] = d <=> Registered(d) /\ sess[d] = s /\ RoleOf[d] = r)'
      BY DEF PeersInv
  <2>0. sess[c] \in Conns
    BY <1>18 DEF DropIfEmpty, SessInv
  <2>1. Registered(d)' <=> Registered(d)
    BY <1>18 DEF DropIfEmpty, Registered, TypeOK, StageInv, Forget
  <2> QED BY <1>18, <2>1 DEF DropIfEmpty, PeersInv, TypeOK
<1>19. ASSUME NEW c \in Conns, WritePump(c)
      PROVE  PeersInv'
  <2> SUFFICES ASSUME NEW s \in Conns, NEW r \in Roles, NEW d \in Conns
               PROVE  (peers[s][r] = d <=> Registered(d) /\ sess[d] = s /\ RoleOf[d] = r)'
      BY DEF PeersInv
  <2>1. Registered(d)' <=> Registered(d)
    BY <1>19 DEF WritePump, Registered, TypeOK, StageInv
  <2> QED BY <1>19, <2>1 DEF WritePump, PeersInv, TypeOK
<1> QED
  BY <1>1, <1>2, <1>3, <1>4, <1>5, <1>6, <1>7, <1>8, <1>9, <1>10, <1>11,
     <1>12, <1>13, <1>14, <1>15, <1>16, <1>17, <1>18, <1>19 DEF Next, Handler, Peer

\* Every step keeps the types and the capacities of channels and queues.
LEMMA TypeStep ==
    ASSUME TypeOK, SessInv, FiniteInv, [Next]_vars
    PROVE  TypeOK'
<1> USE DEF hubVars, bufVars, flagVars, outVars
<1>1. CASE UNCHANGED vars
  BY <1>1 DEF vars, TypeOK, PCs, Stages
<1>2. CASE Tick \/ Shutdown \/ Finished
  <2>1. CASE Tick
    BY <2>1 DEF Tick, TypeOK
  <2>2. CASE Shutdown
    BY <2>2 DEF Shutdown, TypeOK
  <2>3. CASE Finished
    BY <2>3 DEF Finished, vars, TypeOK
  <2> QED BY <1>2, <2>1, <2>2, <2>3
<1>3. ASSUME NEW c \in Conns, Reject(c)
      PROVE  TypeOK'
  BY <1>3, Basics DEF Reject, MayDial, TypeOK, PCs, Stages
<1>4. ASSUME NEW c \in Conns, NEW t \in FirstFrames, GetOrCreate(c, t)
      PROVE  TypeOK'
  <2>1. cur' \in [Conns -> Message] /\ nread' \in [Conns -> Nat]
    BY <1>4, FramesAssumption DEF GetOrCreate, MayDial, TypeOK, Message, Types
  <2>2. hub' \in [Keys -> Conns \cup {NoConn}] /\ sess' \in [Conns -> Conns \cup {NoConn}]
    BY <1>4, Basics DEF GetOrCreate, MayDial, TypeOK
  <2>3. pc' \in [Conns -> PCs]
    BY <1>4 DEF GetOrCreate, MayDial, TypeOK, PCs
  <2> QED BY <1>4, <2>1, <2>2, <2>3 DEF GetOrCreate, MayDial, TypeOK
<1>5. ASSUME NEW c \in Conns, NEW t \in Frames, ReadFrame(c, t)
      PROVE  TypeOK'
  <2>1. cur' \in [Conns -> Message] /\ nread' \in [Conns -> Nat]
    BY <1>5, FramesAssumption DEF ReadFrame, TypeOK, Message, Types
  <2>2. /\ negotiated' \in [Conns -> BOOLEAN] /\ saidBye' \in [Conns -> BOOLEAN]
        /\ byeReceived' \in [Conns -> BOOLEAN]
    BY <1>5 DEF ReadFrame, TypeOK
  <2>3. pc' \in [Conns -> PCs]
    BY <1>5 DEF ReadFrame, TypeOK, PCs
  <2> QED BY <1>5, <2>1, <2>2, <2>3 DEF ReadFrame, TypeOK
<1>6. ASSUME NEW c \in Conns, ReadError(c)
      PROVE  TypeOK'
  BY <1>6, Basics DEF ReadError, TypeOK, PCs, Stages
<1>7. ASSUME NEW c \in Conns, RegisterOk(c)
      PROVE  TypeOK'
  <2> DEFINE s == sess[c]
              o == Other(RoleOf[c])
  <2>0. s \in Conns /\ o \in Roles /\ RoleOf[c] \in Roles
    BY <1>7, Basics DEF RegisterOk, SessInv, PCs, TypeOK, PCs, Stages
  <2>1. SdpReplay(s, o) \in SUBSET Entry /\ IsFiniteSet(SdpReplay(s, o))
    BY <2>0, FS_Subset DEF SdpReplay, FiniteInv, TypeOK
  <2>2. IsFiniteSet(IceReplay(s, o))
    <3>1. DOMAIN recentICE[s][o] = 1..Len(recentICE[s][o]) /\ Len(recentICE[s][o]) \in Nat
      BY <2>0 DEF TypeOK
    <3>2. IsFiniteSet(1..Len(recentICE[s][o]))
      BY <3>1, FS_Interval
    <3>3. IceReplay(s, o) \subseteq 1..Len(recentICE[s][o])
      BY <3>1 DEF IceReplay
    <3> QED BY <3>2, <3>3, FS_Subset
  <2>3. Cardinality(SdpReplay(s, o)) \in Nat /\ Cardinality(IceReplay(s, o)) \in Nat
    BY <2>1, <2>2, FS_CardinalityType
  <2>4. Fill(0, Cardinality(SdpReplay(s, o)) + Cardinality(IceReplay(s, o))) \in 0..SendBuffer
    BY <2>3, SendBufferAssumption DEF Fill
  <2>5. {e.m : e \in SdpReplay(s, o)} \in SUBSET Message
    BY <2>1 DEF Entry
  <2>6. queued' \in [Conns -> 0..SendBuffer]
    BY <1>7, <2>4 DEF RegisterOk, TypeOK
  <2>7. handed' \in [Conns -> SUBSET Message]
    BY <1>7, <2>5 DEF RegisterOk, TypeOK
  <2>8. recent' \in [Conns -> [Roles -> SUBSET Entry]]
    BY <1>7, <2>0, <2>1 DEF RegisterOk, TypeOK
  <2>9. peers' \in [Conns -> [Roles -> Conns \cup {NoConn}]]
    BY <1>7, <2>0 DEF RegisterOk, TypeOK
  <2>10. pc' \in [Conns -> PCs]
    BY <1>7 DEF RegisterOk, TypeOK, PCs
  <2> QED BY <1>7, <2>6, <2>7, <2>8, <2>9, <2>10 DEF RegisterOk, TypeOK
<1>8. ASSUME NEW c \in Conns, RegisterDuplicate(c)
      PROVE  TypeOK'
  BY <1>8, Basics DEF RegisterDuplicate, TypeOK, PCs, Stages
<1>9. ASSUME NEW c \in Conns, AdviseIfAlone(c)
      PROVE  TypeOK'
  <2>1. queued' \in [Conns -> 0..SendBuffer] /\ handed' \in [Conns -> SUBSET Message]
    <3>1. CASE UNCHANGED outVars
      BY <3>1 DEF TypeOK
    <3>2. CASE Enqueue(c, PeerAbsent(c))
      BY <3>2, SendBufferAssumption DEF TypeOK, Enqueue, Fill, PeerAbsent, replayableTypes
    <3> QED BY <1>9, <3>1, <3>2 DEF AdviseIfAlone
  <2>2. pc' \in [Conns -> PCs] /\ stage' \in [Conns -> Stages]
    BY <1>9 DEF AdviseIfAlone, TypeOK, PCs, Stages
  <2> QED BY <1>9, <2>1, <2>2 DEF AdviseIfAlone, TypeOK
<1>10. ASSUME NEW c \in Conns, Forward(c)
      PROVE  TypeOK'
  <2> DEFINE s == sess[c]
              m == cur[c]
  <2>0. s \in Conns /\ RoleOf[c] \in Roles /\ Other(RoleOf[c]) \in Roles /\ m \in Message
    BY <1>10, Basics DEF Forward, Counterpart, SessInv, PCs, TypeOK
  <2>1. Stamp(m) \in Entry
    BY <2>0 DEF Stamp, Entry, TypeOK
  <2>2. recent' \in [Conns -> [Roles -> SUBSET Entry]]
    BY <1>10, <2>0, <2>1 DEF Forward, Counterpart, TypeOK
  <2>3. ASSUME NEW q \in Seq(Entry), Len(q) <= IceReplayMaxPerSender
        PROVE  /\ PushICE(q, Stamp(m)) \in Seq(Entry)
               /\ Len(PushICE(q, Stamp(m))) <= IceReplayMaxPerSender
    BY <2>1, <2>3, IceMaxAssumption DEF PushICE
  <2>4. /\ recentICE[s][RoleOf[c]] \in Seq(Entry)
        /\ Len(recentICE[s][RoleOf[c]]) <= IceReplayMaxPerSender
    BY <2>0 DEF TypeOK
  <2>5. /\ recentICE' \in [Conns -> [Roles -> Seq(Entry)]]
        /\ \A u \in Conns, r \in Roles : Len(recentICE'[u][r]) <= IceReplayMaxPerSender
    <3>1. CASE recentICE' = recentICE
      BY <3>1 DEF TypeOK
    <3>2. CASE recentICE' = [recentICE EXCEPT ![s][RoleOf[c]] = PushICE(@, Stamp(m))]
      BY <3>2, <2>0, <2>3, <2>4 DEF TypeOK
    <3> QED BY <1>10, <3>1, <3>2 DEF Forward, Counterpart
  <2>6. target' \in [Conns -> Conns \cup {NoConn}] /\ byeReceived' \in [Conns -> BOOLEAN]
    <3>1. peers[s][Other(RoleOf[c])] \in Conns \cup {NoConn}
      BY <2>0 DEF TypeOK
    <3> QED BY <1>10, <3>1 DEF Forward, Counterpart, TypeOK
  <2>7. pc' \in [Conns -> PCs]
    BY <1>10 DEF Forward, Counterpart, TypeOK, PCs
  <2> QED BY <1>10, <2>2, <2>5, <2>6, <2>7 DEF Forward, Counterpart, TypeOK
<1>11. ASSUME NEW c \in Conns, Send(c)
      PROVE  TypeOK'
  <2>1. queued' \in [Conns -> 0..SendBuffer] /\ handed' \in [Conns -> SUBSET Message]
    <3>1. CASE UNCHANGED outVars
      BY <3>1 DEF TypeOK
    <3>2. CASE target[c] # NoConn /\ Enqueue(target[c], cur[c])
      <4>1. target[c] \in Conns /\ cur[c] \in Message
        BY <3>2 DEF TypeOK
      <4> QED BY <3>2, <4>1, SendBufferAssumption DEF TypeOK, Enqueue, Fill
    <3> QED BY <1>11, <3>1, <3>2 DEF Send
  <2>2. pc' \in [Conns -> PCs] /\ stage' \in [Conns -> Stages]
    BY <1>11 DEF Send, AfterForward, TypeOK, PCs, Stages
  <2> QED BY <1>11, <2>1, <2>2 DEF Send, TypeOK
<1>12. ASSUME NEW c \in Conns, DiscardOnBye(c)
      PROVE  TypeOK'
  <2>0. sess[c] \in Conns
    BY <1>12 DEF DiscardOnBye, SessInv, PCs, TypeOK, PCs, Stages
  <2>1. /\ recent' \in [Conns -> [Roles -> SUBSET Entry]]
        /\ recentICE' \in [Conns -> [Roles -> Seq(Entry)]]
        /\ \A u \in Conns, r \in Roles : Len(recentICE'[u][r]) <= IceReplayMaxPerSender
    BY <1>12, <2>0, IceMaxAssumption DEF DiscardOnBye, Discard, TypeOK
  <2>2. saidBye' \in [Conns -> BOOLEAN] /\ pc' \in [Conns -> PCs]
    BY <1>12 DEF DiscardOnBye, TypeOK, PCs
  <2> QED BY <1>12, <2>1, <2>2 DEF DiscardOnBye, TypeOK
<1>13. ASSUME NEW c \in Conns, Unregister(c)
      PROVE  TypeOK'
  <2>0. sess[c] \in Conns
    BY <1>13 DEF Unregister, SessInv, PCs, TypeOK, PCs, Stages
  <2> QED BY <1>13, <2>0, Basics DEF Unregister, TypeOK, PCs
<1>14. ASSUME NEW c \in Conns, ReadEnded(c)
      PROVE  TypeOK'
  BY <1>14, Basics DEF ReadEnded, TypeOK, PCs, Stages
<1>15. ASSUME NEW c \in Conns, DiscardOnLeave(c)
      PROVE  TypeOK'
  <2>0. sess[c] \in Conns
    BY <1>15 DEF DiscardOnLeave, SessInv, PCs, TypeOK, PCs, Stages
  <2>1. /\ recent' \in [Conns -> [Roles -> SUBSET Entry]]
        /\ recentICE' \in [Conns -> [Roles -> Seq(Entry)]]
        /\ \A u \in Conns, r \in Roles : Len(recentICE'[u][r]) <= IceReplayMaxPerSender
    BY <1>15, <2>0, IceMaxAssumption DEF DiscardOnLeave, Discard, TypeOK
  <2>2. pc' \in [Conns -> PCs]
    BY <1>15 DEF DiscardOnLeave, TypeOK, PCs
  <2> QED BY <1>15, <2>1, <2>2 DEF DiscardOnLeave, TypeOK
<1>16. ASSUME NEW c \in Conns, Synthesise(c)
      PROVE  TypeOK'
  <2>1. cur' \in [Conns -> Message] /\ pc' \in [Conns -> PCs]
    BY <1>16 DEF Synthesise, SynthesisedBye, TypeOK, Message, Types, validTypes, PCs
  <2> QED BY <1>16, <2>1 DEF Synthesise, TypeOK
<1>17. ASSUME NEW c \in Conns, NoByeDue(c)
      PROVE  TypeOK'
  BY <1>17, Basics DEF NoByeDue, TypeOK, PCs, Stages
<1>18. ASSUME NEW c \in Conns, DropIfEmpty(c)
      PROVE  TypeOK'
  <2>1. cur' \in [Conns -> Message] /\ queued' \in [Conns -> 0..SendBuffer]
    BY <1>18, SendBufferAssumption DEF DropIfEmpty, Forget, NoFrame, TypeOK, Message, Types
  <2>2. hub' \in [Keys -> Conns \cup {NoConn}]
    BY <1>18, Basics DEF DropIfEmpty, TypeOK
  <2>3. pc' \in [Conns -> PCs]
    BY <1>18 DEF DropIfEmpty, TypeOK, PCs
  <2>4. /\ ended' \in [Conns -> BOOLEAN] /\ negotiated' \in [Conns -> BOOLEAN]
        /\ saidBye' \in [Conns -> BOOLEAN] /\ byeReceived' \in [Conns -> BOOLEAN]
        /\ handed' \in [Conns -> SUBSET Message]
    BY <1>18 DEF DropIfEmpty, Forget, TypeOK
  <2> QED BY <1>18, <2>1, <2>2, <2>3, <2>4 DEF DropIfEmpty, TypeOK
<1>19. ASSUME NEW c \in Conns, WritePump(c)
      PROVE  TypeOK'
  <2>1. queued' \in [Conns -> 0..SendBuffer]
    BY <1>19, SendBufferAssumption DEF WritePump, TypeOK
  <2> QED BY <1>19, <2>1 DEF WritePump, TypeOK
<1> QED
  BY <1>1, <1>2, <1>3, <1>4, <1>5, <1>6, <1>7, <1>8, <1>9, <1>10, <1>11,
     <1>12, <1>13, <1>14, <1>15, <1>16, <1>17, <1>18, <1>19 DEF Next, Handler, Peer

\* Every step keeps the replay buffers finite, so that Cardinality is a number.
LEMMA FiniteStep ==
    ASSUME TypeOK, SessInv, FiniteInv, [Next]_vars
    PROVE  FiniteInv'
<1> USE DEF hubVars, bufVars, flagVars, outVars, FiniteInv
<1>1. CASE UNCHANGED vars
  BY <1>1 DEF vars
<1>2. CASE Tick \/ Shutdown \/ Finished
  BY <1>2 DEF Tick, Shutdown, Finished, vars
<1>3. ASSUME NEW c \in Conns, Reject(c)
      PROVE  FiniteInv'
  BY <1>3, Basics DEF Reject, MayDial
<1>4. ASSUME NEW c \in Conns, NEW t \in FirstFrames, GetOrCreate(c, t)
      PROVE  FiniteInv'
  BY <1>4, Basics DEF GetOrCreate, MayDial
<1>5. ASSUME NEW c \in Conns, NEW t \in Frames, ReadFrame(c, t)
      PROVE  FiniteInv'
  BY <1>5, Basics DEF ReadFrame
<1>6. ASSUME NEW c \in Conns, ReadError(c)
      PROVE  FiniteInv'
  BY <1>6, Basics DEF ReadError
<1>7. ASSUME NEW c \in Conns, RegisterOk(c)
      PROVE  FiniteInv'
  <2>0. sess[c] \in Conns
    BY <1>7 DEF RegisterOk, SessInv
  <2>1. IsFiniteSet(SdpReplay(sess[c], Other(RoleOf[c])))
    BY <2>0, Basics, FS_Subset DEF SdpReplay, FiniteInv
  <2> QED BY <1>7, <2>0, <2>1, Basics DEF RegisterOk, FiniteInv, TypeOK
<1>8. ASSUME NEW c \in Conns, RegisterDuplicate(c)
      PROVE  FiniteInv'
  BY <1>8, Basics DEF RegisterDuplicate
<1>9. ASSUME NEW c \in Conns, AdviseIfAlone(c)
      PROVE  FiniteInv'
  BY <1>9, Basics DEF AdviseIfAlone
<1>10. ASSUME NEW c \in Conns, Forward(c)
      PROVE  FiniteInv'
  <2>0. sess[c] \in Conns /\ RoleOf[c] \in Roles
    BY <1>10, Basics DEF Forward, Counterpart, SessInv
  <2> DEFINE kept == {e \in recent[sess[c]][RoleOf[c]] : e.m.type # cur[c].type}
  <2>1. IsFiniteSet(kept)
    BY <2>0, FS_Subset DEF FiniteInv
  <2>2. IsFiniteSet(kept \cup {Stamp(cur[c])})
    BY <2>1, FS_AddElement
  <2>3. CASE recent' = recent
    BY <2>3 DEF FiniteInv
  <2>4. CASE recent' = [recent EXCEPT ![sess[c]][RoleOf[c]] = kept \cup {Stamp(cur[c])}]
    BY <2>0, <2>2, <2>4 DEF FiniteInv, TypeOK
  <2> QED BY <1>10, <2>3, <2>4 DEF Forward, Counterpart
<1>11. ASSUME NEW c \in Conns, Send(c)
      PROVE  FiniteInv'
  BY <1>11, Basics DEF Send
<1>12. ASSUME NEW c \in Conns, DiscardOnBye(c)
      PROVE  FiniteInv'
  <2>0. sess[c] \in Conns
    BY <1>12 DEF DiscardOnBye, SessInv
  <2> QED BY <1>12, <2>0, FS_EmptySet DEF DiscardOnBye, Discard, FiniteInv, TypeOK
<1>13. ASSUME NEW c \in Conns, Unregister(c)
      PROVE  FiniteInv'
  BY <1>13, Basics DEF Unregister
<1>14. ASSUME NEW c \in Conns, ReadEnded(c)
      PROVE  FiniteInv'
  BY <1>14, Basics DEF ReadEnded
<1>15. ASSUME NEW c \in Conns, DiscardOnLeave(c)
      PROVE  FiniteInv'
  <2>0. sess[c] \in Conns
    BY <1>15 DEF DiscardOnLeave, SessInv
  <2> QED BY <1>15, <2>0, FS_EmptySet DEF DiscardOnLeave, Discard, FiniteInv, TypeOK
<1>16. ASSUME NEW c \in Conns, Synthesise(c)
      PROVE  FiniteInv'
  BY <1>16, Basics DEF Synthesise
<1>17. ASSUME NEW c \in Conns, NoByeDue(c)
      PROVE  FiniteInv'
  BY <1>17, Basics DEF NoByeDue
<1>18. ASSUME NEW c \in Conns, DropIfEmpty(c)
      PROVE  FiniteInv'
  BY <1>18, Basics DEF DropIfEmpty
<1>19. ASSUME NEW c \in Conns, WritePump(c)
      PROVE  FiniteInv'
  BY <1>19, Basics DEF WritePump
<1> QED
  BY <1>1, <1>2, <1>3, <1>4, <1>5, <1>6, <1>7, <1>8, <1>9, <1>10, <1>11,
     <1>12, <1>13, <1>14, <1>15, <1>16, <1>17, <1>18, <1>19 DEF Next, Handler, Peer

\* Every step keeps a role's buffer filled by connections of that role and session.
LEMMA BufStep ==
    ASSUME TypeOK, SessInv, CurInv, BufInv, [Next]_vars
    PROVE  BufInv'
<1> USE DEF hubVars, bufVars, flagVars, outVars, BufInv
<1>1. CASE UNCHANGED vars
  BY <1>1 DEF vars
<1>2. CASE Tick \/ Shutdown \/ Finished
  BY <1>2 DEF Tick, Shutdown, Finished, vars
<1>3. ASSUME NEW c \in Conns, Reject(c)
      PROVE  BufInv'
  BY <1>3, Basics DEF Reject, MayDial
<1>4. ASSUME NEW c \in Conns, NEW t \in FirstFrames, GetOrCreate(c, t)
      PROVE  BufInv'
  <2>1. ASSUME NEW s \in Conns, NEW r \in Roles, NEW e \in recent[s][r]
        PROVE  e.m.from \in Conns /\ e.m.from # c
    BY <1>4, <2>1, NoConnAssumption DEF GetOrCreate, MayDial, BufInv, SessInv, TypeOK, Entry, Message
  <2>2. recent' = recent /\ \A d \in Conns : d # c => sess'[d] = sess[d]
    BY <1>4 DEF GetOrCreate, MayDial, TypeOK
  <2> QED BY <2>1, <2>2 DEF BufInv
<1>5. ASSUME NEW c \in Conns, NEW t \in Frames, ReadFrame(c, t)
      PROVE  BufInv'
  BY <1>5, Basics DEF ReadFrame
<1>6. ASSUME NEW c \in Conns, ReadError(c)
      PROVE  BufInv'
  BY <1>6, Basics DEF ReadError
<1>7. ASSUME NEW c \in Conns, RegisterOk(c)
      PROVE  BufInv'
  <2>0. sess[c] \in Conns
    BY <1>7 DEF RegisterOk, SessInv
  <2>1. \A s \in Conns, r \in Roles : recent'[s][r] \subseteq recent[s][r]
    BY <1>7, <2>0, Basics DEF RegisterOk, SdpReplay, TypeOK
  <2>2. sess' = sess
    BY <1>7 DEF RegisterOk
  <2> QED BY <2>1, <2>2 DEF BufInv
<1>8. ASSUME NEW c \in Conns, RegisterDuplicate(c)
      PROVE  BufInv'
  BY <1>8, Basics DEF RegisterDuplicate
<1>9. ASSUME NEW c \in Conns, AdviseIfAlone(c)
      PROVE  BufInv'
  BY <1>9, Basics DEF AdviseIfAlone
<1>10. ASSUME NEW c \in Conns, Forward(c)
      PROVE  BufInv'
  <2>0. sess[c] \in Conns /\ RoleOf[c] \in Roles
    BY <1>10, Basics DEF Forward, Counterpart, SessInv
  <2>1. ASSUME NEW s \in Conns, NEW r \in Roles, NEW e \in recent'[s][r]
        PROVE  \/ e \in recent[s][r]
               \/ /\ s = sess[c] /\ r = RoleOf[c] /\ e = Stamp(cur[c])
                  /\ cur[c].type \in replayableTypes
    BY <1>10, <2>0 DEF Forward, Counterpart, TypeOK
  <2>2. Stamp(cur[c]).m = cur[c] /\ cur[c].from = c
    BY DEF Stamp, CurInv
  <2>3. sess' = sess
    BY <1>10 DEF Forward, Counterpart
  <2> QED BY <2>0, <2>1, <2>2, <2>3 DEF BufInv
<1>11. ASSUME NEW c \in Conns, Send(c)
      PROVE  BufInv'
  BY <1>11, Basics DEF Send
<1>12. ASSUME NEW c \in Conns, DiscardOnBye(c)
      PROVE  BufInv'
  <2>0. sess[c] \in Conns
    BY <1>12 DEF DiscardOnBye, SessInv
  <2>1. \A s \in Conns, r \in Roles : recent'[s][r] \subseteq recent[s][r]
    BY <1>12, <2>0 DEF DiscardOnBye, Discard, TypeOK
  <2>2. sess' = sess
    BY <1>12 DEF DiscardOnBye
  <2> QED BY <2>1, <2>2 DEF BufInv
<1>13. ASSUME NEW c \in Conns, Unregister(c)
      PROVE  BufInv'
  BY <1>13, Basics DEF Unregister
<1>14. ASSUME NEW c \in Conns, ReadEnded(c)
      PROVE  BufInv'
  BY <1>14, Basics DEF ReadEnded
<1>15. ASSUME NEW c \in Conns, DiscardOnLeave(c)
      PROVE  BufInv'
  <2>0. sess[c] \in Conns
    BY <1>15 DEF DiscardOnLeave, SessInv
  <2>1. \A s \in Conns, r \in Roles : recent'[s][r] \subseteq recent[s][r]
    BY <1>15, <2>0 DEF DiscardOnLeave, Discard, TypeOK
  <2>2. sess' = sess
    BY <1>15 DEF DiscardOnLeave
  <2> QED BY <2>1, <2>2 DEF BufInv
<1>16. ASSUME NEW c \in Conns, Synthesise(c)
      PROVE  BufInv'
  BY <1>16, Basics DEF Synthesise
<1>17. ASSUME NEW c \in Conns, NoByeDue(c)
      PROVE  BufInv'
  BY <1>17, Basics DEF NoByeDue
<1>18. ASSUME NEW c \in Conns, DropIfEmpty(c)
      PROVE  BufInv'
  BY <1>18, Basics DEF DropIfEmpty
<1>19. ASSUME NEW c \in Conns, WritePump(c)
      PROVE  BufInv'
  BY <1>19, Basics DEF WritePump
<1> QED
  BY <1>1, <1>2, <1>3, <1>4, <1>5, <1>6, <1>7, <1>8, <1>9, <1>10, <1>11,
     <1>12, <1>13, <1>14, <1>15, <1>16, <1>17, <1>18, <1>19 DEF Next, Handler, Peer

\* A handler that leaves target alone, and is neither sent to nor made to wait
\* again, keeps every send's target.
LEMMA TargetKept ==
    ASSUME TypeOK, TargetInv, NEW c \in Conns, target' = target,
           \A d \in Conns : d # c => pc'[d] = pc[d], pc'[c] # "send",
           pc'[c] \in {"idle", "register"} => pc[c] \in {"idle", "register"}
    PROVE  TargetInv'
<1> SUFFICES ASSUME NEW d \in Conns, pc'[d] = "send", target'[d] # NoConn
             PROVE  /\ KeyOf[target'[d]] = KeyOf[d]
                    /\ RoleOf[target'[d]] = Other(RoleOf[d])
                    /\ pc'[target'[d]] \notin {"idle", "register"}
  BY DEF TargetInv
<1>1. pc[d] = "send" /\ target[d] \in Conns /\ target'[d] = target[d]
  BY DEF TypeOK
<1>2. /\ KeyOf[target[d]] = KeyOf[d] /\ RoleOf[target[d]] = Other(RoleOf[d])
      /\ pc[target[d]] \notin {"idle", "register"}
  BY <1>1 DEF TargetInv
<1> QED BY <1>1, <1>2

\* Every step keeps forward's target a counterpart that had registered in the
\* same session.
LEMMA TargetStep ==
    ASSUME TypeOK, SessInv, PeersInv, TargetInv, [Next]_vars
    PROVE  TargetInv'
<1> USE DEF hubVars, bufVars, flagVars, outVars
<1>1. CASE UNCHANGED vars
  BY <1>1 DEF vars, TargetInv, TypeOK
<1>2. CASE Tick \/ Shutdown \/ Finished
  BY <1>2 DEF Tick, Shutdown, Finished, vars, TargetInv, TypeOK
<1>3. ASSUME NEW c \in Conns, Reject(c)
      PROVE  TargetInv'
  <2>1. target' = target /\ \A d \in Conns : d # c => pc'[d] = pc[d]
    BY <1>3 DEF Reject, MayDial, TypeOK
  <2>2. pc'[c] # "send" /\ (pc'[c] \in {"idle", "register"} => pc[c] \in {"idle", "register"})
    BY <1>3 DEF Reject, MayDial, TypeOK
  <2> QED BY <2>1, <2>2, TargetKept
<1>4. ASSUME NEW c \in Conns, NEW t \in FirstFrames, GetOrCreate(c, t)
      PROVE  TargetInv'
  <2>1. target' = target /\ \A d \in Conns : d # c => pc'[d] = pc[d]
    BY <1>4 DEF GetOrCreate, MayDial, TypeOK
  <2>2. pc'[c] # "send" /\ (pc'[c] \in {"idle", "register"} => pc[c] \in {"idle", "register"})
    BY <1>4 DEF GetOrCreate, MayDial, TypeOK
  <2> QED BY <2>1, <2>2, TargetKept
<1>5. ASSUME NEW c \in Conns, NEW t \in Frames, ReadFrame(c, t)
      PROVE  TargetInv'
  <2>1. target' = target /\ \A d \in Conns : d # c => pc'[d] = pc[d]
    BY <1>5 DEF ReadFrame, TypeOK
  <2>2. pc'[c] # "send" /\ (pc'[c] \in {"idle", "register"} => pc[c] \in {"idle", "register"})
    BY <1>5 DEF ReadFrame, TypeOK
  <2> QED BY <2>1, <2>2, TargetKept
<1>6. ASSUME NEW c \in Conns, ReadError(c)
      PROVE  TargetInv'
  <2>1. target' = target /\ \A d \in Conns : d # c => pc'[d] = pc[d]
    BY <1>6 DEF ReadError, TypeOK
  <2>2. pc'[c] # "send" /\ (pc'[c] \in {"idle", "register"} => pc[c] \in {"idle", "register"})
    BY <1>6 DEF ReadError, TypeOK
  <2> QED BY <2>1, <2>2, TargetKept
<1>7. ASSUME NEW c \in Conns, RegisterOk(c)
      PROVE  TargetInv'
  <2>1. target' = target /\ \A d \in Conns : d # c => pc'[d] = pc[d]
    BY <1>7 DEF RegisterOk, TypeOK
  <2>2. pc'[c] # "send" /\ (pc'[c] \in {"idle", "register"} => pc[c] \in {"idle", "register"})
    BY <1>7 DEF RegisterOk, TypeOK
  <2> QED BY <2>1, <2>2, TargetKept
<1>8. ASSUME NEW c \in Conns, RegisterDuplicate(c)
      PROVE  TargetInv'
  <2>1. target' = target /\ \A d \in Conns : d # c => pc'[d] = pc[d]
    BY <1>8 DEF RegisterDuplicate, TypeOK
  <2>2. pc'[c] # "send" /\ (pc'[c] \in {"idle", "register"} => pc[c] \in {"idle", "register"})
    BY <1>8 DEF RegisterDuplicate, TypeOK
  <2> QED BY <2>1, <2>2, TargetKept
<1>9. ASSUME NEW c \in Conns, AdviseIfAlone(c)
      PROVE  TargetInv'
  <2>1. pc'[c] \notin {"idle", "register", "send"}
    BY <1>9 DEF AdviseIfAlone, TypeOK
  <2>2. target' = target /\ \A d \in Conns : d # c => pc'[d] = pc[d]
    BY <1>9 DEF AdviseIfAlone, TypeOK
  <2> QED BY <2>1, <2>2, TargetKept
<1>10. ASSUME NEW c \in Conns, Forward(c)
      PROVE  TargetInv'
  <2> DEFINE to == peers[sess[c]][Other(RoleOf[c])]
  <2>0. sess[c] \in Conns
    BY <1>10 DEF Forward, Counterpart, SessInv
  <2>1. target'[c] = to /\ \A d \in Conns : d # c => target'[d] = target[d]
    BY <1>10 DEF Forward, Counterpart, TypeOK
  <2>2. pc'[c] = "send" /\ \A d \in Conns : d # c => pc'[d] = pc[d]
    BY <1>10 DEF Forward, Counterpart, TypeOK
  <2>3. to # NoConn => /\ to \in Conns /\ Registered(to)
                       /\ sess[to] = sess[c] /\ RoleOf[to] = Other(RoleOf[c])
    <3>1. Other(RoleOf[c]) \in Roles
      BY Basics
    <3>2. to \in Conns \cup {NoConn}
      BY <2>0, <3>1 DEF TypeOK
    <3> QED BY <2>0, <3>1, <3>2 DEF PeersInv
  <2>4. to # NoConn => to # c
    BY <2>3, Basics
  <2>5. to # NoConn => KeyOf[to] = KeyOf[c]
    BY <2>0, <2>3 DEF SessInv
  <2>6. to # NoConn => pc[to] \notin {"idle", "register"}
    BY <2>3 DEF Registered
  <2> SUFFICES ASSUME NEW d \in Conns, pc'[d] = "send", target'[d] # NoConn
               PROVE  /\ KeyOf[target'[d]] = KeyOf[d]
                      /\ RoleOf[target'[d]] = Other(RoleOf[d])
                      /\ pc'[target'[d]] \notin {"idle", "register"}
      BY DEF TargetInv
  <2>7. CASE d = c
    BY <2>1, <2>2, <2>3, <2>4, <2>5, <2>6, <2>7
  <2>8. CASE d # c
    <3>1. target[d] \in Conns /\ target'[d] = target[d] /\ pc[d] = "send"
      BY <2>1, <2>2, <2>8 DEF TypeOK
    <3>2. pc'[target[d]] \notin {"idle", "register"}
      BY <2>2, <3>1, NoConnAssumption DEF TargetInv
    <3> QED BY <3>1, <3>2, NoConnAssumption DEF TargetInv
  <2> QED BY <2>7, <2>8
<1>11. ASSUME NEW c \in Conns, Send(c)
      PROVE  TargetInv'
  <2>1. pc'[c] \notin {"idle", "register", "send"}
    BY <1>11 DEF Send, AfterForward, TypeOK
  <2>2. \A d \in Conns : d # c => pc'[d] = pc[d] /\ target'[d] = target[d]
    BY <1>11 DEF Send, TypeOK
  <2> SUFFICES ASSUME NEW d \in Conns, pc'[d] = "send", target'[d] # NoConn
               PROVE  /\ KeyOf[target'[d]] = KeyOf[d]
                      /\ RoleOf[target'[d]] = Other(RoleOf[d])
                      /\ pc'[target'[d]] \notin {"idle", "register"}
    BY DEF TargetInv
  <2>3. d # c /\ pc[d] = "send" /\ target'[d] = target[d]
    BY <2>1, <2>2
  <2>4. target[d] \in Conns
    BY <2>3 DEF TypeOK
  <2>5. pc[target[d]] \notin {"idle", "register"}
    BY <2>3 DEF TargetInv
  <2>6. pc'[target[d]] \notin {"idle", "register"}
    BY <2>1, <2>2, <2>4, <2>5
  <2> QED BY <2>3, <2>6 DEF TargetInv
<1>12. ASSUME NEW c \in Conns, DiscardOnBye(c)
      PROVE  TargetInv'
  <2>1. target' = target /\ \A d \in Conns : d # c => pc'[d] = pc[d]
    BY <1>12 DEF DiscardOnBye, TypeOK
  <2>2. pc'[c] # "send" /\ (pc'[c] \in {"idle", "register"} => pc[c] \in {"idle", "register"})
    BY <1>12 DEF DiscardOnBye, TypeOK
  <2> QED BY <2>1, <2>2, TargetKept
<1>13. ASSUME NEW c \in Conns, Unregister(c)
      PROVE  TargetInv'
  <2>1. target' = target /\ \A d \in Conns : d # c => pc'[d] = pc[d]
    BY <1>13 DEF Unregister, TypeOK
  <2>2. pc'[c] # "send" /\ (pc'[c] \in {"idle", "register"} => pc[c] \in {"idle", "register"})
    BY <1>13 DEF Unregister, TypeOK
  <2> QED BY <2>1, <2>2, TargetKept
<1>14. ASSUME NEW c \in Conns, ReadEnded(c)
      PROVE  TargetInv'
  <2>1. target' = target /\ \A d \in Conns : d # c => pc'[d] = pc[d]
    BY <1>14 DEF ReadEnded, TypeOK
  <2>2. pc'[c] # "send" /\ (pc'[c] \in {"idle", "register"} => pc[c] \in {"idle", "register"})
    BY <1>14 DEF ReadEnded, TypeOK
  <2> QED BY <2>1, <2>2, TargetKept
<1>15. ASSUME NEW c \in Conns, DiscardOnLeave(c)
      PROVE  TargetInv'
  <2>1. target' = target /\ \A d \in Conns : d # c => pc'[d] = pc[d]
    BY <1>15 DEF DiscardOnLeave, TypeOK
  <2>2. pc'[c] # "send" /\ (pc'[c] \in {"idle", "register"} => pc[c] \in {"idle", "register"})
    BY <1>15 DEF DiscardOnLeave, TypeOK
  <2> QED BY <2>1, <2>2, TargetKept
<1>16. ASSUME NEW c \in Conns, Synthesise(c)
      PROVE  TargetInv'
  <2>1. target' = target /\ \A d \in Conns : d # c => pc'[d] = pc[d]
    BY <1>16 DEF Synthesise, TypeOK
  <2>2. pc'[c] # "send" /\ (pc'[c] \in {"idle", "register"} => pc[c] \in {"idle", "register"})
    BY <1>16 DEF Synthesise, TypeOK
  <2> QED BY <2>1, <2>2, TargetKept
<1>17. ASSUME NEW c \in Conns, NoByeDue(c)
      PROVE  TargetInv'
  <2>1. target' = target /\ \A d \in Conns : d # c => pc'[d] = pc[d]
    BY <1>17 DEF NoByeDue, TypeOK
  <2>2. pc'[c] # "send" /\ (pc'[c] \in {"idle", "register"} => pc[c] \in {"idle", "register"})
    BY <1>17 DEF NoByeDue, TypeOK
  <2> QED BY <2>1, <2>2, TargetKept
<1>18. ASSUME NEW c \in Conns, DropIfEmpty(c)
      PROVE  TargetInv'
  <2>1. target' = target /\ \A d \in Conns : d # c => pc'[d] = pc[d]
    BY <1>18 DEF DropIfEmpty, TypeOK
  <2>2. pc'[c] # "send" /\ (pc'[c] \in {"idle", "register"} => pc[c] \in {"idle", "register"})
    BY <1>18 DEF DropIfEmpty, TypeOK
  <2> QED BY <2>1, <2>2, TargetKept
<1>19. ASSUME NEW c \in Conns, WritePump(c)
      PROVE  TargetInv'
  BY <1>19, Basics DEF WritePump, TargetInv, TypeOK
<1> QED
  BY <1>1, <1>2, <1>3, <1>4, <1>5, <1>6, <1>7, <1>8, <1>9, <1>10, <1>11,
     <1>12, <1>13, <1>14, <1>15, <1>16, <1>17, <1>18, <1>19 DEF Next, Handler, Peer

\* What is older stays older.
LEMMA OlderStep ==
    ASSUME TypeOK, StageInv, CountInv, [Next]_vars
    PROVE  \A m \in Message : Older(m) => Older(m)'
<1> SUFFICES ASSUME NEW m \in Message, Older(m)
             PROVE  Older(m)'
    OBVIOUS
<1>0. m.from \in Conns /\ m.n \in Nat
  BY DEF Message
<1> USE DEF hubVars, bufVars, flagVars, outVars
<1>1. CASE UNCHANGED vars
  BY <1>1, <1>0 DEF vars, Older, TypeOK, StageInv, CountInv
<1>2. CASE Tick \/ Shutdown \/ Finished
  BY <1>2, <1>0 DEF Tick, Shutdown, Finished, vars, Older, TypeOK, StageInv, CountInv
<1>3. ASSUME NEW c \in Conns, Reject(c)
      PROVE  Older(m)'
  BY <1>3, <1>0 DEF Reject, MayDial, Older, TypeOK, StageInv, CountInv
<1>4. ASSUME NEW c \in Conns, NEW t \in FirstFrames, GetOrCreate(c, t)
      PROVE  Older(m)'
  BY <1>4, <1>0 DEF GetOrCreate, MayDial, Older, TypeOK, StageInv, CountInv
<1>5. ASSUME NEW c \in Conns, NEW t \in Frames, ReadFrame(c, t)
      PROVE  Older(m)'
  BY <1>5, <1>0 DEF ReadFrame, Older, TypeOK, StageInv, CountInv
<1>6. ASSUME NEW c \in Conns, ReadError(c)
      PROVE  Older(m)'
  BY <1>6, <1>0 DEF ReadError, Older, TypeOK, StageInv, CountInv
<1>7. ASSUME NEW c \in Conns, RegisterOk(c)
      PROVE  Older(m)'
  BY <1>7, <1>0 DEF RegisterOk, Older, TypeOK, StageInv, CountInv
<1>8. ASSUME NEW c \in Conns, RegisterDuplicate(c)
      PROVE  Older(m)'
  BY <1>8, <1>0 DEF RegisterDuplicate, Older, TypeOK, StageInv, CountInv
<1>9. ASSUME NEW c \in Conns, AdviseIfAlone(c)
      PROVE  Older(m)'
  <2>1. stage[c] = "first" /\ nread' = nread /\ pc[c] = "peerPresent"
    BY <1>9 DEF AdviseIfAlone, StageInv
  <2>2. \A d \in Conns : d # c => pc'[d] = pc[d] /\ stage'[d] = stage[d]
    BY <1>9 DEF AdviseIfAlone, TypeOK
  <2> QED BY <1>0, <2>1, <2>2 DEF Older
<1>10. ASSUME NEW c \in Conns, Forward(c)
      PROVE  Older(m)'
  BY <1>10, <1>0 DEF Forward, Counterpart, Older, TypeOK, StageInv, CountInv
<1>11. ASSUME NEW c \in Conns, Send(c)
      PROVE  Older(m)'
  BY <1>11, <1>0 DEF Send, AfterForward, Older, TypeOK, StageInv, CountInv
<1>12. ASSUME NEW c \in Conns, DiscardOnBye(c)
      PROVE  Older(m)'
  BY <1>12, <1>0 DEF DiscardOnBye, Older, TypeOK, StageInv, CountInv
<1>13. ASSUME NEW c \in Conns, Unregister(c)
      PROVE  Older(m)'
  BY <1>13, <1>0 DEF Unregister, Older, TypeOK, StageInv, CountInv
<1>14. ASSUME NEW c \in Conns, ReadEnded(c)
      PROVE  Older(m)'
  BY <1>14, <1>0 DEF ReadEnded, Older, TypeOK, StageInv, CountInv
<1>15. ASSUME NEW c \in Conns, DiscardOnLeave(c)
      PROVE  Older(m)'
  BY <1>15, <1>0 DEF DiscardOnLeave, Older, TypeOK, StageInv, CountInv
<1>16. ASSUME NEW c \in Conns, Synthesise(c)
      PROVE  Older(m)'
  BY <1>16, <1>0 DEF Synthesise, Older, TypeOK, StageInv, CountInv
<1>17. ASSUME NEW c \in Conns, NoByeDue(c)
      PROVE  Older(m)'
  BY <1>17, <1>0 DEF NoByeDue, Older, TypeOK, StageInv, CountInv
<1>18. ASSUME NEW c \in Conns, DropIfEmpty(c)
      PROVE  Older(m)'
  BY <1>18, <1>0 DEF DropIfEmpty, Older, TypeOK, StageInv, CountInv
<1>19. ASSUME NEW c \in Conns, WritePump(c)
      PROVE  Older(m)'
  BY <1>19, <1>0 DEF WritePump, Older, TypeOK, StageInv, CountInv
<1> QED
  BY <1>1, <1>2, <1>3, <1>4, <1>5, <1>6, <1>7, <1>8, <1>9, <1>10, <1>11,
     <1>12, <1>13, <1>14, <1>15, <1>16, <1>17, <1>18, <1>19 DEF Next, Handler, Peer

\* What session.recent holds are envelopes of connections.
LEMMA RecentMessages ==
    ASSUME TypeOK, NEW s \in Conns, NEW r \in Roles, NEW e \in recent[s][r]
    PROVE  e.m \in Message /\ e.m.from \in Conns /\ e.m.n \in Nat
BY DEF TypeOK, Entry, Message

\* What was put to a channel are envelopes of connections.
LEMMA HandedMessages ==
    ASSUME TypeOK, NEW c \in Conns, NEW m \in handed[c]
    PROVE  m \in Message /\ m.from \in Conns /\ m.n \in Nat
BY DEF TypeOK, Message

\* Every step keeps what is buffered or handed over older than what is in hand.
LEMMA CountStep ==
    ASSUME TypeOK, StageInv, SessInv, CurInv, BufInv, CountInv, [Next]_vars
    PROVE  CountInv'
<1> USE DEF hubVars, bufVars, flagVars, outVars
<1>1. CASE UNCHANGED vars
  BY <1>1 DEF vars, CountInv, Older
<1>2. CASE Tick \/ Shutdown \/ Finished
  BY <1>2 DEF Tick, Shutdown, Finished, vars, CountInv, Older
<1>3. ASSUME NEW c \in Conns, Reject(c)
      PROVE  CountInv'
  <2>1. \A m \in Message : Older(m) => Older(m)'
    BY <1>3, OlderStep DEF Next, Handler, Peer
  <2>2. \A d \in Conns : pc'[d] = "idle" => nread'[d] = 0
    BY <1>3 DEF Reject, MayDial, TypeOK, CountInv
  <2>3. \A s \in Conns, r \in Roles : \A e \in recent'[s][r] : Older(e.m)'
    <3>1. recent' = recent
      BY <1>3 DEF Reject, MayDial
    <3> QED BY <2>1, <3>1, RecentMessages DEF CountInv
  <2>4. \A d \in Conns : \A m \in handed'[d] : m.type \in replayableTypes /\ Older(m)'
    <3>1. handed' = handed
      BY <1>3 DEF Reject, MayDial
    <3> QED BY <2>1, <3>1, HandedMessages DEF CountInv
  <2>5. \A d \in Conns :
           pc'[d] \in {"register", "peerPresent", "forward", "send"} /\ stage'[d] # "cleanup"
               => cur'[d].n = nread'[d] /\ nread'[d] > 0
    BY <1>3 DEF Reject, MayDial, TypeOK, StageInv, CountInv
  <2> QED BY <2>2, <2>3, <2>4, <2>5 DEF CountInv
<1>4. ASSUME NEW c \in Conns, NEW t \in FirstFrames, GetOrCreate(c, t)
      PROVE  CountInv'
  <2>1. \A m \in Message : Older(m) => Older(m)'
    BY <1>4, OlderStep DEF Next, Handler, Peer
  <2>2. \A d \in Conns : pc'[d] = "idle" => nread'[d] = 0
    BY <1>4 DEF GetOrCreate, MayDial, TypeOK, CountInv
  <2>3. \A s \in Conns, r \in Roles : \A e \in recent'[s][r] : Older(e.m)'
    <3>1. recent' = recent
      BY <1>4 DEF GetOrCreate, MayDial
    <3> QED BY <2>1, <3>1, RecentMessages DEF CountInv
  <2>4. \A d \in Conns : \A m \in handed'[d] : m.type \in replayableTypes /\ Older(m)'
    <3>1. handed' = handed
      BY <1>4 DEF GetOrCreate, MayDial
    <3> QED BY <2>1, <3>1, HandedMessages DEF CountInv
  <2>5. \A d \in Conns :
           pc'[d] \in {"register", "peerPresent", "forward", "send"} /\ stage'[d] # "cleanup"
               => cur'[d].n = nread'[d] /\ nread'[d] > 0
    BY <1>4 DEF GetOrCreate, MayDial, TypeOK, StageInv, CountInv
  <2> QED BY <2>2, <2>3, <2>4, <2>5 DEF CountInv
<1>5. ASSUME NEW c \in Conns, NEW t \in Frames, ReadFrame(c, t)
      PROVE  CountInv'
  <2>1. \A m \in Message : Older(m) => Older(m)'
    BY <1>5, OlderStep DEF Next, Handler, Peer
  <2>2. \A d \in Conns : pc'[d] = "idle" => nread'[d] = 0
    BY <1>5 DEF ReadFrame, TypeOK, CountInv
  <2>3. \A s \in Conns, r \in Roles : \A e \in recent'[s][r] : Older(e.m)'
    <3>1. recent' = recent
      BY <1>5 DEF ReadFrame
    <3> QED BY <2>1, <3>1, RecentMessages DEF CountInv
  <2>4. \A d \in Conns : \A m \in handed'[d] : m.type \in replayableTypes /\ Older(m)'
    <3>1. handed' = handed
      BY <1>5 DEF ReadFrame
    <3> QED BY <2>1, <3>1, HandedMessages DEF CountInv
  <2>5. \A d \in Conns :
           pc'[d] \in {"register", "peerPresent", "forward", "send"} /\ stage'[d] # "cleanup"
               => cur'[d].n = nread'[d] /\ nread'[d] > 0
    BY <1>5 DEF ReadFrame, TypeOK, StageInv, CountInv
  <2> QED BY <2>2, <2>3, <2>4, <2>5 DEF CountInv
<1>6. ASSUME NEW c \in Conns, ReadError(c)
      PROVE  CountInv'
  <2>1. \A m \in Message : Older(m) => Older(m)'
    BY <1>6, OlderStep DEF Next, Handler, Peer
  <2>2. \A d \in Conns : pc'[d] = "idle" => nread'[d] = 0
    BY <1>6 DEF ReadError, TypeOK, CountInv
  <2>3. \A s \in Conns, r \in Roles : \A e \in recent'[s][r] : Older(e.m)'
    <3>1. recent' = recent
      BY <1>6 DEF ReadError
    <3> QED BY <2>1, <3>1, RecentMessages DEF CountInv
  <2>4. \A d \in Conns : \A m \in handed'[d] : m.type \in replayableTypes /\ Older(m)'
    <3>1. handed' = handed
      BY <1>6 DEF ReadError
    <3> QED BY <2>1, <3>1, HandedMessages DEF CountInv
  <2>5. \A d \in Conns :
           pc'[d] \in {"register", "peerPresent", "forward", "send"} /\ stage'[d] # "cleanup"
               => cur'[d].n = nread'[d] /\ nread'[d] > 0
    BY <1>6 DEF ReadError, TypeOK, StageInv, CountInv
  <2> QED BY <2>2, <2>3, <2>4, <2>5 DEF CountInv
<1>7. ASSUME NEW c \in Conns, RegisterOk(c)
      PROVE  CountInv'
  <2>1. \A m \in Message : Older(m) => Older(m)'
    BY <1>7, OlderStep DEF Next, Handler, Peer
  <2>2. \A d \in Conns : pc'[d] = "idle" => nread'[d] = 0
    BY <1>7 DEF RegisterOk, TypeOK, CountInv
  <2>3. \A s \in Conns, r \in Roles : \A e \in recent'[s][r] : Older(e.m)'
    <3>1. \A s \in Conns, r \in Roles : recent'[s][r] \subseteq recent[s][r]
      BY <1>7, Basics DEF RegisterOk, SdpReplay, SessInv, TypeOK
    <3> QED BY <2>1, <3>1, RecentMessages DEF CountInv
  <2>4. \A d \in Conns : \A m \in handed'[d] : m.type \in replayableTypes /\ Older(m)'
    <3>0. sess[c] \in Conns /\ Other(RoleOf[c]) \in Roles
      BY <1>7, Basics DEF RegisterOk, SessInv
    <3>1. /\ \A d \in Conns : d # c => handed'[d] = handed[d]
          /\ \A m \in handed'[c] : \E e \in recent[sess[c]][Other(RoleOf[c])] : m = e.m
      BY <1>7 DEF RegisterOk, SdpReplay, TypeOK
    <3>2. \A m \in handed'[c] : m.type \in replayableTypes /\ Older(m)'
      BY <2>1, <3>0, <3>1, RecentMessages DEF CountInv, BufInv
    <3>3. ASSUME NEW d \in Conns, d # c
          PROVE  \A m \in handed'[d] : m.type \in replayableTypes /\ Older(m)'
      BY <2>1, <3>1, <3>3, HandedMessages DEF CountInv
    <3> QED BY <3>2, <3>3
  <2>5. \A d \in Conns :
           pc'[d] \in {"register", "peerPresent", "forward", "send"} /\ stage'[d] # "cleanup"
               => cur'[d].n = nread'[d] /\ nread'[d] > 0
    BY <1>7 DEF RegisterOk, TypeOK, StageInv, CountInv
  <2> QED BY <2>2, <2>3, <2>4, <2>5 DEF CountInv
<1>8. ASSUME NEW c \in Conns, RegisterDuplicate(c)
      PROVE  CountInv'
  <2>1. \A m \in Message : Older(m) => Older(m)'
    BY <1>8, OlderStep DEF Next, Handler, Peer
  <2>2. \A d \in Conns : pc'[d] = "idle" => nread'[d] = 0
    BY <1>8 DEF RegisterDuplicate, TypeOK, CountInv
  <2>3. \A s \in Conns, r \in Roles : \A e \in recent'[s][r] : Older(e.m)'
    <3>1. recent' = recent
      BY <1>8 DEF RegisterDuplicate
    <3> QED BY <2>1, <3>1, RecentMessages DEF CountInv
  <2>4. \A d \in Conns : \A m \in handed'[d] : m.type \in replayableTypes /\ Older(m)'
    <3>1. handed' = handed
      BY <1>8 DEF RegisterDuplicate
    <3> QED BY <2>1, <3>1, HandedMessages DEF CountInv
  <2>5. \A d \in Conns :
           pc'[d] \in {"register", "peerPresent", "forward", "send"} /\ stage'[d] # "cleanup"
               => cur'[d].n = nread'[d] /\ nread'[d] > 0
    BY <1>8 DEF RegisterDuplicate, TypeOK, StageInv, CountInv
  <2> QED BY <2>2, <2>3, <2>4, <2>5 DEF CountInv
<1>9. ASSUME NEW c \in Conns, AdviseIfAlone(c)
      PROVE  CountInv'
  <2>1. \A m \in Message : Older(m) => Older(m)'
    BY <1>9, OlderStep DEF Next, Handler, Peer
  <2>2. \A d \in Conns : pc'[d] = "idle" => nread'[d] = 0
    BY <1>9 DEF AdviseIfAlone, TypeOK, CountInv
  <2>3. \A s \in Conns, r \in Roles : \A e \in recent'[s][r] : Older(e.m)'
    <3>1. recent' = recent
      BY <1>9 DEF AdviseIfAlone
    <3> QED BY <2>1, <3>1, RecentMessages DEF CountInv
  <2>4. \A d \in Conns : \A m \in handed'[d] : m.type \in replayableTypes /\ Older(m)'
    <3>1. ASSUME NEW d \in Conns, NEW m \in handed'[d]
          PROVE  m \in handed[d] \/ (m = PeerAbsent(c) /\ m.type \in replayableTypes)
      <4>1. CASE UNCHANGED outVars
        BY <3>1, <4>1
      <4>2. CASE c \in Conns /\ Enqueue(c, PeerAbsent(c))
        <5>1. CASE handed' = handed
          BY <3>1, <5>1
        <5>2. CASE PeerAbsent(c).type \in replayableTypes /\ handed' = [handed EXCEPT ![c] = @ \cup {PeerAbsent(c)}]
          BY <3>1, <4>2, <5>2 DEF TypeOK
        <5> QED BY <4>2, <5>1, <5>2 DEF Enqueue
      <4> QED BY <1>9, <4>1, <4>2 DEF AdviseIfAlone, TypeOK
    <3>2. PeerAbsent(c).type \notin replayableTypes
      BY DEF PeerAbsent, replayableTypes
    <3> QED BY <2>1, <3>1, <3>2, HandedMessages DEF CountInv
  <2>5. \A d \in Conns :
           pc'[d] \in {"register", "peerPresent", "forward", "send"} /\ stage'[d] # "cleanup"
               => cur'[d].n = nread'[d] /\ nread'[d] > 0
    BY <1>9 DEF AdviseIfAlone, TypeOK, StageInv, CountInv
  <2> QED BY <2>2, <2>3, <2>4, <2>5 DEF CountInv
<1>10. ASSUME NEW c \in Conns, Forward(c)
      PROVE  CountInv'
  <2>1. \A m \in Message : Older(m) => Older(m)'
    BY <1>10, OlderStep DEF Next, Handler, Peer
  <2>2. \A d \in Conns : pc'[d] = "idle" => nread'[d] = 0
    BY <1>10 DEF Forward, Counterpart, TypeOK, CountInv
  <2>3. \A s \in Conns, r \in Roles : \A e \in recent'[s][r] : Older(e.m)'
    <3>0. sess[c] \in Conns /\ RoleOf[c] \in Roles
      BY <1>10, Basics DEF Forward, Counterpart, SessInv
    <3>1. ASSUME NEW s \in Conns, NEW r \in Roles, NEW e \in recent'[s][r]
          PROVE  e \in recent[s][r] \/ (e = Stamp(cur[c]) /\ cur[c].type \in replayableTypes)
      BY <1>10, <3>0 DEF Forward, Counterpart, TypeOK
    <3>2. Stamp(cur[c]).m = cur[c] /\ cur[c].from = c /\ cur[c].n \in Nat
      BY DEF Stamp, CurInv, TypeOK, Message
    <3>3. cur[c].type \in replayableTypes => cur[c].n = nread[c] /\ nread[c] > 0
      BY <1>10 DEF Forward, Counterpart, CurInv, CountInv, replayableTypes
    <3>4. nread' = nread /\ pc'[c] = "send"
      BY <1>10 DEF Forward, Counterpart, TypeOK
    <3>5. \A m \in {cur[c]} : m.type \in replayableTypes => Older(m)'
      BY <3>2, <3>3, <3>4 DEF Older, TypeOK
    <3> QED BY <2>1, <3>1, <3>2, <3>5, RecentMessages DEF CountInv
  <2>4. \A d \in Conns : \A m \in handed'[d] : m.type \in replayableTypes /\ Older(m)'
    <3>1. handed' = handed
      BY <1>10 DEF Forward, Counterpart
    <3> QED BY <2>1, <3>1, HandedMessages DEF CountInv
  <2>5. \A d \in Conns :
           pc'[d] \in {"register", "peerPresent", "forward", "send"} /\ stage'[d] # "cleanup"
               => cur'[d].n = nread'[d] /\ nread'[d] > 0
    BY <1>10 DEF Forward, Counterpart, TypeOK, StageInv, CountInv
  <2> QED BY <2>2, <2>3, <2>4, <2>5 DEF CountInv
<1>11. ASSUME NEW c \in Conns, Send(c)
      PROVE  CountInv'
  <2>1. \A m \in Message : Older(m) => Older(m)'
    BY <1>11, OlderStep DEF Next, Handler, Peer
  <2>2. \A d \in Conns : pc'[d] = "idle" => nread'[d] = 0
    BY <1>11 DEF Send, TypeOK, CountInv, AfterForward
  <2>3. \A s \in Conns, r \in Roles : \A e \in recent'[s][r] : Older(e.m)'
    <3>1. recent' = recent
      BY <1>11 DEF Send
    <3> QED BY <2>1, <3>1, RecentMessages DEF CountInv
  <2>4. \A d \in Conns : \A m \in handed'[d] : m.type \in replayableTypes /\ Older(m)'
    <3>1. ASSUME NEW d \in Conns, NEW m \in handed'[d]
          PROVE  m \in handed[d] \/ (m = cur[c] /\ m.type \in replayableTypes)
      <4>1. CASE UNCHANGED outVars
        BY <3>1, <4>1
      <4>2. CASE target[c] \in Conns /\ Enqueue(target[c], cur[c])
        <5>1. CASE handed' = handed
          BY <3>1, <5>1
        <5>2. CASE cur[c].type \in replayableTypes /\ handed' = [handed EXCEPT ![target[c]] = @ \cup {cur[c]}]
          BY <3>1, <4>2, <5>2 DEF TypeOK
        <5> QED BY <4>2, <5>1, <5>2 DEF Enqueue
      <4> QED BY <1>11, <4>1, <4>2 DEF Send, TypeOK
    <3>2. cur[c].from = c /\ cur[c].n \in Nat
      BY DEF CurInv, TypeOK, Message
    <3>3. cur[c].type \in replayableTypes => cur[c].n = nread[c] /\ nread[c] > 0
      BY <1>11 DEF Send, CurInv, CountInv, replayableTypes
    <3>4. nread' = nread /\ pc'[c] \notin {"register", "peerPresent", "forward"}
      BY <1>11 DEF Send, AfterForward, TypeOK
    <3>5. \A m \in {cur[c]} : m.type \in replayableTypes => Older(m)'
      BY <3>2, <3>3, <3>4 DEF Older, TypeOK
    <3> QED BY <2>1, <3>1, <3>5, HandedMessages DEF CountInv
  <2>5. \A d \in Conns :
           pc'[d] \in {"register", "peerPresent", "forward", "send"} /\ stage'[d] # "cleanup"
               => cur'[d].n = nread'[d] /\ nread'[d] > 0
    BY <1>11 DEF Send, AfterForward, TypeOK, StageInv, CountInv
  <2> QED BY <2>2, <2>3, <2>4, <2>5 DEF CountInv
<1>12. ASSUME NEW c \in Conns, DiscardOnBye(c)
      PROVE  CountInv'
  <2>1. \A m \in Message : Older(m) => Older(m)'
    BY <1>12, OlderStep DEF Next, Handler, Peer
  <2>2. \A d \in Conns : pc'[d] = "idle" => nread'[d] = 0
    BY <1>12 DEF DiscardOnBye, TypeOK, CountInv
  <2>3. \A s \in Conns, r \in Roles : \A e \in recent'[s][r] : Older(e.m)'
    <3>1. \A s \in Conns, r \in Roles : recent'[s][r] \subseteq recent[s][r]
      BY <1>12 DEF DiscardOnBye, Discard, SessInv, TypeOK
    <3> QED BY <2>1, <3>1, RecentMessages DEF CountInv
  <2>4. \A d \in Conns : \A m \in handed'[d] : m.type \in replayableTypes /\ Older(m)'
    <3>1. handed' = handed
      BY <1>12 DEF DiscardOnBye
    <3> QED BY <2>1, <3>1, HandedMessages DEF CountInv
  <2>5. \A d \in Conns :
           pc'[d] \in {"register", "peerPresent", "forward", "send"} /\ stage'[d] # "cleanup"
               => cur'[d].n = nread'[d] /\ nread'[d] > 0
    BY <1>12 DEF DiscardOnBye, TypeOK, StageInv, CountInv
  <2> QED BY <2>2, <2>3, <2>4, <2>5 DEF CountInv
<1>13. ASSUME NEW c \in Conns, Unregister(c)
      PROVE  CountInv'
  <2>1. \A m \in Message : Older(m) => Older(m)'
    BY <1>13, OlderStep DEF Next, Handler, Peer
  <2>2. \A d \in Conns : pc'[d] = "idle" => nread'[d] = 0
    BY <1>13 DEF Unregister, TypeOK, CountInv
  <2>3. \A s \in Conns, r \in Roles : \A e \in recent'[s][r] : Older(e.m)'
    <3>1. recent' = recent
      BY <1>13 DEF Unregister
    <3> QED BY <2>1, <3>1, RecentMessages DEF CountInv
  <2>4. \A d \in Conns : \A m \in handed'[d] : m.type \in replayableTypes /\ Older(m)'
    <3>1. handed' = handed
      BY <1>13 DEF Unregister
    <3> QED BY <2>1, <3>1, HandedMessages DEF CountInv
  <2>5. \A d \in Conns :
           pc'[d] \in {"register", "peerPresent", "forward", "send"} /\ stage'[d] # "cleanup"
               => cur'[d].n = nread'[d] /\ nread'[d] > 0
    BY <1>13 DEF Unregister, TypeOK, StageInv, CountInv
  <2> QED BY <2>2, <2>3, <2>4, <2>5 DEF CountInv
<1>14. ASSUME NEW c \in Conns, ReadEnded(c)
      PROVE  CountInv'
  <2>1. \A m \in Message : Older(m) => Older(m)'
    BY <1>14, OlderStep DEF Next, Handler, Peer
  <2>2. \A d \in Conns : pc'[d] = "idle" => nread'[d] = 0
    BY <1>14 DEF ReadEnded, TypeOK, CountInv
  <2>3. \A s \in Conns, r \in Roles : \A e \in recent'[s][r] : Older(e.m)'
    <3>1. recent' = recent
      BY <1>14 DEF ReadEnded
    <3> QED BY <2>1, <3>1, RecentMessages DEF CountInv
  <2>4. \A d \in Conns : \A m \in handed'[d] : m.type \in replayableTypes /\ Older(m)'
    <3>1. handed' = handed
      BY <1>14 DEF ReadEnded
    <3> QED BY <2>1, <3>1, HandedMessages DEF CountInv
  <2>5. \A d \in Conns :
           pc'[d] \in {"register", "peerPresent", "forward", "send"} /\ stage'[d] # "cleanup"
               => cur'[d].n = nread'[d] /\ nread'[d] > 0
    BY <1>14 DEF ReadEnded, TypeOK, StageInv, CountInv
  <2> QED BY <2>2, <2>3, <2>4, <2>5 DEF CountInv
<1>15. ASSUME NEW c \in Conns, DiscardOnLeave(c)
      PROVE  CountInv'
  <2>1. \A m \in Message : Older(m) => Older(m)'
    BY <1>15, OlderStep DEF Next, Handler, Peer
  <2>2. \A d \in Conns : pc'[d] = "idle" => nread'[d] = 0
    BY <1>15 DEF DiscardOnLeave, TypeOK, CountInv
  <2>3. \A s \in Conns, r \in Roles : \A e \in recent'[s][r] : Older(e.m)'
    <3>1. \A s \in Conns, r \in Roles : recent'[s][r] \subseteq recent[s][r]
      BY <1>15 DEF DiscardOnLeave, Discard, SessInv, TypeOK
    <3> QED BY <2>1, <3>1, RecentMessages DEF CountInv
  <2>4. \A d \in Conns : \A m \in handed'[d] : m.type \in replayableTypes /\ Older(m)'
    <3>1. handed' = handed
      BY <1>15 DEF DiscardOnLeave
    <3> QED BY <2>1, <3>1, HandedMessages DEF CountInv
  <2>5. \A d \in Conns :
           pc'[d] \in {"register", "peerPresent", "forward", "send"} /\ stage'[d] # "cleanup"
               => cur'[d].n = nread'[d] /\ nread'[d] > 0
    BY <1>15 DEF DiscardOnLeave, TypeOK, StageInv, CountInv
  <2> QED BY <2>2, <2>3, <2>4, <2>5 DEF CountInv
<1>16. ASSUME NEW c \in Conns, Synthesise(c)
      PROVE  CountInv'
  <2>1. \A m \in Message : Older(m) => Older(m)'
    BY <1>16, OlderStep DEF Next, Handler, Peer
  <2>2. \A d \in Conns : pc'[d] = "idle" => nread'[d] = 0
    BY <1>16 DEF Synthesise, TypeOK, CountInv
  <2>3. \A s \in Conns, r \in Roles : \A e \in recent'[s][r] : Older(e.m)'
    <3>1. recent' = recent
      BY <1>16 DEF Synthesise
    <3> QED BY <2>1, <3>1, RecentMessages DEF CountInv
  <2>4. \A d \in Conns : \A m \in handed'[d] : m.type \in replayableTypes /\ Older(m)'
    <3>1. handed' = handed
      BY <1>16 DEF Synthesise
    <3> QED BY <2>1, <3>1, HandedMessages DEF CountInv
  <2>5. \A d \in Conns :
           pc'[d] \in {"register", "peerPresent", "forward", "send"} /\ stage'[d] # "cleanup"
               => cur'[d].n = nread'[d] /\ nread'[d] > 0
    BY <1>16 DEF Synthesise, TypeOK, StageInv, CountInv
  <2> QED BY <2>2, <2>3, <2>4, <2>5 DEF CountInv
<1>17. ASSUME NEW c \in Conns, NoByeDue(c)
      PROVE  CountInv'
  <2>1. \A m \in Message : Older(m) => Older(m)'
    BY <1>17, OlderStep DEF Next, Handler, Peer
  <2>2. \A d \in Conns : pc'[d] = "idle" => nread'[d] = 0
    BY <1>17 DEF NoByeDue, TypeOK, CountInv
  <2>3. \A s \in Conns, r \in Roles : \A e \in recent'[s][r] : Older(e.m)'
    <3>1. recent' = recent
      BY <1>17 DEF NoByeDue
    <3> QED BY <2>1, <3>1, RecentMessages DEF CountInv
  <2>4. \A d \in Conns : \A m \in handed'[d] : m.type \in replayableTypes /\ Older(m)'
    <3>1. handed' = handed
      BY <1>17 DEF NoByeDue
    <3> QED BY <2>1, <3>1, HandedMessages DEF CountInv
  <2>5. \A d \in Conns :
           pc'[d] \in {"register", "peerPresent", "forward", "send"} /\ stage'[d] # "cleanup"
               => cur'[d].n = nread'[d] /\ nread'[d] > 0
    BY <1>17 DEF NoByeDue, TypeOK, StageInv, CountInv
  <2> QED BY <2>2, <2>3, <2>4, <2>5 DEF CountInv
<1>18. ASSUME NEW c \in Conns, DropIfEmpty(c)
      PROVE  CountInv'
  <2>1. \A m \in Message : Older(m) => Older(m)'
    BY <1>18, OlderStep DEF Next, Handler, Peer
  <2>2. \A d \in Conns : pc'[d] = "idle" => nread'[d] = 0
    BY <1>18 DEF DropIfEmpty, TypeOK, CountInv
  <2>3. \A s \in Conns, r \in Roles : \A e \in recent'[s][r] : Older(e.m)'
    <3>1. recent' = recent
      BY <1>18 DEF DropIfEmpty
    <3> QED BY <2>1, <3>1, RecentMessages DEF CountInv
  <2>4. \A d \in Conns : \A m \in handed'[d] : m.type \in replayableTypes /\ Older(m)'
    <3>1. \A d \in Conns : handed'[d] \subseteq handed[d]
      BY <1>18 DEF DropIfEmpty, Forget, TypeOK
    <3> QED BY <2>1, <3>1, HandedMessages DEF CountInv
  <2>5. \A d \in Conns :
           pc'[d] \in {"register", "peerPresent", "forward", "send"} /\ stage'[d] # "cleanup"
               => cur'[d].n = nread'[d] /\ nread'[d] > 0
    BY <1>18 DEF DropIfEmpty, Forget, TypeOK, StageInv, CountInv
  <2> QED BY <2>2, <2>3, <2>4, <2>5 DEF CountInv
<1>19. ASSUME NEW c \in Conns, WritePump(c)
      PROVE  CountInv'
  <2>1. \A m \in Message : Older(m) => Older(m)'
    BY <1>19, OlderStep DEF Next, Handler, Peer
  <2>2. \A d \in Conns : pc'[d] = "idle" => nread'[d] = 0
    BY <1>19 DEF WritePump, TypeOK, CountInv
  <2>3. \A s \in Conns, r \in Roles : \A e \in recent'[s][r] : Older(e.m)'
    <3>1. recent' = recent
      BY <1>19 DEF WritePump
    <3> QED BY <2>1, <3>1, RecentMessages DEF CountInv
  <2>4. \A d \in Conns : \A m \in handed'[d] : m.type \in replayableTypes /\ Older(m)'
    <3>1. handed' = handed
      BY <1>19 DEF WritePump
    <3> QED BY <2>1, <3>1, HandedMessages DEF CountInv
  <2>5. \A d \in Conns :
           pc'[d] \in {"register", "peerPresent", "forward", "send"} /\ stage'[d] # "cleanup"
               => cur'[d].n = nread'[d] /\ nread'[d] > 0
    BY <1>19 DEF WritePump, TypeOK, StageInv, CountInv
  <2> QED BY <2>2, <2>3, <2>4, <2>5 DEF CountInv
<1> QED
  BY <1>1, <1>2, <1>3, <1>4, <1>5, <1>6, <1>7, <1>8, <1>9, <1>10, <1>11,
     <1>12, <1>13, <1>14, <1>15, <1>16, <1>17, <1>18, <1>19 DEF Next, Handler, Peer

\* Steps that keep the hub and the peers and lose no handler that will drop.
LEMMA LeakFrame ==
    ASSUME NoSessionLeak, hub' = hub, peers' = peers, sess' = sess,
           \A d \in Conns : WillDrop(d) => WillDrop(d)',
           \A d \in Conns : pc[d] = "register" => pc'[d] = "register" \/ WillDrop(d)'
    PROVE  NoSessionLeak'
BY DEF NoSessionLeak, IsEmpty

\* Every step keeps NoSessionLeak.
LEMMA LeakStep ==
    ASSUME TypeOK, StageInv, SessInv, NoSessionLeak, [Next]_vars
    PROVE  NoSessionLeak'
<1> USE DEF hubVars, bufVars, flagVars, outVars
<1>1. CASE UNCHANGED vars
  BY <1>1 DEF vars, NoSessionLeak, IsEmpty, WillDrop
<1>2. CASE Tick \/ Shutdown \/ Finished
  BY <1>2, LeakFrame DEF Tick, Shutdown, Finished, vars, WillDrop
<1>3. ASSUME NEW c \in Conns, Reject(c)
      PROVE  NoSessionLeak'
  <2>1. /\ \A d \in Conns : WillDrop(d) => WillDrop(d)'
        /\ \A d \in Conns : pc[d] = "register" => pc'[d] = "register" \/ WillDrop(d)'
    BY <1>3 DEF Reject, MayDial, WillDrop, Leaving, TypeOK, StageInv
  <2>2. hub' = hub /\ peers' = peers /\ sess' = sess
    BY <1>3 DEF Reject, MayDial
  <2> QED BY <2>1, <2>2, LeakFrame
<1>4. ASSUME NEW c \in Conns, NEW t \in FirstFrames, GetOrCreate(c, t)
      PROVE  NoSessionLeak'
  <2> DEFINE k == KeyOf[c]
  <2>1. /\ hub'[k] = IF hub[k] = NoConn THEN c ELSE hub[k]
        /\ \A j \in Keys : j # k => hub'[j] = hub[j]
        /\ sess'[c] = hub'[k]
        /\ \A d \in Conns : d # c => sess'[d] = sess[d] /\ pc'[d] = pc[d]
        /\ peers' = peers /\ stage' = stage /\ pc'[c] = "register"
    BY <1>4, Basics DEF GetOrCreate, MayDial, TypeOK
  <2>2. ~WillDrop(c) /\ pc[c] # "register"
    BY <1>4 DEF GetOrCreate, MayDial, WillDrop, Leaving
  <2>3. ASSUME NEW j \in Keys, hub'[j] # NoConn, IsEmpty(hub[j])'
        PROVE  \E d \in Conns : /\ KeyOf[d] = j
                                /\ \/ WillDrop(d)'
                                   \/ pc'[d] = "register" /\ sess'[d] = hub'[j]
    <3>1. CASE j = k
      BY <2>1, <3>1
    <3>2. CASE j # k
      <4>1. hub[j] # NoConn /\ IsEmpty(hub[j])
        BY <2>1, <2>3, <3>2 DEF IsEmpty
      <4>2. PICK d \in Conns : /\ KeyOf[d] = j
                               /\ WillDrop(d) \/ (pc[d] = "register" /\ sess[d] = hub[j])
        BY <4>1 DEF NoSessionLeak
      <4>3. d # c
        BY <2>2, <4>2
      <4> QED BY <2>1, <3>2, <4>2, <4>3 DEF WillDrop
    <3> QED BY <3>1, <3>2
  <2> QED BY <2>3 DEF NoSessionLeak
<1>5. ASSUME NEW c \in Conns, NEW t \in Frames, ReadFrame(c, t)
      PROVE  NoSessionLeak'
  <2>1. /\ \A d \in Conns : WillDrop(d) => WillDrop(d)'
        /\ \A d \in Conns : pc[d] = "register" => pc'[d] = "register" \/ WillDrop(d)'
    BY <1>5 DEF ReadFrame, WillDrop, Leaving, TypeOK, StageInv
  <2>2. hub' = hub /\ peers' = peers /\ sess' = sess
    BY <1>5 DEF ReadFrame
  <2> QED BY <2>1, <2>2, LeakFrame
<1>6. ASSUME NEW c \in Conns, ReadError(c)
      PROVE  NoSessionLeak'
  <2>1. /\ \A d \in Conns : WillDrop(d) => WillDrop(d)'
        /\ \A d \in Conns : pc[d] = "register" => pc'[d] = "register" \/ WillDrop(d)'
    BY <1>6 DEF ReadError, WillDrop, Leaving, TypeOK, StageInv
  <2>2. hub' = hub /\ peers' = peers /\ sess' = sess
    BY <1>6 DEF ReadError
  <2> QED BY <2>1, <2>2, LeakFrame
<1>7. ASSUME NEW c \in Conns, RegisterOk(c)
      PROVE  NoSessionLeak'
  <2>0. sess[c] \in Conns /\ RoleOf[c] \in Roles /\ c # NoConn
    BY <1>7, Basics DEF RegisterOk, SessInv
  <2>1. /\ hub' = hub /\ sess' = sess /\ stage' = stage
        /\ \A d \in Conns : d # c => pc'[d] = pc[d]
        /\ peers'[sess[c]][RoleOf[c]] = c
        /\ \A s \in Conns : s # sess[c] => peers'[s] = peers[s]
    BY <1>7, <2>0 DEF RegisterOk, TypeOK
  <2>2. ~WillDrop(c)
    BY <1>7 DEF RegisterOk, WillDrop, Leaving
  <2>3. ASSUME NEW j \in Keys, hub'[j] # NoConn, IsEmpty(hub[j])'
        PROVE  \E d \in Conns : /\ KeyOf[d] = j
                                /\ \/ WillDrop(d)'
                                   \/ pc'[d] = "register" /\ sess'[d] = hub'[j]
    <3>1. hub[j] \in Conns /\ hub[j] # sess[c]
      BY <2>0, <2>1, <2>3 DEF IsEmpty, TypeOK
    <3>2. IsEmpty(hub[j])
      BY <2>1, <2>3, <3>1 DEF IsEmpty
    <3>3. PICK d \in Conns : /\ KeyOf[d] = j
                             /\ WillDrop(d) \/ (pc[d] = "register" /\ sess[d] = hub[j])
      BY <2>1, <2>3, <3>2 DEF NoSessionLeak
    <3>4. d # c
      BY <2>2, <3>1, <3>3
    <3> QED BY <2>1, <3>3, <3>4 DEF WillDrop
  <2> QED BY <2>3 DEF NoSessionLeak
<1>8. ASSUME NEW c \in Conns, RegisterDuplicate(c)
      PROVE  NoSessionLeak'
  <2>1. /\ \A d \in Conns : WillDrop(d) => WillDrop(d)'
        /\ \A d \in Conns : pc[d] = "register" => pc'[d] = "register" \/ WillDrop(d)'
    BY <1>8 DEF RegisterDuplicate, WillDrop, Leaving, TypeOK, StageInv
  <2>2. hub' = hub /\ peers' = peers /\ sess' = sess
    BY <1>8 DEF RegisterDuplicate
  <2> QED BY <2>1, <2>2, LeakFrame
<1>9. ASSUME NEW c \in Conns, AdviseIfAlone(c)
      PROVE  NoSessionLeak'
  <2>1. /\ \A d \in Conns : WillDrop(d) => WillDrop(d)'
        /\ \A d \in Conns : pc[d] = "register" => pc'[d] = "register" \/ WillDrop(d)'
    BY <1>9 DEF AdviseIfAlone, WillDrop, Leaving, TypeOK, StageInv
  <2>2. hub' = hub /\ peers' = peers /\ sess' = sess
    BY <1>9 DEF AdviseIfAlone
  <2> QED BY <2>1, <2>2, LeakFrame
<1>10. ASSUME NEW c \in Conns, Forward(c)
      PROVE  NoSessionLeak'
  <2>1. /\ \A d \in Conns : WillDrop(d) => WillDrop(d)'
        /\ \A d \in Conns : pc[d] = "register" => pc'[d] = "register" \/ WillDrop(d)'
    BY <1>10 DEF Forward, Counterpart, WillDrop, Leaving, TypeOK, StageInv
  <2>2. hub' = hub /\ peers' = peers /\ sess' = sess
    BY <1>10 DEF Forward, Counterpart
  <2> QED BY <2>1, <2>2, LeakFrame
<1>11. ASSUME NEW c \in Conns, Send(c)
      PROVE  NoSessionLeak'
  <2>1. /\ \A d \in Conns : WillDrop(d) => WillDrop(d)'
        /\ \A d \in Conns : pc[d] = "register" => pc'[d] = "register" \/ WillDrop(d)'
    BY <1>11 DEF Send, AfterForward, WillDrop, Leaving, TypeOK, StageInv
  <2>2. hub' = hub /\ peers' = peers /\ sess' = sess
    BY <1>11 DEF Send
  <2> QED BY <2>1, <2>2, LeakFrame
<1>12. ASSUME NEW c \in Conns, DiscardOnBye(c)
      PROVE  NoSessionLeak'
  <2>1. /\ \A d \in Conns : WillDrop(d) => WillDrop(d)'
        /\ \A d \in Conns : pc[d] = "register" => pc'[d] = "register" \/ WillDrop(d)'
    BY <1>12 DEF DiscardOnBye, WillDrop, Leaving, TypeOK, StageInv
  <2>2. hub' = hub /\ peers' = peers /\ sess' = sess
    BY <1>12 DEF DiscardOnBye
  <2> QED BY <2>1, <2>2, LeakFrame
<1>13. ASSUME NEW c \in Conns, Unregister(c)
      PROVE  NoSessionLeak'
  <2>0. sess[c] \in Conns /\ KeyOf[c] = KeyOf[sess[c]]
    BY <1>13, Basics DEF Unregister, SessInv
  <2>1. /\ hub' = hub /\ sess' = sess /\ stage' = stage
        /\ \A d \in Conns : d # c => pc'[d] = pc[d]
        /\ pc'[c] = "receivedBye"
        /\ \A s \in Conns : s # sess[c] => peers'[s] = peers[s]
    BY <1>13, <2>0 DEF Unregister, TypeOK
  <2>2. WillDrop(c)' /\ pc[c] # "register"
    BY <1>13, <2>1 DEF Unregister, WillDrop, Leaving
  <2>3. ASSUME NEW j \in Keys, hub'[j] # NoConn, IsEmpty(hub[j])'
        PROVE  \E d \in Conns : /\ KeyOf[d] = j
                                /\ \/ WillDrop(d)'
                                   \/ pc'[d] = "register" /\ sess'[d] = hub'[j]
    <3>1. CASE hub[j] = sess[c]
      BY <2>0, <2>2, <3>1 DEF SessInv
    <3>2. CASE hub[j] # sess[c]
      <4>1. hub[j] \in Conns /\ hub[j] # NoConn
        BY <2>1, <2>3 DEF TypeOK
      <4>2. IsEmpty(hub[j])
        BY <2>1, <2>3, <3>2, <4>1 DEF IsEmpty
      <4>3. PICK d \in Conns : /\ KeyOf[d] = j
                               /\ WillDrop(d) \/ (pc[d] = "register" /\ sess[d] = hub[j])
        BY <4>1, <4>2 DEF NoSessionLeak
      <4> QED BY <2>1, <2>2, <4>3 DEF WillDrop
    <3> QED BY <3>1, <3>2
  <2> QED BY <2>3 DEF NoSessionLeak
<1>14. ASSUME NEW c \in Conns, ReadEnded(c)
      PROVE  NoSessionLeak'
  <2>1. /\ \A d \in Conns : WillDrop(d) => WillDrop(d)'
        /\ \A d \in Conns : pc[d] = "register" => pc'[d] = "register" \/ WillDrop(d)'
    BY <1>14 DEF ReadEnded, WillDrop, Leaving, TypeOK, StageInv
  <2>2. hub' = hub /\ peers' = peers /\ sess' = sess
    BY <1>14 DEF ReadEnded
  <2> QED BY <2>1, <2>2, LeakFrame
<1>15. ASSUME NEW c \in Conns, DiscardOnLeave(c)
      PROVE  NoSessionLeak'
  <2>1. /\ \A d \in Conns : WillDrop(d) => WillDrop(d)'
        /\ \A d \in Conns : pc[d] = "register" => pc'[d] = "register" \/ WillDrop(d)'
    BY <1>15 DEF DiscardOnLeave, WillDrop, Leaving, TypeOK, StageInv
  <2>2. hub' = hub /\ peers' = peers /\ sess' = sess
    BY <1>15 DEF DiscardOnLeave
  <2> QED BY <2>1, <2>2, LeakFrame
<1>16. ASSUME NEW c \in Conns, Synthesise(c)
      PROVE  NoSessionLeak'
  <2>1. /\ \A d \in Conns : WillDrop(d) => WillDrop(d)'
        /\ \A d \in Conns : pc[d] = "register" => pc'[d] = "register" \/ WillDrop(d)'
    BY <1>16 DEF Synthesise, WillDrop, Leaving, TypeOK, StageInv
  <2>2. hub' = hub /\ peers' = peers /\ sess' = sess
    BY <1>16 DEF Synthesise
  <2> QED BY <2>1, <2>2, LeakFrame
<1>17. ASSUME NEW c \in Conns, NoByeDue(c)
      PROVE  NoSessionLeak'
  <2>1. /\ \A d \in Conns : WillDrop(d) => WillDrop(d)'
        /\ \A d \in Conns : pc[d] = "register" => pc'[d] = "register" \/ WillDrop(d)'
    BY <1>17 DEF NoByeDue, WillDrop, Leaving, TypeOK, StageInv
  <2>2. hub' = hub /\ peers' = peers /\ sess' = sess
    BY <1>17 DEF NoByeDue
  <2> QED BY <2>1, <2>2, LeakFrame
<1>18. ASSUME NEW c \in Conns, DropIfEmpty(c)
      PROVE  NoSessionLeak'
  <2> DEFINE k == KeyOf[c]
  <2>1. /\ sess' = sess /\ stage' = stage /\ peers' = peers /\ k \in Keys
        /\ \A d \in Conns : d # c => pc'[d] = pc[d]
        /\ \A j \in Keys : j # k => hub'[j] = hub[j]
        /\ hub'[k] = IF hub[k] # NoConn /\ IsEmpty(hub[k]) THEN NoConn ELSE hub[k]
    BY <1>18, Basics DEF DropIfEmpty, TypeOK
  <2>3. ASSUME NEW j \in Keys, hub'[j] # NoConn, IsEmpty(hub[j])'
        PROVE  \E d \in Conns : /\ KeyOf[d] = j
                                /\ \/ WillDrop(d)'
                                   \/ pc'[d] = "register" /\ sess'[d] = hub'[j]
    <3>1. j # k /\ hub'[j] = hub[j] /\ hub[j] # NoConn /\ IsEmpty(hub[j])
      BY <2>1, <2>3 DEF IsEmpty
    <3>2. PICK d \in Conns : /\ KeyOf[d] = j
                             /\ WillDrop(d) \/ (pc[d] = "register" /\ sess[d] = hub[j])
      BY <3>1 DEF NoSessionLeak
    <3> QED BY <2>1, <3>1, <3>2 DEF WillDrop
  <2> QED BY <2>3 DEF NoSessionLeak
<1>19. ASSUME NEW c \in Conns, WritePump(c)
      PROVE  NoSessionLeak'
  <2>1. /\ \A d \in Conns : WillDrop(d) => WillDrop(d)'
        /\ \A d \in Conns : pc[d] = "register" => pc'[d] = "register" \/ WillDrop(d)'
    BY <1>19 DEF WritePump, WillDrop, Leaving, TypeOK, StageInv
  <2>2. hub' = hub /\ peers' = peers /\ sess' = sess
    BY <1>19 DEF WritePump
  <2> QED BY <2>1, <2>2, LeakFrame
<1> QED
  BY <1>1, <1>2, <1>3, <1>4, <1>5, <1>6, <1>7, <1>8, <1>9, <1>10, <1>11,
     <1>12, <1>13, <1>14, <1>15, <1>16, <1>17, <1>18, <1>19 DEF Next, Handler, Peer

\* The buffers' senders: registered, or unregistered and yet to discard.
LEMMA AliveFrame ==
    ASSUME TypeOK, BufferedSenderAlive, peers' = peers, sess' = sess,
           \A s \in Conns, r \in Roles : recent'[s][r] \subseteq recent[s][r],
           \A d \in Conns : pc[d] \in {"receivedBye", "discardOnLeave"} =>
                                pc'[d] \in {"receivedBye", "discardOnLeave"}
    PROVE  BufferedSenderAlive'
BY RecentMessages DEF BufferedSenderAlive

\* Every step keeps BufferedSenderAlive.
LEMMA AliveStep ==
    ASSUME TypeOK, SessInv, PeersInv, CurInv, BufInv, BufferedSenderAlive, [Next]_vars
    PROVE  BufferedSenderAlive'
<1> USE DEF hubVars, bufVars, flagVars, outVars
<1>1. CASE UNCHANGED vars
  BY <1>1, AliveFrame DEF vars
<1>2. CASE Tick \/ Shutdown \/ Finished
  BY <1>2, AliveFrame DEF Tick, Shutdown, Finished, vars
<1>3. ASSUME NEW c \in Conns, Reject(c)
      PROVE  BufferedSenderAlive'
  <2>1. /\ peers' = peers /\ sess' = sess
        /\ \A s \in Conns, r \in Roles : recent'[s][r] \subseteq recent[s][r]
    BY <1>3 DEF Reject, MayDial, TypeOK
  <2>2. \A d \in Conns : pc[d] \in {"receivedBye", "discardOnLeave"} =>
                            pc'[d] \in {"receivedBye", "discardOnLeave"}
    BY <1>3 DEF Reject, MayDial, TypeOK
  <2> QED BY <2>1, <2>2, AliveFrame
<1>4. ASSUME NEW c \in Conns, NEW t \in FirstFrames, GetOrCreate(c, t)
      PROVE  BufferedSenderAlive'
  <2>1. /\ peers' = peers /\ recent' = recent
        /\ \A d \in Conns : d # c => sess'[d] = sess[d] /\ pc'[d] = pc[d]
    BY <1>4 DEF GetOrCreate, MayDial, TypeOK
  <2>2. ASSUME NEW s \in Conns, NEW r \in Roles, NEW e \in recent[s][r]
        PROVE  e.m.from \in Conns /\ e.m.from # c
    BY <1>4, <2>2, RecentMessages, NoConnAssumption DEF GetOrCreate, MayDial, BufInv, SessInv
  <2> QED BY <2>1, <2>2 DEF BufferedSenderAlive
<1>5. ASSUME NEW c \in Conns, NEW t \in Frames, ReadFrame(c, t)
      PROVE  BufferedSenderAlive'
  <2>1. /\ peers' = peers /\ sess' = sess
        /\ \A s \in Conns, r \in Roles : recent'[s][r] \subseteq recent[s][r]
    BY <1>5 DEF ReadFrame, TypeOK
  <2>2. \A d \in Conns : pc[d] \in {"receivedBye", "discardOnLeave"} =>
                            pc'[d] \in {"receivedBye", "discardOnLeave"}
    BY <1>5 DEF ReadFrame, TypeOK
  <2> QED BY <2>1, <2>2, AliveFrame
<1>6. ASSUME NEW c \in Conns, ReadError(c)
      PROVE  BufferedSenderAlive'
  <2>1. /\ peers' = peers /\ sess' = sess
        /\ \A s \in Conns, r \in Roles : recent'[s][r] \subseteq recent[s][r]
    BY <1>6 DEF ReadError, TypeOK
  <2>2. \A d \in Conns : pc[d] \in {"receivedBye", "discardOnLeave"} =>
                            pc'[d] \in {"receivedBye", "discardOnLeave"}
    BY <1>6 DEF ReadError, TypeOK
  <2> QED BY <2>1, <2>2, AliveFrame
<1>7. ASSUME NEW c \in Conns, RegisterOk(c)
      PROVE  BufferedSenderAlive'
  <2>0. sess[c] \in Conns
    BY <1>7 DEF RegisterOk, SessInv
  <2>1. /\ sess' = sess /\ pc[c] = "register" /\ peers[sess[c]][RoleOf[c]] = NoConn
        /\ \A d \in Conns : d # c => pc'[d] = pc[d]
    BY <1>7 DEF RegisterOk, TypeOK
  <2>2. \A s \in Conns, r \in Roles :
           /\ recent'[s][r] \subseteq recent[s][r]
           /\ ~(s = sess[c] /\ r = RoleOf[c]) => peers'[s][r] = peers[s][r]
    <3> DEFINE o == Other(RoleOf[c])
    <3>1. /\ peers' = [peers EXCEPT ![sess[c]][RoleOf[c]] = c]
          /\ recent' = [recent EXCEPT ![sess[c]][o] = SdpReplay(sess[c], o)]
      BY <1>7 DEF RegisterOk
    <3>2. /\ peers \in [Conns -> [Roles -> Conns \cup {NoConn}]]
          /\ recent \in [Conns -> [Roles -> SUBSET Entry]]
          /\ RoleOf[c] \in Roles /\ o \in Roles
      BY Basics DEF TypeOK
    <3>3. SdpReplay(sess[c], o) \subseteq recent[sess[c]][o]
      BY DEF SdpReplay
    <3> HIDE DEF o
    <3>4. \A s \in Conns, r \in Roles :
             recent'[s][r] = IF s = sess[c] /\ r = o THEN SdpReplay(sess[c], o) ELSE recent[s][r]
      BY <2>0, <3>1, <3>2, Entries
    <3>5. \A s \in Conns, r \in Roles :
             peers'[s][r] = IF s = sess[c] /\ r = RoleOf[c] THEN c ELSE peers[s][r]
      BY <2>0, <3>1, <3>2, Entries
    <3> QED BY <3>3, <3>4, <3>5
  <2>3. SUFFICES ASSUME NEW s \in Conns, NEW r \in Roles, NEW e \in recent'[s][r]
                 PROVE  \/ peers'[s][r] = e.m.from
                        \/ /\ sess'[e.m.from] = s /\ RoleOf[e.m.from] = r
                           /\ pc'[e.m.from] \in {"receivedBye", "discardOnLeave"}
    BY DEF BufferedSenderAlive
  <2>4. e \in recent[s][r] /\ e.m.from \in Conns
    BY <2>2, <2>3, RecentMessages
  <2>5. CASE peers[s][r] = e.m.from
    BY <2>1, <2>2, <2>4, <2>5, NoConnAssumption
  <2>6. CASE peers[s][r] # e.m.from
    BY <2>1, <2>4, <2>6 DEF BufferedSenderAlive
  <2> QED BY <2>5, <2>6
<1>8. ASSUME NEW c \in Conns, RegisterDuplicate(c)
      PROVE  BufferedSenderAlive'
  <2>1. /\ peers' = peers /\ sess' = sess
        /\ \A s \in Conns, r \in Roles : recent'[s][r] \subseteq recent[s][r]
    BY <1>8 DEF RegisterDuplicate, TypeOK
  <2>2. \A d \in Conns : pc[d] \in {"receivedBye", "discardOnLeave"} =>
                            pc'[d] \in {"receivedBye", "discardOnLeave"}
    BY <1>8 DEF RegisterDuplicate, TypeOK
  <2> QED BY <2>1, <2>2, AliveFrame
<1>9. ASSUME NEW c \in Conns, AdviseIfAlone(c)
      PROVE  BufferedSenderAlive'
  <2>1. /\ peers' = peers /\ sess' = sess
        /\ \A s \in Conns, r \in Roles : recent'[s][r] \subseteq recent[s][r]
    BY <1>9 DEF AdviseIfAlone, TypeOK
  <2>2. \A d \in Conns : pc[d] \in {"receivedBye", "discardOnLeave"} =>
                            pc'[d] \in {"receivedBye", "discardOnLeave"}
    BY <1>9 DEF AdviseIfAlone, TypeOK
  <2> QED BY <2>1, <2>2, AliveFrame
<1>10. ASSUME NEW c \in Conns, Forward(c)
      PROVE  BufferedSenderAlive'
  <2>0. sess[c] \in Conns /\ RoleOf[c] \in Roles
    BY <1>10, Basics DEF Forward, Counterpart, SessInv
  <2>1. peers' = peers /\ sess' = sess
    BY <1>10 DEF Forward, Counterpart
  <2>2. \A d \in Conns : pc[d] \in {"receivedBye", "discardOnLeave"} =>
                            pc'[d] \in {"receivedBye", "discardOnLeave"}
    BY <1>10 DEF Forward, Counterpart, TypeOK
  <2>3. ASSUME NEW s \in Conns, NEW r \in Roles, NEW e \in recent'[s][r]
        PROVE  \/ e \in recent[s][r]
               \/ /\ s = sess[c] /\ r = RoleOf[c] /\ e = Stamp(cur[c])
                  /\ cur[c].type \in replayableTypes
    BY <1>10, <2>0 DEF Forward, Counterpart, TypeOK
  <2>4. Stamp(cur[c]).m.from = c
    BY DEF Stamp, CurInv
  <2>5. cur[c].type \in replayableTypes => peers[sess[c]][RoleOf[c]] = c
    <3>1. cur[c].type \in replayableTypes => Registered(c)
      BY <1>10 DEF Forward, Counterpart, CurInv, Registered, replayableTypes
    <3> QED BY <2>0, <3>1 DEF PeersInv
  <2> QED BY <2>1, <2>2, <2>3, <2>4, <2>5, RecentMessages DEF BufferedSenderAlive
<1>11. ASSUME NEW c \in Conns, Send(c)
      PROVE  BufferedSenderAlive'
  <2>1. /\ peers' = peers /\ sess' = sess
        /\ \A s \in Conns, r \in Roles : recent'[s][r] \subseteq recent[s][r]
    BY <1>11 DEF Send, TypeOK
  <2>2. \A d \in Conns : pc[d] \in {"receivedBye", "discardOnLeave"} =>
                            pc'[d] \in {"receivedBye", "discardOnLeave"}
    BY <1>11 DEF Send, AfterForward, TypeOK
  <2> QED BY <2>1, <2>2, AliveFrame
<1>12. ASSUME NEW c \in Conns, DiscardOnBye(c)
      PROVE  BufferedSenderAlive'
  <2>1. /\ peers' = peers /\ sess' = sess
        /\ \A s \in Conns, r \in Roles : recent'[s][r] \subseteq recent[s][r]
    BY <1>12 DEF DiscardOnBye, Discard, SessInv, TypeOK
  <2>2. \A d \in Conns : pc[d] \in {"receivedBye", "discardOnLeave"} =>
                            pc'[d] \in {"receivedBye", "discardOnLeave"}
    BY <1>12 DEF DiscardOnBye, TypeOK
  <2> QED BY <2>1, <2>2, AliveFrame
<1>13. ASSUME NEW c \in Conns, Unregister(c)
      PROVE  BufferedSenderAlive'
  <2>0. sess[c] \in Conns
    BY <1>13 DEF Unregister, SessInv
  <2>1. /\ sess' = sess /\ recent' = recent /\ pc'[c] = "receivedBye"
        /\ \A d \in Conns : d # c => pc'[d] = pc[d]
    BY <1>13 DEF Unregister, TypeOK
  <2>2. \A s \in Conns, r \in Roles : peers[s][r] # c => peers'[s][r] = peers[s][r]
    BY <1>13, <2>0, Basics DEF Unregister, TypeOK
  <2>3. ASSUME NEW s \in Conns, NEW r \in Roles, NEW e \in recent[s][r]
        PROVE  \/ peers'[s][r] = e.m.from
               \/ /\ sess'[e.m.from] = s /\ RoleOf[e.m.from] = r
                  /\ pc'[e.m.from] \in {"receivedBye", "discardOnLeave"}
    <3>1. e.m.from \in Conns /\ sess[e.m.from] = s /\ RoleOf[e.m.from] = r
      BY RecentMessages DEF BufInv
    <3>2. CASE e.m.from = c
      BY <2>1, <3>1, <3>2
    <3>3. CASE e.m.from # c
      BY <2>1, <2>2, <3>1, <3>3 DEF BufferedSenderAlive
    <3> QED BY <3>2, <3>3
  <2> QED BY <2>1, <2>3 DEF BufferedSenderAlive
<1>14. ASSUME NEW c \in Conns, ReadEnded(c)
      PROVE  BufferedSenderAlive'
  <2>1. /\ peers' = peers /\ sess' = sess
        /\ \A s \in Conns, r \in Roles : recent'[s][r] \subseteq recent[s][r]
    BY <1>14 DEF ReadEnded, TypeOK
  <2>2. \A d \in Conns : pc[d] \in {"receivedBye", "discardOnLeave"} =>
                            pc'[d] \in {"receivedBye", "discardOnLeave"}
    BY <1>14 DEF ReadEnded, TypeOK
  <2> QED BY <2>1, <2>2, AliveFrame
<1>15. ASSUME NEW c \in Conns, DiscardOnLeave(c)
      PROVE  BufferedSenderAlive'
  <2>0. sess[c] \in Conns /\ RoleOf[c] \in Roles
    BY <1>15, Basics DEF DiscardOnLeave, SessInv
  <2>1. /\ sess' = sess /\ peers' = peers
        /\ \A d \in Conns : d # c => pc'[d] = pc[d]
    BY <1>15 DEF DiscardOnLeave, TypeOK
  <2>2. /\ \A s \in Conns, r \in Roles : recent'[s][r] \subseteq recent[s][r]
        /\ recent'[sess[c]][RoleOf[c]] = {}
    BY <1>15, <2>0 DEF DiscardOnLeave, Discard, TypeOK
  <2>3. ASSUME NEW s \in Conns, NEW r \in Roles, NEW e \in recent'[s][r]
        PROVE  \/ peers'[s][r] = e.m.from
               \/ /\ sess'[e.m.from] = s /\ RoleOf[e.m.from] = r
                  /\ pc'[e.m.from] \in {"receivedBye", "discardOnLeave"}
    <3>1. e \in recent[s][r]
      BY <2>2
    <3>2. e.m.from \in Conns /\ sess[e.m.from] = s /\ RoleOf[e.m.from] = r
      BY <3>1, RecentMessages DEF BufInv
    <3>3. e.m.from # c
      BY <2>2, <3>2
    <3> QED BY <2>1, <3>1, <3>2, <3>3 DEF BufferedSenderAlive
  <2> QED BY <2>3 DEF BufferedSenderAlive
<1>16. ASSUME NEW c \in Conns, Synthesise(c)
      PROVE  BufferedSenderAlive'
  <2>1. /\ peers' = peers /\ sess' = sess
        /\ \A s \in Conns, r \in Roles : recent'[s][r] \subseteq recent[s][r]
    BY <1>16 DEF Synthesise, TypeOK
  <2>2. \A d \in Conns : pc[d] \in {"receivedBye", "discardOnLeave"} =>
                            pc'[d] \in {"receivedBye", "discardOnLeave"}
    BY <1>16 DEF Synthesise, TypeOK
  <2> QED BY <2>1, <2>2, AliveFrame
<1>17. ASSUME NEW c \in Conns, NoByeDue(c)
      PROVE  BufferedSenderAlive'
  <2>1. /\ peers' = peers /\ sess' = sess
        /\ \A s \in Conns, r \in Roles : recent'[s][r] \subseteq recent[s][r]
    BY <1>17 DEF NoByeDue, TypeOK
  <2>2. \A d \in Conns : pc[d] \in {"receivedBye", "discardOnLeave"} =>
                            pc'[d] \in {"receivedBye", "discardOnLeave"}
    BY <1>17 DEF NoByeDue, TypeOK
  <2> QED BY <2>1, <2>2, AliveFrame
<1>18. ASSUME NEW c \in Conns, DropIfEmpty(c)
      PROVE  BufferedSenderAlive'
  <2>1. /\ peers' = peers /\ sess' = sess
        /\ \A s \in Conns, r \in Roles : recent'[s][r] \subseteq recent[s][r]
    BY <1>18 DEF DropIfEmpty, TypeOK
  <2>2. \A d \in Conns : pc[d] \in {"receivedBye", "discardOnLeave"} =>
                            pc'[d] \in {"receivedBye", "discardOnLeave"}
    BY <1>18 DEF DropIfEmpty, TypeOK
  <2> QED BY <2>1, <2>2, AliveFrame
<1>19. ASSUME NEW c \in Conns, WritePump(c)
      PROVE  BufferedSenderAlive'
  <2>1. /\ peers' = peers /\ sess' = sess
        /\ \A s \in Conns, r \in Roles : recent'[s][r] \subseteq recent[s][r]
    BY <1>19 DEF WritePump, TypeOK
  <2>2. \A d \in Conns : pc[d] \in {"receivedBye", "discardOnLeave"} =>
                            pc'[d] \in {"receivedBye", "discardOnLeave"}
    BY <1>19 DEF WritePump, TypeOK
  <2> QED BY <2>1, <2>2, AliveFrame
<1> QED
  BY <1>1, <1>2, <1>3, <1>4, <1>5, <1>6, <1>7, <1>8, <1>9, <1>10, <1>11,
     <1>12, <1>13, <1>14, <1>15, <1>16, <1>17, <1>18, <1>19 DEF Next, Handler, Peer

\* What is handed to a peer is not taken back while the peer is registered, and
\* a send in progress stays one until its own Send.
LEMMA HandedFrame ==
    ASSUME TypeOK, HandedOver, peers' = peers,
           \A s \in Conns, r \in Roles : recent'[s][r] \subseteq recent[s][r],
           \A s \in Conns, r \in Roles, d \in Conns :
               peers[s][r] = d => handed[d] \subseteq handed'[d],
           \A d \in Conns : pc[d] = "send" =>
               pc'[d] = "send" /\ cur'[d] = cur[d] /\ target'[d] = target[d]
    PROVE  HandedOver'
<1> SUFFICES ASSUME NEW s \in Conns, NEW r \in Roles, NEW e \in recent'[s][r],
                    peers'[s][Other(r)] # NoConn
             PROVE  \/ e.m \in handed'[peers'[s][Other(r)]]
                    \/ \E d \in Conns : /\ pc'[d] = "send" /\ cur'[d] = e.m
                                        /\ target'[d] = peers'[s][Other(r)]
    BY DEF HandedOver
<1> DEFINE to == peers[s][Other(r)]
<1>1. e \in recent[s][r] /\ to \in Conns /\ Other(r) \in Roles
  BY DEF TypeOK, Other, Roles
<1>2. CASE e.m \in handed[to]
  BY <1>1, <1>2
<1>3. CASE e.m \notin handed[to]
  BY <1>1, <1>3 DEF HandedOver
<1> QED BY <1>2, <1>3

\* Every step keeps HandedOver.
LEMMA HandedOverStep ==
    ASSUME TypeOK, SessInv, PeersInv, BufInv, HandedOver, [Next]_vars
    PROVE  HandedOver'
<1> USE DEF hubVars, bufVars, flagVars, outVars
<1>1. CASE UNCHANGED vars
  BY <1>1, HandedFrame DEF vars
<1>2. CASE Tick \/ Shutdown \/ Finished
  BY <1>2, HandedFrame DEF Tick, Shutdown, Finished, vars
<1>3. ASSUME NEW c \in Conns, Reject(c)
      PROVE  HandedOver'
  <2>1. /\ peers' = peers /\ handed' = handed
        /\ \A s \in Conns, r \in Roles : recent'[s][r] \subseteq recent[s][r]
    BY <1>3 DEF Reject, MayDial, TypeOK
  <2>2. \A d \in Conns : pc[d] = "send" =>
           pc'[d] = "send" /\ cur'[d] = cur[d] /\ target'[d] = target[d]
    BY <1>3 DEF Reject, MayDial, TypeOK
  <2> QED BY <2>1, <2>2, HandedFrame
<1>4. ASSUME NEW c \in Conns, NEW t \in FirstFrames, GetOrCreate(c, t)
      PROVE  HandedOver'
  <2>1. /\ peers' = peers /\ handed' = handed
        /\ \A s \in Conns, r \in Roles : recent'[s][r] \subseteq recent[s][r]
    BY <1>4 DEF GetOrCreate, MayDial, TypeOK
  <2>2. \A d \in Conns : pc[d] = "send" =>
           pc'[d] = "send" /\ cur'[d] = cur[d] /\ target'[d] = target[d]
    BY <1>4 DEF GetOrCreate, MayDial, TypeOK
  <2> QED BY <2>1, <2>2, HandedFrame
<1>5. ASSUME NEW c \in Conns, NEW t \in Frames, ReadFrame(c, t)
      PROVE  HandedOver'
  <2>1. /\ peers' = peers /\ handed' = handed
        /\ \A s \in Conns, r \in Roles : recent'[s][r] \subseteq recent[s][r]
    BY <1>5 DEF ReadFrame, TypeOK
  <2>2. \A d \in Conns : pc[d] = "send" =>
           pc'[d] = "send" /\ cur'[d] = cur[d] /\ target'[d] = target[d]
    BY <1>5 DEF ReadFrame, TypeOK
  <2> QED BY <2>1, <2>2, HandedFrame
<1>6. ASSUME NEW c \in Conns, ReadError(c)
      PROVE  HandedOver'
  <2>1. /\ peers' = peers /\ handed' = handed
        /\ \A s \in Conns, r \in Roles : recent'[s][r] \subseteq recent[s][r]
    BY <1>6 DEF ReadError, TypeOK
  <2>2. \A d \in Conns : pc[d] = "send" =>
           pc'[d] = "send" /\ cur'[d] = cur[d] /\ target'[d] = target[d]
    BY <1>6 DEF ReadError, TypeOK
  <2> QED BY <2>1, <2>2, HandedFrame
<1>7. ASSUME NEW c \in Conns, RegisterOk(c)
      PROVE  HandedOver'
  <2> SUFFICES ASSUME NEW s \in Conns, NEW r \in Roles, NEW e \in recent'[s][r],
                      peers'[s][Other(r)] # NoConn
               PROVE  \/ e.m \in handed'[peers'[s][Other(r)]]
                      \/ \E d \in Conns : /\ pc'[d] = "send" /\ cur'[d] = e.m
                                          /\ target'[d] = peers'[s][Other(r)]
      BY DEF HandedOver
  <2>0. sess[c] \in Conns /\ RoleOf[c] \in Roles /\ Other(r) \in Roles
        /\ Other(RoleOf[c]) \in Roles /\ (Other(r) = RoleOf[c] => r = Other(RoleOf[c]))
    BY <1>7, Basics DEF RegisterOk, SessInv, Other, Roles
  <2> DEFINE o == Other(RoleOf[c])
  <2>1. /\ handed'[c] = {x.m : x \in SdpReplay(sess[c], o)}
        /\ \A d \in Conns : d # c => handed'[d] = handed[d] /\ pc'[d] = pc[d]
        /\ cur' = cur /\ target' = target /\ pc[c] = "register"
    BY <1>7 DEF RegisterOk, TypeOK
  <2>2. /\ recent'[sess[c]][o] = SdpReplay(sess[c], o)
        /\ recent'[s][r] \subseteq recent[s][r]
        /\ peers'[s][Other(r)] = IF s = sess[c] /\ Other(r) = RoleOf[c] THEN c
                                                                ELSE peers[s][Other(r)]
    BY <1>7, <2>0 DEF RegisterOk, SdpReplay, TypeOK
  <2>3. CASE s = sess[c] /\ Other(r) = RoleOf[c]
    BY <2>0, <2>1, <2>2, <2>3
  <2>4. CASE ~(s = sess[c] /\ Other(r) = RoleOf[c])
    <3>0. /\ peers'[s][Other(r)] = peers[s][Other(r)]
          /\ e \in recent[s][r]
      BY <2>2, <2>4
    <3>1. /\ peers'[s][Other(r)] = peers[s][Other(r)] /\ peers[s][Other(r)] \in Conns
          /\ e \in recent[s][r]
      <4>1. peers[s][Other(r)] \in Conns \cup {NoConn}
        BY <2>0 DEF TypeOK
      <4> QED BY <3>0, <4>1
    <3>2. peers[s][Other(r)] # c
      BY <2>0, <2>1 DEF PeersInv, Registered
    <3>3. CASE e.m \in handed[peers[s][Other(r)]]
      BY <2>1, <3>1, <3>2, <3>3
    <3>4. CASE e.m \notin handed[peers[s][Other(r)]]
      <4>1. PICK d \in Conns : /\ pc[d] = "send" /\ cur[d] = e.m
                               /\ target[d] = peers[s][Other(r)]
        BY <3>1, <3>4, NoConnAssumption DEF HandedOver
      <4>2. d # c
        BY <2>1, <4>1
      <4> QED BY <2>1, <3>1, <4>1, <4>2
    <3> QED BY <3>3, <3>4
  <2> QED BY <2>3, <2>4
<1>8. ASSUME NEW c \in Conns, RegisterDuplicate(c)
      PROVE  HandedOver'
  <2>1. /\ peers' = peers /\ handed' = handed
        /\ \A s \in Conns, r \in Roles : recent'[s][r] \subseteq recent[s][r]
    BY <1>8 DEF RegisterDuplicate, TypeOK
  <2>2. \A d \in Conns : pc[d] = "send" =>
           pc'[d] = "send" /\ cur'[d] = cur[d] /\ target'[d] = target[d]
    BY <1>8 DEF RegisterDuplicate, TypeOK
  <2> QED BY <2>1, <2>2, HandedFrame
<1>9. ASSUME NEW c \in Conns, AdviseIfAlone(c)
      PROVE  HandedOver'
  <2>1. handed' = handed
    <3>1. PeerAbsent(c).type \notin replayableTypes
      BY DEF PeerAbsent, replayableTypes
    <3> QED BY <1>9, <3>1 DEF AdviseIfAlone, Enqueue
  <2>2. peers' = peers /\ recent' = recent
    BY <1>9 DEF AdviseIfAlone
  <2>3. \A d \in Conns : pc[d] = "send" =>
           pc'[d] = "send" /\ cur'[d] = cur[d] /\ target'[d] = target[d]
    BY <1>9 DEF AdviseIfAlone, TypeOK
  <2> QED BY <2>1, <2>2, <2>3, HandedFrame
<1>10. ASSUME NEW c \in Conns, Forward(c)
      PROVE  HandedOver'
  <2> SUFFICES ASSUME NEW s \in Conns, NEW r \in Roles, NEW e \in recent'[s][r],
                      peers'[s][Other(r)] # NoConn
               PROVE  \/ e.m \in handed'[peers'[s][Other(r)]]
                      \/ \E d \in Conns : /\ pc'[d] = "send" /\ cur'[d] = e.m
                                          /\ target'[d] = peers'[s][Other(r)]
      BY DEF HandedOver
  <2>0. sess[c] \in Conns /\ RoleOf[c] \in Roles /\ Other(r) \in Roles
        /\ Other(RoleOf[c]) \in Roles /\ (Other(r) = RoleOf[c] => r = Other(RoleOf[c]))
    BY <1>10, Basics DEF Forward, Counterpart, SessInv, Other, Roles
  <2>1. /\ handed' = handed /\ cur' = cur /\ peers' = peers
        /\ pc'[c] = "send" /\ pc[c] = "forward"
        /\ target'[c] = peers[sess[c]][Other(RoleOf[c])]
        /\ \A d \in Conns : d # c => pc'[d] = pc[d] /\ target'[d] = target[d]
    BY <1>10 DEF Forward, Counterpart, TypeOK
  <2>2. \/ e \in recent[s][r]
        \/ s = sess[c] /\ r = RoleOf[c] /\ e = Stamp(cur[c])
    BY <1>10, <2>0 DEF Forward, Counterpart, TypeOK
  <2>3. CASE e = Stamp(cur[c]) /\ s = sess[c] /\ r = RoleOf[c]
    BY <2>1, <2>3 DEF Stamp
  <2>4. CASE e \in recent[s][r]
    <3>1. CASE e.m \in handed[peers[s][Other(r)]]
      BY <2>1, <3>1
    <3>2. CASE e.m \notin handed[peers[s][Other(r)]]
      <4>1. PICK d \in Conns : /\ pc[d] = "send" /\ cur[d] = e.m
                               /\ target[d] = peers[s][Other(r)]
        BY <2>1, <2>4, <3>2 DEF HandedOver
      <4>2. d # c
        BY <2>1, <4>1
      <4> QED BY <2>1, <4>1, <4>2
    <3> QED BY <3>1, <3>2
  <2> QED BY <2>2, <2>3, <2>4
<1>11. ASSUME NEW c \in Conns, Send(c)
      PROVE  HandedOver'
  <2> SUFFICES ASSUME NEW s \in Conns, NEW r \in Roles, NEW e \in recent'[s][r],
                      peers'[s][Other(r)] # NoConn
               PROVE  \/ e.m \in handed'[peers'[s][Other(r)]]
                      \/ \E d \in Conns : /\ pc'[d] = "send" /\ cur'[d] = e.m
                                          /\ target'[d] = peers'[s][Other(r)]
      BY DEF HandedOver
  <2>0. sess[c] \in Conns /\ RoleOf[c] \in Roles /\ Other(r) \in Roles
        /\ Other(RoleOf[c]) \in Roles /\ (Other(r) = RoleOf[c] => r = Other(RoleOf[c]))
    BY <1>11, Basics DEF Send, SessInv, Other, Roles
  <2>1. /\ peers' = peers /\ recent' = recent /\ cur' = cur /\ pc[c] = "send"
        /\ \A d \in Conns : d # c => pc'[d] = pc[d] /\ target'[d] = target[d]
    BY <1>11 DEF Send, TypeOK
  <2>2. \A d \in Conns : handed[d] \subseteq handed'[d]
    <3>1. CASE UNCHANGED outVars
      BY <3>1 DEF outVars
    <3>2. CASE target[c] # NoConn /\ Enqueue(target[c], cur[c])
      <4>1. target[c] \in Conns
        BY <3>2 DEF TypeOK
      <4>2. CASE handed' = handed
        BY <4>2
      <4>3. CASE handed' = [handed EXCEPT ![target[c]] = handed[target[c]] \cup {cur[c]}]
        BY <4>1, <4>3 DEF TypeOK
      <4> QED BY <3>2, <4>2, <4>3 DEF Enqueue
    <3> QED BY <1>11, <3>1, <3>2 DEF Send
  <2>3. cur[c].type \in replayableTypes /\ target[c] \in Conns => cur[c] \in handed'[target[c]]
    BY <1>11, NoConnAssumption DEF Send, Enqueue, TypeOK
  <2>4. peers[s][Other(r)] \in Conns /\ e \in recent[s][r] /\ e.m.type \in replayableTypes
    BY <2>0, <2>1 DEF TypeOK, BufInv
  <2>5. CASE e.m \in handed[peers[s][Other(r)]]
    BY <2>1, <2>2, <2>4, <2>5
  <2>6. CASE e.m \notin handed[peers[s][Other(r)]]
    <3>1. PICK d \in Conns : /\ pc[d] = "send" /\ cur[d] = e.m
                             /\ target[d] = peers[s][Other(r)]
      BY <2>4, <2>6, NoConnAssumption DEF HandedOver
    <3>2. CASE d = c
      BY <2>1, <2>3, <2>4, <3>1, <3>2
    <3>3. CASE d # c
      BY <2>1, <3>1, <3>3
    <3> QED BY <3>2, <3>3
  <2> QED BY <2>5, <2>6
<1>12. ASSUME NEW c \in Conns, DiscardOnBye(c)
      PROVE  HandedOver'
  <2>1. /\ peers' = peers /\ handed' = handed
        /\ \A s \in Conns, r \in Roles : recent'[s][r] \subseteq recent[s][r]
    BY <1>12 DEF DiscardOnBye, Discard, SessInv, TypeOK
  <2>2. \A d \in Conns : pc[d] = "send" =>
           pc'[d] = "send" /\ cur'[d] = cur[d] /\ target'[d] = target[d]
    BY <1>12 DEF DiscardOnBye, TypeOK
  <2> QED BY <2>1, <2>2, HandedFrame
<1>13. ASSUME NEW c \in Conns, Unregister(c)
      PROVE  HandedOver'
  <2> SUFFICES ASSUME NEW s \in Conns, NEW r \in Roles, NEW e \in recent'[s][r],
                      peers'[s][Other(r)] # NoConn
               PROVE  \/ e.m \in handed'[peers'[s][Other(r)]]
                      \/ \E d \in Conns : /\ pc'[d] = "send" /\ cur'[d] = e.m
                                          /\ target'[d] = peers'[s][Other(r)]
      BY DEF HandedOver
  <2>0. sess[c] \in Conns /\ RoleOf[c] \in Roles /\ Other(r) \in Roles
        /\ Other(RoleOf[c]) \in Roles /\ (Other(r) = RoleOf[c] => r = Other(RoleOf[c]))
    BY <1>13, Basics DEF Unregister, SessInv, Other, Roles
  <2>1. /\ handed' = handed /\ cur' = cur /\ recent' = recent /\ target' = target
        /\ \A d \in Conns : pc[d] = "send" => pc'[d] = "send"
    BY <1>13 DEF Unregister, TypeOK
  <2>2. peers'[s][Other(r)] = peers[s][Other(r)]
    BY <1>13, <2>0 DEF Unregister, TypeOK
  <2> QED BY <2>1, <2>2 DEF HandedOver
<1>14. ASSUME NEW c \in Conns, ReadEnded(c)
      PROVE  HandedOver'
  <2>1. /\ peers' = peers /\ handed' = handed
        /\ \A s \in Conns, r \in Roles : recent'[s][r] \subseteq recent[s][r]
    BY <1>14 DEF ReadEnded, TypeOK
  <2>2. \A d \in Conns : pc[d] = "send" =>
           pc'[d] = "send" /\ cur'[d] = cur[d] /\ target'[d] = target[d]
    BY <1>14 DEF ReadEnded, TypeOK
  <2> QED BY <2>1, <2>2, HandedFrame
<1>15. ASSUME NEW c \in Conns, DiscardOnLeave(c)
      PROVE  HandedOver'
  <2>1. /\ peers' = peers /\ handed' = handed
        /\ \A s \in Conns, r \in Roles : recent'[s][r] \subseteq recent[s][r]
    BY <1>15 DEF DiscardOnLeave, Discard, SessInv, TypeOK
  <2>2. \A d \in Conns : pc[d] = "send" =>
           pc'[d] = "send" /\ cur'[d] = cur[d] /\ target'[d] = target[d]
    BY <1>15 DEF DiscardOnLeave, TypeOK
  <2> QED BY <2>1, <2>2, HandedFrame
<1>16. ASSUME NEW c \in Conns, Synthesise(c)
      PROVE  HandedOver'
  <2>1. /\ peers' = peers /\ handed' = handed
        /\ \A s \in Conns, r \in Roles : recent'[s][r] \subseteq recent[s][r]
    BY <1>16 DEF Synthesise, TypeOK
  <2>2. \A d \in Conns : pc[d] = "send" =>
           pc'[d] = "send" /\ cur'[d] = cur[d] /\ target'[d] = target[d]
    BY <1>16 DEF Synthesise, TypeOK
  <2> QED BY <2>1, <2>2, HandedFrame
<1>17. ASSUME NEW c \in Conns, NoByeDue(c)
      PROVE  HandedOver'
  <2>1. /\ peers' = peers /\ handed' = handed
        /\ \A s \in Conns, r \in Roles : recent'[s][r] \subseteq recent[s][r]
    BY <1>17 DEF NoByeDue, TypeOK
  <2>2. \A d \in Conns : pc[d] = "send" =>
           pc'[d] = "send" /\ cur'[d] = cur[d] /\ target'[d] = target[d]
    BY <1>17 DEF NoByeDue, TypeOK
  <2> QED BY <2>1, <2>2, HandedFrame
<1>18. ASSUME NEW c \in Conns, DropIfEmpty(c)
      PROVE  HandedOver'
  <2>1. peers' = peers /\ recent' = recent
    BY <1>18 DEF DropIfEmpty
  <2>2. \A d \in Conns : pc[d] = "send" =>
           pc'[d] = "send" /\ cur'[d] = cur[d] /\ target'[d] = target[d]
    BY <1>18 DEF DropIfEmpty, Forget, TypeOK
  <2>3. ~Registered(c)
    BY <1>18 DEF DropIfEmpty, Registered
  <2>4. \A s \in Conns, r \in Roles, d \in Conns :
           peers[s][r] = d => handed[d] \subseteq handed'[d]
    BY <1>18, <2>3 DEF DropIfEmpty, Forget, PeersInv, TypeOK
  <2> QED BY <2>1, <2>2, <2>4, HandedFrame
<1>19. ASSUME NEW c \in Conns, WritePump(c)
      PROVE  HandedOver'
  <2>1. /\ peers' = peers /\ handed' = handed
        /\ \A s \in Conns, r \in Roles : recent'[s][r] \subseteq recent[s][r]
    BY <1>19 DEF WritePump, TypeOK
  <2>2. \A d \in Conns : pc[d] = "send" =>
           pc'[d] = "send" /\ cur'[d] = cur[d] /\ target'[d] = target[d]
    BY <1>19 DEF WritePump, TypeOK
  <2> QED BY <2>1, <2>2, HandedFrame
<1> QED
  BY <1>1, <1>2, <1>3, <1>4, <1>5, <1>6, <1>7, <1>8, <1>9, <1>10, <1>11,
     <1>12, <1>13, <1>14, <1>15, <1>16, <1>17, <1>18, <1>19 DEF Next, Handler, Peer

\* Every step keeps HandedOnce.
LEMMA HandedOnceStep ==
    ASSUME TypeOK, SessInv, CurInv, TargetInv, CountInv, HandedOnce, [Next]_vars
    PROVE  HandedOnce'
<1> USE DEF hubVars, bufVars, flagVars, outVars
<1>1. CASE UNCHANGED vars
  BY <1>1 DEF vars, HandedOnce
<1>2. CASE Tick \/ Shutdown \/ Finished
  BY <1>2 DEF Tick, Shutdown, Finished, vars, HandedOnce
<1>3. ASSUME NEW c \in Conns, Reject(c)
      PROVE  HandedOnce'
  <2>1. \A d \in Conns : handed'[d] \subseteq handed[d]
    BY <1>3 DEF Reject, MayDial, TypeOK
  <2>2. \A d \in Conns : pc'[d] = "send" =>
           pc[d] = "send" /\ cur'[d] = cur[d] /\ target'[d] = target[d]
    BY <1>3 DEF Reject, MayDial, TypeOK
  <2> QED BY <2>1, <2>2 DEF HandedOnce, TypeOK
<1>4. ASSUME NEW c \in Conns, NEW t \in FirstFrames, GetOrCreate(c, t)
      PROVE  HandedOnce'
  <2>1. \A d \in Conns : handed'[d] \subseteq handed[d]
    BY <1>4 DEF GetOrCreate, MayDial, TypeOK
  <2>2. \A d \in Conns : pc'[d] = "send" =>
           pc[d] = "send" /\ cur'[d] = cur[d] /\ target'[d] = target[d]
    BY <1>4 DEF GetOrCreate, MayDial, TypeOK
  <2> QED BY <2>1, <2>2 DEF HandedOnce, TypeOK
<1>5. ASSUME NEW c \in Conns, NEW t \in Frames, ReadFrame(c, t)
      PROVE  HandedOnce'
  <2>1. \A d \in Conns : handed'[d] \subseteq handed[d]
    BY <1>5 DEF ReadFrame, TypeOK
  <2>2. \A d \in Conns : pc'[d] = "send" =>
           pc[d] = "send" /\ cur'[d] = cur[d] /\ target'[d] = target[d]
    BY <1>5 DEF ReadFrame, TypeOK
  <2> QED BY <2>1, <2>2 DEF HandedOnce, TypeOK
<1>6. ASSUME NEW c \in Conns, ReadError(c)
      PROVE  HandedOnce'
  <2>1. \A d \in Conns : handed'[d] \subseteq handed[d]
    BY <1>6 DEF ReadError, TypeOK
  <2>2. \A d \in Conns : pc'[d] = "send" =>
           pc[d] = "send" /\ cur'[d] = cur[d] /\ target'[d] = target[d]
    BY <1>6 DEF ReadError, TypeOK
  <2> QED BY <2>1, <2>2 DEF HandedOnce, TypeOK
<1>7. ASSUME NEW c \in Conns, RegisterOk(c)
      PROVE  HandedOnce'
  <2>1. /\ pc[c] = "register" /\ target' = target /\ cur' = cur
        /\ \A d \in Conns : d # c => handed'[d] = handed[d]
        /\ \A d \in Conns : pc'[d] = "send" => pc[d] = "send"
    BY <1>7 DEF RegisterOk, TypeOK
  <2>2. \A d \in Conns : pc[d] = "send" /\ target[d] # NoConn =>
                            target[d] \in Conns /\ target[d] # c
    BY <2>1 DEF TargetInv, TypeOK
  <2> QED BY <2>1, <2>2 DEF HandedOnce
<1>8. ASSUME NEW c \in Conns, RegisterDuplicate(c)
      PROVE  HandedOnce'
  <2>1. \A d \in Conns : handed'[d] \subseteq handed[d]
    BY <1>8 DEF RegisterDuplicate, TypeOK
  <2>2. \A d \in Conns : pc'[d] = "send" =>
           pc[d] = "send" /\ cur'[d] = cur[d] /\ target'[d] = target[d]
    BY <1>8 DEF RegisterDuplicate, TypeOK
  <2> QED BY <2>1, <2>2 DEF HandedOnce, TypeOK
<1>9. ASSUME NEW c \in Conns, AdviseIfAlone(c)
      PROVE  HandedOnce'
  <2>1. handed' = handed
    <3>1. PeerAbsent(c).type \notin replayableTypes
      BY DEF PeerAbsent, replayableTypes
    <3> QED BY <1>9, <3>1 DEF AdviseIfAlone, Enqueue
  <2>2. \A d \in Conns : pc'[d] = "send" =>
           pc[d] = "send" /\ cur'[d] = cur[d] /\ target'[d] = target[d]
    BY <1>9 DEF AdviseIfAlone, TypeOK
  <2> QED BY <2>1, <2>2 DEF HandedOnce
<1>10. ASSUME NEW c \in Conns, Forward(c)
      PROVE  HandedOnce'
  <2>1. /\ handed' = handed /\ cur' = cur /\ pc[c] = "forward"
        /\ \A d \in Conns : d # c => pc'[d] = pc[d] /\ target'[d] = target[d]
        /\ target'[c] \in Conns \cup {NoConn}
    <3>0. sess[c] \in Conns /\ Other(RoleOf[c]) \in Roles
      BY <1>10, Basics DEF Forward, Counterpart, SessInv
    <3>1. peers[sess[c]][Other(RoleOf[c])] \in Conns \cup {NoConn}
      BY <3>0 DEF TypeOK
    <3> QED BY <1>10, <3>1 DEF Forward, Counterpart, TypeOK
  <2>2. ASSUME NEW d \in Conns, cur[c] \in handed[d]
        PROVE  FALSE
    <3>1. cur[c].type \in replayableTypes /\ Older(cur[c]) /\ cur[c].from = c
      BY <2>2 DEF CountInv, CurInv
    <3>2. stage[c] # "cleanup"
      BY <2>1, <3>1 DEF CurInv, replayableTypes
    <3>3. cur[c].n = nread[c] /\ nread[c] \in Nat
      BY <2>1, <3>2 DEF CountInv, TypeOK
    <3> QED BY <2>1, <3>1, <3>2, <3>3 DEF Older
  <2> QED BY <2>1, <2>2 DEF HandedOnce
<1>11. ASSUME NEW c \in Conns, Send(c)
      PROVE  HandedOnce'
  <2>1. /\ cur' = cur /\ pc'[c] # "send"
        /\ \A d \in Conns : d # c => pc'[d] = pc[d] /\ target'[d] = target[d]
    BY <1>11 DEF Send, AfterForward, TypeOK
  <2>2. \A d \in Conns : handed'[d] \subseteq handed[d] \cup {cur[c]}
    BY <1>11 DEF Send, Enqueue, TypeOK
  <2>3. \A d \in Conns : d # c => cur[d] # cur[c]
    BY DEF CurInv
  <2>4. ASSUME NEW d \in Conns, pc'[d] = "send", target'[d] # NoConn
        PROVE  cur'[d] \notin handed'[target'[d]]
    <3>1. d # c /\ pc[d] = "send" /\ target[d] # NoConn /\ target'[d] = target[d]
      BY <2>1, <2>4
    <3>2. target[d] \in Conns /\ cur[d] \notin handed[target[d]]
      BY <3>1 DEF HandedOnce, TypeOK
    <3> QED BY <2>1, <2>2, <2>3, <3>1, <3>2
  <2> QED BY <2>4 DEF HandedOnce
<1>12. ASSUME NEW c \in Conns, DiscardOnBye(c)
      PROVE  HandedOnce'
  <2>1. \A d \in Conns : handed'[d] \subseteq handed[d]
    BY <1>12 DEF DiscardOnBye, TypeOK
  <2>2. \A d \in Conns : pc'[d] = "send" =>
           pc[d] = "send" /\ cur'[d] = cur[d] /\ target'[d] = target[d]
    BY <1>12 DEF DiscardOnBye, TypeOK
  <2> QED BY <2>1, <2>2 DEF HandedOnce, TypeOK
<1>13. ASSUME NEW c \in Conns, Unregister(c)
      PROVE  HandedOnce'
  <2>1. \A d \in Conns : handed'[d] \subseteq handed[d]
    BY <1>13 DEF Unregister, TypeOK
  <2>2. \A d \in Conns : pc'[d] = "send" =>
           pc[d] = "send" /\ cur'[d] = cur[d] /\ target'[d] = target[d]
    BY <1>13 DEF Unregister, TypeOK
  <2> QED BY <2>1, <2>2 DEF HandedOnce, TypeOK
<1>14. ASSUME NEW c \in Conns, ReadEnded(c)
      PROVE  HandedOnce'
  <2>1. \A d \in Conns : handed'[d] \subseteq handed[d]
    BY <1>14 DEF ReadEnded, TypeOK
  <2>2. \A d \in Conns : pc'[d] = "send" =>
           pc[d] = "send" /\ cur'[d] = cur[d] /\ target'[d] = target[d]
    BY <1>14 DEF ReadEnded, TypeOK
  <2> QED BY <2>1, <2>2 DEF HandedOnce, TypeOK
<1>15. ASSUME NEW c \in Conns, DiscardOnLeave(c)
      PROVE  HandedOnce'
  <2>1. \A d \in Conns : handed'[d] \subseteq handed[d]
    BY <1>15 DEF DiscardOnLeave, TypeOK
  <2>2. \A d \in Conns : pc'[d] = "send" =>
           pc[d] = "send" /\ cur'[d] = cur[d] /\ target'[d] = target[d]
    BY <1>15 DEF DiscardOnLeave, TypeOK
  <2> QED BY <2>1, <2>2 DEF HandedOnce, TypeOK
<1>16. ASSUME NEW c \in Conns, Synthesise(c)
      PROVE  HandedOnce'
  <2>1. \A d \in Conns : handed'[d] \subseteq handed[d]
    BY <1>16 DEF Synthesise, TypeOK
  <2>2. \A d \in Conns : pc'[d] = "send" =>
           pc[d] = "send" /\ cur'[d] = cur[d] /\ target'[d] = target[d]
    BY <1>16 DEF Synthesise, TypeOK
  <2> QED BY <2>1, <2>2 DEF HandedOnce, TypeOK
<1>17. ASSUME NEW c \in Conns, NoByeDue(c)
      PROVE  HandedOnce'
  <2>1. \A d \in Conns : handed'[d] \subseteq handed[d]
    BY <1>17 DEF NoByeDue, TypeOK
  <2>2. \A d \in Conns : pc'[d] = "send" =>
           pc[d] = "send" /\ cur'[d] = cur[d] /\ target'[d] = target[d]
    BY <1>17 DEF NoByeDue, TypeOK
  <2> QED BY <2>1, <2>2 DEF HandedOnce, TypeOK
<1>18. ASSUME NEW c \in Conns, DropIfEmpty(c)
      PROVE  HandedOnce'
  <2>1. \A d \in Conns : handed'[d] \subseteq handed[d]
    BY <1>18 DEF DropIfEmpty, Forget, TypeOK
  <2>2. \A d \in Conns : pc'[d] = "send" =>
           pc[d] = "send" /\ cur'[d] = cur[d] /\ target'[d] = target[d]
    BY <1>18 DEF DropIfEmpty, Forget, TypeOK
  <2> QED BY <2>1, <2>2 DEF HandedOnce, TypeOK
<1>19. ASSUME NEW c \in Conns, WritePump(c)
      PROVE  HandedOnce'
  <2>1. \A d \in Conns : handed'[d] \subseteq handed[d]
    BY <1>19 DEF WritePump, TypeOK
  <2>2. \A d \in Conns : pc'[d] = "send" =>
           pc[d] = "send" /\ cur'[d] = cur[d] /\ target'[d] = target[d]
    BY <1>19 DEF WritePump, TypeOK
  <2> QED BY <2>1, <2>2 DEF HandedOnce, TypeOK
<1> QED
  BY <1>1, <1>2, <1>3, <1>4, <1>5, <1>6, <1>7, <1>8, <1>9, <1>10, <1>11,
     <1>12, <1>13, <1>14, <1>15, <1>16, <1>17, <1>18, <1>19 DEF Next, Handler, Peer

\* Every step hands SDP to the opposite role of the same key only.
LEMMA OppositeStep ==
    ASSUME TypeOK, SessInv, CurInv, BufInv, TargetInv, Opposite, [Next]_vars
    PROVE  Opposite'
<1> USE DEF hubVars, bufVars, flagVars, outVars
<1>1. CASE UNCHANGED vars
  BY <1>1 DEF vars, Opposite
<1>2. CASE Tick \/ Shutdown \/ Finished
  BY <1>2 DEF Tick, Shutdown, Finished, vars, Opposite
<1>3. ASSUME NEW c \in Conns, Reject(c)
      PROVE  Opposite'
  <2>1. \A d \in Conns : handed'[d] \subseteq handed[d]
    BY <1>3 DEF Reject, MayDial, TypeOK
  <2> QED BY <2>1 DEF Opposite
<1>4. ASSUME NEW c \in Conns, NEW t \in FirstFrames, GetOrCreate(c, t)
      PROVE  Opposite'
  <2>1. \A d \in Conns : handed'[d] \subseteq handed[d]
    BY <1>4 DEF GetOrCreate, MayDial, TypeOK
  <2> QED BY <2>1 DEF Opposite
<1>5. ASSUME NEW c \in Conns, NEW t \in Frames, ReadFrame(c, t)
      PROVE  Opposite'
  <2>1. \A d \in Conns : handed'[d] \subseteq handed[d]
    BY <1>5 DEF ReadFrame, TypeOK
  <2> QED BY <2>1 DEF Opposite
<1>6. ASSUME NEW c \in Conns, ReadError(c)
      PROVE  Opposite'
  <2>1. \A d \in Conns : handed'[d] \subseteq handed[d]
    BY <1>6 DEF ReadError, TypeOK
  <2> QED BY <2>1 DEF Opposite
<1>7. ASSUME NEW c \in Conns, RegisterOk(c)
      PROVE  Opposite'
  <2>0. sess[c] \in Conns
    BY <1>7 DEF RegisterOk, SessInv
  <2>1. /\ \A d \in Conns : d # c => handed'[d] = handed[d]
        /\ \A m \in handed'[c] : \E e \in recent[sess[c]][Other(RoleOf[c])] : m = e.m
    BY <1>7 DEF RegisterOk, SdpReplay, TypeOK
  <2>2. ASSUME NEW m \in handed'[c]
        PROVE  KeyOf[m.from] = KeyOf[c] /\ RoleOf[m.from] = Other(RoleOf[c])
    <3>1. PICK e \in recent[sess[c]][Other(RoleOf[c])] : m = e.m
      BY <2>1
    <3>2. /\ m.from \in Conns /\ sess[m.from] = sess[c]
          /\ RoleOf[m.from] = Other(RoleOf[c])
      BY <2>0, <3>1, Basics, RecentMessages DEF BufInv
    <3> QED BY <2>0, <3>2 DEF SessInv
  <2> QED BY <2>1, <2>2 DEF Opposite
<1>8. ASSUME NEW c \in Conns, RegisterDuplicate(c)
      PROVE  Opposite'
  <2>1. \A d \in Conns : handed'[d] \subseteq handed[d]
    BY <1>8 DEF RegisterDuplicate, TypeOK
  <2> QED BY <2>1 DEF Opposite
<1>9. ASSUME NEW c \in Conns, AdviseIfAlone(c)
      PROVE  Opposite'
  <2>1. handed' = handed
    <3>1. PeerAbsent(c).type \notin replayableTypes
      BY DEF PeerAbsent, replayableTypes
    <3> QED BY <1>9, <3>1 DEF AdviseIfAlone, Enqueue
  <2> QED BY <2>1 DEF Opposite
<1>10. ASSUME NEW c \in Conns, Forward(c)
      PROVE  Opposite'
  <2>1. \A d \in Conns : handed'[d] \subseteq handed[d]
    BY <1>10 DEF Forward, Counterpart, TypeOK
  <2> QED BY <2>1 DEF Opposite
<1>11. ASSUME NEW c \in Conns, Send(c)
      PROVE  Opposite'
  <2>1. /\ pc[c] = "send" /\ cur[c].from = c
        /\ \A d \in Conns : d # target[c] => handed'[d] = handed[d]
        /\ \A d \in Conns : handed'[d] \subseteq handed[d] \cup {cur[c]}
    <3>1. pc[c] = "send" /\ cur[c].from = c
      BY <1>11 DEF Send, CurInv
    <3>2. CASE target[c] = NoConn
      BY <1>11, <3>1, <3>2 DEF Send, Enqueue, outVars
    <3>3. CASE target[c] # NoConn
      <4>1. Enqueue(target[c], cur[c])
        BY <1>11, <3>3 DEF Send
      <4>2. handed \in [Conns -> SUBSET Message] /\ target[c] \in Conns
        BY <3>3 DEF TypeOK
      <4> QED BY <3>1, <4>1, <4>2 DEF Enqueue
    <3> QED BY <3>2, <3>3
  <2>2. target[c] \in Conns => /\ KeyOf[target[c]] = KeyOf[c]
                               /\ RoleOf[c] = Other(RoleOf[target[c]])
    BY <2>1, Basics, NoConnAssumption DEF TargetInv
  <2> QED BY <2>1, <2>2 DEF Opposite
<1>12. ASSUME NEW c \in Conns, DiscardOnBye(c)
      PROVE  Opposite'
  <2>1. \A d \in Conns : handed'[d] \subseteq handed[d]
    BY <1>12 DEF DiscardOnBye, TypeOK
  <2> QED BY <2>1 DEF Opposite
<1>13. ASSUME NEW c \in Conns, Unregister(c)
      PROVE  Opposite'
  <2>1. \A d \in Conns : handed'[d] \subseteq handed[d]
    BY <1>13 DEF Unregister, TypeOK
  <2> QED BY <2>1 DEF Opposite
<1>14. ASSUME NEW c \in Conns, ReadEnded(c)
      PROVE  Opposite'
  <2>1. \A d \in Conns : handed'[d] \subseteq handed[d]
    BY <1>14 DEF ReadEnded, TypeOK
  <2> QED BY <2>1 DEF Opposite
<1>15. ASSUME NEW c \in Conns, DiscardOnLeave(c)
      PROVE  Opposite'
  <2>1. \A d \in Conns : handed'[d] \subseteq handed[d]
    BY <1>15 DEF DiscardOnLeave, TypeOK
  <2> QED BY <2>1 DEF Opposite
<1>16. ASSUME NEW c \in Conns, Synthesise(c)
      PROVE  Opposite'
  <2>1. \A d \in Conns : handed'[d] \subseteq handed[d]
    BY <1>16 DEF Synthesise, TypeOK
  <2> QED BY <2>1 DEF Opposite
<1>17. ASSUME NEW c \in Conns, NoByeDue(c)
      PROVE  Opposite'
  <2>1. \A d \in Conns : handed'[d] \subseteq handed[d]
    BY <1>17 DEF NoByeDue, TypeOK
  <2> QED BY <2>1 DEF Opposite
<1>18. ASSUME NEW c \in Conns, DropIfEmpty(c)
      PROVE  Opposite'
  <2>1. \A d \in Conns : handed'[d] \subseteq handed[d]
    BY <1>18 DEF DropIfEmpty, Forget, TypeOK
  <2> QED BY <2>1 DEF Opposite
<1>19. ASSUME NEW c \in Conns, WritePump(c)
      PROVE  Opposite'
  <2>1. \A d \in Conns : handed'[d] \subseteq handed[d]
    BY <1>19 DEF WritePump, TypeOK
  <2> QED BY <2>1 DEF Opposite
<1> QED
  BY <1>1, <1>2, <1>3, <1>4, <1>5, <1>6, <1>7, <1>8, <1>9, <1>10, <1>11,
     <1>12, <1>13, <1>14, <1>15, <1>16, <1>17, <1>18, <1>19 DEF Next, Handler, Peer

\* A connection holds the session object of its getOrCreate to the end.
LEMMA SessKept ==
    ASSUME TypeOK, [Next]_vars
    PROVE  \A d \in Conns : pc[d] # "idle" => sess'[d] = sess[d]
<1> USE DEF hubVars, bufVars, flagVars, outVars
<1>1. CASE UNCHANGED vars
  BY <1>1 DEF vars
<1>2. CASE Tick \/ Shutdown \/ Finished
  BY <1>2 DEF Tick, Shutdown, Finished, vars
<1>3. ASSUME NEW c \in Conns, NEW t \in FirstFrames, GetOrCreate(c, t)
      PROVE  \A d \in Conns : pc[d] # "idle" => sess'[d] = sess[d]
  BY <1>3 DEF GetOrCreate, MayDial, TypeOK
<1>4. ASSUME NEW c \in Conns, \/ Reject(c) \/ ReadError(c) \/ RegisterOk(c)
                              \/ RegisterDuplicate(c) \/ AdviseIfAlone(c)
      PROVE  sess' = sess
  BY <1>4 DEF Reject, ReadError, RegisterOk, RegisterDuplicate, AdviseIfAlone
<1>5. ASSUME NEW c \in Conns, \/ Forward(c) \/ Send(c) \/ DiscardOnBye(c) \/ Unregister(c)
                              \/ ReadEnded(c) \/ DiscardOnLeave(c)
      PROVE  sess' = sess
  BY <1>5 DEF Forward, Send, DiscardOnBye, Unregister, ReadEnded, DiscardOnLeave
<1>6. ASSUME NEW c \in Conns, \/ Synthesise(c) \/ NoByeDue(c) \/ DropIfEmpty(c) \/ WritePump(c)
                              \/ \E t \in Frames : ReadFrame(c, t)
      PROVE  sess' = sess
  BY <1>6 DEF Synthesise, NoByeDue, DropIfEmpty, WritePump, ReadFrame
<1> QED  BY <1>1, <1>2, <1>3, <1>4, <1>5, <1>6 DEF Next, Handler, Peer

\* Handing nothing over and taking no target keeps SameSession.
LEMMA SameFrame ==
    ASSUME TypeOK, TargetInv, CountInv, SameSession, [Next]_vars,
           \A d \in Conns : handed'[d] \subseteq handed[d],
           \A d \in Conns : pc'[d] = "send" => pc[d] = "send" /\ target'[d] = target[d],
           \A d \in Conns : pc'[d] = "idle" => pc[d] = "idle"
    PROVE  SameSession'
<1>1. \A d \in Conns : pc[d] # "idle" => sess'[d] = sess[d]
  BY SessKept
<1>2. \A c \in Conns : pc'[c] = "idle" => handed'[c] = {}
  BY DEF SameSession
<1>3. ASSUME NEW d \in Conns, pc'[d] = "send", target'[d] # NoConn
      PROVE  sess'[target'[d]] = sess'[d]
  <2>1. pc[d] = "send" /\ target'[d] = target[d] /\ target[d] \in Conns
    BY <1>3 DEF TypeOK
  <2>2. pc[target[d]] # "idle" /\ sess[target[d]] = sess[d]
    BY <1>3, <2>1 DEF TargetInv, SameSession
  <2> QED  BY <1>1, <2>1, <2>2
<1>4. ASSUME NEW c \in Conns, NEW m \in handed'[c]
      PROVE  sess'[m.from] = sess'[c]
  <2>1. m \in handed[c] /\ m.from \in Conns
    BY <1>4, HandedMessages
  <2>2. pc[c] # "idle" /\ sess[m.from] = sess[c]
    BY <2>1 DEF SameSession
  <2>3. pc[m.from] # "idle"
    <3>1. m.n \in 1..nread[m.from]
      BY <2>1 DEF CountInv, Older
    <3>2. nread[m.from] # 0
      BY <3>1
    <3> QED  BY <2>1, <3>2 DEF CountInv
  <2> QED  BY <1>1, <2>1, <2>2, <2>3
<1> QED  BY <1>2, <1>3, <1>4 DEF SameSession

\* Every step keeps peers that exchange SDP in one session object.
LEMMA SameStep ==
    ASSUME TypeOK, SessInv, PeersInv, CurInv, BufInv, TargetInv, CountInv, SameSession,
           [Next]_vars
    PROVE  SameSession'
<1> USE DEF hubVars, bufVars, flagVars, outVars
<1>1. CASE UNCHANGED vars
  BY <1>1 DEF vars, SameSession
<1>2. CASE Tick \/ Shutdown \/ Finished
  BY <1>2 DEF Tick, Shutdown, Finished, vars, SameSession
<1>3. ASSUME NEW c \in Conns, Reject(c)
      PROVE  SameSession'
  <2>1. \A d \in Conns : handed'[d] \subseteq handed[d]
    BY <1>3 DEF Reject, MayDial, TypeOK
  <2>2. \A d \in Conns : pc'[d] = "send" => pc[d] = "send" /\ target'[d] = target[d]
    BY <1>3 DEF Reject, MayDial, TypeOK
  <2>3. \A d \in Conns : pc'[d] = "idle" => pc[d] = "idle"
    BY <1>3 DEF Reject, MayDial, TypeOK
  <2> QED  BY <2>1, <2>2, <2>3, SameFrame
<1>4. ASSUME NEW c \in Conns, NEW t \in FirstFrames, GetOrCreate(c, t)
      PROVE  SameSession'
  <2>1. \A d \in Conns : handed'[d] \subseteq handed[d]
    BY <1>4 DEF GetOrCreate, MayDial, TypeOK
  <2>2. \A d \in Conns : pc'[d] = "send" => pc[d] = "send" /\ target'[d] = target[d]
    BY <1>4 DEF GetOrCreate, MayDial, TypeOK
  <2>3. \A d \in Conns : pc'[d] = "idle" => pc[d] = "idle"
    BY <1>4 DEF GetOrCreate, MayDial, TypeOK
  <2> QED  BY <2>1, <2>2, <2>3, SameFrame
<1>5. ASSUME NEW c \in Conns, NEW t \in Frames, ReadFrame(c, t)
      PROVE  SameSession'
  <2>1. \A d \in Conns : handed'[d] \subseteq handed[d]
    BY <1>5 DEF ReadFrame, TypeOK
  <2>2. \A d \in Conns : pc'[d] = "send" => pc[d] = "send" /\ target'[d] = target[d]
    BY <1>5 DEF ReadFrame, TypeOK
  <2>3. \A d \in Conns : pc'[d] = "idle" => pc[d] = "idle"
    BY <1>5 DEF ReadFrame, TypeOK
  <2> QED  BY <2>1, <2>2, <2>3, SameFrame
<1>6. ASSUME NEW c \in Conns, ReadError(c)
      PROVE  SameSession'
  <2>1. \A d \in Conns : handed'[d] \subseteq handed[d]
    BY <1>6 DEF ReadError, TypeOK
  <2>2. \A d \in Conns : pc'[d] = "send" => pc[d] = "send" /\ target'[d] = target[d]
    BY <1>6 DEF ReadError, TypeOK
  <2>3. \A d \in Conns : pc'[d] = "idle" => pc[d] = "idle"
    BY <1>6 DEF ReadError, TypeOK
  <2> QED  BY <2>1, <2>2, <2>3, SameFrame
<1>7. ASSUME NEW c \in Conns, RegisterOk(c)
      PROVE  SameSession'
  <2>0. sess[c] \in Conns /\ pc[c] = "register" /\ sess' = sess
    BY <1>7 DEF RegisterOk, SessInv
  <2>1. /\ \A d \in Conns : d # c => handed'[d] = handed[d]
        /\ \A m \in handed'[c] : \E e \in recent[sess[c]][Other(RoleOf[c])] : m = e.m
    BY <1>7 DEF RegisterOk, SdpReplay, TypeOK
  <2>2. /\ target' = target /\ pc'[c] = "peerPresent"
        /\ \A d \in Conns : d # c => pc'[d] = pc[d]
    BY <1>7 DEF RegisterOk, TypeOK
  <2>3. ASSUME NEW m \in handed'[c]
        PROVE  sess[m.from] = sess[c]
    BY <2>0, <2>1, Basics DEF BufInv
  <2>4. \A d \in Conns : \A m \in handed'[d] : sess'[m.from] = sess'[d]
    BY <2>0, <2>1, <2>3 DEF SameSession
  <2>5. \A d \in Conns : pc'[d] = "idle" => handed'[d] = {}
    BY <2>1, <2>2 DEF SameSession
  <2>6. \A d \in Conns : pc'[d] = "send" /\ target'[d] # NoConn => sess'[target'[d]] = sess'[d]
    BY <2>0, <2>2 DEF SameSession
  <2> QED  BY <2>4, <2>5, <2>6 DEF SameSession
<1>8. ASSUME NEW c \in Conns, RegisterDuplicate(c)
      PROVE  SameSession'
  <2>1. \A d \in Conns : handed'[d] \subseteq handed[d]
    BY <1>8 DEF RegisterDuplicate, TypeOK
  <2>2. \A d \in Conns : pc'[d] = "send" => pc[d] = "send" /\ target'[d] = target[d]
    BY <1>8 DEF RegisterDuplicate, TypeOK
  <2>3. \A d \in Conns : pc'[d] = "idle" => pc[d] = "idle"
    BY <1>8 DEF RegisterDuplicate, TypeOK
  <2> QED  BY <2>1, <2>2, <2>3, SameFrame
<1>9. ASSUME NEW c \in Conns, AdviseIfAlone(c)
      PROVE  SameSession'
  <2>1. handed' = handed
    <3>1. PeerAbsent(c).type \notin replayableTypes
      BY DEF PeerAbsent, replayableTypes
    <3> QED BY <1>9, <3>1 DEF AdviseIfAlone, Enqueue
  <2>2. \A d \in Conns : pc'[d] = "send" => pc[d] = "send" /\ target'[d] = target[d]
    BY <1>9 DEF AdviseIfAlone, TypeOK
  <2>3. \A d \in Conns : pc'[d] = "idle" => pc[d] = "idle"
    BY <1>9 DEF AdviseIfAlone, TypeOK
  <2> QED  BY <2>1, <2>2, <2>3, SameFrame
<1>10. ASSUME NEW c \in Conns, Forward(c)
      PROVE  SameSession'
  <2> DEFINE to == peers[sess[c]][Other(RoleOf[c])]
  <2>0. sess[c] \in Conns /\ pc[c] = "forward" /\ sess' = sess /\ handed' = handed
    BY <1>10 DEF Forward, SessInv
  <2>1. target'[c] = to /\ \A d \in Conns : d # c => target'[d] = target[d]
    BY <1>10 DEF Forward, Counterpart, TypeOK
  <2>2. pc'[c] = "send" /\ \A d \in Conns : d # c => pc'[d] = pc[d]
    BY <1>10 DEF Forward, TypeOK
  <2>3. to # NoConn => sess[to] = sess[c]
    <3>1. Other(RoleOf[c]) \in Roles
      BY Basics
    <3>2. to \in Conns \cup {NoConn}
      BY <2>0, <3>1 DEF TypeOK
    <3> QED BY <2>0, <3>1, <3>2 DEF PeersInv
  <2> HIDE DEF to
  <2>4. \A d \in Conns : pc'[d] = "send" /\ target'[d] # NoConn => sess'[target'[d]] = sess'[d]
    BY <2>0, <2>1, <2>2, <2>3 DEF SameSession
  <2> QED  BY <2>0, <2>2, <2>4 DEF SameSession
<1>11. ASSUME NEW c \in Conns, Send(c)
      PROVE  SameSession'
  <2>0. pc[c] = "send" /\ cur[c].from = c /\ sess' = sess
    BY <1>11 DEF Send, CurInv
  <2>1. /\ \A d \in Conns : d # target[c] => handed'[d] = handed[d]
        /\ \A d \in Conns : handed'[d] \subseteq handed[d] \cup {cur[c]}
    <3>1. CASE target[c] = NoConn
      BY <1>11, <3>1 DEF Send, outVars
    <3>2. CASE target[c] # NoConn
      <4>1. Enqueue(target[c], cur[c])
        BY <1>11, <3>2 DEF Send
      <4>2. handed \in [Conns -> SUBSET Message] /\ target[c] \in Conns
        BY <3>2 DEF TypeOK
      <4> QED BY <4>1, <4>2 DEF Enqueue
    <3> QED BY <3>1, <3>2
  <2>2. /\ pc'[c] \notin {"idle", "send"}
        /\ \A d \in Conns : d # c => pc'[d] = pc[d] /\ target'[d] = target[d]
    BY <1>11 DEF Send, AfterForward, TypeOK
  <2>3. target[c] \in Conns => sess[target[c]] = sess[c] /\ pc[target[c]] # "idle"
    BY <2>0, NoConnAssumption DEF SameSession, TargetInv
  <2>4. \A d \in Conns : \A m \in handed'[d] : sess'[m.from] = sess'[d]
    BY <2>0, <2>1, <2>3 DEF SameSession
  <2>5. \A d \in Conns : pc'[d] = "idle" => handed'[d] = {}
    <3> SUFFICES ASSUME NEW d \in Conns, pc'[d] = "idle" PROVE handed'[d] = {}
      OBVIOUS
    <3>1. d # c /\ pc[d] = "idle"
      BY <2>2
    <3>2. d # target[c]
      BY <2>3, <3>1
    <3> QED  BY <2>1, <3>1, <3>2 DEF SameSession
  <2>6. \A d \in Conns : pc'[d] = "send" /\ target'[d] # NoConn => sess'[target'[d]] = sess'[d]
    BY <2>0, <2>2 DEF SameSession
  <2> QED  BY <2>4, <2>5, <2>6 DEF SameSession
<1>12. ASSUME NEW c \in Conns, DiscardOnBye(c)
      PROVE  SameSession'
  <2>1. \A d \in Conns : handed'[d] \subseteq handed[d]
    BY <1>12 DEF DiscardOnBye, TypeOK
  <2>2. \A d \in Conns : pc'[d] = "send" => pc[d] = "send" /\ target'[d] = target[d]
    BY <1>12 DEF DiscardOnBye, TypeOK
  <2>3. \A d \in Conns : pc'[d] = "idle" => pc[d] = "idle"
    BY <1>12 DEF DiscardOnBye, TypeOK
  <2> QED  BY <2>1, <2>2, <2>3, SameFrame
<1>13. ASSUME NEW c \in Conns, Unregister(c)
      PROVE  SameSession'
  <2>1. \A d \in Conns : handed'[d] \subseteq handed[d]
    BY <1>13 DEF Unregister, TypeOK
  <2>2. \A d \in Conns : pc'[d] = "send" => pc[d] = "send" /\ target'[d] = target[d]
    BY <1>13 DEF Unregister, TypeOK
  <2>3. \A d \in Conns : pc'[d] = "idle" => pc[d] = "idle"
    BY <1>13 DEF Unregister, TypeOK
  <2> QED  BY <2>1, <2>2, <2>3, SameFrame
<1>14. ASSUME NEW c \in Conns, ReadEnded(c)
      PROVE  SameSession'
  <2>1. \A d \in Conns : handed'[d] \subseteq handed[d]
    BY <1>14 DEF ReadEnded, TypeOK
  <2>2. \A d \in Conns : pc'[d] = "send" => pc[d] = "send" /\ target'[d] = target[d]
    BY <1>14 DEF ReadEnded, TypeOK
  <2>3. \A d \in Conns : pc'[d] = "idle" => pc[d] = "idle"
    BY <1>14 DEF ReadEnded, TypeOK
  <2> QED  BY <2>1, <2>2, <2>3, SameFrame
<1>15. ASSUME NEW c \in Conns, DiscardOnLeave(c)
      PROVE  SameSession'
  <2>1. \A d \in Conns : handed'[d] \subseteq handed[d]
    BY <1>15 DEF DiscardOnLeave, TypeOK
  <2>2. \A d \in Conns : pc'[d] = "send" => pc[d] = "send" /\ target'[d] = target[d]
    BY <1>15 DEF DiscardOnLeave, TypeOK
  <2>3. \A d \in Conns : pc'[d] = "idle" => pc[d] = "idle"
    BY <1>15 DEF DiscardOnLeave, TypeOK
  <2> QED  BY <2>1, <2>2, <2>3, SameFrame
<1>16. ASSUME NEW c \in Conns, Synthesise(c)
      PROVE  SameSession'
  <2>1. \A d \in Conns : handed'[d] \subseteq handed[d]
    BY <1>16 DEF Synthesise, TypeOK
  <2>2. \A d \in Conns : pc'[d] = "send" => pc[d] = "send" /\ target'[d] = target[d]
    BY <1>16 DEF Synthesise, TypeOK
  <2>3. \A d \in Conns : pc'[d] = "idle" => pc[d] = "idle"
    BY <1>16 DEF Synthesise, TypeOK
  <2> QED  BY <2>1, <2>2, <2>3, SameFrame
<1>17. ASSUME NEW c \in Conns, NoByeDue(c)
      PROVE  SameSession'
  <2>1. \A d \in Conns : handed'[d] \subseteq handed[d]
    BY <1>17 DEF NoByeDue, TypeOK
  <2>2. \A d \in Conns : pc'[d] = "send" => pc[d] = "send" /\ target'[d] = target[d]
    BY <1>17 DEF NoByeDue, TypeOK
  <2>3. \A d \in Conns : pc'[d] = "idle" => pc[d] = "idle"
    BY <1>17 DEF NoByeDue, TypeOK
  <2> QED  BY <2>1, <2>2, <2>3, SameFrame
<1>18. ASSUME NEW c \in Conns, DropIfEmpty(c)
      PROVE  SameSession'
  <2>1. \A d \in Conns : handed'[d] \subseteq handed[d]
    BY <1>18 DEF DropIfEmpty, Forget, TypeOK
  <2>2. \A d \in Conns : pc'[d] = "send" => pc[d] = "send" /\ target'[d] = target[d]
    BY <1>18 DEF DropIfEmpty, Forget, TypeOK
  <2>3. \A d \in Conns : pc'[d] = "idle" => pc[d] = "idle"
    BY <1>18 DEF DropIfEmpty, Forget, TypeOK
  <2> QED  BY <2>1, <2>2, <2>3, SameFrame
<1>19. ASSUME NEW c \in Conns, WritePump(c)
      PROVE  SameSession'
  <2>1. \A d \in Conns : handed'[d] \subseteq handed[d]
    BY <1>19 DEF WritePump, TypeOK
  <2>2. \A d \in Conns : pc'[d] = "send" => pc[d] = "send" /\ target'[d] = target[d]
    BY <1>19 DEF WritePump, TypeOK
  <2>3. \A d \in Conns : pc'[d] = "idle" => pc[d] = "idle"
    BY <1>19 DEF WritePump, TypeOK
  <2> QED  BY <2>1, <2>2, <2>3, SameFrame
<1> QED
  BY <1>1, <1>2, <1>3, <1>4, <1>5, <1>6, <1>7, <1>8, <1>9, <1>10, <1>11,
     <1>12, <1>13, <1>14, <1>15, <1>16, <1>17, <1>18, <1>19 DEF Next, Handler, Peer

-----------------------------------------------------------------------------

\* The invariant is inductive: one lemma per conjunct, one case per action.
LEMMA IInvStep == IInv /\ [Next]_vars => IInv'
<1> SUFFICES ASSUME IInv, [Next]_vars PROVE IInv'
    OBVIOUS
<1>1. /\ TypeOK /\ StageInv /\ SessInv /\ PeersInv /\ CurInv /\ BufInv /\ TargetInv
      /\ CountInv /\ FiniteInv /\ NoSessionLeak /\ BufferedSenderAlive /\ HandedOver
      /\ HandedOnce /\ Opposite /\ SameSession
  BY DEF IInv
<1>2. TypeOK' /\ FiniteInv' /\ StageInv' /\ SessInv' /\ CurInv'
  BY <1>1, TypeStep, FiniteStep, StageStep, SessStep, CurStep
<1>3. PeersInv' /\ BufInv' /\ TargetInv' /\ CountInv'
  BY <1>1, PeersStep, BufStep, TargetStep, CountStep
<1>4. NoSessionLeak' /\ BufferedSenderAlive'
  BY <1>1, LeakStep, AliveStep
<1>5. HandedOver' /\ HandedOnce' /\ Opposite' /\ SameSession'
  BY <1>1, HandedOverStep, HandedOnceStep, OppositeStep, SameStep
<1> QED BY <1>2, <1>3, <1>4, <1>5 DEF IInv

\* The inductive invariant holds throughout every behaviour of the broker.
LEMMA Invariance == Spec => []IInv
BY InitIInv, IInvStep, PTL DEF Spec

\* The broker's state is well typed and its channels and candidate queues stay
\* within sendBuffer and iceReplayMaxPerSender.
THEOREM BrokerTyped == Spec => []TypeOK
<1>1. IInv => TypeOK
  BY DEF IInv
<1> QED BY <1>1, Invariance, PTL

\* getOrCreate, register, unregister and dropIfEmpty never leave an empty
\* session in hub.sessions without a handler that will remove or fill it.
THEOREM BrokerNeverLeaks == Spec => []NoSessionLeak
<1>1. IInv => NoSessionLeak
  BY DEF IInv
<1> QED BY <1>1, Invariance, PTL

\* Buffered SDP is the registered peer's, or that of a peer between unregister
\* and discardReplay: a peer that joins in this window is replayed dead SDP, and
\* it is the only such window.
THEOREM BrokerBuffersLive == Spec => []BufferedSenderAlive
<1>1. IInv => BufferedSenderAlive
  BY DEF IInv
<1> QED BY <1>1, Invariance, PTL

\* Replay on register and live forwarding miss no buffered SDP.
THEOREM BrokerHandsOver == Spec => []HandedOver
<1>1. IInv => HandedOver
  BY DEF IInv
<1> QED BY <1>1, Invariance, PTL

\* Replay on register and live forwarding hand no SDP over twice.
THEOREM BrokerHandsOnce == Spec => []HandedOnce
<1>1. IInv => HandedOnce
  BY DEF IInv
<1> QED BY <1>1, Invariance, PTL

\* SDP never crosses a (tenant, session_id) or a session object, and never
\* comes back to its own role.
THEOREM BrokerIsolates == Spec => []Isolation
<1>1. IInv => Isolation
  BY DEF IInv, Opposite, SameSession, Isolation
<1> QED BY <1>1, Invariance, PTL

=============================================================================
