---------------------------- MODULE CaptureProofs ----------------------------
(***************************************************************************)
(* Proofs about Capture: the viewport and the resolver follow the picture, *)
(* a navigation never leaves the capturer on a dead sink in silence, and a *)
(* session is started with the parameters its caller gave.                 *)
(***************************************************************************)
EXTENDS Capture, TLAPS

Waits(task) == \E i \in 1..Len(posted) : posted[i] = task

\* What the proof needs of the types.
Typed ==
    /\ owner \in [Tabs -> {"unborn", "main_parts", "adopted", "devtools", "gone"}]
    /\ attached \in [Tabs -> BOOLEAN]
    /\ active \in Tabs \cup {None}
    /\ active_fsid \in Fsids
    /\ posted \in Seq(TaskKinds)
    /\ retries \in Seq(0..Attempts)

\* The boot tab is never destroyed, and only a tab that lives has a view.
TabsLive ==
    /\ owner[Initial] = "main_parts"
    /\ \A t \in Tabs : attached[t] => Alive(t)

\* A captured sink that was invalidated is about to be looked for again.
Healing ==
    active # None /\ active_fsid = None /\ lost = "no" => Waits("rearm") \/ retries # <<>>

Inv == Typed /\ TabsLive /\ FollowsPicture /\ Healing

-----------------------------------------------------------------------------
(***************************************************************************)
(* The queue of posted tasks.                                              *)
(***************************************************************************)

\* A posted task waits, and so do the ones before it.
LEMMA PostWaits ==
    ASSUME Typed, NEW task \in TaskKinds, Post(task)
    PROVE  /\ posted' \in Seq(TaskKinds)
           /\ Waits(task)' /\ \A other : Waits(other) => Waits(other)'
<1>1. /\ posted \in Seq(TaskKinds) /\ posted' = Append(posted, task)
      /\ Len(posted') = Len(posted) + 1 /\ Len(posted) \in Nat
  BY DEF Typed, Post
<1>2. posted'[Len(posted')] = task /\ \A i \in 1..Len(posted) : posted'[i] = posted[i]
  BY <1>1
<1>3. Waits(task)'
  BY <1>1, <1>2 DEF Waits
<1>4. ASSUME NEW other, Waits(other) PROVE Waits(other)'
  BY <1>1, <1>2, <1>4 DEF Waits
<1> QED
  BY <1>1, <1>3, <1>4

\* A task that is run was the first; the others still wait.
LEMMA RunWaits ==
    ASSUME Typed, posted # <<>>, posted' = Tail(posted)
    PROVE  /\ posted' \in Seq(TaskKinds)
           /\ \A other : Waits(other) /\ other # Head(posted) => Waits(other)'
<1>1. /\ posted \in Seq(TaskKinds) /\ Len(posted') = Len(posted) - 1 /\ Len(posted) \in Nat
      /\ Len(posted) # 0
  BY DEF Typed
<1>2. Head(posted) = posted[1] /\ \A i \in 1..Len(posted') : posted'[i] = posted[i + 1]
  BY <1>1
<1>3. ASSUME NEW other, Waits(other), other # Head(posted) PROVE Waits(other)'
  <2>1. PICK i \in 1..Len(posted) : posted[i] = other
    BY <1>3 DEF Waits
  <2>2. i # 1 /\ i - 1 \in 1..Len(posted')
    BY <1>1, <1>2, <1>3, <2>1
  <2>3. posted'[i - 1] = posted[i]
    BY <1>1, <1>2, <2>2
  <2> QED
    BY <2>1, <2>2, <2>3 DEF Waits
<1> QED
  BY <1>1, <1>3

-----------------------------------------------------------------------------
(***************************************************************************)
(* The steps.                                                              *)
(***************************************************************************)

\* A step that leaves the capture and its tabs alone.
LEMMA NothingMoves ==
    ASSUME Inv, UNCHANGED <<owner, attached, captureVars, retries>>,
           posted' \in Seq(TaskKinds), Waits("rearm") => Waits("rearm")'
    PROVE  Inv'
<1> USE DEF captureVars, Inv
<1>1. Typed' /\ TabsLive'
  BY DEF Typed, TabsLive, Alive
<1>2. FollowsPicture'
  BY DEF FollowsPicture, Alive
<1>3. Healing'
  BY DEF Healing
<1> QED
  BY <1>1, <1>2, <1>3

\* The capture is pointed at a live tab, and everything follows.
LEMMA Points ==
    ASSUME Inv, NEW t \in Tabs, attached[t], UNCHANGED <<owner, attached>>,
           active' = t, active_fsid' = t, capturer' = t, viewport_target' = t,
           posted' \in Seq(TaskKinds), retries' \in Seq(0..Attempts)
    PROVE  Inv'
<1> USE DEF Inv
<1>0. t # None /\ Alive(t)
  BY TabsAssumption DEF Tabs, TabsLive
<1>1. Typed' /\ TabsLive'
  BY DEF Typed, TabsLive, Alive, Fsids
<1>2. FollowsPicture'
  BY <1>0 DEF FollowsPicture, Alive
<1>3. Healing'
  BY <1>0 DEF Healing
<1> QED
  BY <1>1, <1>2, <1>3

\* A commit that swaps the active tab's view, or that of another tab.
LEMMA NavigateInv ==
    ASSUME Inv, NEW t \in Tabs, Navigate(t)
    PROVE  Inv'
<1> USE DEF Inv
<1>0. /\ Alive(t) /\ capturer' = Severed(capturer, t)
      /\ \E ready \in BOOLEAN : attached' = [attached EXCEPT ![t] = ready]
      /\ UNCHANGED <<owner, viewport_target, retries, lost>>
  BY DEF Navigate
<1>1. TabsLive' /\ attached' \in [Tabs -> BOOLEAN]
  BY <1>0 DEF Typed, TabsLive, Alive
<1>2. CASE t = active /\ RenderViewHostChanged
  <2>1. active_fsid' = None /\ active' = active
    BY <1>2 DEF RenderViewHostChanged
  <2>2. FollowsPicture'
    BY <1>0, <2>1 DEF FollowsPicture, Alive
  <2>3. posted' \in Seq(TaskKinds) /\ Healing'
    <3>1. CASE HadActiveCapture /\ Post("rearm")
      BY <3>1, PostWaits DEF TaskKinds, Healing
    <3>2. CASE ~HadActiveCapture /\ UNCHANGED posted
      <4>1. active_fsid = None \/ active = None
        BY <3>2 DEF HadActiveCapture
      <4>2. Waits("rearm")' <=> Waits("rearm")
        BY <3>2 DEF Waits
      <4> QED
        BY <1>0, <2>1, <3>2, <4>1, <4>2 DEF Healing, Typed
    <3> QED
      BY <1>2, <3>1, <3>2 DEF RenderViewHostChanged
  <2> QED
    BY <1>0, <1>1, <2>1, <2>2, <2>3 DEF Typed, Fsids
<1>3. CASE t # active /\ UNCHANGED <<active, active_fsid, posted>>
  <2>1. FollowsPicture'
    BY <1>0, <1>3 DEF FollowsPicture, Alive, Severed
  <2>2. Healing'
    BY <1>0, <1>3 DEF Healing, Waits
  <2> QED
    BY <1>0, <1>1, <1>3, <2>1, <2>2 DEF Typed
<1> QED
  BY <1>2, <1>3 DEF Navigate

\* A renderer that dies.
LEMMA DiesInv ==
    ASSUME Inv, NEW t \in Tabs, RendererDies(t)
    PROVE  Inv'
<1> USE DEF Inv
<1>0. /\ Alive(t) /\ capturer' = Severed(capturer, t)
      /\ attached' = [attached EXCEPT ![t] = FALSE]
      /\ UNCHANGED <<owner, viewport_target, retries>>
  BY DEF RendererDies
<1>1. TabsLive' /\ attached' \in [Tabs -> BOOLEAN]
  BY <1>0 DEF Typed, TabsLive, Alive
<1>2. CASE t = active /\ PrimaryMainFrameRenderProcessGone /\ lost' = "crash"
  <2>1. active_fsid' = None /\ active' = active /\ Post("renderer_gone")
    BY <1>2 DEF PrimaryMainFrameRenderProcessGone
  <2>2. posted' \in Seq(TaskKinds)
    BY <2>1, PostWaits DEF TaskKinds
  <2>3. FollowsPicture' /\ Healing'
    BY <1>0, <1>2, <2>1 DEF FollowsPicture, Alive, Healing
  <2> QED
    BY <1>0, <1>1, <2>1, <2>2, <2>3 DEF Typed, Fsids
<1>3. CASE t # active /\ UNCHANGED <<active, active_fsid, posted, lost>>
  <2>1. FollowsPicture'
    BY <1>0, <1>3 DEF FollowsPicture, Alive, Severed
  <2>2. Healing'
    BY <1>0, <1>3 DEF Healing, Waits
  <2> QED
    BY <1>0, <1>1, <1>3, <2>1, <2>2 DEF Typed
<1> QED
  BY <1>2, <1>3 DEF RendererDies

\* Tabs that are destroyed, the boot tab not among them.
LEMMA DestroyInv ==
    ASSUME Inv, NEW S \in SUBSET (Tabs \ {Initial}), Destroy(S),
           UNCHANGED <<viewport_target, retries, lost>>
    PROVE  Inv'
<1> USE DEF Inv
<1>1. /\ owner' \in [Tabs -> {"unborn", "main_parts", "adopted", "devtools", "gone"}]
      /\ \A t \in Tabs \ S : owner'[t] = owner[t]
  BY DEF Destroy, Typed
<1>2. /\ attached' \in [Tabs -> BOOLEAN] /\ \A t \in Tabs : attached'[t] => attached[t] /\ t \notin S
  BY DEF Destroy, Typed
<1>3. TabsLive'
  BY <1>1, <1>2 DEF TabsLive, Alive, Tabs
<1>4. CASE active \in S /\ WebContentsDestroyed
  <2>1. active' = None /\ active_fsid' = None /\ Post("captured_gone")
    BY <1>4 DEF WebContentsDestroyed
  <2>2. posted' \in Seq(TaskKinds)
    BY <2>1, PostWaits DEF TaskKinds
  <2> QED
    BY <1>1, <1>2, <1>3, <2>1, <2>2 DEF Typed, Fsids, FollowsPicture, Healing
<1>5. CASE active \notin S /\ UNCHANGED <<active, active_fsid, posted>>
  <2>1. active # None /\ capturer = active => capturer' = active
    BY <1>5 DEF Destroy
  <2>2. active # None => Alive(active)'
    BY <1>1, <1>5 DEF FollowsPicture, Alive, Typed
  <2>3. active_fsid # None => active # None
    BY TabsAssumption DEF FollowsPicture, Tabs
  <2>4. FollowsPicture'
    BY <1>5, <2>1, <2>2, <2>3 DEF FollowsPicture
  <2>5. Healing'
    BY <1>5 DEF Healing, Waits
  <2> QED
    BY <1>1, <1>2, <1>3, <1>5, <2>4, <2>5 DEF Typed
<1> QED
  BY <1>4, <1>5 DEF Destroy

\* Tabs that come, and views that attach.
LEMMA TabsCome ==
    ASSUME Inv, NEW t \in Tabs, UNCHANGED <<captureVars, posted, retries>>,
           \/ attached' = [attached EXCEPT ![t] = TRUE] /\ Alive(t) /\ owner' = owner
           \/ /\ owner[t] = "unborn" /\ attached' = [attached EXCEPT ![t] = TRUE]
              /\ \E who \in {"adopted", "devtools"} : owner' = [owner EXCEPT ![t] = who]
    PROVE  Inv'
<1> USE DEF Inv, captureVars
<1>1. Typed'
  BY DEF Typed
<1>2. \A s \in Tabs : Alive(s) => Alive(s)'
  BY DEF Alive, Typed
<1>3. TabsLive'
  <2>1. owner'[Initial] = "main_parts"
    BY DEF TabsLive, Typed, Tabs
  <2>2. Alive(t)'
    BY DEF Alive, Typed
  <2> QED
    BY <1>2, <2>1, <2>2 DEF TabsLive, Typed
<1>4. FollowsPicture'
  BY <1>2 DEF FollowsPicture, Typed
<1>5. Healing'
  BY DEF Healing, Waits
<1> QED
  BY <1>1, <1>3, <1>4, <1>5

\* RearmCaptureAfterRvhSwap finds the view, waits, gives up or has nothing to do.
LEMMA RearmInv ==
    ASSUME Inv, NEW n \in 0..Attempts, NEW waiting \in Seq(0..Attempts),
           RearmCaptureAfterRvhSwap(n, waiting), UNCHANGED <<owner, attached>>,
           posted' \in Seq(TaskKinds)
    PROVE  Inv'
<1> USE DEF Inv
<1>1. CASE active = None /\ retries' = waiting /\ UNCHANGED captureVars
  BY <1>1 DEF Typed, TabsLive, FollowsPicture, Healing, Alive, captureVars
<1>2. CASE /\ active # None /\ RetryOrGiveUp(n, waiting)
           /\ UNCHANGED <<active, active_fsid, capturer, viewport_target>>
  <2>1. \/ n > 0 /\ retries' = Append(waiting, n - 1) /\ lost' = lost
        \/ retries' = waiting /\ lost' # "no"
    BY <1>2 DEF RetryOrGiveUp
  <2>2. retries' \in Seq(0..Attempts) /\ (lost' = "no" => retries' # <<>>)
    <3>1. CASE n > 0 /\ retries' = Append(waiting, n - 1) /\ lost' = lost
      <4>1. n - 1 \in 0..Attempts
        BY <3>1, BoundsAssumption
      <4> QED
        BY <3>1, <4>1
    <3>2. CASE retries' = waiting /\ lost' # "no"
      BY <3>2
    <3> QED
      BY <2>1, <3>1, <3>2
  <2> QED
    BY <1>2, <2>2 DEF Typed, TabsLive, FollowsPicture, Healing, Alive
<1>3. CASE /\ active # None /\ attached[active] /\ retries' = waiting /\ capturer' = active
           /\ active' = active /\ active_fsid' = active /\ UNCHANGED viewport_target
  <2>1. active \in Tabs /\ viewport_target' = active
    BY <1>3 DEF Typed, FollowsPicture
  <2> QED
    BY <1>3, <2>1, Points
<1> QED
  BY <1>1, <1>2, <1>3 DEF RearmCaptureAfterRvhSwap, StartCapture, ResolverSetActiveCapture

\* The invariant holds of every reachable state.
THEOREM Invariance == Spec => []Inv
<1>1. Init => Inv
  <2> SUFFICES ASSUME Init PROVE Inv
    OBVIOUS
  <2>1. Typed
    BY DEF Init, Typed, Fsids
  <2>2. TabsLive /\ FollowsPicture /\ Healing
    BY TabsAssumption DEF Init, TabsLive, FollowsPicture, Healing, Alive, Tabs
  <2> QED
    BY <2>1, <2>2 DEF Inv
<1>2. Inv /\ [Next]_vars => Inv'
  <2> SUFFICES ASSUME Inv, [Next]_vars PROVE Inv'
    OBVIOUS
  <2>0. Typed /\ (UNCHANGED posted => posted' \in Seq(TaskKinds) /\ (Waits("rearm") => Waits("rearm")'))
    BY DEF Inv, Typed, Waits
  <2>1. CASE Content
    <3>1. CASE \E t \in Tabs : Navigate(t) \/ RendererDies(t)
      BY <3>1, NavigateInv, DiesInv
    <3>2. CASE \E t \in Tabs : ViewAttaches(t)
      BY <3>2, TabsCome DEF ViewAttaches
    <3>3. CASE \E t \in Tabs : CloseContents(t)
      <4>1. PICK t \in Tabs : CloseContents(t)
        BY <3>3
      <4>2. {t} \in SUBSET (Tabs \ {Initial})
        BY <4>1 DEF CloseContents, Inv, TabsLive
      <4> QED
        BY <4>1, <4>2, DestroyInv DEF CloseContents
    <3>4. CASE \E t, opener \in Tabs : AddNewContents(t, opener)
      BY <3>4, TabsCome DEF AddNewContents, AdoptWebContents
    <3> QED
      BY <2>1, <3>1, <3>2, <3>3, <3>4 DEF Content
  <2>2. CASE Command
    <3>1. CASE \E t \in Tabs : CreateNewTarget(t)
      BY <3>1, TabsCome DEF CreateNewTarget
    <3>2. CASE \E t \in Tabs : HandleStartFrameSinkCapture(t)
      BY <2>0, <3>2, Points DEF HandleStartFrameSinkCapture, StartCapture, SetActiveCapture,
           ResolverSetActiveCapture, tabVars, Typed
    <3>3. CASE CreateBrowserContext \/ \E req \in Requests : StartNativeSession(req)
      BY <2>0, <3>3, NothingMoves DEF CreateBrowserContext, StartNativeSession, tabVars
    <3>4. CASE DisposeBrowserContext
      <4>1. {t \in Tabs : owner[t] = "devtools" /\ own_context[t]} \in SUBSET (Tabs \ {Initial})
        BY DEF Inv, TabsLive
      <4> QED
        BY <3>4, <4>1, DestroyInv DEF DisposeBrowserContext
    <3>5. CASE HandleShutdown
      <4>1. posted' \in Seq(TaskKinds) /\ (Waits("rearm") => Waits("rearm")')
        BY <2>0, <3>5, PostWaits DEF HandleShutdown, TaskKinds
      <4> QED
        BY <3>5, <4>1, NothingMoves DEF HandleShutdown, tabVars
    <3> QED
      BY <2>2, <3>1, <3>2, <3>3, <3>4, <3>5 DEF Command
  <2>3. CASE UiTask
    <3>1. /\ posted # <<>> /\ posted' = Tail(posted) /\ posted' \in Seq(TaskKinds)
          /\ Waits("rearm") /\ Head(posted) # "rearm" => Waits("rearm")'
      <4>1. posted # <<>> /\ posted' = Tail(posted)
        BY <2>3 DEF UiTask, RearmCaptureOnInitialTab, RearmPosted, OnCapturedRendererGone, Shutdown
      <4> QED
        BY <2>0, <4>1, RunWaits
    <3>2. CASE RearmCaptureOnInitialTab
      <4>1. CASE attached[Initial] /\ StartCapture(Initial) /\ SetActiveCapture(Initial)
        BY <2>0, <3>1, <3>2, <4>1, Points DEF RearmCaptureOnInitialTab, StartCapture,
             SetActiveCapture, ResolverSetActiveCapture, tabVars, Typed, Tabs
      <4>2. CASE UNCHANGED captureVars
        BY <3>1, <3>2, <4>2, NothingMoves DEF RearmCaptureOnInitialTab, tabVars
      <4> QED
        BY <3>2, <4>1, <4>2 DEF RearmCaptureOnInitialTab
    <3>3. CASE RearmPosted
      <4>1. Attempts \in 0..Attempts /\ retries \in Seq(0..Attempts)
        BY <2>0, BoundsAssumption DEF Typed
      <4> QED
        BY <3>1, <3>3, <4>1, RearmInv DEF RearmPosted, tabVars
    <3>4. CASE OnCapturedRendererGone \/ Shutdown
      <4>1. UNCHANGED <<owner, attached, captureVars, retries>>
        BY <3>4 DEF OnCapturedRendererGone, Shutdown, tabVars
      <4>2. Head(posted) # "rearm"
        BY <3>4 DEF OnCapturedRendererGone, Shutdown
      <4> QED
        BY <3>1, <4>1, <4>2, NothingMoves
    <3> QED
      BY <2>3, <3>2, <3>3, <3>4 DEF UiTask
  <2>4. CASE RearmRetried
    <3>1. retries # <<>> /\ retries \in Seq(0..Attempts)
      BY <2>0, <2>4 DEF RearmRetried, Typed
    <3>2. Head(retries) \in 0..Attempts /\ Tail(retries) \in Seq(0..Attempts)
      <4>1. \A S : \A s \in Seq(S) : s # <<>> => Head(s) \in S /\ Tail(s) \in Seq(S)
        OBVIOUS
      <4> QED
        BY <3>1, <4>1
    <3> QED
      BY <2>0, <2>4, <3>2, RearmInv DEF RearmRetried, tabVars
  <2>5. CASE DriverReportsDeath \/ OnFailed \/ DelayedQuit \/ UNCHANGED vars
    BY <2>0, <2>5, NothingMoves DEF DriverReportsDeath, OnFailed, DelayedQuit, vars, tabVars,
         captureVars
  <2> QED
    BY <2>1, <2>2, <2>3, <2>4, <2>5 DEF Next
<1> QED
  BY <1>1, <1>2, PTL DEF Spec

\* Input, resizes and the reported FrameSinkId follow the picture, for any number
\* of tabs (Capture!FollowsPicture; SetActiveCapture and its callers, and the
\* invalidations in cb_active_webcontents_resolver.cc).
THEOREM CaptureFollowsPicture == Spec => []FollowsPicture
<1>1. Inv => FollowsPicture
  BY DEF Inv
<1> QED
  BY <1>1, Invariance, PTL

\* A navigation never silently freezes the stream, for any number of tabs and
\* attempts (Capture!NavHeals; RenderViewHostChanged, RearmCaptureAfterRvhSwap).
THEOREM CaptureNavHeals == Spec => []NavHeals
<1>1. Inv => NavHeals
  <2> SUFFICES ASSUME Inv, Quiet, active # None, lost = "no" PROVE capturer = active
    BY DEF NavHeals
  <2>1. ~Waits("rearm") /\ retries = <<>>
    BY DEF Quiet, Waits
  <2>2. active_fsid # None
    BY <2>1 DEF Inv, Healing
  <2> QED
    BY <2>2 DEF Inv, FollowsPicture
<1> QED
  BY <1>1, Invariance, PTL

-----------------------------------------------------------------------------
(***************************************************************************)
(* The parameters of a session.                                            *)
(***************************************************************************)

\* What is left of a document is the caller's: every entry that has a URL, and
\* no URL that was not given.
LEMMA ServersAreTheCallers == \A entries : ServersOf(TryAppendServer(entries), entries)
<1> SUFFICES ASSUME NEW entries PROVE ServersOf(TryAppendServer(entries), entries)
  OBVIOUS
<1>1. ASSUME NEW server \in TryAppendServer(entries)
      PROVE  \E entry \in entries : server # {} /\ server \subseteq entry
  BY <1>1 DEF TryAppendServer
<1>2. ASSUME NEW entry \in entries, NEW url \in entry \ {""}
      PROVE  \E server \in TryAppendServer(entries) :
                url \in server /\ entry \subseteq server \cup {""}
  <2>1. entry \ {""} \in TryAppendServer(entries)
    BY <1>2 DEF TryAppendServer
  <2>2. url \in entry \ {""} /\ entry \subseteq (entry \ {""}) \cup {""}
    BY <1>2
  <2> QED
    BY <2>1, <2>2
<1> QED
  BY <1>1, <1>2 DEF ServersOf

\* A request that is not refused is honoured, whatever its parameters are.
LEMMA AcceptedIsHonoured ==
    ASSUME NEW req, HandleStartNativeSession(req).ok
    PROVE  Honours(HandleStartNativeSession(req), req)
<1> DEFINE ice == IF req.iceServers.form = Absent THEN BuildDefaultIceServers
                  ELSE ParseIceServersJson(req.iceServers)
           cfg == HandleStartNativeSession(req)
<1>1. /\ req.keys \subseteq KnownParams
      /\ ~Missing(req.signalingHost) /\ ~Missing(req.signalingSessionId)
      /\ ice # {}
      /\ cfg = Config(req, ice)
  BY DEF HandleStartNativeSession, Refused
<1>2. {Absent, Mistyped, ""} \intersect {req.signalingHost, req.signalingSessionId} = {}
  BY <1>1 DEF Missing, FindString
<1>3. /\ req.signalingUseTls \in Booleans => UseTls(req) = req.signalingUseTls
      /\ req.signalingUseTls \notin Booleans /\ req.useTls \in Booleans => UseTls(req) = req.useTls
      /\ UseTls(req) = "false" => "false" \in {req.signalingUseTls, req.useTls}
  BY DEF UseTls, FindBool, ValueOr, Absent, Booleans
<1>4. LET asked == ValueOr(FindString(req.iceTransportPolicy), "all")
      IN  ParseIceTransportPolicy(asked) = "relay"
            <=> req.iceTransportPolicy \in {"relay", "RELAY"}
  BY DEF ParseIceTransportPolicy, ValueOr, FindString, Absent, Mistyped
<1>5. req.iceServers.form # Absent => ice = TryAppendServer(req.iceServers.entries)
  BY <1>1 DEF ParseIceServersJson
<1> HIDE DEF ice, cfg
<1>6. /\ cfg.use_tls = UseTls(req) /\ cfg.servers = ice
      /\ cfg.token = ValueOr(FindString(req.signalingToken), "")
      /\ cfg.policy = ParseIceTransportPolicy(ValueOr(FindString(req.iceTransportPolicy), "all"))
  BY <1>1 DEF Config
<1>7. req.iceServers.form # Absent => ServersOf(cfg.servers, req.iceServers.entries)
  BY <1>5, <1>6, ServersAreTheCallers
<1>8. req.signalingToken \notin {Absent, Mistyped} => cfg.token = req.signalingToken
  BY <1>6 DEF ValueOr, FindString
<1>9. /\ req.signalingUseTls \in Booleans => cfg.use_tls = req.signalingUseTls
      /\ req.signalingUseTls \notin Booleans /\ req.useTls \in Booleans => cfg.use_tls = req.useTls
      /\ cfg.use_tls = "false" => "false" \in {req.signalingUseTls, req.useTls}
  BY <1>3, <1>6
<1>10. cfg.policy = "relay" <=> req.iceTransportPolicy \in {"relay", "RELAY"}
  BY <1>4, <1>6
<1>11. Honours(cfg, req)
  BY <1>1, <1>2, <1>7, <1>8, <1>9, <1>10, Zenon DEF Honours
<1> QED
  BY <1>11 DEF cfg

\* The session that runs is the one its request asked for.
Started ==
    offerer_driver => /\ HandleStartNativeSession(session.req).ok
                      /\ session.cfg = HandleStartNativeSession(session.req)

\* For any set of requests, with parameters of any type and any list of ICE
\* entries: a session that runs has what its caller supplied in the right type,
\* and what was supplied in a wrong one is a refusal or, for the TLS flags, the
\* token and the policy, the default (Capture!ParamsHonoured;
\* CbDevToolsManagerDelegate::HandleStartNativeSession, TryAppendServer).
THEOREM CaptureParamsHonoured == Spec => []ParamsHonoured
<1>1. Init => Started
  BY DEF Init, Started, offerer_driver
<1>2. Started /\ [Next]_vars => Started'
  <2> SUFFICES ASSUME Started, [Next]_vars PROVE Started'
    OBVIOUS
  <2>1. CASE UNCHANGED session
    BY <2>1 DEF Started, offerer_driver
  <2>2. CASE \E req \in Requests : StartNativeSession(req)
    <3>1. PICK req \in Requests : StartNativeSession(req)
      BY <2>2
    <3>2. session'.req = req /\ session'.cfg = HandleStartNativeSession(req)
      BY <3>1 DEF StartNativeSession
    <3>3. HandleStartNativeSession(req).ok
      BY <3>1 DEF StartNativeSession
    <3> QED
      BY <3>2, <3>3 DEF Started
  <2>3. UNCHANGED session \/ \E req \in Requests : StartNativeSession(req)
    <3>1. CASE Content
      BY <3>1 DEF Content, Navigate, ViewAttaches, RendererDies, CloseContents, AddNewContents,
           lifeVars
    <3>2. CASE Command
      BY <3>2 DEF Command, CreateNewTarget, HandleStartFrameSinkCapture, CreateBrowserContext,
           DisposeBrowserContext, HandleShutdown, lifeVars
    <3>3. CASE UiTask
      BY <3>3 DEF UiTask, RearmCaptureOnInitialTab, RearmPosted, OnCapturedRendererGone, Shutdown,
           lifeVars
    <3>4. CASE RearmRetried \/ DriverReportsDeath \/ OnFailed \/ DelayedQuit \/ UNCHANGED vars
      BY <3>4 DEF RearmRetried, DriverReportsDeath, OnFailed, DelayedQuit, lifeVars, vars
    <3> QED
      BY <3>1, <3>2, <3>3, <3>4 DEF Next
  <2> QED
    BY <2>1, <2>2, <2>3
<1>3. Started => ParamsHonoured
  BY AcceptedIsHonoured DEF Started, ParamsHonoured
<1> QED
  BY <1>1, <1>2, <1>3, PTL DEF Spec

=============================================================================
