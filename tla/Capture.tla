------------------------------ MODULE Capture ------------------------------
(***************************************************************************)
(* Which tab is streamed.  CbActiveWebContentsResolver, the capture half   *)
(* of CloudBrowserBrowserMainParts, the DevTools agent's commands and the  *)
(* tabs of CbWebContentsDelegate and CbDevToolsManagerDelegate             *)
(* (capture/build-integration/).                                           *)
(*                                                                         *)
(* All of it runs on the UI thread: one action is one task (a command, a   *)
(* callback of the content layer, a posted task) with all it calls.  What  *)
(* content does to a tab by itself (a commit that swaps the RenderViewHost,*)
(* a view that attaches later, a renderer that dies) is its own action.    *)
(*                                                                         *)
(* A FrameSinkId is known by what it names: the tab whose present sink it  *)
(* is, Dead once that tab's RenderWidgetHost was replaced or destroyed,    *)
(* None when it is not valid.                                              *)
(***************************************************************************)
EXTENDS SessionConfig

CONSTANTS
    Initial,            \* the boot tab, owned by main_parts
    Others,             \* the tabs that may come: popups and CDP targets
    None, Dead,
    Attempts,           \* kRecaptureRvhSwapAttempts
    MaxReloads,         \* kMaxRendererReloadsPerWindow
    MaxPosted,          \* bound: tasks waiting at once, posted or delayed
    Requests            \* requests that Cb.startNativeSession is called with

ASSUME TabsAssumption ==
    /\ Initial \notin Others
    /\ None # Dead
    /\ {None, Dead} \cap (Others \cup {Initial}) = {}
ASSUME BoundsAssumption == Attempts \in Nat /\ MaxReloads \in Nat /\ MaxPosted \in Nat

Tabs == Others \cup {Initial}

VARIABLES
    owner,              \* who holds the tab's WebContents
    own_context,        \* is the tab in the context CDP created (or the default)?
    contexts,           \* is there a CDP-created context?  (bound: one at a time)
    attached,           \* does the WC -> RWHV -> RWH -> FrameSinkId walk succeed?
    crashed,            \* the tab's renderer is gone
    reloading,          \* tabs with a Reload() issued and not yet committed
    active, active_fsid,                \* the resolver
    capturer,           \* the sink the running capturer is pointed at
    viewport_target,    \* CbViewportController::web_contents_
    posted,             \* tasks posted on the UI thread, in order
    retries,            \* delayed re-arms, by attempts_left; all wait equally long
    renderer_crashes_in_window,
    permanent_death_signaled, tearing_down,
    session,            \* the native session's request and configuration, or NoSession
    quit,               \* quit_main_message_loop_: parked, delayed, or run
    unhealthy,          \* history: session_unhealthy envelopes sent
    lost                \* history: why the picture was lost since the last capture start

vars == <<owner, own_context, contexts, attached, crashed, reloading, active, active_fsid,
          capturer, viewport_target, posted, retries, renderer_crashes_in_window,
          permanent_death_signaled, tearing_down, session, quit, unhealthy, lost>>

tabVars == <<owner, own_context, contexts, attached, crashed, reloading>>
captureVars == <<active, active_fsid, capturer, viewport_target, lost>>
lifeVars == <<renderer_crashes_in_window, permanent_death_signaled, tearing_down,
              session, quit, unhealthy>>

\* Cb.startNativeSession refuses a second session.
NoSession == [req |-> PlainRequest, cfg |-> Refused]
Sessions == {[req |-> r, cfg |-> HandleStartNativeSession(r)] : r \in Requests}
offerer_driver == session # NoSession

Fsids == Tabs \cup {None, Dead}
TaskKinds == {"rearm", "renderer_gone", "captured_gone", "shutdown"}

TypeOK ==
    /\ owner \in [Tabs -> {"unborn", "main_parts", "adopted", "devtools", "gone"}]
    /\ own_context \in [Tabs -> BOOLEAN]
    /\ contexts \in BOOLEAN
    /\ attached \in [Tabs -> BOOLEAN]
    /\ crashed \in [Tabs -> BOOLEAN]
    /\ reloading \subseteq Tabs
    /\ active \in Tabs \cup {None}
    /\ active_fsid \in Fsids
    /\ capturer \in Fsids
    /\ viewport_target \in Tabs \cup {None}
    /\ posted \in Seq(TaskKinds)
    /\ retries \in Seq(0..Attempts)
    /\ renderer_crashes_in_window \in 0..(MaxReloads + 1)
    /\ permanent_death_signaled \in BOOLEAN
    /\ tearing_down \in BOOLEAN
    /\ session \in {NoSession} \cup Sessions
    /\ quit \in {"parked", "delayed", "run"}
    /\ unhealthy \in Nat
    /\ lost \in {"no", "crash", "gave_up"}

\* After PreMainMessageLoopRun: the boot tab is shown; nothing is captured, and
\* the viewport has no target, until the first Cb.startFrameSinkCapture.
Init ==
    /\ owner = [t \in Tabs |-> IF t = Initial THEN "main_parts" ELSE "unborn"]
    /\ own_context = [t \in Tabs |-> FALSE]
    /\ contexts = FALSE
    /\ attached = [t \in Tabs |-> t = Initial]
    /\ crashed = [t \in Tabs |-> FALSE]
    /\ reloading = {}
    /\ active = None /\ active_fsid = None
    /\ capturer = None
    /\ viewport_target = None
    /\ posted = <<>> /\ retries = <<>>
    /\ renderer_crashes_in_window = 0
    /\ permanent_death_signaled = FALSE
    /\ tearing_down = FALSE
    /\ session = NoSession
    /\ quit = "parked"
    /\ unhealthy = 0
    /\ lost = "no"

Alive(t) == owner[t] \in {"main_parts", "adopted", "devtools"}
Running == quit # "run"

\* A bound: the content layer acts only while few tasks wait.
Room == Running /\ Len(posted) + Len(retries) < MaxPosted

Post(task) == posted' = Append(posted, task)

-----------------------------------------------------------------------------
(***************************************************************************)
(* The resolver.                                                           *)
(***************************************************************************)

\* CbActiveWebContentsResolver::SetActiveCapture.
ResolverSetActiveCapture(t, fsid) ==
    /\ active' = t
    /\ active_fsid' = fsid

\* WebContentsDestroyed of the observed tab: the resolver forgets it and posts
\* the fallback.  The viewport controller's pointer is left as it is.
WebContentsDestroyed ==
    /\ active' = None
    /\ active_fsid' = None
    /\ Post("captured_gone")

\* Seeded fault: the FrameSinkId is invalidated before it is looked at.
HadActiveCaptureLate == active # None /\ active_fsid' # None

\* RenderViewHostChanged re-arms only a capture that was live, to keep one
\* swap to one re-arm.
HadActiveCapture == active # None /\ active_fsid # None

\* RenderViewHostChanged of the observed tab.
RenderViewHostChanged ==
    /\ active_fsid' = None
    /\ UNCHANGED active
    /\ \/ HadActiveCapture /\ Post("rearm")
       \/ ~HadActiveCapture /\ UNCHANGED posted

\* PrimaryMainFrameRenderProcessGone of the observed tab.
PrimaryMainFrameRenderProcessGone ==
    /\ active_fsid' = None
    /\ UNCHANGED active
    /\ Post("renderer_gone")

\* The sink that id names once tab t's RenderWidgetHost is gone.
Severed(id, t) == IF id = t THEN Dead ELSE id

-----------------------------------------------------------------------------
(***************************************************************************)
(* What content does to a tab.                                             *)
(***************************************************************************)

\* A cross-document navigation commits: a new RenderViewHost, whose view may
\* attach only later.
Navigate(t) ==
    /\ Room /\ Alive(t)
    /\ \E ready \in BOOLEAN : attached' = [attached EXCEPT ![t] = ready]
    /\ crashed' = [crashed EXCEPT ![t] = FALSE]
    /\ reloading' = reloading \ {t}
    /\ capturer' = Severed(capturer, t)
    /\ \/ t = active /\ RenderViewHostChanged
       \/ t # active /\ UNCHANGED <<active, active_fsid, posted>>
    /\ UNCHANGED <<owner, own_context, contexts, viewport_target, retries, lost, lifeVars>>

ViewAttaches(t) ==
    /\ Running /\ Alive(t) /\ ~attached[t] /\ ~crashed[t]
    /\ attached' = [attached EXCEPT ![t] = TRUE]
    /\ UNCHANGED <<owner, own_context, contexts, crashed, reloading, captureVars, posted, retries, lifeVars>>

RendererDies(t) ==
    /\ Room /\ Alive(t) /\ ~crashed[t]
    /\ crashed' = [crashed EXCEPT ![t] = TRUE]
    /\ attached' = [attached EXCEPT ![t] = FALSE]
    /\ capturer' = Severed(capturer, t)
    /\ \/ /\ t = active
          /\ PrimaryMainFrameRenderProcessGone
          /\ lost' = "crash"
       \/ t # active /\ UNCHANGED <<active, active_fsid, posted, lost>>
    /\ UNCHANGED <<owner, own_context, contexts, reloading, viewport_target, retries, lifeVars>>

-----------------------------------------------------------------------------
(***************************************************************************)
(* Tabs come and go: CbWebContentsDelegate and CbDevToolsManagerDelegate.  *)
(***************************************************************************)

\* AdoptWebContents: the popup is shown and held; capture stays where it is.
AdoptWebContents(t, opener) ==
    /\ owner' = [owner EXCEPT ![t] = "adopted"]
    /\ own_context' = [own_context EXCEPT ![t] = own_context[opener]]
    /\ attached' = [attached EXCEPT ![t] = TRUE]

\* window.open: AddNewContents.
AddNewContents(t, opener) ==
    /\ Running /\ owner[t] = "unborn" /\ Alive(opener)
    /\ AdoptWebContents(t, opener)
    /\ UNCHANGED <<contexts, crashed, reloading, captureVars, posted, retries, lifeVars>>

\* The WebContents of every tab in S is destroyed.
Destroy(S) ==
    /\ owner' = [t \in Tabs |-> IF t \in S THEN "gone" ELSE owner[t]]
    /\ attached' = [t \in Tabs |-> attached[t] /\ t \notin S]
    /\ reloading' = reloading \ S
    /\ capturer' = IF capturer \in S THEN Dead ELSE capturer
    /\ \/ active \in S /\ WebContentsDestroyed
       \/ active \notin S /\ UNCHANGED <<active, active_fsid, posted>>

\* window.close: only a popup is destroyed; a tab that main_parts or the
\* DevTools delegate holds stays.
CloseContents(t) ==
    /\ Room /\ owner[t] = "adopted"
    /\ Destroy({t})
    /\ UNCHANGED <<own_context, contexts, crashed, viewport_target, retries, lost, lifeVars>>

CreateBrowserContext ==
    /\ Running /\ ~contexts
    /\ contexts' = TRUE
    /\ UNCHANGED <<owner, own_context, attached, crashed, reloading, captureVars, posted, retries, lifeVars>>

\* Target.disposeBrowserContext: the targets of that context go first.  The
\* default context is refused.
DisposeBrowserContext ==
    /\ Room /\ contexts
    /\ contexts' = FALSE
    /\ Destroy({t \in Tabs : owner[t] = "devtools" /\ own_context[t]})
    /\ UNCHANGED <<own_context, crashed, viewport_target, retries, lost, lifeVars>>

\* Target.createTarget: in the context created last, else in the default one.
CreateNewTarget(t) ==
    /\ Running /\ owner[t] = "unborn"
    /\ owner' = [owner EXCEPT ![t] = "devtools"]
    /\ own_context' = [own_context EXCEPT ![t] = contexts]
    /\ attached' = [attached EXCEPT ![t] = TRUE]
    /\ UNCHANGED <<contexts, crashed, reloading, captureVars, posted, retries, lifeVars>>

-----------------------------------------------------------------------------
(***************************************************************************)
(* main_parts: the capture's target.                                       *)
(***************************************************************************)

\* track_source->StartCapture: the capturer starts on, or is retargeted to, fsid.
StartCapture(fsid) ==
    /\ capturer' = fsid
    /\ lost' = "no"

\* Seeded fault: the viewport keeps following the previous tab.
SetActiveCaptureOnly(t) ==
    /\ ResolverSetActiveCapture(t, t)
    /\ UNCHANGED viewport_target

\* CloudBrowserBrowserMainParts::SetActiveCapture: input and resizes follow the
\* picture.
SetActiveCapture(t) ==
    /\ ResolverSetActiveCapture(t, t)
    /\ viewport_target' = t

\* Cb.startFrameSinkCapture on tab t.  With a link of the walk missing the
\* command is answered with an error and nothing changes.
HandleStartFrameSinkCapture(t) ==
    /\ Running /\ Alive(t) /\ attached[t]
    /\ StartCapture(t)
    /\ SetActiveCapture(t)
    /\ UNCHANGED <<tabVars, posted, retries, lifeVars>>

\* The posted fallback after the captured tab was destroyed.
RearmCaptureOnInitialTab ==
    /\ Running /\ posted # <<>> /\ Head(posted) = "captured_gone"
    /\ posted' = Tail(posted)
    /\ \/ /\ ~tearing_down /\ attached[Initial]
          /\ StartCapture(Initial)
          /\ SetActiveCapture(Initial)
       \/ /\ tearing_down \/ ~attached[Initial]
          /\ UNCHANGED captureVars
    /\ UNCHANGED <<tabVars, retries, lifeVars>>

\* Seeded fault: a retry is posted with the attempts it had.
RetryOrGiveUpForever(attempts_left, waiting) ==
    /\ retries' = Append(waiting, attempts_left)
    /\ UNCHANGED lost

\* retry_or_give_up of RearmCaptureAfterRvhSwap.
RetryOrGiveUp(attempts_left, waiting) ==
    \/ /\ attempts_left > 0
       /\ retries' = Append(waiting, attempts_left - 1)
       /\ UNCHANGED lost
    \/ /\ attempts_left = 0
       /\ retries' = waiting
       /\ lost' = IF lost = "no" THEN "gave_up" ELSE lost

\* RearmCaptureAfterRvhSwap, with the delayed tasks that wait besides it.
RearmCaptureAfterRvhSwap(attempts_left, waiting) ==
    \/ /\ active = None
       /\ retries' = waiting
       /\ UNCHANGED captureVars
    \/ /\ active # None /\ ~attached[active]
       /\ RetryOrGiveUp(attempts_left, waiting)
       /\ UNCHANGED <<active, active_fsid, capturer, viewport_target>>
    \/ /\ active # None /\ attached[active]
       /\ retries' = waiting
       /\ StartCapture(active)
       /\ ResolverSetActiveCapture(active, active)
       /\ UNCHANGED viewport_target

RearmPosted ==
    /\ Running /\ posted # <<>> /\ Head(posted) = "rearm"
    /\ posted' = Tail(posted)
    /\ RearmCaptureAfterRvhSwap(Attempts, retries)
    /\ UNCHANGED <<tabVars, lifeVars>>

RearmRetried ==
    /\ Running /\ retries # <<>>
    /\ RearmCaptureAfterRvhSwap(Head(retries), Tail(retries))
    /\ UNCHANGED <<posted, tabVars, lifeVars>>

-----------------------------------------------------------------------------
(***************************************************************************)
(* The end of the worker.                                                  *)
(***************************************************************************)

\* OnGpuPermanentDeath: latched; session_unhealthy goes out over the driver, and
\* the quit closure, unless it was taken, runs a second later.
OnGpuPermanentDeath ==
    \/ /\ permanent_death_signaled
       /\ UNCHANGED <<permanent_death_signaled, tearing_down, quit, unhealthy>>
    \/ /\ ~permanent_death_signaled
       /\ permanent_death_signaled' = TRUE
       /\ unhealthy' = unhealthy + (IF offerer_driver THEN 1 ELSE 0)
       /\ tearing_down' = (tearing_down \/ offerer_driver)
       /\ quit' = IF quit = "parked" THEN "delayed" ELSE quit

\* The BeginFrame driver reports permanent death.
DriverReportsDeath ==
    /\ Running
    /\ OnGpuPermanentDeath
    /\ UNCHANGED <<tabVars, captureVars, posted, retries, renderer_crashes_in_window,
                   session>>

\* The offerer driver failed for good.
OnFailed ==
    /\ Running /\ offerer_driver /\ ~tearing_down
    /\ OnGpuPermanentDeath
    /\ UNCHANGED <<tabVars, captureVars, posted, retries, renderer_crashes_in_window,
                   session>>

\* The posted crash recovery: a bounded number of reloads per window (whose end
\* may have come), then the escalation.  The reload's commit is a Navigate.
OnCapturedRendererGone ==
    /\ Running /\ posted # <<>> /\ Head(posted) = "renderer_gone"
    /\ posted' = Tail(posted)
    /\ \/ active = None /\ UNCHANGED <<reloading, lifeVars>>
       \/ /\ active # None
          /\ \E window \in {0, renderer_crashes_in_window} :
                LET crashes == window + 1
                IN  \/ /\ crashes > MaxReloads
                       /\ renderer_crashes_in_window' = MaxReloads + 1
                       /\ OnGpuPermanentDeath
                       /\ UNCHANGED reloading
                    \/ /\ crashes <= MaxReloads
                       /\ renderer_crashes_in_window' = crashes
                       /\ reloading' = reloading \cup {active}
                       /\ UNCHANGED <<permanent_death_signaled, tearing_down, quit, unhealthy>>
          /\ UNCHANGED session
    /\ UNCHANGED <<owner, own_context, contexts, attached, crashed, captureVars, retries>>

\* Cb.startNativeSession: a request that is refused leaves no session.
StartNativeSession(req) ==
    /\ Running /\ ~offerer_driver
    /\ HandleStartNativeSession(req).ok
    /\ session' = [req |-> req, cfg |-> HandleStartNativeSession(req)]
    /\ UNCHANGED <<tabVars, captureVars, posted, retries, renderer_crashes_in_window,
                   permanent_death_signaled, tearing_down, quit, unhealthy>>

\* Cb.shutdown: the quit is posted, so that the answer is written first.
HandleShutdown ==
    /\ Room
    /\ Post("shutdown")
    /\ UNCHANGED <<tabVars, captureVars, retries, lifeVars>>

\* The posted Shutdown: takes the quit closure if it is still parked.
Shutdown ==
    /\ Running /\ posted # <<>> /\ Head(posted) = "shutdown"
    /\ posted' = Tail(posted)
    /\ quit' = IF quit = "parked" THEN "run" ELSE quit
    /\ UNCHANGED <<tabVars, captureVars, retries, renderer_crashes_in_window,
                   permanent_death_signaled, tearing_down, session, unhealthy>>

\* The delayed quit closure of OnGpuPermanentDeath.
DelayedQuit ==
    /\ quit = "delayed"
    /\ quit' = "run"
    /\ UNCHANGED <<tabVars, captureVars, posted, retries, renderer_crashes_in_window,
                   permanent_death_signaled, tearing_down, session, unhealthy>>

-----------------------------------------------------------------------------

Content ==
    \/ \E t \in Tabs : Navigate(t) \/ ViewAttaches(t) \/ RendererDies(t) \/ CloseContents(t)
    \/ \E t, opener \in Tabs : AddNewContents(t, opener)

Command ==
    \/ \E t \in Tabs : CreateNewTarget(t) \/ HandleStartFrameSinkCapture(t)
    \/ CreateBrowserContext \/ DisposeBrowserContext
    \/ \E req \in Requests : StartNativeSession(req)
    \/ HandleShutdown

UiTask ==
    \/ RearmCaptureOnInitialTab \/ RearmPosted \/ OnCapturedRendererGone \/ Shutdown

Next ==
    \/ Content \/ Command \/ UiTask \/ RearmRetried
    \/ DriverReportsDeath \/ OnFailed \/ DelayedQuit

Spec == Init /\ [][Next]_vars

\* The message loop runs what was posted, and timers fire.
FairSpec == Spec /\ WF_vars(UiTask) /\ WF_vars(RearmRetried) /\ WF_vars(DelayedQuit)

-----------------------------------------------------------------------------
(***************************************************************************)
(* Properties.                                                             *)
(***************************************************************************)

\* Input and resizes follow the picture: a FrameSinkId the resolver reports as
\* captured is the active tab's live sink and the capturer's, and the viewport's
\* target is the active tab (SetActiveCapture, its callers, and the
\* invalidations of the resolver).
FollowsPicture ==
    /\ active_fsid # None => active_fsid = active /\ capturer = active
    /\ active # None => Alive(active) /\ viewport_target = active

Quiet == posted = <<>> /\ retries = <<>> /\ Running

\* A navigation never silently freezes the stream: when nothing is pending, no
\* crash happened and no re-arm gave up, the capturer is on the sink that the
\* active tab has now (RenderViewHostChanged, RearmCaptureAfterRvhSwap).
NavHeals ==
    Quiet /\ active # None /\ lost = "no" => capturer = active

\* A swap is settled: the capturer on a dead sink is re-pointed, or the re-arm
\* gives up after its attempts (the bounded retry of RearmCaptureAfterRvhSwap).
SwapSettles ==
    (active # None /\ capturer = Dead /\ lost = "no")
        ~> (active = None \/ capturer # Dead \/ lost # "no" \/ ~Running)

\* A session that starts has the required names, uses TLS as the caller said and
\* goes without it only on an explicit false, has the caller's token, policy and
\* ICE servers and never the default servers in their place, and no key that
\* nobody reads; a flag, token or policy of the wrong type counts as not
\* supplied (HandleStartNativeSession: the unknown-key rejection, the typed
\* lookups, and the refusal to fall back to public STUN).
ParamsHonoured == offerer_driver => Honours(session.cfg, session.req)

-----------------------------------------------------------------------------
(***************************************************************************)
(* What the source says and the model refutes (no run; see the README).    *)
(***************************************************************************)

\* A crash of the captured renderer is ridden out: once the reload has committed
\* and its view is attached, the capturer is on it.
CrashHeals ==
    Quiet /\ active # None /\ attached[active] /\ active \notin reloading
          /\ lost = "crash" /\ ~permanent_death_signaled
        => capturer = active

\* No parameter is dropped in silence ("Rejected rather than ignored", says the
\* unknown-key rejection): a flag of the wrong type is.
NothingDropped ==
    offerer_driver => Mistyped \notin {session.req.signalingUseTls, session.req.useTls,
                                      session.req.signalingToken,
                                      session.req.iceTransportPolicy}
=============================================================================
