------------------------------- MODULE Media --------------------------------
(***************************************************************************)
(* The video path: CbViewportController, CloudBrowserFrameSinkCapturer,    *)
(* the track source with its frame conversion, and one encoder.            *)
(*                                                                         *)
(* UI thread: a viewport request reaches the screen, the aura host, the    *)
(* page's view and the capturer in one call; the capturer pins viz to its  *)
(* resolution, receives frames over a pipe and refreshes an idle page from *)
(* a deadline.  Encoder thread: frames are encoded and let go.  Every      *)
(* frame holds a buffer of viz's pool until Done is sent on the UI thread. *)
(*                                                                         *)
(* Width and height are treated alike, so a size is one number.  External: *)
(* viz (pool, pipe, when it paints) and libwebrtc (when it calls the       *)
(* encoder).                                                               *)
(***************************************************************************)
EXTENDS Encoder, FiniteSets

CONSTANTS
    MinDim, MaxDim,     \* kMinViewportDimension, kMaxViewportDimension
    MaxScale,           \* kMaxDeviceScaleFactor
    Boot,               \* the boot size: the screen's and the capturer's default
    Requests, Scales,   \* sizes and scales Cb.setViewport is asked for
    Targets,            \* FrameSinks the capturer is pointed at
    Pool,               \* viz's frame buffers
    MaxChanges          \* bound on viewport requests, retargets and stops

KeepCurrentScale == 0

ASSUME MediaAssumption ==
    /\ MinDim \in Nat /\ MaxDim \in Nat /\ 2 <= MinDim /\ MinDim <= MaxDim
    /\ MinDim % 2 = 0 /\ MaxDim % 2 = 0 /\ MaxScale \in Nat \ {0}
    /\ Boot \in MinDim..MaxDim /\ Boot % 2 = 0
    /\ Requests \subseteq Nat /\ Scales \subseteq Nat
    /\ Pool \in Nat \ {0} /\ MaxChanges \in Nat

VARIABLES
    current, screen, host,                              \* the viewport and its layers
    resolution, started, idle_refresh_timer,            \* the capturer
    running, constraints, target, refresh, pipe, free,  \* viz
    queue, key,                                         \* libwebrtc
    registered,         \* libwebrtc initialised the encoder and registered with it
    enc, crashed,       \* the encoder; a call through a null callback
    posted,             \* RunDone tasks on their way to the UI thread
    fresh,              \* history: a frame of this target and size was published
    changes

viewportVars == <<current, screen, host>>
capturerVars == <<resolution, started, idle_refresh_timer>>
vizVars == <<running, constraints, target, refresh, pipe, free>>
rtcVars == <<queue, key, registered>>
encVars == <<enc, crashed>>
vars == <<viewportVars, capturerVars, vizVars, rtcVars, encVars, posted, fresh, changes>>

(* Viewport sizes after Clamp, and pixel sizes.                            *)
Dims == {s \in MinDim..MaxDim : s % 2 = 0}
Sizes == {s \in MinDim..(MaxDim * MaxScale) : s % 2 = 0}
NoTarget == "none"

(* A key frame request: none, on its way to the signaling thread, taken by *)
(* libwebrtc.                                                              *)
NoKey == "no key"
Posted == "posted"
Asked == "asked"

(* What viz delivers: a good frame, one without VideoFrameInfo, one whose  *)
(* buffer cannot be mapped, or one in a format the conversion refuses.     *)
FrameKinds == {"good", "null_info", "no_buffer", "unsupported"}
Frames == [size : Sizes, target : Targets]
Stopped == [size |-> 0, target |-> NoTarget]     \* OnStopped

InPipe == Cardinality({i \in DOMAIN pipe : pipe[i] # Stopped})

(* Every buffer of viz's pool is free, on the pipe, in the encoder's queue *)
(* or on its way back: no path of a frame forgets Done.                    *)
PoolConserved == free + InPipe + Len(queue) + posted = Pool

TypeOK ==
    /\ current \in [size : Dims, scale : 1..MaxScale]
    /\ screen \in Sizes /\ host \in Sizes
    /\ resolution \in Sizes /\ started \in BOOLEAN
    /\ idle_refresh_timer \in BOOLEAN
    /\ running \in BOOLEAN /\ constraints \in Sizes \cup {0}
    /\ target \in Targets \cup {NoTarget}
    /\ refresh \in BOOLEAN
    /\ pipe \in Seq(Frames \cup {Stopped})
    /\ free \in Nat /\ posted \in Nat /\ PoolConserved
    /\ queue \in Seq(Sizes)
    /\ key \in {NoKey, Posted, Asked}
    /\ registered \in BOOLEAN
    /\ enc \in [kind : Kinds, size : Sizes \cup {0}, initialized : BOOLEAN,
                callback : BOOLEAN, native : SUBSET Handles, lost : SUBSET Handles]
    /\ fresh \in BOOLEAN /\ crashed \in BOOLEAN /\ changes \in 0..MaxChanges

Init ==
    /\ current = [size |-> Boot, scale |-> 1]
    /\ screen = Boot /\ host = Boot
    /\ resolution = Boot /\ started = FALSE /\ idle_refresh_timer = FALSE
    /\ running = FALSE /\ constraints = 0 /\ target = NoTarget
    /\ refresh = FALSE /\ pipe = <<>> /\ free = Pool
    /\ queue = <<>> /\ key = NoKey
    /\ registered = FALSE
    /\ \E format \in Formats, prefer \in SUBSET {"nvenc", "vaapi"}, probed \in SUBSET Backends :
         /\ Create(format, prefer, probed) # NoEncoder
         /\ enc = New(Create(format, prefer, probed))
    /\ crashed = FALSE /\ posted = 0 /\ fresh = FALSE /\ changes = 0

-----------------------------------------------------------------------------
(* The viewport                                                            *)

EvenAlignDown(v) == v - (v % 2)

Between(v, low, high) == IF v < low THEN low ELSE IF v > high THEN high ELSE v

Clamp(spec) ==
    [size |-> EvenAlignDown(Between(spec.size, MinDim, MaxDim)),
     scale |-> Between(spec.scale, 1, MaxScale)]

(* The capturer's on_content_changed_: RequestVideoKeyFrame posts to the   *)
(* signaling thread when there is a video sender.                          *)
RequestVideoKeyFrame == key' = IF registered THEN Posted ELSE key

(* Mutant: a running producer is not re-pinned.                            *)
SetCaptureResolutionUnpinned(size) ==
    /\ resolution' = EvenAlignDown(size)
    /\ UNCHANGED <<constraints, refresh, key, fresh>>

SetCaptureResolution(size) ==
    LET aligned == EvenAlignDown(size)
    IN  IF aligned = 0 \/ aligned = resolution
        THEN UNCHANGED <<resolution, constraints, refresh, key, fresh>>
        ELSE /\ resolution' = aligned
             /\ IF started
                THEN /\ constraints' = aligned /\ refresh' = running /\ fresh' = FALSE
                     /\ RequestVideoKeyFrame
                ELSE UNCHANGED <<constraints, refresh, key, fresh>>

(* The page's view gets the size too; nothing here reads it back.          *)
Apply(spec) ==
    LET resolved == IF spec.scale = KeepCurrentScale THEN [spec EXCEPT !.scale = current.scale]
                                                     ELSE spec
        to == Clamp(resolved)
        size_px == to.size * to.scale
    IN  IF to = current
        THEN UNCHANGED <<viewportVars, resolution, constraints, refresh, key, fresh>>
        ELSE /\ screen' = size_px /\ host' = size_px
             /\ SetCaptureResolution(size_px)
             /\ current' = to

SetViewport ==
    /\ changes < MaxChanges /\ changes' = changes + 1
    /\ \E size \in Requests, scale \in Scales : Apply([size |-> size, scale |-> scale])
    /\ UNCHANGED <<started, idle_refresh_timer, running, target, pipe, free, queue,
                   registered, encVars, posted>>

-----------------------------------------------------------------------------
(* The capturer                                                            *)

(* ArmIdleRefreshDeadline; the period is set before capture can start.     *)
Armed(isStarted) == isStarted

(* Mutant: the consumer pipe of the last session is kept.                  *)
StartKeepsPipe(t) ==
    /\ constraints' = resolution /\ target' = t /\ fresh' = FALSE
    /\ running' = TRUE
    /\ started' = TRUE /\ idle_refresh_timer' = Armed(TRUE)
    /\ UNCHANGED <<key, pipe, free, refresh>>

(* Start: a running capturer is re-pinned and retargeted; else the stale   *)
(* pipe is dropped, and with it the frames in it, before viz is started.   *)
Start(t) ==
    /\ constraints' = resolution /\ target' = t /\ fresh' = FALSE
    /\ IF started
       THEN RequestVideoKeyFrame /\ UNCHANGED <<running, pipe, free, refresh>>
       ELSE /\ pipe' = <<>> /\ free' = free + InPipe
            /\ running' = TRUE /\ refresh' = FALSE
            /\ UNCHANGED key
    /\ started' = TRUE /\ idle_refresh_timer' = Armed(TRUE)

StartCapture ==
    /\ changes < MaxChanges /\ changes' = changes + 1
    /\ \E t \in Targets : Start(t)
    /\ UNCHANGED <<viewportVars, resolution, queue, registered, encVars, posted>>

Stop ==
    /\ changes < MaxChanges /\ changes' = changes + 1
    /\ started
    /\ started' = FALSE /\ idle_refresh_timer' = FALSE
    /\ running' = FALSE /\ refresh' = FALSE /\ pipe' = Append(pipe, Stopped)
    /\ UNCHANGED <<viewportVars, resolution, constraints, target, free, rtcVars, encVars,
                   posted, fresh>>

OnStopped ==
    /\ pipe # <<>> /\ Head(pipe) = Stopped
    /\ pipe' = Tail(pipe)
    /\ started' = FALSE /\ idle_refresh_timer' = FALSE
    /\ UNCHANGED <<viewportVars, resolution, running, constraints, target, refresh, free,
                   rtcVars, encVars, posted, fresh, changes>>

(* The scope's last reference on the UI thread: Done at once.              *)
RunDone(n) == free' = free + n

(* WrapAsMediaFrame gives no frame without a mapped buffer.                *)
WrapAsMediaFrame(kind) == kind # "no_buffer"

(* WrapMediaVideoFrameAsWebrtcFrame refuses an unsupported format.         *)
WrapMediaVideoFrameAsWebrtcFrame(kind) == kind # "unsupported"

(* The broadcaster hands the frame to the encoder's queue, which holds the *)
(* buffer; with no sink it is let go on return.                            *)
OnCapturerFrame(f, kind, sink) ==
    IF WrapMediaVideoFrameAsWebrtcFrame(kind)
    THEN /\ fresh' = (fresh \/ (f.target = target /\ f.size = resolution))
         /\ IF sink THEN queue' = Append(queue, f.size) /\ RunDone(0)
                    ELSE RunDone(1) /\ UNCHANGED queue
    ELSE RunDone(1) /\ UNCHANGED <<queue, fresh>>

(* Mutant: a frame without VideoFrameInfo returns before the scope exists. *)
OnFrameCapturedForgets(f, kind, sink) ==
    /\ idle_refresh_timer' = (idle_refresh_timer \/ Armed(started))
    /\ IF kind = "null_info"
       THEN UNCHANGED <<free, queue, fresh>>
       ELSE IF ~WrapAsMediaFrame(kind) THEN RunDone(1) /\ UNCHANGED <<queue, fresh>>
       ELSE OnCapturerFrame(f, kind, sink)

OnFrameCaptured(f, kind, sink) ==
    /\ idle_refresh_timer' = (idle_refresh_timer \/ Armed(started))
    /\ IF kind = "null_info" \/ ~WrapAsMediaFrame(kind)
       THEN RunDone(1) /\ UNCHANGED <<queue, fresh>>
       ELSE OnCapturerFrame(f, kind, sink)

Receive(kind) ==
    /\ pipe # <<>> /\ Head(pipe) # Stopped
    /\ pipe' = Tail(pipe)
    /\ OnFrameCaptured(Head(pipe), kind, registered)
    /\ UNCHANGED <<viewportVars, resolution, started, running, constraints, target, refresh,
                   key, registered, encVars, posted, changes>>

(* Mutant: the deadline waits for the refreshed frame to re-arm it.        *)
OnIdleRefreshDeadlineOnce ==
    /\ idle_refresh_timer' = FALSE
    /\ refresh' = (IF started THEN running ELSE refresh)

(* Asks viz again and re-arms: the request is best effort.                 *)
OnIdleRefreshDeadline ==
    /\ idle_refresh_timer' = Armed(started)
    /\ refresh' = (IF started THEN running ELSE refresh)

IdleRefresh ==
    /\ idle_refresh_timer
    /\ OnIdleRefreshDeadline
    /\ UNCHANGED <<viewportVars, resolution, started, running, constraints, target, pipe,
                   free, rtcVars, encVars, posted, fresh, changes>>

-----------------------------------------------------------------------------
(* viz                                                                     *)

Emit ==
    /\ running /\ free > 0
    /\ free' = free - 1
    /\ pipe' = Append(pipe, [size |-> constraints, target |-> target])
    /\ UNCHANGED <<viewportVars, capturerVars, running, constraints, target, rtcVars, encVars,
                   posted, fresh, changes>>

Paints == Emit /\ UNCHANGED refresh

Refreshes == refresh /\ Emit /\ refresh' = FALSE

DropsRefresh ==
    /\ refresh /\ refresh' = FALSE
    /\ UNCHANGED <<viewportVars, capturerVars, running, constraints, target, pipe, free,
                   rtcVars, encVars, posted, fresh, changes>>

(* viz ends the session by itself.                                         *)
VizStops ==
    /\ changes < MaxChanges /\ changes' = changes + 1
    /\ running /\ running' = FALSE /\ refresh' = FALSE
    /\ pipe' = Append(pipe, Stopped)
    /\ UNCHANGED <<viewportVars, capturerVars, constraints, target, free, rtcVars, encVars,
                   posted, fresh>>

-----------------------------------------------------------------------------
(* libwebrtc and the encoder                                               *)

GenerateKeyFrame ==
    /\ key = Posted /\ key' = Asked
    /\ UNCHANGED <<viewportVars, capturerVars, vizVars, queue, registered, encVars,
                   posted, fresh, changes>>

encoderOnly == <<viewportVars, capturerVars, vizVars, posted, fresh, changes>>

(* InitEncode at some size, and on success the callback; else Release.     *)
Configure ==
    /\ ~registered
    /\ \E size \in Sizes : \E e \in InitEncode(enc, size) :
         /\ enc' = IF e.initialized THEN RegisterEncodeCompleteCallback(e) ELSE Release(e)
         /\ registered' = e.initialized
    /\ key' = Asked
    /\ UNCHANGED <<queue, crashed, encoderOnly>>

ReleaseEncoder ==
    /\ registered /\ registered' = FALSE
    /\ enc' = Release(enc)
    /\ UNCHANGED <<queue, key, crashed, encoderOnly>>

(* A frame leaves the queue on the encoder thread: its scope's last        *)
(* reference goes there, so Done is posted to the UI thread.               *)
EncodeFrame ==
    /\ queue # <<>> /\ registered
    /\ queue' = Tail(queue) /\ posted' = posted + 1
    /\ \E out \in Encode(enc, Head(queue)) :
         /\ enc' = out.enc
         /\ crashed' = (crashed \/ out.image = Null)
         /\ key' = IF key = Asked /\ out.ok THEN NoKey ELSE key
    /\ UNCHANGED <<viewportVars, capturerVars, vizVars, registered, fresh, changes>>

DropFrame ==
    /\ queue # <<>>
    /\ queue' = Tail(queue) /\ posted' = posted + 1
    /\ UNCHANGED <<viewportVars, capturerVars, vizVars, key, registered, encVars,
                   fresh, changes>>

RunDonePosted ==
    /\ posted > 0 /\ posted' = posted - 1
    /\ RunDone(1)
    /\ UNCHANGED <<viewportVars, capturerVars, running, constraints, target, refresh, pipe,
                   rtcVars, encVars, fresh, changes>>

Next ==
    \/ SetViewport \/ StartCapture \/ Stop \/ OnStopped \/ IdleRefresh
    \/ \E kind \in FrameKinds : Receive(kind)
    \/ Paints \/ Refreshes \/ DropsRefresh \/ VizStops
    \/ GenerateKeyFrame \/ Configure \/ ReleaseEncoder
    \/ EncodeFrame \/ DropFrame \/ RunDonePosted

Spec == Init /\ [][Next]_vars

(* Posted tasks, pipe messages and timers run; viz answers a refresh with  *)
(* a good frame again and again when it is asked again and again; the      *)
(* encoder thread lets frames go.                                          *)
Fairness ==
    /\ WF_vars(\E kind \in FrameKinds : Receive(kind))
    /\ WF_vars(OnStopped) /\ WF_vars(IdleRefresh)
    /\ WF_vars(EncodeFrame \/ DropFrame) /\ WF_vars(RunDonePosted)
    /\ SF_vars(Refreshes) /\ SF_vars(Receive("good"))

FairSpec == Spec /\ Fairness

-----------------------------------------------------------------------------
(* Properties                                                              *)

(* Every layer agrees on the size: the screen, the aura host and the       *)
(* capturer hold the viewport's pixel size, and viz is pinned to it while  *)
(* capture runs, whatever the order of viewport requests and starts.       *)
SizesAgree ==
    /\ screen = current.size * current.scale /\ host = screen /\ resolution = screen
    /\ started => constraints = resolution

(* The capturer knows whether viz is capturing: when it differs, the       *)
(* OnStopped that says so is still in its pipe.  A message of an earlier   *)
(* session never ends a later one.                                         *)
KnowsItRuns ==
    started # running => \E i \in DOMAIN pipe : pipe[i] = Stopped

(* An encoder that is still initialised for libwebrtc, after any number of *)
(* resizes, has the callback registered with it, and no image went through *)
(* a null callback.                                                        *)
SurvivesResize ==
    /\ ~crashed
    /\ registered /\ enc.initialized => enc.callback

(* What an encoder of a kind does lose: NVENC its CUDA context, when no    *)
(* session was opened on it, and VA-API its VABuffers, whose ids are in    *)
(* locals and which no return of Submit*, Encode or Destroy destroys.      *)
Unfreed(kind) ==
    CASE kind = "nvenc" -> {"cuda"}
      [] kind = "vaapi" -> {"parameters", "coded"}
      [] OTHER -> {}

(* Nothing else is lost: whatever calls InitEncode, a resize inside Encode *)
(* and Release make, and however far each gets before it fails, every      *)
(* other native handle is freed through the field that holds it when the   *)
(* encoder is destroyed.                                                   *)
NothingLost == Destroyed(enc).lost \subseteq Unfreed(enc.kind)

(* A running capture shows its target: after a start, a retarget or a      *)
(* resize a frame of this target at this size is published, though the     *)
(* page is idle and viz may drop refresh requests.                         *)
ShowsTarget == started /\ ~fresh ~> fresh \/ ~started
=============================================================================
