# chromeless: a TLA+ verification project

chromeless streams a Chromium that runs on a server to a viewer's browser over
WebRTC.  A *worker* (the guest Chromium with the native peer, `capture/`) offers
a PeerConnection, a *viewer* (`client/`) answers it, and a *broker*
(`signaling/`) relays the signaling between the two over websockets.
Controllers under `infra/` keep a pool of workers.  The specifications here model
what decides whether a viewer gets a session and can use it: the broker, the
worker's signaling channel, the worker's session life cycle, and inside the worker
the video path (which tab, at which pace, at which size, through which encoder)
and the data channels (questions, uploads, input, clipboard, cursor).

Paths below are relative to the repository (`src/` in `PROJECT.json`); those
without a directory are under `capture/`.

## 1. Inventory

### Signaling broker: `signaling/server.go`

*State.* `hub.sessions`, keyed by (tenant, session_id); per session the `peers`
map (one per role), `recent` (last SDP envelope per type and sender, with its
time) and `recentICE` (bounded FIFO per sender); per peer the channel `send`
(capacity `sendBuffer`) and the flags `negotiated`, `saidBye`, `byeReceived`;
`hub.shuttingDown`.
*Operations.* `wsHandler` is one goroutine per connection: `getOrCreate`,
`register` (with replay), `peer_absent`, `forward` of the first frame, `readPump`,
`unregister`, `discardReplay`, a synthesised bye, `dropIfEmpty`; beside it one
`writePump`.
*Interaction.* Goroutines share `hub.mu` and `session.mu`; `forward` sends to the
counterpart's channel after it has released the lock.
*Hard.* What happens between two critical sections: a session dropped while
somebody joins it, an envelope replayed and forwarded at once, a departing peer's
cleanup racing its successor, crossing byes, full channels.
*Correct means.* No session leaks; buffers describe live peers; replay and live
forwarding together hand over each SDP envelope exactly once; tenants are
isolated; a handler's cleanup ends; one peer per role and session.

### Worker websocket client: `signaling/cb_signaling_ws_client.cc`

*State.* Connection state, data pipe, queue of announced frames, message under
assembly.
*Operations.* `OnDataFrame`, `ConsumePendingFrames`, `FinishFrame`, `Send`,
`Disconnect`, the network service's callbacks.
*Hard.* Announcements and bytes travel separately; the observer may disconnect
from inside a callback; missing bytes need something to resume the read.
*Correct means.* Messages come out whole, in order, once; only a message the
codec refuses costs the channel; what arrived is dispatched.

### Redial wrapper: `signaling/cb_signaling_reconnect.cc`

*State.* Its seven states, the attempt counter, the backoff, two timers, one
inner client.
*Operations.* `Connect`, `Disconnect`, `Send`, inner callbacks, timers, `TearDown`.
*Hard.* A consumer's `Disconnect` against a pending redial, a close against an
error, the idle timer against a closing channel, the last attempt.
*Correct means.* One channel at a time; never left with nothing under way; gives
up exactly when configured; only the consumer closes it.

### Offerer driver, audio lifecycle, main parts: `signaling/cb_offerer_driver.cc`, `audio/cb_audio_lifecycle.cc`, `build-integration/cloud_browser_browser_main_parts.cc`

*State.* The driver's negotiation state, its PeerConnection, stashed offer and
early answer, remote candidates held back, pending renegotiation; the audio
lifecycle's four states; `rearming_`, the grace timer, the last ICE state, the life
of the process.
*Operations.* Envelope handlers, hops from libwebrtc's signaling thread, `Rearm`
and `Start`, `RearmOrShutdown`, `OnConnected` (first connect and redial), grace
expiry, permanent death, exit.
*Interaction.* The UI thread and libwebrtc's signaling thread post to each other;
weak pointers cut the completions of a dropped connection.
*Hard.* Completions of the previous connection, the close that the re-arm causes
itself, late and duplicate answers, candidates before their description, a
redial in the middle of a negotiation.
*Correct means.* A running worker is never mute; its offers come from its
current connection; it re-arms only for an outside cause; a viewer that asks is
offered; every session has audio; an answer is applied to the offer it answers.

### What is streamed: `build-integration/cb_active_webcontents_resolver.cc`, `cb_web_contents_delegate.cc`, `cb_devtools_agent.cc`, the capture half of main parts

*State.* The active tab and its FrameSinkId, the capturer's target, the viewport
controller's target, tabs and who owns them, posted re-arms, the session's
parameters.
*Operations.* `Cb.startFrameSinkCapture`, `Cb.startNativeSession`, `Cb.shutdown`,
contexts and targets of DevTools, popups and `window.close()`, navigations,
crashes with bounded reloads, `RearmCaptureAfterRvhSwap` with its retries.
*Hard.* A tab goes or navigates while a fallback or a retry is on its way; three
components each remember the tab.
*Correct means.* Input and resizes go to the tab that is seen; a navigation does
not freeze the picture; retries end; what a caller supplied is honoured or refused.

### Begin-frame driver: `build-integration/cb_begin_frame_driver.cc`

*State.* Running, the epoch of the frame in flight, watchdog, nudge and next-frame
timers, the reconfiguration flag, the production counter and the death latch.
*Hard.* The compositor may be unbound, rebind, or drop the callback in a resize;
a second issue on top of a held one aborts the GPU process, and no issue at all
freezes the picture.
*Correct means.* Never two issues, never two chains, never silence; death is
reported only of a session that had its full wait.

### Viewport, capturer, encoders: `build-integration/cb_viewport_controller.cc`, `framesink-capturer/`, `encoder/`

*State.* Size in four layers, `started_`, the consumer pipe, the idle-refresh
deadline, viz's buffer pool, frames queued for the encoder, the encoder's size,
callback and native handles.
*Hard.* Resize against start and retarget; `OnStopped` of an earlier capture;
refreshes that viz drops; buffers that must come back on every path; an encoder
re-initialised in the middle of `Encode`, or half initialised.
*Correct means.* One size everywhere; the capturer knows whether viz runs; no
buffer and no handle is lost; a resize does not kill; the target is shown.

### Control channel, its clients, file uploads: `build-integration/cb_control_channel.cc`, `cb_javascript_dialog_manager.cc`, `cb_permission_manager.cc`, `cb_login_delegate.cc`, `cb_file_upload_receiver.cc`

*State.* Pending requests with deadlines, the parked chooser, open uploads, tasks of
an unsequenced thread pool, the session's byte count.
*Hard.* Response, deadline, failed send, cancel, upload and the end of the session
race for one answer; writes, hash and deletion of a file run in any order.
*Correct means.* A blocked page is answered once and in the end; a file reported
complete is the file its hash declared; an upload that ended is answered.

### Input dispatch, clipboard relay: `build-integration/cb_input_dispatch*.cc`, `cb_clipboard_relay.cc`

*State.* Held buttons, last click, wheel gesture, modifiers, composition, touch
points, drag phase; the copy window and the last text written.
*Hard.* Any sequence of events, legal or not, over tabs that change, reload and
move their focus between frames of different processes; clipboard reads that find
a text at one moment and are compared with the last paste at a later one.
*Correct means.* The page was told what the dispatchers believe, and a gesture
that is cut off spoils no other; a paste does not come back as a copy; a gesture
yields one text at most.

### Cursor channel: `cursor/`, `build-integration/cb_cursor_client.cc`, `cb_cursor_xy_join.cc`

*State.* The cursor asked for, the last pointer position, the parked edge, the
last recorded emission, the sequence number, sends in flight.
*Hard.* Decisions are made before earlier sends have completed; the channel
closes and is rebuilt with completions on their way.
*Correct means.* The viewer ends with the right cursor; numbers grow.

### Other parts

Downloads, stats relay, simulcast and bandwidth adaptation, headless screen, the
sidecars, the viewer client, authentication and deny list, the browser-session
controller, gateway and TURN issuer are listed in `PROJECT.json` with the reason
they are not modelled (and in section 7).

## 2. Modules

| module | models | run | proofs |
|---|---|---|---|
| `Broker` (`MCBroker`) | the broker | `broker`, `broker_live` | `BrokerProofs` |
| `WsInbound` | receive path of the websocket client | `ws_inbound` | `SignalingProofs` |
| `Reconnect` | the redial wrapper and its inner client's life | `reconnect` | `SignalingProofs` |
| `Worker` | driver, audio lifecycle, main parts over two threads | `worker` | `WorkerProofs` |
| `SessionConfig` | ICE servers, environment, parameters of a session (pure functions) | through `Capture` | `CaptureProofs` |
| `Capture` (`MCCapture`) | active tab, capture target, tabs, DevTools commands; extends `SessionConfig` | `capture` | `CaptureProofs` |
| `Pacing` | begin-frame driver against compositor and viz | `pacing` | `PacingProofs` |
| `Encoder` | factory and the five encoders (sets of outcomes) | through `Media` | `MediaProofs` |
| `Media` | viewport, capturer, track source, one encoder; extends `Encoder` | `media` | `MediaProofs` |
| `Uploads` | upload receiver and its thread pool | `uploads` | `PageProofs` |
| `Page` | control channel and its clients, composed with `Uploads` | `page`, `uploads` | `PageProofs` |
| `Asks` | abstract: what a page that asks is promised | refined by `Page` | `PageProofs` (its safety half) |
| `Clipboard` | clipboard relay | through `Input` | `PeripheralProofs` |
| `Input` (`MCInput`) | input dispatchers, composed with `Clipboard` | `input` | `PeripheralProofs` |
| `Cursor` | cursor client, join, policy, emitter, assembler | `cursor` | `PeripheralProofs` |

Definitions called `...Unbounded`, `...Forgets`, `...Late` and the like, each
preceded by "Seeded fault", are variants of the definition after them with a
plausible bug; `PROJECT.json` ("mutants") says which property each one breaks.

**Broker.**  A connection is used once and is its goroutine; `pc[c]` names the
next step.  One action is one critical section with the handler-local statements
around it, so `forward` is two actions, `Forward` up to the unlock and `Send`
after it.  `markNegotiated`, `clearSaidBye` and `markSaidBye` write flags that
only the peer's own goroutine reads and are merged into their neighbours;
`clearByeReceived` is merged with them.  A session object is named after the
connection that allocated it and may outlive its entry in the hub.  A first frame
that carries SDP does not set `negotiated`, as in the code.  `handed` is a
history variable: SDP envelopes put to, or dropped at, a peer's channel.
Authentication, malformed input and rate limits are the one action `Reject`.
Message contents are the sender and a frame number; `eoc` stands for ICE
envelopes without data (`hasICEData`).  `MaxDials` bounds how many connections come
at all, and `CanShutDown` says whether the operator stops the broker; both are there
to keep the runs small.  Besides the seeded fault the run lists for `Isolation`
(`CounterpartByKey`: the counterpart is looked up in the object the hub holds under
the key now), `GetOrCreateAnyTenant` forgets the tenant in the lookup, which the
same run finds.

**WsInbound.**  The stream `wire` grows as the broker sends; a frame carries where it
is (`at`), its message (`msg`) and where that began (`from`), so a byte can be its
place in the stream and no two are alike.  The network service announces frames and
writes bytes separately.  One action is one handler, except that every turn of the
loop in `ConsumePendingFrames` is a step of its own (`draining` keeps the UI thread in
it): the pipe may be filled between two turns, and `BeginReadData` may show any
beginning of what is there.  `OnEnvelope` may return, disconnect, or send an answer
that fails, and the last closes the channel under the loop.  The codec is abstracted
to "accepts exactly one whole message that is not in `Rejected`"; the results of
`BeginReadData` other than OK, SHOULD_WAIT and FAILED_PRECONDITION are left out.

**Reconnect.**  One action is one entry into the wrapper on the UI thread.  The
inner client is its state.  Whether an idle timeout is configured is chosen in
`Init`.  `failures` is a history variable.

**Worker.**  `tasks` is the UI thread's queue and `sig` the signaling thread's.  A
PeerConnection is a number, which is also the epoch of the driver's weak
pointers; a hop runs only if its epoch is current.  `PeerConnectionObserver`
callbacks take their weak pointer when they fire, so those of the old connection
reach the new session; SDP observers hold the old one and are cut.  Creating the
next connection is a blocking call into the signaling thread, so what was queued
there has run by then (`LeftOver`).  A remote candidate is added, held back or
dropped as the state says and is known by the connection it was held back for (the
failure of an `ice` envelope without a candidate is left out: `Decode` returns no such
envelope); a
local one is sent or dropped, which changes nothing in the worker.  The channel is
what `Reconnect` shows its observer: open or not.  Simplifications: the SDP calls
of one connection complete in order; `completed` counts as `connected`; envelopes
the dead client had not read when the channel drops are lost; the embedder's
`RequestRenegotiation` is the same call as the one `negotiationNeeded` leads to;
once the quit closure has run (`quitting`) no further task runs.  `Keep` is the
sub-queue of some kinds of tasks, written by the places they have in the queue
rather than by recursion, so that it can be counted and reasoned about.

**Capture.**  One action is one UI task.  A FrameSinkId is known by what it names: a
tab, `Dead`, or `None`.  Navigations, views that attach later and crashes are
content's and happen at any time.  `lost` is a history variable: why the picture is
gone and nobody will bring it back (a crash, or a re-arm that gave up).  A request
to start a session is one of `Requests`, a constant; `MCCapture` enumerates documents
with missing, empty, malformed and several ICE servers, and flags, names, tokens and
policies that are absent, of the wrong JSON type, or given.  `FindBool` and
`FindString` find nothing where the type is wrong, as `base::Value`'s do.  Entries and
documents are sets in `SessionConfig`, since only what they contain decides.

**Pacing.**  A callback is `Current` or `Stale` (the epoch is only compared for
equality); the compositor stashes it while unbound, viz holds it otherwise, and a
reconfiguration may make viz let go of it.  Time is counted in watchdog periods.

**Encoder, Media.**  Width and height are treated alike, so a size is one number.
An encoder is a record; each operation is the set of its outcomes, one for every
point at which the backend can fail, with the native handles acquired by then.
`lost` is the set of handles no field holds any more.  VA-API's buffers are held by
locals only: what `SubmitSequenceParams` and `SubmitPictureAndSlice` create is lost on
every path, the coded buffer on those that return before it is destroyed.  libwebrtc
releases an encoder before it initialises it again, so `Configure` waits for
`ReleaseEncoder`; the second `InitEncode` of an initialised encoder is the one that a
frame of another size causes inside `Encode`.
`Media` has the UI thread, viz's pipe and buffer pool, and the encoder thread.

**Uploads, Page, Asks.**  A chunk is its sequence number, so a file of n chunks is
`<<0, ..., n-1>>` and its hash is itself.  `hashed` are the uploads whose start declared
a hash; of the others the receiver checks the size only.  Chunks, a second end and
cancels of unknown uploads are taken as the receiver takes them, also after the
end; an empty chunk is left out, as the viewer sends none.  Pool tasks run in any
order and their replies come back in any order.  A question makes one request at most and names
it.  `Asks` knows nothing of channels and timers: a question is open, then
answered with the default or with what the present viewer said, once, and in the
end.  `Page` implements it (`KeepsPromise`) under the mapping `Promise`, where a
blocked page whose callback nobody holds any more maps to `"lost"`, a value that
`Asks` never takes.

**Clipboard, Input.**  The channel keeps the order of events, so sending and
dispatching is one step; the page in each tab is what it was told.  A tab has two
widgets, the main frame's and that of a frame in another process; a composition
event goes to the one with the focus when it comes, everything else to the main
one.  `strays` is a history variable: which gesture was cut off in which tab, by a tab
change, a reload or, for a composition, a move of the focus.  A read of the clipboard
is three moments: it is asked for (`reads`), finds a text (`captured`) and is answered,
where the text is compared with `last_written_text_`; pastes and page writes may fall
between any two.  A text carries the number of the paste it came from.

**Cursor.**  Positions are half pixels in one dimension, so that rounding and
truncation differ; the pointer's buttons are one bit.  `edge` (the last edge of the session) and `hidden` are
history variables.

## 3. Runs

| run | asks | bounds |
|---|---|---|
| `broker` | type, `Isolation`, `NoSessionLeak`, `BufferedSenderAlive`, `HandedOver`, `HandedOnce` | two tenants: a worker and two viewers of one, a viewer of the other; any three of the four dial; channel capacity 1, two frames each |
| `broker_live` | `CleanupEnds` | one worker, one viewer, capacity 1, a clock of two ticks, shutdown |
| `ws_inbound` | `Reassembled`, `FailsOnlyOnRejection` | every stream of three frames of at most two bytes, well-formed or not; the third message is refused |
| `reconnect` | `OneChannel`, `NeverStranded`, `GivesUpExactly`, `ClosedByConsumer`, `Settles` | the default schedule: 1 s doubling to 32 s, ten attempts |
| `worker` | `NeverMute`, `LiveOffer`, `NoSelfRearm`, `AskedIsOffered` | three inputs, which arrive while fewer than three tasks are queued |
| `capture` | `FollowsPicture`, `NavHeals`, `ParamsHonoured`, `SwapSettles` | the boot tab and one more, two re-arm attempts, one reload, two posted tasks |
| `pacing` | `NoDoubleIssue`, `OneChain`, `KeepsTicking`, `DeathIsEarned` | the code's constants: 15 watchdog periods, 6 reports |
| `media` | type (with buffer conservation), `SizesAgree`, `KnowsItRuns`, `SurvivesResize`, `NothingLost`, `ShowsTarget` | sizes below, within and above the limits, two targets, two buffers, three changes, every encoder |
| `page` | `KeepsPromise`, `UploadAnswered` | two questions, one upload of one chunk, one session and the gaps around it |
| `uploads` | `CompleteIsIntact` | one upload of three or four chunks with or without a hash, a size over the limit, two sessions, failing writes, bad frames, frames after the end |
| `input` | `PageAgrees`, `NoEcho`, `OnePerGesture` | two tabs with two widgets, one button, two fingers against a cap of one, four events, two tab, page or focus changes, two pastes, one page write |
| `cursor` | `CursorArrives`, `SeqIncreases` | two cursor types, three half-pixel positions, a button up or down, three edges, two sessions |

All twelve pass.  What each one says is above; in short:

* *Signaling.* The broker's hand-over is exact in every interleaving; the worker's
  receive path and redial wrapper lose and duplicate nothing they should not.
* *Session.* The worker keeps answering viewer after viewer, whatever the order of
  envelopes, candidates, completions, channel drops and ICE failures.
* *Video.* Swaps and tab changes are followed, the frame loop is neither doubled
  nor dead, resizes are consistent and survivable, resources come back.
* *Data channels.* Every question a page asks is answered as `Asks` promises;
  uploads are intact or refused; input, clipboard and cursor state agree on both
  sides.

*Why the bounds are enough.*  The broker's races involve a peer that leaves, its
successor in the same role and their counterpart: three connections.  With a
capacity of one every further envelope meets a full channel.  Two frames let a
peer offer and say bye, and end one session and start another on one socket.  The
two viewers are symmetric (same role and key), so they are permuted in `broker`.
The fourth connection belongs to another tenant, so that a lookup that forgets the
tenant shows; a session object that was dropped and replaced under its key needs
three connections of one.  Shutdown only suppresses the synthesised bye and is
checked in `broker_live`; the proofs have it everywhere.  Age is compared with the clock only, so two ticks and a cap of 0
tell fresh from stale.  The worker's inputs are envelopes, channel drops and what a
connection observes; completions, hops, timers, re-arms and exits are not bounded.
Three inputs allow a viewer to connect, leave and be followed by another while
the channel drops.  The reconnect and pacing runs are the whole state space of
the real constants.  In `capture` a second tab is enough for a tab to be left, to
be closed while captured and to be fallen back from; the re-arm's code does not
depend on the attempts beyond "some left" and "none left".  In `media` two buffers
let one be in the encoder while another is in the pipe, and three changes let a
resize, a retarget and a stop meet.  In `page` two questions are the fewest in
which one displaces the other; what a torn-down session leaves behind is what the
next one would find.  Three chunks are the fewest that can land in a wrong order
and still have the right size, and a fourth leaves one on its way.  Uploads share
nothing but the quota and the directory a wipe empties, so one id and a second session
show what two ids would.  In `input` four events are the fewest for a drag that is
started twice and ended, or for a finger past the cap between another's down and
up; two changes let a tab be left and returned to, or the focus move and come back;
two pastes and a page write let a paste overtake a read; tabs and texts are permuted.  In `cursor` three edges let a state be
left and returned to while sends are in flight.

*Fairness.*  Broker: each handler goroutine that is not blocked, and each
`writePump`, is run by the Go scheduler; peers promise nothing, so nothing is
assumed of dials, reads or disconnects.  Reconnect: a running timer fires, and
every dial is answered or refused; no connection is assumed to die or to succeed.
Worker: both threads run what is queued; the network, libwebrtc's spontaneous
events and the operator are free.  Capture: the message loop runs what was posted
and timers fire.  Pacing: timers fire and the GPU channel is established at last;
strong fairness of `Ack` says that a frame that can be finished again and again is
finished once, as viz finishes a frame that has damage; no resize or rebind is
assumed to stop.  Media: pipe messages, posted tasks and timers run and the encoder
thread lets frames go; strong fairness of `Refreshes` and of a good frame says that
viz, asked again and again, does not drop every refresh, which is why the code
asks again.  Page: timers, posted tasks and the pool run, and a re-arm that began
runs to its end; no page, viewer or network is assumed to do anything.

*Deadlock* is checked in the signaling and worker runs and in `media`; the states
in which a component has nothing left to do are an explicit stuttering action
(`Finished`, `Quiet`, `Over`, `Exited`).  It is off in `capture` (the process ends),
`pacing` (the driver may be stopped), and in `page`, `uploads`, `input` and `cursor`
(the bounded inputs run out).

## 4. Observed while modelling

Behaviours of the code that differ from what a comment or a document says of it,
or that a maintainer may want to know.  The first group is stated in the modules
under "What the source says and the model refutes"; they have no run, since the
code does not have them, and TLC gives a counterexample when one is added to a
configuration (`ArrivedIsDispatched` under `WsFairSpec` with two frames of one byte, `AnswersCurrentOffer` with four
inputs).

* `Broker!OneRolePerSession`.  `getOrCreate` and `register` are two critical
  sections.  A viewer takes the session object, the last peer's `dropIfEmpty`
  deletes it from the hub, the viewer registers in the orphan; the next arrivals
  get a new object under the same key.  Two peers of one role are then registered
  for one session_id, against `server.go:35`.
* `WsInbound!ArrivedIsDispatched`.  `cb_signaling_ws_client.cc:583` relies on a pipe
  watcher; none is constructed.  A message whose bytes come after its announcement
  waits for the next frame.
* `Worker!AudioArmed`.  `RearmSession` returns the audio lifecycle to kIdle in step
  3b, and the driver's own close in step 4 stops it again; only a re-arm that
  finds the driver closed keeps audio (comment at main_parts.cc:1655-1659).
* `Worker!AnswersCurrentOffer`.  An answer says nothing about the offer it answers
  and is applied to the current one (comment at `cb_offerer_driver.cc:1094`).
* `Worker!AskedIsOffered` with `VideoMayFail = TRUE`.  With no video transceiver the
  driver stays in kCreatingPc, where the viewer's request is coalesced and never
  drained (comment at main_parts.cc:1361-1364).
* `Capture!CrashHeals`.  `PrimaryMainFrameRenderProcessGone` invalidates the captured
  sink, so when the reload swaps the RenderViewHost `had_active_capture` is false and
  nothing re-arms, against main_parts.cc:2441-2445.
* `Capture!NothingDropped`.  "Rejected rather than ignored — a silently dropped param
  surfaces later as an unrelated failure", says `cb_devtools_agent.cc:848` of unknown keys;
  a known one of the wrong JSON type is dropped in silence: `"useTls": 0` and
  `"signalingUseTls": "false"` leave TLS on (`:887-888`), a token that is no string is left
  out (`:872`), and so is a transport policy (`:941`).  `ParamsHonoured` counts such a value as
  not supplied.
* `Page!OneWriteInFlight`.  `cb_file_upload_receiver.cc:41-51` argues that two writes
  of one upload are never in flight at once; the sequence number is counted when a
  write is posted, not when it has run.  The hash check refuses the damaged file.

Signaling and session:

* `unregister` and `discardReplay` are two critical sections (`server.go:886`,
  `:928`).  A peer that registers in between is replayed the departed peer's SDP,
  against `server.go:514-515`.  `BufferedSenderAlive` says this window is the only one.
* After `Disconnect` while the inner client is dialing the wrapper is in kClosed,
  "terminal" (`cb_signaling_reconnect.h:272`), but the dial is not cancelled: a late
  `OnConnected` moves it to kOpen.  The observer table of that header calls a
  remote close with 1000 terminal; the code redials.
* `ws_connected_` is never cleared, so an offer that becomes ready during a redial
  is not stashed: `Send` fails and the worker is recycled.
* A completion queued ahead of the posted re-arm meets a driver in kClosed and
  takes `FailWithReason`: a bye in the middle of a negotiation can recycle the
  worker.  `NeverMute` allows this, since a recycled worker is replaced.
* An ICE failure of the old connection can arm the grace timer of the new session.
* `was_in_ice_flight_once_` survives `Rearm`, so a candidate of the old connection can
  be sent before the new session's offer, against `cb_offerer_driver.cc:644-649`.  A
  remote candidate names no session either: a late one of the last viewer is queued
  for, or added to, the new connection.

Capture, pacing, media:

* A posted fallback to the boot tab can undo a newer `startFrameSinkCapture`.  After a
  re-arm gave up, the next navigation does not re-arm, though main_parts.cc:384-385
  says a later one recovers.  Popups of a CDP context outlive its disposal;
  `window.close()` on the boot tab or a CDP target announces `tab_closed` though
  the tab stays.
* The environment path falls back to public STUN where the command refuses to
  (`cb_devtools_agent.cc:892` calls the two "semantically identical").
* A frame lost in a resize leaves the loop waiting for ever (`LostInResize`); the
  death detection meant to recycle the worker (`cb_begin_frame_driver.cc:421-423`)
  is masked by idle refreshes, which count as production.  The comment at
  `cb_viewport_controller.cc:132-141` describes a driver that abandons the frame;
  the driver waits for it.
* `CbViewportController::Apply` returns early because "every layer already agrees"
  (`:118`), which is not so after a tab change: the new tab's view keeps its size.
* No VABuffer of `SubmitSequenceParams` or `SubmitPictureAndSlice` is given to
  `vaDestroyBuffer` (`vaapi_encoder.cc:306-451`, `:461-572`), and the coded buffer is not when
  the submission or `vaSyncSurface` fails (`:620-623`); `Destroy` (`:671-693`) frees context,
  config, surfaces, display and fd.  NVENC keeps its CUDA context when the session fails to
  open.  These are the exceptions in `NothingLost` (`Unfreed`).  AV1 is advertised though `Create` may return no encoder for it.

Pages, uploads, input, cursor:

* The late reply, deadline or cancel of one chooser cancels another that is parked
  by then, and an upload meant for the first resolves the second.  Two uploads open
  at once both pass the session quota.  The wipe of a session may delete the first
  files of the next (`overtaken`).
* An upload that declares an empty hash is not verified
  (`cb_file_upload_receiver.cc:605`), so chunks that landed in a wrong order pass; "SHA-256
  verification. Mandatory", says `docs/protocols/file-upload.md:243`.  The viewer in `client/`
  always declares one.  A chunk or an end that follows the end is still taken.
* A login whose channel is published but closed is answered inside `CbLoginDelegate`'s
  constructor (`cb_control_channel.cc:80-85`); "NOT called inline", says
  `cb_login_delegate.cc:44-47` of the case without a channel.  `Asks` permits both.
* A tab change in the middle of a gesture leaves the pages with half of it, and a
  focus change to a frame of another process in the middle of a composition leaves the
  first widget composing: the end goes to the second (`cb_input_dispatch_ime.cc:275-302`).
  Mouse and drag events never carry modifiers.
* The relay remembers one text.  A paste that is read inside a copy window and
  overtaken by a second paste before the read is answered differs from
  `last_written_text_` by then and is sent to the viewer as a copy
  (`cb_clipboard_relay.cc:246-269`), against "receiver does not echo"
  (`docs/protocols/clipboard-channel.md:93`).  `NoEcho` says this is the only way.
* Copying the text that was pasted last is dropped as an echo, and a paste's own
  write uses up an armed copy window.
* `last_` of the cursor policy lags the wire, so a change back to the last recorded
  state while another send is in flight is dropped (`hidden`).  A send that fails is
  not parked again, and a new session's viewer learns the cursor at the next edge.
  `RoundPosition` rounds where the encoder truncates.

## 5. Proofs

All theorems are checked by TLAPS with no assumption but the named `ASSUME`s on
the constants.

**BrokerProofs** proves `TypeOK`, `NoSessionLeak`, `BufferedSenderAlive`,
`HandedOver`, `HandedOnce` and `Isolation` as invariants of `Spec`, for any number
of connections and sessions, any frames, any capacities.  None is
inductive alone.  `IInv` adds: which stage belongs to which control point
(`StageInv`); a running handler's session object has its own key (`SessInv`);
`session.peers` is exactly the handlers between register and unregister
(`PeersInv`); a handler's envelope is its own (`CurInv`); buffers hold SDP of
peers of that object and role (`BufInv`); a send in progress has the counterpart
for a target (`TargetInv`); and the count of frames read, which says that the
frame a handler has not yet forwarded is nowhere else (`CountInv`, the heart of
`HandedOnce`).  `Isolation` is `Opposite` (keys and roles) and `SameSession`: whoever has
been handed an envelope, or is about to be, holds the session object of its sender,
which rests on a connection keeping the object of its `getOrCreate` to the end
(`SessKept`).  One lemma per conjunct shows that every action keeps it;
`FiniteInv` is there because replay counts a set.

**SignalingProofs** has two parts.  For `WsInbound` it proves `Reassembled` and
`FailsOnlyOnRejection` for streams of any length, frames of any size and any set of
refused messages, however announcements, bytes and turns of the loop interleave.
`WsInv` says that an open channel is one cut through the stream: the pipe is the run of
bytes from `Read` to `written` (`PipeInv`); the queue is the announced frames after the
first `Finished`, with their lengths, except that the front one is shortened to end
where the frame does (`QueueInv`); what is put aside is the run from the beginning of
the next message to `Read`, and the message-open flag is that of the last frame
announced, not of the last one drained (`AssemblyInv`).  Messages do not overlap
(`StreamInv`), so a complete run decodes as the message after those delivered and as
no other (`WholeMessage`).  Where a frame lies is a sum over the frames before it;
because the broker computes it when it sends the frame, that sum is an invariant of
the stream and needs no induction over it.

For `Reconnect` it proves type correctness, `OneChannel`, `NeverStranded`,
`GivesUpExactly` and `ClosedByConsumer` for every schedule.  The invariant is
their conjunction with `Settled`: an established channel has no failures behind
it and nothing is under way in a wrapper that has not started or has ended.
`DeathIInv` is shared by every way a channel can die.

**WorkerProofs** proves `NeverMute`, `LiveOffer` and `NoSelfRearm` for any number of
inputs and any length of the task queue at which they may arrive, whether or not
video can fail.  `Alive` strengthens `NeverMute`: the call or hop that a waiting
state has under way belongs to the connection the worker has now, for a hop of a
dropped connection is cut and would wake nobody.  `OneClear` says that at most one
task clears `rearming_`, without which a swallowed re-arm could not be told from
an effective one.  `Fresh` covers the time before the first connection.  `Budget`
is the account behind `NoSelfRearm`: connections made, causes queued on either
thread, re-arms queued that no clear follows, the grace timer and a pending
redial together never exceed one more than the inputs so far.  Since a re-arm
moves a unit from the queue to the connection count, and the close it fires
itself is queued ahead of the clear and is not counted, no step mints one.  The
lemmas before it say what `Append`, `Tail`, `Keep` and `LeftOver` keep and count.

**PacingProofs** proves `NoDoubleIssue`, `OneChain` and the action property
`DeathIsEarned` for all thresholds with `SlowestAnswer < Fires`: a frame that viz
means to answer is answered before the watchdog's last fire, which is how the code
picked its stall limit (`PacingAssumption`).  `OneToken`: the frame of this epoch is
in one place, so abandoning it leaves at most a stale callback behind.
`WatchdogPatient`: the watchdog's count never runs ahead of the time the frame has
really been out.  `SilenceCounted` does the same for the death counter.

**CaptureProofs** proves `FollowsPicture`, `NavHeals` and `ParamsHonoured` for any number
of tabs, attempts, reloads and posted tasks and any set of requests.
`ServersAreTheCallers` says what the filters of `SessionConfig` keep: every entry with a
URL, and no URL that was not given.  `Healing` is what `NavHeals` needs at every
moment instead of at rest: an invalidated capture has a re-arm posted or a retry
timer running.  `TabsLive` keeps the boot tab, the one every fallback goes to.

**MediaProofs** proves `TypeOK` with the conservation of viz's buffers, `SizesAgree`,
`KnowsItRuns`, `SurvivesResize` and `NothingLost` for every range of sizes, pool,
set of targets and all five encoders; sizes are even, as the code's limits are
(`MediaAssumption`).  The lemmas about `Encoder` show for every outcome of
initialisation, encoding and release that the record stays `Sound`: what is lost is
at most `Unfreed`, NVENC's CUDA context or VA-API's buffers, and an SVT encoder whose
threads run is initialised.  `LastWord` (an `OnStopped` is the last message of its session: viz does
not run again before `Start` replaces the pipe) is what `KnowsItRuns` needs.

**PageProofs** proves `CompleteIsIntact` for any number of uploads and chunks, and
that `Page` implements the safety half of `Asks` (`Promise!AnswersOnce`): every
question is put once and answered once, with the default or with what a viewer
of this session said.  `UploadInv` follows every chunk: accepted chunks whose reply
was not seen are exactly those `writes` counts (`Counted`), each in one place
(`OnePlace`), and what is on disk was accepted and is written (`Landed`).  Since
chunks may follow the end, a hash may read a file that is still being written;
but one that found the declared file found all of its chunks, so no write is left
that could change it (`Settled`), and no task that could is left once it is reported
(`NothingLeft`).
`AskInv` says that each callback has one holder and that a holder's page is still
blocked, so whoever runs it is first.  The mapping (`QuestionState`, `Heard`) takes a
page whose callback nobody holds to `"lost"`; `BlockedIsHeld` shows there is none.

**PeripheralProofs** has two parts.  For `Cursor` it proves `CursorArrives` and the
action property `SeqIncreases` for any edges, positions and sessions: the last edge
is parked, last in line, or shown (`OnItsWay`); what the policy recorded is what the
viewer shows, to within the rounding, once the completions are in (`Recalled`), so
that dropping a duplicate loses nothing; numbers grow along the whole way
(`Ordered`); and a channel that closed does not open again, so nothing is ever
replayed under an old number (`OpensOnce`).  For `Input` and `Clipboard` it proves
`TypeOK` (with the cap on touch points), `PageAgrees`, `NoEcho` and `OnePerGesture`
for any keys, fingers, tabs and texts.  `AllAgree` extends `PageAgrees` to the tabs
behind the front one, which an event must leave alone, gesture by gesture; `EchoKnown`
says that a paste on the clipboard, or in a read not yet answered, is remembered if
it is the last one applied, and bounds the reads under way.

*Model-checked only.*  Liveness (`CleanupEnds`, `Settles`, `AskedIsOffered`,
`SwapSettles`, `KeepsTicking`, `ShowsTarget`, `UploadAnswered`, and the liveness of
`Asks` within `KeepsPromise`) needs fairness and `ENABLED`, which the prover does not
have.  Every safety property of a run is proved.

## 6. Plan

1. What one component assumes of another: that the channel `Worker` sees is the one
   `Reconnect` shows, as a refinement.
2. The viewer client's session and reconnect machines, and a composition of
   broker, worker and client; crossing byes and dropped byes belong there.
3. Deny list and authentication against live sessions; the controller's warm pool.

## 7. Not modelled, and why

* Pixels, bitrates, picture types, frame timestamps and bandwidth adaptation:
  numbers that change continuously and decide no control flow of interest.
  Simulcast is off in the worker.
* Chromium's own set-up and APIs, aura and the headless screen: glue without state
  of this repository; what the code relies on of content, viz and libwebrtc is
  marked external in the map.
* JSON grammar, logging, metrics, the stats relay (formats and forwards), downloads
  (decided by Chromium's download manager).
* Creation of the data channels and their all-open latch: one sequential start-up.
* Custom cursor images (never extracted in production), the cursor's debounce (its
  gap is zero), pure pointer and touch moves (they change no dispatcher state).
* The sidecars, the viewer client, authentication and deny list, the
  browser-session controller, gateway and TURN issuer: separate programs; the
  viewer appears as free input.
* C++ object lifetimes below the level of one handler (a client released while its
  own method is on the stack, `Unretained` delegates): outside a model whose
  actions are whole handlers.
