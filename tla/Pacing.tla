------------------------------- MODULE Pacing -------------------------------
(***************************************************************************)
(* The external BeginFrame loop: CbBeginFrameDriver                        *)
(* (capture/build-integration/cb_begin_frame_driver.cc), with the parts of *)
(* ui::Compositor and viz that hold a frame's callback.                    *)
(*                                                                         *)
(* The driver has at most one frame out.  An issue made while the          *)
(* controller is not bound is stashed and replayed on bind; a bound        *)
(* controller holds the callback until the frame is finished.  A second    *)
(* issue on top of a held one aborts the GPU process.  A Display           *)
(* reconfiguration may make viz let go of the callback, which then runs    *)
(* late or never.                                                          *)
(*                                                                         *)
(* issue_epoch_ only ever grows and is only ever compared for equality, so *)
(* a callback is known as Current or Stale.                                *)
(***************************************************************************)
EXTENDS Naturals

CONSTANTS
    Fires,              \* kWatchdogFiresBeforeReissue
    Ticks,              \* kZeroProductionTicksBeforeDeath
    SlowestAnswer       \* external: watchdog periods a held frame may take, once
                        \* a first one was acked

ASSUME PacingAssumption ==
    /\ Fires \in Nat \ {0} /\ Ticks \in Nat \ {0}
    /\ SlowestAnswer \in Nat /\ SlowestAnswer < Fires

Nothing == "nothing"
Current == "current"
Stale == "stale"
Callbacks == {Current, Stale}

VARIABLES
    running, destroyed, first_ack_received, awaiting_reconfigure_ack, watchdog_fires_without_ack,
    next_frame_timer, stall_watchdog_timer, reconfigure_nudge_timer,    \* armed?
    diag_capturer, on_permanent_death,      \* set?
    produced,           \* frames_received has grown since the last report
    consecutive_zero_production_ticks, permanent_death_signaled,
    bound, stash, pending,      \* the controller, and the callback it or the stash holds
    late,               \* callbacks viz let go of that may still run
    undamaged,          \* the held frame waits for damage after a resize
    slow,               \* watchdog periods the held frame has taken
    aborted,            \* history: the GPU process aborted on a double issue
    silent              \* history: reports in a row, in a session, without a frame

driverVars == <<running, destroyed, first_ack_received, awaiting_reconfigure_ack,
                watchdog_fires_without_ack, next_frame_timer, stall_watchdog_timer,
                reconfigure_nudge_timer>>
deathVars == <<diag_capturer, on_permanent_death, produced,
               consecutive_zero_production_ticks, permanent_death_signaled, silent>>
vizVars == <<bound, stash, pending, late, undamaged, slow, aborted>>
vars == <<driverVars, deathVars, vizVars>>

TypeOK ==
    /\ running \in BOOLEAN /\ destroyed \in BOOLEAN
    /\ first_ack_received \in BOOLEAN
    /\ awaiting_reconfigure_ack \in BOOLEAN
    /\ watchdog_fires_without_ack \in 0..(Fires - 1)
    /\ next_frame_timer \in BOOLEAN
    /\ stall_watchdog_timer \in BOOLEAN
    /\ reconfigure_nudge_timer \in BOOLEAN
    /\ diag_capturer \in BOOLEAN
    /\ on_permanent_death \in BOOLEAN
    /\ produced \in BOOLEAN
    /\ consecutive_zero_production_ticks \in 0..Ticks
    /\ permanent_death_signaled \in BOOLEAN
    /\ bound \in BOOLEAN
    /\ stash \in Callbacks \cup {Nothing}
    /\ pending \in Callbacks \cup {Nothing}
    /\ late \subseteq Callbacks
    /\ undamaged \in BOOLEAN
    /\ slow \in 0..SlowestAnswer
    /\ aborted \in BOOLEAN
    /\ silent \in 0..Ticks
    /\ ~running => ~next_frame_timer /\ ~stall_watchdog_timer /\ ~reconfigure_nudge_timer

Init ==
    /\ running = FALSE /\ destroyed = FALSE
    /\ first_ack_received = FALSE
    /\ awaiting_reconfigure_ack = FALSE
    /\ watchdog_fires_without_ack = 0
    /\ next_frame_timer = FALSE
    /\ stall_watchdog_timer = FALSE
    /\ reconfigure_nudge_timer = FALSE
    /\ diag_capturer = FALSE
    /\ on_permanent_death = FALSE
    /\ produced = FALSE
    /\ consecutive_zero_production_ticks = 0
    /\ permanent_death_signaled = FALSE
    /\ bound = FALSE
    /\ stash = Nothing
    /\ pending = Nothing
    /\ late = {}
    /\ undamaged = FALSE
    /\ slow = 0
    /\ aborted = FALSE
    /\ silent = 0

Held == stash # Nothing \/ pending # Nothing
AtMost(n, limit) == IF n > limit THEN limit ELSE n

-----------------------------------------------------------------------------
(***************************************************************************)
(* Issue and ack.                                                          *)
(***************************************************************************)

\* What an older callback is called from now on: stale if the issue takes a new
\* epoch (++issue_epoch_).
Abandoned(cb, newEpoch) == IF newEpoch /\ cb # Nothing THEN Stale ELSE cb

\* Compositor::IssueExternalBeginFrame.
IssueExternalBeginFrame(newEpoch) ==
    /\ aborted' = (aborted \/ (bound /\ pending # Nothing) \/ (~bound /\ stash # Nothing))
    /\ pending' = IF bound THEN Current ELSE Abandoned(pending, newEpoch)
    /\ stash' = IF bound THEN Abandoned(stash, newEpoch) ELSE Current
    /\ late' = {Abandoned(cb, newEpoch) : cb \in late}
    /\ undamaged' = FALSE
    /\ slow' = 0
    /\ UNCHANGED bound

\* IssueOneBeginFrame: a full redraw, the issue, and the watchdog.
IssueOneBeginFrame(newEpoch) ==
    /\ IssueExternalBeginFrame(newEpoch)
    /\ stall_watchdog_timer' = TRUE

\* Start: the diagnostic timer, which runs as long as the loop, and the first issue.
Start ==
    /\ ~running /\ ~destroyed
    /\ running' = TRUE
    /\ IssueOneBeginFrame(FALSE)
    /\ UNCHANGED <<destroyed, first_ack_received, awaiting_reconfigure_ack,
                   watchdog_fires_without_ack, next_frame_timer,
                   reconfigure_nudge_timer, deathVars>>

\* Seeded fault: an abandoned frame's late ack re-arms the loop too.
AckAnyEpoch(cb) == TRUE

\* OnBeginFrameAck drops the ack of a frame the watchdog has given up.
AckOfThisEpoch(cb) == cb = Current

\* OnBeginFrameAck, while running: the next frame is issued at once, or when what
\* is left of the interval has passed.
OnBeginFrameAck(cb) ==
    \/ ~AckOfThisEpoch(cb) /\ UNCHANGED <<driverVars, bound, stash, undamaged, slow, aborted>>
    \/ /\ AckOfThisEpoch(cb)
       /\ first_ack_received' = TRUE
       /\ awaiting_reconfigure_ack' = FALSE
       /\ reconfigure_nudge_timer' = (reconfigure_nudge_timer /\ ~awaiting_reconfigure_ack)
       /\ watchdog_fires_without_ack' = 0
       /\ stall_watchdog_timer' = FALSE
       /\ next_frame_timer' = TRUE
       /\ UNCHANGED <<running, destroyed, bound, stash, undamaged, slow, aborted>>

\* The residual delay has passed (none, where the frame took the whole interval).
NextFrame ==
    /\ running /\ next_frame_timer
    /\ next_frame_timer' = FALSE
    /\ IssueOneBeginFrame(FALSE)
    /\ UNCHANGED <<running, destroyed, first_ack_received, awaiting_reconfigure_ack,
                   watchdog_fires_without_ack, reconfigure_nudge_timer, deathVars>>

-----------------------------------------------------------------------------
(***************************************************************************)
(* Stalls and resizes.                                                     *)
(***************************************************************************)

\* Seeded fault: the wait counts the fire one early.
MustWaitShort ==
    awaiting_reconfigure_ack \/ ~first_ack_received
        \/ watchdog_fires_without_ack + 2 < Fires

\* OnStallWatchdog's decision not to issue again.
MustWait ==
    awaiting_reconfigure_ack \/ ~first_ack_received
        \/ watchdog_fires_without_ack + 1 < Fires

\* OnStallWatchdog.  The counter of a wait without end is capped: it is not read
\* before an ack or a resize resets it.
OnStallWatchdog ==
    /\ running /\ stall_watchdog_timer
    /\ Held /\ first_ack_received /\ ~undamaged => slow < SlowestAnswer
    /\ \/ /\ MustWait
          /\ watchdog_fires_without_ack' = AtMost(watchdog_fires_without_ack + 1, Fires - 1)
          /\ slow' = AtMost(slow + 1, SlowestAnswer)
          /\ UNCHANGED <<next_frame_timer, stall_watchdog_timer,
                         bound, stash, pending, late, undamaged, aborted>>
       \/ /\ ~MustWait
          /\ watchdog_fires_without_ack' = 0
          /\ next_frame_timer' = FALSE
          /\ IssueOneBeginFrame(TRUE)
    /\ UNCHANGED <<running, destroyed, first_ack_received, awaiting_reconfigure_ack,
                   reconfigure_nudge_timer, deathVars>>

\* NotifyDisplayReconfigured: from now until the next ack nothing is issued again.
\* viz holds the frame that is out, for want of damage.
NotifyDisplayReconfigured ==
    /\ running /\ ~awaiting_reconfigure_ack
    /\ awaiting_reconfigure_ack' = TRUE
    /\ stall_watchdog_timer' = FALSE
    /\ watchdog_fires_without_ack' = 0
    /\ reconfigure_nudge_timer' = TRUE
    /\ undamaged' = (pending # Nothing)
    /\ UNCHANGED <<running, destroyed, first_ack_received, next_frame_timer, deathVars,
                   bound, stash, pending, late, slow, aborted>>

\* Seeded fault: the nudge timer ticks but asks for no redraw.
OnReconfigureNudgeIdle ==
    /\ running /\ reconfigure_nudge_timer
    /\ reconfigure_nudge_timer' = awaiting_reconfigure_ack
    /\ UNCHANGED <<running, destroyed, first_ack_received, awaiting_reconfigure_ack,
                   watchdog_fires_without_ack, next_frame_timer, stall_watchdog_timer,
                   deathVars, vizVars>>

\* OnReconfigureNudge: a full redraw, never an issue.
OnReconfigureNudge ==
    /\ running /\ reconfigure_nudge_timer
    /\ reconfigure_nudge_timer' = awaiting_reconfigure_ack
    /\ undamaged' = (undamaged /\ ~awaiting_reconfigure_ack)
    /\ UNCHANGED <<running, destroyed, first_ack_received, awaiting_reconfigure_ack,
                   watchdog_fires_without_ack, next_frame_timer, stall_watchdog_timer,
                   deathVars, bound, stash, pending, late, slow, aborted>>

\* Stop, from the destructor: timers are stopped and callbacks invalidated.
Stop ==
    /\ running
    /\ running' = FALSE /\ destroyed' = TRUE
    /\ next_frame_timer' = FALSE
    /\ stall_watchdog_timer' = FALSE
    /\ awaiting_reconfigure_ack' = FALSE
    /\ reconfigure_nudge_timer' = FALSE
    /\ UNCHANGED <<first_ack_received, watchdog_fires_without_ack, deathVars, vizVars>>

-----------------------------------------------------------------------------
(***************************************************************************)
(* Production, and permanent death.                                        *)
(***************************************************************************)

SetDiagnosticSources ==
    /\ ~diag_capturer
    /\ diag_capturer' = TRUE
    /\ UNCHANGED <<driverVars, on_permanent_death, produced,
                   consecutive_zero_production_ticks, permanent_death_signaled, silent, vizVars>>

\* main_parts arms the signal when a native session starts.
SetPermanentDeathCallback ==
    /\ ~on_permanent_death
    /\ on_permanent_death' = TRUE
    /\ UNCHANGED <<driverVars, diag_capturer, produced,
                   consecutive_zero_production_ticks, permanent_death_signaled, silent, vizVars>>

\* A frame reaches the capturer: drawn, or repeated by the idle refresh.
FrameReceived ==
    /\ running /\ ~produced
    /\ produced' = TRUE
    /\ silent' = 0
    /\ UNCHANGED <<driverVars, diag_capturer, on_permanent_death,
                   consecutive_zero_production_ticks, permanent_death_signaled, vizVars>>

\* Seeded fault: silence is counted before there is a session to report it to.
ZeroTicksUnarmed ==
    IF produced THEN 0 ELSE AtMost(consecutive_zero_production_ticks + 1, Ticks)

\* EmitDiagnostic's streak: counted only with a capturer and a callback, and reset
\* by a frame.  Capped where only >= Ticks is asked.
ZeroTicks ==
    IF ~diag_capturer \/ ~on_permanent_death \/ produced THEN 0
    ELSE AtMost(consecutive_zero_production_ticks + 1, Ticks)

\* EmitDiagnostic, every kDiagnosticInterval.
EmitDiagnostic ==
    /\ running
    /\ produced' = (produced /\ ~diag_capturer)
    /\ consecutive_zero_production_ticks' = ZeroTicks
    /\ permanent_death_signaled' =
         (permanent_death_signaled
            \/ (diag_capturer /\ on_permanent_death /\ consecutive_zero_production_ticks' = Ticks))
    /\ silent' = IF diag_capturer /\ on_permanent_death /\ ~produced
                 THEN AtMost(silent + 1, Ticks) ELSE 0
    /\ UNCHANGED <<driverVars, diag_capturer, on_permanent_death, vizVars>>

-----------------------------------------------------------------------------
(***************************************************************************)
(* ui::Compositor and viz.                                                 *)
(***************************************************************************)

\* The GPU channel is up: the stashed issue is replayed.
Bind ==
    /\ running /\ ~bound
    /\ bound' = TRUE
    /\ pending' = stash /\ stash' = Nothing
    /\ UNCHANGED <<driverVars, deathVars, late, undamaged, slow, aborted>>

\* A warm restore establishes the channel anew: the frame that is out is stashed
\* again, or lost.
Unbind ==
    /\ running /\ bound /\ first_ack_received
    /\ bound' = FALSE
    /\ stash' \in {pending, Nothing}
    /\ pending' = Nothing
    /\ undamaged' = FALSE
    /\ UNCHANGED <<driverVars, deathVars, late, slow, aborted>>

\* The frame is finished and its callback runs.
Ack ==
    /\ running /\ bound /\ pending # Nothing /\ ~undamaged
    /\ OnBeginFrameAck(pending)
    /\ pending' = Nothing
    /\ UNCHANGED <<deathVars, late>>

\* Forcing the captured view visible reconfigures the Display, which lets go of
\* the callback: it may run late, or not at all.
LetGo ==
    /\ running /\ pending # Nothing
    /\ first_ack_received
    /\ late' \in {late, late \cup {pending}}
    /\ pending' = Nothing
    /\ undamaged' = FALSE
    /\ UNCHANGED <<driverVars, deathVars, bound, stash, slow, aborted>>

LateAck(cb) ==
    /\ running /\ cb \in late
    /\ OnBeginFrameAck(cb)
    /\ late' = late \ {cb}
    /\ UNCHANGED <<deathVars, pending>>

-----------------------------------------------------------------------------

Timers == NextFrame \/ OnStallWatchdog \/ OnReconfigureNudge

Viz == Bind \/ Unbind \/ Ack \/ LetGo \/ \E cb \in Callbacks : LateAck(cb)

Next ==
    \/ Start \/ Stop \/ NotifyDisplayReconfigured \/ Timers \/ Viz
    \/ SetDiagnosticSources \/ SetPermanentDeathCallback \/ FrameReceived \/ EmitDiagnostic

Spec == Init /\ [][Next]_vars

\* Timers fire and the channel is established; a frame that can be finished again
\* and again, between rebinds and reconfigurations, is acked at last.
FairSpec ==
    /\ Spec
    /\ WF_vars(NextFrame) /\ WF_vars(OnStallWatchdog) /\ WF_vars(OnReconfigureNudge)
    /\ WF_vars(Bind) /\ SF_vars(Ack)

-----------------------------------------------------------------------------
(***************************************************************************)
(* Properties.                                                             *)
(***************************************************************************)

\* The driver never issues on top of a frame that viz or the compositor still
\* holds, which would abort the GPU process: the watchdog outwaits a slow rebind,
\* a resize holds the loop back, and a cold boot is waited for without end
\* (OnStallWatchdog, NotifyDisplayReconfigured, OnBeginFrameAck).
NoDoubleIssue == ~aborted

\* There is one chain: while the next issue is scheduled no frame of this epoch is
\* out, so that no late ack can start a second loop (issue_epoch_); and a driver
\* that was stopped has no timer left (TypeOK), whose callbacks are unretained.
OneChain ==
    /\ TypeOK
    /\ next_frame_timer => stash # Current /\ pending # Current /\ Current \notin late

\* The one state the loop does not leave by itself: it waits for the ack of a
\* frame from before a resize whose callback is gone.
LostInResize ==
    awaiting_reconfigure_ack /\ ~Held /\ ~next_frame_timer

\* The loop never dies in silence: acks keep coming, through stalls, rebinds and
\* resizes, unless it is stopped or the frame it waits for was lost in a resize
\* (the watchdog's re-issue and the nudge).
KeepsTicking ==
    \/ []<><<first_ack_received' /\ next_frame_timer' /\ ~next_frame_timer>>_vars
    \/ <>[]~running
    \/ <>[]LostInResize

\* Permanent death is reported only of a session that went without a frame for
\* the whole wait: idle time before the session does not count (EmitDiagnostic).
DeathIsEarned ==
    [][permanent_death_signaled' # permanent_death_signaled
         => permanent_death_signaled' /\ silent' = Ticks]_vars
=============================================================================
