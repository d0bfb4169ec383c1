---------------------------- MODULE PacingProofs ----------------------------
(***************************************************************************)
(* Proofs about Pacing.  The inductive invariant says where the one frame  *)
(* of this epoch can be, and that the watchdog's count never runs ahead of *)
(* the time that frame has really been out.                                *)
(***************************************************************************)
EXTENDS Pacing, TLAPS

USE PacingAssumption

\* The frame of this epoch is a token: it is scheduled, stashed, pending in viz or
\* let go of, in one place at a time; the compositor and viz never hold an
\* abandoned one.
OneToken ==
    /\ IF bound THEN stash = Nothing ELSE pending = Nothing
    /\ stash # Stale /\ pending # Stale
    /\ Held => Current \notin late
    /\ next_frame_timer => ~Held /\ Current \notin late

\* A frame that is scheduled is not watched; a frame waits for damage only in viz
\* and only until the resize is acked; and while a held frame can be given up, the
\* watchdog has not fired more often than the frame has taken periods.
WatchdogPatient ==
    /\ next_frame_timer => ~stall_watchdog_timer /\ watchdog_fires_without_ack = 0
    /\ running /\ undamaged => awaiting_reconfigure_ack /\ pending # Nothing
    /\ running /\ Held /\ first_ack_received /\ ~awaiting_reconfigure_ack
          => watchdog_fires_without_ack <= slow

\* Before Start nothing is out and nothing was counted.
Unstarted ==
    ~running /\ ~destroyed => ~Held /\ late = {} /\ ~first_ack_received

\* Since the last frame the death counter has not counted a report that the
\* history did not see.
SilenceCounted ==
    produced \/ consecutive_zero_production_ticks <= silent

Inv == NoDoubleIssue /\ OneChain /\ OneToken /\ WatchdogPatient /\ Unstarted /\ SilenceCounted

\* TypeOK in the parts that the provers need apart: flags, counters and callbacks.
Flags ==
    /\ running \in BOOLEAN /\ destroyed \in BOOLEAN /\ first_ack_received \in BOOLEAN
    /\ awaiting_reconfigure_ack \in BOOLEAN /\ next_frame_timer \in BOOLEAN
    /\ stall_watchdog_timer \in BOOLEAN /\ reconfigure_nudge_timer \in BOOLEAN
    /\ diag_capturer \in BOOLEAN /\ on_permanent_death \in BOOLEAN /\ produced \in BOOLEAN
    /\ permanent_death_signaled \in BOOLEAN /\ bound \in BOOLEAN
    /\ undamaged \in BOOLEAN /\ aborted \in BOOLEAN
    /\ ~running => ~next_frame_timer /\ ~stall_watchdog_timer /\ ~reconfigure_nudge_timer

Counts ==
    /\ watchdog_fires_without_ack \in 0..(Fires - 1)
    /\ consecutive_zero_production_ticks \in 0..Ticks
    /\ slow \in 0..SlowestAnswer /\ silent \in 0..Ticks

Holders ==
    /\ stash \in Callbacks \cup {Nothing} /\ pending \in Callbacks \cup {Nothing}
    /\ late \subseteq Callbacks

\* The parts are TypeOK, in this state and in the next.
LEMMA TypeParts == /\ TypeOK <=> Flags /\ Counts /\ Holders
                   /\ TypeOK' <=> Flags' /\ Counts' /\ Holders'
  BY DEF TypeOK, Flags, Counts, Holders

\* Start issues the first frame while nothing is out yet.
LEMMA StartInv == Inv /\ Start => Inv'
<1> SUFFICES ASSUME Inv, Start PROVE Inv'
  OBVIOUS
<1> USE TypeParts DEF Start, IssueOneBeginFrame, IssueExternalBeginFrame, Abandoned,
        Inv, NoDoubleIssue, OneChain, driverVars, deathVars, vizVars, Callbacks,
        Current, Stale, Nothing, Held
<1>1. TypeOK'
  <2>1. Flags'
    BY DEF Flags
  <2>2. Counts'
    BY DEF Counts
  <2>3. Holders'
    BY DEF Holders
  <2> QED
    BY <2>1, <2>2, <2>3
<1>2. NoDoubleIssue'
  BY DEF OneToken, Unstarted
<1>3. OneToken'
  BY DEF Flags, Holders, OneToken, Unstarted
<1>4. WatchdogPatient'
  BY DEF Flags, Counts, Holders, OneToken, WatchdogPatient, Unstarted
<1>5. Unstarted' /\ SilenceCounted'
  BY DEF Flags, Unstarted, SilenceCounted
<1> QED
  BY <1>1, <1>2, <1>3, <1>4, <1>5 DEF OneToken

\* Stop leaves no timer armed.
LEMMA StopInv == Inv /\ Stop => Inv'
<1> SUFFICES ASSUME Inv, Stop PROVE Inv'
  OBVIOUS
<1> USE TypeParts DEF Stop, Inv, NoDoubleIssue, OneChain, driverVars, deathVars,
        vizVars, Callbacks, Current, Stale, Nothing, Held
<1>1. TypeOK'
  <2>1. Flags'
    BY DEF Flags
  <2>2. Counts'
    BY DEF Counts
  <2>3. Holders'
    BY DEF Holders
  <2> QED
    BY <2>1, <2>2, <2>3
<1>2. NoDoubleIssue'
  BY DEF OneToken, Unstarted
<1>3. OneToken'
  BY DEF Flags, Holders, OneToken, Unstarted
<1>4. WatchdogPatient'
  BY DEF Flags, Counts, Holders, OneToken, WatchdogPatient, Unstarted
<1>5. Unstarted' /\ SilenceCounted'
  BY DEF Flags, Unstarted, SilenceCounted
<1> QED
  BY <1>1, <1>2, <1>3, <1>4, <1>5 DEF OneToken

\* A resize makes the held frame wait for damage and stops the watchdog.
LEMMA NotifyDisplayReconfiguredInv == Inv /\ NotifyDisplayReconfigured => Inv'
<1> SUFFICES ASSUME Inv, NotifyDisplayReconfigured PROVE Inv'
  OBVIOUS
<1> USE TypeParts DEF NotifyDisplayReconfigured, Inv, NoDoubleIssue, OneChain,
        driverVars, deathVars, vizVars, Callbacks, Current, Stale, Nothing, Held
<1>1. TypeOK'
  <2>1. Flags'
    BY DEF Flags
  <2>2. Counts'
    BY DEF Counts
  <2>3. Holders'
    BY DEF Holders
  <2> QED
    BY <2>1, <2>2, <2>3
<1>2. NoDoubleIssue'
  BY DEF OneToken, Unstarted
<1>3. OneToken'
  BY DEF Flags, Holders, OneToken, Unstarted
<1>4. WatchdogPatient'
  BY DEF Flags, Counts, Holders, OneToken, WatchdogPatient, Unstarted
<1>5. Unstarted' /\ SilenceCounted'
  BY DEF Flags, Unstarted, SilenceCounted
<1> QED
  BY <1>1, <1>2, <1>3, <1>4, <1>5 DEF OneToken

\* The scheduled issue lands on a compositor that holds nothing.
LEMMA NextFrameInv == Inv /\ NextFrame => Inv'
<1> SUFFICES ASSUME Inv, NextFrame PROVE Inv'
  OBVIOUS
<1> USE TypeParts DEF NextFrame, IssueOneBeginFrame, IssueExternalBeginFrame,
        Abandoned, Inv, NoDoubleIssue, OneChain, driverVars, deathVars, vizVars,
        Callbacks, Current, Stale, Nothing, Held
<1>1. TypeOK'
  <2>1. Flags'
    BY DEF Flags
  <2>2. Counts'
    BY DEF Counts
  <2>3. Holders'
    BY DEF Holders
  <2> QED
    BY <2>1, <2>2, <2>3
<1>2. NoDoubleIssue'
  BY DEF OneToken, Unstarted
<1>3. OneToken'
  BY DEF Flags, Holders, OneToken, Unstarted
<1>4. WatchdogPatient'
  BY DEF Flags, Counts, Holders, OneToken, WatchdogPatient, Unstarted
<1>5. Unstarted' /\ SilenceCounted'
  BY DEF Flags, Unstarted, SilenceCounted
<1> QED
  BY <1>1, <1>2, <1>3, <1>4, <1>5 DEF OneToken

\* The nudge draws; it issues nothing.
LEMMA OnReconfigureNudgeInv == Inv /\ OnReconfigureNudge => Inv'
<1> SUFFICES ASSUME Inv, OnReconfigureNudge PROVE Inv'
  OBVIOUS
<1> USE TypeParts DEF OnReconfigureNudge, Inv, NoDoubleIssue, OneChain, driverVars,
        deathVars, vizVars, Callbacks, Current, Stale, Nothing, Held
<1>1. TypeOK'
  <2>1. Flags'
    BY DEF Flags
  <2>2. Counts'
    BY DEF Counts
  <2>3. Holders'
    BY DEF Holders
  <2> QED
    BY <2>1, <2>2, <2>3
<1>2. NoDoubleIssue'
  BY DEF OneToken, Unstarted
<1>3. OneToken'
  BY DEF Flags, Holders, OneToken, Unstarted
<1>4. WatchdogPatient'
  BY DEF Flags, Counts, Holders, OneToken, WatchdogPatient, Unstarted
<1>5. Unstarted' /\ SilenceCounted'
  BY DEF Flags, Unstarted, SilenceCounted
<1> QED
  BY <1>1, <1>2, <1>3, <1>4, <1>5 DEF OneToken

\* The stashed frame moves to viz.
LEMMA BindInv == Inv /\ Bind => Inv'
<1> SUFFICES ASSUME Inv, Bind PROVE Inv'
  OBVIOUS
<1> USE TypeParts DEF Bind, Inv, NoDoubleIssue, OneChain, driverVars, deathVars,
        vizVars, Callbacks, Current, Stale, Nothing, Held
<1>1. TypeOK'
  <2>1. Flags'
    BY DEF Flags
  <2>2. Counts'
    BY DEF Counts
  <2>3. Holders'
    BY DEF Holders
  <2> QED
    BY <2>1, <2>2, <2>3
<1>2. NoDoubleIssue'
  BY DEF OneToken, Unstarted
<1>3. OneToken'
  BY DEF Flags, Holders, OneToken, Unstarted
<1>4. WatchdogPatient'
  BY DEF Flags, Counts, Holders, OneToken, WatchdogPatient, Unstarted
<1>5. Unstarted' /\ SilenceCounted'
  BY DEF Flags, Unstarted, SilenceCounted
<1> QED
  BY <1>1, <1>2, <1>3, <1>4, <1>5 DEF OneToken

\* The frame that is out moves back to the stash, or is lost.
LEMMA UnbindInv == Inv /\ Unbind => Inv'
<1> SUFFICES ASSUME Inv, Unbind PROVE Inv'
  OBVIOUS
<1> USE TypeParts DEF Unbind, Inv, NoDoubleIssue, OneChain, driverVars, deathVars,
        vizVars, Callbacks, Current, Stale, Nothing, Held
<1>1. TypeOK'
  <2>1. Flags'
    BY DEF Flags
  <2>2. Counts'
    BY DEF Counts
  <2>3. Holders'
    BY DEF Holders
  <2> QED
    BY <2>1, <2>2, <2>3
<1>2. NoDoubleIssue'
  BY DEF OneToken, Unstarted
<1>3. OneToken'
  BY DEF Flags, Holders, OneToken, Unstarted
<1>4. WatchdogPatient'
  BY DEF Flags, Counts, Holders, OneToken, WatchdogPatient, Unstarted
<1>5. Unstarted' /\ SilenceCounted'
  BY DEF Flags, Unstarted, SilenceCounted
<1> QED
  BY <1>1, <1>2, <1>3, <1>4, <1>5 DEF OneToken

\* viz lets go of the frame, which may still answer.
LEMMA LetGoInv == Inv /\ LetGo => Inv'
<1> SUFFICES ASSUME Inv, LetGo PROVE Inv'
  OBVIOUS
<1> USE TypeParts DEF LetGo, Inv, NoDoubleIssue, OneChain, driverVars, deathVars,
        vizVars, Callbacks, Current, Stale, Nothing, Held
<1>1. TypeOK'
  <2>1. Flags'
    BY DEF Flags
  <2>2. Counts'
    BY DEF Counts
  <2>3. Holders'
    BY DEF Holders
  <2> QED
    BY <2>1, <2>2, <2>3
<1>2. NoDoubleIssue'
  BY DEF OneToken, Unstarted
<1>3. OneToken'
  BY DEF Flags, Holders, OneToken, Unstarted
<1>4. WatchdogPatient'
  BY DEF Flags, Counts, Holders, OneToken, WatchdogPatient, Unstarted
<1>5. Unstarted' /\ SilenceCounted'
  BY DEF Flags, Unstarted, SilenceCounted
<1> QED
  BY <1>1, <1>2, <1>3, <1>4, <1>5 DEF OneToken

\* A step that leaves the driver and viz alone can only disturb what is said of the
\* counters of silence.
LEMMA LoopKept ==
    ASSUME Inv, UNCHANGED <<driverVars, vizVars>>, TypeOK', SilenceCounted'
    PROVE  Inv'
  BY DEF Inv, NoDoubleIssue, OneChain, OneToken, WatchdogPatient, Unstarted, Held,
     driverVars, vizVars

\* Setting the sources touches neither the loop nor the counter.
LEMMA SetDiagnosticSourcesInv == Inv /\ SetDiagnosticSources => Inv'
<1> SUFFICES ASSUME Inv, SetDiagnosticSources PROVE Inv'
  OBVIOUS
<1> USE TypeParts DEF SetDiagnosticSources, Inv, OneChain, driverVars, vizVars
<1>1. TypeOK'
  <2>1. Flags'
    BY DEF Flags
  <2>2. Counts'
    BY DEF Counts
  <2>3. Holders'
    BY DEF Holders
  <2> QED
    BY <2>1, <2>2, <2>3
<1>2. SilenceCounted'
  BY DEF Flags, Counts, SilenceCounted
<1> QED
  BY <1>1, <1>2, LoopKept

\* Arming the signal touches neither the loop nor the counter.
LEMMA SetPermanentDeathCallbackInv == Inv /\ SetPermanentDeathCallback => Inv'
<1> SUFFICES ASSUME Inv, SetPermanentDeathCallback PROVE Inv'
  OBVIOUS
<1> USE TypeParts DEF SetPermanentDeathCallback, Inv, OneChain, driverVars, vizVars
<1>1. TypeOK'
  <2>1. Flags'
    BY DEF Flags
  <2>2. Counts'
    BY DEF Counts
  <2>3. Holders'
    BY DEF Holders
  <2> QED
    BY <2>1, <2>2, <2>3
<1>2. SilenceCounted'
  BY DEF Flags, Counts, SilenceCounted
<1> QED
  BY <1>1, <1>2, LoopKept

\* A frame ends the silence.
LEMMA FrameReceivedInv == Inv /\ FrameReceived => Inv'
<1> SUFFICES ASSUME Inv, FrameReceived PROVE Inv'
  OBVIOUS
<1> USE TypeParts DEF FrameReceived, Inv, OneChain, driverVars, vizVars
<1>1. TypeOK'
  <2>1. Flags'
    BY DEF Flags
  <2>2. Counts'
    BY DEF Counts
  <2>3. Holders'
    BY DEF Holders
  <2> QED
    BY <2>1, <2>2, <2>3
<1>2. SilenceCounted'
  BY DEF Flags, Counts, SilenceCounted
<1> QED
  BY <1>1, <1>2, LoopKept

\* A report counts the silence in step with the history.
LEMMA EmitDiagnosticInv == Inv /\ EmitDiagnostic => Inv'
<1> SUFFICES ASSUME Inv, EmitDiagnostic PROVE Inv'
  OBVIOUS
<1> USE TypeParts DEF EmitDiagnostic, ZeroTicks, AtMost, Inv, OneChain, driverVars,
        vizVars
<1>1. TypeOK'
  <2>1. Flags'
    BY DEF Flags
  <2>2. Counts'
    BY DEF Counts
  <2>3. Holders'
    BY DEF Holders
  <2> QED
    BY <2>1, <2>2, <2>3
<1>2. SilenceCounted'
  BY DEF Flags, Counts, SilenceCounted
<1> QED
  BY <1>1, <1>2, LoopKept

\* OnBeginFrameAck preserves the invariant, whether the callback came from viz
\* (which then holds nothing) or late (which is then forgotten): it is either of an
\* abandoned epoch, or it was the only frame of this one.
LEMMA AckInv ==
    ASSUME Inv, NEW cb \in Callbacks, running, OnBeginFrameAck(cb), UNCHANGED deathVars,
           \/ /\ bound /\ pending = cb /\ ~undamaged
              /\ pending' = Nothing /\ late' = late
           \/ /\ cb \in late
              /\ pending' = pending /\ late' = late \ {cb}
    PROVE  Inv'
<1> USE TypeParts DEF Inv, NoDoubleIssue, OneChain, driverVars, deathVars, Callbacks,
        Current, Stale, Nothing, Held
<1>1. CASE ~AckOfThisEpoch(cb)
  <2>1. cb = Stale /\ cb \in late /\ pending' = pending /\ late' = late \ {cb}
    BY <1>1 DEF AckOfThisEpoch, OneToken
  <2>2. UNCHANGED <<driverVars, bound, stash, undamaged, slow, aborted>>
    BY <1>1 DEF OnBeginFrameAck
  <2>3. TypeOK'
    <3>1. Flags'
      BY <2>1, <2>2 DEF Flags
    <3>2. Counts'
      BY <2>1, <2>2 DEF Counts
    <3>3. Holders'
      BY <2>1, <2>2 DEF Holders
    <3> QED
      BY <3>1, <3>2, <3>3
  <2>4. OneToken'
    BY <2>1, <2>2 DEF OneToken
  <2>5. WatchdogPatient' /\ Unstarted' /\ SilenceCounted'
    BY <2>1, <2>2 DEF WatchdogPatient, Unstarted, SilenceCounted
  <2> QED
    BY <2>2, <2>3, <2>4, <2>5 DEF OneToken
<1>2. CASE AckOfThisEpoch(cb)
  <2>1. /\ first_ack_received' = TRUE /\ awaiting_reconfigure_ack' = FALSE
        /\ reconfigure_nudge_timer' = (reconfigure_nudge_timer /\ ~awaiting_reconfigure_ack)
        /\ watchdog_fires_without_ack' = 0
        /\ stall_watchdog_timer' = FALSE /\ next_frame_timer' = TRUE
        /\ UNCHANGED <<running, destroyed, bound, stash, undamaged, slow, aborted>>
    BY <1>2 DEF OnBeginFrameAck
  <2>2. cb = Current /\ ~Held' /\ Current \notin late'
    BY <1>2, <2>1 DEF AckOfThisEpoch, OneToken, Holders
  <2>3. ~undamaged
    BY <2>2 DEF OneToken, WatchdogPatient, Holders
  <2>4. TypeOK'
    <3>1. Flags'
      BY <2>1 DEF Flags
    <3>2. Counts'
      BY <2>1 DEF Counts
    <3>3. Holders'
      BY <2>1 DEF Holders
    <3> QED
      BY <3>1, <3>2, <3>3
  <2>5. OneToken'
    BY <2>1, <2>2 DEF OneToken
  <2>6. WatchdogPatient' /\ Unstarted' /\ SilenceCounted'
    BY <2>1, <2>2, <2>3 DEF WatchdogPatient, Unstarted, SilenceCounted
  <2> QED
    BY <2>1, <2>4, <2>5, <2>6 DEF OneToken
<1> QED
  BY <1>1, <1>2

\* OnStallWatchdog: while it waits, the held frame's periods grow with the count;
\* when it gives up, nothing is held that the new issue could collide with.
LEMMA OnStallWatchdogInv == Inv /\ OnStallWatchdog => Inv'
<1> SUFFICES ASSUME Inv, OnStallWatchdog PROVE Inv'
  OBVIOUS
<1> USE TypeParts DEF Inv, NoDoubleIssue, OneChain, deathVars, Callbacks, Current, Stale,
        Nothing, Held
<1>0. /\ running /\ stall_watchdog_timer
      /\ Held /\ first_ack_received /\ ~undamaged => slow < SlowestAnswer
      /\ UNCHANGED <<running, destroyed, first_ack_received, awaiting_reconfigure_ack,
                     reconfigure_nudge_timer, deathVars>>
  BY DEF OnStallWatchdog
<1>1. CASE MustWait
  <2>1. /\ watchdog_fires_without_ack' = AtMost(watchdog_fires_without_ack + 1, Fires - 1)
        /\ slow' = AtMost(slow + 1, SlowestAnswer)
        /\ UNCHANGED <<next_frame_timer, stall_watchdog_timer,
                       bound, stash, pending, late, undamaged, aborted>>
    BY <1>1 DEF OnStallWatchdog
  <2>2. TypeOK'
    <3>1. Flags'
      BY <1>0, <2>1 DEF Flags
    <3>2. Counts'
      BY <1>0, <2>1 DEF Counts, AtMost
    <3>3. Holders'
      BY <2>1 DEF Holders
    <3> QED
      BY <3>1, <3>2, <3>3
  <2>3. OneToken'
    BY <2>1 DEF OneToken
  <2>4. WatchdogPatient'
    <3>1. ~next_frame_timer
      BY <1>0 DEF WatchdogPatient
    <3>2. ASSUME Held, first_ack_received, ~awaiting_reconfigure_ack
          PROVE  watchdog_fires_without_ack' <= slow'
      <4>1. slow < SlowestAnswer /\ watchdog_fires_without_ack <= slow
        BY <1>0, <3>2 DEF WatchdogPatient
      <4> QED
        BY <2>1, <4>1 DEF AtMost, Counts
    <3> QED
      BY <1>0, <2>1, <3>1, <3>2 DEF WatchdogPatient
  <2>5. Unstarted' /\ SilenceCounted'
    BY <1>0, <2>1 DEF Unstarted, SilenceCounted
  <2> QED
    BY <2>1, <2>2, <2>3, <2>4, <2>5 DEF OneToken
<1>2. CASE ~MustWait
  <2>1. /\ watchdog_fires_without_ack' = 0
        /\ next_frame_timer' = FALSE
        /\ IssueOneBeginFrame(TRUE)
    BY <1>2 DEF OnStallWatchdog
  <2>2. ~Held
    <3>1. /\ ~awaiting_reconfigure_ack /\ first_ack_received
          /\ watchdog_fires_without_ack = Fires - 1
      BY <1>2 DEF MustWait, Counts
    <3>2. ~undamaged
      BY <1>0, <3>1 DEF WatchdogPatient
    <3> QED
      BY <1>0, <3>1, <3>2 DEF WatchdogPatient, Counts
  <2>3. /\ aborted' = aborted /\ undamaged' = FALSE /\ slow' = 0 /\ bound' = bound
        /\ stall_watchdog_timer' = TRUE
        /\ pending' = (IF bound THEN Current ELSE Nothing)
        /\ stash' = (IF bound THEN Nothing ELSE Current)
        /\ late' \subseteq {Stale}
    BY <2>1, <2>2 DEF IssueOneBeginFrame, IssueExternalBeginFrame, Abandoned, Flags, Holders
  <2>4. TypeOK'
    <3>1. Flags'
      BY <1>0, <2>1, <2>3 DEF Flags
    <3>2. Counts'
      BY <1>0, <2>1, <2>3 DEF Counts
    <3>3. Holders'
      BY <2>3 DEF Holders
    <3> QED
      BY <3>1, <3>2, <3>3
  <2>5. OneToken'
    BY <2>1, <2>3 DEF OneToken
  <2>6. WatchdogPatient' /\ Unstarted' /\ SilenceCounted'
    BY <1>0, <2>1, <2>3 DEF WatchdogPatient, Unstarted, SilenceCounted
  <2> QED
    BY <2>1, <2>3, <2>4, <2>5, <2>6 DEF OneToken
<1> QED
  BY <1>1, <1>2

\* A driver that was just built satisfies the invariant.
LEMMA InitInv == Init => Inv
<1> SUFFICES ASSUME Init PROVE Inv
  OBVIOUS
<1> USE TypeParts DEF Init, Callbacks, Current, Stale, Nothing, Held
<1>1. TypeOK
  <2>1. Flags
    BY DEF Flags
  <2>2. Counts
    BY DEF Counts
  <2>3. Holders
    BY DEF Holders
  <2> QED
    BY <2>1, <2>2, <2>3
<1>2. NoDoubleIssue /\ OneToken /\ WatchdogPatient /\ Unstarted /\ SilenceCounted
  BY DEF NoDoubleIssue, OneToken, WatchdogPatient, Unstarted, SilenceCounted
<1> QED
  BY <1>1, <1>2 DEF Inv, OneChain

\* Every step preserves the invariant.
LEMMA StepInv == Inv /\ [Next]_vars => Inv'
<1> SUFFICES ASSUME Inv, [Next]_vars PROVE Inv'
  OBVIOUS
<1>1. CASE Start \/ Stop \/ NotifyDisplayReconfigured \/ Timers
  BY <1>1, StartInv, StopInv, NotifyDisplayReconfiguredInv, NextFrameInv,
     OnStallWatchdogInv, OnReconfigureNudgeInv DEF Timers
<1>2. CASE Bind \/ Unbind \/ LetGo
  BY <1>2, BindInv, UnbindInv, LetGoInv
<1>3. CASE Ack
  <2>1. pending \in Callbacks /\ bound /\ running /\ ~undamaged
    BY <1>3 DEF Ack, Inv, OneChain, TypeOK
  <2> QED
    BY <1>3, <2>1, AckInv DEF Ack
<1>4. CASE \E cb \in Callbacks : LateAck(cb)
  BY <1>4, AckInv DEF LateAck
<1>5. CASE SetDiagnosticSources \/ SetPermanentDeathCallback \/ FrameReceived \/ EmitDiagnostic
  BY <1>5, SetDiagnosticSourcesInv, SetPermanentDeathCallbackInv, FrameReceivedInv,
     EmitDiagnosticInv
<1>6. CASE UNCHANGED vars
  <2>1. TypeOK'
    BY <1>6 DEF vars, driverVars, deathVars, vizVars, Inv, OneChain, TypeOK
  <2> QED
    BY <1>6, <2>1 DEF vars, driverVars, deathVars, vizVars, Inv, NoDoubleIssue, OneChain,
     OneToken, WatchdogPatient, Unstarted, SilenceCounted, Held
<1> QED
  BY <1>1, <1>2, <1>3, <1>4, <1>5, <1>6 DEF Next, Viz

\* The invariant holds in every state of every behaviour.
THEOREM Invariance == Spec => []Inv
  BY InitInv, StepInv, PTL DEF Spec

\* NoDoubleIssue: whatever the thresholds are, as long as viz answers a held frame
\* before the watchdog's last fire, no issue lands on a frame that is still held.
THEOREM PacingNoDoubleIssue == Spec => []NoDoubleIssue
  BY Invariance, PTL DEF Inv

\* OneChain: no late ack starts a second loop, and a stopped driver has no timer.
THEOREM PacingOneChain == Spec => []OneChain
  BY Invariance, PTL DEF Inv

\* A death that is signaled now was preceded by Ticks silent reports.
LEMMA DeathStep ==
    Inv /\ [Next]_vars =>
      [permanent_death_signaled' # permanent_death_signaled
         => permanent_death_signaled' /\ silent' = Ticks]_vars
<1> SUFFICES ASSUME Inv, Next, permanent_death_signaled' # permanent_death_signaled
             PROVE  permanent_death_signaled' /\ silent' = Ticks
  BY DEF vars, deathVars
<1>1. EmitDiagnostic
  BY DEF Next, Timers, Viz, Start, Stop, NotifyDisplayReconfigured, NextFrame,
     OnStallWatchdog, OnReconfigureNudge, Bind, Unbind, Ack, LetGo, LateAck,
     SetDiagnosticSources, SetPermanentDeathCallback, FrameReceived, deathVars
<1>2. /\ diag_capturer /\ on_permanent_death /\ consecutive_zero_production_ticks' = Ticks
      /\ permanent_death_signaled'
  BY <1>1 DEF EmitDiagnostic, Inv, OneChain, TypeOK
<1>3. /\ ~produced
      /\ Ticks = AtMost(consecutive_zero_production_ticks + 1, Ticks)
      /\ silent' = AtMost(silent + 1, Ticks)
  BY <1>1, <1>2 DEF EmitDiagnostic, ZeroTicks
<1>4. /\ consecutive_zero_production_ticks <= silent
      /\ consecutive_zero_production_ticks \in 0..Ticks /\ silent \in 0..Ticks
  BY <1>3 DEF Inv, OneChain, TypeOK, SilenceCounted
<1> QED
  BY <1>2, <1>3, <1>4 DEF AtMost

\* DeathIsEarned: permanent death is signaled only after Ticks reports in a row of
\* an armed session without a frame, for every Ticks.
THEOREM PacingDeathIsEarned == Spec => DeathIsEarned
<1>1. Inv /\ [Next]_vars =>
        [permanent_death_signaled' # permanent_death_signaled
           => permanent_death_signaled' /\ silent' = Ticks]_vars
  BY DeathStep
<1> QED
  BY <1>1, Invariance, PTL DEF Spec, DeathIsEarned
=============================================================================
