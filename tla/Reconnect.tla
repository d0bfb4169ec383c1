----------------------------- MODULE Reconnect -----------------------------
(***************************************************************************)
(* The worker's signaling channel: CbSignalingReconnect                    *)
(* (capture/signaling/cb_signaling_reconnect.cc) around one                *)
(* SignalingWsClient at a time (cb_signaling_ws_client.cc, its lifecycle;  *)
(* WsInbound has its receive path).                                        *)
(*                                                                         *)
(* Everything runs on the UI thread.  One action is one entry into the     *)
(* wrapper: a call of the consumer, a timer, or a callback of the network  *)
(* service on the inner client, with all it calls up to its return.        *)
(***************************************************************************)
EXTENDS Naturals

CONSTANTS
    InitialBackoff, MaxBackoff, Multiplier, MaxAttempts     \* ReconnectConfig

ASSUME BackoffAssumption ==
    /\ InitialBackoff \in Nat \ {0} /\ Multiplier \in Nat \ {0}
    /\ MaxBackoff \in Nat /\ InitialBackoff <= MaxBackoff
ASSUME AttemptsAssumption == MaxAttempts \in Nat

VARIABLES
    state,                  \* state_
    idle_timeout,           \* ReconnectConfig: is it non-zero?
    disconnect_requested,
    attempts_made,
    current_backoff,
    backoff_timer,          \* the pending delay, 0: not running
    idle_timer,             \* running?
    inner,                  \* state_ of *inner_, or "none"
    failures                \* history: deaths since the last OnConnected

vars == <<state, idle_timeout, disconnect_requested, attempts_made, current_backoff,
          backoff_timer, idle_timer, inner, failures>>

\* A destroyed wrapper is "gone".
States == {"kIdle", "kConnecting", "kOpen", "kBackingOff", "kReconnecting",
           "kGaveUp", "kClosed", "gone"}

TypeOK ==
    /\ state \in States
    /\ idle_timeout \in BOOLEAN
    /\ disconnect_requested \in BOOLEAN
    /\ attempts_made \in 0..MaxAttempts
    /\ current_backoff \in 1..MaxBackoff
    /\ backoff_timer \in 0..MaxBackoff
    /\ idle_timer \in BOOLEAN
    /\ inner \in {"none", "kConnecting", "kOpen", "kClosing"}
    /\ failures \in Nat

Init ==
    /\ state = "kIdle"
    /\ idle_timeout \in BOOLEAN
    /\ disconnect_requested = FALSE
    /\ attempts_made = 0
    /\ current_backoff = InitialBackoff
    /\ backoff_timer = 0
    /\ idle_timer = FALSE
    /\ inner = "none"
    /\ failures = 0

-----------------------------------------------------------------------------

Lesser(a, b) == IF a <= b THEN a ELSE b

\* Seeded fault: one attempt more than max_attempts.
ExhaustedLate(attempts) == MaxAttempts = 0 \/ attempts > MaxAttempts

\* HandleChannelDead gives up when the attempts are used up.
Exhausted(attempts) == MaxAttempts = 0 \/ attempts >= MaxAttempts

\* The delay of the next attempt: NextBackoff().
NextBackoff(backoff) == Lesser(backoff, MaxBackoff)

\* Seeded fault: after a redial failed, the timer is not started again.
HandleChannelDeadOnce ==
    /\ inner' = "none"
    /\ failures' = failures + 1
    /\ \/ /\ Exhausted(attempts_made)
          /\ state' = "kGaveUp"
          /\ UNCHANGED <<backoff_timer, current_backoff>>
       \/ /\ ~Exhausted(attempts_made)
          /\ state' = "kBackingOff"
          /\ backoff_timer' = IF attempts_made = 0 THEN NextBackoff(current_backoff)
                                                  ELSE backoff_timer
          /\ current_backoff' = Lesser(current_backoff * Multiplier, MaxBackoff)

\* HandleChannelDead: the inner client is released, and a redial is scheduled
\* or OnGaveUp fires.
HandleChannelDead ==
    /\ inner' = "none"
    /\ failures' = failures + 1
    /\ \/ /\ Exhausted(attempts_made)
          /\ state' = "kGaveUp"
          /\ UNCHANGED <<backoff_timer, current_backoff>>
       \/ /\ ~Exhausted(attempts_made)
          /\ state' = "kBackingOff"
          /\ backoff_timer' = NextBackoff(current_backoff)
          /\ current_backoff' = Lesser(current_backoff * Multiplier, MaxBackoff)

\* StartInnerDial: a fresh inner client dials.  (A URL that is not valid fails
\* within its Connect(): OnFailure at once.)
StartInnerDial == inner' = "kConnecting"

(***************************************************************************)
(* The consumer's calls.                                                   *)
(***************************************************************************)

Connect ==
    /\ state = "kIdle"
    /\ state' = "kConnecting"
    /\ attempts_made' = 0
    /\ current_backoff' = InitialBackoff
    /\ StartInnerDial
    /\ UNCHANGED <<idle_timeout, disconnect_requested, backoff_timer, idle_timer, failures>>

\* Seeded fault: a pending redial is left to fire.
DisconnectKeepsTimer ==
    /\ state \notin {"kClosed", "kGaveUp", "gone"}
    /\ disconnect_requested' = TRUE
    /\ idle_timer' = FALSE
    /\ \/ /\ inner \in {"kOpen", "kClosing"}
          /\ inner' = "kClosing"
          /\ UNCHANGED state
       \/ /\ inner \notin {"kOpen", "kClosing"}
          /\ state' = "kClosed"
          /\ UNCHANGED inner
    /\ UNCHANGED <<idle_timeout, attempts_made, current_backoff, backoff_timer, failures>>

\* An inner client that is open or closing closes politely and reports later;
\* otherwise the wrapper reports OnClosed at once, whatever inner_ is doing.
Disconnect ==
    /\ state \notin {"kClosed", "kGaveUp", "gone"}
    /\ disconnect_requested' = TRUE
    /\ backoff_timer' = 0
    /\ idle_timer' = FALSE
    /\ \/ /\ inner \in {"kOpen", "kClosing"}
          /\ inner' = "kClosing"
          /\ UNCHANGED state
       \/ /\ inner \notin {"kOpen", "kClosing"}
          /\ state' = "kClosed"
          /\ UNCHANGED inner
    /\ UNCHANGED <<idle_timeout, attempts_made, current_backoff, failures>>

\* The inner client's FailWithError: it reports OnError, which stops the idle
\* timer and goes to HandleChannelDead, disconnect_requested_ or not.
OnError ==
    /\ idle_timer' = FALSE
    /\ HandleChannelDead
    /\ UNCHANGED <<idle_timeout, disconnect_requested, attempts_made>>

\* Send() into a writable pipe that is full or gone.
SendFails ==
    /\ state = "kOpen" /\ inner = "kOpen"
    /\ OnError

(***************************************************************************)
(* The network service's callbacks on the inner client.                    *)
(***************************************************************************)

OnConnectionEstablished ==
    /\ inner = "kConnecting"
    /\ inner' = "kOpen"
    /\ state' = "kOpen"
    /\ attempts_made' = 0
    /\ current_backoff' = InitialBackoff
    /\ idle_timer' = idle_timeout
    /\ failures' = 0
    /\ UNCHANGED <<idle_timeout, disconnect_requested, backoff_timer>>

\* OnFailure: the dial was refused.
OnFailure ==
    /\ inner = "kConnecting"
    /\ OnError

\* A whole envelope arrives: the idle timer is armed anew.
OnEnvelope ==
    /\ inner = "kOpen"
    /\ idle_timer' = idle_timeout
    /\ UNCHANGED <<state, idle_timeout, disconnect_requested, attempts_made,
                   current_backoff, backoff_timer, inner, failures>>

\* A frame out of sequence or one the codec refuses.
InboundError ==
    /\ inner = "kOpen"
    /\ OnError

\* OnClosingHandshake: the broker starts to close.
OnClosingHandshake ==
    /\ inner = "kOpen"
    /\ inner' = "kClosing"
    /\ UNCHANGED <<state, idle_timeout, disconnect_requested, attempts_made,
                   current_backoff, backoff_timer, idle_timer, failures>>

\* Seeded fault: a clean remote close is taken for the consumer's own.
OnDropChannelClean(clean) ==
    /\ inner \in {"kOpen", "kClosing"}
    /\ \/ /\ clean \/ disconnect_requested
          /\ idle_timer' = FALSE
          /\ inner' = "none"
          /\ state' = "kClosed"
          /\ UNCHANGED <<idle_timeout, disconnect_requested, attempts_made, current_backoff,
                         backoff_timer, failures>>
       \/ /\ ~clean /\ ~disconnect_requested
          /\ OnError

\* OnDropChannel: an unclean drop of an open channel is OnError; anything else
\* is OnClosed, which is terminal only if the consumer asked for it.  (The
\* closed inner client that a terminal OnClosed keeps is as good as none.)
OnDropChannel(clean) ==
    /\ inner \in {"kOpen", "kClosing"}
    /\ LET closed == clean \/ inner = "kClosing"
       IN  \/ /\ closed /\ (state = "kClosed" \/ disconnect_requested)
              /\ idle_timer' = FALSE
              /\ inner' = "none"
              /\ state' = "kClosed"
              /\ UNCHANGED <<idle_timeout, disconnect_requested, attempts_made,
                             current_backoff, backoff_timer, failures>>
           \/ /\ ~(closed /\ (state = "kClosed" \/ disconnect_requested))
              /\ OnError

(***************************************************************************)
(* The timers.                                                             *)
(***************************************************************************)

\* A redial: the attempt is counted when it is made.  (Disconnect() stops the
\* timer, so the state is kBackingOff whenever it fires: OneChannel.)
OnBackoffFired ==
    /\ backoff_timer > 0
    /\ state = "kBackingOff"
    /\ backoff_timer' = 0
    /\ attempts_made' = attempts_made + 1
    /\ state' = "kReconnecting"
    /\ StartInnerDial
    /\ UNCHANGED <<idle_timeout, disconnect_requested, current_backoff, idle_timer,
                   failures>>

\* No envelope for idle_timeout: the channel is taken for dead, without a
\* close frame.
OnIdleFired ==
    /\ idle_timer
    /\ state = "kOpen"
    /\ idle_timer' = FALSE
    /\ HandleChannelDead
    /\ UNCHANGED <<idle_timeout, disconnect_requested, attempts_made>>

-----------------------------------------------------------------------------

\* The wrapper is destroyed: TearDown drops the timers and the inner client
\* without a word, and no weak pointer to it survives.
TearDown ==
    /\ state # "gone"
    /\ backoff_timer' = 0
    /\ idle_timer' = FALSE
    /\ inner' = "none"
    /\ state' = "gone"
    /\ UNCHANGED <<idle_timeout, disconnect_requested, attempts_made, current_backoff,
                   failures>>

\* OnGaveUp, the consumer's own close or its owner has ended it all.
Over ==
    /\ state \in {"kGaveUp", "kClosed", "gone"} /\ inner = "none"
    /\ UNCHANGED vars

Next ==
    \/ Connect \/ Disconnect \/ SendFails
    \/ OnConnectionEstablished \/ OnFailure \/ OnEnvelope \/ InboundError
    \/ OnClosingHandshake \/ \E clean \in BOOLEAN : OnDropChannel(clean)
    \/ OnBackoffFired \/ OnIdleFired
    \/ TearDown \/ Over

Spec == Init /\ [][Next]_vars

\* Timers fire, and the network service answers every dial.
FairSpec ==
    /\ Spec
    /\ WF_vars(OnBackoffFired)
    /\ WF_vars(OnConnectionEstablished \/ OnFailure)

-----------------------------------------------------------------------------
(***************************************************************************)
(* Properties.                                                             *)
(***************************************************************************)

\* One channel at a time: a redial is never pending next to a live or dialing
\* inner client, and the idle timer never outlives the open channel it watches.
OneChannel ==
    /\ backoff_timer > 0 => state = "kBackingOff" /\ inner = "none"
    /\ idle_timer => state = "kOpen" /\ inner \in {"kOpen", "kClosing"}

\* The wrapper is never stranded: in each state that is not terminal something
\* is under way that will bring the next callback.
NeverStranded ==
    /\ state \in {"kConnecting", "kReconnecting"} => inner = "kConnecting"
    /\ state = "kBackingOff" => backoff_timer > 0
    /\ state = "kOpen" =>
          /\ inner \in {"kOpen", "kClosing"}
          /\ idle_timeout => idle_timer \/ disconnect_requested

\* OnGaveUp means max_attempts redials failed in a row after the death that
\* started them, no more and no fewer; a connect in between starts over.
GivesUpExactly ==
    /\ state = "kGaveUp" => failures = MaxAttempts + 1
    /\ state = "kBackingOff" => failures = attempts_made + 1
    /\ inner = "kConnecting" => failures = attempts_made

\* CV2-REDIAL: a close that the consumer did not ask for, of whatever code,
\* never parks the worker in kClosed.
ClosedByConsumer == state = "kClosed" => disconnect_requested

\* A dead channel is recovered or given up; it does not stay in between.
Settles ==
    state \in {"kBackingOff", "kReconnecting"}
        ~> state \in {"kOpen", "kGaveUp", "kClosed", "gone"}

=============================================================================
