----------------------------- MODULE MCCapture -----------------------------
(* The requests to start a session that the run tries. *)
EXTENDS Capture

Documents ==
    {[form |-> "list", entries |-> {{"turn"}, {""}}],
     [form |-> "wrapped", entries |-> {{"", "stun"}, {"turn"}}],
     [form |-> "list", entries |-> {{""}}],
     [form |-> "neither", entries |-> {}]}

\* The requests tried: each way of writing the TLS flag, each kind of document,
\* an unknown key, a missing host, a token, host and policy of the wrong type.
MCRequests ==
    {[PlainRequest EXCEPT !.signalingUseTls = a, !.useTls = b] :
        a \in Booleans \cup {Absent, Mistyped}, b \in {"false", Mistyped}}
    \cup {[PlainRequest EXCEPT !.iceServers = d, !.iceTransportPolicy = "RELAY"] :
            d \in Documents}
    \cup {[PlainRequest EXCEPT !.keys = {"signalingTls"}],
          [PlainRequest EXCEPT !.signalingHost = Absent],
          [PlainRequest EXCEPT !.signalingHost = Mistyped],
          [PlainRequest EXCEPT !.signalingToken = "t", !.iceTransportPolicy = Mistyped],
          [PlainRequest EXCEPT !.signalingToken = Mistyped, !.iceTransportPolicy = "all"]}

=============================================================================
