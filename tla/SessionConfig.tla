--------------------------- MODULE SessionConfig ---------------------------
(***************************************************************************)
(* How a native session's configuration is read: the parameters of         *)
(* Cb.startNativeSession (capture/build-integration/cb_devtools_agent.cc), *)
(* the ICE servers (capture/signaling/cb_ice_config.cc) and the environment*)
(* (capture/config/cb_env_config.cc).  Pure functions of their input.      *)
(*                                                                         *)
(* A URL is known by its scheme, "" when it is empty or not a string; a    *)
(* server's credentials go with its URLs and are left out; a JSON value is *)
(* known by its shape, Mistyped when it has not the type its reader wants. *)
(***************************************************************************)
EXTENDS Naturals, Sequences

\* A value that was not supplied (nullopt, nullptr), and one of another JSON
\* type than the parameter's.
Absent == "absent"
Mistyped == "mistyped"

-----------------------------------------------------------------------------
(***************************************************************************)
(* ICE servers.  An entry is the set of its URLs (one for a string, none   *)
(* for an entry without "urls"); a document is a set of entries, bare or   *)
(* wrapped in {"iceServers": ...}, or neither.  Sets, because nothing in   *)
(* the worker looks at the order of servers or at one that comes twice.    *)
(***************************************************************************)

\* TryAppendServer: an entry keeps its non-empty URLs, and is dropped when none
\* is left.
TryAppendServer(entries) == {entry \ {""} : entry \in entries} \ {{}}

\* ParseIceServersJson: {} (nullopt) when no usable server is left.
ParseIceServersJson(doc) ==
    IF doc.form \in {"list", "wrapped"} THEN TryAppendServer(doc.entries) ELSE {}

BuildDefaultIceServers == {{"stun"}}

\* ParseIceTransportPolicy: anything but "relay", in capitals or not, is kAll.
ParseIceTransportPolicy(raw) == IF raw \in {"relay", "RELAY"} THEN "relay" ELSE "all"

\* LoadIceConfigFromEnv: the environment's document, or the default.
LoadIceConfigFromEnv(doc, policy) ==
    LET parsed == ParseIceServersJson(doc)
    IN  [servers |-> IF parsed = {} THEN BuildDefaultIceServers ELSE parsed,
         policy |-> ParseIceTransportPolicy(policy)]

-----------------------------------------------------------------------------
(***************************************************************************)
(* Cb.startNativeSession.  A request is the record of its parameters, each *)
(* Absent when not supplied; keys holds a key nobody knows, or nothing.    *)
(***************************************************************************)

KnownParams == {"signalingHost", "signalingSessionId", "signalingToken", "signalingUseTls",
                "useTls", "iceServers", "iceTransportPolicy"}

Refused == [ok |-> FALSE]

Booleans == {"true", "false"}

\* base::Value's typed lookups find nothing where the value has another type.
FindBool(value) == IF value \in Booleans THEN value ELSE Absent
FindString(value) == IF value = Mistyped THEN Absent ELSE value

ValueOr(value, default) == IF value = Absent THEN default ELSE value

\* use_tls: the signaling-prefixed spelling wins, the default is true.
UseTls(req) ==
    ValueOr(FindBool(req.signalingUseTls), ValueOr(FindBool(req.useTls), "true"))

\* The configuration of a request that was not refused.
Config(req, servers) ==
    [ok |-> TRUE, use_tls |-> UseTls(req), servers |-> servers,
     token |-> ValueOr(FindString(req.signalingToken), ""),
     policy |-> ParseIceTransportPolicy(ValueOr(FindString(req.iceTransportPolicy), "all"))]

\* signalingHost and signalingSessionId are required.
Missing(value) == FindString(value) \in {Absent, ""}

\* Seeded fault: servers that cannot be used fall back to public STUN.
HandleStartNativeSessionLenient(req) ==
    IF ~(req.keys \subseteq KnownParams) \/ Missing(req.signalingHost)
    THEN Refused
    ELSE Config(req, LoadIceConfigFromEnv(req.iceServers, "all").servers)

\* HandleStartNativeSession: the configuration the session is started with, or
\* a refusal.
HandleStartNativeSession(req) ==
    LET ice == IF req.iceServers.form = Absent THEN BuildDefaultIceServers
               ELSE ParseIceServersJson(req.iceServers)
    IN  IF \/ ~(req.keys \subseteq KnownParams)
           \/ Missing(req.signalingHost) \/ Missing(req.signalingSessionId)
           \/ ice = {}
        THEN Refused
        ELSE Config(req, ice)

-----------------------------------------------------------------------------

NoDocument == [form |-> Absent, entries |-> {}]

\* The plain request: a host, a session, and the rest left to its default.
PlainRequest ==
    [keys |-> {}, signalingHost |-> "broker", signalingSessionId |-> "s",
     signalingToken |-> Absent, signalingUseTls |-> Absent, useTls |-> Absent,
     iceServers |-> NoDocument, iceTransportPolicy |-> Absent]

\* The servers are the ones of these entries: every entry that has a URL, and no
\* URL that was not given.
ServersOf(servers, entries) ==
    /\ \A server \in servers : \E entry \in entries : server # {} /\ server \subseteq entry
    /\ \A entry \in entries : \A url \in entry \ {""} :
          \E server \in servers : url \in server /\ entry \subseteq server \cup {""}

\* Is cfg what the caller asked for?  A value of the wrong type asks for
\* nothing, except in place of a required name or of the servers.
Honours(cfg, req) ==
    /\ req.keys \subseteq KnownParams
    /\ {Absent, Mistyped, ""} \intersect {req.signalingHost, req.signalingSessionId} = {}
    /\ req.signalingUseTls \in Booleans => cfg.use_tls = req.signalingUseTls
    /\ req.signalingUseTls \notin Booleans /\ req.useTls \in Booleans => cfg.use_tls = req.useTls
    /\ cfg.use_tls = "false" => "false" \in {req.signalingUseTls, req.useTls}
    /\ req.signalingToken \notin {Absent, Mistyped} => cfg.token = req.signalingToken
    /\ req.iceServers.form # Absent => ServersOf(cfg.servers, req.iceServers.entries)
    /\ cfg.policy = "relay" <=> req.iceTransportPolicy \in {"relay", "RELAY"}
=============================================================================
