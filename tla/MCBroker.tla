------------------------------ MODULE MCBroker ------------------------------
(* Small instances of Broker: viewers dial as "client", workers as "browser". *)
EXTENDS Broker, TLC

CONSTANTS b1, c1, c2, c3, k1, k2

MCRoleOf == [c \in Conns |-> IF c = b1 THEN "browser" ELSE "client"]

\* c3 is a viewer of another tenant.
MCKeyOf == [c \in Conns |-> IF c = c3 THEN k2 ELSE k1]

Viewers == Permutations({c1, c2})
=============================================================================
