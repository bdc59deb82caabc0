---------------------------- MODULE MCSession ----------------------------
(* Small sessions of Session for TLC. *)
EXTENDS Session

Dashboard == {[live |-> TRUE, shadow |-> FALSE, tui |-> TRUE]}
LiveModes == {m \in Mode : m.live /\ ~m.shadow}
EveryMode == {m \in Mode : m.shadow => m.live}
=============================================================================
