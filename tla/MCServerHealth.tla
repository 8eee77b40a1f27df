----------------------------- MODULE MCServerHealth ----------------------------
(* Connections of one pool, or one connection each of two pools, with the  *)
(* configuration and the signal goroutine.                                 *)
EXTENDS ServerHealth

CONSTANTS c1, c2, main, perSecond

TwoConns == {c1, c2}
OnePool == {main}
TwoPools == {main, perSecond}
InMain == [c \in Conn |-> main]
OneEach == [c \in Conn |-> IF c = c1 THEN main ELSE perSecond]
TwoConnThreads == TwoConns \cup {ConfigThread, SigtermThread}
================================================================================
