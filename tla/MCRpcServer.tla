----------------------------- MODULE MCRpcServer -----------------------------
(***************************************************************************)
(* Instances of RpcServer: two WebSocket clients, of which the limit lets  *)
(* one or both in, and callers of shutdown and forceShutdown.              *)
(***************************************************************************)
EXTENDS RpcServer

CONSTANTS c1, c2, f1, s1, s2

TwoConns    == {c1, c2}
OneConn     == {c1}
OneForcer   == {f1}
OneStopper  == {s1}
TwoStoppers == {s1, s2}
=============================================================================
