----------------------------- MODULE MCPushHub -----------------------------
(* A small instance of PushHub: a device that reconnects while requests    *)
(* notify it.                                                              *)
EXTENDS PushHub, TLC
CONSTANTS t1, c1, c2, r1, r2

\* One token with two connections; the sends of two requests fill the channel.
TwoTokenOf == c1 :> t1 @@ c2 :> t1
TwoRequests == r1 :> {t1} @@ r2 :> {t1}
=============================================================================
