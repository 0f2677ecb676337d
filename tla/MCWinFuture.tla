---------------------------- MODULE MCWinFuture ----------------------------
(* Two handle values and two waiter threads at a time.                     *)
EXTENDS WinFuture

CONSTANTS h1, h2, w1, w2
MCValues == {h1, h2}
MCWaiters == {w1, w2}
=============================================================================
