----------------------------- MODULE MCEventLoop -----------------------------
(* EventLoop with packets of two bytes, for the safety run and the run of  *)
(* its liveness.                                                           *)
EXTENDS EventLoop, TLC

Symmetry == Permutations(Fds)
=============================================================================
