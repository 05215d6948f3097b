------------------------------ MODULE MCRestart ------------------------------
(* One strategy on one market across restarts.                             *)
EXTENDS MCLive, LiveRestart
=============================================================================
