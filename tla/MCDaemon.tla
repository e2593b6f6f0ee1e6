------------------------------ MODULE MCDaemon ------------------------------
(* A day of five ticks, with one window over midnight and one of a single time. *)
EXTENDS Daemon

MCWindows == {<<4, 0>>, <<2, 2>>}
=============================================================================
