------------------------ MODULE MC_SshConnectionPool ------------------------
(* Two users and three connections to two servers for a pool of two, so     *)
(* that it fills up with a third connection waiting.  An age is 0 or past   *)
(* MaxIdle: the code only compares the two.                                 *)
EXTENDS SshConnectionPool
=============================================================================
