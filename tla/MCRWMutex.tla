------------------------------ MODULE MCRWMutex ------------------------------
(* The instance of RWMutex for TLC.  There is no symmetry set: the run checks *)
(* liveness.                                                                  *)
EXTENDS RWMutex
=============================================================================
