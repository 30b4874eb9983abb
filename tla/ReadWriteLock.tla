---------------------------- MODULE ReadWriteLock ----------------------------
(***************************************************************************)
(* What a reader-writer latch with writer priority promises, without any   *)
(* waiting: who holds it for reading, and which writer has claimed it.  A  *)
(* writer claims the latch first, which shuts out new readers and other    *)
(* writers, and holds it once the readers have left.                       *)
(***************************************************************************)
CONSTANT Threads

VARIABLES readers,   \* the threads that hold the latch for reading
          claimant,  \* {t} when writer t has claimed the latch, {} when none has
          held       \* TRUE iff the claimant holds the latch

vars == <<readers, claimant, held>>

Init == readers = {} /\ claimant = {} /\ held = FALSE

Share(t) == /\ claimant = {}
            /\ t \notin readers
            /\ readers' = readers \cup {t}
            /\ UNCHANGED <<claimant, held>>

Leave(t) == /\ t \in readers
            /\ readers' = readers \ {t}
            /\ UNCHANGED <<claimant, held>>

Claim(t) == /\ claimant = {}
            /\ t \notin readers
            /\ claimant' = {t}
            /\ held' = (readers = {})
            /\ UNCHANGED readers

Hold(t) == /\ claimant = {t}
           /\ ~held
           /\ readers = {}
           /\ held' = TRUE
           /\ UNCHANGED <<readers, claimant>>

Release(t) == /\ claimant = {t}
              /\ held
              /\ claimant' = {}
              /\ held' = FALSE
              /\ UNCHANGED readers

Next == \E t \in Threads :
          Share(t) \/ Leave(t) \/ Claim(t) \/ Hold(t) \/ Release(t)

Spec == Init /\ [][Next]_vars
=============================================================================
