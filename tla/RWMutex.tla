------------------------------- MODULE RWMutex -------------------------------
(***************************************************************************)
(* The page latch of the storage engine: class RWMutex of                  *)
(* 15445/src/include/common/rwmutex.h.                                     *)
(*                                                                         *)
(* Every method runs with mutex_ held, except while it sleeps in a wait,   *)
(* so the code between two waits is one action.  A thread inside a method  *)
(* is either runnable (about to take mutex_ and (re)test its condition) or *)
(* asleep on one of the two condition variables.  A wait may also return   *)
(* without a notification (Spurious), as std::condition_variable allows.   *)
(***************************************************************************)
EXTENDS Integers, FiniteSets

CONSTANTS Threads,     \* the threads that use the latch
          MaxReaders   \* max_readers_ (UINT_MAX in the code)

ASSUME ThreadsAssumption == IsFiniteSet(Threads)
ASSUME MaxReadersAssumption == MaxReaders \in Nat \ {0}

VARIABLES reader_count,    \* reader_count_
          writer_entered,  \* writer_entered_
          pc               \* where each thread is

vars == <<reader_count, writer_entered, pc>>

PCs == { "idle",        \* holds nothing and is in no method
         "wlock",       \* in WLock, about to test writer_entered_
         "wwait",       \* in WLock, asleep in reader_.wait
         "wdrain",      \* in WLock, woken, about to test reader_count_
         "wdrainwait",  \* in WLock, asleep in writer_.wait
         "writing",     \* WLock has returned
         "rlock",       \* in RLock, about to test its condition
         "rwait",       \* in RLock, asleep in reader_.wait
         "reading" }    \* RLock has returned

\* The threads asleep on each condition variable.
ReaderQueue == {t \in Threads : pc[t] \in {"wwait", "rwait"}}
WriterQueue == {t \in Threads : pc[t] = "wdrainwait"}

\* Where a sleeper goes on when its wait returns.
Wake(p) == CASE p = "wwait" -> "wlock"
             [] p = "rwait" -> "rlock"
             [] p = "wdrainwait" -> "wdrain"
             [] OTHER -> p

\* pc after thread t moves to p and the sleepers in woken are notified.
Move(t, p, woken) ==
  [u \in Threads |-> IF u = t THEN p
                     ELSE IF u \in woken THEN Wake(pc[u]) ELSE pc[u]]

\* notify_one wakes one sleeper, if there is one.
NotifyOne(queue) == IF queue = {} THEN {{}} ELSE {{t} : t \in queue}

Init == /\ reader_count = 0
        /\ writer_entered = FALSE
        /\ pc = [t \in Threads |-> "idle"]

\* A client calls WLock or RLock; the method waits for mutex_.
CallWLock(t) == /\ pc[t] = "idle"
                /\ pc' = Move(t, "wlock", {})
                /\ UNCHANGED <<reader_count, writer_entered>>

CallRLock(t) == /\ pc[t] = "idle"
                /\ pc' = Move(t, "rlock", {})
                /\ UNCHANGED <<reader_count, writer_entered>>

\* Mutant: WLock without its second loop.
AfterEntryDoesNotWait == "writing"

\* The second loop of WLock: sleep on writer_ until the readers are gone.
AfterEntry == IF reader_count > 0 THEN "wdrainwait" ELSE "writing"

\* The first loop of WLock, and the claim of the latch.
WLock(t) ==
  /\ pc[t] = "wlock"
  /\ \/ /\ writer_entered
        /\ pc' = Move(t, "wwait", {})
        /\ UNCHANGED writer_entered
     \/ /\ ~writer_entered
        /\ writer_entered' = TRUE
        /\ pc' = Move(t, AfterEntry, {})
  /\ UNCHANGED reader_count

\* WLock resumes after writer_.wait.
WLockDrain(t) == /\ pc[t] = "wdrain"
                 /\ pc' = Move(t, AfterEntry, {})
                 /\ UNCHANGED <<reader_count, writer_entered>>

\* Mutant: WUnlock wakes one sleeper instead of all.
WUnlockNotifiesOne(t) ==
  /\ pc[t] = "writing"
  /\ writer_entered' = FALSE
  /\ \E woken \in NotifyOne(ReaderQueue) : pc' = Move(t, "idle", woken)
  /\ UNCHANGED reader_count

\* Mutant: WUnlock wakes nobody.
WUnlockSilent(t) == /\ pc[t] = "writing"
                    /\ writer_entered' = FALSE
                    /\ pc' = Move(t, "idle", {})
                    /\ UNCHANGED reader_count

WUnlock(t) == /\ pc[t] = "writing"
              /\ writer_entered' = FALSE
              /\ pc' = Move(t, "idle", ReaderQueue)
              /\ UNCHANGED reader_count

\* Mutant: RLock without the test against max_readers_.
RLockIgnoresLimit(t) ==
  /\ pc[t] = "rlock"
  /\ \/ /\ writer_entered
        /\ pc' = Move(t, "rwait", {})
        /\ UNCHANGED reader_count
     \/ /\ ~writer_entered
        /\ reader_count' = reader_count + 1
        /\ pc' = Move(t, "reading", {})
  /\ UNCHANGED writer_entered

RLock(t) ==
  /\ pc[t] = "rlock"
  /\ \/ /\ writer_entered \/ reader_count = MaxReaders
        /\ pc' = Move(t, "rwait", {})
        /\ UNCHANGED reader_count
     \/ /\ ~writer_entered
        /\ reader_count # MaxReaders
        /\ reader_count' = reader_count + 1
        /\ pc' = Move(t, "reading", {})
  /\ UNCHANGED writer_entered

\* Mutant: RUnlock notifies the writer one reader too early.
RUnlockNotifiesEarly(n) ==
  IF writer_entered
  THEN IF n = 1 THEN NotifyOne(WriterQueue) ELSE {{}}
  ELSE IF n = MaxReaders - 1 THEN NotifyOne(ReaderQueue) ELSE {{}}

\* Mutant: RUnlock notifies the wrong condition variable.
RUnlockNotifiesReaders(n) ==
  IF writer_entered
  THEN IF n = 0 THEN NotifyOne(ReaderQueue) ELSE {{}}
  ELSE IF n = MaxReaders - 1 THEN NotifyOne(ReaderQueue) ELSE {{}}

\* The sets of threads RUnlock may notify once the count has become n.
RUnlockNotifies(n) ==
  IF writer_entered
  THEN IF n = 0 THEN NotifyOne(WriterQueue) ELSE {{}}
  ELSE IF n = MaxReaders - 1 THEN NotifyOne(ReaderQueue) ELSE {{}}

RUnlock(t) ==
  /\ pc[t] = "reading"
  /\ reader_count' = reader_count - 1
  /\ \E woken \in RUnlockNotifies(reader_count - 1) : pc' = Move(t, "idle", woken)
  /\ UNCHANGED writer_entered

\* A wait returns although nobody notified the thread.
Spurious(t) == /\ t \in ReaderQueue \cup WriterQueue
               /\ pc' = Move(t, Wake(pc[t]), {})
               /\ UNCHANGED <<reader_count, writer_entered>>

Step(t) == WLock(t) \/ WLockDrain(t) \/ WUnlock(t) \/ RLock(t) \/ RUnlock(t)

Next == \E t \in Threads : CallWLock(t) \/ CallRLock(t) \/ Step(t) \/ Spurious(t)

Spec == Init /\ [][Next]_vars

(***************************************************************************)
(* Fairness: the operating system eventually runs a runnable thread, and a *)
(* client that holds the latch eventually releases it.  Nothing is assumed *)
(* of clients that do not call, nor of spurious wakeups.                   *)
(***************************************************************************)
FairSpec == Spec /\ \A t \in Threads : WF_vars(Step(t))

-----------------------------------------------------------------------------
(***************************************************************************)
(* Properties.                                                             *)
(***************************************************************************)

\* The threads inside the latch.
Readers == {t \in Threads : pc[t] = "reading"}
Writers == {t \in Threads : pc[t] = "writing"}

\* The threads for which writer_entered_ was set and not yet reset.
Entered == {t \in Threads : pc[t] \in {"wdrain", "wdrainwait", "writing"}}

\* Type invariant: reader_count_ never leaves 0..max_readers_ (an RUnlock
\* never wraps the unsigned counter), and every thread is at a known place.
TypeOK == /\ reader_count \in 0 .. MaxReaders
          /\ writer_entered \in BOOLEAN
          /\ pc \in [Threads -> PCs]

\* When WLock has returned to a thread, nobody else is inside the latch,
\* neither as a reader nor as a writer, until that thread calls WUnlock.
MutualExclusion ==
  \A t \in Writers : Readers = {} /\ Writers = {t}

\* A thread that sleeps in WLock still has a reason to: another writer has
\* entered (first loop), or a reader is inside (second loop).  Otherwise the
\* notification that should have woken it has been lost.
WriterSleepsForReason ==
  \A t \in Threads : /\ pc[t] = "wwait" => writer_entered
                     /\ pc[t] = "wdrainwait" => reader_count > 0

\* The inductive invariant behind the theorems of RWMutexProofs: the counter
\* counts the readers, the flag is up exactly while one thread is between its
\* claim of the latch and its WUnlock, and that thread is inside only once
\* the count has dropped to zero.
LatchInv ==
  /\ TypeOK
  /\ reader_count = Cardinality(Readers)
  /\ writer_entered <=> Entered # {}
  /\ \A t, u \in Entered : t = u
  /\ Writers # {} => reader_count = 0
  /\ WriterSleepsForReason

\* A thread that sleeps in RLock sleeps only while a writer has entered or the
\* latch is full of readers.  This holds up to max_readers_ + 1 threads, which
\* UINT_MAX guarantees: RUnlock notifies one sleeper when the count drops to
\* max_readers_ - 1 and none when it drops further, so of two readers that
\* slept at the limit one could sleep on.
ReaderSleepsForReason ==
  \A t \in Threads : pc[t] = "rwait" => writer_entered \/ reader_count = MaxReaders

\* A writer that has entered gets the latch although readers keep calling
\* RLock: it cannot be starved by them.
WriterGetsIn ==
  \A t \in Threads : pc[t] \in {"wdrain", "wdrainwait"} ~> pc[t] = "writing"

\* Whenever some thread wants the latch, some thread gets it: no set of
\* callers puts one another to sleep for ever.
SomebodyGetsIn ==
  (\E t \in Threads : pc[t] \in {"wlock", "wwait", "rlock", "rwait"})
     ~> (Readers \cup Writers # {})

\* The latch implements the abstract one: every step is a step of
\* ReadWriteLock or changes nothing there.
Lock == INSTANCE ReadWriteLock
  WITH readers <- Readers, claimant <- Entered, held <- Writers # {}

ImplementsReadWriteLock == Lock!Spec
=============================================================================
