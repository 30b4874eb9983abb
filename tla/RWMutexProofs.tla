---------------------------- MODULE RWMutexProofs ----------------------------
(***************************************************************************)
(* Proofs about RWMutex for every finite set of threads and every limit on *)
(* the number of readers.                                                  *)
(***************************************************************************)
EXTENDS RWMutex, FiniteSetTheorems, TLAPS

\* What Move does to every thread: t goes to p, the others keep their place
\* inside or outside the latch, and a sleeper stays asleep unless notified.
LEMMA MoveEffect ==
  ASSUME TypeOK, NEW t \in Threads, NEW p \in PCs,
         NEW woken \in SUBSET (ReaderQueue \cup WriterQueue),
         pc' = Move(t, p, woken)
  PROVE  /\ pc' \in [Threads -> PCs]
         /\ pc'[t] = p
         /\ \A u \in Threads \ {t} :
              /\ pc'[u] = "reading" <=> pc[u] = "reading"
              /\ pc'[u] = "writing" <=> pc[u] = "writing"
              /\ (pc'[u] \in {"wdrain", "wdrainwait"}) <=> (pc[u] \in {"wdrain", "wdrainwait"})
              /\ pc'[u] \in {"wwait", "rwait", "wdrainwait"} => pc'[u] = pc[u] /\ u \notin woken
<1> USE DEF TypeOK, PCs, Move, Wake, ReaderQueue, WriterQueue
<1>1. pc'[t] = p
  OBVIOUS
<1>2. ASSUME NEW u \in Threads \ {t}
      PROVE  pc'[u] = IF u \in woken THEN Wake(pc[u]) ELSE pc[u]
  OBVIOUS
<1>3. \A u \in Threads \ {t} :
        /\ pc'[u] \in PCs
        /\ pc'[u] = "reading" <=> pc[u] = "reading"
        /\ pc'[u] = "writing" <=> pc[u] = "writing"
        /\ (pc'[u] \in {"wdrain", "wdrainwait"}) <=> (pc[u] \in {"wdrain", "wdrainwait"})
        /\ pc'[u] \in {"wwait", "rwait", "wdrainwait"} => pc'[u] = pc[u] /\ u \notin woken
  BY <1>2
<1>4. pc' \in [Threads -> PCs]
  BY <1>1, <1>3
<1> QED
  BY <1>1, <1>3, <1>4

\* The readers form a finite set, so that they can be counted.
LEMMA ReadersFinite == IsFiniteSet(Readers)
  BY ThreadsAssumption, FS_Subset DEF Readers

\* Initially nobody is inside the latch.
LEMMA InitLatchInv == Init => LatchInv
<1> SUFFICES ASSUME Init PROVE LatchInv
  OBVIOUS
<1>1. Readers = {} /\ Entered = {} /\ Writers = {}
  BY DEF Init, Readers, Entered, Writers
<1>2. TypeOK
  <2>1. writer_entered \in BOOLEAN
    BY Zenon DEF Init
  <2>2. reader_count \in 0 .. MaxReaders /\ pc \in [Threads -> PCs]
    BY MaxReadersAssumption DEF Init, PCs
  <2> QED
    BY <2>1, <2>2 DEF TypeOK
<1>3. WriterSleepsForReason
  BY DEF Init, WriterSleepsForReason
<1> QED
  BY <1>1, <1>2, <1>3, FS_EmptySet DEF LatchInv, Init

\* WLock: a thread that finds the flag down becomes the one that has entered.
LEMMA WLockPreserves ==
  ASSUME LatchInv, NEW t \in Threads, WLock(t)
  PROVE  LatchInv'
<1>1. TypeOK /\ reader_count \in Nat
  BY DEF LatchInv, TypeOK
<1>2. PICK p \in {"wwait", "wdrainwait", "writing"} :
         /\ pc' = Move(t, p, {})
         /\ p = "wwait" => writer_entered /\ UNCHANGED writer_entered
         /\ p # "wwait" => ~writer_entered /\ writer_entered' = TRUE
         /\ p = "wdrainwait" => reader_count > 0
         /\ p = "writing" => ~(reader_count > 0)
  BY DEF WLock, AfterEntry
<1>3. /\ pc' \in [Threads -> PCs]
      /\ pc'[t] = p
      /\ \A u \in Threads \ {t} :
           /\ pc'[u] = "reading" <=> pc[u] = "reading"
           /\ pc'[u] = "writing" <=> pc[u] = "writing"
           /\ (pc'[u] \in {"wdrain", "wdrainwait"}) <=> (pc[u] \in {"wdrain", "wdrainwait"})
           /\ pc'[u] \in {"wwait", "rwait", "wdrainwait"} => pc'[u] = pc[u]
  BY <1>1, <1>2, MoveEffect DEF PCs
<1>4. pc[t] = "wlock" /\ UNCHANGED reader_count
  BY DEF WLock
<1>5. TypeOK'
  BY <1>1, <1>2, <1>3, <1>4 DEF TypeOK
<1>6. Readers' = Readers
  BY <1>2, <1>3, <1>4 DEF Readers
<1>7. /\ p = "wwait" => Entered' = Entered /\ Writers' = Writers
      /\ p # "wwait" => Entered' = Entered \cup {t}
      /\ p = "wdrainwait" => Writers' = Writers
      /\ t \notin Entered
  BY <1>2, <1>3, <1>4 DEF Entered, Writers
<1>8. WriterSleepsForReason'
  BY <1>1, <1>2, <1>3, <1>4 DEF LatchInv, WriterSleepsForReason
<1>9. /\ (writer_entered <=> Entered # {})'
      /\ (\A u, v \in Entered : u = v)'
      /\ (Writers # {} => reader_count = 0)'
  BY <1>1, <1>2, <1>4, <1>7 DEF LatchInv
<1> QED
  BY <1>4, <1>5, <1>6, <1>8, <1>9 DEF LatchInv

\* WLock after a wait on writer_: inside once the readers are gone.
LEMMA WLockDrainPreserves ==
  ASSUME LatchInv, NEW t \in Threads, WLockDrain(t)
  PROVE  LatchInv'
<1>1. TypeOK /\ reader_count \in Nat
  BY DEF LatchInv, TypeOK
<1>2. PICK p \in {"wdrainwait", "writing"} :
         /\ pc' = Move(t, p, {})
         /\ p = "wdrainwait" => reader_count > 0
         /\ p = "writing" => ~(reader_count > 0)
  BY DEF WLockDrain, AfterEntry
<1>3. /\ pc' \in [Threads -> PCs]
      /\ pc'[t] = p
      /\ \A u \in Threads \ {t} :
           /\ pc'[u] = "reading" <=> pc[u] = "reading"
           /\ pc'[u] = "writing" <=> pc[u] = "writing"
           /\ (pc'[u] \in {"wdrain", "wdrainwait"}) <=> (pc[u] \in {"wdrain", "wdrainwait"})
           /\ pc'[u] \in {"wwait", "rwait", "wdrainwait"} => pc'[u] = pc[u]
  BY <1>1, <1>2, MoveEffect DEF PCs
<1>4. pc[t] = "wdrain" /\ UNCHANGED <<reader_count, writer_entered>>
  BY DEF WLockDrain
<1>5. TypeOK'
  BY <1>1, <1>3, <1>4 DEF TypeOK
<1>6. Readers' = Readers /\ Entered' = Entered
  BY <1>2, <1>3, <1>4 DEF Readers, Entered
<1>7. (Writers # {} => reader_count = 0)'
  BY <1>1, <1>2, <1>3, <1>4 DEF LatchInv, Writers
<1>8. WriterSleepsForReason'
  BY <1>1, <1>2, <1>3, <1>4 DEF LatchInv, WriterSleepsForReason
<1> QED
  BY <1>4, <1>5, <1>6, <1>7, <1>8 DEF LatchInv

\* WUnlock: the flag goes down and everyone asleep on reader_ is woken.
LEMMA WUnlockPreserves ==
  ASSUME LatchInv, NEW t \in Threads, WUnlock(t)
  PROVE  LatchInv'
<1>1. TypeOK /\ reader_count \in Nat
  BY DEF LatchInv, TypeOK
<1>2. /\ pc' \in [Threads -> PCs]
      /\ pc'[t] = "idle"
      /\ \A u \in Threads \ {t} :
           /\ pc'[u] = "reading" <=> pc[u] = "reading"
           /\ pc'[u] = "writing" <=> pc[u] = "writing"
           /\ (pc'[u] \in {"wdrain", "wdrainwait"}) <=> (pc[u] \in {"wdrain", "wdrainwait"})
           /\ pc'[u] \in {"wwait", "rwait", "wdrainwait"} => pc'[u] = pc[u] /\ u \notin ReaderQueue
  BY <1>1, MoveEffect DEF WUnlock, PCs
<1>3. /\ pc[t] = "writing"
      /\ UNCHANGED reader_count
      /\ ~writer_entered'
  BY DEF WUnlock
<1>4. Entered = {t}
  BY <1>3 DEF LatchInv, Entered
<1>5. TypeOK'
  <2>1. writer_entered' \in BOOLEAN
    BY Zenon DEF WUnlock
  <2> QED
    BY <1>1, <1>2, <1>3, <2>1 DEF TypeOK
<1>6. Readers' = Readers
  BY <1>2, <1>3 DEF Readers
<1>7. Entered' = {} /\ Writers' = {}
  BY <1>2, <1>4 DEF Entered, Writers
<1>8. WriterSleepsForReason'
  <2> SUFFICES ASSUME NEW u \in Threads
               PROVE  /\ pc'[u] # "wwait"
                      /\ pc'[u] # "wdrainwait"
    BY DEF WriterSleepsForReason
  <2>1. pc'[u] # "wwait"
    BY <1>2 DEF ReaderQueue
  <2>2. pc'[u] # "wdrainwait"
    BY <1>7 DEF Entered
  <2> QED
    BY <2>1, <2>2
<1> QED
  BY <1>3, <1>5, <1>6, <1>7, <1>8 DEF LatchInv

\* RLock: a reader is let in, and counted, only while the flag is down.
LEMMA RLockPreserves ==
  ASSUME LatchInv, NEW t \in Threads, RLock(t)
  PROVE  LatchInv'
<1>1. TypeOK /\ reader_count \in Nat
  BY DEF LatchInv, TypeOK
<1>2. PICK p \in {"rwait", "reading"} :
         /\ pc' = Move(t, p, {})
         /\ p = "rwait" => UNCHANGED reader_count
         /\ p = "reading" => /\ ~writer_entered
                             /\ reader_count # MaxReaders
                             /\ reader_count' = reader_count + 1
  BY DEF RLock
<1>3. /\ pc' \in [Threads -> PCs]
      /\ pc'[t] = p
      /\ \A u \in Threads \ {t} :
           /\ pc'[u] = "reading" <=> pc[u] = "reading"
           /\ pc'[u] = "writing" <=> pc[u] = "writing"
           /\ (pc'[u] \in {"wdrain", "wdrainwait"}) <=> (pc[u] \in {"wdrain", "wdrainwait"})
           /\ pc'[u] \in {"wwait", "rwait", "wdrainwait"} => pc'[u] = pc[u] /\ u \notin {}
  BY <1>1, <1>2, MoveEffect DEF PCs
<1>4. pc[t] = "rlock" /\ UNCHANGED writer_entered
  BY DEF RLock
<1>5. TypeOK'
  BY <1>1, <1>2, <1>3, <1>4, MaxReadersAssumption DEF TypeOK
<1>6. reader_count' = Cardinality(Readers')
  <2>1. CASE p = "rwait"
    <3>1. Readers' = Readers
      BY <1>3, <1>4, <2>1 DEF Readers
    <3> QED
      BY <1>2, <2>1, <3>1 DEF LatchInv
  <2>2. CASE p = "reading"
    <3>1. Readers' = Readers \cup {t} /\ t \notin Readers
      BY <1>3, <1>4, <2>2 DEF Readers
    <3> QED
      BY <1>2, <2>2, <3>1, ReadersFinite, FS_AddElement DEF LatchInv
  <2> QED
    BY <2>1, <2>2
<1>7. Entered' = Entered /\ Writers' = Writers
  BY <1>2, <1>3, <1>4 DEF Entered, Writers
<1>8. WriterSleepsForReason'
  BY <1>1, <1>2, <1>3, <1>4 DEF LatchInv, WriterSleepsForReason
<1>9. (Writers # {} => reader_count = 0)'
  <2>1. Writers # {} => writer_entered
    BY DEF LatchInv, Writers, Entered
  <2> QED
    BY <1>2, <1>7, <2>1 DEF LatchInv
<1> QED
  BY <1>4, <1>5, <1>6, <1>7, <1>8, <1>9 DEF LatchInv

\* RUnlock: the last reader to leave wakes the writer that sleeps on writer_;
\* there is at most one such writer, so notify_one is enough.
LEMMA RUnlockPreserves ==
  ASSUME LatchInv, NEW t \in Threads, RUnlock(t)
  PROVE  LatchInv'
<1>1. TypeOK /\ reader_count \in Nat
  BY DEF LatchInv, TypeOK
<1>2. PICK woken \in RUnlockNotifies(reader_count - 1) : pc' = Move(t, "idle", woken)
  BY DEF RUnlock
<1>3. woken \in SUBSET (ReaderQueue \cup WriterQueue)
  BY <1>2 DEF RUnlockNotifies, NotifyOne
<1>4. /\ pc' \in [Threads -> PCs]
      /\ pc'[t] = "idle"
      /\ \A u \in Threads \ {t} :
           /\ pc'[u] = "reading" <=> pc[u] = "reading"
           /\ pc'[u] = "writing" <=> pc[u] = "writing"
           /\ (pc'[u] \in {"wdrain", "wdrainwait"}) <=> (pc[u] \in {"wdrain", "wdrainwait"})
           /\ pc'[u] \in {"wwait", "rwait", "wdrainwait"} => pc'[u] = pc[u] /\ u \notin woken
  BY <1>1, <1>2, <1>3, MoveEffect DEF PCs
<1>5. /\ pc[t] = "reading"
      /\ UNCHANGED writer_entered
      /\ reader_count' = reader_count - 1
  BY DEF RUnlock
<1>6. Readers' = Readers \ {t} /\ t \in Readers
  BY <1>4, <1>5 DEF Readers
<1>7. reader_count > 0
  BY <1>1, <1>6, ReadersFinite, FS_EmptySet DEF LatchInv
<1>8. TypeOK'
  BY <1>1, <1>4, <1>5, <1>7, MaxReadersAssumption DEF TypeOK
<1>9. reader_count' = Cardinality(Readers')
  BY <1>1, <1>5, <1>6, ReadersFinite, FS_RemoveElement DEF LatchInv
<1>10. Entered' = Entered /\ Writers' = Writers
  BY <1>4, <1>5 DEF Entered, Writers
<1>11. WriterSleepsForReason'
  <2> SUFFICES ASSUME NEW u \in Threads
               PROVE  /\ pc'[u] = "wwait" => writer_entered
                      /\ pc'[u] = "wdrainwait" => reader_count - 1 > 0
    BY <1>5 DEF WriterSleepsForReason
  <2>1. pc'[u] = "wwait" => writer_entered
    BY <1>4, <1>5 DEF LatchInv, WriterSleepsForReason
  <2>2. ASSUME pc'[u] = "wdrainwait", reader_count - 1 = 0
        PROVE  FALSE
    <3>1. u # t /\ pc[u] = "wdrainwait" /\ u \notin woken
      BY <1>4, <2>2
    <3>2. u \in WriterQueue /\ u \in Entered
      BY <3>1 DEF WriterQueue, Entered
    <3>3. writer_entered
      BY <3>2 DEF LatchInv
    <3>4. woken \in {{v} : v \in WriterQueue}
      BY <1>2, <2>2, <3>2, <3>3 DEF RUnlockNotifies, NotifyOne
    <3>5. PICK v \in WriterQueue : woken = {v}
      BY <3>4
    <3>6. v \in Entered
      BY <3>5 DEF WriterQueue, Entered
    <3> QED
      BY <3>1, <3>2, <3>5, <3>6 DEF LatchInv
  <2> QED
    BY <1>1, <1>7, <2>1, <2>2
<1>12. (Writers # {} => reader_count = 0)'
  BY <1>7, <1>10 DEF LatchInv
<1> QED
  BY <1>5, <1>8, <1>9, <1>10, <1>11, <1>12 DEF LatchInv

\* A call and a spurious wakeup change only where the thread is, outside the
\* latch; a wakeup that nobody asked for only makes the thread test again.
LEMMA OutsidePreserves ==
  ASSUME LatchInv, NEW t \in Threads,
         CallWLock(t) \/ CallRLock(t) \/ Spurious(t)
  PROVE  LatchInv'
<1>1. TypeOK /\ reader_count \in Nat
  BY DEF LatchInv, TypeOK
<1>2. PICK p \in PCs :
         /\ pc' = Move(t, p, {})
         /\ \/ pc[t] \in {"idle", "wwait", "rwait"} /\ p \in {"wlock", "rlock"}
            \/ pc[t] = "wdrainwait" /\ p = "wdrain"
  BY <1>1 DEF CallWLock, CallRLock, Spurious, Wake, ReaderQueue, WriterQueue, PCs
<1>3. /\ pc' \in [Threads -> PCs]
      /\ pc'[t] = p
      /\ \A u \in Threads \ {t} :
           /\ pc'[u] = "reading" <=> pc[u] = "reading"
           /\ pc'[u] = "writing" <=> pc[u] = "writing"
           /\ (pc'[u] \in {"wdrain", "wdrainwait"}) <=> (pc[u] \in {"wdrain", "wdrainwait"})
           /\ pc'[u] \in {"wwait", "rwait", "wdrainwait"} => pc'[u] = pc[u] /\ u \notin {}
  BY <1>1, <1>2, MoveEffect
<1>4. UNCHANGED <<reader_count, writer_entered>>
  BY DEF CallWLock, CallRLock, Spurious
<1>5. TypeOK'
  BY <1>1, <1>3, <1>4 DEF TypeOK
<1>6. Readers' = Readers /\ Entered' = Entered /\ Writers' = Writers
  BY <1>2, <1>3 DEF Readers, Entered, Writers
<1>7. WriterSleepsForReason'
  BY <1>2, <1>3, <1>4 DEF LatchInv, WriterSleepsForReason
<1> QED
  BY <1>4, <1>5, <1>6, <1>7 DEF LatchInv

\* LatchInv is an invariant of the latch.
THEOREM LatchInvariant == Spec => []LatchInv
<1>1. LatchInv /\ [Next]_vars => LatchInv'
  <2> SUFFICES ASSUME LatchInv, [Next]_vars PROVE LatchInv'
    OBVIOUS
  <2>1. ASSUME NEW t \in Threads, Step(t) PROVE LatchInv'
    BY <2>1, WLockPreserves, WLockDrainPreserves, WUnlockPreserves,
       RLockPreserves, RUnlockPreserves DEF Step
  <2>2. ASSUME NEW t \in Threads, CallWLock(t) \/ CallRLock(t) \/ Spurious(t)
        PROVE  LatchInv'
    BY <2>2, OutsidePreserves
  <2>3. CASE UNCHANGED vars
    BY <2>3 DEF vars, LatchInv, TypeOK, Readers, Writers, Entered, WriterSleepsForReason
  <2> QED
    BY <2>1, <2>2, <2>3 DEF Next
<1> QED
  BY InitLatchInv, <1>1, PTL DEF Spec

\* The unsigned counter neither wraps nor passes max_readers_.
THEOREM TypeCorrect == Spec => []TypeOK
  BY LatchInvariant, PTL DEF LatchInv

\* WLock gives exclusive access, whatever the number of threads and the limit.
THEOREM LatchIsExclusive == Spec => []MutualExclusion
<1>1. LatchInv => MutualExclusion
  <2> SUFFICES ASSUME LatchInv, NEW t \in Writers
               PROVE  Readers = {} /\ Writers = {t}
    BY DEF MutualExclusion
  <2>1. Readers = {}
    BY ReadersFinite, FS_EmptySet DEF LatchInv
  <2>2. Writers = {t}
    BY DEF LatchInv, Writers, Entered
  <2> QED
    BY <2>1, <2>2
<1> QED
  BY <1>1, LatchInvariant, PTL

\* No notification to a writer is lost, with or without spurious wakeups.
THEOREM WritersAreWoken == Spec => []WriterSleepsForReason
  BY LatchInvariant, PTL DEF LatchInv

\* When one thread more than max_readers_ exists, at most one thread is outside
\* a full latch, so no two of them can wait for the same notification.
LEMMA OneOutsideFullLatch ==
  ASSUME Cardinality(Threads) <= MaxReaders + 1, LatchInv, reader_count = MaxReaders,
         NEW t \in Threads \ Readers, NEW u \in Threads \ Readers
  PROVE  t = u
<1> SUFFICES ASSUME t # u PROVE FALSE
  OBVIOUS
<1>1. IsFiniteSet(Readers) /\ Cardinality(Readers) = MaxReaders
  BY ReadersFinite DEF LatchInv
<1>2. IsFiniteSet(Readers \cup {t}) /\ Cardinality(Readers \cup {t}) = MaxReaders + 1
  BY <1>1, FS_AddElement
<1>3. u \notin Readers \cup {t}
  OBVIOUS
<1>4. Cardinality((Readers \cup {t}) \cup {u}) = MaxReaders + 2
  BY <1>2, <1>3, FS_AddElement, MaxReadersAssumption
<1>5. (Readers \cup {t}) \cup {u} \in SUBSET Threads
  BY DEF Readers
<1>6. Cardinality((Readers \cup {t}) \cup {u}) <= Cardinality(Threads)
  BY <1>5, ThreadsAssumption, FS_Subset
<1> QED
  BY <1>4, <1>6, ThreadsAssumption, FS_CardinalityType, MaxReadersAssumption

\* With at most one thread more than max_readers_, no notification to a reader
\* is lost either: the only step that makes room under the limit without
\* waking every sleeper is RUnlock, and it has at most one sleeper to wake.
THEOREM ReadersAreWoken ==
  ASSUME Cardinality(Threads) <= MaxReaders + 1
  PROVE  Spec => []ReaderSleepsForReason
<1>1. Init => ReaderSleepsForReason
  BY DEF Init, ReaderSleepsForReason
<1>2. LatchInv /\ ReaderSleepsForReason /\ [Next]_vars => ReaderSleepsForReason'
  <2> SUFFICES ASSUME LatchInv, ReaderSleepsForReason, [Next]_vars,
                      NEW u \in Threads, pc'[u] = "rwait"
               PROVE  writer_entered' \/ reader_count' = MaxReaders
    BY DEF ReaderSleepsForReason
  <2>1. TypeOK
    BY DEF LatchInv
  <2>2. ASSUME NEW t \in Threads,
               WLock(t) \/ WLockDrain(t) \/ CallWLock(t) \/ CallRLock(t) \/ Spurious(t)
        PROVE  writer_entered' \/ reader_count' = MaxReaders
    <3>1. PICK p \in PCs \ {"rwait"} : pc' = Move(t, p, {})
      BY <2>1, <2>2 DEF WLock, WLockDrain, AfterEntry, CallWLock, CallRLock,
                        Spurious, Wake, ReaderQueue, WriterQueue, PCs
    <3>2. u # t /\ pc[u] = "rwait"
      BY <2>1, <3>1, MoveEffect
    <3> QED
      BY <2>2, <3>2 DEF WLock, WLockDrain, CallWLock, CallRLock, Spurious,
                        ReaderSleepsForReason
  <2>3. ASSUME NEW t \in Threads, WUnlock(t) PROVE FALSE
    <3>1. u # t /\ pc[u] = "rwait" /\ u \notin ReaderQueue
      BY <2>1, <2>3, MoveEffect DEF WUnlock, PCs
    <3> QED
      BY <3>1 DEF ReaderQueue
  <2>4. ASSUME NEW t \in Threads, RUnlock(t), ~writer_entered' PROVE FALSE
    <3>1. PICK woken \in RUnlockNotifies(reader_count - 1) : pc' = Move(t, "idle", woken)
      BY <2>4 DEF RUnlock
    <3>2. woken \in SUBSET (ReaderQueue \cup WriterQueue)
      BY <3>1 DEF RUnlockNotifies, NotifyOne
    <3>3. u # t /\ pc[u] = "rwait" /\ u \notin woken
      BY <2>1, <3>1, <3>2, MoveEffect DEF PCs
    <3>4. ~writer_entered /\ reader_count = MaxReaders
      BY <2>4, <3>3 DEF RUnlock, ReaderSleepsForReason
    <3>5. u \in ReaderQueue
      BY <3>3 DEF ReaderQueue
    <3>6. PICK v \in ReaderQueue : woken = {v}
      BY <3>1, <3>4, <3>5, MaxReadersAssumption DEF RUnlockNotifies, NotifyOne
    <3>7. u \in Threads \ Readers /\ v \in Threads \ Readers
      BY <3>3 DEF ReaderQueue, Readers
    <3> QED
      BY <3>3, <3>4, <3>6, <3>7, OneOutsideFullLatch
  <2>5. ASSUME NEW t \in Threads, RLock(t)
        PROVE  writer_entered' \/ reader_count' = MaxReaders
    <3>1. CASE u = t
      <4>1. pc' # Move(t, "reading", {})
        BY <2>1, <3>1, MoveEffect DEF PCs
      <4> QED
        BY <2>5, <4>1 DEF RLock
    <3>2. CASE u # t
      <4>1. PICK p \in PCs : pc' = Move(t, p, {})
        BY <2>5 DEF RLock, PCs
      <4>2. pc[u] = "rwait"
        BY <2>1, <3>2, <4>1, MoveEffect
      <4> QED
        BY <2>5, <4>2 DEF RLock, ReaderSleepsForReason
    <3> QED
      BY <3>1, <3>2
  <2>6. CASE UNCHANGED vars
    BY <2>6 DEF vars, ReaderSleepsForReason
  <2> QED
    BY <2>2, <2>3, <2>4, <2>5, <2>6 DEF Next, Step
<1> QED
  BY <1>1, <1>2, LatchInvariant, PTL DEF Spec

\* The latch implements ReadWriteLock: each step of a thread is one step of
\* the abstract latch, or none.
THEOREM LatchImplements == Spec => ImplementsReadWriteLock
<1>1. Init => Lock!Init
  BY DEF Init, Lock!Init, Readers, Entered, Writers
<1>2. LatchInv /\ [Next]_vars => [Lock!Next]_(Lock!vars)
  <2> SUFFICES ASSUME LatchInv, [Next]_vars PROVE [Lock!Next]_(Lock!vars)
    OBVIOUS
  <2>1. TypeOK /\ (writer_entered <=> Entered # {})
    BY DEF LatchInv
  <2>2. ASSUME NEW t \in Threads, WLock(t) PROVE [Lock!Next]_(Lock!vars)
    <3>1. CASE writer_entered
      <4>1. pc[t] = "wlock" /\ pc' = Move(t, "wwait", {})
        BY <2>2, <3>1 DEF WLock
      <4>2. Readers' = Readers /\ Entered' = Entered /\ Writers' = Writers
        BY <2>1, <4>1, MoveEffect DEF PCs, Readers, Entered, Writers
      <4> QED
        BY <4>2 DEF Lock!vars
    <3>2. CASE ~writer_entered
      <4>1. pc[t] = "wlock" /\ pc' = Move(t, AfterEntry, {})
        BY <2>2, <3>2 DEF WLock
      <4>2. Readers' = Readers /\ Entered' = Entered \cup {t} /\ t \notin Readers
        BY <2>1, <4>1, MoveEffect DEF PCs, Readers, Entered, AfterEntry
      <4>3. AfterEntry = "writing" <=> Readers = {}
        BY ReadersFinite, FS_EmptySet, FS_CardinalityType DEF AfterEntry, LatchInv
      <4>4. Entered = {} /\ Writers = {}
        BY <2>1, <3>2 DEF Entered, Writers
      <4>5. Writers' # {} <=> Readers = {}
        BY <2>1, <4>1, <4>3, <4>4, MoveEffect DEF PCs, Writers, AfterEntry
      <4> QED
        BY <4>2, <4>4, <4>5 DEF Lock!Next, Lock!Claim
    <3> QED
      BY <3>1, <3>2
  <2>3. ASSUME NEW t \in Threads, WLockDrain(t) PROVE [Lock!Next]_(Lock!vars)
    <3>1. pc[t] = "wdrain" /\ pc' = Move(t, AfterEntry, {})
      BY <2>3 DEF WLockDrain
    <3>2. Readers' = Readers /\ Entered' = Entered
      BY <2>1, <3>1, MoveEffect DEF PCs, Readers, Entered, AfterEntry
    <3>3. Entered = {t} /\ Writers = {}
      BY <3>1 DEF LatchInv, Entered, Writers
    <3>4. CASE AfterEntry = "wdrainwait"
      <4>1. Writers' = {}
        BY <2>1, <3>1, <3>3, <3>4, MoveEffect DEF PCs, Writers
      <4> QED
        BY <3>2, <3>3, <4>1 DEF Lock!vars
    <3>5. CASE AfterEntry = "writing"
      <4>1. Writers' # {}
        BY <2>1, <3>1, <3>5, MoveEffect DEF PCs, Writers
      <4>2. Readers = {}
        BY <3>5, ReadersFinite, FS_EmptySet, FS_CardinalityType DEF AfterEntry, LatchInv
      <4> QED
        BY <3>2, <3>3, <4>1, <4>2 DEF Lock!Next, Lock!Hold
    <3> QED
      BY <3>4, <3>5 DEF AfterEntry
  <2>4. ASSUME NEW t \in Threads, WUnlock(t) PROVE [Lock!Next]_(Lock!vars)
    <3>1. pc[t] = "writing" /\ pc' = Move(t, "idle", ReaderQueue)
      BY <2>4 DEF WUnlock
    <3>2. Entered = {t} /\ t \in Writers
      BY <3>1 DEF LatchInv, Entered, Writers
    <3>3. Readers' = Readers /\ Entered' = {} /\ Writers' = {}
      BY <2>1, <3>1, <3>2, MoveEffect DEF PCs, Readers, Entered, Writers
    <3> QED
      BY <3>2, <3>3 DEF Lock!Next, Lock!Release
  <2>5. ASSUME NEW t \in Threads, RLock(t) PROVE [Lock!Next]_(Lock!vars)
    <3>1. pc[t] = "rlock"
      BY <2>5 DEF RLock
    <3>2. PICK p \in {"rwait", "reading"} :
             /\ pc' = Move(t, p, {})
             /\ p = "reading" => ~writer_entered
      BY <2>5 DEF RLock
    <3>3. /\ Entered' = Entered /\ Writers' = Writers /\ t \notin Readers
          /\ p = "rwait" => Readers' = Readers
          /\ p = "reading" => Readers' = Readers \cup {t}
      BY <2>1, <3>1, <3>2, MoveEffect DEF PCs, Readers, Entered, Writers
    <3>4. CASE p = "rwait"
      BY <3>3, <3>4 DEF Lock!vars
    <3>5. CASE p = "reading"
      <4>1. Entered = {}
        BY <2>1, <3>2, <3>5
      <4> QED
        BY <3>3, <3>5, <4>1 DEF Lock!Next, Lock!Share
    <3> QED
      BY <3>4, <3>5
  <2>6. ASSUME NEW t \in Threads, RUnlock(t) PROVE [Lock!Next]_(Lock!vars)
    <3>1. PICK woken \in SUBSET (ReaderQueue \cup WriterQueue) : pc' = Move(t, "idle", woken)
      BY <2>6 DEF RUnlock, RUnlockNotifies, NotifyOne
    <3>2. pc[t] = "reading"
      BY <2>6 DEF RUnlock
    <3>3. /\ Readers' = Readers \ {t} /\ t \in Readers
          /\ Entered' = Entered /\ Writers' = Writers
      BY <2>1, <3>1, <3>2, MoveEffect DEF PCs, Readers, Entered, Writers
    <3> QED
      BY <3>3 DEF Lock!Next, Lock!Leave
  <2>7. ASSUME NEW t \in Threads, CallWLock(t) \/ CallRLock(t) \/ Spurious(t)
        PROVE  [Lock!Next]_(Lock!vars)
    <3>1. PICK p \in PCs :
             /\ pc' = Move(t, p, {})
             /\ \/ pc[t] \in {"idle", "wwait", "rwait"} /\ p \in {"wlock", "rlock"}
                \/ pc[t] = "wdrainwait" /\ p = "wdrain"
      BY <2>1, <2>7 DEF CallWLock, CallRLock, Spurious, Wake, ReaderQueue, WriterQueue, PCs
    <3>2. Readers' = Readers /\ Entered' = Entered /\ Writers' = Writers
      BY <2>1, <3>1, MoveEffect DEF Readers, Entered, Writers
    <3> QED
      BY <3>2 DEF Lock!vars
  <2>8. CASE UNCHANGED vars
    BY <2>8 DEF vars, Lock!vars, Readers, Entered, Writers
  <2> QED
    BY <2>2, <2>3, <2>4, <2>5, <2>6, <2>7, <2>8 DEF Next, Step
<1> QED
  BY <1>1, <1>2, LatchInvariant, PTL DEF Spec, ImplementsReadWriteLock, Lock!Spec
=============================================================================
