--------------------------- MODULE ReplicaProofs ---------------------------
(***************************************************************************)
(* The write path and the readiness probe of the backend, for any number   *)
(* of replicas, writes, probes and attempts: the state is typed, a write   *)
(* transaction is never based on old data, writes are atomic, and a        *)
(* replica that says it is ready has been to the volume and back.          *)
(***************************************************************************)
EXTENDS BackendReplica, TLAPS

-----------------------------------------------------------------------------
(* What a thread inside of a write has in hand.                            *)
ThreadOK(r) ==
    /\ thread[r] \in InWrite <=> current[r] # Null
    /\ thread[r] \in InWrite => outcome[current[r]] = "running"
    /\ thread[r] = "backoff" => attempt[r] < MaxAttempts

LockOK(r) ==
    /\ thread[r] = "body" => lock[r] = "reserved"
    /\ thread[r] \in {"commit", "committed"} => lock[r] \in WriteLocks
    /\ thread[r] \notin InTransaction => lock[r] \notin WriteLocks

DraftOK(r) == thread[r] = "commit" => draft[r] = Append(database, current[r])

Exclusive(r, q) == lock[r] \in WriteLocks /\ lock[q] \in WriteLocks => r = q
OneOwner(r, q) == current[r] # Null /\ current[r] = current[q] => r = q

WriteInv ==
    /\ WriteTypeOK
    /\ \A r \in Replicas : ThreadOK(r) /\ LockOK(r) /\ DraftOK(r)
    /\ \A r, q \in Replicas : Exclusive(r, q) /\ OneOwner(r, q)

(* Nothing runs and nothing is locked at the start.                        *)
LEMMA WriteInvInit == WriteInit => WriteInv
<1> SUFFICES ASSUME WriteInit PROVE WriteInv
  OBVIOUS
<1>1. WriteTypeOK
  <2>1. <<>> \in Seq(Writes) /\ 0 \in 0..MaxAttempts
    BY AttemptsAssumption, SMT
  <2> QED BY <2>1 DEF WriteInit, WriteTypeOK, Outcomes, Threads, Locks
<1>2. ASSUME NEW r \in Replicas PROVE ThreadOK(r) /\ LockOK(r) /\ DraftOK(r)
  BY <1>2 DEF WriteInit, ThreadOK, LockOK, DraftOK, InWrite, InTransaction,
              WriteLocks
<1>3. ASSUME NEW r \in Replicas, NEW q \in Replicas
      PROVE  Exclusive(r, q) /\ OneOwner(r, q)
  BY <1>3 DEF WriteInit, Exclusive, OneOwner, WriteLocks
<1> QED BY <1>1, <1>2, <1>3 DEF WriteInv

USE DEF InWrite, InTransaction, WriteLocks

(* The call of r is over: with EndCall or by the death of the process.     *)
CallOver(r) ==
    /\ current' = [current EXCEPT ![r] = Null]
    /\ attempt' = [attempt EXCEPT ![r] = 0]
    /\ draft' = [draft EXCEPT ![r] = <<>>]
    /\ lock' = [lock EXCEPT ![r] = "none"]
    /\ thread' = [thread EXCEPT ![r] = "idle"]
    /\ outcome' \in [Writes -> Outcomes]
    /\ \A w \in Writes : w # current[r] => outcome'[w] = outcome[w]

(* The end of a call frees its lock and leaves the database alone.         *)
LEMMA CallOverKeepsInv ==
    ASSUME WriteInv, NEW r \in Replicas, CallOver(r), UNCHANGED database
    PROVE  WriteInv'
<1> USE DEF WriteInv
<1>1. WriteTypeOK'
  <2>1. <<>> \in Seq(Writes) /\ 0 \in 0..MaxAttempts
    BY AttemptsAssumption, SMT
  <2> QED BY <2>1 DEF WriteTypeOK, CallOver, Threads, Locks
<1>2. ASSUME NEW q \in Replicas PROVE (ThreadOK(q) /\ LockOK(q) /\ DraftOK(q))'
  <2>1. CASE q = r
    BY <2>1 DEF WriteTypeOK, CallOver, ThreadOK, LockOK, DraftOK
  <2>2. CASE q # r
    <3>1. /\ thread'[q] = thread[q] /\ current'[q] = current[q]
          /\ attempt'[q] = attempt[q] /\ lock'[q] = lock[q]
          /\ draft'[q] = draft[q]
      BY <2>2 DEF WriteTypeOK, CallOver
    <3>2. thread[q] \in InWrite => outcome'[current[q]] = outcome[current[q]]
      <4>1. SUFFICES ASSUME thread[q] \in InWrite
                     PROVE  outcome'[current[q]] = outcome[current[q]]
        OBVIOUS
      <4>2. current[q] \in Writes /\ current[q] # Null
        BY <4>1 DEF ThreadOK, WriteTypeOK
      <4>3. current[q] # current[r]
        BY <2>2, <4>2 DEF OneOwner
      <4> QED BY <4>2, <4>3 DEF CallOver
    <3> QED BY <3>1, <3>2 DEF ThreadOK, LockOK, DraftOK
  <2> QED BY <2>1, <2>2
<1>3. ASSUME NEW p \in Replicas, NEW q \in Replicas
      PROVE  (Exclusive(p, q) /\ OneOwner(p, q))'
  BY <1>3 DEF WriteTypeOK, CallOver, Exclusive, OneOwner
<1> QED BY <1>1, <1>2, <1>3

(* The actions that end a call, with the outcome of its write.             *)
LEMMA EndCallIsOver ==
    ASSUME WriteInv, NEW r \in Replicas, NEW verdict \in Outcomes,
           EndCall(r, verdict), thread[r] \in InWrite
    PROVE  CallOver(r)
<1>1. current[r] \in Writes
  BY DEF WriteInv, WriteTypeOK, ThreadOK
<1>2. outcome \in [Writes -> Outcomes]
  BY DEF WriteInv, WriteTypeOK
<1> QED BY <1>1, <1>2 DEF EndCall, CallOver, SetLock, Goto

(* The death of a process ends its call and leaves the database alone.     *)
LEMMA DieIsOver ==
    ASSUME WriteInv, NEW r \in Replicas, DieInWrite(r)
    PROVE  CallOver(r) /\ database' = database
  BY DEF WriteInv, WriteTypeOK, DieInWrite, CallOver, SetLock, Goto, Outcomes

(* The actions that stay inside a call.                                    *)
LEMMA CallWriteKeepsInv ==
    ASSUME WriteInv, NEW r \in Replicas, NEW w \in Writes, CallWrite(r, w)
    PROVE  WriteInv'
<1> USE DEF WriteInv, CallWrite, Goto
<1>1. WriteTypeOK'
  <2>1. 1 \in 0..MaxAttempts
    BY AttemptsAssumption, SMT
  <2> QED BY <2>1 DEF WriteTypeOK, Outcomes, Threads
<1>2. w # Null
  BY NoWriteAssumption
<1>3. ASSUME NEW q \in Replicas PROVE (ThreadOK(q) /\ LockOK(q) /\ DraftOK(q))'
  <2>1. CASE q = r
    BY <1>2, <2>1 DEF WriteTypeOK, ThreadOK, LockOK, DraftOK
  <2>2. CASE q # r
    <3>1. /\ thread'[q] = thread[q] /\ current'[q] = current[q]
          /\ attempt'[q] = attempt[q]
      BY <2>2 DEF WriteTypeOK
    <3>2. thread[q] \in InWrite => current[q] \in Writes /\ current[q] # w
      BY DEF WriteTypeOK, ThreadOK
    <3> QED BY <3>1, <3>2 DEF WriteTypeOK, ThreadOK, LockOK, DraftOK
  <2> QED BY <2>1, <2>2
<1>4. ASSUME NEW p \in Replicas, NEW q \in Replicas
      PROVE  (Exclusive(p, q) /\ OneOwner(p, q))'
  <2>1. \A x \in Replicas : current[x] # w
    BY <1>2 DEF WriteTypeOK, ThreadOK
  <2> QED BY <1>4, <2>1 DEF WriteTypeOK, Exclusive, OneOwner
<1> QED BY <1>1, <1>3, <1>4

(* BEGIN IMMEDIATE: no other replica holds a write lock.                   *)
LEMMA BeginKeepsInv ==
    ASSUME WriteInv, NEW r \in Replicas, BeginImmediate(r)
    PROVE  WriteInv'
<1> USE DEF WriteInv, BeginImmediate, Goto, SetLock
<1>1. WriteTypeOK'
  BY DEF WriteTypeOK, Threads, Locks
<1>2. ASSUME NEW q \in Replicas PROVE (ThreadOK(q) /\ LockOK(q) /\ DraftOK(q))'
  BY <1>2 DEF WriteTypeOK, ThreadOK, LockOK, DraftOK
<1>3. ASSUME NEW p \in Replicas, NEW q \in Replicas
      PROVE  (Exclusive(p, q) /\ OneOwner(p, q))'
  BY <1>3 DEF WriteTypeOK, Exclusive, OneOwner, MayReserve, Others
<1> QED BY <1>1, <1>2, <1>3

(* The statements see the database that their lock protects.               *)
LEMMA RunBodyKeepsInv ==
    ASSUME WriteInv, NEW r \in Replicas, RunBody(r)
    PROVE  WriteInv'
<1> USE DEF WriteInv, RunBody, Goto
<1>1. WriteTypeOK'
  <2>1. current[r] \in Writes /\ database \in Seq(Writes)
    BY DEF WriteTypeOK, ThreadOK
  <2>2. Append(database, current[r]) \in Seq(Writes)
    BY <2>1
  <2> QED BY <2>2 DEF WriteTypeOK, Threads
<1>2. ASSUME NEW q \in Replicas PROVE (ThreadOK(q) /\ LockOK(q) /\ DraftOK(q))'
  BY <1>2 DEF WriteTypeOK, ThreadOK, LockOK, DraftOK
<1>3. ASSUME NEW p \in Replicas, NEW q \in Replicas
      PROVE  (Exclusive(p, q) /\ OneOwner(p, q))'
  BY <1>3 DEF WriteTypeOK, Exclusive, OneOwner
<1> QED BY <1>1, <1>2, <1>3

(* Steps that take or give back a lock, or only move the thread on.        *)
LEMMA LockStepsKeepInv ==
    ASSUME WriteInv, NEW r \in Replicas,
           \/ AskExclusive(r) \/ Backoff(r) \/ TryAgain(r) \/ CallRead(r)
           \/ StartRead(r) \/ EndRead(r) \/ ReadGivesUp(r)
    PROVE  WriteInv'
<1> USE DEF WriteInv, AskExclusive, Backoff, TryAgain, CallRead, StartRead,
            EndRead, ReadGivesUp, Goto, SetLock
<1>1. WriteTypeOK'
  <2>1. thread[r] = "backoff" => attempt[r] + 1 \in 0..MaxAttempts
    BY AttemptsAssumption, SMT DEF WriteTypeOK, ThreadOK
  <2>2. <<>> \in Seq(Writes)
    OBVIOUS
  <2> QED BY <2>1, <2>2 DEF WriteTypeOK, Threads, Locks
<1>2. Backoff(r) => attempt[r] < MaxAttempts
  <2>1. attempt[r] \in 0..MaxAttempts
    BY DEF WriteTypeOK
  <2> QED BY <2>1, AttemptsAssumption, SMT DEF LastAttempt
<1>3. ASSUME NEW q \in Replicas PROVE (ThreadOK(q) /\ LockOK(q) /\ DraftOK(q))'
  <2>1. CASE q = r
    BY <1>2, <2>1 DEF WriteTypeOK, ThreadOK, LockOK, DraftOK, TimedOut
  <2>2. CASE q # r
    BY <2>2 DEF WriteTypeOK, ThreadOK, LockOK, DraftOK
  <2> QED BY <2>1, <2>2
<1>4. ASSUME NEW p \in Replicas, NEW q \in Replicas
      PROVE  (Exclusive(p, q) /\ OneOwner(p, q))'
  BY <1>4 DEF WriteTypeOK, Exclusive, OneOwner
<1> QED BY <1>1, <1>3, <1>4

(* The commit stores what was read under the lock, which it still holds.   *)
LEMMA CommitKeepsInv ==
    ASSUME WriteInv, NEW r \in Replicas, Commit(r)
    PROVE  WriteInv'
<1> USE DEF WriteInv, Commit, Goto
<1>1. WriteTypeOK'
  BY DEF WriteTypeOK, Threads
<1>2. ASSUME NEW q \in Replicas PROVE (ThreadOK(q) /\ LockOK(q) /\ DraftOK(q))'
  <2>1. CASE q = r
    BY <2>1 DEF WriteTypeOK, ThreadOK, LockOK, DraftOK
  <2>2. CASE q # r
    <3>1. thread[q] # "commit"
      BY <2>2 DEF LockOK, Exclusive
    <3> QED BY <2>2, <3>1 DEF WriteTypeOK, ThreadOK, LockOK, DraftOK
  <2> QED BY <2>1, <2>2
<1>3. ASSUME NEW p \in Replicas, NEW q \in Replicas
      PROVE  (Exclusive(p, q) /\ OneOwner(p, q))'
  BY <1>3 DEF Exclusive, OneOwner
<1> QED BY <1>1, <1>2, <1>3

(* The return, an exception, the last busy attempt and a crash end a call. *)
EndsCall(r) ==
    ReturnWrite(r) \/ WriteThrows(r) \/ CommitFails(r) \/ GiveUp(r) \/ DieInWrite(r)

LEMMA EndsCallIsOver ==
    ASSUME WriteInv, NEW r \in Replicas, EndsCall(r)
    PROVE  CallOver(r) /\ database' = database
<1>1. CASE ~DieInWrite(r)
  <2>1. PICK verdict \in Outcomes : EndCall(r, verdict)
    BY <1>1 DEF EndsCall, ReturnWrite, WriteThrows, CommitFails, GiveUp, Outcomes
  <2>2. thread[r] \in InWrite /\ database' = database
    BY <1>1 DEF EndsCall, ReturnWrite, WriteThrows, CommitFails, GiveUp, TimedOut
  <2> QED BY <2>1, <2>2, EndCallIsOver
<1> QED BY <1>1, DieIsOver

LEMMA EndsCallKeepsInv ==
    ASSUME WriteInv, NEW r \in Replicas, EndsCall(r)
    PROVE  WriteInv'
  BY EndsCallIsOver, CallOverKeepsInv

(* All steps together: those of a write, of a read, of a probe and of a    *)
(* crash.                                                                  *)
LEMMA WriteInvStep == WriteInv /\ [Next]_vars => WriteInv'
<1> SUFFICES ASSUME WriteInv, [Next]_vars PROVE WriteInv'
  OBVIOUS
<1>1. CASE UNCHANGED writeVars
  BY <1>1 DEF writeVars, WriteInv, WriteTypeOK, ThreadOK, LockOK, DraftOK,
              Exclusive, OneOwner
<1>2. ASSUME NEW r \in Replicas, Resolve(r) PROVE WriteInv'
  BY <1>2, CallWriteKeepsInv, LockStepsKeepInv DEF Resolve
<1>3. ASSUME NEW r \in Replicas, Sqlite(r) PROVE WriteInv'
  BY <1>3, BeginKeepsInv, RunBodyKeepsInv, LockStepsKeepInv, CommitKeepsInv,
     EndsCallKeepsInv DEF Sqlite, FileAccess, Waiting, EndsCall
<1>4. ASSUME NEW r \in Replicas, Crash(r) PROVE WriteInv'
  BY <1>4, EndsCallKeepsInv DEF Crash, EndsCall
<1>5. CASE \/ \E r \in Replicas, p \in Probes : Ready(r, p)
           \/ \E p \in Probes :
                  ProbeCallback(p) \/ TimerCallback(p) \/ ThreadPool(p)
           \/ Mount
  BY <1>1, <1>5 DEF Ready, ProbeCallback, TimerCallback, ThreadPool, Mount
<1> QED BY <1>1, <1>2, <1>3, <1>4, <1>5 DEF Next, vars

(* The invariant of the write path holds always.                           *)
LEMMA WriteInvAlways == Spec => []WriteInv
<1>1. Init => WriteInv
  BY WriteInvInit DEF Init
<1> QED BY <1>1, WriteInvStep, PTL DEF Spec

(* No write transaction is ever based on data that another replica has     *)
(* replaced: BEGIN IMMEDIATE admits one writer, for the whole transaction. *)
THEOREM NeverStale == Spec => []NoStaleTransaction
<1>1. WriteInv => NoStaleTransaction
  <2> SUFFICES ASSUME WriteInv PROVE NoStaleTransaction
    OBVIOUS
  <2>1. ASSUME NEW r \in Replicas
        PROVE  lock[r] \in WriteLocks <=> thread[r] \in InTransaction
    BY <2>1 DEF WriteInv, LockOK, InTransaction
  <2>2. ASSUME NEW r \in Replicas, NEW q \in Replicas,
               thread[r] \in InTransaction, thread[q] \in InTransaction
        PROVE  q = r
    BY <2>1, <2>2 DEF WriteInv, Exclusive
  <2> QED BY <2>1, <2>2 DEF WriteInv, DraftOK, NoStaleTransaction
<1> QED BY <1>1, WriteInvAlways, PTL

-----------------------------------------------------------------------------
(* A write that runs is in the database from its commit point on, and one  *)
(* that was not called is not.                                             *)
StoredOK(r) ==
    thread[r] \in InWrite =>
        (Atomic!Applied(current[r]) <=> thread[r] = "committed")

StoredInv ==
    /\ \A r \in Replicas : StoredOK(r)
    /\ \A w \in Writes : outcome[w] = "new" => ~Atomic!Applied(w)

(* The commit point adds the write of its replica, and no other.           *)
LEMMA CommitAdds ==
    ASSUME WriteInv, NEW r \in Replicas, Commit(r), NEW w \in Writes
    PROVE  /\ database' = Append(database, current[r])
           /\ Atomic!Applied(w)' <=> Atomic!Applied(w) \/ w = current[r]
<1>1. /\ current[r] \in Writes /\ database \in Seq(Writes)
      /\ database' = Append(database, current[r])
  BY DEF Commit, WriteInv, WriteTypeOK, ThreadOK, DraftOK
<1> DEFINE n == Len(database)
<1>2. n \in Nat /\ DOMAIN database = 1..n
  BY <1>1
<1>3. /\ DOMAIN database' = 1..(n + 1)
      /\ \A i \in 1..n : database'[i] = database[i]
      /\ database'[n + 1] = current[r]
  BY <1>1, <1>2
<1>4. \A i \in 1..(n + 1) : i \in 1..n \/ i = n + 1
  BY <1>2
<1>5. n + 1 \in 1..(n + 1) /\ \A i \in 1..n : i \in 1..(n + 1)
  BY <1>2
<1> HIDE DEF n
<1> QED BY <1>1, <1>2, <1>3, <1>4, <1>5 DEF Atomic!Applied

LEMMA CommitStores ==
    ASSUME WriteInv, StoredInv, NEW r \in Replicas, Commit(r)
    PROVE  StoredInv'
<1>1. current[r] \in Writes /\ outcome[current[r]] = "running"
  BY DEF Commit, WriteInv, WriteTypeOK, ThreadOK
<1>2. ASSUME NEW q \in Replicas PROVE StoredOK(q)'
  <2>1. SUFFICES ASSUME thread'[q] \in InWrite
                 PROVE  Atomic!Applied(current[q])' <=> thread'[q] = "committed"
    BY DEF StoredOK
  <2>2. current'[q] = current[q] /\ current[q] \in Writes
    BY <1>1, <2>1 DEF Commit, Goto, WriteInv, WriteTypeOK, ThreadOK
  <2>3. CASE q = r
    BY <1>1, <2>3, CommitAdds DEF Commit, Goto, Atomic!Applied, WriteInv, WriteTypeOK
  <2>4. CASE q # r
    <3>1. current[q] # current[r]
      BY <2>2, <2>4, NoWriteAssumption DEF WriteInv, OneOwner
    <3>2. thread'[q] = thread[q]
      BY <2>4 DEF Commit, Goto, WriteInv, WriteTypeOK
    <3>3. Atomic!Applied(current[q])' <=> Atomic!Applied(current[q])
      BY <2>2, <3>1, CommitAdds DEF Atomic!Applied
    <3> QED BY <2>1, <3>2, <3>3 DEF StoredInv, StoredOK
  <2> QED BY <2>3, <2>4
<1>3. ASSUME NEW w \in Writes, outcome'[w] = "new" PROVE ~Atomic!Applied(w)'
  BY <1>1, <1>3, CommitAdds DEF Commit, StoredInv
<1> QED BY <1>2, <1>3 DEF StoredInv

(* Every other step leaves the database alone, and a thread that stays     *)
(* inside of a write on its side of the commit point.                      *)
LEMMA QuietStores ==
    ASSUME StoredInv, UNCHANGED database,
           \A q \in Replicas :
               thread'[q] \in InWrite =>
                   /\ thread[q] \in InWrite /\ current'[q] = current[q]
                   /\ thread'[q] = "committed" <=> thread[q] = "committed",
           \A w \in Writes : outcome'[w] = "new" => outcome[w] = "new"
    PROVE  StoredInv'
  BY DEF StoredInv, StoredOK, Atomic!Applied

LEMMA StoredInvStep == WriteInv /\ StoredInv /\ [Next]_vars => StoredInv'
<1> SUFFICES ASSUME WriteInv, StoredInv, [Next]_vars PROVE StoredInv'
  OBVIOUS
<1>1. CASE UNCHANGED writeVars
  BY <1>1, QuietStores DEF writeVars
<1>2. ASSUME NEW r \in Replicas, NEW w \in Writes, CallWrite(r, w)
      PROVE  StoredInv'
  <2>1. UNCHANGED database /\ outcome[w] = "new"
    BY <1>2 DEF CallWrite
  <2>2. ASSUME NEW q \in Replicas PROVE StoredOK(q)'
    <3>1. CASE q = r
      BY <1>2, <2>1, <3>1
         DEF CallWrite, Goto, StoredInv, StoredOK, WriteInv, WriteTypeOK, Atomic!Applied
    <3>2. CASE q # r
      BY <1>2, <2>1, <3>2
         DEF CallWrite, Goto, StoredInv, StoredOK, WriteInv, WriteTypeOK, Atomic!Applied
    <3> QED BY <3>1, <3>2
  <2>3. \A v \in Writes : outcome'[v] = "new" => ~Atomic!Applied(v)'
    BY <1>2, <2>1 DEF CallWrite, StoredInv, WriteInv, WriteTypeOK, Atomic!Applied
  <2> QED BY <2>2, <2>3 DEF StoredInv
<1>3. ASSUME NEW r \in Replicas, EndsCall(r) PROVE StoredInv'
  <2>1. CallOver(r) /\ database' = database
    BY <1>3, EndsCallIsOver
  <2>2. \A w \in Writes : outcome'[w] = "new" => outcome[w] = "new"
    <3>1. current[r] \in Writes => outcome'[current[r]] # "new"
      BY <1>3 DEF EndsCall, ReturnWrite, WriteThrows, CommitFails, GiveUp,
                  DieInWrite, EndCall, WriteInv, WriteTypeOK
    <3> QED BY <2>1, <3>1 DEF CallOver
  <2>3. \A q \in Replicas : thread'[q] \in InWrite =>
            thread'[q] = thread[q] /\ current'[q] = current[q]
    BY <2>1 DEF CallOver, WriteInv, WriteTypeOK
  <2> QED BY <2>1, <2>2, <2>3, QuietStores
<1>4. ASSUME NEW r \in Replicas,
             \/ BeginImmediate(r) \/ RunBody(r) \/ AskExclusive(r)
             \/ StartRead(r) \/ EndRead(r) \/ Backoff(r) \/ TryAgain(r)
             \/ ReadGivesUp(r) \/ CallRead(r)
      PROVE  StoredInv'
  <2>1. UNCHANGED <<database, outcome, current>>
    BY <1>4 DEF BeginImmediate, RunBody, AskExclusive, StartRead, EndRead,
                Backoff, TryAgain, ReadGivesUp, CallRead
  <2>2. ASSUME NEW q \in Replicas, thread'[q] \in InWrite
        PROVE  /\ thread[q] \in InWrite
               /\ thread'[q] = "committed" <=> thread[q] = "committed"
    <3>1. CASE q # r \/ AskExclusive(r) \/ StartRead(r)
      BY <1>4, <2>2, <3>1
         DEF BeginImmediate, RunBody, AskExclusive, StartRead, EndRead, Backoff,
             TryAgain, ReadGivesUp, CallRead, Goto, WriteInv, WriteTypeOK
    <3>2. CASE q = r /\ ~AskExclusive(r) /\ ~StartRead(r)
      BY <1>4, <2>2, <3>2
         DEF BeginImmediate, RunBody, EndRead, Backoff, TimedOut, TryAgain,
             ReadGivesUp, CallRead, Goto, WriteInv, WriteTypeOK
    <3> QED BY <3>1, <3>2
  <2> QED BY <2>1, <2>2, QuietStores
<1>5. ASSUME NEW r \in Replicas, Resolve(r) \/ Sqlite(r) \/ Crash(r)
      PROVE  StoredInv'
  BY <1>2, <1>3, <1>4, <1>5, CommitStores
     DEF Resolve, Sqlite, FileAccess, Waiting, Crash, EndsCall
<1>6. CASE \/ \E r \in Replicas, p \in Probes : Ready(r, p)
           \/ \E p \in Probes :
                  ProbeCallback(p) \/ TimerCallback(p) \/ ThreadPool(p)
           \/ Mount
  BY <1>1, <1>6 DEF Ready, ProbeCallback, TimerCallback, ThreadPool, Mount
<1> QED BY <1>1, <1>5, <1>6 DEF Next, vars

LEMMA StoredInvAlways == Spec => [](WriteInv /\ StoredInv)
<1>1. Init => WriteInv /\ StoredInv
  <2>1. Init => StoredInv
    BY DEF Init, WriteInit, StoredInv, StoredOK, Atomic!Applied
  <2> QED BY <2>1, WriteInvInit DEF Init
<1> QED BY <1>1, WriteInvStep, StoredInvStep, PTL DEF Spec

-----------------------------------------------------------------------------
(* The commit point applies a write that has not been applied.             *)
LEMMA CommitApplies ==
    ASSUME WriteInv, StoredInv, NEW r \in Replicas, Commit(r)
    PROVE  Atomic!Next
<1>1. current[r] \in Writes /\ outcome[current[r]] = "running"
  BY DEF Commit, WriteInv, WriteTypeOK, ThreadOK
<1>2. ~Atomic!Applied(current[r])
  BY DEF Commit, StoredInv, StoredOK
<1>3. Atomic!Apply(current[r])
  BY <1>1, <1>2, CommitAdds DEF Commit, Atomic!Apply
<1> QED BY <1>1, <1>3 DEF Atomic!Next

(* A call ends as the abstract one does: on either side of the commit      *)
(* point where nobody knows, on the known side otherwise.                  *)
LEMMA EndsCallEnds ==
    ASSUME WriteInv, StoredInv, NEW r \in Replicas, EndsCall(r)
    PROVE  Atomic!Next \/ UNCHANGED Atomic!vars
<1>1. current[r] \in Writes => outcome[current[r]] = "running" /\ thread[r] \in InWrite
  BY NoWriteAssumption DEF WriteInv, WriteTypeOK, ThreadOK
<1>2. ~DieInWrite(r) => current[r] \in Writes
  BY DEF EndsCall, WriteInv, WriteTypeOK, ThreadOK, ReturnWrite, WriteThrows,
         CommitFails, GiveUp, TimedOut
<1>3. CASE ReturnWrite(r)
  <2>1. Atomic!Return(current[r])
    BY <1>1, <1>2, <1>3, NoWriteAssumption
       DEF ReturnWrite, EndCall, Atomic!Return, Atomic!End, StoredInv, StoredOK,
           WriteInv, WriteTypeOK, ThreadOK
  <2>2. current[r] \in Writes
    BY <1>3 DEF ReturnWrite, WriteInv, WriteTypeOK, ThreadOK
  <2> QED BY <2>1, <2>2 DEF Atomic!Next
<1>4. CASE WriteThrows(r) \/ GiveUp(r)
  <2>1. current[r] \in Writes /\ ~Atomic!Applied(current[r])
    BY <1>4 DEF WriteThrows, GiveUp, TimedOut, StoredInv, StoredOK, WriteInv,
                WriteTypeOK, ThreadOK
  <2>2. Atomic!Refuse(current[r])
    BY <1>1, <1>4, <2>1 DEF WriteThrows, GiveUp, EndCall, Atomic!Refuse, Atomic!End
  <2> QED BY <2>1, <2>2 DEF Atomic!Next
<1>5. CASE CommitFails(r)
  <2>1. current[r] \in Writes
    BY <1>5 DEF CommitFails, WriteInv, WriteTypeOK, ThreadOK
  <2>2. Atomic!Doubt(current[r])
    BY <1>1, <1>5, <2>1 DEF CommitFails, EndCall, Atomic!Doubt, Atomic!End
  <2> QED BY <2>1, <2>2 DEF Atomic!Next
<1>6. CASE DieInWrite(r) /\ current[r] = Null
  <2>1. outcome' = outcome
    BY <1>6, NoWriteAssumption DEF DieInWrite, WriteInv, WriteTypeOK
  <2> QED BY <1>6, <2>1 DEF DieInWrite, Atomic!vars
<1>7. CASE DieInWrite(r) /\ current[r] \in Writes
  <2>1. outcome' = [outcome EXCEPT ![current[r]] = "unknown"]
    BY <1>7 DEF DieInWrite, WriteInv, WriteTypeOK
  <2>2. Atomic!Doubt(current[r])
    BY <1>1, <1>7, <2>1 DEF DieInWrite, Atomic!Doubt, Atomic!End
  <2> QED BY <1>7, <2>2 DEF Atomic!Next
<1> QED BY <1>3, <1>4, <1>5, <1>6, <1>7 DEF EndsCall, WriteInv, WriteTypeOK

(* Every step of the replicas is a step of AtomicWrites or none.           *)
LEMMA AtomicStep ==
    WriteInv /\ StoredInv /\ [Next]_vars => [Atomic!Next]_(Atomic!vars)
<1> SUFFICES ASSUME WriteInv, StoredInv, [Next]_vars
             PROVE  Atomic!Next \/ UNCHANGED Atomic!vars
  OBVIOUS
<1>1. CASE UNCHANGED writeVars
  BY <1>1 DEF writeVars, Atomic!vars
<1>2. ASSUME NEW r \in Replicas, Resolve(r)
      PROVE  Atomic!Next \/ UNCHANGED Atomic!vars
  <2>1. CASE CallRead(r)
    BY <2>1 DEF CallRead, Atomic!vars
  <2>2. ASSUME NEW w \in Writes, CallWrite(r, w) PROVE Atomic!Next
    BY <2>2 DEF CallWrite, Atomic!Next, Atomic!Call
  <2> QED BY <1>2, <2>1, <2>2 DEF Resolve
<1>3. ASSUME NEW r \in Replicas, Sqlite(r)
      PROVE  Atomic!Next \/ UNCHANGED Atomic!vars
  <2>1. CASE Commit(r)
    BY <2>1, CommitApplies
  <2>2. CASE EndsCall(r)
    BY <2>2, EndsCallEnds
  <2>3. CASE \/ BeginImmediate(r) \/ RunBody(r) \/ AskExclusive(r)
             \/ StartRead(r) \/ EndRead(r) \/ Backoff(r) \/ TryAgain(r)
             \/ ReadGivesUp(r)
    BY <2>3 DEF BeginImmediate, RunBody, AskExclusive, StartRead, EndRead,
                Backoff, TryAgain, ReadGivesUp, Atomic!vars
  <2> QED BY <1>3, <2>1, <2>2, <2>3 DEF Sqlite, FileAccess, Waiting, EndsCall
<1>4. ASSUME NEW r \in Replicas, Crash(r)
      PROVE  Atomic!Next \/ UNCHANGED Atomic!vars
  BY <1>4, EndsCallEnds DEF Crash, EndsCall
<1>5. CASE \/ \E r \in Replicas, p \in Probes : Ready(r, p)
           \/ \E p \in Probes :
                  ProbeCallback(p) \/ TimerCallback(p) \/ ThreadPool(p)
           \/ Mount
  BY <1>1, <1>5 DEF Ready, ProbeCallback, TimerCallback, ThreadPool, Mount
<1> QED BY <1>1, <1>2, <1>3, <1>4, <1>5 DEF Next, vars

(* The write path implements AtomicWrites: through busy attempts, readers, *)
(* exceptions and crashes, also between the commit point and the return of *)
(* runWrite, no write is applied in part, twice, or after its call ended.  *)
THEOREM WritesAtomic == Spec => WritesAreAtomic
<1>1. Init => Atomic!Init
  BY DEF Init, WriteInit, Atomic!Init
<1> QED
  BY <1>1, AtomicStep, StoredInvAlways, PTL DEF Spec, WritesAreAtomic, Atomic!Spec

-----------------------------------------------------------------------------
(* What AtomicWrites promises, and with it the write path.                 *)
AtomicInv == Atomic!TypeOK /\ Atomic!AppliedOnce

(* A write that is applied was not in the database before, and is last.    *)
LEMMA ApplyOnce ==
    ASSUME AtomicInv, NEW w \in Writes, Atomic!Apply(w)
    PROVE  AtomicInv'
<1> USE DEF AtomicInv, Atomic!TypeOK, Atomic!Outcomes
<1> DEFINE n == Len(database)
<1>1. /\ outcome[w] = "running" /\ ~Atomic!Applied(w)
      /\ outcome' = outcome
      /\ database' = Append(database, w)
  BY DEF Atomic!Apply
<1>2. n \in Nat /\ DOMAIN database = 1..n
  OBVIOUS
<1>3. /\ database' \in Seq(Writes)
      /\ DOMAIN database' = 1..(n + 1)
      /\ \A i \in 1..n : database'[i] = database[i]
      /\ database'[n + 1] = w
  BY <1>1, <1>2
<1>4. \A i \in 1..n : database[i] # w
  BY <1>1, <1>2 DEF Atomic!Applied
<1>5. \A i \in 1..(n + 1) : i \in 1..n \/ i = n + 1
  BY <1>2
<1>6. n + 1 \in 1..(n + 1) /\ \A i \in 1..n : i \in 1..(n + 1)
  BY <1>2
<1>7. ASSUME NEW i \in DOMAIN database', NEW j \in DOMAIN database',
             database'[i] = database'[j]
      PROVE  i = j
  BY <1>2, <1>3, <1>4, <1>5, <1>7 DEF Atomic!AppliedOnce
<1>8. ASSUME NEW v \in Writes
      PROVE  Atomic!Applied(v)' <=> Atomic!Applied(v) \/ v = w
  <2> HIDE DEF n
  <2> QED BY <1>2, <1>3, <1>5, <1>6 DEF Atomic!Applied
<1>9. ASSUME NEW v \in Writes
      PROVE  /\ outcome'[v] = "returned" => Atomic!Applied(v)'
             /\ Atomic!Applied(v)' => outcome'[v] \notin {"new", "refused"}
  BY <1>1, <1>8 DEF Atomic!AppliedOnce
<1> QED BY <1>1, <1>3, <1>7, <1>9 DEF Atomic!AppliedOnce

(* So every step keeps the promise.                                        *)
LEMMA AtomicInvStep == AtomicInv /\ [Atomic!Next]_(Atomic!vars) => AtomicInv'
<1> SUFFICES ASSUME AtomicInv, [Atomic!Next]_(Atomic!vars) PROVE AtomicInv'
  OBVIOUS
<1> USE DEF AtomicInv, Atomic!TypeOK, Atomic!AppliedOnce, Atomic!Outcomes
<1>1. CASE UNCHANGED Atomic!vars
  BY <1>1 DEF Atomic!vars, Atomic!Applied
<1>2. ASSUME NEW w \in Writes, Atomic!Apply(w) PROVE AtomicInv'
  BY <1>2, ApplyOnce
<1>3. ASSUME NEW w \in Writes,
             \/ Atomic!Call(w) \/ Atomic!Return(w)
             \/ Atomic!Refuse(w) \/ Atomic!Doubt(w)
      PROVE  AtomicInv'
  <2>1. database' = database /\ outcome' \in [Writes -> Atomic!Outcomes]
    BY <1>3 DEF Atomic!Call, Atomic!Return, Atomic!Refuse, Atomic!Doubt, Atomic!End
  <2>2. \A v \in Writes : Atomic!Applied(v)' <=> Atomic!Applied(v)
    BY <2>1 DEF Atomic!Applied
  <2>3. ASSUME NEW v \in Writes
        PROVE  /\ outcome'[v] = "returned" => Atomic!Applied(v)
               /\ Atomic!Applied(v) => outcome'[v] \notin {"new", "refused"}
    BY <1>3 DEF Atomic!Call, Atomic!Return, Atomic!Refuse, Atomic!Doubt, Atomic!End
  <2> QED BY <2>1, <2>2, <2>3
<1> QED BY <1>1, <1>2, <1>3 DEF Atomic!Next

(* No write is stored twice; one whose call returned is stored and one     *)
(* whose call was refused is not, for any number of replicas and attempts. *)
THEOREM WritesAppliedOnce == Spec => []Atomic!AppliedOnce
<1>1. Atomic!Init => AtomicInv
  BY DEF Atomic!Init, AtomicInv, Atomic!TypeOK, Atomic!AppliedOnce,
         Atomic!Applied, Atomic!Outcomes
<1>2. AtomicInv => Atomic!AppliedOnce
  BY DEF AtomicInv
<1> QED
  BY <1>1, <1>2, AtomicInvStep, WritesAtomic, PTL DEF WritesAreAtomic, Atomic!Spec

(* What is committed stays, in its place: no later transaction, repeated   *)
(* attempt, rollback or crash takes a write back.                          *)
THEOREM WritesDurable == Spec => Atomic!Durable
<1> DEFINE Kept == \A i \in DOMAIN database :
                      i \in DOMAIN database' /\ database'[i] = database[i]
<1>1. Atomic!Init => AtomicInv
  BY DEF Atomic!Init, AtomicInv, Atomic!TypeOK, Atomic!AppliedOnce,
         Atomic!Applied, Atomic!Outcomes
<1>2. ASSUME AtomicInv, [Atomic!Next]_(Atomic!vars) PROVE [Kept]_(Atomic!vars)
  <2>1. CASE UNCHANGED database
    BY <2>1
  <2>2. ASSUME NEW w \in Writes, Atomic!Apply(w) PROVE Kept
    BY <1>2, <2>2 DEF AtomicInv, Atomic!TypeOK, Atomic!Apply
  <2> QED
    BY <1>2, <2>1, <2>2 DEF Atomic!Next, Atomic!Call, Atomic!Return, Atomic!Refuse,
                            Atomic!Doubt, Atomic!End, Atomic!vars
<1>3. Spec => [][Kept]_(Atomic!vars)
  BY <1>1, <1>2, AtomicInvStep, WritesAtomic, PTL DEF WritesAreAtomic, Atomic!Spec
<1> QED
  BY <1>3, PTL DEF Atomic!Durable

-----------------------------------------------------------------------------
(* The probe: while a call is awaited the answer is not up, an unlink that *)
(* succeeded has removed the file, and a probe that gave up on its calls   *)
(* has answered down.                                                      *)
ProbeOK(p) ==
    /\ answer[p] = "up" => fsCall[p] = "settled" /\ ~probeFile[p]
    /\ fsCall[p] = "unlink" /\ result[p] = "ok" => ~probeFile[p]
    /\ fsCall[p] \in FsCalls => answer[p] \in {"pending", "down"}
    /\ fsCall[p] = "settled" =>
           /\ answer[p] \in {"up", "down"}
           /\ ~probeFile[p] \/ result[p] = "error"

ProbeInv == ProbeTypeOK /\ \A p \in Probes : ProbeOK(p)

(* No probe has started.                                                   *)
LEMMA ProbeInvInit == ProbeInit => ProbeInv
<1> SUFFICES ASSUME ProbeInit PROVE ProbeInv
  OBVIOUS
<1> QED BY DEF ProbeInit, ProbeInv, ProbeTypeOK, ProbeOK, Mounts, FsCalls

USE DEF Mounts, FsCalls

(* A probe that starts is pending.                                         *)
LEMMA StartProbeKeepsInv ==
    ASSUME ProbeInv, NEW r \in Replicas, NEW p \in Probes, StartProbe(r, p)
    PROVE  ProbeInv'
  BY NoReplicaAssumption DEF ProbeInv, ProbeTypeOK, ProbeOK, StartProbe

(* A successful unlink removes the file of its probe.                      *)
LEMMA RunCallKeepsInv ==
    ASSUME ProbeInv, NEW p \in Probes, RunCall(p)
    PROVE  ProbeInv'
<1> USE DEF ProbeInv, RunCall
<1>1. FileAfter(p, fsCall[p]) \in BOOLEAN
  BY DEF FileAfter, ProbeTypeOK
<1>2. Outcome(fsCall[p]) \in {"ok", "error"}
  BY DEF Outcome
<1>3. ProbeTypeOK'
  BY <1>1, <1>2 DEF ProbeTypeOK
<1>4. fsCall[p] = "unlink" /\ Outcome(fsCall[p]) = "ok"
        => ~FileAfter(p, fsCall[p])
  BY DEF Outcome, Rejected, FileAfter
<1>5. ASSUME NEW q \in Probes PROVE ProbeOK(q)'
  <2>1. CASE q = p
    BY <1>4, <2>1 DEF ProbeTypeOK, ProbeOK
  <2>2. CASE q # p
    BY <2>2 DEF ProbeTypeOK, ProbeOK
  <2> QED BY <2>1, <2>2
<1> QED BY <1>3, <1>5

(* Only a probe whose three calls succeeded answers up.                    *)
LEMMA ContinueKeepsInv ==
    ASSUME ProbeInv, NEW p \in Probes, Continue(p)
    PROVE  ProbeInv'
<1> USE DEF ProbeInv
<1>1. CASE result[p] = "error" /\ Settle(p, "down")
  BY <1>1 DEF Continue, Settle, ProbeTypeOK, ProbeOK
<1>2. CASE result[p] = "ok" /\ fsCall[p] = "unlink" /\ Settle(p, "up")
  BY <1>2 DEF Settle, ProbeTypeOK, ProbeOK
<1>3. ASSUME NEW call \in {"writeFile", "unlink"}, AwaitNext(p, call)
      PROVE  ProbeInv'
  BY <1>3 DEF Continue, AwaitNext, ProbeTypeOK, ProbeOK
<1> QED BY <1>1, <1>2, <1>3 DEF Continue

(* A timeout answers down.                                                 *)
LEMMA TimeOutKeepsInv ==
    ASSUME ProbeInv, NEW p \in Probes, TimeOut(p)
    PROVE  ProbeInv'
  BY DEF ProbeInv, ProbeTypeOK, ProbeOK, TimeOut

(* A killed probe gives no answer any more.                                *)
LEMMA LoseProbesKeepsInv ==
    ASSUME ProbeInv, NEW r \in Replicas, LoseProbes(r)
    PROVE  ProbeInv'
<1> USE DEF ProbeInv, LoseProbes
<1>1. ProbeTypeOK'
  BY NoReplicaAssumption DEF ProbeTypeOK
<1>2. ASSUME NEW p \in Probes PROVE ProbeOK(p)'
  BY <1>2, NoReplicaAssumption DEF ProbeTypeOK, ProbeOK
<1> QED BY <1>1, <1>2

(* All steps together.                                                     *)
LEMMA ProbeInvStep == ProbeInv /\ [Next]_vars => ProbeInv'
<1> SUFFICES ASSUME ProbeInv, [Next]_vars PROVE ProbeInv'
  OBVIOUS
<1>1. CASE UNCHANGED probeVars
  BY <1>1 DEF probeVars, ProbeInv, ProbeTypeOK, ProbeOK
<1>2. CASE \E r \in Replicas : Resolve(r) \/ Sqlite(r)
  BY <1>1, <1>2 DEF Resolve, Sqlite
<1>3. CASE \E r \in Replicas : Crash(r)
  BY <1>3, LoseProbesKeepsInv DEF Crash
<1>4. CASE \E r \in Replicas, p \in Probes : Ready(r, p)
  BY <1>4, StartProbeKeepsInv DEF Ready
<1>5. CASE \E p \in Probes :
               ProbeCallback(p) \/ TimerCallback(p) \/ ThreadPool(p)
  BY <1>5, ContinueKeepsInv, TimeOutKeepsInv, RunCallKeepsInv
     DEF ProbeCallback, TimerCallback, ThreadPool
<1>6. CASE Mount
  BY <1>6 DEF Mount, MountChanges, ProbeInv, ProbeTypeOK, ProbeOK
<1> QED BY <1>1, <1>2, <1>3, <1>4, <1>5, <1>6 DEF Next, vars

(* The invariant of the probes holds always.                               *)
LEMMA ProbeInvAlways == Spec => []ProbeInv
<1>1. Init => ProbeInv
  BY ProbeInvInit DEF Init
<1> QED BY <1>1, ProbeInvStep, PTL DEF Spec

(* A replica reports itself ready only after a whole round trip to the     *)
(* volume, and that round trip has left no file behind.                    *)
THEOREM ReadyIsWritable == Spec => []ReadyMeansWritable
<1>1. ProbeInv => ReadyMeansWritable
  BY DEF ProbeInv, ProbeOK, ReadyMeansWritable
<1> QED BY <1>1, ProbeInvAlways, PTL

(* The only files that settled probes leave on the volume are those of     *)
(* calls that the volume rejected, and the answer to each was down.        *)
THEOREM LeftoversReported == Spec => []LeftoverIsReported
<1>1. ProbeInv => LeftoverIsReported
  BY DEF ProbeInv, ProbeOK, LeftoverIsReported
<1> QED BY <1>1, ProbeInvAlways, PTL

(* Every reachable state of the replicas is typed; the attempts of a write *)
(* stay within MaxAttempts.                                                *)
THEOREM ReplicaTyped == Spec => []TypeOK
<1>1. WriteInv /\ ProbeInv => TypeOK
  BY DEF WriteInv, ProbeInv, TypeOK
<1> QED BY <1>1, WriteInvAlways, ProbeInvAlways, PTL
=============================================================================
