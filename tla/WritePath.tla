------------------------------ MODULE WritePath ------------------------------
(***************************************************************************)
(* The inside of a mutation of SqliteMetadataStore: runWrite, that is      *)
(* runWithBusyRetry around a BEGIN IMMEDIATE transaction, in the only      *)
(* thread of each backend replica, over one database file with the locks   *)
(* of SQLite's rollback journal.                                           *)
(*                                                                         *)
(* A write is a name here.  What it reads and what it stores is the        *)
(* sequence of the writes the database consists of, which tells a write    *)
(* that was lost, repeated or based on old data from one that was not.     *)
(***************************************************************************)
EXTENDS ReplicaTypes, Naturals, Sequences

CONSTANTS
    Writes,        \* the calls of mutations that are made
    MaxAttempts    \* DEFAULT_MAX_WRITE_ATTEMPTS

ASSUME NoWriteAssumption == Null \notin Writes
ASSUME AttemptsAssumption == MaxAttempts \in Nat \ {0}

VARIABLES
    database,   \* the committed writes, in order
    outcome,    \* what became of each call
    thread,     \* what the thread of replica r is inside of
    current,    \* the write that it runs
    attempt,    \* the loop variable of runWithBusyRetry
    lock,       \* the lock of its connection on the database file
    draft       \* the database as its open transaction sees it

writeVars == <<database, outcome, thread, current, attempt, lock, draft>>

(* refused: thrown before COMMIT or as busy; unknown: thrown by COMMIT, or  *)
(* not answered because the process died.                                  *)
Outcomes == {"new", "running", "returned", "refused", "unknown"}

(* begin, body, commit, committed: inside tx.immediate(), before and after *)
(* SQLite's commit point; backoff: inside sleepSync; read: inside a SELECT *)
(* of a query; idle: the event loop may run.                               *)
InWrite == {"begin", "body", "commit", "committed", "backoff"}
Threads == {"idle", "read"} \cup InWrite

(* pending: a commit that keeps new readers out and waits for the old ones.*)
Locks == {"none", "shared", "reserved", "pending"}
WriteLocks == {"reserved", "pending"}

WriteTypeOK ==
    /\ database \in Seq(Writes)
    /\ outcome \in [Writes -> Outcomes]
    /\ thread \in [Replicas -> Threads]
    /\ current \in [Replicas -> Writes \cup {Null}]
    /\ attempt \in [Replicas -> 0..MaxAttempts]
    /\ lock \in [Replicas -> Locks]
    /\ draft \in [Replicas -> Seq(Writes)]

WriteInit ==
    /\ database = <<>>
    /\ outcome = [w \in Writes |-> "new"]
    /\ thread = [r \in Replicas |-> "idle"]
    /\ current = [r \in Replicas |-> Null]
    /\ attempt = [r \in Replicas |-> 0]
    /\ lock = [r \in Replicas |-> "none"]
    /\ draft = [r \in Replicas |-> <<>>]

Goto(r, label) == thread' = [thread EXCEPT ![r] = label]
SetLock(r, l) == lock' = [lock EXCEPT ![r] = l]

-----------------------------------------------------------------------------
(* The locks of the rollback journal.                                      *)
Others(r) == Replicas \ {r}
MayRead(r) == \A q \in Others(r) : lock[q] # "pending"

(* A plain BEGIN asks for no lock until the transaction writes.            *)
MayReserveDeferred(r) == MayRead(r)

MayReserve(r) == \A q \in Others(r) : lock[q] \notin WriteLocks
MayCommit(r) == \A q \in Others(r) : lock[q] # "shared"

-----------------------------------------------------------------------------
(* runWrite is called: the first attempt of the loop.                      *)
CallWrite(r, w) ==
    /\ thread[r] = "idle"
    /\ outcome[w] = "new"
    /\ outcome' = [outcome EXCEPT ![w] = "running"]
    /\ current' = [current EXCEPT ![r] = w]
    /\ attempt' = [attempt EXCEPT ![r] = 1]
    /\ Goto(r, "begin")
    /\ UNCHANGED <<database, lock, draft>>

(* BEGIN IMMEDIATE                                                         *)
BeginImmediate(r) ==
    /\ thread[r] = "begin"
    /\ MayReserve(r)
    /\ SetLock(r, "reserved")
    /\ Goto(r, "body")
    /\ UNCHANGED <<database, outcome, current, attempt, draft>>

(* The statements of the mutation: they read and change the transaction.   *)
RunBody(r) ==
    /\ thread[r] = "body"
    /\ draft' = [draft EXCEPT ![r] = Append(database, current[r])]
    /\ Goto(r, "commit")
    /\ UNCHANGED <<database, outcome, current, attempt, lock>>

(* COMMIT keeps new readers out, ...                                       *)
AskExclusive(r) ==
    /\ thread[r] = "commit"
    /\ lock[r] = "reserved"
    /\ SetLock(r, "pending")
    /\ UNCHANGED <<database, outcome, thread, current, attempt, draft>>

(* The call is over: the transaction was committed or rolled back.         *)
EndCall(r, result) ==
    /\ outcome' = [outcome EXCEPT ![current[r]] = result]
    /\ current' = [current EXCEPT ![r] = Null]
    /\ attempt' = [attempt EXCEPT ![r] = 0]
    /\ draft' = [draft EXCEPT ![r] = <<>>]
    /\ SetLock(r, "none")
    /\ Goto(r, "idle")

(* ... and writes when the old ones are gone: the journal is removed, which *)
(* is the commit point, while runWrite has not returned.                   *)
Commit(r) ==
    /\ thread[r] = "commit"
    /\ lock[r] = "pending"
    /\ MayCommit(r)
    /\ database' = draft[r]
    /\ Goto(r, "committed")
    /\ UNCHANGED <<outcome, current, attempt, lock, draft>>

ReturnWrite(r) ==
    /\ thread[r] = "committed"
    /\ EndCall(r, "returned")
    /\ UNCHANGED database

(* The mutation throws (no such row, not FAILED), or SQLite fails before   *)
(* COMMIT with anything but busy: rollback, and no further attempt.        *)
WriteThrows(r) ==
    /\ thread[r] \in {"begin", "body"}
    /\ EndCall(r, "refused")
    /\ UNCHANGED database

(* A loop that tries again after any error, not only after busy.           *)
CommitFailsRetried(r) ==
    /\ thread[r] \in {"commit", "committed"}
    /\ attempt[r] < MaxAttempts
    /\ Goto(r, "backoff")
    /\ draft' = [draft EXCEPT ![r] = <<>>]
    /\ SetLock(r, "none")
    /\ UNCHANGED <<database, outcome, current, attempt>>

(* An I/O error of COMMIT, before its commit point or after it: the call   *)
(* throws, without a further attempt, and nobody knows which.              *)
CommitFails(r) ==
    /\ thread[r] \in {"commit", "committed"}
    /\ EndCall(r, "unknown")
    /\ UNCHANGED database

(* busy_timeout has passed at BEGIN or at COMMIT.                          *)
TimedOut(r) ==
    \/ thread[r] = "begin" /\ ~MayReserve(r)
    \/ thread[r] = "commit" /\ lock[r] = "pending" /\ ~MayCommit(r)

(* A loop that runs once more than it is told to.                          *)
OneAttemptTooMany(r) == attempt[r] = MaxAttempts + 1

LastAttempt(r) == attempt[r] = MaxAttempts

(* The attempt is rolled back and thrown as SQLITE_BUSY: the last one is   *)
(* rethrown, ...                                                           *)
GiveUp(r) ==
    /\ TimedOut(r)
    /\ LastAttempt(r)
    /\ EndCall(r, "refused")
    /\ UNCHANGED database

(* ... any other is followed by sleepSync ...                              *)
Backoff(r) ==
    /\ TimedOut(r)
    /\ ~LastAttempt(r)
    /\ Goto(r, "backoff")
    /\ draft' = [draft EXCEPT ![r] = <<>>]
    /\ SetLock(r, "none")
    /\ UNCHANGED <<database, outcome, current, attempt>>

(* A loop that does not count its attempts.                                *)
TryAgainUncounted(r) ==
    /\ thread[r] = "backoff"
    /\ Goto(r, "begin")
    /\ UNCHANGED <<database, outcome, current, attempt, lock, draft>>

(* ... and by the next attempt.                                            *)
TryAgain(r) ==
    /\ thread[r] = "backoff"
    /\ attempt' = [attempt EXCEPT ![r] = @ + 1]
    /\ Goto(r, "begin")
    /\ UNCHANGED <<database, outcome, current, lock, draft>>

-----------------------------------------------------------------------------
(* getUpload, listUploads, getRenditions: one SELECT outside runWrite, with *)
(* busy_timeout and without the retries.                                   *)
CallRead(r) ==
    /\ thread[r] = "idle"
    /\ Goto(r, "read")
    /\ UNCHANGED <<database, outcome, current, attempt, lock, draft>>

StartRead(r) ==
    /\ thread[r] = "read"
    /\ lock[r] = "none"
    /\ MayRead(r)
    /\ SetLock(r, "shared")
    /\ UNCHANGED <<database, outcome, thread, current, attempt, draft>>

EndRead(r) ==
    /\ thread[r] = "read"
    /\ lock[r] = "shared"
    /\ SetLock(r, "none")
    /\ Goto(r, "idle")
    /\ UNCHANGED <<database, outcome, current, attempt, draft>>

ReadGivesUp(r) ==
    /\ thread[r] = "read"
    /\ lock[r] = "none"
    /\ ~MayRead(r)
    /\ Goto(r, "idle")
    /\ UNCHANGED <<database, outcome, current, attempt, lock, draft>>

-----------------------------------------------------------------------------
(* The process dies: its locks go with it, and a transaction that had not  *)
(* reached its commit point is rolled back by the next one who opens the   *)
(* database; one that had is stored, though its call never returns.        *)
DieInWrite(r) ==
    /\ outcome' = [w \in Writes |-> IF current[r] = w THEN "unknown" ELSE outcome[w]]
    /\ current' = [current EXCEPT ![r] = Null]
    /\ attempt' = [attempt EXCEPT ![r] = 0]
    /\ draft' = [draft EXCEPT ![r] = <<>>]
    /\ SetLock(r, "none")
    /\ Goto(r, "idle")
    /\ UNCHANGED database

(* Steps that read or write the database file, and those that only wait.   *)
FileAccess(r) ==
    \/ BeginImmediate(r)
    \/ RunBody(r)
    \/ AskExclusive(r)
    \/ Commit(r)
    \/ ReturnWrite(r)
    \/ WriteThrows(r)
    \/ CommitFails(r)
    \/ StartRead(r)
    \/ EndRead(r)

Waiting(r) ==
    \/ GiveUp(r)
    \/ Backoff(r)
    \/ TryAgain(r)
    \/ ReadGivesUp(r)
=============================================================================
