--------------------------- MODULE BackendReplica ---------------------------
(***************************************************************************)
(* The backend replicas as processes: one thread each, which is either     *)
(* inside a synchronous SQLite call or runs the callbacks of readiness     *)
(* probes, over one volume that holds both the database file and the       *)
(* probes' files.                                                          *)
(***************************************************************************)
EXTENDS WritePath, HealthProbe

vars == <<writeVars, probeVars>>

TypeOK == WriteTypeOK /\ ProbeTypeOK

Init == WriteInit /\ ProbeInit

LoopFree(r) == thread[r] = "idle"

-----------------------------------------------------------------------------
(* A resolver runs on the thread until it returns. SQLite's file accesses  *)
(* hang with the mount, its waiting does not need it.                      *)
Resolve(r) ==
    /\ \/ CallRead(r)
       \/ \E w \in Writes : CallWrite(r, w)
    /\ UNCHANGED probeVars

Sqlite(r) ==
    /\ \/ mount # "hung" /\ FileAccess(r)
       \/ Waiting(r)
    /\ UNCHANGED probeVars

(* Callbacks of probes, when the event loop gets to them.                  *)
Ready(r, p) == LoopFree(r) /\ StartProbe(r, p) /\ UNCHANGED writeVars

ProbeCallback(p) ==
    /\ server[p] # Null
    /\ LoopFree(server[p])
    /\ Continue(p)
    /\ UNCHANGED writeVars

TimerCallback(p) ==
    /\ server[p] # Null
    /\ LoopFree(server[p])
    /\ TimeOut(p)
    /\ UNCHANGED writeVars

ThreadPool(p) == RunCall(p) /\ UNCHANGED writeVars

Mount == MountChanges /\ UNCHANGED writeVars

(* The process is killed and started again.                                *)
Crash(r) == DieInWrite(r) /\ LoseProbes(r)

Next ==
    \/ \E r \in Replicas :
           \/ Resolve(r)
           \/ Sqlite(r)
           \/ Crash(r)
           \/ \E p \in Probes : Ready(r, p)
    \/ \E p \in Probes : ProbeCallback(p) \/ TimerCallback(p) \/ ThreadPool(p)
    \/ Mount

Spec == Init /\ [][Next]_vars

-----------------------------------------------------------------------------
(* The write path implements atomic writes: through waiting, busy commits, *)
(* repeated attempts, readers, exceptions and crashes a write is applied   *)
(* at most once, while its call runs, to the database that the writes of   *)
(* all replicas before it made; always if the call returns, never if it    *)
(* gave up busy or threw before COMMIT, and wholly or not at all if COMMIT *)
(* failed or the process died inside of it.                                *)
Atomic == INSTANCE AtomicWrites

WritesAreAtomic == Atomic!Spec

(* Why: at most one replica is past BEGIN IMMEDIATE, so what its           *)
(* transaction has read is still the database when it commits.             *)
InTransaction == {"body", "commit", "committed"}

NoStaleTransaction ==
    \A r \in Replicas :
        /\ lock[r] \in WriteLocks <=> thread[r] \in InTransaction
        /\ thread[r] \in InTransaction =>
               \A q \in Replicas : thread[q] \in InTransaction => q = r
        /\ thread[r] = "commit" => draft[r] = Append(database, current[r])

(* A replica that is up reports itself ready only after a whole round trip *)
(* on the volume, and leaves nothing behind by it, whatever the timer, the *)
(* other calls of its thread and the mount do.                             *)
ReadyMeansWritable ==
    \A p \in Probes :
        answer[p] = "up" => fsCall[p] = "settled" /\ ~probeFile[p]

(* On a full volume writeFile leaves its file and rejects, and nothing     *)
(* removes it. A probe that has settled leaves a file only so, by a call   *)
(* that the volume rejected, and has told the readiness check about it:    *)
(* no file is left by a probe that answered up or was only too slow.       *)
LeftoverIsReported ==
    \A p \in Probes :
        probeFile[p] /\ fsCall[p] = "settled"
            => result[p] = "error" /\ answer[p] = "down"

-----------------------------------------------------------------------------
(* Fairness. The thread goes on with what it is inside of, the thread pool *)
(* with its calls; busy_timeout and sleepSync end. The event loop serves   *)
(* settled calls and due timers at every turn, however often resolvers run *)
(* in between: strong fairness. Nobody has to make a request.              *)
Fairness ==
    /\ \A r \in Replicas : WF_vars(Sqlite(r))
    /\ \A p \in Probes :
           /\ WF_vars(ThreadPool(p))
           /\ SF_vars(ProbeCallback(p))
           /\ SF_vars(TimerCallback(p))

FairSpec == Spec /\ Fairness

(* Every write returns or throws, and with it the thread is free again,    *)
(* unless the mount hangs: the number of attempts is bounded, however      *)
(* often readers and writers of other replicas get the lock first.         *)
EveryWriteEnds ==
    \A w \in Writes :
        outcome[w] = "running" ~> outcome[w] # "running" \/ mount = "hung"

(* A hung mount cannot stall a readiness answer as long as the thread of   *)
(* its replica is not inside SQLite, which waits for the same mount.       *)
ProbePending(p) == answer[p] = "pending"

EveryProbeAnswered ==
    \A p \in Probes :
        ProbePending(p) ~>
            \/ ~ProbePending(p)
            \/ mount = "hung" /\ ~LoopFree(server[p])

(* The probe that lost the race still removes its file, unless its process *)
(* dies, the volume fails it or the mount hangs.                           *)
ProbeFileRemoved ==
    \A p \in Probes :
        probeFile[p] ~>
            \/ ~probeFile[p]
            \/ fsCall[p] = "killed"
            \/ result[p] = "error"
            \/ mount = "hung"
=============================================================================
