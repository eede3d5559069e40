----------------------------- MODULE HealthProbe -----------------------------
(***************************************************************************)
(* GET /health/ready: UploadsHealthIndicator.isHealthy races probeWritable *)
(* (mkdir, writeFile, unlink of a file of its own on the uploads volume)   *)
(* against a timer.  The file calls run in the thread pool of the process; *)
(* their callbacks and the timer's need its event loop, which module       *)
(* BackendReplica adds to the actions.                                     *)
(***************************************************************************)
EXTENDS ReplicaTypes

CONSTANT Probes   \* the readiness requests that are made

VARIABLES
    mount,      \* what the NFS mount under /uploads does
    server,     \* the replica that runs the probe, Null before and after
    fsCall,     \* the call probeWritable awaits
    result,     \* how far that call is
    answer,     \* the readiness answer; the timer is armed while pending
    probeFile   \* does .health-<uuid> exist on the volume?

probeVars == <<mount, server, fsCall, result, answer, probeFile>>

(* full: a file can be created but not written, then writeFile rejects     *)
(* after it has created its file.                                          *)
Mounts == {"ok", "full", "readonly", "hung"}
FsCalls == {"mkdir", "writeFile", "unlink"}

ProbeTypeOK ==
    /\ mount \in Mounts
    /\ server \in [Probes -> Replicas \cup {Null}]
    /\ fsCall \in [Probes -> {"none", "settled", "killed"} \cup FsCalls]
    /\ result \in [Probes -> {"none", "running", "ok", "error"}]
    /\ answer \in [Probes -> {"none", "pending", "up", "down", "lost"}]
    /\ probeFile \in [Probes -> BOOLEAN]
    /\ \A p \in Probes : server[p] # Null <=> fsCall[p] \in FsCalls

ProbeInit ==
    /\ mount = "ok"
    /\ server = [p \in Probes |-> Null]
    /\ fsCall = [p \in Probes |-> "none"]
    /\ result = [p \in Probes |-> "none"]
    /\ answer = [p \in Probes |-> "none"]
    /\ probeFile = [p \in Probes |-> FALSE]

-----------------------------------------------------------------------------
(* isHealthy up to its await: probeWritable has called mkdir and the timer *)
(* is armed.                                                               *)
StartProbe(r, p) ==
    /\ fsCall[p] = "none"
    /\ server' = [server EXCEPT ![p] = r]
    /\ fsCall' = [fsCall EXCEPT ![p] = "mkdir"]
    /\ result' = [result EXCEPT ![p] = "running"]
    /\ answer' = [answer EXCEPT ![p] = "pending"]
    /\ UNCHANGED <<mount, probeFile>>

(* What the call does on the volume. mkdir finds the directory there.      *)
Rejected(call) ==
    \/ call = "writeFile" /\ mount # "ok"
    \/ call = "unlink" /\ mount = "readonly"

Outcome(call) == IF Rejected(call) THEN "error" ELSE "ok"

FileAfter(p, call) ==
    \/ call = "writeFile" /\ mount \in {"ok", "full"}
    \/ probeFile[p] /\ ~(call = "unlink" /\ mount # "readonly")

(* The thread pool carries out the call; on a hung mount it does not.      *)
RunCall(p) ==
    /\ fsCall[p] \in FsCalls
    /\ result[p] = "running"
    /\ mount # "hung"
    /\ result' = [result EXCEPT ![p] = Outcome(fsCall[p])]
    /\ probeFile' = [probeFile EXCEPT ![p] = FileAfter(p, fsCall[p])]
    /\ UNCHANGED <<mount, server, fsCall, answer>>

(* The probe has settled: the race is decided unless the timer was first.  *)
Settle(p, verdict) ==
    /\ server' = [server EXCEPT ![p] = Null]
    /\ fsCall' = [fsCall EXCEPT ![p] = "settled"]
    /\ answer' = [answer EXCEPT ![p] = IF @ = "pending" THEN verdict ELSE @]
    /\ UNCHANGED <<mount, result, probeFile>>

AwaitNext(p, call) ==
    /\ fsCall' = [fsCall EXCEPT ![p] = call]
    /\ result' = [result EXCEPT ![p] = "running"]
    /\ UNCHANGED <<mount, server, answer, probeFile>>

(* A probe that answers when its file is written and removes it later.     *)
ContinueHasty(p) ==
    \/ /\ result[p] = "error"
       /\ Settle(p, "down")
    \/ /\ result[p] = "ok"
       /\ \/ fsCall[p] = "mkdir" /\ AwaitNext(p, "writeFile")
          \/ /\ fsCall[p] = "writeFile"
             /\ answer' = [answer EXCEPT ![p] = IF @ = "pending" THEN "up" ELSE @]
             /\ fsCall' = [fsCall EXCEPT ![p] = "unlink"]
             /\ result' = [result EXCEPT ![p] = "running"]
             /\ UNCHANGED <<mount, server, probeFile>>
          \/ fsCall[p] = "unlink" /\ Settle(p, "up")

(* The await returns or throws.                                            *)
Continue(p) ==
    /\ fsCall[p] \in FsCalls
    /\ \/ result[p] = "error" /\ Settle(p, "down")
       \/ /\ result[p] = "ok"
          /\ \/ fsCall[p] = "mkdir" /\ AwaitNext(p, "writeFile")
             \/ fsCall[p] = "writeFile" /\ AwaitNext(p, "unlink")
             \/ fsCall[p] = "unlink" /\ Settle(p, "up")

(* A timer that is never armed.                                            *)
TimeOutNever(p) == FALSE /\ UNCHANGED probeVars

(* A timeout that cancels the probe.                                       *)
TimeOutCancelling(p) ==
    /\ answer[p] = "pending"
    /\ Settle(p, "down")

(* The timer fires first: the answer is down, the probe goes on.           *)
TimeOut(p) ==
    /\ answer[p] = "pending"
    /\ answer' = [answer EXCEPT ![p] = "down"]
    /\ UNCHANGED <<mount, server, fsCall, result, probeFile>>

-----------------------------------------------------------------------------
(* The mount gets stale, full, read-only or well again.                    *)
MountChanges ==
    /\ mount' \in Mounts \ {mount}
    /\ UNCHANGED <<server, fsCall, result, answer, probeFile>>

(* The process dies with its probes; their files stay.                     *)
LoseProbes(r) ==
    /\ server' = [p \in Probes |-> IF server[p] = r THEN Null ELSE server[p]]
    /\ fsCall' = [p \in Probes |->
                     IF server[p] = r THEN "killed" ELSE fsCall[p]]
    /\ answer' = [p \in Probes |-> IF server[p] = r /\ answer[p] = "pending"
                                   THEN "lost" ELSE answer[p]]
    /\ UNCHANGED <<mount, result, probeFile>>
=============================================================================
