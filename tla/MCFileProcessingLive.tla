------------------------ MODULE MCFileProcessingLive ------------------------
(***************************************************************************)
(* Every accepted file finishes, on both stores: one file and two servers  *)
(* on Redis, whose calls fail and lose their answers and whose processes   *)
(* end, and two files and one worker on the memory queue, which is full    *)
(* with one of them.                                                       *)
(***************************************************************************)
VARIABLES store, queue, lease, dead, row, upload, job, faults

vars == <<store, queue, lease, dead, row, upload, job, faults>>

Redis == INSTANCE FileProcessing WITH
  Files <- {"f1"}, Workers <- {"w1", "w2"}, QueueCap <- 1, MaxRetries <- 1,
  Remote <- TRUE, Stalls <- FALSE, MaxFaults <- 4

Memory == INSTANCE FileProcessing WITH
  Files <- {"f1", "f2"}, Workers <- {"w1"}, QueueCap <- 1, MaxRetries <- 1,
  Remote <- FALSE, Stalls <- FALSE, MaxFaults <- 3

Init == \/ store = "redis" /\ Redis!Init
        \/ store = "memory" /\ Memory!Init

On(this, A) == store = this /\ A /\ UNCHANGED store

Next == On("redis", Redis!Next) \/ On("memory", Memory!Next)

(* Faults are finite; workers run, extraction and embedding time out, and  *)
(* unattended leases grow old.                                             *)
FairSpec ==
  /\ Init /\ [][Next]_vars
  /\ \A w \in {"w1", "w2"} : /\ WF_vars(On("redis", Redis!Work(w)))
                             /\ WF_vars(On("redis", Redis!RenewLease(w)))
  /\ WF_vars(On("redis", Redis!Lapse("f1") /\ Redis!NoFault))
  /\ WF_vars(On("memory", Memory!Work("w1")))
  /\ WF_vars(On("memory", Memory!RenewLease("w1")))
  /\ \A f \in {"f1", "f2"} :
       WF_vars(On("memory", Memory!Lapse(f) /\ Memory!NoFault))
-----------------------------------------------------------------------------
Accepted(f) == f \in DOMAIN upload /\ upload[f] = "accepted"

Finished(f) == f \in DOMAIN row /\ row[f].status \in {"ready", "failed"}

(* Every file whose upload was accepted, also into the last place of the   *)
(* memory queue, becomes ready or failed: retries end, an ended worker's   *)
(* message is taken over, on Redis and in memory                           *)
(* (EnqueueFileProcessing, handleProcessingMessage).                       *)
AcceptedFinishes == \A f \in {"f1", "f2"} : Accepted(f) ~> Finished(f)
=============================================================================
