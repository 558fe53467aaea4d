----------------------------- MODULE FileQueue -----------------------------
(***************************************************************************)
(* The work queue of file processing, as the Redis stream and the process  *)
(* memory implement it: messages wait in order, a worker reads one and     *)
(* holds a lease on it, and only the holder renews, settles, requeues or   *)
(* buries it.  A lease idle for fileProcessingMinIdle is stale and another *)
(* worker may take it over.                                                *)
(*                                                                         *)
(* A file has at most one message (OneMessage of FileProcessing), so a     *)
(* lease is kept under its file; the ids of messages are left out.  A      *)
(* worker handles one message at a time, so its name tells leases apart    *)
(* as id and consumer name do.  last_error is set exactly when retry > 0.  *)
(***************************************************************************)
EXTENDS Naturals, Sequences

CONSTANTS
  Files,
  Workers,   \* consumers, one in each server process
  QueueCap   \* maxFileQueueLength; no limit in Redis

ASSUME QueueAssumption ==
  /\ QueueCap \in Nat
  /\ {"nobody", "gone"} \cap Workers = {}

VARIABLES
  queue,     \* messages waiting, oldest first
  lease,     \* message in flight of each file and who holds it
  dead       \* files with a message in the dead letter queue

queueVars == <<queue, lease, dead>>

(* A lease names its holder; "gone" is a consumer that no longer exists. *)
NoLease == [holder |-> "nobody", retry |-> 0, stale |-> FALSE]

QueueInit ==
  /\ queue = <<>>
  /\ lease = [f \in Files |-> NoLease]
  /\ dead = {}

Waiting(f) == \E i \in DOMAIN queue : queue[i].file = f

InFlight(f) == lease[f].holder # "nobody"

Owns(w, f) == lease[f].holder = w

HasRoom == Len(queue) < QueueCap

EnqueueFileProcessing(f) ==
  /\ HasRoom
  /\ queue' = Append(queue, [file |-> f, retry |-> 0])
  /\ UNCHANGED <<lease, dead>>

ReadFileProcessingMessages(w) ==
  LET m == Head(queue)
  IN /\ queue # <<>>
     /\ queue' = Tail(queue)
     /\ lease' = [lease EXCEPT ![m.file] =
                    [holder |-> w, retry |-> m.retry, stale |-> FALSE]]
     /\ UNCHANGED dead

(* Mutant: an active lease is transferred too. *)
TimedOut_Any(f) == InFlight(f)

TimedOut(f) == InFlight(f) /\ lease[f].stale

ClaimTimedOutFileProcessingMessages(w, f) ==
  /\ TimedOut(f)
  /\ lease' = [lease EXCEPT ![f].holder = w, ![f].stale = FALSE]
  /\ UNCHANGED <<queue, dead>>

RenewFileProcessingMessageLease(w, f) ==
  /\ Owns(w, f)
  /\ lease' = [lease EXCEPT ![f].stale = FALSE]
  /\ UNCHANGED <<queue, dead>>

SettleFileProcessingMessage(w, f) ==
  /\ Owns(w, f)
  /\ lease' = [lease EXCEPT ![f] = NoLease]
  /\ UNCHANGED <<queue, dead>>

(* Mutant: the message in flight stays. *)
RequeueFileProcessingMessage_Copy(w, f, retry) ==
  /\ Owns(w, f)
  /\ queue' = Append(queue, [file |-> f, retry |-> retry])
  /\ UNCHANGED <<lease, dead>>

(* Not limited by QueueCap. *)
RequeueFileProcessingMessage(w, f, retry) ==
  /\ Owns(w, f)
  /\ queue' = Append(queue, [file |-> f, retry |-> retry])
  /\ lease' = [lease EXCEPT ![f] = NoLease]
  /\ UNCHANGED dead

DeadLetterFileProcessingMessage(w, f) ==
  /\ Owns(w, f)
  /\ dead' = dead \cup {f}
  /\ lease' = [lease EXCEPT ![f] = NoLease]
  /\ UNCHANGED queue

(* fileProcessingMinIdle passes without a renewal. *)
LeaseTimesOut(f) ==
  /\ InFlight(f) /\ ~lease[f].stale
  /\ lease' = [lease EXCEPT ![f].stale = TRUE]
  /\ UNCHANGED <<queue, dead>>

(* The process of w ends; the restarted one consumes under a new name. *)
ConsumerGone(w) ==
  /\ lease' = [f \in Files |-> IF Owns(w, f) THEN [lease[f] EXCEPT !.holder = "gone"]
                                             ELSE lease[f]]
  /\ UNCHANGED <<queue, dead>>
=============================================================================
