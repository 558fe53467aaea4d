--------------------------- MODULE FileProcessing ---------------------------
(***************************************************************************)
(* Processing of uploaded files: the upload writes the row and enqueues a  *)
(* message; workers take messages, claim the row under a fresh attempt id, *)
(* extract, embed and write the result; failed attempts are retried        *)
(* through the queue and finally buried.  A call to the database or to     *)
(* Redis may fail, or take effect and lose its answer; a process may end   *)
(* at any step; a stalled process may lose its lease and go on.            *)
(*                                                                         *)
(* row[f]     the file's row: processing_status and processing_attempt_id. *)
(*            An attempt id is fresh for each message handled, so it is    *)
(*            named after the worker while that handling lasts, "old"      *)
(*            once the worker has begun another, "none" when empty.        *)
(* upload[f]  progress of InitializeUploadedFile                           *)
(* job[w]     the handler of worker w: next step, message and outcome of   *)
(*            processFile                                                  *)
(* faults     faults still to come, the bound of the environment           *)
(***************************************************************************)
EXTENDS FileQueue

CONSTANTS
  MaxRetries,  \* fileProcessingMaxRetries
  Remote,      \* the queue is a Redis stream shared by several processes
  Stalls,      \* a live handler may fail to renew its lease in time
  MaxFaults

ASSUME ProcessingAssumption ==
  /\ MaxRetries \in Nat \ {0}
  /\ MaxFaults \in Nat
  /\ Remote \in BOOLEAN /\ Stalls \in BOOLEAN
  /\ {"none", "old", "waiting", "done"} \cap Workers = {}
  /\ "none" \notin Files

VARIABLES row, upload, job, faults

vars == <<queueVars, row, upload, job, faults>>

Final == {"ready", "failed"}

Statuses == {"uploaded", "queued", "extracting", "embedding"} \cup Final

(* Inside processFile, while the renewal ticker runs. *)
Processing == {"lookup", "claiming", "extracting", "publishing", "finishing", "failing"}

Handling == Processing \cup {"verifying", "resetting", "requeueing", "finalizing",
                             "closing", "overwriting", "inspecting", "burying", "settling"}

Outcomes == {"none", "done", "skipped", "claimLost", "prepareFailed", "failed"}

Free == [pc |-> "polling", file |-> "none", retry |-> 0, reclaimed |-> FALSE,
         outcome |-> "none"]

Init ==
  /\ QueueInit
  /\ row = [f \in Files |-> [status |-> "uploaded", attempt |-> "none"]]
  /\ upload = [f \in Files |-> "new"]
  /\ job = [w \in Workers |-> Free]
  /\ faults = MaxFaults

Fault == faults > 0 /\ faults' = faults - 1

NoFault == UNCHANGED faults

Handles(w, f) == job[w].pc \in Handling /\ job[w].file = f
-----------------------------------------------------------------------------
(* InitializeUploadedFile of a file that needs extraction. *)

(* UpdateFileObjectProcessingState: whatever attempt holds the row. *)
Write(f, status) == row' = [row EXCEPT ![f].status = status]

Advance(f, step) == upload' = [upload EXCEPT ![f] = step]

MarkQueued(f) ==
  /\ upload[f] = "new"
  /\ \/ /\ Write(f, "queued")
        /\ \/ Advance(f, "stored") /\ NoFault
           \/ Advance(f, "rejected") /\ Fault
     \/ UNCHANGED row /\ Advance(f, "rejected") /\ Fault
  /\ UNCHANGED <<queueVars, job>>

EnqueueFile(f) ==
  /\ upload[f] = "stored"
  /\ \/ /\ EnqueueFileProcessing(f)
        /\ \/ Advance(f, "accepted") /\ NoFault
           \/ Remote /\ Advance(f, "rejecting") /\ Fault
     \/ ~HasRoom /\ Advance(f, "rejecting") /\ NoFault /\ UNCHANGED queueVars
     \/ Advance(f, "rejecting") /\ Fault /\ UNCHANGED queueVars
  /\ UNCHANGED <<row, job>>

MarkFailed(f) ==
  /\ upload[f] = "rejecting"
  /\ Advance(f, "rejected")
  /\ \/ Write(f, "failed") /\ NoFault
     \/ UNCHANGED row /\ Fault
  /\ UNCHANGED <<queueVars, job>>

UploadCrashes(f) ==
  /\ Remote /\ upload[f] \in {"stored", "rejecting"}
  /\ Advance(f, "crashed") /\ Fault
  /\ UNCHANGED <<queueVars, row, job>>
-----------------------------------------------------------------------------
(* The worker loop. *)

Goto(w, pc) == job' = [job EXCEPT ![w].pc = pc]

Return(w) == job' = [job EXCEPT ![w] = Free]

(* A new attempt id: no row holds it. *)
Begin(w, f, reclaimed) ==
  /\ job' = [job EXCEPT ![w] = [pc |-> "lookup", file |-> f, retry |-> lease'[f].retry,
                                reclaimed |-> reclaimed, outcome |-> "none"]]
  /\ row' = [g \in Files |-> IF row[g].attempt = w THEN [row[g] EXCEPT !.attempt = "old"]
                                                   ELSE row[g]]
  /\ NoFault

PollTimedOut(w) ==
  /\ job[w].pc = "polling"
  /\ \/ \E f \in Files :
          /\ ClaimTimedOutFileProcessingMessages(w, f)
          /\ \/ Begin(w, f, TRUE)
             \/ Remote /\ Goto(w, "reading") /\ Fault /\ UNCHANGED row
     \/ /\ \A f \in Files : ~TimedOut(f)
        /\ Goto(w, "reading") /\ NoFault
        /\ UNCHANGED <<queueVars, row>>
  /\ UNCHANGED upload

ReadMessage(w) ==
  /\ job[w].pc = "reading"
  /\ \/ /\ ReadFileProcessingMessages(w)
        /\ \/ Begin(w, Head(queue).file, FALSE)
           \/ Remote /\ Goto(w, "polling") /\ Fault /\ UNCHANGED row
     \/ /\ queue = <<>>
        /\ Goto(w, "polling") /\ NoFault
        /\ UNCHANGED <<queueVars, row>>
  /\ UNCHANGED upload
-----------------------------------------------------------------------------
(* processFile *)

End(w, outcome) == job' = [job EXCEPT ![w].pc = "verifying", ![w].outcome = outcome]

LookUp(w) ==
  /\ job[w].pc = "lookup"
  /\ \/ row[job[w].file].status \in Final /\ End(w, "skipped") /\ NoFault
     \/ row[job[w].file].status \notin Final /\ Goto(w, "claiming") /\ NoFault
     \/ End(w, "prepareFailed") /\ Fault
  /\ UNCHANGED <<queueVars, row, upload>>

(* Mutant: a reclaimed message does not recover an interrupted attempt. *)
Claimable_QueuedOnly(f, reclaimed) == row[f].status = "queued"

Claimable(f, reclaimed) ==
  \/ row[f].status = "queued"
  \/ reclaimed /\ row[f].status \in {"extracting", "embedding"}

TryClaim(w) ==
  LET f == job[w].file
  IN /\ job[w].pc = "claiming"
     /\ \/ /\ Claimable(f, job[w].reclaimed)
           /\ row' = [row EXCEPT ![f] = [status |-> "extracting", attempt |-> w]]
           /\ \/ Goto(w, "extracting") /\ NoFault
              \/ End(w, "prepareFailed") /\ Fault
        \/ /\ ~Claimable(f, job[w].reclaimed)
           /\ End(w, "skipped") /\ NoFault /\ UNCHANGED row
        \/ End(w, "prepareFailed") /\ Fault /\ UNCHANGED row
     /\ UNCHANGED <<queueVars, upload>>

(* The extraction yields text or fails. *)
Extract(w) ==
  /\ job[w].pc = "extracting"
  /\ \E pc \in {"publishing", "failing"} : Goto(w, pc)
  /\ UNCHANGED <<queueVars, row, upload, faults>>

(* UpdateClaimedFileObjectProcessingState: a final status gives up the claim. *)
Claimed(w, status) ==
  [status |-> status, attempt |-> IF status \in Final THEN "none" ELSE w]

UpdateClaimed(w, status, Then) ==
  LET f == job[w].file
  IN /\ \/ /\ row[f].attempt = w
           /\ row' = [row EXCEPT ![f] = Claimed(w, status)]
           /\ \/ Then /\ NoFault
              \/ End(w, "failed") /\ Fault
        \/ /\ row[f].attempt # w
           /\ End(w, "claimLost") /\ NoFault /\ UNCHANGED row
        \/ End(w, "failed") /\ Fault /\ UNCHANGED row
     /\ UNCHANGED <<queueVars, upload>>

(* An image is ready without extraction when OCR is off. *)
FinalizeImage(w) ==
  /\ job[w].pc = "extracting"
  /\ UpdateClaimed(w, "ready", End(w, "done"))

(* Without embedding the row is final here and the claim is gone already. *)
Publish(w) ==
  /\ job[w].pc = "publishing"
  /\ \E status \in {"embedding", "ready"} : UpdateClaimed(w, status, Goto(w, "finishing"))

(* After the embedding, whether it succeeded or not. *)
Finish(w) ==
  /\ job[w].pc = "finishing"
  /\ UpdateClaimed(w, "ready", End(w, "done"))

ExtractionFails(w) ==
  /\ job[w].pc = "failing"
  /\ UpdateClaimed(w, "failed", End(w, "done"))

(* The ticker of renewProcessingMessageLease: keep the lease, or find that  *)
(* it was taken over and cancel the processing.                             *)
RenewLease(w) ==
  /\ job[w].pc \in Processing
  /\ \/ RenewFileProcessingMessageLease(w, job[w].file) /\ UNCHANGED job
     \/ ~Owns(w, job[w].file) /\ Return(w) /\ UNCHANGED queueVars
  /\ UNCHANGED <<row, upload, faults>>
-----------------------------------------------------------------------------
(* handleProcessingMessage after processFile *)

(* Mutant: one retry too many. *)
AfterVerify_OneMore(w) ==
  LET last == job[w].retry > MaxRetries
  IN CASE job[w].outcome = "failed" /\ ~last -> "resetting"
       [] job[w].outcome = "failed" /\ last -> "finalizing"
       [] job[w].outcome = "skipped" /\ last -> "inspecting"
       [] OTHER -> "settling"

(* Mutant: the last failure is buried without a final status. *)
AfterVerify_NoFinalize(w) ==
  LET last == job[w].retry >= MaxRetries
  IN CASE job[w].outcome = "failed" /\ ~last -> "resetting"
       [] job[w].outcome = "failed" /\ last -> "burying"
       [] job[w].outcome = "skipped" /\ last -> "inspecting"
       [] OTHER -> "settling"

(* Mutant: a failed attempt that is not the last is settled, not retried.   *)
AfterVerify_NoRetry(w) ==
  LET last == job[w].retry >= MaxRetries
  IN CASE job[w].outcome = "failed" /\ last -> "finalizing"
       [] job[w].outcome = "skipped" /\ last -> "inspecting"
       [] OTHER -> "settling"

AfterVerify(w) ==
  LET last == job[w].retry >= MaxRetries
  IN CASE job[w].outcome = "failed" /\ ~last -> "resetting"
       [] job[w].outcome = "failed" /\ last -> "finalizing"
       [] job[w].outcome = "skipped" /\ last -> "inspecting"
       [] OTHER -> "settling"

VerifyLease(w) ==
  /\ job[w].pc = "verifying"
  /\ \/ /\ RenewFileProcessingMessageLease(w, job[w].file)
        /\ IF job[w].outcome = "prepareFailed" THEN Return(w) ELSE Goto(w, AfterVerify(w))
        /\ NoFault
     \/ ~Owns(w, job[w].file) /\ Return(w) /\ NoFault /\ UNCHANGED queueVars
     \/ Return(w) /\ Fault /\ UNCHANGED queueVars
  /\ UNCHANGED <<row, upload>>

(* Mutant: a row is reset whatever became of it. *)
Resettable_Always(w, f) == TRUE

(* Mutant: the claim is not checked. *)
Resettable_AnyAttempt(w, f) == row[f].status \in {"extracting", "embedding"}

Resettable(w, f) == row[f].attempt = w /\ row[f].status \in {"extracting", "embedding"}

ResetForRetry(w) ==
  LET f == job[w].file
  IN /\ job[w].pc = "resetting"
     /\ \/ /\ Resettable(w, f)
           /\ row' = [row EXCEPT ![f] = [status |-> "queued", attempt |-> "none"]]
           /\ \/ Goto(w, "requeueing") /\ NoFault
              \/ Return(w) /\ Fault
        \/ ~Resettable(w, f) /\ Return(w) /\ NoFault /\ UNCHANGED row
        \/ Return(w) /\ Fault /\ UNCHANGED row
     /\ UNCHANGED <<queueVars, upload>>

(* A queue operation that ends the handling: done, refused or failed. *)
LastCall(w, Op) ==
  /\ \/ Op /\ NoFault
     \/ ~Owns(w, job[w].file) /\ NoFault /\ UNCHANGED queueVars
     \/ Fault /\ UNCHANGED queueVars
  /\ Return(w)
  /\ UNCHANGED <<row, upload>>

Requeue(w) ==
  /\ job[w].pc = "requeueing"
  /\ LastCall(w, RequeueFileProcessingMessage(w, job[w].file, job[w].retry + 1))

Settle(w) ==
  /\ job[w].pc = "settling"
  /\ LastCall(w, SettleFileProcessingMessage(w, job[w].file))

Bury(w) ==
  /\ job[w].pc = "burying"
  /\ LastCall(w, DeadLetterFileProcessingMessage(w, job[w].file))

(* forceFinalizeFailed reads the row ... *)
Finalize(w) ==
  /\ job[w].pc = "finalizing"
  /\ \/ /\ Goto(w, IF row[job[w].file].status \in Final THEN "burying" ELSE "closing")
        /\ NoFault
     \/ Return(w) /\ Fault
  /\ UNCHANGED <<queueVars, row, upload>>

(* ... then closes its own claim ... *)
CloseClaim(w) ==
  LET f == job[w].file
  IN /\ job[w].pc = "closing"
     /\ \/ /\ row[f].attempt = w
           /\ row' = [row EXCEPT ![f] = Claimed(w, "failed")]
           /\ \/ Goto(w, "burying") /\ NoFault
              \/ Return(w) /\ Fault
        \/ row[f].attempt # w /\ Goto(w, "overwriting") /\ NoFault /\ UNCHANGED row
        \/ Return(w) /\ Fault /\ UNCHANGED row
     /\ UNCHANGED <<queueVars, upload>>

(* ... or, when it has lost the claim, overwrites the row whatever it is. *)
Overwrite(w) ==
  /\ job[w].pc = "overwriting"
  /\ \/ /\ Write(job[w].file, "failed")
        /\ \/ Goto(w, "burying") /\ NoFault
           \/ Return(w) /\ Fault
     \/ Return(w) /\ Fault /\ UNCHANGED row
  /\ UNCHANGED <<queueVars, upload>>

(* A skipped message at its last retry: bury it when the file has failed. *)
Inspect(w) ==
  /\ job[w].pc = "inspecting"
  /\ \/ /\ Goto(w, IF row[job[w].file].status = "failed" THEN "burying" ELSE "settling")
        /\ NoFault
     \/ Return(w) /\ Fault
  /\ UNCHANGED <<queueVars, row, upload>>
-----------------------------------------------------------------------------
(* A lease lapses when nobody is there to renew it: its holder is gone or   *)
(* has left the message in flight.  A handler that lives renews it every    *)
(* third of the time and loses it only when it stalls.                      *)
Lapse(f) ==
  /\ LeaseTimesOut(f)
  /\ IF \E w \in Workers : Owns(w, f) /\ Handles(w, f)
     THEN Stalls /\ Fault
     ELSE NoFault
  /\ UNCHANGED <<row, upload, job>>

(* The process of the worker ends or its context is cancelled. *)
WorkerCrashes(w) ==
  /\ Remote /\ Fault
  /\ ConsumerGone(w)
  /\ Return(w)
  /\ UNCHANGED <<row, upload>>

Initialize(f) == MarkQueued(f) \/ EnqueueFile(f) \/ MarkFailed(f)

Work(w) ==
  \/ PollTimedOut(w) \/ ReadMessage(w)
  \/ LookUp(w) \/ TryClaim(w) \/ Extract(w) \/ FinalizeImage(w) \/ Publish(w)
  \/ Finish(w) \/ ExtractionFails(w)
  \/ VerifyLease(w) \/ ResetForRetry(w) \/ Requeue(w) \/ Settle(w) \/ Bury(w)
  \/ Finalize(w) \/ CloseClaim(w) \/ Overwrite(w) \/ Inspect(w)

Next ==
  \/ \E f \in Files : Initialize(f) \/ UploadCrashes(f) \/ Lapse(f)
  \/ \E w \in Workers : Work(w) \/ RenewLease(w) \/ WorkerCrashes(w)

Spec == Init /\ [][Next]_vars
-----------------------------------------------------------------------------
(* Every component has its type, and no message is retried more often than  *)
(* fileProcessingMaxRetries.                                                *)
TypeOK ==
  /\ queue \in Seq([file : Files, retry : 0..MaxRetries])
  /\ lease \in [Files -> [holder : Workers \cup {"nobody", "gone"},
                          retry : 0..MaxRetries, stale : BOOLEAN]]
  /\ dead \in SUBSET Files
  /\ row \in [Files -> [status : Statuses, attempt : Workers \cup {"none", "old"}]]
  /\ upload \in [Files -> {"new", "stored", "accepted", "rejecting", "rejected", "crashed"}]
  /\ job \in [Workers -> [pc : Handling \cup {"polling", "reading"},
                          file : Files \cup {"none"}, retry : 0..MaxRetries,
                          reclaimed : BOOLEAN, outcome : Outcomes]]
  /\ faults \in 0..MaxFaults

(* A file has at most one message, waiting or in flight, through every      *)
(* retry and takeover (requeueFileProcessingMessageScript).                 *)
OneMessage ==
  \A f \in Files :
    /\ \A i, j \in DOMAIN queue : queue[i].file = f /\ queue[j].file = f => i = j
    /\ ~(Waiting(f) /\ InFlight(f))

(* A file whose upload was accepted and that is not ready or failed still   *)
(* has its message: nobody settles the work of a file that is unfinished.   *)
AcceptedNotAbandoned ==
  \A f \in Files :
    upload[f] = "accepted" /\ row[f].status \notin Final => Waiting(f) \/ InFlight(f)

(* The same when leases are lost: an unfinished file has its message or a   *)
(* worker on it.                                                            *)
AcceptedInHand ==
  \A f \in Files :
    upload[f] = "accepted" /\ row[f].status \notin Final
      => Waiting(f) \/ InFlight(f) \/ \E w \in Workers : Handles(w, f)

(* A file in the queued state has its message, also after a reset for retry *)
(* whose worker ended before it requeued, and when leases lapse.            *)
QueuedHasMessage ==
  \A f \in Files :
    upload[f] = "accepted" /\ row[f].status = "queued" => Waiting(f) \/ InFlight(f)

(* No two workers handle a file at a time, and a claim on the row is held   *)
(* by the worker with the lease on the message, or by an attempt that has   *)
(* ended.                                                                   *)
OneHandler ==
  /\ \A f \in Files : \A w, x \in Workers : Handles(w, f) /\ Handles(x, f) => w = x
  /\ \A f \in Files : \A w \in Workers : row[f].attempt = w /\ Handles(w, f) => Owns(w, f)

(* A dead letter is about a file that is finished: it waits for nothing. *)
DeadLettersFinished == \A f \in dead : upload[f] = "accepted" => row[f].status \in Final

(* Once an accepted file is ready or failed it stays so: no late answer,    *)
(* retry or duplicate takes a result back.                                  *)
ResultsFinal ==
  [][\A f \in Files : upload[f] = "accepted" /\ row[f].status \in Final
                       => row'[f].status = row[f].status]_vars

(* The item of work of an accepted file is its message, held by whoever     *)
(* holds the lease on it; its result is a status that is final.             *)
Accepted(f) == upload[f] = "accepted"

Item == [f \in Files |-> CASE ~Accepted(f) -> "none"
                          [] Accepted(f) /\ Waiting(f) -> "waiting"
                          [] Accepted(f) /\ ~Waiting(f) /\ InFlight(f)
                               -> lease[f].holder
                          [] OTHER -> "done"]

Result == [f \in Files |-> IF Accepted(f) /\ row[f].status \in Final
                           THEN row[f].status ELSE "open"]

Promised == INSTANCE FileWork WITH item <- Item, result <- Result

(* However attempts, retries, lost answers, takeovers and ended workers     *)
(* interleave, what becomes of an accepted file is what FileWork promises:  *)
(* one holder at a time, who alone gives the result and gives the message   *)
(* up only after that (handleProcessingMessage).                            *)
WorkedOff == Promised!Spec
=============================================================================
