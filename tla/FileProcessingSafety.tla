------------------------ MODULE FileProcessingSafety ------------------------
(***************************************************************************)
(* What holds of FileProcessing as long as no live handler loses its lease *)
(* (Stalls = FALSE).  LeaseInv gives every handler the lease of its        *)
(* message, so that no two handlers meet at a file; then WorkInv, what a   *)
(* handler knows at each of its steps about the row, can only be disturbed *)
(* by its own steps and by the upload.                                     *)
(***************************************************************************)
EXTENDS FileProcessingProofs

(* The handler of a message holds its lease, and the lease is fresh. *)
LeaseHeld(w) ==
  job[w].pc \in Handling => Owns(w, job[w].file) /\ ~lease[job[w].file].stale

Finished(f) == row[f].status \in Final

(* What each step of the handler knows of the row. *)
StepKnows(w) ==
  LET pc == job[w].pc
      f == job[w].file
  IN /\ pc \in {"lookup", "claiming"} /\ ~job[w].reclaimed
          => row[f].status = "queued" \/ Finished(f)
     /\ (\/ pc \in {"extracting", "publishing", "finishing", "failing",
                    "resetting", "finalizing", "closing"}
         \/ pc = "verifying" /\ job[w].outcome = "failed")
          => row[f].attempt = w \/ Finished(f)
     /\ pc = "requeueing" => row[f].status = "queued" \/ Finished(f)
     /\ pc \in {"inspecting", "settling", "burying"} => Finished(f)
     /\ pc = "verifying"
          => /\ job[w].outcome # "none"
             /\ job[w].outcome \in {"done", "skipped", "claimLost"} => Finished(f)
     /\ upload[f] = "accepted" => /\ pc \in {"requeueing", "closing"} => ~Finished(f)
                                  /\ pc # "overwriting"

(* What a file's messages know of its row. *)
FileKnows(f) ==
  /\ Unsent(f) => row[f].attempt = "none"
  /\ upload[f] = "stored" => row[f].status = "queued"
  /\ Waiting(f) => row[f].status = "queued" \/ Finished(f)
  /\ InFlight(f) => row[f].status # "uploaded"
  /\ upload[f] = "accepted" /\ ~Finished(f) => Waiting(f) \/ InFlight(f)
  /\ upload[f] = "accepted" /\ row[f].attempt # "none" => ~Finished(f)
  /\ f \in dead => Finished(f) /\ ~Unsent(f) /\ ~Waiting(f) /\ ~InFlight(f)

LeaseInv == \A w \in Workers : LeaseHeld(w)

WorkInv ==
  /\ \A w \in Workers : job[w].pc \in Handling => StepKnows(w)
  /\ \A f \in Files : FileKnows(f)
-----------------------------------------------------------------------------
(* Handlers do not meet. *)

(* A lease has one holder, so a file has one handler. *)
LEMMA Alone ==
  ASSUME LeaseInv, NEW w \in Workers, NEW x \in Workers,
         job[w].pc \in Handling, job[x].pc \in Handling, job[w].file = job[x].file
  PROVE  w = x
  BY DEF LeaseInv, LeaseHeld, Owns

(* A call leaves the leases of other files alone, and a handler that goes on *)
(* after it still holds its own.                                             *)
LEMMA CallLeases ==
  ASSUME TypeInv, LeaseInv, NEW w \in Workers, Call(w)
  PROVE  /\ \A g \in Files : g # job[w].file => lease'[g] = lease[g]
         /\ job'[w].pc \in Handling
              => \/ lease' = lease
                 \/ /\ lease'[job[w].file].holder = w
                    /\ ~lease'[job[w].file].stale
<1>1. job[w].file \in Files /\ job[w].pc \in Handling
  BY CallHandles
<1>2. QueueTyped /\ JobsTyped
  BY TypeParts
<1>3. CASE VerifyLease(w)
  BY <1>1, <1>2, <1>3 DEF VerifyLease, RenewFileProcessingMessageLease, Owns, QueueTyped,
                          queueVars
<1>4. ASSUME Requeue(w) \/ Settle(w) \/ Bury(w)
      PROVE  /\ \A g \in Files : g # job[w].file => lease'[g] = lease[g]
             /\ job'[w].pc \notin Handling
  <2>1. \A g \in Files : g # job[w].file => lease'[g] = lease[g]
    BY <1>1, <1>2, <1>4 DEF Requeue, Settle, Bury, LastCall, RequeueFileProcessingMessage,
         SettleFileProcessingMessage, DeadLetterFileProcessingMessage, QueueTyped, queueVars
  <2>2. Return(w)
    BY <1>4 DEF Requeue, Settle, Bury, LastCall
  <2>3. QED
    BY <1>2, <2>1, <2>2 DEF Return, Free, Handling, Processing, JobsTyped
<1>5. CASE ~(VerifyLease(w) \/ Requeue(w) \/ Settle(w) \/ Bury(w))
  <2>1. lease' = lease
    BY <1>5 DEF Call, LookUp, TryClaim, Extract, FinalizeImage, Publish, Finish,
              ExtractionFails, ResetForRetry, Finalize, CloseClaim, Overwrite, Inspect,
              UpdateClaimed, queueVars
  <2>2. QED
    BY <2>1
<1>6. QED
  BY <1>3, <1>4, <1>5

LEMMA StepKeepsLeases ==
  ASSUME Stalls = FALSE, TypeInv, MessageInv, LeaseInv, [Next]_vars
  PROVE  LeaseInv'
<1>1. QueueTyped /\ JobsTyped /\ \A w \in Workers : job[w].pc \in Handling => job[w].file \in Files
  BY TypeParts DEF JobsTyped, HandlerTyped
<1>2. ASSUME lease' = lease, job' = job PROVE LeaseInv'
  BY <1>2 DEF LeaseInv, LeaseHeld, Owns
<1>3. ASSUME NEW f \in Files, Initialize(f) \/ UploadCrashes(f) PROVE LeaseInv'
  BY <1>2, <1>3 DEF Initialize, MarkQueued, EnqueueFile, MarkFailed, UploadCrashes, queueVars,
                    EnqueueFileProcessing
<1>4. ASSUME NEW w \in Workers, Call(w) PROVE LeaseInv'
  <2>1. JobMove(w)
    BY <1>4, CallMoves DEF Call
  <2>2. ASSUME NEW x \in Workers, x # w PROVE LeaseHeld(x)'
    <3>1. job'[x] = job[x]
      BY <2>1, <2>2, JobMoveFrame
    <3>2. job[x].pc \in Handling => job[x].file # job[w].file
      BY <1>4, <2>2, CallHandles, Alone
    <3>3. QED
      BY <1>1, <1>4, <3>1, <3>2, CallLeases DEF LeaseInv, LeaseHeld, Owns
  <2>3. LeaseHeld(w)'
    BY <1>4, <2>1, JobMoveFrame, CallLeases DEF LeaseInv, LeaseHeld, Owns
  <2>4. QED
    BY <2>2, <2>3 DEF LeaseInv
<1>5. ASSUME NEW w \in Workers, RenewLease(w) PROVE LeaseInv'
  <2>1. job[w].pc \in Handling /\ Owns(w, job[w].file) /\ job[w].file \in Files
    BY <1>5, CallHandles DEF LeaseInv, LeaseHeld
  <2>2. job' = job /\ RenewFileProcessingMessageLease(w, job[w].file)
    BY <1>5, <2>1 DEF RenewLease
  <2>3. \A g \in Files : /\ lease'[g].holder = lease[g].holder
                         /\ lease'[g].stale => lease[g].stale
    BY <1>1, <2>2 DEF RenewFileProcessingMessageLease, QueueTyped
  <2>4. QED
    BY <1>1, <2>2, <2>3 DEF LeaseInv, LeaseHeld, Owns
<1>6. ASSUME NEW w \in Workers, NEW f \in Files, ~\E x \in Workers : Handles(x, f),
             \A g \in Files : g # f => lease'[g] = lease[g],
             lease'[f].holder = w, ~lease'[f].stale,
             Begin(w, f, TRUE) \/ Begin(w, f, FALSE)
      PROVE  LeaseInv'
  <2>1. /\ job'[w].file = f
        /\ \A x \in Workers : x # w => job'[x] = job[x]
    BY <1>1, <1>6 DEF Begin, JobsTyped
  <2>2. \A x \in Workers : job[x].pc \in Handling => job[x].file # f
    BY <1>6 DEF Handles
  <2>3. QED
    BY <1>1, <1>6, <2>1, <2>2 DEF LeaseInv, LeaseHeld, Owns
<1>7. ASSUME NEW w \in Workers, NEW f \in Files, ~\E x \in Workers : Handles(x, f),
             \A g \in Files : g # f => lease'[g] = lease[g],
             NEW pc \in {"polling", "reading"}, Goto(w, pc)
      PROVE  LeaseInv'
  <2>1. /\ job'[w].pc \notin Handling
        /\ \A x \in Workers : x # w => job'[x] = job[x]
    BY <1>1, <1>7 DEF Goto, JobsTyped, Handling, Processing
  <2>2. \A x \in Workers : job[x].pc \in Handling => job[x].file # f
    BY <1>7 DEF Handles
  <2>3. QED
    BY <1>1, <1>7, <2>1, <2>2 DEF LeaseInv, LeaseHeld, Owns
<1>8. ASSUME NEW w \in Workers, PollTimedOut(w) PROVE LeaseInv'
  <2>1. ASSUME NEW f \in Files, ClaimTimedOutFileProcessingMessages(w, f)
        PROVE  /\ ~\E x \in Workers : Handles(x, f)
               /\ \A g \in Files : g # f => lease'[g] = lease[g]
               /\ lease'[f].holder = w /\ ~lease'[f].stale
    BY <1>1, <2>1 DEF ClaimTimedOutFileProcessingMessages, TimedOut, Handles, LeaseInv,
                      LeaseHeld, QueueTyped
  <2>2. ASSUME Goto(w, "reading"), UNCHANGED queueVars PROVE LeaseInv'
    BY <1>1, <2>2 DEF Goto, JobsTyped, Handling, Processing, queueVars, LeaseInv, LeaseHeld, Owns
  <2>3. QED
    BY <1>6, <1>7, <1>8, <2>1, <2>2 DEF PollTimedOut
<1>9. ASSUME NEW w \in Workers, ReadMessage(w) PROVE LeaseInv'
  <2> DEFINE f == Head(queue).file
  <2>1. ASSUME ReadFileProcessingMessages(w)
        PROVE  /\ f \in Files /\ ~\E x \in Workers : Handles(x, f)
               /\ \A g \in Files : g # f => lease'[g] = lease[g]
               /\ lease'[f].holder = w /\ ~lease'[f].stale
    <3>1. f \in Files /\ Waiting(f)
      BY <1>1, <2>1, TakenMessage DEF ReadFileProcessingMessages, QueueTyped, Message, Holds,
                                      Waiting
    <3>2. \A x \in Workers : ~Owns(x, f)
      BY <3>1, QueueAssumption DEF MessageInv, OneMessage, InFlight, Owns
    <3>3. ~\E x \in Workers : Handles(x, f)
      BY <3>2 DEF LeaseInv, LeaseHeld, Handles
    <3>4. /\ \A g \in Files : g # f => lease'[g] = lease[g]
          /\ lease'[f].holder = w /\ ~lease'[f].stale
      BY <1>1, <2>1, <3>1 DEF ReadFileProcessingMessages, QueueTyped
    <3>5. QED
      BY <3>1, <3>3, <3>4
  <2>2. ASSUME Goto(w, "polling"), UNCHANGED queueVars PROVE LeaseInv'
    BY <1>1, <2>2 DEF Goto, JobsTyped, Handling, Processing, queueVars, LeaseInv, LeaseHeld, Owns
  <2>3. QED
    BY <1>6, <1>7, <1>9, <2>1, <2>2 DEF ReadMessage
<1>10. ASSUME NEW f \in Files, Lapse(f) PROVE LeaseInv'
  <2>1. \A x \in Workers : ~(Owns(x, f) /\ Handles(x, f))
    BY <1>10 DEF Lapse
  <2>2. \A g \in Files : g # f => lease'[g] = lease[g]
    BY <1>1, <1>10 DEF Lapse, LeaseTimesOut, QueueTyped
  <2>3. \A x \in Workers : job[x].pc \in Handling => job[x].file # f
    BY <2>1 DEF LeaseInv, LeaseHeld, Handles
  <2>4. QED
    BY <1>1, <1>10, <2>2, <2>3 DEF Lapse, LeaseInv, LeaseHeld, Owns
<1>11. ASSUME NEW w \in Workers, WorkerCrashes(w) PROVE LeaseInv'
  <2>1. /\ job'[w].pc \notin Handling
        /\ \A x \in Workers : x # w => job'[x] = job[x]
    BY <1>1, <1>11 DEF WorkerCrashes, Return, Free, JobsTyped, Handling, Processing
  <2>2. \A g \in Files : ~Owns(w, g) => lease'[g] = lease[g]
    BY <1>11 DEF WorkerCrashes, ConsumerGone
  <2>3. QED
    BY <1>1, <2>1, <2>2 DEF LeaseInv, LeaseHeld, Owns
<1>12. QED
  BY <1>2, <1>3, <1>4, <1>5, <1>8, <1>9, <1>10, <1>11
     DEF Next, Work, Call, vars, queueVars

LEMMA InitLeases == ASSUME Init PROVE LeaseInv
  BY DEF Init, LeaseInv, LeaseHeld, Free, Handling, Processing

(* No two workers handle a file at a time, and a claim on the row is held by *)
(* the worker with the lease, as long as no live handler loses its lease.    *)
THEOREM HandlersDoNotMeet ==
  ASSUME Stalls = FALSE
  PROVE  Spec => []OneHandler
<1>1. Init => TypeInv /\ MessageInv /\ LeaseInv
  BY InitTyped, InitMessages, InitLeases
<1>2. TypeInv /\ MessageInv /\ LeaseInv /\ [Next]_vars => (TypeInv /\ MessageInv /\ LeaseInv)'
  BY StepKeepsType, StepKeepsMessages, StepKeepsLeases
<1>3. LeaseInv => OneHandler
  BY Alone DEF LeaseInv, LeaseHeld, OneHandler, Handles
<1>4. QED
  BY <1>1, <1>2, <1>3, PTL DEF Spec
-----------------------------------------------------------------------------
(* What handlers and messages know of the row. *)

Inv == TypeInv /\ MessageInv /\ LeaseInv /\ WorkInv

(* A file that no step touches. *)
Untouched(g) ==
  /\ row'[g] = row[g] /\ upload'[g] = upload[g]
  /\ Waiting(g)' <=> Waiting(g)
  /\ InFlight(g)' <=> InFlight(g)
  /\ g \in dead' <=> g \in dead

LEMMA UntouchedKnows ==
  ASSUME NEW g \in Files, FileKnows(g), Untouched(g)
  PROVE  FileKnows(g)'
  BY DEF FileKnows, Untouched, Unsent, Finished

LEMMA UntouchedStep ==
  ASSUME NEW x \in Workers, StepKnows(x), job'[x] = job[x],
         row'[job[x].file] = row[job[x].file], upload'[job[x].file] = upload[job[x].file]
  PROVE  StepKnows(x)'
  BY DEF StepKnows, Finished

(* The handler holds the only message of its file. *)
LEMMA HandlerHasMessage ==
  ASSUME Inv, NEW w \in Workers, job[w].pc \in Handling
  PROVE  LET f == job[w].file
         IN /\ f \in Files /\ Owns(w, f) /\ InFlight(f) /\ ~Waiting(f) /\ ~Unsent(f)
            /\ f \notin dead
            /\ StepKnows(w) /\ FileKnows(f)
<1> DEFINE f == job[w].file
<1>1. f \in Files /\ Owns(w, f) /\ StepKnows(w) /\ FileKnows(f)
  BY DEF Inv, TypeInv, HandlerTyped, LeaseInv, LeaseHeld, WorkInv
<1>2. InFlight(f)
  BY <1>1, QueueAssumption DEF Owns, InFlight
<1>3. QED
  BY <1>1, <1>2 DEF Inv, MessageInv, OneMessage, FileKnows

(* A call touches only the file it is about. *)
LEMMA CallTouches ==
  ASSUME Inv, NEW w \in Workers, Call(w)
  PROVE  \A g \in Files : g # job[w].file => Untouched(g)
<1> DEFINE f == job[w].file
<1>1. f \in Files /\ Owns(w, f)
  BY CallHandles, HandlerHasMessage DEF Inv
<1>2. QueueTyped /\ RowsTyped
  BY TypeParts DEF Inv
<1>3. UNCHANGED upload
  BY CallMoves DEF Call, Inv
<1>4. \A g \in Files : g # f => lease'[g] = lease[g]
  BY CallLeases DEF Inv
<1>5. \A g \in Files : g # f => row'[g] = row[g]
  BY <1>1, <1>2 DEF Call, LookUp, TryClaim, Extract, FinalizeImage, Publish, Finish,
       ExtractionFails, VerifyLease, ResetForRetry, Requeue, Settle, Bury, Finalize,
       CloseClaim, Overwrite, Inspect, UpdateClaimed, LastCall, Write, RowsTyped
<1>6. \A g \in Files : g # f => (g \in dead' <=> g \in dead)
  BY <1>1, <1>2 DEF Call, LookUp, TryClaim, Extract, FinalizeImage, Publish, Finish,
       ExtractionFails, VerifyLease, ResetForRetry, Requeue, Settle, Bury, Finalize,
       CloseClaim, Overwrite, Inspect, UpdateClaimed, LastCall, queueVars,
       RenewFileProcessingMessageLease, SettleFileProcessingMessage,
       RequeueFileProcessingMessage, DeadLetterFileProcessingMessage
<1>7. \A g \in Files : g # f => (Waiting(g)' <=> Waiting(g))
  <2>1. CASE UNCHANGED queue
    BY <2>1 DEF Waiting
  <2>2. CASE ~UNCHANGED queue
    <3>1. job[w].retry + 1 \in 0..MaxRetries /\ queue' = Append(queue, [file |-> f, retry |-> job[w].retry + 1])
      BY <2>2, ProcessingAssumption DEF Call, LookUp, TryClaim, Extract, FinalizeImage,
           Publish, Finish, ExtractionFails, VerifyLease, ResetForRetry, Requeue, Settle, Bury,
           Finalize, CloseClaim, Overwrite, Inspect, UpdateClaimed, LastCall, queueVars,
           RenewFileProcessingMessageLease, SettleFileProcessingMessage,
           RequeueFileProcessingMessage, DeadLetterFileProcessingMessage, Inv, TypeInv, TypeOK,
           HandlerTyped
    <3>2. [file |-> f, retry |-> job[w].retry + 1] \in Message
      BY <1>1, <3>1 DEF Message
    <3>3. \A g : Holds(queue', g) <=> Holds(queue, g) \/ g = f
      BY <1>2, <3>1, <3>2, AppendedMessage DEF QueueTyped
    <3>4. QED
      BY <3>3 DEF Waiting, Holds
  <2>3. QED
    BY <2>1, <2>2
<1>8. QED
  BY <1>3, <1>4, <1>5, <1>6, <1>7 DEF Untouched, InFlight

(* So a call keeps WorkInv if it keeps what its own handler and file know. *)
LEMMA CallLocal ==
  ASSUME Inv, NEW w \in Workers, Call(w), NEW f \in Files, f = job[w].file,
         job'[w].pc \in Handling => StepKnows(w)', FileKnows(f)'
  PROVE  WorkInv'
<1>1. JobMove(w) /\ job[w].pc \in Handling /\ job[w].file \in Files
  BY CallHandles, CallMoves DEF Call, Inv
<1>2. ASSUME NEW x \in Workers, x # w, job'[x].pc \in Handling PROVE StepKnows(x)'
  <2>1. job'[x] = job[x]
    BY <1>1, <1>2, JobMoveFrame DEF Inv
  <2>2. job[x].file # job[w].file /\ job[x].file \in Files /\ StepKnows(x)
    BY <1>1, <1>2, <2>1, Alone, HandlerHasMessage DEF Inv
  <2>3. Untouched(job[x].file)
    BY <2>2, CallTouches
  <2>4. QED
    BY <2>1, <2>2, <2>3, UntouchedStep DEF Untouched
<1>3. ASSUME NEW g \in Files, g # f PROVE FileKnows(g)'
  BY <1>3, CallTouches, UntouchedKnows DEF Inv, WorkInv
<1>4. QED
  BY <1>2, <1>3 DEF WorkInv

(* A call that leaves the queue alone. *)
LEMMA QuietCall ==
  ASSUME Inv, NEW w \in Workers, NEW f \in Files, f = job[w].file, UNCHANGED queueVars
  PROVE  /\ Waiting(f)' <=> Waiting(f)
         /\ InFlight(f)' <=> InFlight(f)
         /\ f \in dead' <=> f \in dead
  BY DEF queueVars, Waiting, InFlight

(* processFile up to the claim. *)
LEMMA ClaimKeepsWork ==
  ASSUME Inv, NEW w \in Workers, LookUp(w) \/ TryClaim(w) \/ Extract(w)
  PROVE  WorkInv'
<1>1. PICK f \in Files : f = job[w].file
  BY CallHandles DEF Call, Inv
<1>2. Call(w) /\ JobsTyped /\ RowsTyped /\ job[w].pc \in Handling
  BY TypeParts, CallHandles DEF Call, Inv
<1>3. /\ InFlight(f) /\ ~Waiting(f) /\ ~Unsent(f) /\ f \notin dead
      /\ StepKnows(w) /\ FileKnows(f)
  BY <1>1, <1>2, HandlerHasMessage
<1>4. /\ InFlight(f)' /\ ~Waiting(f)' /\ f \notin dead' /\ UNCHANGED upload
  BY <1>1, <1>3, QuietCall DEF LookUp, TryClaim, Extract
<1>5. CASE LookUp(w)
  <2>1. UNCHANGED row
    BY <1>5 DEF LookUp
  <2>2. FileKnows(f)'
    BY <1>3, <1>4, <2>1 DEF FileKnows, Unsent, Finished
  <2>3. StepKnows(w)'
    BY <1>1, <1>2, <1>3, <1>4, <1>5, <2>1, GotoAt, EndAt DEF LookUp, StepKnows, Finished
  <2>4. QED
    BY <1>1, <1>2, <2>2, <2>3, CallLocal
<1>6. CASE TryClaim(w)
  <2>1. CASE Claimable(f, job[w].reclaimed) /\ row' = [row EXCEPT ![f] = [status |-> "extracting", attempt |-> w]]
    <3>1. row'[f].status = "extracting" /\ row'[f].attempt = w
      BY <1>2, <2>1 DEF RowsTyped
    <3>2. FileKnows(f)'
      BY <1>3, <1>4, <3>1 DEF FileKnows, Unsent, Finished, Final
    <3>3. Goto(w, "extracting") \/ End(w, "prepareFailed")
      BY <1>1, <1>6, <2>1 DEF TryClaim
    <3>4. StepKnows(w)'
      BY <1>1, <1>2, <3>1, <3>3, GotoAt, EndAt DEF StepKnows
    <3>5. QED
      BY <1>1, <1>2, <3>2, <3>4, CallLocal
  <2>2. CASE UNCHANGED row /\ ~Claimable(f, job[w].reclaimed) /\ End(w, "skipped")
    <3>1. row[f].status \in {"uploaded", "queued", "extracting", "embedding", "ready", "failed"}
      BY <1>2 DEF RowsTyped, Statuses, Final
    <3>2. Finished(f)
      BY <1>1, <1>3, <1>6, <2>2, <3>1 DEF Claimable, StepKnows, FileKnows, TryClaim, Finished,
                                          Final
    <3>3. FileKnows(f)'
      BY <1>3, <1>4, <2>2 DEF FileKnows, Unsent, Finished
    <3>4. StepKnows(w)'
      BY <1>1, <1>2, <2>2, <3>2, EndAt DEF StepKnows, Finished
    <3>5. QED
      BY <1>1, <1>2, <3>3, <3>4, CallLocal
  <2>3. CASE UNCHANGED row /\ End(w, "prepareFailed")
    <3>1. FileKnows(f)'
      BY <1>3, <1>4, <2>3 DEF FileKnows, Unsent, Finished
    <3>2. StepKnows(w)'
      BY <1>1, <1>2, <2>3, EndAt DEF StepKnows
    <3>3. QED
      BY <1>1, <1>2, <3>1, <3>2, CallLocal
  <2>4. QED
    BY <1>1, <1>6, <2>1, <2>2, <2>3 DEF TryClaim
<1>7. CASE Extract(w)
  <2>1. FileKnows(f)'
    BY <1>3, <1>4, <1>7 DEF FileKnows, Unsent, Finished, Extract
  <2>2. StepKnows(w)'
    BY <1>1, <1>2, <1>3, <1>7, GotoAt DEF Extract, StepKnows, Finished
  <2>3. QED
    BY <1>1, <1>2, <2>1, <2>2, CallLocal
<1>8. QED
  BY <1>5, <1>6, <1>7

(* An update under the claim. *)
LEMMA UpdateKeepsWork ==
  ASSUME Inv, NEW w \in Workers, NEW s \in {"embedding", "ready", "failed"},
         Call(w), job[w].pc \in {"extracting", "publishing", "finishing", "failing"},
         \/ UpdateClaimed(w, s, Goto(w, "finishing"))
         \/ UpdateClaimed(w, s, End(w, "done")) /\ s \in Final
  PROVE  WorkInv'
<1>1. PICK f \in Files : f = job[w].file
  BY CallHandles DEF Inv
<1>2. JobsTyped /\ RowsTyped /\ job[w].pc \in Handling
  BY TypeParts, CallHandles DEF Inv
<1>3. /\ InFlight(f) /\ ~Waiting(f) /\ ~Unsent(f) /\ f \notin dead
      /\ StepKnows(w) /\ FileKnows(f)
  BY <1>1, <1>2, HandlerHasMessage
<1>4. /\ InFlight(f)' /\ ~Waiting(f)' /\ f \notin dead' /\ UNCHANGED upload
  BY <1>1, <1>3, QuietCall DEF UpdateClaimed
<1>5. row[f].attempt = w \/ Finished(f)
  BY <1>1, <1>3 DEF StepKnows
<1>6. CASE row[f].attempt = w /\ row' = [row EXCEPT ![f] = Claimed(w, s)]
  <2>1. /\ row'[f].status = s
        /\ row'[f].attempt = IF s \in Final THEN "none" ELSE w
    BY <1>2, <1>6 DEF RowsTyped, Claimed
  <2>2. FileKnows(f)'
    BY <1>3, <1>4, <2>1 DEF FileKnows, Unsent, Finished, Final
  <2>3. Goto(w, "finishing") \/ (End(w, "done") /\ s \in Final) \/ End(w, "failed")
    BY <1>1, <1>6 DEF UpdateClaimed
  <2>4. StepKnows(w)'
    BY <1>1, <1>2, <2>1, <2>3, GotoAt, EndAt DEF StepKnows, Finished
  <2>5. QED
    BY <1>1, <1>2, <2>2, <2>4, CallLocal
<1>7. CASE /\ UNCHANGED row
           /\ \/ End(w, "claimLost") /\ row[f].attempt # w
              \/ End(w, "failed")
  <2>1. FileKnows(f)'
    BY <1>3, <1>4, <1>7 DEF FileKnows, Unsent, Finished
  <2>2. StepKnows(w)'
    BY <1>1, <1>2, <1>5, <1>7, EndAt DEF StepKnows, Finished
  <2>3. QED
    BY <1>1, <1>2, <2>1, <2>2, CallLocal
<1>8. QED
  BY <1>1, <1>6, <1>7 DEF UpdateClaimed

(* The check of the lease decides by the outcome. *)
LEMMA VerifyKeepsWork ==
  ASSUME Inv, NEW w \in Workers, VerifyLease(w)
  PROVE  WorkInv'
<1>1. PICK f \in Files : f = job[w].file
  BY CallHandles DEF Call, Inv
<1>2. Call(w) /\ JobsTyped /\ QueueTyped /\ job[w].pc \in Handling /\ job[w].pc = "verifying"
  BY TypeParts, CallHandles DEF Call, Inv, VerifyLease
<1>3. /\ InFlight(f) /\ ~Waiting(f) /\ ~Unsent(f) /\ f \notin dead
      /\ StepKnows(w) /\ FileKnows(f)
  BY <1>1, <1>2, HandlerHasMessage
<1>4. /\ InFlight(f)' /\ ~Waiting(f)' /\ f \notin dead' /\ UNCHANGED <<row, upload>>
  BY <1>1, <1>2, <1>3 DEF VerifyLease, RenewFileProcessingMessageLease, QueueTyped, queueVars,
                          InFlight, Waiting
<1>5. FileKnows(f)'
  BY <1>3, <1>4 DEF FileKnows, Unsent, Finished
<1>6. CASE Return(w)
  BY <1>1, <1>2, <1>5, <1>6, ReturnAt, CallLocal
<1>7. CASE job[w].outcome # "prepareFailed" /\ Goto(w, AfterVerify(w))
  <2>1. job[w].outcome \in Outcomes \ {"none", "prepareFailed"}
    BY <1>2, <1>3, <1>7 DEF JobsTyped, StepKnows
  <2>2. \/ AfterVerify(w) \in {"resetting", "finalizing"} /\ job[w].outcome = "failed"
        \/ AfterVerify(w) \in {"inspecting", "settling"}
             /\ job[w].outcome \in {"done", "skipped", "claimLost"}
    BY <2>1 DEF AfterVerify, Outcomes
  <2>3. StepKnows(w)'
    BY <1>1, <1>2, <1>3, <1>4, <1>7, <2>2, GotoAt DEF StepKnows, Finished
  <2>4. QED
    BY <1>1, <1>2, <1>5, <2>3, CallLocal
<1>8. QED
  BY <1>6, <1>7 DEF VerifyLease

(* The calls that end the handling. *)
LEMMA LastCallKeepsWork ==
  ASSUME Inv, NEW w \in Workers, Requeue(w) \/ Settle(w) \/ Bury(w)
  PROVE  WorkInv'
<1>1. PICK f \in Files : f = job[w].file
  BY CallHandles DEF Call, Inv
<1>2. Call(w) /\ JobsTyped /\ QueueTyped /\ job[w].pc \in Handling
  BY TypeParts, CallHandles DEF Call, Inv
<1>3. /\ InFlight(f) /\ ~Waiting(f) /\ ~Unsent(f) /\ f \notin dead
      /\ StepKnows(w) /\ FileKnows(f)
  BY <1>1, <1>2, HandlerHasMessage
<1>4. UNCHANGED <<row, upload>> /\ job'[w].pc \notin Handling
  BY <1>2, ReturnAt DEF Requeue, Settle, Bury, LastCall
<1>5. CASE UNCHANGED queueVars
  <2>1. FileKnows(f)'
    BY <1>1, <1>3, <1>4, <1>5, QuietCall DEF FileKnows, Unsent, Finished
  <2>2. QED
    BY <1>1, <1>2, <1>4, <2>1, CallLocal
<1>6. CASE Settle(w) /\ SettleFileProcessingMessage(w, f)
  <2>1. Finished(f)
    BY <1>1, <1>3, <1>6 DEF Settle, StepKnows
  <2>2. ~InFlight(f)' /\ ~Waiting(f)' /\ dead' = dead
    BY <1>2, <1>3, <1>6 DEF SettleFileProcessingMessage, QueueTyped, NoLease, InFlight, Waiting
  <2>3. FileKnows(f)'
    BY <1>3, <1>4, <2>1, <2>2 DEF FileKnows, Unsent, Finished
  <2>4. QED
    BY <1>1, <1>2, <1>4, <2>3, CallLocal
<1>7. CASE Bury(w) /\ DeadLetterFileProcessingMessage(w, f)
  <2>1. Finished(f)
    BY <1>1, <1>3, <1>7 DEF Bury, StepKnows
  <2>2. ~InFlight(f)' /\ ~Waiting(f)'
    BY <1>2, <1>3, <1>7 DEF DeadLetterFileProcessingMessage, QueueTyped, NoLease, InFlight,
                            Waiting
  <2>3. FileKnows(f)'
    BY <1>3, <1>4, <2>1, <2>2 DEF FileKnows, Unsent, Finished
  <2>4. QED
    BY <1>1, <1>2, <1>4, <2>3, CallLocal
<1>8. CASE Requeue(w) /\ RequeueFileProcessingMessage(w, f, job[w].retry + 1)
  <2>1. row[f].status = "queued" \/ Finished(f)
    BY <1>1, <1>3, <1>8 DEF Requeue, StepKnows
  <2>2. [file |-> f, retry |-> job[w].retry + 1] \in Message
    BY <1>2, <1>8, ProcessingAssumption DEF Requeue, Inv, TypeInv, HandlerTyped, JobsTyped,
                                            Message
  <2>3. Waiting(f)'
    BY <1>2, <1>8, <2>2, AppendedMessage DEF RequeueFileProcessingMessage, QueueTyped, Waiting,
                                             Holds
  <2>4. ~InFlight(f)' /\ dead' = dead
    BY <1>2, <1>8 DEF RequeueFileProcessingMessage, QueueTyped, NoLease, InFlight
  <2>5. FileKnows(f)'
    BY <1>3, <1>4, <2>1, <2>3, <2>4 DEF FileKnows, Unsent, Finished
  <2>6. QED
    BY <1>1, <1>2, <1>4, <2>5, CallLocal
<1>9. QED
  BY <1>1, <1>2, <1>5, <1>6, <1>7, <1>8 DEF Requeue, Settle, Bury, LastCall, LeaseInv

(* The decision about a failed attempt. *)
LEMMA FailureKeepsWork ==
  ASSUME Inv, NEW w \in Workers,
         ResetForRetry(w) \/ Finalize(w) \/ CloseClaim(w) \/ Overwrite(w) \/ Inspect(w)
  PROVE  WorkInv'
<1>1. PICK f \in Files : f = job[w].file
  BY CallHandles DEF Call, Inv
<1>2. Call(w) /\ JobsTyped /\ RowsTyped /\ job[w].pc \in Handling
  BY TypeParts, CallHandles DEF Call, Inv
<1>3. /\ InFlight(f) /\ ~Waiting(f) /\ ~Unsent(f) /\ f \notin dead
      /\ StepKnows(w) /\ FileKnows(f)
  BY <1>1, <1>2, HandlerHasMessage
<1>4. /\ InFlight(f)' /\ ~Waiting(f)' /\ f \notin dead' /\ UNCHANGED upload
  BY <1>1, <1>3, QuietCall DEF ResetForRetry, Finalize, CloseClaim, Overwrite, Inspect
<1>5. ASSUME UNCHANGED row PROVE FileKnows(f)'
  BY <1>3, <1>4, <1>5 DEF FileKnows, Unsent, Finished
<1>6. ASSUME UNCHANGED row, Return(w) PROVE WorkInv'
  BY <1>1, <1>2, <1>5, <1>6, ReturnAt, CallLocal
<1>7. CASE ResetForRetry(w)
  <2>1. CASE UNCHANGED row /\ Return(w)
    BY <1>6, <2>1
  <2>2. CASE row' = [row EXCEPT ![f] = [status |-> "queued", attempt |-> "none"]]
    <3>1. row'[f].status = "queued" /\ row'[f].attempt = "none"
      BY <1>2, <2>2 DEF RowsTyped
    <3>2. FileKnows(f)'
      BY <1>3, <1>4, <3>1 DEF FileKnows, Unsent, Finished, Final
    <3>3. Goto(w, "requeueing") \/ Return(w)
      BY <1>7 DEF ResetForRetry
    <3>4. job'[w].pc \in Handling => StepKnows(w)'
      BY <1>1, <1>2, <3>1, <3>3, GotoAt, ReturnAt DEF StepKnows, Finished, Final
    <3>5. QED
      BY <1>1, <1>2, <3>2, <3>4, CallLocal
  <2>3. QED
    BY <1>1, <1>7, <2>1, <2>2 DEF ResetForRetry
<1>8. CASE Finalize(w)
  <2>1. UNCHANGED row
    BY <1>8 DEF Finalize
  <2>2. job[w].pc = "finalizing" /\ (row[f].attempt = w \/ Finished(f))
    BY <1>1, <1>3, <1>8 DEF Finalize, StepKnows
  <2>3. \/ Return(w)
        \/ Finished(f) /\ Goto(w, "burying")
        \/ ~Finished(f) /\ Goto(w, "closing")
    BY <1>1, <1>8 DEF Finalize, Finished
  <2>4. job'[w].pc \in Handling => StepKnows(w)'
    BY <1>1, <1>2, <1>4, <2>1, <2>2, <2>3, GotoAt, ReturnAt DEF StepKnows, Finished
  <2>5. QED
    BY <1>1, <1>2, <1>5, <2>1, <2>4, CallLocal
<1>9. CASE CloseClaim(w)
  <2>1. /\ row[f].attempt = w \/ Finished(f)
        /\ upload[f] = "accepted" => ~Finished(f)
    BY <1>1, <1>3, <1>9 DEF CloseClaim, StepKnows
  <2>2. CASE row[f].attempt = w /\ row' = [row EXCEPT ![f] = Claimed(w, "failed")]
    <3>1. row'[f].status = "failed" /\ row'[f].attempt = "none"
      BY <1>2, <2>2 DEF RowsTyped, Claimed, Final
    <3>2. FileKnows(f)'
      BY <1>3, <1>4, <3>1 DEF FileKnows, Unsent, Finished, Final
    <3>3. Goto(w, "burying") \/ Return(w)
      BY <1>1, <1>9, <2>2 DEF CloseClaim
    <3>4. job'[w].pc \in Handling => StepKnows(w)'
      BY <1>1, <1>2, <3>1, <3>3, GotoAt, ReturnAt DEF StepKnows, Finished, Final
    <3>5. QED
      BY <1>1, <1>2, <3>2, <3>4, CallLocal
  <2>3. CASE row[f].attempt # w /\ UNCHANGED row /\ Goto(w, "overwriting")
    <3>1. StepKnows(w)'
      BY <1>1, <1>2, <1>4, <2>1, <2>3, GotoAt DEF StepKnows, Finished
    <3>2. QED
      BY <1>1, <1>2, <1>5, <2>3, <3>1, CallLocal
  <2>4. QED
    BY <1>1, <1>6, <1>9, <2>2, <2>3 DEF CloseClaim
<1>10. CASE Overwrite(w)
  <2>1. upload[f] # "accepted"
    BY <1>1, <1>3, <1>10 DEF Overwrite, StepKnows
  <2>2. CASE Write(f, "failed")
    <3>1. row'[f].status = "failed"
      BY <1>2, <2>2 DEF RowsTyped, Write
    <3>2. FileKnows(f)'
      BY <1>3, <1>4, <2>1, <3>1 DEF FileKnows, Unsent, Finished, Final
    <3>3. Goto(w, "burying") \/ Return(w)
      BY <1>10 DEF Overwrite
    <3>4. job'[w].pc \in Handling => StepKnows(w)'
      BY <1>1, <1>2, <3>1, <3>3, GotoAt, ReturnAt DEF StepKnows, Finished, Final
    <3>5. QED
      BY <1>1, <1>2, <3>2, <3>4, CallLocal
  <2>3. QED
    BY <1>1, <1>6, <1>10, <2>2 DEF Overwrite
<1>11. CASE Inspect(w)
  <2>1. UNCHANGED row /\ Finished(f)
    BY <1>1, <1>3, <1>11 DEF Inspect, StepKnows
  <2>2. Goto(w, "burying") \/ Goto(w, "settling") \/ Return(w)
    BY <1>11 DEF Inspect
  <2>3. job'[w].pc \in Handling => StepKnows(w)'
    BY <1>1, <1>2, <2>1, <2>2, GotoAt, ReturnAt DEF StepKnows, Finished
  <2>4. QED
    BY <1>1, <1>2, <1>5, <2>1, <2>3, CallLocal
<1>12. QED
  BY <1>7, <1>8, <1>9, <1>10, <1>11

LEMMA CallKeepsWork ==
  ASSUME Inv, NEW w \in Workers, Call(w)
  PROVE  WorkInv'
<1>1. CASE LookUp(w) \/ TryClaim(w) \/ Extract(w)
  BY <1>1, ClaimKeepsWork
<1>2. CASE FinalizeImage(w) \/ Finish(w)
  BY <1>2, UpdateKeepsWork DEF FinalizeImage, Finish, Final
<1>3. CASE Publish(w)
  BY <1>3, UpdateKeepsWork DEF Publish
<1>4. CASE ExtractionFails(w)
  BY <1>4, UpdateKeepsWork DEF ExtractionFails, Final
<1>5. CASE VerifyLease(w)
  BY <1>5, VerifyKeepsWork
<1>6. CASE Requeue(w) \/ Settle(w) \/ Bury(w)
  BY <1>6, LastCallKeepsWork
<1>7. CASE ResetForRetry(w) \/ Finalize(w) \/ CloseClaim(w) \/ Overwrite(w) \/ Inspect(w)
  BY <1>7, FailureKeepsWork
<1>8. QED
  BY <1>1, <1>2, <1>3, <1>4, <1>5, <1>6, <1>7 DEF Call

(* The upload works on a file without handler until its message is sent,    *)
(* and then only finishes it.                                               *)
LEMMA UploadKeepsWork ==
  ASSUME Inv, NEW f \in Files, Initialize(f) \/ UploadCrashes(f)
  PROVE  WorkInv'
<1>1. QueueTyped /\ RowsTyped /\ UploadsTyped /\ FileKnows(f)
  BY TypeParts DEF Inv, WorkInv
<1>2. UNCHANGED <<job, lease, dead>>
  BY DEF Initialize, MarkQueued, EnqueueFile, MarkFailed, UploadCrashes, queueVars,
         EnqueueFileProcessing
<1>3. upload' = [upload EXCEPT ![f] = upload'[f]] /\ upload'[f] \in
        {"stored", "accepted", "rejecting", "rejected", "crashed"}
  BY <1>1 DEF Initialize, MarkQueued, EnqueueFile, MarkFailed, UploadCrashes, Advance,
              UploadsTyped
<1>4. \A g \in Files : g # f => Untouched(g)
  <2>1. \A g \in Files : g # f => row'[g] = row[g] /\ upload'[g] = upload[g]
    BY <1>1, <1>3 DEF Initialize, MarkQueued, EnqueueFile, MarkFailed, UploadCrashes, Write,
                      RowsTyped, UploadsTyped
  <2>2. CASE UNCHANGED queue
    BY <1>2, <2>1, <2>2 DEF Untouched, Waiting, InFlight
  <2>3. CASE EnqueueFileProcessing(f)
    <3>1. [file |-> f, retry |-> 0] \in Message
      BY ProcessingAssumption DEF Message
    <3>2. \A g : Holds(queue', g) <=> Holds(queue, g) \/ g = f
      BY <1>1, <2>3, <3>1, AppendedMessage DEF EnqueueFileProcessing, QueueTyped
    <3>3. QED
      BY <1>2, <2>1, <3>2 DEF Untouched, Waiting, InFlight, Holds
  <2>4. QED
    BY <2>2, <2>3 DEF Initialize, MarkQueued, EnqueueFile, MarkFailed, UploadCrashes, queueVars
<1>5. /\ FileKnows(f)'
      /\ \A w \in Workers : job[w].pc \in Handling /\ job[w].file = f => StepKnows(w)'
  <2>1. ASSUME NEW w \in Workers, job[w].pc \in Handling, job[w].file = f
        PROVE  ~Unsent(f) /\ StepKnows(w)
    BY <2>1, HandlerHasMessage
  <2>2. CASE MarkQueued(f)
    <3>1. Unsent(f) /\ ~Waiting(f) /\ ~InFlight(f) /\ f \notin dead /\ row[f].attempt = "none"
      BY <1>1, <2>2 DEF MarkQueued, Unsent, Inv, MessageInv, FileKnows
    <3>2. /\ ~Waiting(f)' /\ ~InFlight(f)' /\ f \notin dead' /\ row'[f].attempt = "none"
          /\ upload'[f] \in {"stored", "rejected"}
          /\ upload'[f] = "stored" => row'[f].status = "queued"
      BY <1>1, <1>2, <2>2, <3>1 DEF MarkQueued, queueVars, Waiting, InFlight, Write, Advance,
                                   RowsTyped, UploadsTyped
    <3>3. FileKnows(f)'
      BY <3>2 DEF FileKnows, Unsent, Finished
    <3>4. QED
      BY <2>1, <3>1, <3>3
  <2>3. CASE EnqueueFile(f)
    <3>1. /\ Unsent(f) /\ ~Waiting(f) /\ ~InFlight(f) /\ f \notin dead
          /\ row[f].attempt = "none" /\ row[f].status = "queued"
      BY <1>1, <2>3 DEF EnqueueFile, Unsent, Inv, MessageInv, FileKnows
    <3>2. /\ ~InFlight(f)' /\ f \notin dead' /\ UNCHANGED row
          /\ upload'[f] \in {"accepted", "rejecting"}
          /\ upload'[f] = "accepted" => EnqueueFileProcessing(f)
      BY <1>1, <1>2, <2>3, <3>1 DEF EnqueueFile, InFlight, Advance, UploadsTyped
    <3>3. EnqueueFileProcessing(f) => Waiting(f)'
      <4>1. [file |-> f, retry |-> 0] \in Message
        BY ProcessingAssumption DEF Message
      <4>2. QED
        BY <1>1, <4>1, AppendedMessage DEF EnqueueFileProcessing, QueueTyped, Waiting, Holds
    <3>4. FileKnows(f)'
      BY <3>1, <3>2, <3>3 DEF FileKnows, Unsent, Finished
    <3>5. QED
      BY <2>1, <3>1, <3>4
  <2>4. CASE MarkFailed(f) \/ (UploadCrashes(f) /\ upload[f] = "rejecting")
    <3>1. /\ UNCHANGED queueVars /\ upload'[f] \in {"rejected", "crashed"}
          /\ row'[f] = row[f] \/ row'[f].status = "failed"
      BY <1>1, <2>4 DEF MarkFailed, UploadCrashes, Advance, Write, RowsTyped, UploadsTyped
    <3>2. ~Unsent(f)
      BY <2>4 DEF MarkFailed, Unsent
    <3>3. FileKnows(f)'
      BY <1>1, <3>1, <3>2 DEF FileKnows, Unsent, Finished, Final, queueVars, Waiting, InFlight
    <3>4. ASSUME NEW w \in Workers, job[w].pc \in Handling, job[w].file = f
          PROVE  StepKnows(w)'
      BY <1>2, <2>1, <3>1, <3>4 DEF StepKnows, Finished, Final
    <3>5. QED
      BY <3>3, <3>4
  <2>5. CASE UploadCrashes(f) /\ upload[f] = "stored"
    <3>1. Unsent(f) /\ ~Waiting(f) /\ ~InFlight(f) /\ f \notin dead
      BY <1>1, <2>5 DEF Unsent, Inv, MessageInv, FileKnows
    <3>2. /\ ~Waiting(f)' /\ ~InFlight(f)' /\ f \notin dead' /\ upload'[f] = "crashed"
      BY <1>1, <2>5, <3>1 DEF UploadCrashes, queueVars, Waiting, InFlight, Advance, UploadsTyped
    <3>3. QED
      BY <2>1, <3>1, <3>2 DEF FileKnows, Unsent
  <2>6. QED
    BY <2>2, <2>3, <2>4, <2>5 DEF Initialize, UploadCrashes
<1>6. ASSUME NEW w \in Workers, job'[w].pc \in Handling PROVE StepKnows(w)'
  <2>1. job'[w] = job[w] /\ job[w].pc \in Handling
    BY <1>2, <1>6
  <2>2. CASE job[w].file = f
    BY <1>5, <2>1, <2>2
  <2>3. CASE job[w].file # f
    <3>1. StepKnows(w) /\ Untouched(job[w].file)
      BY <1>4, <2>1, <2>3, HandlerHasMessage
    <3>2. QED
      BY <2>1, <3>1, UntouchedStep DEF Untouched
  <2>4. QED
    BY <2>2, <2>3
<1>7. ASSUME NEW g \in Files, g # f PROVE FileKnows(g)'
  BY <1>4, <1>7, UntouchedKnows DEF Inv, WorkInv
<1>8. QED
  BY <1>5, <1>6, <1>7 DEF WorkInv

(* Polling gives a worker a message, or nothing, or loses the answer. *)
LEMMA PollKeepsWork ==
  ASSUME Inv, NEW w \in Workers, PollTimedOut(w) \/ ReadMessage(w)
  PROVE  WorkInv'
<1>1. QueueTyped /\ RowsTyped /\ JobsTyped
  BY TypeParts DEF Inv
<1>2. UNCHANGED upload
  BY PollMoves DEF Inv
<1>3. \A g \in Files : /\ Waiting(g)' => Waiting(g)
                       /\ InFlight(g)' => InFlight(g) \/ Waiting(g)
                       /\ Waiting(g) \/ InFlight(g) => Waiting(g)' \/ InFlight(g)'
                       /\ g \in dead' <=> g \in dead
  <2>1. CASE UNCHANGED queueVars
    BY <2>1 DEF queueVars, Waiting, InFlight
  <2>2. ASSUME NEW f \in Files, ClaimTimedOutFileProcessingMessages(w, f)
        PROVE  UNCHANGED <<queue, dead>> /\ \A g \in Files : InFlight(g)' <=> InFlight(g)
    BY <1>1, <2>2, QueueAssumption DEF ClaimTimedOutFileProcessingMessages, TimedOut, InFlight,
                                       QueueTyped
  <2>3. CASE \E f \in Files : ClaimTimedOutFileProcessingMessages(w, f)
    BY <2>2, <2>3 DEF Waiting
  <2>4. CASE ReadFileProcessingMessages(w)
    <3>1. queue # <<>> /\ queue' = Tail(queue) /\ dead' = dead
      BY <2>4 DEF ReadFileProcessingMessages
    <3>2. PICK f \in Files : /\ f = Head(queue).file
                             /\ Holds(queue, f)
                             /\ \A g : Holds(queue, g) <=> Holds(queue', g) \/ g = f
      BY <1>1, <3>1, TakenMessage DEF QueueTyped, Message
    <3>3. lease' = [lease EXCEPT ![f] = [holder |-> w, retry |-> Head(queue).retry,
                                         stale |-> FALSE]]
      BY <2>4, <3>2 DEF ReadFileProcessingMessages
    <3>4. InFlight(f)' /\ \A g \in Files : g # f => (InFlight(g)' <=> InFlight(g))
      BY <1>1, <3>2, <3>3, QueueAssumption DEF InFlight, QueueTyped
    <3>5. \A g : (Waiting(g) <=> Holds(queue, g)) /\ (Waiting(g)' <=> Holds(queue', g))
      BY DEF Waiting, Holds
    <3>6. QED
      BY <3>1, <3>2, <3>4, <3>5
  <2>5. QED
    BY <2>1, <2>3, <2>4 DEF PollTimedOut, ReadMessage
<1>4. \A g \in Files : /\ row'[g].status = row[g].status
                       /\ row'[g].attempt = "none" <=> row[g].attempt = "none"
                       /\ \A x \in Workers : x # w /\ row[g].attempt = x => row'[g].attempt = x
  <2>1. CASE UNCHANGED row
    BY <2>1
  <2>2. CASE \E f \in Files : Begin(w, f, TRUE) \/ Begin(w, f, FALSE)
    BY <1>1, <2>2, ProcessingAssumption DEF Begin, RowsTyped
  <2>3. QED
    BY <2>1, <2>2, PollMoves DEF Inv
<1>5. ASSUME NEW g \in Files PROVE FileKnows(g)'
  <2>1. FileKnows(g)
    BY DEF Inv, WorkInv
  <2>2. QED
    BY <1>2, <1>3, <1>4, <2>1 DEF FileKnows, Unsent, Finished, Final
<1>6. ASSUME NEW x \in Workers, x # w, job'[x].pc \in Handling PROVE StepKnows(x)'
  <2>1. job'[x] = job[x]
    BY <1>1, <1>6, PollMoves DEF Inv, Begin, Goto, JobsTyped
  <2>2. StepKnows(x) /\ job[x].file \in Files
    BY <1>6, <2>1, HandlerHasMessage
  <2>3. QED
    BY <1>2, <1>4, <1>6, <2>1, <2>2 DEF StepKnows, Finished
<1>7. ASSUME job'[w].pc \in Handling PROVE StepKnows(w)'
  <2>1. PICK f \in Files : \/ Begin(w, f, TRUE)
                           \/ /\ Begin(w, f, FALSE)
                              /\ ReadFileProcessingMessages(w) /\ f = Head(queue).file
    <3>1. ASSUME NEW pc \in {"polling", "reading"} PROVE ~Goto(w, pc)
      BY <1>1, <1>7, GotoAt DEF Handling, Processing
    <3>2. QED
      BY <3>1, PollMoves DEF Inv
  <2>2. job'[w].pc = "lookup" /\ job'[w].file = f
        /\ (Begin(w, f, TRUE) => job'[w].reclaimed = TRUE)
    BY <1>1, <2>1 DEF Begin, JobsTyped
  <2>3. CASE Begin(w, f, TRUE)
    BY <2>2, <2>3 DEF StepKnows
  <2>4. CASE ReadFileProcessingMessages(w) /\ f = Head(queue).file
    <3>1. Waiting(f)
      BY <1>1, <2>4, TakenMessage DEF ReadFileProcessingMessages, QueueTyped, Waiting, Holds
    <3>2. row[f].status = "queued" \/ Finished(f)
      BY <3>1 DEF Inv, WorkInv, FileKnows
    <3>3. QED
      BY <1>4, <2>2, <3>2 DEF StepKnows, Finished
  <2>5. QED
    BY <2>1, <2>3, <2>4
<1>8. QED
  BY <1>5, <1>6, <1>7 DEF WorkInv

LEMMA StepKeepsWork ==
  ASSUME Inv, [Next]_vars
  PROVE  WorkInv'
<1>1. QueueTyped /\ JobsTyped
  BY TypeParts DEF Inv
<1>2. ASSUME UNCHANGED <<queue, dead, row, upload>>,
             \A g \in Files : InFlight(g)' <=> InFlight(g),
             \A x \in Workers : job'[x] = job[x] \/ job'[x].pc \notin Handling
      PROVE  WorkInv'
  <2>1. \A g \in Files : Untouched(g)
    BY <1>2 DEF Untouched, Waiting
  <2>2. \A g \in Files : FileKnows(g)'
    BY <2>1, UntouchedKnows DEF Inv, WorkInv
  <2>3. ASSUME NEW x \in Workers, job'[x].pc \in Handling PROVE StepKnows(x)'
    BY <1>2, <2>3, UntouchedStep DEF Inv, WorkInv
  <2>4. QED
    BY <2>2, <2>3 DEF WorkInv
<1>3. CASE UNCHANGED vars
  BY <1>2, <1>3 DEF vars, queueVars, InFlight
<1>4. ASSUME NEW w \in Workers, RenewLease(w) PROVE WorkInv'
  <2>1. job[w].file \in Files
    BY <1>4, CallHandles DEF Inv
  <2>2. UNCHANGED <<queue, dead>> /\ \A g \in Files : InFlight(g)' <=> InFlight(g)
    BY <1>1, <1>4, <2>1 DEF RenewLease, RenewFileProcessingMessageLease, QueueTyped, InFlight,
                            queueVars
  <2>3. \A x \in Workers : job'[x] = job[x] \/ job'[x].pc \notin Handling
    BY <1>1, <1>4 DEF RenewLease, Return, Free, JobsTyped, Handling, Processing
  <2>4. QED
    BY <1>2, <1>4, <2>2, <2>3 DEF RenewLease
<1>5. ASSUME NEW f \in Files, Lapse(f) PROVE WorkInv'
  <2>1. UNCHANGED <<queue, dead>> /\ \A g \in Files : InFlight(g)' <=> InFlight(g)
    BY <1>1, <1>5 DEF Lapse, LeaseTimesOut, QueueTyped, InFlight
  <2>2. QED
    BY <1>2, <1>5, <2>1 DEF Lapse
<1>6. ASSUME NEW w \in Workers, WorkerCrashes(w) PROVE WorkInv'
  <2>1. UNCHANGED <<queue, dead>> /\ \A g \in Files : InFlight(g)' <=> InFlight(g)
    BY <1>1, <1>6, QueueAssumption DEF WorkerCrashes, ConsumerGone, QueueTyped, InFlight, Owns
  <2>2. \A x \in Workers : job'[x] = job[x] \/ job'[x].pc \notin Handling
    BY <1>1, <1>6 DEF WorkerCrashes, Return, Free, JobsTyped, Handling, Processing
  <2>3. QED
    BY <1>2, <1>6, <2>1, <2>2 DEF WorkerCrashes
<1>7. QED
  BY <1>3, <1>4, <1>5, <1>6, UploadKeepsWork, PollKeepsWork, CallKeepsWork
     DEF Next, Work, Call

LEMMA InitWork == ASSUME Init PROVE WorkInv
  BY QueueAssumption DEF Init, QueueInit, WorkInv, FileKnows, Unsent, Finished, Final, Free, Handling, Processing,
     Waiting, InFlight, NoLease

LEMMA Invariance == ASSUME Stalls = FALSE PROVE Spec => []Inv
<1>1. Init => Inv
  BY InitTyped, InitMessages, InitLeases, InitWork DEF Inv
<1>2. Inv /\ [Next]_vars => Inv'
  BY StepKeepsType, StepKeepsMessages, StepKeepsLeases, StepKeepsWork DEF Inv
<1>3. QED
  BY <1>1, <1>2, PTL DEF Spec

(* An accepted file that is not finished still has its message, as long as   *)
(* no live handler loses its lease: whoever settles or buries a message      *)
(* knows that its file is finished.                                          *)
THEOREM NothingAbandoned ==
  ASSUME Stalls = FALSE
  PROVE  Spec => []AcceptedNotAbandoned
<1>1. Inv => AcceptedNotAbandoned
  BY DEF Inv, WorkInv, FileKnows, AcceptedNotAbandoned, Finished
<1>2. QED
  BY <1>1, Invariance, PTL

(* A dead letter is about a finished file, as long as no live handler loses  *)
(* its lease.                                                                *)
THEOREM DeadLettersAreFinished ==
  ASSUME Stalls = FALSE
  PROVE  Spec => []DeadLettersFinished
<1>1. Inv => DeadLettersFinished
  BY DEF Inv, TypeInv, TypeOK, WorkInv, FileKnows, DeadLettersFinished, Finished
<1>2. QED
  BY <1>1, Invariance, PTL

(* A call writes the row of a finished, accepted file no more. *)
LEMMA CallKeepsResult ==
  ASSUME Inv, NEW w \in Workers, Call(w), NEW f \in Files,
         upload[f] = "accepted", Finished(f)
  PROVE  row'[f].status = row[f].status
<1>1. job[w].file \in Files /\ RowsTyped /\ FileKnows(f)
  BY CallHandles, TypeParts DEF Inv, WorkInv
<1>2. CASE job[w].file # f
  BY <1>2, CallTouches DEF Untouched
<1>3. CASE job[w].file = f
  <2>1. row[f].attempt # w /\ job[w].pc # "overwriting" /\ StepKnows(w)
    <3>1. row[f].attempt = "none"
      BY <1>1 DEF FileKnows
    <3>2. StepKnows(w)
      BY <1>3, CallHandles, HandlerHasMessage DEF Inv
    <3>3. job[w].pc # "overwriting"
      BY <1>3, <3>2 DEF StepKnows
    <3>4. QED
      BY <3>1, <3>2, <3>3, ProcessingAssumption
  <2>2. CASE TryClaim(w)
    <3>1. ~Claimable(f, job[w].reclaimed)
      BY DEF Claimable, Finished, Final
    <3>2. QED
      BY <1>3, <2>2, <3>1 DEF TryClaim
  <2>3. CASE ~TryClaim(w)
    BY <1>3, <2>1, <2>3 DEF Call, LookUp, Extract, FinalizeImage, Publish, Finish,
         ExtractionFails, VerifyLease, ResetForRetry, Resettable, Requeue, Settle, Bury,
         Finalize, CloseClaim, Overwrite, Inspect, UpdateClaimed, LastCall
  <2>4. QED
    BY <2>2, <2>3
<1>4. QED
  BY <1>2, <1>3

(* No late answer, retry or duplicate takes a result back, as long as no     *)
(* live handler loses its lease: no attempt holds the row of a finished file.*)
THEOREM ResultsStay ==
  ASSUME Stalls = FALSE
  PROVE  Spec => ResultsFinal
<1> DEFINE Stays == \A f \in Files : upload[f] = "accepted" /\ row[f].status \in Final
                                       => row'[f].status = row[f].status
<1>1. ASSUME Inv, Next, NEW f \in Files, upload[f] = "accepted", Finished(f)
      PROVE  row'[f].status = row[f].status
  <2>1. RowsTyped
    BY <1>1, TypeParts DEF Inv
  <2>2. ASSUME NEW g \in Files, Initialize(g) \/ UploadCrashes(g) \/ Lapse(g)
        PROVE  row'[f].status = row[f].status
    BY <1>1, <2>1, <2>2 DEF Initialize, MarkQueued, EnqueueFile, MarkFailed, UploadCrashes,
                            Lapse, Write, RowsTyped
  <2>3. ASSUME NEW w \in Workers, PollTimedOut(w) \/ ReadMessage(w)
        PROVE  row'[f].status = row[f].status
    BY <1>1, <2>1, <2>3, PollMoves DEF Inv, Begin, RowsTyped
  <2>4. ASSUME NEW w \in Workers, Call(w)
        PROVE  row'[f].status = row[f].status
    BY <1>1, <2>4, CallKeepsResult
  <2>5. QED
    BY <1>1, <2>2, <2>3, <2>4 DEF Next, Work, Call, RenewLease, WorkerCrashes
<1>2. Inv /\ [Next]_vars => [Stays]_vars
  BY <1>1 DEF Finished
<1>3. QED
  BY <1>2, Invariance, PTL DEF Spec, ResultsFinal
-----------------------------------------------------------------------------
(* What is seen of a file as FileWork sees it. *)

Seen(g) == <<Item[g], Result[g]>>

(* A file of which neither message nor result is touched looks the same. *)
LEMMA SameSeen ==
  ASSUME NEW g \in Files,
         Accepted(g)' <=> Accepted(g),
         Accepted(g) => /\ Waiting(g)' <=> Waiting(g)
                        /\ lease'[g].holder = lease[g].holder
                        /\ row'[g].status = row[g].status
  PROVE  Seen(g)' = Seen(g)
  BY DEF Seen, Item, Result, InFlight

(* A step that touches one file changes what is seen of that one. *)
LEMMA OneSeen ==
  ASSUME NEW f \in Files, \A g \in Files \ {f} : Seen(g)' = Seen(g)
  PROVE  /\ Item' = [Item EXCEPT ![f] = Item'[f]]
         /\ Result' = [Result EXCEPT ![f] = Result'[f]]
<1>1. \A g \in Files \ {f} : Item'[g] = Item[g] /\ Result'[g] = Result[g]
  BY DEF Seen
<1>2. /\ Item = [g \in Files |-> Item[g]] /\ Item' = [g \in Files |-> Item'[g]]
      /\ Result = [g \in Files |-> Result[g]] /\ Result' = [g \in Files |-> Result'[g]]
  BY DEF Item, Result
<1> HIDE DEF Item, Result
<1>3. QED
  BY <1>1, <1>2

Stutter == Item' = Item /\ Result' = Result

LEMMA NoneSeen ==
  ASSUME \A g \in Files : Seen(g)' = Seen(g)
  PROVE  Stutter
<1>1. \A g \in Files : Item'[g] = Item[g] /\ Result'[g] = Result[g]
  BY DEF Seen
<1>2. /\ Item = [g \in Files |-> Item[g]] /\ Item' = [g \in Files |-> Item'[g]]
      /\ Result = [g \in Files |-> Result[g]] /\ Result' = [g \in Files |-> Result'[g]]
  BY DEF Item, Result
<1> HIDE DEF Item, Result
<1>3. QED
  BY <1>1, <1>2 DEF Stutter

(* The upload is accepted with its message, or nothing is seen of it. *)
LEMMA UploadSeen ==
  ASSUME Inv, NEW f \in Files, Initialize(f) \/ UploadCrashes(f)
  PROVE  Promised!Next \/ Stutter
<1>1. QueueTyped /\ RowsTyped /\ UploadsTyped /\ FileKnows(f) /\ UNCHANGED lease
  BY TypeParts DEF Inv, WorkInv, Initialize, MarkQueued, EnqueueFile, MarkFailed,
                   UploadCrashes, queueVars, EnqueueFileProcessing
<1>2. ~Accepted(f) /\ \A g \in Files \ {f} : row'[g] = row[g] /\ upload'[g] = upload[g]
  BY <1>1 DEF Initialize, MarkQueued, EnqueueFile, MarkFailed, UploadCrashes, Write, Advance,
              RowsTyped, UploadsTyped, Accepted
<1>3. CASE ~Accepted(f)' /\ UNCHANGED queue
  <2>1. \A g \in Files : Seen(g)' = Seen(g)
    BY <1>1, <1>2, <1>3, SameSeen DEF Accepted, Waiting
  <2>2. QED
    BY <2>1, NoneSeen
<1>4. CASE EnqueueFileProcessing(f)
  <2>1. [file |-> f, retry |-> 0] \in Message
    BY ProcessingAssumption DEF Message
  <2>2. \A g : Waiting(g)' <=> Waiting(g) \/ g = f
    <3>1. \A g : (Waiting(g) <=> Holds(queue, g)) /\ (Waiting(g)' <=> Holds(queue', g))
      BY DEF Waiting, Holds
    <3>2. QED
      BY <1>1, <1>4, <2>1, <3>1, AppendedMessage DEF EnqueueFileProcessing, QueueTyped
  <2>3. \A g \in Files \ {f} : Seen(g)' = Seen(g)
    BY <1>1, <1>2, <2>2, SameSeen DEF Accepted
  <2>4. CASE ~Accepted(f)'
    BY <1>1, <1>2, <2>3, <2>4, SameSeen, NoneSeen
  <2>5. CASE Accepted(f)'
    <3>1. upload[f] = "stored" /\ UNCHANGED row
      BY <1>1, <1>2, <2>5 DEF Initialize, MarkQueued, EnqueueFile, MarkFailed, UploadCrashes,
                              Advance, UploadsTyped, Accepted
    <3>2. row'[f].status \notin Final
      BY <1>1, <3>1 DEF FileKnows, Final
    <3>3. Item[f] = "none" /\ Item'[f] = "waiting" /\ Result[f] = "open" /\ Result'[f] = "open"
      BY <1>2, <2>2, <2>5, <3>2 DEF Item, Result
    <3>4. Promised!Accept(f)
      <4>1. /\ Item' = [Item EXCEPT ![f] = "waiting"]
            /\ Result' = [Result EXCEPT ![f] = Result[f]]
        BY <2>3, <3>3, OneSeen
      <4>2. Result' = Result
        BY <4>1 DEF Result
      <4>3. QED
        BY <3>3, <4>1, <4>2 DEF Promised!Accept, Promised!Move
    <3>5. QED
      BY <3>4 DEF Promised!Next
  <2>6. QED
    BY <2>4, <2>5
<1>5. QED
  BY <1>1, <1>2, <1>3, <1>4 DEF Initialize, MarkQueued, EnqueueFile, MarkFailed, UploadCrashes,
       Advance, UploadsTyped, Accepted, queueVars

(* A worker takes a waiting message, or takes one over. *)
LEMMA PollSeen ==
  ASSUME Inv, NEW w \in Workers, PollTimedOut(w) \/ ReadMessage(w)
  PROVE  Promised!Next \/ Stutter
<1>1. QueueTyped /\ RowsTyped /\ UNCHANGED upload
  BY PollMoves, TypeParts DEF Inv
<1>2. \A g \in Files : row'[g].status = row[g].status
  BY <1>1, PollMoves DEF Inv, Begin, RowsTyped
<1>3. \A g \in Files : Accepted(g)' <=> Accepted(g)
  BY <1>1 DEF Accepted
<1>4. Result' = Result
  BY <1>2, <1>3 DEF Result
<1>5. CASE UNCHANGED queueVars
  <2>1. \A g \in Files : Seen(g)' = Seen(g)
    BY <1>2, <1>3, <1>5, SameSeen DEF queueVars, Waiting
  <2>2. QED
    BY <2>1, NoneSeen
<1>6. ASSUME NEW f \in Files, NEW x \in Workers \cup {"gone", "waiting"},
             \A g \in Files \ {f} : Seen(g)' = Seen(g),
             Accepted(f) => Item[f] = x /\ Item'[f] = w
      PROVE  Promised!Next \/ Stutter
  <2>1. CASE ~Accepted(f)
    BY <1>3, <1>6, <2>1, SameSeen, NoneSeen
  <2>2. CASE Accepted(f)
    <3>1. Item' = [Item EXCEPT ![f] = w]
      BY <1>6, <2>2, OneSeen
    <3>2. Promised!Take(w, f) \/ Promised!TakeOver(w, f)
      BY <1>4, <1>6, <2>2, <3>1 DEF Promised!Take, Promised!TakeOver, Promised!Move
    <3>3. QED
      BY <3>2 DEF Promised!Next
  <2>3. QED
    BY <2>1, <2>2
<1>7. ASSUME NEW f \in Files, ClaimTimedOutFileProcessingMessages(w, f)
      PROVE  Promised!Next \/ Stutter
  <2> DEFINE x == lease[f].holder
  <2>1. x \in Workers \cup {"gone"} /\ UNCHANGED queue
    BY <1>1, <1>7 DEF ClaimTimedOutFileProcessingMessages, TimedOut, InFlight, QueueTyped
  <2>2. lease'[f].holder = w /\ \A g \in Files \ {f} : lease'[g] = lease[g]
    BY <1>1, <1>7 DEF ClaimTimedOutFileProcessingMessages, QueueTyped
  <2>3. \A g \in Files \ {f} : Seen(g)' = Seen(g)
    BY <1>2, <1>3, <2>1, <2>2, SameSeen DEF Waiting
  <2>4. InFlight(f) /\ ~Waiting(f) /\ InFlight(f)' /\ ~Waiting(f)'
    BY <1>7, <2>1, <2>2, QueueAssumption DEF ClaimTimedOutFileProcessingMessages, TimedOut,
         InFlight, Inv, MessageInv, OneMessage, Waiting
  <2>5. Accepted(f) => Item[f] = x /\ Item'[f] = w
    BY <1>3, <2>2, <2>4 DEF Item
  <2>6. QED
    BY <1>6, <2>1, <2>3, <2>5
<1>8. CASE ReadFileProcessingMessages(w)
  <2>1. queue # <<>> /\ queue' = Tail(queue)
    BY <1>8 DEF ReadFileProcessingMessages
  <2>2. Single(queue) /\ queue \in Seq(Message)
    BY <1>1, OneMessageParts DEF Inv, MessageInv, QueueTyped
  <2>3. PICK f \in Files : /\ f = Head(queue).file
                           /\ Holds(queue, f) /\ ~Holds(queue', f)
                           /\ \A g : g # f => (Holds(queue', g) <=> Holds(queue, g))
    BY <2>1, <2>2, TakenMessage DEF Message
  <2>4. lease'[f].holder = w /\ \A g \in Files \ {f} : lease'[g] = lease[g]
    BY <1>1, <1>8, <2>3 DEF ReadFileProcessingMessages, QueueTyped
  <2>5. \A g : (Waiting(g) <=> Holds(queue, g)) /\ (Waiting(g)' <=> Holds(queue', g))
    BY DEF Waiting, Holds
  <2>6. \A g \in Files \ {f} : Seen(g)' = Seen(g)
    BY <1>2, <1>3, <2>3, <2>4, <2>5, SameSeen
  <2>7. Accepted(f) => Item[f] = "waiting" /\ Item'[f] = w
    BY <1>3, <2>3, <2>4, <2>5, QueueAssumption DEF Item, InFlight
  <2>8. QED
    BY <1>6, <2>6, <2>7
<1>9. QED
  BY <1>5, <1>7, <1>8 DEF PollTimedOut, ReadMessage

(* What a call does to the message it is about: it keeps it, gives it up     *)
(* when the file has its result, or hands it back when it has none.          *)
LEMMA CallEnds ==
  ASSUME Inv, NEW w \in Workers, Call(w), NEW f \in Files, f = job[w].file, Accepted(f)
  PROVE  \/ lease'[f].holder = w /\ ~Waiting(f)'
         \/ UNCHANGED row /\ Finished(f) /\ ~InFlight(f)' /\ ~Waiting(f)'
         \/ UNCHANGED row /\ ~Finished(f) /\ Waiting(f)'
<1>1. QueueTyped /\ job[w].pc \in Handling
  BY TypeParts, CallHandles DEF Inv
<1>2. Owns(w, f) /\ ~Waiting(f) /\ StepKnows(w)
  BY <1>1, HandlerHasMessage
<1>3. CASE UNCHANGED queueVars
  BY <1>2, <1>3 DEF queueVars, Waiting, Owns
<1>4. CASE VerifyLease(w)
  BY <1>1, <1>2, <1>3, <1>4 DEF VerifyLease, RenewFileProcessingMessageLease, QueueTyped,
                                Waiting, Owns
<1>5. CASE (Settle(w) /\ SettleFileProcessingMessage(w, f))
           \/ (Bury(w) /\ DeadLetterFileProcessingMessage(w, f))
  <2>1. UNCHANGED <<row, queue>> /\ lease' = [lease EXCEPT ![f] = NoLease]
    BY <1>5 DEF Settle, Bury, LastCall, SettleFileProcessingMessage,
                DeadLetterFileProcessingMessage
  <2>2. Finished(f)
    BY <1>2, <1>5 DEF Settle, Bury, StepKnows
  <2>3. QED
    BY <1>1, <1>2, <2>1, <2>2 DEF QueueTyped, NoLease, InFlight, Waiting
<1>6. CASE Requeue(w) /\ RequeueFileProcessingMessage(w, f, job[w].retry + 1)
  <2>1. job[w].retry + 1 \in 0..MaxRetries
    BY <1>6, ProcessingAssumption DEF Requeue, Inv, TypeInv, TypeOK, HandlerTyped
  <2>2. [file |-> f, retry |-> job[w].retry + 1] \in Message
    BY <2>1 DEF Message
  <2>3. Holds(queue', f)
    BY <1>1, <1>6, <2>2, AppendedMessage DEF RequeueFileProcessingMessage, QueueTyped
  <2>4. ~Finished(f) /\ UNCHANGED row
    BY <1>2, <1>6 DEF Requeue, LastCall, StepKnows, Accepted
  <2>5. QED
    BY <2>3, <2>4 DEF Waiting, Holds
<1>7. QED
  BY <1>2, <1>3, <1>4, <1>5, <1>6 DEF Call, LookUp, TryClaim, Extract, FinalizeImage, Publish,
       Finish, ExtractionFails, ResetForRetry, Requeue, Settle, Bury, Finalize, CloseClaim,
       Overwrite, Inspect, UpdateClaimed, LastCall

(* So a call gives the result, hands back, drops, or is not seen. *)
LEMMA CallSeen ==
  ASSUME Inv, NEW w \in Workers, Call(w)
  PROVE  Promised!Next \/ Stutter
<1>1. PICK f \in Files : f = job[w].file
  BY CallHandles DEF Inv
<1>2. UNCHANGED upload /\ RowsTyped' /\ job[w].pc \in Handling
  BY CallMoves, CallHandles, TypeParts, RowMoveKeepsType DEF Call, Inv
<1>3. Owns(w, f) /\ InFlight(f) /\ ~Waiting(f)
  BY <1>1, <1>2, HandlerHasMessage
<1>4. \A g \in Files : Accepted(g)' <=> Accepted(g)
  BY <1>2 DEF Accepted
<1>5. \A g \in Files \ {f} : Seen(g)' = Seen(g)
  BY <1>1, <1>4, CallTouches, CallLeases, SameSeen DEF Untouched, Inv
<1>6. CASE ~Accepted(f)
  BY <1>4, <1>5, <1>6, SameSeen, NoneSeen
<1>7. CASE Accepted(f)
  <2>1. Item[f] = w /\ Accepted(f)'
    BY <1>2, <1>3, <1>7 DEF Item, Owns, Accepted
  <2>2. Result[f] = (IF Finished(f) THEN row[f].status ELSE "open")
        /\ Result'[f] = (IF Finished(f)' THEN row'[f].status ELSE "open")
    BY <1>7, <2>1 DEF Result, Finished
  <2>3. /\ Item' = [Item EXCEPT ![f] = Item'[f]]
        /\ Result' = [Result EXCEPT ![f] = Result'[f]]
    BY <1>5, OneSeen
  <2>4. Result = [Result EXCEPT ![f] = Result[f]] /\ Item = [Item EXCEPT ![f] = Item[f]]
    BY DEF Result, Item
  <2>5. CASE lease'[f].holder = w /\ ~Waiting(f)'
    <3>1. Item' = Item
      <4>1. Item'[f] = w
        BY <2>1, <2>5, QueueAssumption DEF Item, InFlight
      <4>2. QED
        BY <2>1, <2>3, <2>4, <4>1
    <3>2. CASE Finished(f)
      <4>1. Result'[f] = Result[f]
        BY <1>7, <2>2, <3>2, CallKeepsResult DEF Accepted, Finished
      <4>2. QED
        BY <2>3, <2>4, <3>1, <4>1 DEF Stutter
    <3>3. CASE ~Finished(f) /\ ~Finished(f)'
      BY <2>2, <2>3, <2>4, <3>1, <3>3 DEF Stutter
    <3>4. CASE ~Finished(f) /\ Finished(f)'
      <4>1. Result[f] = "open" /\ Result'[f] \in {"ready", "failed"}
        BY <2>2, <3>4 DEF Finished, Final
      <4>2. Promised!Finish(w, f)
        BY <2>1, <2>3, <3>1, <4>1 DEF Promised!Finish
      <4>3. QED
        BY <4>2 DEF Promised!Next
    <3>5. QED
      BY <3>2, <3>3, <3>4
  <2>6. CASE UNCHANGED row /\ Finished(f) /\ ~InFlight(f)' /\ ~Waiting(f)'
    <3>1. Item'[f] = "done" /\ Result[f] # "open"
      BY <2>1, <2>2, <2>6 DEF Item, Finished, Final
    <3>2. Result' = Result
      BY <2>2, <2>3, <2>4, <2>6 DEF Finished
    <3>3. Promised!Drop(w, f)
      BY <2>1, <2>3, <3>1, <3>2 DEF Promised!Drop, Promised!Move
    <3>4. QED
      BY <3>3 DEF Promised!Next
  <2>7. CASE UNCHANGED row /\ ~Finished(f) /\ Waiting(f)'
    <3>1. Item'[f] = "waiting" /\ Result[f] = "open"
      BY <2>1, <2>2, <2>7 DEF Item
    <3>2. Result' = Result
      BY <2>2, <2>3, <2>4, <2>7 DEF Finished
    <3>3. Promised!HandBack(w, f)
      BY <2>1, <2>3, <3>1, <3>2 DEF Promised!HandBack, Promised!Move
    <3>4. QED
      BY <3>3 DEF Promised!Next
  <2>8. QED
    BY <1>1, <1>7, <2>5, <2>6, <2>7, CallEnds
<1>8. QED
  BY <1>6, <1>7

(* A worker that ends leaves what it holds to nobody. *)
LEMMA CrashSeen ==
  ASSUME Inv, NEW w \in Workers, WorkerCrashes(w)
  PROVE  Promised!Next \/ Stutter
<1>1. QueueTyped /\ UNCHANGED <<queue, row, upload>>
  BY TypeParts DEF Inv, WorkerCrashes, ConsumerGone
<1>2. \A g \in Files : lease'[g].holder = IF lease[g].holder = w THEN "gone"
                                          ELSE lease[g].holder
  BY <1>1 DEF WorkerCrashes, ConsumerGone, QueueTyped, Owns
<1>3. ASSUME NEW g \in Files
      PROVE  Item'[g] = IF Item[g] = w THEN "gone" ELSE Item[g]
  BY <1>1, <1>2, QueueAssumption, ProcessingAssumption DEF Item, Accepted, Waiting, InFlight
<1>4. Item' = [g \in Files |-> IF Item[g] = w THEN "gone" ELSE Item[g]]
  <2>1. Item' = [g \in Files |-> Item'[g]]
    BY DEF Item
  <2> HIDE DEF Item
  <2>2. QED
    BY <1>3, <2>1
<1>5. Result' = Result
  BY <1>1 DEF Result, Accepted
<1>6. Promised!Leave(w)
  BY <1>4, <1>5 DEF Promised!Leave
<1>7. QED
  BY <1>6 DEF Promised!Next

LEMMA StepSeen ==
  ASSUME Inv, [Next]_vars
  PROVE  Promised!Next \/ Stutter
<1>1. QueueTyped
  BY TypeParts DEF Inv
<1>2. ASSUME UNCHANGED <<queue, row, upload>>,
             \A g \in Files : lease'[g].holder = lease[g].holder
      PROVE  Stutter
  <2>1. \A g \in Files : Seen(g)' = Seen(g)
    BY <1>2, SameSeen DEF Accepted, Waiting
  <2>2. QED
    BY <2>1, NoneSeen
<1>3. CASE UNCHANGED vars
  BY <1>2, <1>3 DEF vars, queueVars
<1>4. ASSUME NEW w \in Workers, RenewLease(w) PROVE Stutter
  <2>1. job[w].file \in Files
    BY <1>4, CallHandles DEF Inv
  <2>2. UNCHANGED <<queue, row, upload>> /\ \A g \in Files : lease'[g].holder = lease[g].holder
    BY <1>1, <1>4, <2>1 DEF RenewLease, RenewFileProcessingMessageLease, QueueTyped, queueVars
  <2>3. QED
    BY <1>2, <2>2
<1>5. ASSUME NEW f \in Files, Lapse(f) PROVE Stutter
  BY <1>1, <1>2, <1>5 DEF Lapse, LeaseTimesOut, QueueTyped
<1>6. QED
  BY <1>3, <1>4, <1>5, UploadSeen, PollSeen, CallSeen, CrashSeen DEF Next, Work, Call

(* What becomes of an accepted file is what FileWork promises, as long as no *)
(* live handler loses its lease: of all that handlers, retries, takeovers    *)
(* and ended workers do, only the steps of FileWork are seen.                *)
THEOREM FilesAreWorkedOff ==
  ASSUME Stalls = FALSE
  PROVE  Spec => WorkedOff
<1>1. Init => Promised!Init
  BY DEF Init, Promised!Init, Item, Result, Accepted
<1>2. Inv /\ [Next]_vars => [Promised!Next]_(Promised!work)
  BY StepSeen DEF Stutter, Promised!work
<1>3. QED
  BY <1>1, <1>2, Invariance, PTL DEF Spec, WorkedOff, Promised!Spec
=============================================================================
