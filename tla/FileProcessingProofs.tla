------------------------ MODULE FileProcessingProofs ------------------------
(***************************************************************************)
(* What holds of FileProcessing whatever fails, stalls or crashes: its     *)
(* types and the limit of retries, that a file has one message, and that a *)
(* queued file has it.  Each step is reduced to the move it makes in the   *)
(* queue, and to the moves of a job and of a row.                          *)
(***************************************************************************)
EXTENDS FileProcessing, TLAPS

(* A handler has a file, and a retry is within the limit. *)
HandlerTyped(w) ==
  /\ job[w].pc \in Handling => job[w].file \in Files
  /\ job[w].pc \in {"resetting", "requeueing"} => job[w].retry < MaxRetries

TypeInv == TypeOK /\ \A w \in Workers : HandlerTyped(w)

(* Before an upload has enqueued its message there is none. *)
Unsent(f) == upload[f] \in {"new", "stored"}

MessageInv ==
  /\ OneMessage
  /\ \A f \in Files : Unsent(f) => ~Waiting(f) /\ ~InFlight(f)
-----------------------------------------------------------------------------
(* The sequence of waiting messages. *)

Message == [file : Files, retry : 0..MaxRetries]

Holds(q, f) == \E i \in DOMAIN q : q[i].file = f

Single(q) == \A i, j \in DOMAIN q : q[i].file = q[j].file => i = j

(* A message put at the end of the queue joins the others. *)
LEMMA AppendedMessage ==
  ASSUME NEW q \in Seq(Message), NEW m \in Message
  PROVE  /\ Append(q, m) \in Seq(Message)
         /\ \A f : Holds(Append(q, m), f) <=> Holds(q, f) \/ f = m.file
         /\ ~Holds(q, m.file) /\ Single(q) => Single(Append(q, m))
<1> DEFINE r == Append(q, m)
<1>1. r \in Seq(Message) /\ Len(q) \in Nat /\ DOMAIN q = 1..Len(q)
      /\ DOMAIN r = 1..(Len(q) + 1)
  OBVIOUS
<1>2. r[Len(q) + 1] = m /\ \A i \in 1..Len(q) : r[i] = q[i]
  OBVIOUS
<1> HIDE DEF r
<1>3. \A f : Holds(r, f) <=> Holds(q, f) \/ f = m.file
  BY <1>1, <1>2 DEF Holds
<1>4. ASSUME ~Holds(q, m.file), Single(q) PROVE Single(r)
  BY <1>1, <1>2, <1>4 DEF Holds, Single
<1>5. QED
  BY <1>1, <1>3, <1>4 DEF r

(* The message taken from the head of the queue leaves the others. *)
LEMMA TakenMessage ==
  ASSUME NEW q \in Seq(Message), q # <<>>
  PROVE  /\ Head(q) \in Message /\ Tail(q) \in Seq(Message)
         /\ Holds(q, Head(q).file)
         /\ \A f : Holds(q, f) <=> Holds(Tail(q), f) \/ f = Head(q).file
         /\ Single(q) => Single(Tail(q)) /\ ~Holds(Tail(q), Head(q).file)
<1>1. Len(q) \in Nat \ {0} /\ Head(q) = q[1] /\ Len(Tail(q)) = Len(q) - 1
  OBVIOUS
<1>2. \A i \in 1..(Len(q) - 1) : Tail(q)[i] = q[i + 1]
  OBVIOUS
<1>3. Head(q) \in Message /\ Tail(q) \in Seq(Message)
  OBVIOUS
<1>4. DOMAIN q = 1..Len(q) /\ DOMAIN Tail(q) = 1..(Len(q) - 1)
  BY <1>1, <1>3
<1>5. Holds(q, Head(q).file)
  BY <1>1, <1>4 DEF Holds
<1>6. ASSUME NEW f, Holds(Tail(q), f) PROVE Holds(q, f)
  BY <1>1, <1>2, <1>4, <1>6 DEF Holds
<1>7. ASSUME NEW f, Holds(q, f) PROVE Holds(Tail(q), f) \/ f = Head(q).file
  <2>1. PICK i \in DOMAIN q : q[i].file = f
    BY <1>7 DEF Holds
  <2>2. CASE i = 1
    BY <1>1, <2>1, <2>2
  <2>3. CASE i # 1
    <3>1. i - 1 \in DOMAIN Tail(q) /\ Tail(q)[i - 1] = q[i]
      BY <1>1, <1>2, <1>4, <2>1, <2>3
    <3>2. QED
      BY <2>1, <3>1 DEF Holds
  <2>4. QED
    BY <2>2, <2>3
<1>8. ASSUME Single(q) PROVE Single(Tail(q)) /\ ~Holds(Tail(q), Head(q).file)
  BY <1>1, <1>2, <1>4, <1>8 DEF Single, Holds
<1>9. QED
  BY <1>3, <1>5, <1>6, <1>7, <1>8
-----------------------------------------------------------------------------
(* Types. *)

(* What a step may do to the queue. *)
QueueMove ==
  \/ UNCHANGED queueVars
  \/ \E f \in Files : /\ upload[f] = "stored" /\ ~Unsent(f)'
                      /\ EnqueueFileProcessing(f)
  \/ \E w \in Workers :
       \/ ReadFileProcessingMessages(w)
       \/ ConsumerGone(w)
       \/ \E f \in Files :
            \/ ClaimTimedOutFileProcessingMessages(w, f)
            \/ RenewFileProcessingMessageLease(w, f)
            \/ SettleFileProcessingMessage(w, f)
            \/ DeadLetterFileProcessingMessage(w, f)
            \/ \E n \in 0..MaxRetries : RequeueFileProcessingMessage(w, f, n)
  \/ \E f \in Files : LeaseTimesOut(f)

QueueTyped ==
  /\ queue \in Seq(Message)
  /\ lease \in [Files -> [holder : Workers \cup {"nobody", "gone"},
                          retry : 0..MaxRetries, stale : BOOLEAN]]
  /\ dead \in SUBSET Files

(* The moves of the queue keep its type. *)
LEMMA MoveKeepsType ==
  ASSUME QueueTyped, QueueMove
  PROVE  QueueTyped'
<1> USE QueueAssumption, ProcessingAssumption DEF QueueTyped
<1>1. CASE UNCHANGED queueVars
  BY <1>1 DEF queueVars
<1>2. ASSUME NEW f \in Files, EnqueueFileProcessing(f) PROVE QueueTyped'
  <2>1. [file |-> f, retry |-> 0] \in Message
    BY DEF Message
  <2>2. QED
    BY <1>2, <2>1, AppendedMessage DEF EnqueueFileProcessing
<1>3. ASSUME NEW w \in Workers, ReadFileProcessingMessages(w) PROVE QueueTyped'
  <2>1. queue # <<>> /\ Head(queue) \in Message /\ Tail(queue) \in Seq(Message)
    BY <1>3, TakenMessage DEF ReadFileProcessingMessages
  <2>2. [holder |-> w, retry |-> Head(queue).retry, stale |-> FALSE]
          \in [holder : Workers \cup {"nobody", "gone"}, retry : 0..MaxRetries, stale : BOOLEAN]
    BY <2>1 DEF Message
  <2>3. QED
    BY <1>3, <2>1, <2>2 DEF ReadFileProcessingMessages
<1>4. ASSUME NEW w \in Workers, ConsumerGone(w) PROVE QueueTyped'
  BY <1>4 DEF ConsumerGone
<1>5. ASSUME NEW w \in Workers, NEW f \in Files,
             \/ ClaimTimedOutFileProcessingMessages(w, f)
             \/ RenewFileProcessingMessageLease(w, f)
             \/ SettleFileProcessingMessage(w, f)
             \/ DeadLetterFileProcessingMessage(w, f)
      PROVE  QueueTyped'
  <2>1. CASE ClaimTimedOutFileProcessingMessages(w, f)
    BY <2>1 DEF ClaimTimedOutFileProcessingMessages
  <2>2. CASE RenewFileProcessingMessageLease(w, f)
    BY <2>2 DEF RenewFileProcessingMessageLease
  <2>3. CASE SettleFileProcessingMessage(w, f)
    BY <2>3 DEF SettleFileProcessingMessage, NoLease
  <2>4. CASE DeadLetterFileProcessingMessage(w, f)
    BY <2>4 DEF DeadLetterFileProcessingMessage, NoLease
  <2>5. QED
    BY <1>5, <2>1, <2>2, <2>3, <2>4
<1>6. ASSUME NEW w \in Workers, NEW f \in Files, NEW n \in 0..MaxRetries,
             RequeueFileProcessingMessage(w, f, n)
      PROVE  QueueTyped'
  <2>1. [file |-> f, retry |-> n] \in Message
    BY DEF Message
  <2>2. QED
    BY <1>6, <2>1, AppendedMessage DEF RequeueFileProcessingMessage, NoLease
<1>7. ASSUME NEW f \in Files, LeaseTimesOut(f) PROVE QueueTyped'
  BY <1>7 DEF LeaseTimesOut
<1>8. QED
  BY <1>1, <1>2, <1>3, <1>4, <1>5, <1>6, <1>7 DEF QueueMove

(* Every step moves the queue by at most one of its operations. *)
LEMMA StepMovesQueue ==
  ASSUME TypeInv, Next
  PROVE  QueueMove
<1> USE DEF QueueMove
<1>1. ASSUME NEW f \in Files, Initialize(f) \/ UploadCrashes(f) PROVE QueueMove
  BY <1>1 DEF Initialize, MarkQueued, EnqueueFile, MarkFailed, UploadCrashes, Advance,
              Unsent, queueVars, TypeInv, TypeOK
<1>2. ASSUME NEW f \in Files, Lapse(f) PROVE QueueMove
  BY <1>2 DEF Lapse
<1>3. ASSUME NEW w \in Workers, PollTimedOut(w) \/ ReadMessage(w) PROVE QueueMove
  BY <1>3 DEF PollTimedOut, ReadMessage
<1>4. ASSUME NEW w \in Workers,
             \/ LookUp(w) \/ TryClaim(w) \/ Extract(w) \/ FinalizeImage(w) \/ Publish(w)
             \/ Finish(w) \/ ExtractionFails(w) \/ ResetForRetry(w)
             \/ Finalize(w) \/ CloseClaim(w) \/ Overwrite(w) \/ Inspect(w)
      PROVE  UNCHANGED queueVars
  BY <1>4 DEF LookUp, TryClaim, Extract, FinalizeImage, Publish, Finish, ExtractionFails,
              ResetForRetry, Finalize, CloseClaim, Overwrite, Inspect, UpdateClaimed
<1>5. ASSUME NEW w \in Workers,
             RenewLease(w) \/ VerifyLease(w) \/ Requeue(w) \/ Settle(w) \/ Bury(w)
      PROVE  QueueMove
  <2>1. job[w].file \in Files
    BY <1>5 DEF RenewLease, VerifyLease, Requeue, Settle, Bury, TypeInv, HandlerTyped,
                Handling, Processing
  <2>2. CASE RenewLease(w) \/ VerifyLease(w) \/ Settle(w) \/ Bury(w)
    BY <2>1, <2>2 DEF RenewLease, VerifyLease, Settle, Bury, LastCall
  <2>3. CASE Requeue(w)
    <3>1. job[w].retry + 1 \in 0..MaxRetries
      BY <2>3, ProcessingAssumption DEF Requeue, TypeInv, TypeOK, HandlerTyped
    <3>2. QED
      BY <2>1, <2>3, <3>1 DEF Requeue, LastCall
  <2>4. QED
    BY <1>5, <2>2, <2>3
<1>6. ASSUME NEW w \in Workers, WorkerCrashes(w) PROVE QueueMove
  BY <1>6 DEF WorkerCrashes
<1>7. QED
  BY <1>1, <1>2, <1>3, <1>4, <1>5, <1>6 DEF Next, Work

Statements == Handling \cup {"polling", "reading"}

JobsTyped ==
  /\ job \in [Workers -> [pc : Statements, file : Files \cup {"none"},
                          retry : 0..MaxRetries, reclaimed : BOOLEAN, outcome : Outcomes]]
  /\ \A w \in Workers : HandlerTyped(w)

RowsTyped ==
  row \in [Files -> [status : Statuses, attempt : Workers \cup {"none", "old"}]]

UploadsTyped ==
  upload \in [Files -> {"new", "stored", "accepted", "rejecting", "rejected", "crashed"}]

LEMMA TypeParts ==
  TypeInv <=> /\ QueueTyped /\ JobsTyped /\ RowsTyped /\ UploadsTyped
              /\ faults \in 0..MaxFaults
  BY DEF TypeInv, TypeOK, QueueTyped, JobsTyped, RowsTyped, UploadsTyped, Message, Statements

LEMMA InitTyped == ASSUME Init PROVE TypeInv
<1> USE QueueAssumption, ProcessingAssumption
<1>1. QueueTyped
  BY DEF Init, QueueInit, QueueTyped, NoLease
<1>2. JobsTyped /\ RowsTyped /\ UploadsTyped /\ faults \in 0..MaxFaults
  BY DEF Init, JobsTyped, RowsTyped, UploadsTyped, HandlerTyped, Free, Handling, Processing,
         Outcomes, Statuses, Statements
<1>3. QED
  BY <1>1, <1>2, TypeParts

(* How a handler goes on to its next call, or returns. *)
JobMove(w) ==
  \/ Return(w)
  \/ job[w].pc \in Handling /\ \E o \in Outcomes : End(w, o)
  \/ \E pc \in Statements :
       /\ Goto(w, pc)
       /\ pc \in Handling => job[w].pc \in Handling
       /\ pc = "resetting" => job[w].retry < MaxRetries
       /\ pc = "requeueing" => job[w].pc = "resetting"

(* How a row is written. *)
RowMove ==
  \/ UNCHANGED row
  \/ \E f \in Files, s \in Statuses :
       \/ Write(f, s)
       \/ \E a \in Workers \cup {"none"} :
            row' = [row EXCEPT ![f] = [status |-> s, attempt |-> a]]

LEMMA RowMoveKeepsType ==
  ASSUME RowsTyped, RowMove
  PROVE  RowsTyped'
  BY DEF RowsTyped, RowMove, Write

LEMMA JobMoveKeepsType ==
  ASSUME JobsTyped, NEW w \in Workers, JobMove(w)
  PROVE  JobsTyped'
<1> USE ProcessingAssumption DEF JobsTyped, HandlerTyped
<1>1. CASE Return(w)
  BY <1>1 DEF Return, Free, Outcomes, Statements, Handling, Processing
<1>2. ASSUME job[w].pc \in Handling, NEW o \in Outcomes, End(w, o) PROVE JobsTyped'
  <2> DEFINE new == [[job[w] EXCEPT !.pc = "verifying"] EXCEPT !.outcome = o]
  <2>1. /\ new \in [pc : Statements, file : Files \cup {"none"}, retry : 0..MaxRetries,
                    reclaimed : BOOLEAN, outcome : Outcomes]
        /\ new.file \in Files /\ new.pc = "verifying"
    BY <1>2 DEF Statements, Handling
  <2>2. job' = [job EXCEPT ![w] = new]
    BY <1>2 DEF End
  <2> HIDE DEF new
  <2>3. QED
    BY <2>1, <2>2
<1>3. ASSUME NEW pc \in Statements, Goto(w, pc),
             pc \in Handling => job[w].pc \in Handling,
             pc = "resetting" => job[w].retry < MaxRetries,
             pc = "requeueing" => job[w].pc = "resetting"
      PROVE  JobsTyped'
  BY <1>3 DEF Goto
<1>4. QED
  BY <1>1, <1>2, <1>3 DEF JobMove

(* Every call of a handler is such a move of its job and of a row. *)
LEMMA CallMoves ==
  ASSUME TypeInv, NEW w \in Workers,
         \/ LookUp(w) \/ TryClaim(w) \/ Extract(w) \/ FinalizeImage(w) \/ Publish(w)
         \/ Finish(w) \/ ExtractionFails(w)
         \/ VerifyLease(w) \/ ResetForRetry(w) \/ Requeue(w) \/ Settle(w) \/ Bury(w)
         \/ Finalize(w) \/ CloseClaim(w) \/ Overwrite(w) \/ Inspect(w)
  PROVE  /\ JobMove(w) /\ RowMove /\ UNCHANGED upload
         /\ Fault \/ NoFault
         /\ job[w].file \in Files
<1> USE DEF JobMove, RowMove, Outcomes
<1>1. job[w].pc \in Handling => job[w].file \in Files
  BY DEF TypeInv, HandlerTyped
<1>2. Statements = Handling \cup {"polling", "reading"}
      /\ Handling = Processing \cup {"verifying", "resetting", "requeueing", "finalizing",
                                     "closing", "overwriting", "inspecting", "burying",
                                     "settling"}
      /\ Processing = {"lookup", "claiming", "extracting", "publishing", "finishing",
                       "failing"}
      /\ Statuses = {"uploaded", "queued", "extracting", "embedding", "ready", "failed"}
  BY DEF Statements, Handling, Processing, Statuses, Final
<1>3. CASE LookUp(w)
  BY <1>1, <1>2, <1>3 DEF LookUp, NoFault
<1>4. CASE TryClaim(w)
  BY <1>1, <1>2, <1>4 DEF TryClaim, NoFault
<1>5. CASE Extract(w)
  BY <1>1, <1>2, <1>5 DEF Extract, NoFault
<1>6. ASSUME NEW s \in Statuses, NEW pc \in Processing, job[w].pc \in Processing,
             UpdateClaimed(w, s, Goto(w, pc)) \/ UpdateClaimed(w, s, End(w, "done"))
      PROVE  /\ JobMove(w) /\ RowMove /\ UNCHANGED upload
             /\ Fault \/ NoFault
  <2>1. Claimed(w, s) = [status |-> s, attempt |-> IF s \in Final THEN "none" ELSE w]
    BY DEF Claimed
  <2>2. JobMove(w)
    BY <1>2, <1>6 DEF UpdateClaimed
  <2>3. RowMove
    BY <1>1, <1>2, <1>6, <2>1 DEF UpdateClaimed
  <2>4. QED
    BY <1>6, <2>2, <2>3 DEF UpdateClaimed
<1>7. CASE FinalizeImage(w) \/ Publish(w) \/ Finish(w) \/ ExtractionFails(w)
  BY <1>1, <1>2, <1>6, <1>7 DEF FinalizeImage, Publish, Finish, ExtractionFails
<1>8. CASE VerifyLease(w)
  <2>1. AfterVerify(w) = "resetting" => job[w].retry < MaxRetries
    BY <1>8, ProcessingAssumption DEF AfterVerify, TypeInv, TypeOK
  <2>2. AfterVerify(w) \in {"resetting", "finalizing", "inspecting", "settling"}
    BY DEF AfterVerify
  <2>3. QED
    BY <1>1, <1>2, <1>8, <2>1, <2>2 DEF VerifyLease
<1>9. CASE ResetForRetry(w)
  BY <1>1, <1>2, <1>9 DEF ResetForRetry
<1>10. CASE Requeue(w) \/ Settle(w) \/ Bury(w)
  BY <1>1, <1>2, <1>10 DEF Requeue, Settle, Bury, LastCall
<1>11. CASE Finalize(w) \/ Inspect(w)
  BY <1>1, <1>2, <1>11 DEF Finalize, Inspect
<1>12. CASE CloseClaim(w)
  BY <1>1, <1>2, <1>12 DEF CloseClaim, Claimed
<1>13. CASE Overwrite(w)
  BY <1>1, <1>2, <1>13 DEF Overwrite
<1>14. QED
  BY <1>3, <1>4, <1>5, <1>7, <1>8, <1>9, <1>10, <1>11, <1>12, <1>13

(* A handler begins with a message it has just got the lease of. *)
LEMMA BeginKeepsType ==
  ASSUME JobsTyped, RowsTyped, QueueTyped', NEW w \in Workers, NEW f \in Files,
         NEW b \in BOOLEAN, Begin(w, f, b)
  PROVE  JobsTyped' /\ RowsTyped'
<1>1. lease'[f].retry \in 0..MaxRetries
  BY DEF QueueTyped
<1>2. JobsTyped'
  BY <1>1 DEF Begin, JobsTyped, HandlerTyped, Statements, Handling, Processing, Outcomes
<1>3. RowsTyped'
  BY DEF Begin, RowsTyped
<1>4. QED
  BY <1>2, <1>3

(* Polling either begins a handler or only moves on. *)
LEMMA PollMoves ==
  ASSUME TypeInv, NEW w \in Workers, PollTimedOut(w) \/ ReadMessage(w)
  PROVE  /\ \/ \E f \in Files :
                 \/ /\ Begin(w, f, TRUE)
                    /\ ClaimTimedOutFileProcessingMessages(w, f)
                 \/ /\ Begin(w, f, FALSE)
                    /\ ReadFileProcessingMessages(w) /\ f = Head(queue).file
            \/ \E pc \in {"polling", "reading"} : Goto(w, pc) /\ UNCHANGED row
         /\ UNCHANGED upload
         /\ Fault \/ NoFault
<1>1. ASSUME ReadFileProcessingMessages(w) PROVE Head(queue).file \in Files
  <2>1. Head(queue) \in Message
    BY <1>1, TypeParts, TakenMessage DEF ReadFileProcessingMessages, QueueTyped
  <2>2. QED
    BY <2>1 DEF Message
<1>2. CASE PollTimedOut(w)
  BY <1>2 DEF PollTimedOut, Begin
<1>3. CASE ReadMessage(w)
  BY <1>1, <1>3 DEF ReadMessage, Begin
<1>4. QED
  BY <1>2, <1>3

LEMMA StepKeepsType ==
  ASSUME TypeInv, [Next]_vars
  PROVE  TypeInv'
<1> DEFINE Rest == JobsTyped' /\ RowsTyped' /\ UploadsTyped' /\ faults' \in 0..MaxFaults
<1>1. QueueTyped /\ JobsTyped /\ RowsTyped /\ UploadsTyped /\ faults \in 0..MaxFaults
  BY TypeParts
<1>2. QueueTyped'
  <2>1. QueueMove
    BY StepMovesQueue DEF QueueMove, vars
  <2>2. QED
    BY <1>1, <2>1, MoveKeepsType
<1>3. ASSUME Fault \/ NoFault PROVE faults' \in 0..MaxFaults
  BY <1>1, <1>3, ProcessingAssumption DEF Fault, NoFault
<1>4. ASSUME UNCHANGED vars PROVE Rest
  BY <1>1, <1>4 DEF vars, JobsTyped, RowsTyped, UploadsTyped, HandlerTyped
<1>5. ASSUME NEW f \in Files, Initialize(f) \/ UploadCrashes(f) \/ Lapse(f) PROVE Rest
  <2>1. UNCHANGED job /\ (Fault \/ NoFault)
    BY <1>5 DEF Initialize, MarkQueued, EnqueueFile, MarkFailed, UploadCrashes, Lapse
  <2>2. RowMove
    BY <1>5 DEF Initialize, MarkQueued, EnqueueFile, MarkFailed, UploadCrashes, Lapse,
                RowMove, Statuses, Final
  <2>3. UploadsTyped'
    BY <1>1, <1>5 DEF Initialize, MarkQueued, EnqueueFile, MarkFailed, UploadCrashes, Lapse,
                      Advance, UploadsTyped
  <2>4. JobsTyped'
    BY <1>1, <2>1 DEF JobsTyped, HandlerTyped
  <2>5. QED
    BY <1>1, <1>3, <2>1, <2>2, <2>3, <2>4, RowMoveKeepsType
<1>6. ASSUME NEW w \in Workers, JobMove(w), RowMove, UNCHANGED upload, Fault \/ NoFault
      PROVE  Rest
  BY <1>1, <1>3, <1>6, JobMoveKeepsType, RowMoveKeepsType DEF UploadsTyped
<1>7. ASSUME NEW w \in Workers, PollTimedOut(w) \/ ReadMessage(w) PROVE Rest
  <2>1. ASSUME NEW f \in Files, Begin(w, f, TRUE) \/ Begin(w, f, FALSE)
        PROVE  JobsTyped' /\ RowsTyped'
    BY <1>1, <1>2, <2>1, BeginKeepsType
  <2>2. ASSUME NEW pc \in {"polling", "reading"}, Goto(w, pc), UNCHANGED row
        PROVE  JobMove(w) /\ RowMove
    BY <2>2 DEF JobMove, RowMove, Statements, Handling, Processing
  <2>3. QED
    BY <1>1, <1>3, <1>6, <1>7, <2>1, <2>2, PollMoves DEF UploadsTyped
<1>8. ASSUME NEW w \in Workers, RenewLease(w) PROVE Rest
  <2>1. UNCHANGED job \/ Return(w)
    BY <1>8 DEF RenewLease
  <2>2. JobsTyped'
    BY <1>1, <2>1, JobMoveKeepsType DEF JobMove, JobsTyped, HandlerTyped
  <2>3. QED
    BY <1>1, <1>8, <2>2 DEF RenewLease, RowsTyped, UploadsTyped
<1>9. ASSUME NEW w \in Workers, WorkerCrashes(w) PROVE Rest
  BY <1>6, <1>9 DEF WorkerCrashes, JobMove, RowMove
<1>10. ASSUME NEW w \in Workers, Work(w) PROVE Rest
  <2>1. CASE PollTimedOut(w) \/ ReadMessage(w)
    BY <1>7, <2>1
  <2>2. CASE ~(PollTimedOut(w) \/ ReadMessage(w))
    <3>1. JobMove(w) /\ RowMove /\ UNCHANGED upload /\ (Fault \/ NoFault)
      BY <1>10, <2>2, CallMoves DEF Work
    <3>2. QED
      BY <1>6, <3>1
  <2>3. QED
    BY <2>1, <2>2
<1>11. Rest
  <2> HIDE DEF Rest
  <2>1. QED
    BY <1>4, <1>5, <1>8, <1>9, <1>10 DEF Next
<1>12. QED
  BY <1>2, <1>11 DEF TypeInv, TypeOK, QueueTyped, JobsTyped, RowsTyped, UploadsTyped,
                     Message, Statements

(* Every component keeps its type and no message is retried more often than *)
(* fileProcessingMaxRetries, whatever fails, lapses or crashes.             *)
THEOREM FilesTypeCorrect == Spec => []TypeOK
<1>1. Init => TypeInv
  BY InitTyped
<1>2. TypeInv /\ [Next]_vars => TypeInv'
  BY StepKeepsType
<1>3. TypeInv => TypeOK
  BY DEF TypeInv
<1>4. QED
  BY <1>1, <1>2, <1>3, PTL DEF Spec
-----------------------------------------------------------------------------
(* The calls of a handler, once they are known to be such moves. *)

(* The calls of a handler. *)
Call(w) ==
  \/ LookUp(w) \/ TryClaim(w) \/ Extract(w) \/ FinalizeImage(w) \/ Publish(w)
  \/ Finish(w) \/ ExtractionFails(w)
  \/ VerifyLease(w) \/ ResetForRetry(w) \/ Requeue(w) \/ Settle(w) \/ Bury(w)
  \/ Finalize(w) \/ CloseClaim(w) \/ Overwrite(w) \/ Inspect(w)

LEMMA CallHandles ==
  ASSUME TypeInv, NEW w \in Workers, Call(w) \/ RenewLease(w)
  PROVE  job[w].pc \in Handling /\ job[w].file \in Files
  BY DEF Call, LookUp, TryClaim, Extract, FinalizeImage, Publish, Finish, ExtractionFails,
         VerifyLease, ResetForRetry, Requeue, Settle, Bury, Finalize, CloseClaim, Overwrite,
         Inspect, RenewLease, TypeInv, HandlerTyped, Handling, Processing

(* The move of a job stays with the job. *)
LEMMA JobMoveFrame ==
  ASSUME TypeInv, NEW w \in Workers, JobMove(w)
  PROVE  /\ \A x \in Workers : x # w => job'[x] = job[x]
         /\ job'[w].pc \in Handling => /\ job[w].pc \in Handling
                                       /\ job'[w].file = job[w].file
                                       /\ job'[w].reclaimed = job[w].reclaimed
<1>1. JobsTyped
  BY TypeParts
<1> USE <1>1 DEF JobsTyped
<1>2. CASE Return(w)
  BY <1>2 DEF Return, Free, Handling, Processing
<1>3. ASSUME NEW o \in Outcomes, job[w].pc \in Handling, End(w, o)
      PROVE  /\ \A x \in Workers : x # w => job'[x] = job[x]
             /\ job'[w].file = job[w].file
             /\ job'[w].reclaimed = job[w].reclaimed
  BY <1>3 DEF End
<1>4. ASSUME NEW pc \in Statements, Goto(w, pc), pc \in Handling => job[w].pc \in Handling
      PROVE  /\ \A x \in Workers : x # w => job'[x] = job[x]
             /\ job'[w].pc = pc
             /\ job'[w].file = job[w].file
             /\ job'[w].reclaimed = job[w].reclaimed
  BY <1>4 DEF Goto
<1>5. QED
  BY <1>2, <1>3, <1>4 DEF JobMove

(* What the handler is at after a call. *)
LEMMA GotoAt ==
  ASSUME JobsTyped, NEW w \in Workers, NEW pc, Goto(w, pc)
  PROVE  /\ job'[w].pc = pc /\ job'[w].file = job[w].file
         /\ job'[w].outcome = job[w].outcome /\ job'[w].reclaimed = job[w].reclaimed
  BY DEF JobsTyped, Goto

LEMMA EndAt ==
  ASSUME JobsTyped, NEW w \in Workers, NEW o, End(w, o)
  PROVE  job'[w].pc = "verifying" /\ job'[w].file = job[w].file /\ job'[w].outcome = o
         /\ job'[w].reclaimed = job[w].reclaimed
  BY DEF JobsTyped, End

LEMMA ReturnAt ==
  ASSUME JobsTyped, NEW w \in Workers, Return(w)
  PROVE  job'[w].pc \notin Handling
  BY DEF JobsTyped, Return, Free, Handling, Processing
-----------------------------------------------------------------------------
(* One message for each file. *)

Apart == \A f \in Files : ~(Waiting(f) /\ InFlight(f))

(* A waiting message is about a file. *)
LEMMA MessageOfFile ==
  ASSUME NEW q \in Seq(Message), NEW i \in DOMAIN q
  PROVE  q[i].file \in Files
<1>1. q[i] \in Message
  OBVIOUS
<1>2. QED
  BY <1>1 DEF Message

LEMMA OneMessageParts ==
  ASSUME QueueTyped
  PROVE  OneMessage <=> Single(queue) /\ Apart
<1>1. \A i \in DOMAIN queue : queue[i].file \in Files
  BY MessageOfFile DEF QueueTyped
<1>2. QED
  BY <1>1 DEF OneMessage, Single, Apart

(* A message moves between waiting and in flight and is never copied. *)
LEMMA MoveKeepsMessages ==
  ASSUME QueueTyped, Single(queue), Apart, QueueMove,
         \A f \in Files : Unsent(f) => ~Waiting(f) /\ ~InFlight(f),
         \A f \in Files : Unsent(f)' => Unsent(f)
  PROVE  /\ Single(queue)' /\ Apart'
         /\ \A f \in Files : Unsent(f)' => ~Waiting(f)' /\ ~InFlight(f)'
<1> DEFINE Kept == /\ Single(queue)' /\ Apart'
                   /\ \A f \in Files : Unsent(f)' => ~Waiting(f)' /\ ~InFlight(f)'
<1>1. \A f : Waiting(f) <=> Holds(queue, f)
  BY DEF Waiting, Holds
<1>2. \A f : Waiting(f)' <=> Holds(queue', f)
  BY DEF Waiting, Holds
<1>3. /\ queue \in Seq(Message)
      /\ lease \in [Files -> [holder : Workers \cup {"nobody", "gone"},
                              retry : 0..MaxRetries, stale : BOOLEAN]]
  BY DEF QueueTyped
<1>4. \A w \in Workers : w # "nobody"
  BY QueueAssumption
<1>5. ASSUME queue' = queue, \A f \in Files : InFlight(f)' => InFlight(f) PROVE Kept
  BY <1>1, <1>2, <1>5 DEF Apart
<1>6. ASSUME UNCHANGED queueVars PROVE Kept
  BY <1>5, <1>6 DEF queueVars, InFlight
<1>7. ASSUME NEW f \in Files, upload[f] = "stored", ~Unsent(f)', EnqueueFileProcessing(f)
      PROVE  Kept
  <2>1. [file |-> f, retry |-> 0] \in Message
    BY ProcessingAssumption DEF Message
  <2>2. ~Waiting(f) /\ ~InFlight(f)
    BY <1>7 DEF Unsent
  <2>3. Single(queue') /\ \A g : Holds(queue', g) <=> Holds(queue, g) \/ g = f
    BY <1>1, <1>3, <1>7, <2>1, <2>2, AppendedMessage DEF EnqueueFileProcessing
  <2>4. \A g \in Files : InFlight(g)' <=> InFlight(g)
    BY <1>7 DEF EnqueueFileProcessing, InFlight
  <2>5. QED
    BY <1>1, <1>2, <1>7, <2>2, <2>3, <2>4 DEF Apart
<1>8. ASSUME NEW w \in Workers, ReadFileProcessingMessages(w) PROVE Kept
  <2> DEFINE f == Head(queue).file
  <2>1. queue # <<>> /\ queue' = Tail(queue)
    BY <1>8 DEF ReadFileProcessingMessages
  <2>2. /\ f \in Files /\ Holds(queue, f)
        /\ \A g : Holds(queue, g) <=> Holds(queue', g) \/ g = f
        /\ Single(queue') /\ ~Holds(queue', f)
    BY <1>3, <2>1, TakenMessage DEF Message
  <2>3. \A g \in Files : g # f => (InFlight(g)' <=> InFlight(g))
    BY <1>3, <1>8 DEF ReadFileProcessingMessages, InFlight
  <2>4. ~Unsent(f)
    BY <1>1, <2>2
  <2> HIDE DEF f
  <2>5. QED
    BY <1>1, <1>2, <2>2, <2>3, <2>4 DEF Apart
<1>9. ASSUME NEW w \in Workers, ConsumerGone(w) PROVE Kept
  BY <1>3, <1>4, <1>5, <1>9 DEF ConsumerGone, InFlight, Owns
<1>10. ASSUME NEW w \in Workers, NEW f \in Files,
              \/ ClaimTimedOutFileProcessingMessages(w, f)
              \/ RenewFileProcessingMessageLease(w, f)
              \/ SettleFileProcessingMessage(w, f)
              \/ DeadLetterFileProcessingMessage(w, f)
       PROVE  Kept
  <2>1. queue' = queue /\ InFlight(f)
    BY <1>4, <1>10 DEF ClaimTimedOutFileProcessingMessages, RenewFileProcessingMessageLease,
                SettleFileProcessingMessage, DeadLetterFileProcessingMessage,
                TimedOut, InFlight, Owns
  <2>2. \A g \in Files : g # f => lease'[g] = lease[g]
    BY <1>3, <1>10 DEF ClaimTimedOutFileProcessingMessages, RenewFileProcessingMessageLease,
                SettleFileProcessingMessage, DeadLetterFileProcessingMessage
  <2>3. QED
    BY <1>5, <2>1, <2>2 DEF InFlight
<1>11. ASSUME NEW w \in Workers, NEW f \in Files, NEW n \in 0..MaxRetries,
              RequeueFileProcessingMessage(w, f, n)
       PROVE  Kept
  <2>1. [file |-> f, retry |-> n] \in Message
    BY DEF Message
  <2>2. InFlight(f) /\ ~Waiting(f)
    BY <1>4, <1>11 DEF RequeueFileProcessingMessage, InFlight, Owns, Apart
  <2>3. Single(queue') /\ \A g : Holds(queue', g) <=> Holds(queue, g) \/ g = f
    BY <1>1, <1>3, <1>11, <2>1, <2>2, AppendedMessage DEF RequeueFileProcessingMessage
  <2>4. ~InFlight(f)' /\ \A g \in Files : g # f => (InFlight(g)' <=> InFlight(g))
    BY <1>3, <1>11 DEF RequeueFileProcessingMessage, InFlight, NoLease
  <2>5. QED
    BY <1>1, <1>2, <2>2, <2>3, <2>4 DEF Apart
<1>12. ASSUME NEW f \in Files, LeaseTimesOut(f) PROVE Kept
  BY <1>3, <1>5, <1>12 DEF LeaseTimesOut, InFlight
<1>13. QED
  BY <1>6, <1>7, <1>8, <1>9, <1>10, <1>11, <1>12 DEF QueueMove

(* An upload that has enqueued its message does not begin again. *)
LEMMA UploadsGoOn ==
  ASSUME TypeInv, Next, NEW f \in Files, Unsent(f)'
  PROVE  Unsent(f)
<1>1. upload \in [Files -> {"new", "stored", "accepted", "rejecting", "rejected", "crashed"}]
  BY DEF TypeInv, TypeOK
<1>2. ASSUME UNCHANGED upload PROVE Unsent(f)
  BY <1>2 DEF Unsent
<1>3. ASSUME NEW g \in Files, Initialize(g) \/ UploadCrashes(g) PROVE Unsent(f)
  BY <1>1, <1>3 DEF Initialize, MarkQueued, EnqueueFile, MarkFailed, UploadCrashes, Advance,
                    Unsent
<1>4. ASSUME NEW w \in Workers, Work(w) PROVE UNCHANGED upload
  BY <1>4, CallMoves, PollMoves DEF Work
<1>5. QED
  BY <1>2, <1>3, <1>4 DEF Next, Lapse, RenewLease, WorkerCrashes

LEMMA InitMessages == ASSUME Init PROVE MessageInv
  BY QueueAssumption DEF Init, QueueInit, MessageInv, OneMessage, Waiting, InFlight, NoLease

LEMMA StepKeepsMessages ==
  ASSUME TypeInv, MessageInv, [Next]_vars
  PROVE  MessageInv'
<1>1. QueueTyped /\ QueueTyped'
  BY StepKeepsType DEF TypeInv, TypeOK, QueueTyped, Message
<1>2. Single(queue) /\ Apart
  BY <1>1, OneMessageParts DEF MessageInv
<1>3. CASE Next
  <2>1. Single(queue)' /\ Apart' /\ \A f \in Files : Unsent(f)' => ~Waiting(f)' /\ ~InFlight(f)'
    BY <1>1, <1>2, <1>3, StepMovesQueue, UploadsGoOn, MoveKeepsMessages DEF MessageInv
  <2>2. OneMessage'
    <3>1. \A i \in DOMAIN queue' : queue'[i].file \in Files
      BY <1>1, MessageOfFile DEF QueueTyped
    <3>2. QED
      BY <2>1, <3>1 DEF OneMessage, Single, Apart
  <2>3. QED
    BY <2>1, <2>2 DEF MessageInv
<1>4. CASE UNCHANGED vars
  BY <1>4 DEF vars, queueVars, MessageInv, OneMessage, Unsent, Waiting, InFlight
<1>5. QED
  BY <1>3, <1>4

(* A file has at most one message, waiting or in flight, whatever happens:   *)
(* requeueing moves the message and a takeover replaces its holder.          *)
THEOREM MessagesUnique == Spec => []OneMessage
<1>1. Init => TypeInv /\ MessageInv
  BY InitTyped, InitMessages
<1>2. TypeInv /\ MessageInv /\ [Next]_vars => (TypeInv /\ MessageInv)'
  BY StepKeepsType, StepKeepsMessages
<1>3. MessageInv => OneMessage
  BY DEF MessageInv
<1>4. QED
  BY <1>1, <1>2, <1>3, PTL DEF Spec
-----------------------------------------------------------------------------
(* A queued file has its message, whatever fails, lapses or crashes.  Only  *)
(* a handler with the lease takes the message away, and it does so knowing  *)
(* that the row is not queued; then nobody may put it back to queued.  A    *)
(* handler that has lost its lease may still be about to reset the row, but *)
(* its message is in flight until whoever has the lease takes its claim.    *)

(* The handler w will reset the row of f. *)
Resets(w, f) == job[w].pc = "resetting" /\ job[w].file = f /\ Resettable(w, f)

(* The handler has claimed the row, or has seen that there is no claim. *)
Resolved(w) ==
  \/ job[w].pc \in {"extracting", "publishing", "finishing", "failing", "resetting",
                    "finalizing", "closing", "overwriting", "inspecting", "burying",
                    "settling"}
  \/ job[w].pc = "verifying" /\ job[w].outcome # "prepareFailed"

(* Nobody else will reset the row. *)
OneResets(w, f) == \A x \in Workers : Resets(x, f) => x = w

RetryKnows(f) ==
  /\ \A w \in Workers : Resets(w, f) => InFlight(f) /\ ~Waiting(f)
  /\ Unsent(f) => \A w \in Workers : ~Handles(w, f)
  /\ \A w \in Workers :
       Owns(w, f) /\ Handles(w, f)
         => /\ Resolved(w) \/ job[w].pc = "requeueing" \/ ~job[w].reclaimed => OneResets(w, f)
            /\ Resolved(w) => row[f].status # "queued"

RetryInv == \A f \in Files : RetryKnows(f)

(* What a call does to messages. *)
LEMMA CallMovesMessage ==
  ASSUME TypeInv, NEW w \in Workers, Call(w), NEW f \in Files, f = job[w].file
  PROVE  /\ \A g \in Files, x \in Workers : Owns(x, g)' => Owns(x, g)
         /\ \A g \in Files : g # f => /\ Waiting(g)' <=> Waiting(g)
                                      /\ InFlight(g)' <=> InFlight(g)
         /\ \/ Waiting(f)' = Waiting(f) /\ InFlight(f)' = InFlight(f)
            \/ /\ job[w].pc \in {"requeueing", "settling", "burying"}
               /\ Owns(w, f) /\ Return(w) /\ UNCHANGED row
               /\ job[w].pc = "requeueing" => Waiting(f)'
<1>1. QueueTyped /\ JobsTyped
  BY TypeParts
<1>2. \A x \in Workers : x # "nobody"
  BY QueueAssumption
<1>3. CASE UNCHANGED queueVars
  BY <1>3 DEF queueVars, Waiting, InFlight, Owns
<1>4. CASE RenewFileProcessingMessageLease(w, f)
  <2>1. queue' = queue /\ \A g \in Files : lease'[g].holder = lease[g].holder
    BY <1>1, <1>4 DEF RenewFileProcessingMessageLease, QueueTyped
  <2>2. QED
    BY <2>1 DEF Waiting, InFlight, Owns
<1>5. ASSUME job[w].pc \in {"settling", "burying"}, Return(w), UNCHANGED row,
             SettleFileProcessingMessage(w, f) \/ DeadLetterFileProcessingMessage(w, f)
      PROVE  /\ \A g \in Files, x \in Workers : Owns(x, g)' => Owns(x, g)
             /\ \A g \in Files : g # f => /\ Waiting(g)' <=> Waiting(g)
                                          /\ InFlight(g)' <=> InFlight(g)
             /\ Owns(w, f)
  BY <1>1, <1>2, <1>5 DEF SettleFileProcessingMessage, DeadLetterFileProcessingMessage,
       QueueTyped, NoLease, Waiting, InFlight, Owns
<1>6. ASSUME job[w].pc = "requeueing", Return(w), UNCHANGED row,
             RequeueFileProcessingMessage(w, f, job[w].retry + 1)
      PROVE  /\ \A g \in Files, x \in Workers : Owns(x, g)' => Owns(x, g)
             /\ \A g \in Files : g # f => /\ Waiting(g)' <=> Waiting(g)
                                          /\ InFlight(g)' <=> InFlight(g)
             /\ Owns(w, f) /\ Waiting(f)'
  <2>1. [file |-> f, retry |-> job[w].retry + 1] \in Message
    BY <1>1, <1>6, ProcessingAssumption DEF JobsTyped, HandlerTyped, Message
  <2>2. \A g : Holds(queue', g) <=> Holds(queue, g) \/ g = f
    BY <1>1, <1>6, <2>1, AppendedMessage DEF RequeueFileProcessingMessage, QueueTyped
  <2>3. \A g \in Files : g # f => lease'[g] = lease[g]
    BY <1>1, <1>6 DEF RequeueFileProcessingMessage, QueueTyped
  <2>4. Owns(w, f) /\ \A x \in Workers : ~Owns(x, f)'
    BY <1>1, <1>2, <1>6 DEF RequeueFileProcessingMessage, QueueTyped, NoLease, Owns
  <2>5. QED
    BY <2>2, <2>3, <2>4 DEF Waiting, Holds, InFlight, Owns
<1>7. \/ UNCHANGED queueVars
      \/ RenewFileProcessingMessageLease(w, f)
      \/ /\ job[w].pc \in {"settling", "burying"} /\ Return(w) /\ UNCHANGED row
         /\ SettleFileProcessingMessage(w, f) \/ DeadLetterFileProcessingMessage(w, f)
      \/ /\ job[w].pc = "requeueing" /\ Return(w) /\ UNCHANGED row
         /\ RequeueFileProcessingMessage(w, f, job[w].retry + 1)
  BY DEF Call, LookUp, TryClaim, Extract, FinalizeImage, Publish, Finish, ExtractionFails,
         VerifyLease, ResetForRetry, Requeue, Settle, Bury, Finalize, CloseClaim, Overwrite,
         Inspect, UpdateClaimed, LastCall
<1>8. QED
  BY <1>3, <1>4, <1>5, <1>6, <1>7

(* What a call does to its row and its job, as far as retries go. *)
CallTells(w, f) ==
  /\ \A g \in Files : g # f => row'[g] = row[g]
  /\ \A x \in Workers : x # w /\ Resettable(x, f)' => Resettable(x, f)
  /\ row'[f].status = "queued" => row[f].status = "queued" \/ Resets(w, f)
  /\ job'[w].pc = "resetting" => Owns(w, f)
  /\ job'[w].pc = "requeueing" => Resolved(w)
  /\ Resolved(w)' /\ Owns(w, f)
       => /\ Resolved(w) \/ ~job[w].reclaimed \/ \A x \in Workers : x # w => ~Resettable(x, f)'
          /\ Resolved(w) \/ row'[f].status # "queued"
          /\ row'[f].status = "queued" => row[f].status = "queued"

LEMMA ClaimTells ==
  ASSUME TypeInv, NEW w \in Workers, NEW f \in Files, f = job[w].file,
         LookUp(w) \/ TryClaim(w)
  PROVE  CallTells(w, f)
<1>1. JobsTyped /\ RowsTyped
  BY TypeParts
<1> USE DEF CallTells
<1>2. CASE LookUp(w)
  <2>1. UNCHANGED row
    BY <1>2 DEF LookUp
  <2>2. \/ job'[w].pc = "verifying" /\ \A x \in Workers : ~Resettable(x, f)
           /\ row[f].status # "queued"
        \/ job'[w].pc = "claiming"
        \/ job'[w].pc = "verifying" /\ job'[w].outcome = "prepareFailed"
    BY <1>1, <1>2, GotoAt, EndAt DEF LookUp, Final, Resettable
  <2>3. QED
    BY <2>1, <2>2 DEF Resolved, Resettable
<1>3. CASE TryClaim(w)
  <2>1. CASE row' = [row EXCEPT ![f] = [status |-> "extracting", attempt |-> w]]
             /\ (Goto(w, "extracting") \/ End(w, "prepareFailed"))
    <3>1. /\ row'[f].status = "extracting" /\ row'[f].attempt = w
          /\ \A g \in Files : g # f => row'[g] = row[g]
      BY <1>1, <2>1 DEF RowsTyped
    <3>2. job'[w].pc \in {"extracting", "verifying"}
      BY <1>1, <2>1, GotoAt, EndAt
    <3>3. QED
      BY <3>1, <3>2 DEF Resettable
  <2>2. CASE ~Claimable(f, job[w].reclaimed) /\ End(w, "skipped") /\ UNCHANGED row
    <3>1. row[f].status # "queued"
          /\ (job[w].reclaimed => row[f].status \notin {"extracting", "embedding"})
      BY <2>2 DEF Claimable
    <3>2. job'[w].pc = "verifying"
      BY <1>1, <2>2, EndAt
    <3>3. QED
      BY <2>2, <3>1, <3>2 DEF Resettable
  <2>3. CASE End(w, "prepareFailed") /\ UNCHANGED row
    BY <1>1, <2>3, EndAt DEF Resolved, Resettable
  <2>4. QED
    BY <1>3, <2>1, <2>2, <2>3 DEF TryClaim
<1>4. QED
  BY <1>2, <1>3

LEMMA OtherCallTells ==
  ASSUME TypeInv, NEW w \in Workers, NEW f \in Files, f = job[w].file,
         Call(w), ~(LookUp(w) \/ TryClaim(w))
  PROVE  CallTells(w, f)
<1>1. JobsTyped /\ RowsTyped
  BY TypeParts
<1> USE DEF CallTells
(* A row is left alone, or written by its claim, or closed. *)
<1>2. ASSUME Resolved(w), job'[w].pc = "requeueing" => Resolved(w),
             job'[w].pc # "resetting",
             \/ UNCHANGED row
             \/ \E s \in {"extracting", "embedding", "ready", "failed"}, a \in {w, "none"} :
                  row' = [row EXCEPT ![f] = [status |-> s, attempt |-> a]]
             \/ Write(f, "failed")
      PROVE  CallTells(w, f)
  <2>1. CASE UNCHANGED row
    BY <1>2, <2>1 DEF Resettable
  <2>2. ASSUME NEW s \in {"extracting", "embedding", "ready", "failed"}, NEW a \in {w, "none"},
               row' = [row EXCEPT ![f] = [status |-> s, attempt |-> a]]
        PROVE  CallTells(w, f)
    <3>1. /\ row'[f].status = s /\ row'[f].attempt = a
          /\ \A g \in Files : g # f => row'[g] = row[g]
      BY <1>1, <2>2 DEF RowsTyped
    <3>2. QED
      BY <1>2, <3>1, ProcessingAssumption DEF Resettable
  <2>3. CASE Write(f, "failed")
    <3>1. row'[f].status = "failed" /\ \A g \in Files : g # f => row'[g] = row[g]
      BY <1>1, <2>3 DEF RowsTyped, Write
    <3>2. QED
      BY <1>2, <3>1 DEF Resettable
  <2>4. QED
    BY <1>2, <2>1, <2>2, <2>3
<1>3. ASSUME NEW s \in {"embedding", "ready", "failed"},
             job[w].pc \in {"extracting", "publishing", "finishing", "failing"},
             UpdateClaimed(w, s, Goto(w, "finishing")) \/ UpdateClaimed(w, s, End(w, "done"))
      PROVE  CallTells(w, f)
  <2>1. \/ UNCHANGED row
        \/ \E t \in {"extracting", "embedding", "ready", "failed"}, a \in {w, "none"} :
             row' = [row EXCEPT ![f] = [status |-> t, attempt |-> a]]
    BY <1>3 DEF UpdateClaimed, Claimed
  <2>2. Goto(w, "finishing") \/ \E o \in Outcomes : End(w, o)
    BY <1>3 DEF UpdateClaimed, Outcomes
  <2>3. job'[w].pc \in {"finishing", "verifying"}
    BY <1>1, <2>2, GotoAt, EndAt
  <2>4. QED
    BY <1>2, <1>3, <2>1, <2>3 DEF Resolved
<1>4. CASE FinalizeImage(w) \/ Publish(w) \/ Finish(w) \/ ExtractionFails(w)
  BY <1>3, <1>4 DEF FinalizeImage, Publish, Finish, ExtractionFails
<1>5. CASE Extract(w)
  <2>1. job'[w].pc \in {"publishing", "failing"}
    BY <1>1, <1>5, GotoAt DEF Extract
  <2>2. QED
    BY <1>2, <1>5, <2>1 DEF Extract, Resolved
<1>6. CASE VerifyLease(w)
  <2>1. UNCHANGED row
    BY <1>6 DEF VerifyLease
  <2>2. CASE job[w].outcome # "prepareFailed" /\ Owns(w, f) /\ Goto(w, AfterVerify(w))
    <3>1. job'[w].pc \in {"resetting", "finalizing", "inspecting", "settling"}
      BY <1>1, <2>2, GotoAt DEF AfterVerify
    <3>2. Resolved(w)
      BY <1>6, <2>2 DEF VerifyLease, Resolved
    <3>3. QED
      BY <2>1, <2>2, <3>1, <3>2 DEF Resettable
  <2>3. CASE Return(w)
    <3>1. job'[w].pc \notin Handling
      BY <1>1, <2>3, ReturnAt
    <3>2. QED
      BY <2>1, <3>1 DEF Resettable, Resolved, Handling, Processing
  <2>4. QED
    BY <1>6, <2>2, <2>3 DEF VerifyLease, RenewFileProcessingMessageLease
<1>7. CASE ResetForRetry(w)
  <2>1. Resolved(w)
    BY <1>7 DEF ResetForRetry, Resolved
  <2>2. CASE Resettable(w, f) /\ row' = [row EXCEPT ![f] = [status |-> "queued", attempt |-> "none"]]
    <3>1. /\ row'[f].status = "queued" /\ row'[f].attempt = "none"
          /\ \A g \in Files : g # f => row'[g] = row[g]
      BY <1>1, <2>2 DEF RowsTyped
    <3>2. job'[w].pc = "requeueing" \/ job'[w].pc \notin Handling
      BY <1>1, <1>7, GotoAt, ReturnAt DEF ResetForRetry
    <3>3. ~Resolved(w)' /\ job'[w].pc # "resetting"
      BY <3>2 DEF Resolved, Handling, Processing
    <3>4. Resets(w, f)
      BY <1>7, <2>2 DEF ResetForRetry, Resets
    <3>5. QED
      BY <2>1, <3>1, <3>3, <3>4, ProcessingAssumption DEF Resettable
  <2>3. CASE Return(w) /\ UNCHANGED row
    <3>1. job'[w].pc \notin Handling
      BY <1>1, <2>3, ReturnAt
    <3>2. QED
      BY <2>3, <3>1 DEF Resettable, Resolved, Handling, Processing
  <2>4. QED
    BY <1>7, <2>2, <2>3 DEF ResetForRetry
<1>8. CASE Requeue(w) \/ Settle(w) \/ Bury(w)
  <2>1. Return(w) /\ UNCHANGED row
    BY <1>8 DEF Requeue, Settle, Bury, LastCall
  <2>2. job'[w].pc \notin Handling
    BY <1>1, <2>1, ReturnAt
  <2>3. QED
    BY <2>1, <2>2 DEF Resettable, Resolved, Handling, Processing
<1>9. CASE Finalize(w) \/ CloseClaim(w) \/ Overwrite(w) \/ Inspect(w)
  <2>1. Resolved(w)
    BY <1>9 DEF Finalize, CloseClaim, Overwrite, Inspect, Resolved
  <2>2. Return(w) \/ \E pc \in {"burying", "closing", "overwriting", "settling"} : Goto(w, pc)
    BY <1>9 DEF Finalize, CloseClaim, Overwrite, Inspect
  <2>3. job'[w].pc # "resetting"
    BY <1>1, <2>2, GotoAt, ReturnAt DEF Handling, Processing
  <2>4. \/ UNCHANGED row
        \/ row' = [row EXCEPT ![f] = [status |-> "failed", attempt |-> "none"]]
        \/ Write(f, "failed")
    BY <1>9 DEF Finalize, CloseClaim, Overwrite, Inspect, Claimed, Final
  <2>5. QED
    BY <1>2, <2>1, <2>3, <2>4
<1>10. QED
  BY <1>4, <1>5, <1>6, <1>7, <1>8, <1>9 DEF Call

LEMMA CallKeepsRetries ==
  ASSUME TypeInv, MessageInv, RetryInv, NEW w \in Workers, Call(w)
  PROVE  RetryInv'
<1>1. PICK f \in Files : f = job[w].file
  BY CallHandles
<1>2. CallTells(w, f)
  BY <1>1, ClaimTells, OtherCallTells
<1>3. JobMove(w) /\ UNCHANGED upload /\ job[w].pc \in Handling /\ JobsTyped
  BY CallHandles, CallMoves, TypeParts DEF Call
<1>4. /\ \A x \in Workers : x # w => job'[x] = job[x]
      /\ job'[w].pc \in Handling => job'[w].file = f /\ job'[w].reclaimed = job[w].reclaimed
  BY <1>1, <1>3, JobMoveFrame
<1>5. Handles(w, f) /\ RetryKnows(f)
  BY <1>1, <1>3 DEF Handles, RetryInv
<1>6. \A w1, w2 \in Workers : Owns(w1, f) /\ Owns(w2, f) => w1 = w2
  BY DEF Owns
<1>7. Owns(w, f) => InFlight(f) /\ ~Waiting(f)
  BY QueueAssumption DEF Owns, InFlight, MessageInv, OneMessage
<1>8. \A x \in Workers : x # w /\ Resets(x, f)' => Resets(x, f)
  BY <1>2, <1>4 DEF CallTells, Resets
<1>9. Resets(w, f)' => Owns(w, f)
  BY <1>2 DEF CallTells, Resets
<1>10. /\ \A g \in Files, x \in Workers : Owns(x, g)' => Owns(x, g)
       /\ \A g \in Files : g # f => /\ Waiting(g)' <=> Waiting(g)
                                    /\ InFlight(g)' <=> InFlight(g)
       /\ \/ Waiting(f)' = Waiting(f) /\ InFlight(f)' = InFlight(f)
          \/ /\ job[w].pc \in {"requeueing", "settling", "burying"}
             /\ Owns(w, f) /\ Return(w)
  BY <1>1, CallMovesMessage
<1>11. ASSUME NEW g \in Files, g # f PROVE RetryKnows(g)'
  <2>1. RetryKnows(g) /\ row'[g] = row[g]
    BY <1>2, <1>11 DEF RetryInv, CallTells
  <2>2. \A x \in Workers : Handles(x, g)' => Handles(x, g) /\ job'[x] = job[x]
    BY <1>4, <1>11 DEF Handles
  <2>3. \A x \in Workers : Resets(x, g)' => Resets(x, g)
    BY <1>11, <2>1, <2>2 DEF Resets, Resettable, Handles, Handling
  <2>4. QED
    BY <1>3, <1>10, <1>11, <2>1, <2>2, <2>3 DEF RetryKnows, Resolved, OneResets, Unsent
<1>12. \A x \in Workers : Resets(x, f)' => InFlight(f)' /\ ~Waiting(f)'
  <2>1. CASE Waiting(f)' = Waiting(f) /\ InFlight(f)' = InFlight(f)
    BY <1>5, <1>7, <1>8, <1>9, <2>1 DEF RetryKnows
  <2>2. CASE job[w].pc \in {"requeueing", "settling", "burying"} /\ Owns(w, f) /\ Return(w)
    <3>1. OneResets(w, f)
      BY <1>5, <2>2 DEF RetryKnows, Resolved
    <3>2. ~Resets(w, f)'
      BY <1>3, <2>2, ReturnAt DEF Resets, Handling
    <3>3. QED
      BY <1>8, <3>1, <3>2 DEF OneResets
  <2>3. QED
    BY <1>10, <2>1, <2>2
<1>13. Unsent(f)' => \A x \in Workers : ~Handles(x, f)'
  BY <1>3, <1>5 DEF RetryKnows, Unsent
<1>14. ASSUME NEW x \in Workers, x # w, Owns(x, f)', Handles(x, f)'
       PROVE  /\ (Resolved(x) \/ job[x].pc = "requeueing" \/ ~job[x].reclaimed)'
                   => OneResets(x, f)'
              /\ Resolved(x)' => row'[f].status # "queued"
  <2>1. Owns(x, f) /\ Handles(x, f) /\ job'[x] = job[x]
    BY <1>4, <1>10, <1>14 DEF Handles
  <2>2. ~Resets(w, f)'
    BY <1>6, <1>9, <1>14, <2>1
  <2>3. Resolved(x)' <=> Resolved(x)
    BY <2>1 DEF Resolved
  <2>4. QED
    BY <1>2, <1>5, <1>8, <1>14, <2>1, <2>2, <2>3 DEF RetryKnows, OneResets, CallTells
<1>15. ASSUME Owns(w, f)', Handles(w, f)'
       PROVE  /\ (Resolved(w) \/ job[w].pc = "requeueing" \/ ~job[w].reclaimed)'
                   => OneResets(w, f)'
              /\ Resolved(w)' => row'[f].status # "queued"
  <2>1. Owns(w, f) /\ job'[w].reclaimed = job[w].reclaimed
    BY <1>4, <1>10, <1>15 DEF Handles
  <2>2. Resolved(w) \/ ~job[w].reclaimed => OneResets(w, f)'
    BY <1>5, <1>8, <2>1 DEF RetryKnows, OneResets
  <2>3. Resolved(w)' => OneResets(w, f)'
    BY <1>2, <2>1, <2>2 DEF CallTells, OneResets, Resets, Resettable
  <2>4. job'[w].pc = "requeueing" => OneResets(w, f)'
    BY <1>2, <2>2 DEF CallTells
  <2>5. Resolved(w)' => row'[f].status # "queued"
    BY <1>2, <1>5, <2>1 DEF CallTells, RetryKnows
  <2>6. QED
    BY <2>1, <2>2, <2>3, <2>4, <2>5 DEF Resolved
<1>16. RetryKnows(f)'
  <2>1. \A x \in Workers : Owns(x, f)' /\ Handles(x, f)'
          => /\ (Resolved(x) \/ job[x].pc = "requeueing" \/ ~job[x].reclaimed)'
                  => OneResets(x, f)'
             /\ Resolved(x)' => row'[f].status # "queued"
    BY <1>14, <1>15
  <2>2. QED
    BY <1>12, <1>13, <2>1 DEF RetryKnows
<1>17. QED
  BY <1>11, <1>16 DEF RetryInv

(* Getting a message, or none. *)
LEMMA PollKeepsRetries ==
  ASSUME TypeInv, MessageInv, RetryInv, NEW w \in Workers, PollTimedOut(w) \/ ReadMessage(w)
  PROVE  RetryInv'
<1>1. QueueTyped /\ RowsTyped /\ JobsTyped
  BY TypeParts
<1>2. UNCHANGED upload
  BY PollMoves
<1>3. \A g \in Files : /\ Waiting(g)' => Waiting(g)
                       /\ InFlight(g) => InFlight(g)'
                       /\ \A x \in Workers : x # w /\ Owns(x, g)' => Owns(x, g)
  <2>1. CASE UNCHANGED queueVars
    BY <2>1 DEF queueVars, Waiting, InFlight, Owns
  <2>2. ASSUME NEW f \in Files, ClaimTimedOutFileProcessingMessages(w, f)
        PROVE  /\ queue' = queue
               /\ \A g \in Files : lease'[g].holder = w \/ lease'[g].holder = lease[g].holder
    BY <1>1, <2>2 DEF ClaimTimedOutFileProcessingMessages, QueueTyped
  <2>3. CASE \E f \in Files : ClaimTimedOutFileProcessingMessages(w, f)
    BY <2>2, <2>3, QueueAssumption DEF Waiting, InFlight, Owns
  <2>4. CASE ReadFileProcessingMessages(w)
    <3>1. /\ queue # <<>> /\ queue' = Tail(queue)
          /\ \A g \in Files : lease'[g].holder = w \/ lease'[g].holder = lease[g].holder
      BY <1>1, <2>4 DEF ReadFileProcessingMessages, QueueTyped
    <3>2. \A g : Holds(queue', g) => Holds(queue, g)
      BY <1>1, <3>1, TakenMessage DEF QueueTyped
    <3>3. QED
      BY <3>1, <3>2, QueueAssumption DEF Waiting, Holds, InFlight, Owns
  <2>5. QED
    BY <2>1, <2>3, <2>4 DEF PollTimedOut, ReadMessage
<1>4. /\ \A x \in Workers : x # w => job'[x] = job[x]
      /\ \A g \in Files : /\ row'[g].status = row[g].status
                          /\ \A x \in Workers : x # w /\ row'[g].attempt = x
                                                  => row[g].attempt = x
      /\ job'[w].pc \in {"lookup", "polling", "reading"}
  <2>1. ASSUME NEW pc \in {"polling", "reading"}, Goto(w, pc), UNCHANGED row
        PROVE  /\ \A x \in Workers : x # w => job'[x] = job[x]
               /\ job'[w].pc = pc
    BY <1>1, <2>1 DEF Goto, JobsTyped
  <2>2. ASSUME NEW f \in Files, NEW b \in BOOLEAN, Begin(w, f, b)
        PROVE  /\ \A x \in Workers : x # w => job'[x] = job[x]
               /\ \A g \in Files : /\ row'[g].status = row[g].status
                                   /\ \A x \in Workers : x # w /\ row'[g].attempt = x
                                                           => row[g].attempt = x
               /\ job'[w].pc = "lookup"
    BY <1>1, <2>2, ProcessingAssumption DEF Begin, JobsTyped, RowsTyped
  <2>3. QED
    BY <2>1, <2>2, PollMoves
<1>5. ASSUME NEW g \in Files PROVE RetryKnows(g)'
  <2>1. RetryKnows(g)
    BY DEF RetryInv
  <2>2. \A x \in Workers : Resets(x, g)' => x # w /\ Resets(x, g)
    BY <1>4 DEF Resets, Resettable
  <2>3. CASE ~Handles(w, g)'
    <3>1. \A x \in Workers : Handles(x, g)' => x # w /\ Handles(x, g) /\ job'[x] = job[x]
      BY <1>4, <2>3 DEF Handles
    <3>2. QED
      BY <1>2, <1>3, <1>4, <2>1, <2>2, <3>1 DEF RetryKnows, OneResets, Resolved, Unsent
  <2>4. CASE Handles(w, g)'
    <3>1. \/ /\ Begin(w, g, TRUE) /\ ClaimTimedOutFileProcessingMessages(w, g)
          \/ /\ Begin(w, g, FALSE) /\ ReadFileProcessingMessages(w) /\ g = Head(queue).file
      <4>1. ASSUME NEW pc \in {"polling", "reading"} PROVE ~Goto(w, pc)
        BY <1>1, <2>4, <4>1, GotoAt DEF Handles, Handling, Processing
      <4>2. ASSUME NEW f \in Files, Begin(w, f, TRUE) \/ Begin(w, f, FALSE) PROVE f = g
        BY <1>1, <2>4, <4>2 DEF Begin, JobsTyped, Handles
      <4>3. QED
        BY <4>1, <4>2, PollMoves
    <3>2. ~Unsent(g)
      <4>1. Waiting(g) \/ InFlight(g)
        BY <1>1, <3>1, TakenMessage DEF ClaimTimedOutFileProcessingMessages, TimedOut,
             ReadFileProcessingMessages, QueueTyped, Waiting, Holds
      <4>2. QED
        BY <4>1 DEF MessageInv
    <3>3. job'[w].reclaimed \/ \A x \in Workers : ~Resets(x, g)
      <4>1. CASE Begin(w, g, TRUE)
        BY <1>1, <4>1 DEF Begin, JobsTyped
      <4>2. CASE ReadFileProcessingMessages(w) /\ g = Head(queue).file
        <5>1. Waiting(g)
          BY <1>1, <4>2, TakenMessage DEF ReadFileProcessingMessages, QueueTyped, Waiting, Holds
        <5>2. QED
          BY <2>1, <5>1 DEF RetryKnows
      <4>3. QED
        BY <3>1, <4>1, <4>2
    <3>4. /\ job'[w].pc = "lookup"
          /\ ~Resolved(w)'
      BY <1>4, <2>4 DEF Handles, Handling, Processing, Resolved
    <3>5. \A x \in Workers : x # w /\ Handles(x, g)' => Handles(x, g) /\ job'[x] = job[x]
      BY <1>4 DEF Handles
    <3>6. \A x \in Workers : Owns(x, g)' /\ Handles(x, g)'
            => /\ (Resolved(x) \/ job[x].pc = "requeueing" \/ ~job[x].reclaimed)'
                    => OneResets(x, g)'
               /\ Resolved(x)' => row'[g].status # "queued"
      BY <1>3, <1>4, <2>1, <2>2, <3>3, <3>4, <3>5 DEF RetryKnows, OneResets, Resolved
    <3>7. QED
      BY <1>2, <1>3, <2>1, <2>2, <3>2, <3>6 DEF RetryKnows, Unsent
  <2>5. QED
    BY <2>3, <2>4
<1>6. QED
  BY <1>5 DEF RetryInv

(* The upload enqueues the message of a file that nobody handles yet, or    *)
(* writes that it failed.                                                   *)
LEMMA UploadKeepsRetries ==
  ASSUME TypeInv, RetryInv, NEW f \in Files, Initialize(f) \/ UploadCrashes(f)
  PROVE  RetryInv'
<1>1. QueueTyped /\ RowsTyped /\ UploadsTyped
  BY TypeParts
<1>2. UNCHANGED <<job, lease>> /\ \A g \in Files : Unsent(g)' => Unsent(g)
  BY <1>1 DEF Initialize, MarkQueued, EnqueueFile, MarkFailed, UploadCrashes, queueVars,
              EnqueueFileProcessing, Advance, Unsent, UploadsTyped
<1>3. ASSUME NEW g \in Files, Waiting(g)' <=> Waiting(g), row'[g] = row[g]
      PROVE  RetryKnows(g)'
  BY <1>2, <1>3 DEF RetryInv, RetryKnows, Resets, Resettable, Resolved, OneResets, Handles,
                    Owns, InFlight, Unsent
<1>4. ASSUME NEW g \in Files, g # f PROVE RetryKnows(g)'
  <2>1. row'[g] = row[g]
    BY <1>1, <1>4 DEF Initialize, MarkQueued, EnqueueFile, MarkFailed, UploadCrashes, Write,
                      RowsTyped
  <2>2. CASE UNCHANGED queue
    BY <1>3, <2>1, <2>2 DEF Waiting
  <2>3. CASE EnqueueFileProcessing(f)
    <3>1. [file |-> f, retry |-> 0] \in Message
      BY ProcessingAssumption DEF Message
    <3>2. Holds(queue', g) <=> Holds(queue, g)
      BY <1>1, <1>4, <2>3, <3>1, AppendedMessage DEF EnqueueFileProcessing, QueueTyped
    <3>3. QED
      BY <1>3, <2>1, <3>2 DEF Waiting, Holds
  <2>4. QED
    BY <2>2, <2>3 DEF Initialize, MarkQueued, EnqueueFile, MarkFailed, UploadCrashes, queueVars
<1>5. RetryKnows(f)'
  <2>1. CASE Unsent(f)
    <3>1. \A x \in Workers : ~Handles(x, f)'
      BY <1>2, <2>1 DEF RetryInv, RetryKnows, Handles
    <3>2. QED
      BY <3>1 DEF RetryKnows, Resets, Handles, Handling
  <2>2. CASE ~Unsent(f) /\ row'[f] = row[f] /\ UNCHANGED queueVars
    BY <1>3, <2>2 DEF queueVars, Waiting
  <2>3. CASE row'[f].status = "failed" /\ row'[f].attempt = row[f].attempt /\ UNCHANGED queueVars
    BY <1>2, <2>3 DEF queueVars, RetryInv, RetryKnows, Resets, Resettable, Resolved, OneResets,
                      Handles, Owns, InFlight, Waiting, Unsent
  <2>4. QED
    BY <1>1, <2>1, <2>2, <2>3 DEF Initialize, MarkQueued, EnqueueFile, MarkFailed,
         UploadCrashes, Unsent, Write, RowsTyped
<1>6. QED
  BY <1>4, <1>5 DEF RetryInv

LEMMA StepKeepsRetries ==
  ASSUME TypeInv, MessageInv, RetryInv, [Next]_vars
  PROVE  RetryInv'
<1>1. QueueTyped /\ JobsTyped
  BY TypeParts
<1>2. ASSUME UNCHANGED <<queue, row, upload>>,
             \A g \in Files : /\ InFlight(g) => InFlight(g)'
                              /\ \A x \in Workers : Owns(x, g)' => Owns(x, g),
             \A x \in Workers : job'[x] = job[x] \/ job'[x].pc \notin Handling
      PROVE  RetryInv'
  <2>1. \A g \in Files, x \in Workers :
          /\ Handles(x, g)' => Handles(x, g) /\ job'[x] = job[x]
          /\ Resets(x, g)' => Resets(x, g)
    BY <1>2 DEF Handles, Resets, Resettable, Handling
  <2>2. QED
    BY <1>2, <2>1 DEF RetryInv, RetryKnows, OneResets, Resolved, Unsent, Waiting
<1>3. CASE UNCHANGED vars
  BY <1>2, <1>3 DEF vars, queueVars, InFlight, Owns
<1>4. ASSUME NEW w \in Workers, RenewLease(w) PROVE RetryInv'
  <2>1. queue' = queue /\ \A g \in Files : lease'[g].holder = lease[g].holder
    BY <1>1, <1>4, CallHandles DEF RenewLease, RenewFileProcessingMessageLease, QueueTyped,
                                   queueVars
  <2>2. \A x \in Workers : job'[x] = job[x] \/ job'[x].pc \notin Handling
    BY <1>1, <1>4 DEF RenewLease, Return, Free, JobsTyped, Handling, Processing
  <2>3. QED
    BY <1>2, <1>4, <2>1, <2>2 DEF RenewLease, InFlight, Owns
<1>5. ASSUME NEW f \in Files, Lapse(f) PROVE RetryInv'
  <2>1. queue' = queue /\ \A g \in Files : lease'[g].holder = lease[g].holder
    BY <1>1, <1>5 DEF Lapse, LeaseTimesOut, QueueTyped
  <2>2. QED
    BY <1>2, <1>5, <2>1 DEF Lapse, InFlight, Owns
<1>6. ASSUME NEW w \in Workers, WorkerCrashes(w) PROVE RetryInv'
  <2>1. queue' = queue /\ \A g \in Files : \/ lease'[g].holder = lease[g].holder
                                           \/ lease'[g].holder = "gone"
    BY <1>1, <1>6 DEF WorkerCrashes, ConsumerGone, QueueTyped
  <2>2. \A x \in Workers : job'[x] = job[x] \/ job'[x].pc \notin Handling
    BY <1>1, <1>6 DEF WorkerCrashes, Return, Free, JobsTyped, Handling, Processing
  <2>3. QED
    BY <1>2, <1>6, <2>1, <2>2, QueueAssumption DEF WorkerCrashes, InFlight, Owns
<1>7. QED
  BY <1>3, <1>4, <1>5, <1>6, UploadKeepsRetries, PollKeepsRetries, CallKeepsRetries
     DEF Next, Work, Call

LEMMA InitRetries == ASSUME Init PROVE RetryInv
  BY QueueAssumption DEF Init, QueueInit, RetryInv, RetryKnows, Resets, Handles, Owns, Free, NoLease, Handling,
     Processing

(* The message of a queued file stays.                                      *)
LEMMA StepKeepsQueued ==
  ASSUME TypeInv, MessageInv, RetryInv, QueuedHasMessage, [Next]_vars
  PROVE  QueuedHasMessage'
<1>1. QueueTyped /\ RowsTyped /\ UploadsTyped /\ JobsTyped
  BY TypeParts
<1> DEFINE HasMessage(f) == Waiting(f) \/ InFlight(f)
<1>2. ASSUME NEW f \in Files, UNCHANGED upload, row'[f].status = row[f].status,
             HasMessage(f) => HasMessage(f)'
      PROVE  upload'[f] = "accepted" /\ row'[f].status = "queued" => HasMessage(f)'
  BY <1>2 DEF QueuedHasMessage
<1>3. CASE UNCHANGED vars
  BY <1>3 DEF vars, queueVars, QueuedHasMessage, Waiting, InFlight
<1>4. ASSUME NEW w \in Workers, Call(w), NEW g \in Files,
             upload'[g] = "accepted", row'[g].status = "queued"
      PROVE  HasMessage(g)'
  <2>1. PICK f \in Files : f = job[w].file
    BY <1>4, CallHandles
  <2>2. CallTells(w, f) /\ UNCHANGED upload /\ job[w].pc \in Handling
    BY <1>4, <2>1, CallHandles, CallMoves, ClaimTells, OtherCallTells DEF Call
  <2>3. CASE g # f
    BY <1>4, <2>1, <2>2, <2>3, CallMovesMessage DEF CallTells, QueuedHasMessage
  <2>4. CASE g = f
    <3>1. HasMessage(f)
      BY <1>4, <2>2, <2>4 DEF CallTells, QueuedHasMessage, RetryInv, RetryKnows
    <3>2. CASE Waiting(f)' = Waiting(f) /\ InFlight(f)' = InFlight(f)
      BY <2>4, <3>1, <3>2
    <3>3. CASE /\ job[w].pc \in {"settling", "burying"}
               /\ Owns(w, f) /\ UNCHANGED row
      <4>1. row[f].status # "queued"
        BY <2>1, <2>2, <3>3 DEF RetryInv, RetryKnows, Handles, Resolved
      <4>2. QED
        BY <1>4, <2>4, <3>3, <4>1
    <3>4. QED
      BY <1>4, <2>1, <2>4, <3>2, <3>3, CallMovesMessage
  <2>5. QED
    BY <2>3, <2>4
<1>5. ASSUME NEW w \in Workers, PollTimedOut(w) \/ ReadMessage(w), NEW g \in Files,
             upload'[g] = "accepted", row'[g].status = "queued"
      PROVE  HasMessage(g)'
  <2>1. UNCHANGED upload /\ row'[g].status = row[g].status
    BY <1>1, <1>5, PollMoves DEF Begin, RowsTyped
  <2>2. CASE UNCHANGED queueVars
    BY <1>2, <1>5, <2>1, <2>2 DEF queueVars, Waiting, InFlight
  <2>3. CASE \E f \in Files : ClaimTimedOutFileProcessingMessages(w, f)
    <3>1. queue' = queue /\ (InFlight(g) => InFlight(g)')
      BY <1>1, <2>3, QueueAssumption DEF ClaimTimedOutFileProcessingMessages, QueueTyped,
                                         InFlight
    <3>2. QED
      BY <1>2, <1>5, <2>1, <3>1 DEF Waiting
  <2>4. CASE ReadFileProcessingMessages(w)
    <3>1. queue # <<>> /\ queue' = Tail(queue)
      BY <2>4 DEF ReadFileProcessingMessages
    <3>2. Holds(queue, g) => Holds(queue', g) \/ g = Head(queue).file
      BY <1>1, <3>1, TakenMessage DEF QueueTyped
    <3>3. InFlight(g) \/ g = Head(queue).file => InFlight(g)'
      BY <1>1, <2>4, QueueAssumption DEF ReadFileProcessingMessages, QueueTyped, InFlight
    <3>4. QED
      BY <1>2, <1>5, <2>1, <3>2, <3>3 DEF Waiting, Holds
  <2>5. QED
    BY <1>5, <2>2, <2>3, <2>4 DEF PollTimedOut, ReadMessage
<1>6. ASSUME NEW f \in Files, Initialize(f) \/ UploadCrashes(f), NEW g \in Files,
             upload'[g] = "accepted", row'[g].status = "queued"
      PROVE  HasMessage(g)'
  <2>1. lease' = lease /\ (queue' = queue \/ EnqueueFileProcessing(f))
    BY <1>6 DEF Initialize, MarkQueued, EnqueueFile, MarkFailed, UploadCrashes, queueVars,
                EnqueueFileProcessing
  <2>2. (Waiting(g) => Waiting(g)') /\ (EnqueueFileProcessing(f) => Waiting(f)')
    <3>1. [file |-> f, retry |-> 0] \in Message
      BY ProcessingAssumption DEF Message
    <3>2. EnqueueFileProcessing(f)
            => \A h : Holds(queue', h) <=> Holds(queue, h) \/ h = f
      BY <1>1, <3>1, AppendedMessage DEF EnqueueFileProcessing, QueueTyped
    <3>3. QED
      BY <2>1, <3>2 DEF Waiting, Holds
  <2>3. \/ upload[g] = "accepted" /\ row[g].status = "queued"
        \/ g = f /\ EnqueueFileProcessing(f)
    BY <1>1, <1>6 DEF Initialize, MarkQueued, EnqueueFile, MarkFailed, UploadCrashes, Write,
                      Advance, RowsTyped, UploadsTyped
  <2>4. QED
    BY <2>1, <2>2, <2>3 DEF QueuedHasMessage, InFlight
<1>7. ASSUME NEW w \in Workers, RenewLease(w) \/ WorkerCrashes(w), NEW g \in Files
      PROVE  /\ UNCHANGED <<queue, upload, row>>
             /\ InFlight(g) => InFlight(g)'
  BY <1>1, <1>7, CallHandles, QueueAssumption, ZenonT(60)
     DEF RenewLease, RenewFileProcessingMessageLease, WorkerCrashes, ConsumerGone, queueVars,
         QueueTyped, InFlight, Owns
<1>8. ASSUME NEW f \in Files, Lapse(f), NEW g \in Files
      PROVE  /\ UNCHANGED <<queue, upload, row>>
             /\ InFlight(g) => InFlight(g)'
  BY <1>1, <1>8 DEF Lapse, LeaseTimesOut, QueueTyped, InFlight
<1>9. ASSUME NEW g \in Files, Next, upload'[g] = "accepted", row'[g].status = "queued"
      PROVE  HasMessage(g)'
  <2>1. ASSUME UNCHANGED <<queue, upload, row>>, InFlight(g) => InFlight(g)'
        PROVE  HasMessage(g)'
    BY <1>2, <1>9, <2>1 DEF Waiting
  <2>2. QED
    BY <1>4, <1>5, <1>6, <1>7, <1>8, <1>9, <2>1 DEF Next, Work, Call
<1>10. QED
  BY <1>3, <1>9 DEF QueuedHasMessage

(* A file whose upload was accepted and whose row is queued has its message, *)
(* also after a reset whose worker ended before it requeued, and when        *)
(* handlers stall and lose their leases.                                     *)
THEOREM QueuedFilesHaveMessages == Spec => []QueuedHasMessage
<1> DEFINE Inv == TypeInv /\ MessageInv /\ RetryInv /\ QueuedHasMessage
<1>1. Init => Inv
  <2>1. Init => QueuedHasMessage
    BY DEF Init, QueuedHasMessage
  <2>2. QED
    BY <2>1, InitTyped, InitMessages, InitRetries
<1>2. Inv /\ [Next]_vars => Inv'
  BY StepKeepsType, StepKeepsMessages, StepKeepsRetries, StepKeepsQueued
<1>3. QED
  BY <1>1, <1>2, PTL DEF Spec
=============================================================================
