-------------------------- MODULE ContentModeration --------------------------
(***************************************************************************)
(* The checks of one streamed answer by the moderation service: the        *)
(* question is checked while the answer is generated, the answer when it   *)
(* is complete, and the run waits for both at a barrier before it is told  *)
(* to the client as completed.  A hit withdraws the answer (and, if it is  *)
(* about the question, the question) in one transaction, drops the         *)
(* retained events of the stream and leaves a notice in their place.       *)
(*                                                                         *)
(* The withdrawal is carried out by whoever learns of the hit last: the    *)
(* run at the barrier, a worker whose check ends after it, or the recovery *)
(* loop, for withdrawals that failed and for runs whose process ended.     *)
(* "by" holds how far each of them is.                                     *)
(***************************************************************************)
EXTENDS Naturals, Sequences

CONSTANT MaxFaults  \* bound: failed calls to the database, ended processes

ASSUME FaultsAssumption == MaxFaults \in Nat

Checks == {"input", "output"}

Actors == {"run", "recovery"} \cup Checks

VARIABLES
  pc,        \* where the goroutine of the run is
  outcome,   \* how the generation ended
  verdict,   \* what the barrier decided, as the run remembers it
  coord,     \* the coordinator's flags
  check,     \* where each check is
  by,        \* the withdrawals under way
  pending,   \* pendingBlocks: the withdrawal to be tried again
  hits,      \* the hits recorded in the database, in order
  row,       \* moderation_state of the run's row, "none" without a row
  message,   \* the question's and the answer's row
  stream,    \* the events retained for a client that resumes
  canceled,  \* the generation has been cancelled because of the question
  faults

vars == <<pc, outcome, verdict, coord, check, by, pending, hits, row, message,
          stream, canceled, faults>>

database == <<hits, row, message>>

Idle == [step |-> "idle", of |-> "input", tell |-> FALSE, keep |-> FALSE]

Init ==
  /\ pc = "begin" /\ outcome = "open" /\ verdict = "open"
  /\ coord = [blocked |-> "none", handled |-> FALSE, failedOpen |-> FALSE]
  /\ check = [c \in Checks |-> "none"]
  /\ by = [a \in Actors |-> Idle]
  /\ pending = "none"
  /\ hits = <<>> /\ row = "none"
  /\ message = [question |-> "pending", answer |-> "pending", text |-> "none"]
  /\ stream = {}
  /\ canceled = FALSE
  /\ faults = 0

---------------------------------------------------------------------------
(* The database: a call that fails changes nothing but the count.          *)

Fails == faults < MaxFaults /\ faults' = faults + 1

\* UpdateRunModeration: without a row it changes nothing
SetState(state) ==
  \/ row' = (IF row = "none" THEN "none" ELSE state) /\ UNCHANGED faults
  \/ Fails /\ UNCHANGED row

\* ApplyRunBlock: one transaction over the messages and the run
Withdraw(c) ==
  /\ row # "none"
  /\ row' = "blocked"
  /\ message' = [question |-> IF c = "input" THEN "blocked"
                                             ELSE message.question,
                 answer |-> "blocked", text |-> "withdrawn"]

---------------------------------------------------------------------------
(* The run.                                                                *)

\* The coordinator is in the service's map from BeginRun to finish
Live == pc \in {"begin", "generating", "barrier", "enqueue", "waiting",
                "settling", "withdrawing", "passing"}

\* Results no longer count for the barrier
Settled == pc \in {"withdrawing", "passing", "finalizing", "closing",
                   "storing", "publishing", "done"}

Open == {c \in Checks : check[c] \in {"queued", "hit"}}

Decided == verdict \in Checks

\* startTask: not selected by the policy, queued, or refused by a full queue
Start(c) ==
  \E s \in {"none", "queued", "failed"} :
    /\ check' = [check EXCEPT ![c] = s]
    /\ coord' = [coord EXCEPT !.failedOpen = @ \/ s = "failed"]

\* BeginRun and startModerationRun; the row is there unless inserting it fails
Begin ==
  /\ pc = "begin" /\ pc' = "generating"
  /\ \/ row' = "pending" /\ UNCHANGED faults
     \/ Fails /\ UNCHANGED row
  /\ Start("input")
  /\ UNCHANGED <<outcome, verdict, by, pending, hits, message, stream,
                 canceled>>

\* A delta of the answer; none after the generation has been cancelled
Generate ==
  /\ pc = "generating" /\ ~canceled
  /\ stream' = stream \cup {"delta"}
  /\ UNCHANGED <<pc, outcome, verdict, coord, check, by, pending, database,
                 canceled, faults>>

\* The answer is stored before it is checked: as a success, or what a client
\* has seen of it when the generation was interrupted; without any text only
\* the question is waited for (WaitInputOnly)
EndGeneration ==
  /\ pc = "generating"
  /\ \/ /\ outcome' = "success" /\ pc' = "barrier"
        /\ message' = [message EXCEPT !.answer = "success", !.text = "stored"]
     \/ /\ "delta" \in stream
        /\ outcome' = "interrupted" /\ pc' = "barrier"
        /\ message' = [message EXCEPT !.question = "success",
                                      !.answer = "interrupted",
                                      !.text = "stored"]
     \/ /\ outcome' = "failed" /\ pc' = "waiting"
        /\ UNCHANGED message
  /\ UNCHANGED <<verdict, coord, check, by, pending, hits, row, stream,
                 canceled, faults>>

\* AfterGeneration: the state is noted, then the answer's check is started
Barrier ==
  /\ pc = "barrier" /\ pc' = "enqueue"
  /\ SetState("moderating")
  /\ UNCHANGED <<outcome, verdict, coord, check, by, pending, hits, message,
                 stream, canceled>>

EnqueueOutputs ==
  /\ pc = "enqueue" /\ pc' = "waiting"
  /\ Start("output")
  /\ UNCHANGED <<outcome, verdict, by, pending, database, stream, canceled,
                 faults>>

\* Mutant: the time that is up is not noted
Wait_Unnoted ==
  /\ pc = "waiting" /\ pc' = "settling"
  /\ UNCHANGED <<outcome, verdict, coord, check, by, pending, database, stream,
                 canceled, faults>>

\* waitAll: every check has reported, or the time is up
Wait ==
  /\ pc = "waiting" /\ pc' = "settling"
  /\ \/ Open = {} /\ UNCHANGED coord
     \/ coord' = [coord EXCEPT !.failedOpen = @ \/ coord.blocked = "none"]
  /\ UNCHANGED <<outcome, verdict, check, by, pending, database, stream,
                 canceled, faults>>

Settle ==
  /\ pc = "settling"
  /\ IF coord.blocked # "none"
       THEN /\ pc' = "withdrawing" /\ verdict' = coord.blocked
            /\ coord' = [coord EXCEPT !.handled = TRUE]
            /\ by' = [by EXCEPT !["run"] =
                        [step |-> "apply", of |-> coord.blocked,
                         tell |-> TRUE, keep |-> TRUE]]
       ELSE /\ pc' = "passing"
            /\ verdict' = IF coord.failedOpen THEN "failed_open" ELSE "passed"
            /\ UNCHANGED <<coord, by>>
  /\ UNCHANGED <<outcome, check, pending, database, stream, canceled, faults>>

\* updateRunState and finish
Pass ==
  /\ pc = "passing" /\ pc' = "finalizing"
  /\ SetState(verdict)
  /\ UNCHANGED <<outcome, verdict, coord, check, by, pending, hits, message,
                 stream, canceled>>

\* finalizeUserMessage and finalizeAssistantMessage write the rows again
\* unless the barrier has withdrawn them
FinalizeMessage(at, next, changes, changed) ==
  /\ pc = at /\ pc' = next
  /\ \/ /\ ~Decided /\ changes
        /\ message' = changed /\ UNCHANGED faults
     \/ /\ Decided \/ ~changes
        /\ UNCHANGED <<message, faults>>
     \/ /\ ~Decided /\ changes
        /\ Fails /\ UNCHANGED message
  /\ UNCHANGED <<outcome, verdict, coord, check, by, pending, hits, row,
                 stream, canceled>>

FinalizeQuestion ==
  FinalizeMessage("finalizing", "closing", TRUE,
    [message EXCEPT !.question = IF outcome = "failed" THEN "error"
                                                       ELSE "success"])

FinalizeAnswer ==
  FinalizeMessage("closing", "storing", outcome # "success",
    [message EXCEPT !.answer = IF outcome = "failed" THEN "error"
                                                     ELSE "interrupted"])

\* Mutant: the direction of the hit is stored in the place of the state
StoreRun_Verdict ==
  /\ pc = "storing" /\ pc' = "publishing"
  /\ row' = verdict
  /\ UNCHANGED <<outcome, verdict, coord, check, by, pending, hits, message,
                 stream, canceled, faults>>

\* UpsertConversationRun creates the row or overwrites all of it
StoreRun ==
  /\ pc = "storing" /\ pc' = "publishing"
  /\ \/ /\ row' = IF Decided THEN "blocked" ELSE verdict
        /\ UNCHANGED faults
     \/ Fails /\ UNCHANGED row
  /\ UNCHANGED <<outcome, verdict, coord, check, by, pending, hits, message,
                 stream, canceled>>

\* Mutant: the last event does not look at what the barrier decided
Publish_Anyway ==
  /\ pc = "publishing" /\ pc' = "done"
  /\ stream' = IF outcome = "failed" THEN stream ELSE stream \cup {"answer"}
  /\ UNCHANGED <<outcome, verdict, coord, check, by, pending, database,
                 canceled, faults>>

\* The handler's last event carries the whole answer, unless it is withdrawn
Publish ==
  /\ pc = "publishing" /\ pc' = "done"
  /\ stream' = IF Decided \/ outcome = "failed"
                 THEN stream ELSE stream \cup {"answer"}
  /\ UNCHANGED <<outcome, verdict, coord, check, by, pending, database,
                 canceled, faults>>

---------------------------------------------------------------------------
(* The workers.                                                            *)

\* preferBlockDirection: the question matters more
Prefers(c) ==
  coord.blocked = "none" \/ (c = "input" /\ coord.blocked = "output")

\* A check that finds nothing, or that the service does not answer
Clear(c) ==
  /\ check[c] = "queued"
  /\ \/ check' = [check EXCEPT ![c] = "clean"] /\ UNCHANGED coord
     \/ /\ check' = [check EXCEPT ![c] = "failed"]
        /\ coord' = [coord EXCEPT !.failedOpen = @ \/ ~Settled]
  /\ UNCHANGED <<pc, outcome, verdict, by, pending, database, stream,
                 canceled, faults>>

\* recordHit: the hit is written before it is reported
Find(c) ==
  /\ check[c] = "queued"
  /\ check' = [check EXCEPT ![c] = "hit"]
  /\ \/ hits' = Append(hits, c) /\ UNCHANGED faults
     \/ Fails /\ UNCHANGED hits
  /\ UNCHANGED <<pc, outcome, verdict, coord, by, pending, row, message,
                 stream, canceled>>

\* onTaskResult: for the barrier, or too late for it
Report(c) ==
  /\ check[c] = "hit"
  /\ check' = [check EXCEPT ![c] =
                 IF c = "input" /\ ~Settled THEN "interrupt" ELSE "reported"]
  /\ IF Settled
       THEN IF ~coord.handled \/ Prefers(c)
              THEN /\ coord' = [coord EXCEPT !.blocked = c, !.handled = TRUE]
                   /\ by' = [by EXCEPT ![c] =
                               [step |-> "apply", of |-> c,
                                tell |-> TRUE, keep |-> TRUE]]
              ELSE UNCHANGED <<coord, by>>
       ELSE /\ coord' = [coord EXCEPT !.blocked =
                           IF Prefers(c) THEN c ELSE @]
            /\ UNCHANGED by
  /\ UNCHANGED <<pc, outcome, verdict, pending, database, stream, canceled,
                 faults>>

\* cancelRun, once, after the coordinator's lock has been given back
Interrupt ==
  /\ check["input"] = "interrupt"
  /\ check' = [check EXCEPT !["input"] = "reported"]
  /\ canceled' = TRUE
  /\ UNCHANGED <<pc, outcome, verdict, coord, by, pending, database, stream,
                 faults>>

---------------------------------------------------------------------------
(* Withdrawing: apply, forget the pending withdrawal, reset, announce.     *)

At(a, step) == by[a].step = step

Go(a, step) ==
  by' = [by EXCEPT ![a] = IF step = "idle" THEN Idle ELSE [@ EXCEPT !.step = step]]

\* Mutant: a withdrawal that fails is not kept to be tried again
Apply_NotKept(a) ==
  /\ At(a, "apply")
  /\ \/ Withdraw(by[a].of) /\ Go(a, "remove") /\ UNCHANGED faults
     \/ /\ Fails
        /\ Go(a, IF a = "recovery" THEN "idle" ELSE "reset")
        /\ UNCHANGED <<row, message>>
  /\ UNCHANGED <<pc, outcome, verdict, coord, check, pending, hits, stream,
                 canceled>>

\* A withdrawal that fails is kept to be tried again
Apply(a) ==
  /\ At(a, "apply")
  /\ \/ /\ Withdraw(by[a].of) /\ Go(a, "remove")
        /\ UNCHANGED <<pending, faults>>
     \/ /\ \/ row = "none" /\ UNCHANGED faults
           \/ Fails
        /\ pending' = IF by[a].keep THEN by[a].of ELSE pending
        /\ Go(a, IF a = "recovery" THEN "idle"
                 ELSE IF a \in Checks THEN "mark" ELSE "reset")
        /\ UNCHANGED <<row, message>>
  /\ UNCHANGED <<pc, outcome, verdict, coord, check, hits, stream, canceled>>

\* handleLateBlock: the run is marked for the recovery
Mark(a) ==
  /\ At(a, "mark") /\ Go(a, "reset")
  /\ SetState("moderating")
  /\ UNCHANGED <<pc, outcome, verdict, coord, check, pending, hits, message,
                 stream, canceled>>

Forget(a) ==
  /\ At(a, "remove") /\ Go(a, IF by[a].tell THEN "reset" ELSE "idle")
  /\ pending' = "none"
  /\ UNCHANGED <<pc, outcome, verdict, coord, check, database, stream,
                 canceled, faults>>

Reset(a) ==
  /\ At(a, "reset") /\ Go(a, "emit")
  /\ stream' = {}
  /\ UNCHANGED <<pc, outcome, verdict, coord, check, pending, database,
                 canceled, faults>>

\* The notice; the run then leaves the barrier
Emit(a) ==
  /\ At(a, "emit") /\ Go(a, "idle")
  /\ stream' = stream \cup {"notice"}
  /\ pc' = IF a = "run" THEN "finalizing" ELSE pc
  /\ UNCHANGED <<outcome, verdict, coord, check, pending, database, canceled,
                 faults>>

---------------------------------------------------------------------------
(* The recovery loop.                                                      *)

Recover(step, of, tell, keep) ==
  by' = [by EXCEPT !["recovery"] =
           [step |-> step, of |-> of, tell |-> tell, keep |-> keep]]

\* Mutant: the pending withdrawal is taken off before it has been done
Retry_Takes ==
  /\ At("recovery", "idle") /\ pending # "none"
  /\ Recover("apply", pending, FALSE, FALSE)
  /\ pending' = "none"
  /\ UNCHANGED <<pc, outcome, verdict, coord, check, database, stream,
                 canceled, faults>>

\* recoverPendingBlocks
Retry ==
  /\ At("recovery", "idle") /\ pending # "none"
  /\ Recover("apply", pending, FALSE, FALSE)
  /\ UNCHANGED <<pc, outcome, verdict, coord, check, pending, database,
                 stream, canceled, faults>>

\* Mutant: a run that its coordinator still looks after counts as stale
FindStale_Live ==
  /\ At("recovery", "idle")
  /\ row \in {"pending", "moderating"}
  /\ Go("recovery", "look")
  /\ UNCHANGED <<pc, outcome, verdict, coord, check, pending, database,
                 stream, canceled, faults>>

\* Mutant: runs whose process ended before the barrier are not looked for
FindStale_Moderating ==
  /\ At("recovery", "idle")
  /\ row = "moderating" /\ ~Live
  /\ Go("recovery", "look")
  /\ UNCHANGED <<pc, outcome, verdict, coord, check, pending, database,
                 stream, canceled, faults>>

\* recoverStaleRuns: a run in moderation that no coordinator looks after
FindStale ==
  /\ At("recovery", "idle")
  /\ row \in {"pending", "moderating"} /\ ~Live
  /\ Go("recovery", "look")
  /\ UNCHANGED <<pc, outcome, verdict, coord, check, pending, database,
                 stream, canceled, faults>>

\* Mutant: hits that could not be read count as none
LookUp_FailsOpen ==
  /\ At("recovery", "look")
  /\ \/ Fails /\ Go("recovery", "give up")
     \/ /\ IF hits = <<>> THEN Go("recovery", "give up")
           ELSE Recover("apply", hits[Len(hits)], pending = "none", TRUE)
        /\ UNCHANGED faults
  /\ UNCHANGED <<pc, outcome, verdict, coord, check, pending, database,
                 stream, canceled>>

\* recoverKnownHit: the latest hit is withdrawn, and announced unless it was
LookUp ==
  /\ At("recovery", "look")
  /\ \/ Fails /\ Go("recovery", "idle")
     \/ /\ IF hits = <<>> THEN Go("recovery", "give up")
           ELSE Recover("apply", hits[Len(hits)], pending = "none", TRUE)
        /\ UNCHANGED faults
  /\ UNCHANGED <<pc, outcome, verdict, coord, check, pending, database,
                 stream, canceled>>

GiveUp ==
  /\ At("recovery", "give up") /\ Go("recovery", "idle")
  /\ SetState("failed_open")
  /\ UNCHANGED <<pc, outcome, verdict, coord, check, pending, hits, message,
                 stream, canceled>>

\* The process ends: what it kept in memory is lost, the stream as well
\* unless it is in Redis
Crash ==
  /\ pc # "dead" /\ pc' = "dead"
  /\ Fails
  /\ outcome' = "open" /\ verdict' = "open"
  /\ coord' = [blocked |-> "none", handled |-> FALSE, failedOpen |-> FALSE]
  /\ check' = [c \in Checks |-> "none"]
  /\ by' = [a \in Actors |-> Idle]
  /\ pending' = "none"
  /\ stream' \in {stream, {}}
  /\ canceled' = FALSE
  /\ UNCHANGED database

---------------------------------------------------------------------------

Run ==
  \/ Begin \/ EndGeneration \/ Barrier \/ EnqueueOutputs \/ Wait \/ Settle
  \/ Pass \/ FinalizeQuestion \/ FinalizeAnswer \/ StoreRun \/ Publish

Work(c) == Clear(c) \/ Find(c) \/ Report(c) \/ (c = "input" /\ Interrupt)

Withdrawal(a) == Apply(a) \/ Mark(a) \/ Forget(a) \/ Reset(a) \/ Emit(a)

Look == Retry \/ FindStale \/ LookUp \/ GiveUp

Next ==
  \/ Run \/ Generate \/ Look \/ Crash
  \/ \E c \in Checks : Work(c)
  \/ \E a \in Actors : Withdrawal(a)

Spec == Init /\ [][Next]_vars

\* The run goes on, a check is answered or given up, the recovery loop runs
FairSpec ==
  /\ Spec
  /\ WF_vars(Run) /\ WF_vars(Look)
  /\ \A c \in Checks : WF_vars(Work(c))
  /\ \A a \in Actors : WF_vars(Withdrawal(a))

---------------------------------------------------------------------------

States == {"pending", "moderating", "passed", "failed_open", "blocked"}

Flags == [blocked : {"none"} \cup Checks, handled : BOOLEAN,
          failedOpen : BOOLEAN]

Progress == [Checks -> {"none", "queued", "hit", "interrupt", "clean",
                        "failed", "reported"}]

Steps == {"idle", "apply", "mark", "remove", "reset", "emit", "look",
          "give up"}

Withdrawals == [Actors -> [step : Steps, of : Checks, tell : BOOLEAN,
                           keep : BOOLEAN]]

Messages == [question : {"pending", "success", "error", "blocked"},
             answer : {"pending", "success", "interrupted", "error",
                       "blocked"},
             text : {"none", "stored", "withdrawn"}]

TypeOK ==
  /\ pc \in {"begin", "generating", "barrier", "enqueue", "waiting",
             "settling", "withdrawing", "passing", "finalizing", "closing",
             "storing", "publishing", "done", "dead"}
  /\ outcome \in {"open", "success", "interrupted", "failed"}
  /\ verdict \in {"open", "passed", "failed_open"} \cup Checks
  /\ coord \in Flags
  /\ check \in Progress
  /\ by \in Withdrawals
  /\ pending \in {"none"} \cup Checks
  /\ hits \in Seq(Checks)
  /\ row \in {"none"} \cup States
  /\ message \in Messages
  /\ stream \subseteq {"delta", "answer", "notice"}
  /\ canceled \in BOOLEAN
  /\ faults \in 0..MaxFaults

\* A run passes only if every check that was started has come back clean: one
\* that is still awaited, was refused by the queue or failed makes it
\* failed_open (waitAll, onTaskResult).  So what is recorded as passed has no
\* recorded hit, whatever arrives late and whoever writes the row again.
PassedIsChecked ==
  /\ verdict = "passed" => \A c \in Checks : check[c] \in {"none", "clean"}
  /\ row = "passed" => hits = <<>>

\* What the barrier has withdrawn, the run does not tell again: nothing of the
\* answer is retained for a client that resumes (notifyBlocked, the handler's
\* last event).
BarrierHides ==
  Decided /\ Settled /\ pc # "withdrawing" => stream \subseteq {"notice"}

\* A run that is recorded as blocked has its answer withdrawn, or somebody is
\* about to do it or to try it again, as long as the process lives: the
\* several actors that withdraw, fail and forget do not lose it between them.
BlockedIsWithdrawn ==
  row = "blocked" /\ pc # "dead" =>
    message.text = "withdrawn" \/ pending # "none"

\* No step of the run, of a late worker or of the recovery brings the text of
\* a withdrawn answer back.
WithdrawnStays ==
  [][message.text = "withdrawn" => message'.text = "withdrawn"]_vars

\* What is known to be a hit is withdrawn in the end, although the database
\* fails: at the barrier, late, or by the recovery loop, unless the run never
\* gets a row.
HitWithdrawn ==
  coord.blocked # "none" ~>
    message.text = "withdrawn" \/ pc = "dead" \/ [](row = "none")

\* No run stays in moderation for ever, also if its process ends.
ModerationEnds ==
  row \in {"pending", "moderating"} ~> row \notin {"pending", "moderating"}

\* A hit that was recorded before the process ended is withdrawn by the next
\* one, as long as the run had not been settled otherwise.
RecordedHitRecovered ==
  pc = "dead" /\ hits # <<>> /\ row \in {"pending", "moderating"} ~>
    message.text = "withdrawn"

\* Once the notice has replaced the events of a withdrawn answer, a client
\* that resumes is not told the answer again.
NothingReplayed ==
  "notice" \in stream => {"delta", "answer"} \cap stream = {}
=============================================================================
