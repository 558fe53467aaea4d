---------------------- MODULE ContentModerationProofs ----------------------
(***************************************************************************)
(* What holds of a moderated run for any number of failed calls and ended  *)
(* processes: its types, that nothing unchecked passes, and that no        *)
(* withdrawal is undone or lost while the process lives.  Each part of the *)
(* invariant says what the goroutine of the run, the workers and the       *)
(* recovery loop may rely on where they are; the parts are proved one      *)
(* after another, each from those before it.                               *)
(***************************************************************************)
EXTENDS ContentModeration, TLAPS

\* The run has a verdict from the barrier on, and withdraws only at it.
VerdictKnown ==
  /\ pc = "passing" => verdict \in {"passed", "failed_open"}
  /\ Settled <=> verdict # "open"
  /\ by["run"].step # "idle" => pc = "withdrawing"

TypeInv == TypeOK /\ VerdictKnown

\* A step of one withdrawal leaves the others alone.
LEMMA GoMoves ==
  ASSUME by \in Withdrawals, NEW a \in Actors, NEW step \in Steps,
         Go(a, step)
  PROVE  /\ by' \in Withdrawals
         /\ by'[a].step = step
         /\ \A b \in Actors : b # a => by'[b] = by[b]
<1>1. Idle \in [step : Steps, of : Checks, tell : BOOLEAN, keep : BOOLEAN]
  BY DEF Idle, Steps, Checks
<1>2. CASE step = "idle"
  BY <1>1, <1>2 DEF Go, Withdrawals, Idle
<1>3. CASE step # "idle"
  BY <1>3 DEF Go, Withdrawals
<1>4. QED BY <1>2, <1>3

\* A withdrawal that is begun is of its kind, and leaves the others alone.
LEMMA Begun ==
  ASSUME by \in Withdrawals, NEW a \in Actors, NEW c \in Checks,
         NEW tell \in BOOLEAN, NEW keep \in BOOLEAN,
         by' = [by EXCEPT ![a] = [step |-> "apply", of |-> c, tell |-> tell,
                                  keep |-> keep]]
  PROVE  /\ by' \in Withdrawals
         /\ by'[a].step = "apply"
         /\ \A b \in Actors : b # a => by'[b] = by[b]
<1>1. [step |-> "apply", of |-> c, tell |-> tell, keep |-> keep]
        \in [step : Steps, of : Checks, tell : BOOLEAN, keep : BOOLEAN]
  BY DEF Steps
<1>2. QED BY <1>1 DEF Withdrawals

\* A call that fails is counted up to the bound.
LEMMA FailsCounts ==
  ASSUME faults \in 0..MaxFaults, Fails
  PROVE  faults' \in 0..MaxFaults
BY FaultsAssumption DEF Fails

\* A state that is set is stored, or the row is as it was.
LEMMA SetStateTypes ==
  ASSUME TypeOK, NEW state \in States, SetState(state)
  PROVE  /\ row' \in {"none"} \cup States
         /\ faults' \in 0..MaxFaults
         /\ row' \in {row, state}
BY FailsCounts DEF SetState, TypeOK

\* A check that is started changes its own state and the flag.
LEMMA StartTypes ==
  ASSUME TypeOK, NEW c \in Checks, Start(c)
  PROVE  check' \in Progress /\ coord' \in Flags
<1>1. check' \in Progress BY DEF Start, TypeOK, Progress
<1>2. coord' \in Flags BY DEF Start, TypeOK, Flags
<1>3. QED BY <1>1, <1>2

\* The steps of the run keep the types and the verdict.
LEMMA RunTypes ==
  ASSUME TypeInv, Run
  PROVE  TypeInv'
<1>1. CASE Begin
  <2>1. check' \in Progress /\ coord' \in Flags
    BY <1>1, StartTypes DEF Begin, Checks, TypeInv
  <2>2. row' \in {"none"} \cup States /\ faults' \in 0..MaxFaults
    BY <1>1, FailsCounts DEF Begin, TypeInv, TypeOK, States
  <2>3. TypeOK' BY <1>1, <2>1, <2>2 DEF Begin, TypeInv, TypeOK
  <2>4. VerdictKnown' BY <1>1 DEF Begin, TypeInv, VerdictKnown, Settled
  <2>5. QED BY <2>3, <2>4 DEF TypeInv
<1>2. CASE EndGeneration
  <2>1. message' \in Messages
    BY <1>2 DEF EndGeneration, TypeInv, TypeOK, Messages
  <2>2. TypeOK' BY <1>2, <2>1 DEF EndGeneration, TypeInv, TypeOK
  <2>3. VerdictKnown' BY <1>2 DEF EndGeneration, TypeInv, VerdictKnown, Settled
  <2>4. QED BY <2>2, <2>3 DEF TypeInv
<1>3. CASE Barrier
  <2>1. row' \in {"none"} \cup States /\ faults' \in 0..MaxFaults
    BY <1>3, SetStateTypes DEF Barrier, TypeInv, States
  <2>2. TypeOK' BY <1>3, <2>1 DEF Barrier, TypeInv, TypeOK
  <2>3. VerdictKnown' BY <1>3 DEF Barrier, TypeInv, VerdictKnown, Settled
  <2>4. QED BY <2>2, <2>3 DEF TypeInv
<1>4. CASE EnqueueOutputs
  <2>1. check' \in Progress /\ coord' \in Flags
    BY <1>4, StartTypes DEF EnqueueOutputs, Checks, TypeInv
  <2>2. UNCHANGED <<hits, row, message>>
    BY <1>4 DEF EnqueueOutputs, database
  <2>3. TypeOK' BY <1>4, <2>1, <2>2 DEF EnqueueOutputs, TypeInv, TypeOK
  <2>4. VerdictKnown'
    BY <1>4 DEF EnqueueOutputs, TypeInv, VerdictKnown, Settled
  <2>5. QED BY <2>3, <2>4 DEF TypeInv
<1>5. CASE Wait
  <2>1. coord' \in Flags
    BY <1>5 DEF Wait, TypeInv, TypeOK, Flags
  <2>2. UNCHANGED <<hits, row, message>>
    BY <1>5 DEF Wait, database
  <2>3. TypeOK' BY <1>5, <2>1, <2>2 DEF Wait, TypeInv, TypeOK
  <2>4. VerdictKnown' BY <1>5 DEF Wait, TypeInv, VerdictKnown, Settled
  <2>5. QED BY <2>3, <2>4 DEF TypeInv
<1>6. CASE Settle
  <2>1. coord' \in Flags
    BY <1>6 DEF Settle, TypeInv, TypeOK, Flags
  <2>2. UNCHANGED <<hits, row, message>>
    BY <1>6 DEF Settle, database
  <2>3. coord.blocked # "none" => coord.blocked \in Checks
    BY DEF TypeInv, TypeOK, Flags
  <2>4. by' \in Withdrawals
    BY <1>6, <2>3, Begun DEF Settle, TypeInv, TypeOK, Actors
  <2>5. verdict' \in {"open", "passed", "failed_open"} \cup Checks
    BY <1>6, <2>3 DEF Settle
  <2>6. pc' \in {"withdrawing", "passing"}
    BY <1>6 DEF Settle
  <2>7. TypeOK' BY <1>6, <2>1, <2>2, <2>4, <2>5, <2>6
    DEF Settle, TypeInv, TypeOK
  <2>8. VerdictKnown'
    BY <1>6, <2>3 DEF Settle, TypeInv, VerdictKnown, Settled, Checks
  <2>9. QED BY <2>7, <2>8 DEF TypeInv
<1>7. CASE Pass
  <2>1. row' \in {"none"} \cup States /\ faults' \in 0..MaxFaults
    BY <1>7, SetStateTypes DEF Pass, TypeInv, VerdictKnown, States
  <2>2. TypeOK' BY <1>7, <2>1 DEF Pass, TypeInv, TypeOK
  <2>3. VerdictKnown' BY <1>7 DEF Pass, TypeInv, VerdictKnown, Settled
  <2>4. QED BY <2>2, <2>3 DEF TypeInv
<1>8. CASE FinalizeQuestion
  <2>1. message' \in Messages /\ faults' \in 0..MaxFaults
    BY <1>8, FailsCounts
       DEF FinalizeQuestion, FinalizeMessage, TypeInv, TypeOK, Messages
  <2>2. TypeOK'
    BY <1>8, <2>1 DEF FinalizeQuestion, FinalizeMessage, TypeInv, TypeOK
  <2>3. VerdictKnown'
    BY <1>8 DEF FinalizeQuestion, FinalizeMessage, TypeInv, VerdictKnown,
                Settled
  <2>4. QED BY <2>2, <2>3 DEF TypeInv
<1>9. CASE FinalizeAnswer
  <2>1. message' \in Messages /\ faults' \in 0..MaxFaults
    BY <1>9, FailsCounts
       DEF FinalizeAnswer, FinalizeMessage, TypeInv, TypeOK, Messages
  <2>2. TypeOK'
    BY <1>9, <2>1 DEF FinalizeAnswer, FinalizeMessage, TypeInv, TypeOK
  <2>3. VerdictKnown'
    BY <1>9 DEF FinalizeAnswer, FinalizeMessage, TypeInv, VerdictKnown,
                Settled
  <2>4. QED BY <2>2, <2>3 DEF TypeInv
<1>10. CASE StoreRun
  <2>1. ~Decided => verdict \in {"passed", "failed_open"}
    BY <1>10 DEF StoreRun, TypeInv, TypeOK, VerdictKnown, Settled, Decided
  <2>2. row' \in {"none"} \cup States /\ faults' \in 0..MaxFaults
    BY <1>10, <2>1, FailsCounts DEF StoreRun, TypeInv, TypeOK, States
  <2>3. TypeOK' BY <1>10, <2>2 DEF StoreRun, TypeInv, TypeOK
  <2>4. VerdictKnown' BY <1>10 DEF StoreRun, TypeInv, VerdictKnown, Settled
  <2>5. QED BY <2>3, <2>4 DEF TypeInv
<1>11. CASE Publish
  <2>1. UNCHANGED <<hits, row, message>>
    BY <1>11 DEF Publish, database
  <2>2. stream' \subseteq {"delta", "answer", "notice"}
    BY <1>11 DEF Publish, TypeInv, TypeOK
  <2>3. TypeOK' BY <1>11, <2>1, <2>2 DEF Publish, TypeInv, TypeOK
  <2>4. VerdictKnown' BY <1>11 DEF Publish, TypeInv, VerdictKnown, Settled
  <2>5. QED BY <2>3, <2>4 DEF TypeInv
<1>12. QED
  BY <1>1, <1>2, <1>3, <1>4, <1>5, <1>6, <1>7, <1>8, <1>9, <1>10, <1>11
     DEF Run

\* A delta is one of the events of the stream.
LEMMA GenerateTypes ==
  ASSUME TypeInv, Generate
  PROVE  TypeInv'
<1>1. UNCHANGED <<hits, row, message>> BY DEF Generate, database
<1>2. TypeOK' BY <1>1 DEF Generate, TypeInv, TypeOK
<1>3. VerdictKnown' BY DEF Generate, TypeInv, VerdictKnown, Settled
<1>4. QED BY <1>2, <1>3 DEF TypeInv

\* The steps of a worker keep the types and the verdict.
LEMMA WorkTypes ==
  ASSUME TypeInv, NEW c \in Checks, Work(c)
  PROVE  TypeInv'
<1>1. CASE Clear(c)
  <2>1. UNCHANGED <<hits, row, message>> BY <1>1 DEF Clear, database
  <2>2. check' \in Progress BY <1>1 DEF Clear, TypeInv, TypeOK, Progress
  <2>3. coord' \in Flags BY <1>1 DEF Clear, TypeInv, TypeOK, Flags
  <2>4. TypeOK' BY <1>1, <2>1, <2>2, <2>3 DEF Clear, TypeInv, TypeOK
  <2>5. VerdictKnown' BY <1>1 DEF Clear, TypeInv, VerdictKnown, Settled
  <2>6. QED BY <2>4, <2>5 DEF TypeInv
<1>2. CASE Find(c)
  <2>1. check' \in Progress BY <1>2 DEF Find, TypeInv, TypeOK, Progress
  <2>2. hits' \in Seq(Checks)
    BY <1>2 DEF Find, TypeInv, TypeOK
  <2>6. faults' \in 0..MaxFaults
    BY <1>2, FailsCounts DEF Find, TypeInv, TypeOK
  <2>3. TypeOK' BY <1>2, <2>1, <2>2, <2>6 DEF Find, TypeInv, TypeOK
  <2>4. VerdictKnown' BY <1>2 DEF Find, TypeInv, VerdictKnown, Settled
  <2>5. QED BY <2>3, <2>4 DEF TypeInv
<1>3. CASE Report(c)
  <2>1. UNCHANGED <<hits, row, message>> BY <1>3 DEF Report, database
  <2>2. check' \in Progress BY <1>3 DEF Report, TypeInv, TypeOK, Progress
  <2>3. coord' \in Flags BY <1>3 DEF Report, TypeInv, TypeOK, Flags
  <2>4. /\ by' \in Withdrawals
        /\ by'["run"] = by["run"]
    <3>1. c \in Actors /\ "run" \in Actors /\ c # "run"
      BY DEF Actors, Checks
    <3>2. CASE UNCHANGED by
      BY <3>2 DEF TypeInv, TypeOK
    <3>3. CASE by' = [by EXCEPT ![c] = [step |-> "apply", of |-> c,
                                        tell |-> TRUE, keep |-> TRUE]]
      <4>1. by \in Withdrawals /\ TRUE \in BOOLEAN
        BY DEF TypeInv, TypeOK
      <4>2. QED BY <3>1, <3>3, <4>1, Begun
    <3>4. QED BY <1>3, <3>2, <3>3 DEF Report
  <2>5. TypeOK' BY <1>3, <2>1, <2>2, <2>3, <2>4 DEF Report, TypeInv, TypeOK
  <2>6. VerdictKnown'
    BY <1>3, <2>4 DEF Report, TypeInv, VerdictKnown, Settled
  <2>7. QED BY <2>5, <2>6 DEF TypeInv
<1>4. CASE Interrupt
  <2>1. UNCHANGED <<hits, row, message>> BY <1>4 DEF Interrupt, database
  <2>2. check' \in Progress
    BY <1>4 DEF Interrupt, TypeInv, TypeOK, Progress
  <2>3. TypeOK' BY <1>4, <2>1, <2>2 DEF Interrupt, TypeInv, TypeOK
  <2>4. VerdictKnown' BY <1>4 DEF Interrupt, TypeInv, VerdictKnown, Settled
  <2>5. QED BY <2>3, <2>4 DEF TypeInv
<1>5. QED BY <1>1, <1>2, <1>3, <1>4 DEF Work

\* The transaction that withdraws takes the text and marks the run.
LEMMA WithdrawTypes ==
  ASSUME TypeOK, NEW c \in Checks, Withdraw(c)
  PROVE  /\ message' \in Messages /\ message'.text = "withdrawn"
         /\ row' = "blocked" /\ row' \in {"none"} \cup States
<1>1. message' \in Messages /\ message'.text = "withdrawn"
  BY DEF Withdraw, TypeOK, Messages
<1>2. QED BY <1>1 DEF Withdraw, States

\* The steps of a withdrawal keep the types and the verdict; only the last
\* one of the run's own withdrawal moves the run.
LEMMA WithdrawalTypes ==
  ASSUME TypeInv, NEW a \in Actors, Withdrawal(a)
  PROVE  TypeInv'
<1>1. by[a].of \in Checks BY DEF TypeInv, TypeOK, Withdrawals
<1>2. Go(a, "idle") \/ Go(a, "mark") \/ Go(a, "remove") \/ Go(a, "reset")
        \/ Go(a, "emit")
  BY DEF Withdrawal, Apply, Mark, Forget, Reset, Emit
<1>3. /\ by' \in Withdrawals
      /\ by[a].step # "idle"
      /\ \A b \in Actors : b # a => by'[b] = by[b]
  <2>1. by' \in Withdrawals /\ \A b \in Actors : b # a => by'[b] = by[b]
    BY <1>2, GoMoves DEF TypeInv, TypeOK, Steps
  <2>2. by[a].step # "idle"
    BY DEF Withdrawal, Apply, Mark, Forget, Reset, Emit, At
  <2>3. QED BY <2>1, <2>2
<1>4. "run" \in Actors BY DEF Actors
<1>5. CASE Apply(a)
  <2>1. /\ message' \in Messages /\ row' \in {"none"} \cup States
        /\ faults' \in 0..MaxFaults
    <3>1. CASE Withdraw(by[a].of) /\ UNCHANGED faults
      BY <3>1, <1>1, WithdrawTypes DEF TypeInv, TypeOK
    <3>2. CASE UNCHANGED <<row, message>> /\ (Fails \/ UNCHANGED faults)
      BY <3>2, FailsCounts DEF TypeInv, TypeOK
    <3>3. QED BY <1>5, <3>1, <3>2 DEF Apply
  <2>2. pending' \in {"none"} \cup Checks
    BY <1>1, <1>5 DEF Apply, TypeInv, TypeOK
  <2>3. TypeOK' BY <1>3, <1>5, <2>1, <2>2 DEF Apply, TypeInv, TypeOK
  <2>4. VerdictKnown'
    BY <1>3, <1>4, <1>5 DEF Apply, TypeInv, VerdictKnown, Settled
  <2>5. QED BY <2>3, <2>4 DEF TypeInv
<1>6. CASE Mark(a)
  <2>1. row' \in {"none"} \cup States /\ faults' \in 0..MaxFaults
    BY <1>6, SetStateTypes DEF Mark, TypeInv, States
  <2>2. TypeOK' BY <1>3, <1>6, <2>1 DEF Mark, TypeInv, TypeOK
  <2>3. VerdictKnown'
    BY <1>3, <1>4, <1>6 DEF Mark, TypeInv, VerdictKnown, Settled
  <2>4. QED BY <2>2, <2>3 DEF TypeInv
<1>7. CASE Forget(a)
  <2>1. UNCHANGED <<hits, row, message>> BY <1>7 DEF Forget, database
  <2>2. TypeOK' BY <1>3, <1>7, <2>1 DEF Forget, TypeInv, TypeOK
  <2>3. VerdictKnown'
    BY <1>3, <1>4, <1>7 DEF Forget, TypeInv, VerdictKnown, Settled
  <2>4. QED BY <2>2, <2>3 DEF TypeInv
<1>8. CASE Reset(a)
  <2>1. UNCHANGED <<hits, row, message>> BY <1>8 DEF Reset, database
  <2>2. TypeOK' BY <1>3, <1>8, <2>1 DEF Reset, TypeInv, TypeOK
  <2>3. VerdictKnown'
    BY <1>3, <1>4, <1>8 DEF Reset, TypeInv, VerdictKnown, Settled
  <2>4. QED BY <2>2, <2>3 DEF TypeInv
<1>9. CASE Emit(a)
  <2>1. UNCHANGED <<hits, row, message>> BY <1>9 DEF Emit, database
  <2>2. TypeOK' BY <1>3, <1>9, <2>1 DEF Emit, TypeInv, TypeOK
  <2>3. by'["run"].step # "idle" => a # "run"
    BY <1>9, <1>4, GoMoves DEF Emit, TypeInv, TypeOK, Steps
  <2>4. VerdictKnown'
    BY <1>3, <1>4, <1>9, <2>3 DEF Emit, TypeInv, VerdictKnown, Settled
  <2>5. QED BY <2>2, <2>4 DEF TypeInv
<1>10. QED BY <1>5, <1>6, <1>7, <1>8, <1>9 DEF Withdrawal

\* The steps of the recovery loop keep the types and the verdict.
LEMMA LookTypes ==
  ASSUME TypeInv, Look
  PROVE  TypeInv'
<1>1. "recovery" \in Actors /\ "run" \in Actors /\ "run" # "recovery"
  BY DEF Actors
<1>8. by \in Withdrawals /\ TRUE \in BOOLEAN /\ FALSE \in BOOLEAN
  BY DEF TypeInv, TypeOK
<1>2. /\ by' \in Withdrawals
      /\ by'["run"] = by["run"]
  <2>1. CASE Retry
    <3>1. pending \in Checks BY <2>1 DEF Retry, TypeInv, TypeOK
    <3>2. by' = [by EXCEPT !["recovery"] =
                   [step |-> "apply", of |-> pending, tell |-> FALSE,
                    keep |-> FALSE]]
      BY <2>1 DEF Retry, Recover
    <3>3. QED BY <1>1, <1>8, <3>1, <3>2, Begun
  <2>2. CASE FindStale \/ GiveUp
    <3>1. Go("recovery", "look") \/ Go("recovery", "idle")
      BY <2>2 DEF FindStale, GiveUp
    <3>2. "look" \in Steps /\ "idle" \in Steps BY DEF Steps
    <3>3. QED BY <1>1, <1>8, <3>1, <3>2, GoMoves
  <2>3. CASE LookUp
    <3>1. hits # <<>> => hits[Len(hits)] \in Checks
      BY DEF TypeInv, TypeOK
    <3>2. CASE Go("recovery", "idle") \/ Go("recovery", "give up")
      <4>1. "give up" \in Steps /\ "idle" \in Steps BY DEF Steps
      <4>2. QED BY <1>1, <1>8, <3>2, <4>1, GoMoves
    <3>3. CASE /\ hits # <<>>
               /\ Recover("apply", hits[Len(hits)], pending = "none", TRUE)
      <4>1. (pending = "none") \in BOOLEAN OBVIOUS
      <4>2. by' = [by EXCEPT !["recovery"] =
                     [step |-> "apply", of |-> hits[Len(hits)],
                      tell |-> (pending = "none"), keep |-> TRUE]]
        BY <3>3 DEF Recover
      <4>3. QED BY <1>1, <1>8, <3>1, <3>3, <4>1, <4>2, Begun
    <3>4. QED BY <2>3, <3>2, <3>3 DEF LookUp
  <2>4. QED BY <2>1, <2>2, <2>3 DEF Look
<1>3. row' \in {"none"} \cup States /\ faults' \in 0..MaxFaults
  <2>1. CASE Retry \/ FindStale
    BY <2>1 DEF Retry, FindStale, database, TypeInv, TypeOK
  <2>2. CASE LookUp
    BY <2>2, FailsCounts DEF LookUp, database, TypeInv, TypeOK
  <2>3. CASE GiveUp
    BY <2>3, SetStateTypes DEF GiveUp, TypeInv, States
  <2>4. QED BY <2>1, <2>2, <2>3 DEF Look
<1>4. UNCHANGED <<pc, outcome, verdict, coord, check, pending, hits, message,
                  stream, canceled>>
  BY DEF Look, Retry, FindStale, LookUp, GiveUp, database
<1>5. TypeOK' BY <1>2, <1>3, <1>4 DEF TypeInv, TypeOK
<1>6. VerdictKnown' BY <1>2, <1>4 DEF TypeInv, VerdictKnown, Settled
<1>7. QED BY <1>5, <1>6 DEF TypeInv

\* An ended process has nothing in memory.
LEMMA CrashTypes ==
  ASSUME TypeInv, Crash
  PROVE  TypeInv'
<1>1. UNCHANGED <<hits, row, message>> BY DEF Crash, database
<1>2. faults' \in 0..MaxFaults BY FailsCounts DEF Crash, TypeInv, TypeOK
<1>3. coord' \in Flags BY DEF Crash, Flags
<1>4. check' \in Progress BY DEF Crash, Progress
<1>5. Idle \in [step : Steps, of : Checks, tell : BOOLEAN, keep : BOOLEAN]
  BY DEF Idle, Steps, Checks
<1>6. by' \in Withdrawals /\ by'["run"].step = "idle"
  BY <1>5 DEF Crash, Withdrawals, Actors, Idle
<1>7. stream' \subseteq {"delta", "answer", "notice"}
  BY DEF Crash, TypeInv, TypeOK
<1>8. TypeOK'
  BY <1>1, <1>2, <1>3, <1>4, <1>6, <1>7 DEF Crash, TypeInv, TypeOK
<1>9. VerdictKnown' BY <1>6 DEF Crash, VerdictKnown, Settled
<1>10. QED BY <1>8, <1>9 DEF TypeInv

\* Every reachable state is well typed, for any number of faults.
THEOREM ModerationTypes == Spec => []TypeInv
<1>1. Init => TypeInv
  <2>1. SUFFICES ASSUME Init PROVE TypeInv OBVIOUS
  <2>2. coord \in Flags BY <2>1 DEF Init, Flags
  <2>3. check \in Progress BY <2>1 DEF Init, Progress
  <2>4. Idle \in [step : Steps, of : Checks, tell : BOOLEAN, keep : BOOLEAN]
    BY DEF Idle, Steps, Checks
  <2>5. by \in Withdrawals /\ by["run"].step = "idle"
    BY <2>1, <2>4 DEF Init, Withdrawals, Actors, Idle
  <2>6. message \in Messages BY <2>1 DEF Init, Messages
  <2>7. faults \in 0..MaxFaults BY <2>1, FaultsAssumption DEF Init
  <2>8. hits \in Seq(Checks) /\ pending \in {"none"} \cup Checks
        /\ row \in {"none"} \cup States
    BY <2>1 DEF Init
  <2>11. TypeOK
    BY <2>1, <2>2, <2>3, <2>5, <2>6, <2>7, <2>8 DEF Init, TypeOK
  <2>9. VerdictKnown BY <2>1, <2>5 DEF Init, VerdictKnown, Settled
  <2>10. QED BY <2>9, <2>11 DEF TypeInv
<1>2. TypeInv /\ [Next]_vars => TypeInv'
  <2>1. SUFFICES ASSUME TypeInv, [Next]_vars PROVE TypeInv' OBVIOUS
  <2>2. CASE UNCHANGED vars
    BY <2>1, <2>2 DEF vars, TypeInv, TypeOK, VerdictKnown, Settled
  <2>3. QED
    BY <2>1, <2>2, RunTypes, GenerateTypes, WorkTypes, WithdrawalTypes,
       LookTypes, CrashTypes DEF Next
<1>3. QED BY <1>1, <1>2, PTL DEF Spec

\* Every reachable state is well typed (the invariant of the runs).
THEOREM ModerationTypeCorrect == Spec => []TypeOK
<1>1. TypeInv => TypeOK BY DEF TypeInv
<1>2. QED BY <1>1, ModerationTypes, PTL
-----------------------------------------------------------------------------
\* A check has reported, or is about to report, a hit.
Hit(c) == check[c] \in {"hit", "interrupt", "reported"}

Early == pc \in {"begin", "generating", "barrier", "enqueue", "waiting",
                 "settling"}

\* What the run may conclude from the flags of its coordinator.
ChecksKnown ==
  /\ \A c \in Checks :
       /\ check[c] = "failed" => coord.failedOpen \/ Settled
       /\ check[c] \in {"interrupt", "reported"} => coord.blocked # "none"
       /\ check[c] \in {"queued", "hit"} /\ pc = "settling" =>
            coord.failedOpen \/ coord.blocked # "none"
       /\ pc = "dead" => check[c] = "none"
  /\ coord.handled => coord.blocked # "none"

\* A recorded hit has its check while the process lives.
HitsKnown ==
  /\ pc = "begin" => check["input"] = "none"
  /\ pc \in {"begin", "generating", "barrier", "enqueue"} =>
       check["output"] = "none"
  /\ hits # <<>> /\ pc # "dead" => \E c \in Checks : Hit(c)

\* Only a verdict makes a row passed, and it stays with the run.
PassKnown ==
  /\ PassedIsChecked
  /\ row = "passed" => pc = "dead" \/ verdict = "passed"

CheckInv == ChecksKnown /\ HitsKnown /\ PassKnown

\* Nobody withdraws before the barrier has settled, and a withdrawal that
\* has been decided is done, or kept to be tried again.
WithdrawalKnown ==
  /\ Early => /\ pending = "none" /\ message.text # "withdrawn"
              /\ \A a \in Actors : by[a].step = "idle"
  /\ \A a \in Actors : by[a].step = "remove" => message.text = "withdrawn"
  /\ by["run"].step = "apply" => by["run"].keep
  /\ Decided /\ Settled /\ (pc = "withdrawing" => by["run"].step # "apply") =>
       message.text = "withdrawn" \/ pending # "none"
  /\ BlockedIsWithdrawn

\* The stream is clean from the reset of the run's withdrawal on.
StreamKnown ==
  /\ by["run"].step = "emit" => stream \subseteq {"notice"}
  /\ BarrierHides

\* The flags of the coordinator and the checks agree, whoever reports.
LEMMA ChecksStay ==
  ASSUME TypeInv, ChecksKnown, Next
  PROVE  ChecksKnown'
<1>1. CASE Begin \/ EnqueueOutputs
  <2>1. PICK c \in Checks : Start(c)
    BY <1>1 DEF Begin, EnqueueOutputs, Checks
  <2>2. PICK s \in {"none", "queued", "failed"} :
          /\ check' = [check EXCEPT ![c] = s]
          /\ coord' = [coord EXCEPT !.failedOpen = @ \/ s = "failed"]
    BY <2>1 DEF Start
  <2>3. /\ coord'.blocked = coord.blocked /\ coord'.handled = coord.handled
        /\ coord.failedOpen => coord'.failedOpen
        /\ s = "failed" => coord'.failedOpen
    BY <2>2 DEF TypeInv, TypeOK, Flags
  <2>4. check'[c] = s /\ \A d \in Checks : d # c => check'[d] = check[d]
    BY <2>2 DEF TypeInv, TypeOK, Progress
  <2>5. pc' \in {"generating", "waiting"} /\ ~Settled
    BY <1>1 DEF Begin, EnqueueOutputs, Settled
  <2>6. QED BY <2>2, <2>3, <2>4, <2>5 DEF ChecksKnown, Settled
<1>2. CASE Generate \/ Look \/ EndGeneration \/ Barrier
  <2>1. UNCHANGED <<coord, check>> /\ (pc' = pc \/ (~Settled /\ ~Settled'))
    BY <1>2 DEF Generate, Look, Retry, FindStale, LookUp, GiveUp,
                EndGeneration, Barrier, Settled
  <2>2. pc' \in {"settling", "dead"} => pc' = pc
    BY <1>2 DEF Generate, Look, Retry, FindStale, LookUp, GiveUp,
                EndGeneration, Barrier
  <2>3. QED BY <2>1, <2>2 DEF ChecksKnown, Settled
<1>3. CASE Wait
  <2>1. CASE Open = {} /\ UNCHANGED coord
    BY <1>3, <2>1 DEF Wait, ChecksKnown, Settled, Open
  <2>2. CASE coord' = [coord EXCEPT !.failedOpen = @ \/ coord.blocked = "none"]
    <3>1. /\ coord'.blocked = coord.blocked /\ coord'.handled = coord.handled
          /\ coord.failedOpen \/ coord.blocked = "none" => coord'.failedOpen
      BY <2>2 DEF TypeInv, TypeOK, Flags
    <3>2. QED BY <1>3, <3>1 DEF Wait, ChecksKnown, Settled
  <2>3. QED BY <1>3, <2>1, <2>2 DEF Wait
<1>4. CASE Settle
  <2>1. coord'.blocked = coord.blocked /\ Settled' /\ pc' # "settling"
        /\ pc' # "dead" /\ UNCHANGED check
    BY <1>4 DEF Settle, Settled, TypeInv, TypeOK, Flags
  <2>2. coord'.handled => coord.blocked # "none"
    BY <1>4 DEF Settle, ChecksKnown
  <2>3. QED BY <2>1, <2>2 DEF ChecksKnown
<1>5. CASE Pass \/ FinalizeQuestion \/ FinalizeAnswer \/ StoreRun \/ Publish
  <2>1. UNCHANGED <<coord, check>> /\ Settled' /\ pc' # "settling"
        /\ pc' # "dead"
    BY <1>5 DEF Pass, FinalizeQuestion, FinalizeAnswer, FinalizeMessage,
                StoreRun, Publish, Settled
  <2>2. QED BY <2>1 DEF ChecksKnown
<1>6. CASE \E c \in Checks : Work(c)
  <2>1. PICK c \in Checks : Work(c) BY <1>6
  <2>2. check \in Progress BY DEF TypeInv, TypeOK
  <2>3. CASE Clear(c)
    <3>1. \A d \in Checks : d # c => check'[d] = check[d]
      BY <2>2, <2>3 DEF Clear, Progress
    <3>2. CASE check'[c] = "clean" /\ UNCHANGED coord
      BY <2>3, <3>1, <3>2 DEF Clear, ChecksKnown, Settled
    <3>3. CASE /\ check'[c] = "failed"
               /\ coord' = [coord EXCEPT !.failedOpen = @ \/ ~Settled]
      <4>1. /\ coord'.blocked = coord.blocked
            /\ coord'.handled = coord.handled
            /\ coord.failedOpen \/ ~Settled => coord'.failedOpen
        BY <3>3 DEF TypeInv, TypeOK, Flags
      <4>2. QED BY <2>3, <3>1, <3>3, <4>1 DEF Clear, ChecksKnown, Settled
    <3>4. QED BY <2>2, <2>3, <3>2, <3>3 DEF Clear, Progress
  <2>4. CASE Find(c)
    <3>1. check'[c] = "hit" /\ \A d \in Checks : d # c => check'[d] = check[d]
      BY <2>2, <2>4 DEF Find, Progress
    <3>2. QED BY <2>4, <3>1 DEF Find, ChecksKnown, Settled
  <2>5. CASE Report(c)
    <3>1. /\ check'[c] \in {"interrupt", "reported"}
          /\ \A d \in Checks : d # c => check'[d] = check[d]
      BY <2>2, <2>5 DEF Report, Progress
    <3>2. /\ coord'.blocked # "none"
          /\ coord'.failedOpen = coord.failedOpen
      BY <2>5 DEF Report, Prefers, ChecksKnown, TypeInv, TypeOK, Flags,
                  Checks
    <3>3. UNCHANGED pc BY <2>5 DEF Report
    <3>4. pc # "dead" BY <2>5 DEF Report, ChecksKnown
    <3>5. QED BY <3>1, <3>2, <3>3, <3>4 DEF ChecksKnown, Settled
  <2>6. CASE c = "input" /\ Interrupt
    <3>1. /\ check'["input"] = "reported"
          /\ \A d \in Checks : d # "input" => check'[d] = check[d]
      BY <2>2, <2>6 DEF Interrupt, Progress, Checks
    <3>2. QED BY <2>6, <3>1 DEF Interrupt, ChecksKnown, Settled, Checks
  <2>7. QED BY <2>1, <2>3, <2>4, <2>5, <2>6 DEF Work
<1>7. CASE \E a \in Actors : Withdrawal(a)
  <2>1. PICK a \in Actors : Withdrawal(a) BY <1>7
  <2>2. UNCHANGED <<coord, check>>
    BY <2>1 DEF Withdrawal, Apply, Mark, Forget, Reset, Emit
  <2>3. pc' = pc \/ (a = "run" /\ by[a].step = "emit" /\ pc' = "finalizing")
    BY <2>1 DEF Withdrawal, Apply, Mark, Forget, Reset, Emit, At
  <2>4. pc' = pc \/ (Settled /\ Settled' /\ pc' = "finalizing")
    BY <2>3 DEF TypeInv, VerdictKnown, Settled
  <2>5. QED BY <2>2, <2>4 DEF ChecksKnown, Settled
<1>8. CASE Crash
  BY <1>8 DEF Crash, ChecksKnown, Settled
<1>9. QED
  BY <1>1, <1>2, <1>3, <1>4, <1>5, <1>6, <1>7, <1>8 DEF Next, Run

\* A recorded hit keeps its check, and only a verdict passes a run.
LEMMA HitsStay ==
  ASSUME TypeInv, CheckInv, Next
  PROVE  HitsKnown' /\ PassKnown'
<1>0. check \in Progress BY DEF TypeInv, TypeOK
<1>1. CASE Begin \/ EnqueueOutputs
  <2>1. PICK c \in Checks : Start(c) /\ check[c] = "none"
    BY <1>1 DEF Begin, EnqueueOutputs, Checks, CheckInv, HitsKnown
  <2>2. \A d \in Checks : d # c => check'[d] = check[d]
    BY <1>0, <2>1 DEF Start, Progress
  <2>3. UNCHANGED <<hits, verdict>> /\ pc # "dead" /\ ~Settled
    BY <1>1 DEF Begin, EnqueueOutputs, Settled, database
  <2>4. verdict' # "passed"
    BY <2>3 DEF TypeInv, VerdictKnown
  <2>5. row' # "passed"
    BY <1>1, <2>3, <2>4
       DEF Begin, EnqueueOutputs, database, CheckInv, PassKnown
  <2>6. hits' # <<>> => \E d \in Checks : Hit(d)'
    BY <2>1, <2>2, <2>3 DEF CheckInv, HitsKnown, Hit
  <2>7. /\ pc' \in {"generating", "waiting"}
        /\ pc' = "generating" => check'["output"] = "none"
    BY <1>1, <1>0 DEF Begin, EnqueueOutputs, CheckInv, HitsKnown, Start,
                      Checks, Progress
  <2>8. HitsKnown' BY <2>6, <2>7 DEF HitsKnown
  <2>9. PassKnown' BY <2>4, <2>5 DEF PassKnown, PassedIsChecked
  <2>10. QED BY <2>8, <2>9
<1>2. CASE \/ Generate \/ Look \/ EndGeneration \/ Barrier \/ Wait
           \/ \E a \in Actors : Withdrawal(a)
  <2>1. /\ UNCHANGED <<check, hits, verdict>>
        /\ row' # "passed" \/ row' = row
        /\ pc' = "dead" <=> pc = "dead"
        /\ pc' \in {"begin", "generating", "barrier", "enqueue"} =>
             pc \in {"begin", "generating", "barrier", "enqueue"}
        /\ pc' = "begin" => pc = "begin"
    <3>1. CASE Generate \/ EndGeneration \/ Barrier \/ Wait
      BY <3>1 DEF Generate, EndGeneration, Barrier, Wait, SetState, database
    <3>2. CASE Look
      BY <3>2 DEF Look, Retry, FindStale, LookUp, GiveUp, SetState, database
    <3>3. CASE \E a \in Actors : Withdrawal(a)
      <4>1. PICK a \in Actors : Withdrawal(a) BY <3>3
      <4>2. pc' = pc \/ (pc = "withdrawing" /\ pc' = "finalizing")
        BY <4>1 DEF Withdrawal, Apply, Mark, Forget, Reset, Emit, At,
                    TypeInv, VerdictKnown
      <4>3. /\ UNCHANGED <<check, hits, verdict>>
            /\ row' # "passed" \/ row' = row
        BY <4>1 DEF Withdrawal, Apply, Mark, Forget, Reset, Emit, Withdraw,
                    SetState, database
      <4>4. QED BY <4>2, <4>3
    <3>4. QED BY <1>2, <3>1, <3>2, <3>3
  <2>2. HitsKnown' BY <2>1 DEF CheckInv, HitsKnown, Hit
  <2>3. PassKnown' BY <2>1 DEF CheckInv, PassKnown, PassedIsChecked
  <2>4. QED BY <2>2, <2>3
<1>3. CASE Settle
  <2>1. UNCHANGED <<check, hits, row>> /\ pc' \in {"withdrawing", "passing"}
        /\ pc = "settling"
    BY <1>3 DEF Settle, database
  <2>2. HitsKnown' BY <2>1 DEF CheckInv, HitsKnown, Hit
  <2>3. verdict = "open"
    BY <2>1 DEF TypeInv, VerdictKnown, Settled
  <2>4. row # "passed" BY <2>1, <2>3 DEF CheckInv, PassKnown
  <2>5. verdict' = "passed" => \A c \in Checks : check'[c] \in {"none", "clean"}
    <3>1. SUFFICES ASSUME verdict' = "passed", NEW c \in Checks
                   PROVE  check[c] \in {"none", "clean"}
      BY <2>1
    <3>2. ~coord.failedOpen /\ coord.blocked = "none"
      BY <1>3, <3>1 DEF Settle, TypeInv, TypeOK, Flags, Checks
    <3>3. check[c] \notin {"failed", "interrupt", "reported", "queued", "hit"}
      BY <2>1, <3>2 DEF CheckInv, ChecksKnown, Settled
    <3>4. QED BY <1>0, <3>3 DEF Progress
  <2>6. PassKnown' BY <2>1, <2>4, <2>5 DEF PassKnown, PassedIsChecked
  <2>7. QED BY <2>2, <2>6
<1>4. CASE Pass \/ FinalizeQuestion \/ FinalizeAnswer \/ StoreRun \/ Publish
  <2>1. /\ UNCHANGED <<check, hits, verdict>>
        /\ row' = "passed" => row = "passed" \/ verdict = "passed"
        /\ pc # "dead"
        /\ pc' \in {"finalizing", "closing", "storing", "publishing", "done"}
    BY <1>4 DEF Pass, FinalizeQuestion, FinalizeAnswer, FinalizeMessage,
                StoreRun, Publish, SetState, database
  <2>2. HitsKnown' BY <2>1 DEF CheckInv, HitsKnown, Hit
  <2>3. verdict = "passed" => hits = <<>>
    BY <2>1 DEF CheckInv, HitsKnown, Hit, PassKnown, PassedIsChecked
  <2>4. PassKnown' BY <2>1, <2>3 DEF CheckInv, PassKnown, PassedIsChecked
  <2>5. QED BY <2>2, <2>4
<1>5. CASE \E c \in Checks : Work(c)
  <2>1. PICK c \in Checks : Work(c) BY <1>5
  <2>2. /\ check[c] \in {"queued", "hit", "interrupt"}
        /\ UNCHANGED <<pc, verdict, row>>
    BY <2>1 DEF Work, Clear, Find, Report, Interrupt, database
  <2>3. /\ \A d \in Checks : d # c => check'[d] = check[d]
        /\ check'[c] \in {"clean", "failed", "hit", "interrupt", "reported"}
        /\ Hit(c) => Hit(c)'
        /\ hits' = hits \/ Hit(c)'
    BY <1>0, <2>1 DEF Work, Clear, Find, Report, Interrupt, Hit, Progress,
                      database, Checks
  <2>4. pc # "dead" /\ verdict # "passed" /\ row # "passed"
    BY <2>2 DEF CheckInv, ChecksKnown, PassKnown, PassedIsChecked
  <2>5. /\ pc # "begin" \/ c # "input"
        /\ pc \in {"begin", "generating", "barrier", "enqueue"} =>
             c # "output"
    BY <2>2 DEF CheckInv, HitsKnown
  <2>6. HitsKnown'
    <3>1. hits' # <<>> => \E d \in Checks : Hit(d)'
      <4>1. CASE Hit(c)' BY <4>1
      <4>2. CASE hits' = hits
        BY <2>3, <2>4, <4>2 DEF CheckInv, HitsKnown, Hit
      <4>3. QED BY <2>3, <4>1, <4>2
    <3>2. QED BY <2>2, <2>3, <2>5, <3>1 DEF CheckInv, HitsKnown, Checks
  <2>7. PassKnown' BY <2>2, <2>4 DEF PassKnown, PassedIsChecked
  <2>8. QED BY <2>6, <2>7
<1>6. CASE Crash
  <2>1. /\ UNCHANGED <<hits, row>> /\ pc' = "dead" /\ verdict' = "open"
    BY <1>6 DEF Crash, database
  <2>2. HitsKnown' BY <2>1 DEF HitsKnown
  <2>3. PassKnown' BY <2>1 DEF CheckInv, PassKnown, PassedIsChecked
  <2>4. QED BY <2>2, <2>3
<1>7. QED
  BY <1>1, <1>2, <1>3, <1>4, <1>5, <1>6 DEF Next, Run

\* A run passes only when its checks have come back clean.
THEOREM NothingUncheckedPasses == Spec => []PassedIsChecked
<1>1. Init => CheckInv
  BY DEF Init, CheckInv, ChecksKnown, HitsKnown, PassKnown, PassedIsChecked,
         Settled, Checks
<1>2. TypeInv /\ CheckInv /\ [Next]_vars => CheckInv'
  <2>1. SUFFICES ASSUME TypeInv, CheckInv, [Next]_vars PROVE CheckInv'
    OBVIOUS
  <2>2. CASE UNCHANGED vars
    BY <2>1, <2>2 DEF vars, CheckInv, ChecksKnown, HitsKnown, PassKnown,
                      PassedIsChecked, Settled, Hit
  <2>3. CASE Next
    <3>1. ChecksKnown BY <2>1 DEF CheckInv
    <3>2. QED BY <2>1, <2>3, <3>1, ChecksStay, HitsStay DEF CheckInv
  <2>4. QED BY <2>1, <2>2, <2>3
<1>3. CheckInv => PassedIsChecked BY DEF CheckInv, PassKnown
<1>4. QED BY <1>1, <1>2, <1>3, ModerationTypes, PTL DEF Spec

\* The moves of a withdrawal: what it has done and where it is afterwards.
LEMMA WithdrawalMoves ==
  ASSUME TypeInv, NEW a \in Actors, Withdrawal(a)
  PROVE  /\ by[a].step # "idle"
         /\ \A b \in Actors : b # a => by'[b] = by[b]
         /\ UNCHANGED verdict
         /\ \/ pc' = pc /\ by'[a].step # "emit" /\ UNCHANGED stream
            \/ pc' = pc /\ by'[a].step = "emit" /\ stream' = {}
            \/ /\ by[a].step = "emit" /\ by'[a].step = "idle"
               /\ stream' = stream \cup {"notice"}
               /\ pc' = IF a = "run" THEN "finalizing" ELSE pc
<1>1. by \in Withdrawals BY DEF TypeInv, TypeOK
<1>2. PICK step \in {"idle", "mark", "remove", "reset", "emit"} : Go(a, step)
  BY DEF Withdrawal, Apply, Mark, Forget, Reset, Emit
<1>3. by'[a].step = step /\ \A b \in Actors : b # a => by'[b] = by[b]
  BY <1>1, <1>2, GoMoves DEF Steps
<1>4. CASE Apply(a) \/ Mark(a) \/ Forget(a)
  <2>1. pc' = pc /\ UNCHANGED <<stream, verdict>> /\ by[a].step # "idle"
    BY <1>4 DEF Apply, Mark, Forget, At
  <2>2. PICK next \in {"idle", "mark", "remove", "reset"} : Go(a, next)
    BY <1>4 DEF Apply, Mark, Forget
  <2>3. by'[a].step = next
    BY <1>1, <2>2, GoMoves DEF Steps
  <2>4. QED BY <1>3, <2>1, <2>3
<1>5. CASE Reset(a)
  <2>1. Go(a, "emit") BY <1>5 DEF Reset
  <2>2. by'[a].step = "emit" BY <1>1, <2>1, GoMoves DEF Steps
  <2>3. QED BY <1>3, <1>5, <2>2 DEF Reset, At
<1>6. CASE Emit(a)
  <2>1. Go(a, "idle") BY <1>6 DEF Emit
  <2>2. by'[a].step = "idle" BY <1>1, <2>1, GoMoves DEF Steps
  <2>3. QED BY <1>3, <1>6, <2>2 DEF Emit, At
<1>7. QED BY <1>4, <1>5, <1>6 DEF Withdrawal

\* What a withdrawal does to the text and to the withdrawal that is kept.
LEMMA WithdrawalHolds ==
  ASSUME TypeInv, WithdrawalKnown, NEW a \in Actors, Withdrawal(a)
  PROVE  /\ message.text = "withdrawn" => message'.text = "withdrawn"
         /\ by'[a].step = "remove" => message'.text = "withdrawn"
         /\ pending # "none" =>
              pending' # "none" \/ message'.text = "withdrawn"
         /\ by[a].step = "apply" /\ a # "recovery" =>
              message'.text = "withdrawn" \/ pending' # "none" \/ ~by[a].keep
         /\ by'[a].step # "apply"
         /\ row' = "blocked" => row = "blocked" \/ message'.text = "withdrawn"
<1>1. by \in Withdrawals BY DEF TypeInv, TypeOK
<1>2. by[a].of \in Checks /\ by[a].of # "none"
  BY <1>1 DEF Withdrawals, Checks
<1>3. CASE Apply(a)
  <2>1. CASE Withdraw(by[a].of) /\ Go(a, "remove") /\ UNCHANGED pending
    <3>1. message'.text = "withdrawn"
      BY <1>2, <2>1, WithdrawTypes DEF TypeInv
    <3>2. by'[a].step = "remove" BY <1>1, <2>1, GoMoves DEF Steps
    <3>3. QED BY <2>1, <3>1, <3>2
  <2>2. CASE /\ pending' = IF by[a].keep THEN by[a].of ELSE pending
             /\ Go(a, IF a = "recovery" THEN "idle"
                      ELSE IF a \in Checks THEN "mark" ELSE "reset")
             /\ UNCHANGED <<row, message>>
    <3>1. by'[a].step \in {"idle", "mark", "reset"}
      BY <1>1, <2>2, GoMoves DEF Steps
    <3>2. QED BY <1>2, <2>2, <3>1
  <2>3. QED BY <1>3, <2>1, <2>2 DEF Apply
<1>4. CASE Mark(a)
  <2>1. by'[a].step = "reset" BY <1>1, <1>4, GoMoves DEF Mark, Steps
  <2>2. QED BY <1>4, <2>1 DEF Mark, SetState, At
<1>5. CASE Forget(a)
  <2>1. by'[a].step \in {"reset", "idle"}
    BY <1>1, <1>5, GoMoves DEF Forget, Steps
  <2>2. message.text = "withdrawn" BY <1>5 DEF Forget, At, WithdrawalKnown
  <2>3. QED BY <1>5, <2>1, <2>2 DEF Forget, At, database
<1>6. CASE Reset(a)
  <2>1. by'[a].step = "emit" BY <1>1, <1>6, GoMoves DEF Reset, Steps
  <2>2. QED BY <1>6, <2>1 DEF Reset, At, database
<1>7. CASE Emit(a)
  <2>1. by'[a].step = "idle" BY <1>1, <1>7, GoMoves DEF Emit, Steps
  <2>2. QED BY <1>7, <2>1 DEF Emit, At, database
<1>8. QED BY <1>3, <1>4, <1>5, <1>6, <1>7 DEF Withdrawal

\* What a step of the run or of the recovery leaves of a withdrawal.
LEMMA RunHolds ==
  ASSUME TypeInv, WithdrawalKnown, Run
  PROVE  WithdrawalKnown' /\ (message.text = "withdrawn" =>
                                message'.text = "withdrawn")
<1>1. CASE Begin \/ Barrier \/ EnqueueOutputs \/ Wait
  <2>1. /\ UNCHANGED <<by, pending, message, verdict>>
        /\ Early /\ Early'
        /\ row' # "blocked" \/ row' = row
    BY <1>1 DEF Begin, Barrier, EnqueueOutputs, Wait, Early, SetState, database
  <2>2. ~Settled' BY <2>1 DEF Early, Settled
  <2>3. pc # "dead" BY <2>1 DEF Early
  <2>4. QED BY <2>1, <2>2, <2>3 DEF WithdrawalKnown, BlockedIsWithdrawn, Decided
<1>2. CASE EndGeneration
  <2>1. /\ UNCHANGED <<by, pending, row>> /\ Early /\ Early' /\ pc # "dead"
        /\ ~Settled'
    BY <1>2 DEF EndGeneration, Early, Settled
  <2>2. message.text # "withdrawn" /\ pending = "none" /\ row # "blocked"
    BY <2>1 DEF WithdrawalKnown, BlockedIsWithdrawn
  <2>3. message'.text # "withdrawn"
    BY <1>2, <2>2 DEF EndGeneration, TypeInv, TypeOK, Messages
  <2>4. QED BY <2>1, <2>2, <2>3 DEF WithdrawalKnown, BlockedIsWithdrawn
<1>3. CASE Settle
  <2>1. /\ UNCHANGED <<pending, message, row>> /\ ~Early' /\ pc # "dead"
        /\ Early /\ "run" \in Actors
    BY <1>3 DEF Settle, Early, database, Actors
  <2>2. CASE coord.blocked # "none"
    <3>1. coord.blocked \in Checks /\ TRUE \in BOOLEAN /\ by \in Withdrawals
      BY <2>2 DEF TypeInv, TypeOK, Flags
    <3>2. /\ by'["run"].step = "apply" /\ by'["run"].keep
          /\ \A b \in Actors : b # "run" => by'[b] = by[b]
      BY <1>3, <2>1, <2>2, <3>1 DEF Settle, Withdrawals
    <3>3. pc' = "withdrawing" BY <1>3, <2>2 DEF Settle
    <3>4. \A a \in Actors : by'[a].step # "remove"
      BY <2>1, <3>2 DEF WithdrawalKnown
    <3>5. QED
      BY <2>1, <3>2, <3>3, <3>4 DEF WithdrawalKnown, BlockedIsWithdrawn
  <2>3. CASE coord.blocked = "none"
    <3>1. /\ UNCHANGED by /\ ~Decided'
      BY <1>3, <2>3 DEF Settle, Decided, Checks
    <3>2. QED BY <2>1, <3>1 DEF WithdrawalKnown, BlockedIsWithdrawn
  <2>4. QED BY <2>2, <2>3
<1>4. CASE Pass \/ FinalizeQuestion \/ FinalizeAnswer \/ Publish
  <2>1. /\ UNCHANGED <<by, pending, verdict>> /\ pc # "dead"
        /\ ~Early' /\ Settled /\ pc # "withdrawing"
    BY <1>4 DEF Pass, FinalizeQuestion, FinalizeAnswer, FinalizeMessage,
                Publish, Early, Settled
  <2>2. message'.text = message.text
    <3>1. CASE FinalizeQuestion
      BY <3>1 DEF FinalizeQuestion, FinalizeMessage, TypeInv, TypeOK, Messages
    <3>2. CASE FinalizeAnswer
      BY <3>2 DEF FinalizeAnswer, FinalizeMessage, TypeInv, TypeOK, Messages
    <3>3. QED BY <1>4, <3>1, <3>2 DEF Pass, Publish, database
  <2>3. row' # "blocked" \/ row' = row
    BY <1>4 DEF Pass, FinalizeQuestion, FinalizeAnswer, FinalizeMessage,
                Publish, SetState, TypeInv, VerdictKnown, database
  <2>4. QED
    BY <2>1, <2>2, <2>3 DEF WithdrawalKnown, BlockedIsWithdrawn, Decided
<1>5. CASE StoreRun
  <2>1. /\ UNCHANGED <<by, pending, verdict, message>> /\ pc = "storing"
        /\ pc' = "publishing"
    BY <1>5 DEF StoreRun
  <2>2. ~Early' /\ Settled BY <2>1 DEF Early, Settled
  <2>3. row' # "blocked" \/ row' = row \/ Decided
    BY <1>5, <2>2 DEF StoreRun, Decided, TypeInv, TypeOK, Checks
  <2>4. Decided => message.text = "withdrawn" \/ pending # "none"
    BY <2>1, <2>2 DEF WithdrawalKnown
  <2>5. QED
    BY <2>1, <2>2, <2>3, <2>4 DEF WithdrawalKnown, BlockedIsWithdrawn, Decided
<1>6. QED BY <1>1, <1>2, <1>3, <1>4, <1>5 DEF Run

\* What the others leave of it: a worker, the recovery, the end of a process.
LEMMA OthersHold ==
  ASSUME TypeInv, WithdrawalKnown,
         Generate \/ Look \/ Crash \/ \E c \in Checks : Work(c)
  PROVE  WithdrawalKnown' /\ (message.text = "withdrawn" =>
                                message'.text = "withdrawn")
<1>0. by \in Withdrawals BY DEF TypeInv, TypeOK
<1>1. CASE Generate
  BY <1>1 DEF Generate, database, WithdrawalKnown, BlockedIsWithdrawn, Early,
              Settled, Decided
<1>2. CASE Look
  <2>1. /\ UNCHANGED <<pending, message, pc, verdict>>
        /\ row' # "blocked" \/ row' = row
    BY <1>2 DEF Look, Retry, FindStale, LookUp, GiveUp, SetState, database
  <2>2. ~Early
    <3>1. CASE Retry BY <3>1 DEF Retry, WithdrawalKnown
    <3>2. CASE FindStale BY <3>2 DEF FindStale, Live, Early
    <3>3. CASE LookUp \/ GiveUp
      BY <3>3 DEF LookUp, GiveUp, At, WithdrawalKnown, Actors
    <3>4. QED BY <1>2, <3>1, <3>2, <3>3 DEF Look
  <2>3. /\ by'["recovery"].step # "remove"
        /\ \A b \in Actors : b # "recovery" => by'[b] = by[b]
    <3>1. "recovery" \in Actors BY DEF Actors
    <3>2. CASE Retry
      BY <1>0, <3>1, <3>2 DEF Retry, Recover, Withdrawals
    <3>3. CASE FindStale
      BY <1>0, <3>1, <3>3, GoMoves DEF FindStale, Steps
    <3>4. CASE GiveUp
      BY <1>0, <3>1, <3>4, GoMoves DEF GiveUp, Steps
    <3>5. CASE LookUp
      <4>1. CASE \E step \in {"idle", "give up"} : Go("recovery", step)
        BY <1>0, <3>1, <4>1, GoMoves DEF Steps
      <4>2. CASE Recover("apply", hits[Len(hits)], pending = "none", TRUE)
        BY <1>0, <3>1, <4>2 DEF Recover, Withdrawals
      <4>3. QED BY <3>5, <4>1, <4>2 DEF LookUp
    <3>6. QED BY <1>2, <3>2, <3>3, <3>4, <3>5 DEF Look
  <2>4. by'["run"] = by["run"] BY <2>3 DEF Actors
  <2>5. QED
    BY <2>1, <2>2, <2>3, <2>4 DEF WithdrawalKnown, BlockedIsWithdrawn, Early,
                                  Settled, Decided
<1>3. CASE \E c \in Checks : Work(c)
  <2>1. PICK c \in Checks : Work(c) BY <1>3
  <2>2. UNCHANGED <<pending, message, row, pc, verdict>>
    BY <2>1 DEF Work, Clear, Find, Report, Interrupt, database
  <2>3. c \in Actors /\ c # "run" BY DEF Actors, Checks
  <2>4. CASE UNCHANGED by
    BY <2>2, <2>4 DEF WithdrawalKnown, BlockedIsWithdrawn, Early, Settled,
                      Decided
  <2>5. CASE by # by'
    <3>1. /\ by' = [by EXCEPT ![c] = [step |-> "apply", of |-> c,
                                      tell |-> TRUE, keep |-> TRUE]]
          /\ Settled
      BY <2>1, <2>5 DEF Work, Clear, Find, Report, Interrupt
    <3>2. /\ by'[c].step # "remove"
          /\ \A b \in Actors : b # c => by'[b] = by[b]
      BY <1>0, <2>3, <3>1 DEF Withdrawals
    <3>3. ~Early BY <3>1 DEF Settled, Early
    <3>4. by'["run"] = by["run"] BY <2>3, <3>2 DEF Actors
    <3>5. QED
      BY <2>2, <3>2, <3>3, <3>4 DEF WithdrawalKnown, BlockedIsWithdrawn,
                                    Early, Settled, Decided
  <2>6. QED BY <2>4, <2>5
<1>4. CASE Crash
  <2>1. /\ UNCHANGED message /\ pc' = "dead" /\ verdict' = "open"
        /\ by' = [a \in Actors |-> Idle]
    BY <1>4 DEF Crash, database
  <2>2. ~Early' /\ ~Settled' /\ \A a \in Actors : by'[a].step = "idle"
    BY <2>1 DEF Early, Settled, Idle
  <2>3. "run" \in Actors BY DEF Actors
  <2>4. QED BY <2>1, <2>2, <2>3 DEF WithdrawalKnown, BlockedIsWithdrawn
<1>5. QED BY <1>1, <1>2, <1>3, <1>4

\* What is withdrawn stays so, and what is to be withdrawn is not lost.
LEMMA WithdrawalsStay ==
  ASSUME TypeInv, WithdrawalKnown, Next
  PROVE  WithdrawalKnown' /\ (message.text = "withdrawn" =>
                                message'.text = "withdrawn")
<1>1. CASE \E a \in Actors : Withdrawal(a)
  <2>1. PICK a \in Actors : Withdrawal(a) BY <1>1
  <2>2. ~Early BY <2>1, WithdrawalMoves DEF WithdrawalKnown
  <2>3. ~Early'
    BY <2>1, <2>2, WithdrawalMoves DEF Early
  <2>4. /\ by'[a].step # "apply"
        /\ \A b \in Actors : b # a => by'[b] = by[b]
        /\ message.text = "withdrawn" => message'.text = "withdrawn"
        /\ by'[a].step = "remove" => message'.text = "withdrawn"
        /\ pending # "none" =>
             pending' # "none" \/ message'.text = "withdrawn"
        /\ by[a].step = "apply" /\ a # "recovery" =>
             message'.text = "withdrawn" \/ pending' # "none" \/ ~by[a].keep
        /\ row' = "blocked" => row = "blocked" \/ message'.text = "withdrawn"
        /\ UNCHANGED verdict
        /\ pc' = pc \/ (a = "run" /\ by[a].step = "emit" /\ pc' = "finalizing")
    BY <2>1, WithdrawalMoves, WithdrawalHolds
  <2>5. \A b \in Actors : by'[b].step = "remove" => message'.text = "withdrawn"
    BY <2>4 DEF WithdrawalKnown
  <2>6. by'["run"].step = "apply" => by'["run"].keep
    BY <2>4 DEF WithdrawalKnown, Actors
  <2>7. /\ Settled <=> Settled'
        /\ pc' = "withdrawing" => pc = "withdrawing"
        /\ pc' # "dead" => pc # "dead"
    BY <2>4 DEF Settled, TypeInv, VerdictKnown
  <2>8. BlockedIsWithdrawn'
    BY <2>4, <2>7 DEF WithdrawalKnown, BlockedIsWithdrawn
  <2>9. Decided' /\ Settled' /\ (pc' = "withdrawing" => by'["run"].step # "apply")
          => message'.text = "withdrawn" \/ pending' # "none"
    <3>1. SUFFICES ASSUME Decided', Settled',
                          pc' = "withdrawing" => by'["run"].step # "apply"
                   PROVE  message'.text = "withdrawn" \/ pending' # "none"
      OBVIOUS
    <3>2. Decided /\ Settled BY <2>4, <2>7, <3>1 DEF Decided
    <3>3. CASE pc = "withdrawing" /\ by["run"].step = "apply"
      <4>1. a = "run"
        <5>1. SUFFICES ASSUME a # "run" PROVE FALSE OBVIOUS
        <5>2. pc' = pc /\ by'["run"] = by["run"]
          BY <2>4, <5>1 DEF Actors
        <5>3. QED BY <3>1, <3>3, <5>2
      <4>2. by[a].keep BY <3>3, <4>1 DEF WithdrawalKnown
      <4>3. QED BY <2>4, <3>3, <4>1, <4>2
    <3>4. CASE pc # "withdrawing" \/ by["run"].step # "apply"
      <4>1. message.text = "withdrawn" \/ pending # "none"
        BY <3>2, <3>4 DEF WithdrawalKnown
      <4>2. QED BY <2>4, <4>1
    <3>5. QED BY <3>3, <3>4
  <2>10. QED
    BY <2>3, <2>4, <2>5, <2>6, <2>8, <2>9 DEF WithdrawalKnown
<1>2. QED BY <1>1, RunHolds, OthersHold DEF Next

\* Nothing of a withdrawn answer comes back into the stream.
LEMMA StreamStays ==
  ASSUME TypeInv, StreamKnown, Next
  PROVE  StreamKnown'
<1>0. "run" \in Actors /\ by \in Withdrawals BY DEF TypeInv, TypeOK, Actors
<1>1. CASE Begin \/ EndGeneration \/ Barrier \/ EnqueueOutputs \/ Wait
  <2>1. UNCHANGED <<by, stream, verdict>> /\ ~Settled'
    BY <1>1 DEF Begin, EndGeneration, Barrier, EnqueueOutputs, Wait, Settled
  <2>2. QED BY <2>1 DEF StreamKnown, BarrierHides
<1>2. CASE Generate
  <2>1. UNCHANGED by /\ pc = "generating" /\ pc' = "generating"
    BY <1>2 DEF Generate
  <2>2. by["run"].step # "emit" BY <2>1 DEF TypeInv, VerdictKnown
  <2>3. QED BY <2>1, <2>2 DEF StreamKnown, BarrierHides, Settled
<1>3. CASE Settle
  <2>1. pc' = "withdrawing" \/ ~Decided'
    BY <1>3 DEF Settle, Decided, Checks
  <2>2. by'["run"].step # "emit"
    <3>1. CASE UNCHANGED by
      BY <1>3, <3>1 DEF Settle, TypeInv, VerdictKnown
    <3>2. CASE by' # by
      BY <1>0, <1>3, <3>2 DEF Settle, Withdrawals
    <3>3. QED BY <3>1, <3>2
  <2>3. QED BY <2>1, <2>2 DEF StreamKnown, BarrierHides
<1>4. CASE Pass \/ FinalizeQuestion \/ FinalizeAnswer \/ StoreRun \/ Publish
  <2>1. /\ UNCHANGED <<by, verdict>> /\ Settled /\ pc # "withdrawing"
        /\ Decided => UNCHANGED stream
    BY <1>4 DEF Pass, FinalizeQuestion, FinalizeAnswer, FinalizeMessage,
                StoreRun, Publish, Settled
  <2>2. by["run"].step = "idle" BY <2>1 DEF TypeInv, VerdictKnown
  <2>3. QED BY <2>1, <2>2 DEF StreamKnown, BarrierHides, Decided
<1>5. CASE Look \/ \E c \in Checks : Work(c)
  <2>1. UNCHANGED <<pc, verdict, stream>>
    BY <1>5 DEF Look, Retry, FindStale, LookUp, GiveUp, Work, Clear, Find,
                Report, Interrupt
  <2>2. by'["run"] = by["run"]
    <3>1. CASE Look
      <4>1. PICK w \in [step : STRING, of : Checks, tell : BOOLEAN,
                        keep : BOOLEAN] \cup {by'["recovery"]} :
              by' = [by EXCEPT !["recovery"] = w] \/ by' = by
        BY <1>0, <3>1 DEF Look, Retry, FindStale, LookUp, GiveUp, Recover, Go,
                          Withdrawals, Actors
      <4>2. QED BY <1>0, <4>1 DEF Withdrawals
    <3>2. CASE \E c \in Checks : Work(c)
      <4>1. PICK c \in Checks : Work(c) BY <3>2
      <4>2. CASE UNCHANGED by BY <4>2
      <4>3. CASE by' # by
        <5>1. by' = [by EXCEPT ![c] = [step |-> "apply", of |-> c,
                                       tell |-> TRUE, keep |-> TRUE]]
          BY <4>1, <4>3 DEF Work, Clear, Find, Report, Interrupt
        <5>2. QED BY <1>0, <5>1 DEF Withdrawals, Checks
      <4>4. QED BY <4>2, <4>3
    <3>3. QED BY <1>5, <3>1, <3>2
  <2>3. QED BY <2>1, <2>2 DEF StreamKnown, BarrierHides, Settled, Decided
<1>6. CASE \E a \in Actors : Withdrawal(a)
  <2>1. PICK a \in Actors : Withdrawal(a) BY <1>6
  <2>2. /\ UNCHANGED verdict
        /\ \A b \in Actors : b # a => by'[b] = by[b]
        /\ \/ pc' = pc /\ by'[a].step # "emit" /\ UNCHANGED stream
           \/ pc' = pc /\ by'[a].step = "emit" /\ stream' = {}
           \/ /\ by[a].step = "emit" /\ by'[a].step = "idle"
              /\ stream' = stream \cup {"notice"}
              /\ pc' = IF a = "run" THEN "finalizing" ELSE pc
    BY <2>1, WithdrawalMoves
  <2>3. CASE pc' = pc
    <3>1. stream \subseteq {"notice"} => stream' \subseteq {"notice"}
      BY <2>2
    <3>2. by'["run"].step = "emit" => stream' \subseteq {"notice"}
      BY <2>2, <3>1, <1>0 DEF StreamKnown
    <3>3. QED
      BY <2>2, <2>3, <3>1, <3>2 DEF StreamKnown, BarrierHides, Settled, Decided
  <2>4. CASE pc' # pc
    <3>1. /\ a = "run" /\ by["run"].step = "emit" /\ by'["run"].step = "idle"
          /\ stream' = stream \cup {"notice"}
      BY <2>2, <2>4
    <3>2. stream' \subseteq {"notice"} BY <3>1 DEF StreamKnown
    <3>3. QED BY <3>1, <3>2 DEF StreamKnown, BarrierHides
  <2>5. QED BY <2>3, <2>4
<1>7. CASE Crash
  <2>1. pc' = "dead" /\ by' = [a \in Actors |-> Idle]
    BY <1>7 DEF Crash
  <2>2. by'["run"].step = "idle" BY <1>0, <2>1 DEF Idle
  <2>3. QED BY <2>1, <2>2 DEF StreamKnown, BarrierHides, Settled
<1>8. QED
  BY <1>1, <1>2, <1>3, <1>4, <1>5, <1>6, <1>7 DEF Next, Run

\* The withdrawals are known in every reachable state.
THEOREM WithdrawalsKnown == Spec => []WithdrawalKnown
<1>1. Init => WithdrawalKnown
  <2>1. SUFFICES ASSUME Init PROVE WithdrawalKnown OBVIOUS
  <2>2. "run" \in Actors /\ \A a \in Actors : by[a].step = "idle"
    BY <2>1 DEF Init, Idle, Actors
  <2>3. /\ pc = "begin" /\ pending = "none" /\ row = "none"
        /\ message.text = "none"
    BY <2>1 DEF Init
  <2>4. QED BY <2>2, <2>3 DEF WithdrawalKnown, BlockedIsWithdrawn, Settled
<1>2. TypeInv /\ WithdrawalKnown /\ [Next]_vars => WithdrawalKnown'
  <2>1. SUFFICES ASSUME TypeInv, WithdrawalKnown, [Next]_vars
                 PROVE  WithdrawalKnown'
    OBVIOUS
  <2>2. CASE UNCHANGED vars
    BY <2>1, <2>2 DEF vars, WithdrawalKnown, BlockedIsWithdrawn, Early,
                      Settled, Decided
  <2>3. CASE Next BY <2>1, <2>3, WithdrawalsStay
  <2>4. QED BY <2>1, <2>2, <2>3
<1>3. QED BY <1>1, <1>2, ModerationTypes, PTL DEF Spec

\* A withdrawal that has been recorded has been done, or will be tried again:
\* the actors that withdraw, fail and forget do not lose it between them.
THEOREM NoWithdrawalLost == Spec => []BlockedIsWithdrawn
<1>1. WithdrawalKnown => BlockedIsWithdrawn BY DEF WithdrawalKnown
<1>2. QED BY <1>1, WithdrawalsKnown, PTL

\* No write of the run, of a late worker or of the recovery brings the text
\* of a withdrawn answer back.
THEOREM WithdrawnTextStays == Spec => WithdrawnStays
<1>1. TypeInv /\ WithdrawalKnown /\ [Next]_vars =>
        [message.text = "withdrawn" => message'.text = "withdrawn"]_vars
  BY WithdrawalsStay
<1>2. QED
  BY <1>1, ModerationTypes, WithdrawalsKnown, PTL DEF Spec, WithdrawnStays

\* What the barrier has withdrawn is not retained for a client that resumes.
THEOREM WithdrawnIsNotRetained == Spec => []BarrierHides
<1>1. Init => StreamKnown
  BY DEF Init, StreamKnown, BarrierHides, Settled
<1>2. TypeInv /\ StreamKnown /\ [Next]_vars => StreamKnown'
  <2>1. SUFFICES ASSUME TypeInv, StreamKnown, [Next]_vars
                 PROVE  StreamKnown'
    OBVIOUS
  <2>2. CASE UNCHANGED vars
    BY <2>1, <2>2 DEF vars, StreamKnown, BarrierHides, Settled, Decided
  <2>3. CASE Next BY <2>1, <2>3, StreamStays
  <2>4. QED BY <2>1, <2>2, <2>3
<1>3. StreamKnown => BarrierHides BY DEF StreamKnown
<1>4. QED BY <1>1, <1>2, <1>3, ModerationTypes, PTL DEF Spec
=============================================================================
