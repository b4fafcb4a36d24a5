------------------------- MODULE Orchestrator_proofs -------------------------
(***************************************************************************)
(* Theorems about Orchestrator, for every set of issues, workers, states   *)
(* and configurations: types, claims and retries, caps, the refinement of  *)
(* ClaimLifecycle, what the mailbox does not lose, and, as long as no      *)
(* refresh was posted and no cancellation swallowed (Calm), the order in   *)
(* which exits, timers and ticks pass through it.                          *)
(***************************************************************************)
EXTENDS Orchestrator, FiniteSetTheorems, TLAPS

(***************************************************************************)
(* The locals of the suspended dispatcher: the awaits that resume with an  *)
(* issue have one, and so has every task that has not settled.             *)
(***************************************************************************)
LocalsOK ==
  /\ pc = "gate" => current \in Issue /\ eligible[current] \in State
  /\ pc = "retryFetch" => current \in Issue /\ popped \in Attempt
  /\ \A w \in Worker : phase[w] # "settled" => job[w] \in Issue

TInv == TypeOK /\ LocalsOK

(***************************************************************************)
(* Messages and the mailbox                                                *)
(***************************************************************************)
LEMMA MessageTypes ==
  /\ PollTick \in Message /\ Shutdown \in Message
  /\ \A i \in Issue : CodexUpdate(i) \in Message /\ RetryTimerFired(i) \in Message
  /\ \A c \in Config : ConfigReloaded(c) \in Message
  /\ \A i \in Issue, w \in Worker, ok \in BOOLEAN : WorkerExit(i, w, ok) \in Message
BY DEF Message, PollTick, Shutdown, CodexUpdate, RetryTimerFired, ConfigReloaded, WorkerExit

\* What the head of a non-empty mailbox carries, by its type.
LEMMA HeadFields ==
  ASSUME TypeOK, mailbox # <<>>
  PROVE  /\ Head(mailbox) \in Message /\ Tail(mailbox) \in Seq(Message)
         /\ Head(mailbox).type \in {"CodexUpdate", "RetryTimerFired", "WorkerExit"}
              => Head(mailbox).issue \in Issue
         /\ Head(mailbox).type = "WorkerExit" => Head(mailbox).ok \in BOOLEAN
         /\ Head(mailbox).type = "ConfigReloaded" => Head(mailbox).config \in Config
<1>1. Head(mailbox) \in Message /\ Tail(mailbox) \in Seq(Message)
  BY DEF TypeOK
<1>2. QED
  BY <1>1 DEF Message

\* The exits a reconciliation posts form a sequence of messages.
LEMMA StallExits ==
  ASSUME TypeOK, NEW order \in SetToSeqs(Stalled)
  PROVE  /\ order \in Seq(Issue)
         /\ [k \in DOMAIN order |-> StallExit(order[k])] \in Seq(Message)
         /\ \A k \in DOMAIN order : order[k] \in Running
         /\ DOMAIN order = 1..Len(order)
<1>1. Stalled \subseteq Running /\ Running \subseteq Issue
  BY DEF Stalled, Running
<1>2. Cardinality(Stalled) \in Nat
  BY <1>1, IssuesAssumption, FS_Subset, FS_CardinalityType
<1>3. order \in [1..Cardinality(Stalled) -> Stalled]
  BY DEF SetToSeqs
<1>4. \A i \in Running : StallExit(i) \in Message
  BY MessageTypes DEF StallExit, Running, TypeOK, RunningEntry
<1>5. order \in Seq(Issue) /\ DOMAIN order = 1..Len(order)
  BY <1>1, <1>2, <1>3
<1>6. [k \in DOMAIN order |-> StallExit(order[k])] \in Seq(Message)
  BY <1>1, <1>2, <1>3, <1>4
<1>7. QED
  BY <1>1, <1>3, <1>5, <1>6

\* Cancelling tasks revives none, and each of them is stopped, or was at the end
\* of its turn and swallows it.
LEMMA Cancelling ==
  ASSUME TypeOK, NEW ws \in SUBSET Worker, Cancel(ws)
  PROVE  /\ phase' \in [Worker -> Phase] /\ swallowed' \in SUBSET Worker
         /\ swallowed \subseteq swallowed'
         /\ \A w \in Worker : phase'[w] # "settled" => phase[w] # "settled"
         /\ \A w \in ws : phase'[w] \in {"cancelling", "settled"} \/ w \in swallowed'
<1>1. PICK deaf \in SUBSET {w \in ws : MayBeInAclose(w)} :
        /\ phase' = [w \in Worker |-> IF w \in ws \ deaf /\ phase[w] # "settled"
                                      THEN "cancelling" ELSE phase[w]]
        /\ swallowed' = swallowed \cup deaf
  BY DEF Cancel
<1>2. QED
  BY <1>1 DEF MayBeInAclose, TypeOK, Phase

\* The tasks that entries name are tasks.
LEMMA HandlesType == ASSUME TypeOK, NEW is \in SUBSET Running PROVE HandlesOf(is) \in SUBSET Worker
BY DEF HandlesOf, Running, TypeOK, RunningEntry

LEMMA TypeInit == Init => TInv
<1> SUFFICES ASSUME Init PROVE TInv
  OBVIOUS
<1>1. mailbox \in Seq(Message)
  BY MessageTypes DEF Init
<1>2. config \in Config /\ holder \in Config /\ maxAgents \in Nat
  BY ConfigAssumption DEF Init, ConfigType
<1>3. QED
  BY <1>1, <1>2, IssuesAssumption DEF Init, TInv, TypeOK, LocalsOK, PC, Phase

LEMMA TypeTick == ASSUME asleep' \in BOOLEAN PROVE TInv /\ Tick => TInv'
<1> SUFFICES ASSUME TInv, Tick PROVE TInv'
  OBVIOUS
<1> USE DEF TInv
<1>1. CASE ReconcileStalled
  <2>1. PICK order \in SetToSeqs(Stalled) :
          mailbox' = Tail(mailbox) \o [k \in DOMAIN order |-> StallExit(order[k])]
    BY <1>1 DEF ReconcileStalled
  <2>2. [k \in DOMAIN order |-> StallExit(order[k])] \in Seq(Message)
    BY <2>1, StallExits
  <2>3. Tail(mailbox) \in Seq(Message)
    BY <1>1, HeadFields DEF ReconcileStalled, Receive
  <2>4. mailbox' \in Seq(Message)
    BY <2>1, <2>2, <2>3
  <2>5. Cancel(HandlesOf(Stalled)) /\ HandlesOf(Stalled) \in SUBSET Worker
    BY <1>1, HandlesType DEF ReconcileStalled, Stalled
  <2>6. pc' \in {"fetch", "refresh"} /\ config' \in Config
    BY <1>1 DEF ReconcileStalled, LoadConfig, TypeOK
  <2>7. QED
    BY <1>1, <2>4, <2>5, <2>6, Cancelling DEF ReconcileStalled, TypeOK, LocalsOK,
       stateVars, outsideVars, PC
<1>2. CASE RefreshFails
  BY <1>2 DEF RefreshFails, LoadConfig, TypeOK, LocalsOK, stateVars, taskVars, outsideVars, PC
<1>3. CASE RefreshReturns
  <2>1. Cancel(HandlesOf(Gone)) /\ HandlesOf(Gone) \in SUBSET Worker
    BY <1>3, HandlesType DEF RefreshReturns, Gone
  <2>2. running' \in [Issue -> RunningEntry \cup {None}]
    <3>1. running' = [i \in Issue |-> IF i \in Running \ Gone
                        THEN [running[i] EXCEPT !.state = tracker[i]] ELSE running[i]]
      BY <1>3 DEF RefreshReturns
    <3>2. \A i \in Running : [running[i] EXCEPT !.state = tracker[i]] \in RunningEntry
      BY DEF Running, TypeOK, RunningEntry
    <3>3. QED
      BY <3>1, <3>2 DEF TypeOK
  <2>3. cleaning' \in SUBSET Issue
    BY <1>3 DEF RefreshReturns, Gone, Running, TypeOK
  <2>4. QED
    BY <1>3, <2>1, <2>2, <2>3, Cancelling DEF RefreshReturns, LoadConfig, TypeOK, LocalsOK,
       outsideVars, PC
<1>4. CASE FetchFails
  BY <1>4 DEF FetchFails, ScheduleNextTick, TypeOK, LocalsOK, stateVars, taskVars, outsideVars, PC
<1>5. CASE FetchReturns
  BY <1>5 DEF FetchReturns, TypeOK, LocalsOK, stateVars, taskVars, outsideVars, PC
<1>6. CASE EndTick
  BY <1>6 DEF EndTick, ScheduleNextTick, TypeOK, LocalsOK, stateVars, taskVars, outsideVars, PC
<1>7. CASE GateDenies
  BY <1>7 DEF GateDenies, LeaveGate, TypeOK, LocalsOK, stateVars, taskVars, outsideVars, PC
<1>8. ASSUME NEW i \in Issue, SkipFullIssue(i) PROVE TInv'
  BY <1>8 DEF SkipFullIssue, TypeOK, LocalsOK, stateVars, taskVars, outsideVars, PC
<1>9. ASSUME NEW i \in Issue, AskGate(i) PROVE TInv'
  BY <1>9 DEF AskGate, TypeOK, LocalsOK, stateVars, taskVars, outsideVars, PC
<1>10. ASSUME NEW w \in Worker, GateAllows(w) PROVE TInv'
  <2>1. current \in Issue /\ eligible[current] \in State /\ 1 \in Attempt
    BY <1>10, ConfigAssumption DEF GateAllows, LeaveGate, LocalsOK, Attempt
  <2>2. [worker |-> w, attempt |-> 1, state |-> eligible[current]] \in RunningEntry
    BY <2>1 DEF RunningEntry
  <2>3. QED
    BY <1>10, <2>1, <2>2 DEF GateAllows, LeaveGate, DispatchIssue, CancelRetry,
       TypeOK, LocalsOK, outsideVars, PC, Phase
<1>11. QED
  BY <1>1, <1>2, <1>3, <1>4, <1>5, <1>6, <1>7, <1>8, <1>9, <1>10 DEF Tick

\* The attempt of the next retry is one, also where the count saturates.
LEMMA NextAttemptType == \A a \in Attempt : NextAttempt(a) \in Attempt
BY ConfigAssumption DEF NextAttempt, Attempt

LEMMA TypeRetry == ASSUME asleep' \in BOOLEAN PROVE TInv /\ Retry => TInv'
<1> SUFFICES ASSUME TInv, Retry PROVE TInv'
  OBVIOUS
<1> USE DEF TInv
<1>1. CASE HandleRetryTimer
  <2>1. mailbox' \in Seq(Message) /\ Head(mailbox).issue \in Issue
    BY <1>1, HeadFields DEF HandleRetryTimer, Receive, Consume
  <2> DEFINE i == Head(mailbox).issue
  <2>2. CASE retry[i] = None
    BY <1>1, <2>1, <2>2 DEF HandleRetryTimer, TypeOK, LocalsOK, taskVars, outsideVars
  <2>3. CASE retry[i] # None
    <3>1. retry[i] \in RetryEntry /\ retry[i].attempt \in Attempt
      BY <2>1, <2>3 DEF TypeOK, RetryEntry
    <3>2. loose' \in SUBSET Issue /\ retry' \in [Issue -> RetryEntry \cup {None}]
      BY <1>1, <2>1, <2>3 DEF HandleRetryTimer, TypeOK
    <3>3. /\ claimed' \in SUBSET Issue
          /\ \/ pc' = "recv" /\ UNCHANGED <<current, popped>>
             \/ pc' = "retryFetch" /\ current' = i /\ popped' = retry[i].attempt
      BY <1>1, <2>1, <2>3 DEF HandleRetryTimer, Receive, Unclaim, TypeOK
    <3>4. QED
      BY <1>1, <2>1, <3>1, <3>2, <3>3 DEF HandleRetryTimer, TypeOK, LocalsOK,
         taskVars, outsideVars, PC
  <2>4. QED
    BY <2>2, <2>3
<1>2. CASE RetryFetchFails \/ RetryFindsNoSlot
  <2>1. EndRetry /\ Requeue
    BY <1>2 DEF RetryFetchFails, RetryFindsNoSlot
  <2>2. retry' \in [Issue -> RetryEntry \cup {None}]
    BY <2>1 DEF EndRetry, Requeue, Schedule, TypeOK, LocalsOK, RetryEntry
  <2>3. QED
    BY <2>1, <2>2 DEF EndRetry, Requeue, TypeOK, LocalsOK, taskVars, outsideVars, PC
<1>3. CASE RetryIssueAbsent
  BY <1>3 DEF RetryIssueAbsent, EndRetry, Unclaim, TypeOK, LocalsOK, taskVars, outsideVars, PC
<1>4. ASSUME NEW w \in Worker, RetryDispatches(w) PROVE TInv'
  <2>1. [worker |-> w, attempt |-> popped, state |-> tracker[current]] \in RunningEntry
    BY <1>4 DEF RetryDispatches, EndRetry, LocalsOK, TypeOK, RunningEntry
  <2>2. QED
    BY <1>4, <2>1 DEF RetryDispatches, EndRetry, DispatchIssue, CancelRetry,
       TypeOK, LocalsOK, outsideVars, PC, Phase
<1>5. QED
  BY <1>1, <1>2, <1>3, <1>4 DEF Retry

LEMMA TypeMessages ==
  ASSUME asleep' \in BOOLEAN
  PROVE  TInv /\ (HandleWorkerExit \/ HandleCodexUpdate \/ HandleConfigReloaded
                  \/ HandleShutdown \/ GracefulShutdown) => TInv'
<1> USE DEF TInv
<1>1. ASSUME TInv, HandleWorkerExit PROVE TInv'
  <2>1. mailbox' \in Seq(Message) /\ Head(mailbox).issue \in Issue
    BY <1>1, HeadFields DEF HandleWorkerExit, Receive, Consume
  <2>2. retry' \in [Issue -> RetryEntry \cup {None}]
    <3> DEFINE i == Head(mailbox).issue
    <3>1. CASE running[i] = None
      BY <1>1, <3>1 DEF HandleWorkerExit, TypeOK
    <3>2. CASE running[i] # None
      <4>1. NextAttempt(running[i].attempt) \in Attempt
        <5>1. running[i] \in RunningEntry
          BY <1>1, <2>1, <3>2 DEF TypeOK
        <5>2. running[i].attempt \in Attempt
          BY <5>1 DEF RunningEntry
        <5>3. QED
          BY <5>2, NextAttemptType
      <4>2. [attempt |-> NextAttempt(running[i].attempt), armed |-> TRUE] \in RetryEntry
        BY <4>1 DEF RetryEntry
      <4>3. Schedule(i, NextAttempt(running[i].attempt))
        BY <1>1, <3>2 DEF HandleWorkerExit
      <4>4. QED
        BY <1>1, <2>1, <4>2, <4>3 DEF Schedule, TypeOK
    <3>3. QED
      BY <3>1, <3>2
  <2>3. QED
    BY <1>1, <2>1, <2>2 DEF HandleWorkerExit, Unclaim, TypeOK, LocalsOK,
       dispVars, localVars, taskVars, outsideVars, Receive
<1>2. ASSUME TInv, HandleCodexUpdate PROVE TInv'
  BY <1>2, HeadFields DEF HandleCodexUpdate, Receive, Consume, TypeOK, LocalsOK,
     stateVars, dispVars, localVars, taskVars, outsideVars
<1>3. ASSUME TInv, HandleConfigReloaded PROVE TInv'
  <2>1. mailbox' \in Seq(Message) /\ Head(mailbox).config \in Config
    BY <1>3, HeadFields DEF HandleConfigReloaded, Receive, Consume
  <2>2. Head(mailbox).config.cap \in Nat
    BY <2>1, ConfigAssumption DEF ConfigType
  <2>3. QED
    BY <1>3, <2>1, <2>2 DEF HandleConfigReloaded, AdoptConfig, TypeOK, LocalsOK,
       dispVars, localVars, taskVars, outsideVars
<1>4. ASSUME TInv, HandleShutdown PROVE TInv'
  BY <1>4, HeadFields DEF HandleShutdown, StopLoop, Receive, Consume, TypeOK, LocalsOK,
     stateVars, taskVars, outsideVars, PC
<1>5. ASSUME TInv, GracefulShutdown PROVE TInv'
  <2>1. /\ Cancel(HandlesOf(Running)) /\ HandlesOf(Running) \in SUBSET Worker
        /\ retry' = [i \in Issue |-> None]
    BY <1>5, HandlesType DEF GracefulShutdown, CancelAllRetries, DrainWorkers
  <2>2. QED
    BY <1>5, <2>1, Cancelling DEF GracefulShutdown, TypeOK, LocalsOK, outsideVars, PC
<1>6. QED
  BY <1>1, <1>2, <1>3, <1>4, <1>5

LEMMA PostType == ASSUME TypeOK, NEW m \in Message, Post(m) PROVE mailbox' \in Seq(Message)
BY DEF TypeOK, Post

LEMMA TypeTimers == TInv /\ Timers => TInv'
<1> SUFFICES ASSUME TInv, Timers PROVE TInv'
  OBVIOUS
<1> USE DEF TInv
<1>1. CASE TickTimerFires
  BY <1>1, PostType, MessageTypes DEF TickTimerFires, TypeOK, LocalsOK,
     stateVars, dispVars, localVars, taskVars, outsideVars
<1>2. ASSUME NEW i \in Issue, RetryTimerFires(i) PROVE TInv'
  <2>1. mailbox' \in Seq(Message)
    BY <1>2, PostType, MessageTypes DEF RetryTimerFires
  <2>2. retry' \in [Issue -> RetryEntry \cup {None}]
    BY <1>2 DEF RetryTimerFires, TypeOK, RetryEntry
  <2>3. QED
    BY <1>2, <2>1, <2>2 DEF RetryTimerFires, TypeOK, LocalsOK, dispVars, localVars, taskVars, outsideVars
<1>3. ASSUME NEW i \in Issue, LooseTimerFires(i) PROVE TInv'
  <2>1. mailbox' \in Seq(Message)
    BY <1>3, PostType, MessageTypes DEF LooseTimerFires
  <2>2. QED
    BY <1>3, <2>1 DEF LooseTimerFires, TypeOK, LocalsOK, dispVars, localVars, taskVars, outsideVars
<1>4. ASSUME NEW i \in Issue, GoesQuiet(i) PROVE TInv'
  BY <1>4 DEF GoesQuiet, TypeOK, LocalsOK, stateVars, dispVars, localVars, taskVars, outsideVars
<1>5. QED
  BY <1>1, <1>2, <1>3, <1>4 DEF Timers

LEMMA TypeWorker == ASSUME NEW w \in Worker PROVE TInv /\ WorkerStep(w) => TInv'
<1> SUFFICES ASSUME TInv, WorkerStep(w) PROVE TInv'
  OBVIOUS
<1> USE DEF TInv
<1>1. ASSUME NEW i, NEW s \in State \cup {None}, Transition(i, s)
      PROVE  tracker' \in [Issue -> State]
  BY <1>1 DEF Transition, TypeOK
<1>2. CASE WorkerOpensTurn(w)
  <2>1. tracker' \in [Issue -> State]
    BY <1>1, <1>2, StatesAssumption DEF WorkerOpensTurn
  <2>2. QED
    BY <1>2, <2>1 DEF WorkerOpensTurn, TypeOK, LocalsOK, stateVars, dispVars, localVars, Phase
<1>3. CASE WorkerConcludes(w)
  <2>1. tracker' \in [Issue -> State]
    BY <1>1, <1>3, StatesAssumption DEF WorkerConcludes
  <2>2. QED
    BY <1>3, <2>1 DEF WorkerConcludes, TypeOK, LocalsOK, stateVars, dispVars, localVars, Phase
<1>4. ASSUME mailbox' \in Seq(Message), WorkerSettles(w) PROVE TInv'
  BY <1>4 DEF WorkerSettles, TypeOK, LocalsOK, stateVars, dispVars, localVars, outsideVars, Phase
<1>5. CASE CancelledWorkerSettles(w)
  BY <1>4, <1>5 DEF CancelledWorkerSettles, TypeOK
<1>6. CASE WorkerExits(w)
  <2>1. job[w] \in Issue
    BY <1>6 DEF WorkerExits, LocalsOK, TypeOK
  <2>2. WorkerExit(job[w], w, phase[w] = "succeeded") \in Message
    BY <2>1, MessageTypes
  <2>3. QED
    BY <1>4, <1>6, <2>2, PostType DEF WorkerExits
<1>7. CASE WorkerReports(w)
  <2>1. CodexUpdate(job[w]) \in Message
    BY <1>7, MessageTypes DEF WorkerReports, TypeOK
  <2>2. mailbox' \in Seq(Message)
    BY <1>7, <2>1, PostType DEF WorkerReports
  <2>3. QED
    BY <1>7, <2>2 DEF WorkerReports, TypeOK, LocalsOK, stateVars, dispVars, localVars, taskVars, outsideVars
<1>8. QED
  BY <1>2, <1>3, <1>5, <1>6, <1>7 DEF WorkerStep

LEMMA TypeOutside ==
  TInv /\ (Outside \/ \E i \in Issue : CleanupEnds(i)) => TInv'
<1> SUFFICES ASSUME TInv, Outside \/ \E i \in Issue : CleanupEnds(i) PROVE TInv'
  OBVIOUS
<1> USE DEF TInv
<1>1. CASE PostRefresh
  <2>1. mailbox' \in Seq(Message) /\ refreshes' \in 0..MaxRefresh
    BY <1>1, PostType, MessageTypes, IssuesAssumption DEF PostRefresh, TypeOK
  <2>2. QED
    BY <1>1, <2>1 DEF PostRefresh, TypeOK, LocalsOK, stateVars, dispVars, localVars, taskVars
<1>2. CASE RequestShutdown
  <2>1. mailbox' \in Seq(Message)
    BY <1>2, PostType, MessageTypes DEF RequestShutdown
  <2>2. QED
    BY <1>2, <2>1 DEF RequestShutdown, TypeOK, LocalsOK, stateVars, dispVars, localVars,
       taskVars, outsideVars
<1>3. ASSUME NEW c \in Config, ReloadWorkflow(c) PROVE TInv'
  <2>1. mailbox' \in Seq(Message)
    BY <1>3, PostType, MessageTypes DEF ReloadWorkflow
  <2>2. QED
    BY <1>3, <2>1 DEF ReloadWorkflow, TypeOK, LocalsOK, stateVars, dispVars, localVars, taskVars
<1>4. ASSUME NEW i \in Issue, NEW s \in State, UserMoves(i, s) PROVE TInv'
  BY <1>4 DEF UserMoves, TypeOK, LocalsOK, stateVars, dispVars, localVars, taskVars
<1>5. ASSUME NEW b \in SUBSET Blockable, UserBlocks(b) PROVE TInv'
  BY <1>5 DEF UserBlocks, TypeOK, LocalsOK, stateVars, dispVars, localVars, taskVars
<1>6. ASSUME NEW i \in Issue, CleanupEnds(i) PROVE TInv'
  BY <1>6 DEF CleanupEnds, TypeOK, LocalsOK, stateVars, dispVars, localVars, taskVars, outsideVars
<1>7. QED
  BY <1>1, <1>2, <1>3, <1>4, <1>5, <1>6 DEF Outside

LEMMA TypeStep == TInv /\ [Next]_vars => TInv'
<1> SUFFICES ASSUME TInv, [Next]_vars PROVE TInv'
  OBVIOUS
<1>1. CASE UNCHANGED vars
  BY <1>1 DEF vars, TInv, TypeOK, LocalsOK, stateVars, dispVars, localVars, taskVars, outsideVars
<1>2. CASE Dispatcher
  <2>1. asleep' \in BOOLEAN
    BY <1>2 DEF Dispatcher
  <2>2. QED
    BY <1>2, <2>1, TypeTick, TypeRetry, TypeMessages DEF Dispatcher
<1>3. QED
  BY <1>1, <1>2, TypeTimers, TypeWorker, TypeOutside DEF Next

(***************************************************************************)
(* Type correctness.                                                       *)
(***************************************************************************)
\* Every handler, timer and task keeps every variable in its type, and the
\* dispatcher never resumes an await without the issue it suspended with.
THEOREM TypeCorrect == Spec => [](TypeOK /\ LocalsOK)
<1>1. Init => TInv
  BY TypeInit
<1>2. TInv /\ [Next]_vars => TInv'
  BY TypeStep
<1>3. QED
  BY <1>1, <1>2, PTL DEF Spec, TInv

-----------------------------------------------------------------------------
(***************************************************************************)
(* Claims, retries and caps of the orchestrator, for every set of issues,  *)
(* workers, states and configurations and any number of refresh requests.  *)
(*                                                                         *)
(* None of the three properties is inductive: a dispatch is justified by   *)
(* what was read before an await.  The invariant says what stays true      *)
(* while the dispatcher is suspended: the scanned issues still wait to be  *)
(* dispatched do not run, and the one at the gate still has its slot.      *)
(***************************************************************************)
EligibleIdle ==
  pc \in {"loop", "gate"} => \A i \in Issue : eligible[i] # None => i \notin Running

GateKeepsSlot == pc = "gate" => HasSlot(eligible[current])

\* An exit releases the claim in the step that removes the entry, so the claimed
\* issues are the running ones, without those that wait for their retry.
ClaimsAreRunning == claimed = Running

ClaimInv == ClaimsAreRunning /\ RetryOrRunning /\ EligibleIdle /\ GateKeepsSlot

\* Steps that leave the scheduling state and the dispatcher alone, except that
\* retry timers may fire.
LEMMA ClaimFrame ==
  ASSUME TInv, ClaimInv,
         UNCHANGED <<running, claimed, maxAgents, config, eligible, current, pc>>,
         \A i \in Issue : retry[i] = None => retry'[i] = None
  PROVE  ClaimInv'
<1>1. Running' = Running
  BY DEF Running
<1>2. ClaimsAreRunning' /\ EligibleIdle'
  BY <1>1 DEF ClaimInv, ClaimsAreRunning, EligibleIdle
<1>3. RetryOrRunning'
  BY <1>1 DEF ClaimInv, RetryOrRunning, Running, TInv, LocalsOK
<1>4. GateKeepsSlot'
  BY <1>1 DEF ClaimInv, GateKeepsSlot, HasSlot, StateCap
<1>5. QED
  BY <1>2, <1>3, <1>4 DEF ClaimInv

\* What dispatch_issue does to the state when the issue does not run yet and
\* the slots were available.
LEMMA Dispatching ==
  ASSUME TInv, NEW i \in Issue, i \notin Running, NEW s \in State,
         NEW a \in Attempt, NEW w \in Worker, DispatchIssue(i, s, a, w)
  PROVE  /\ Running' = Running \cup {i} /\ running'[i].state = s
         /\ \A j \in Issue \ {i} : running'[j] = running[j] /\ retry'[j] = retry[j]
         /\ claimed' = claimed \cup {i} /\ retry'[i] = None
<1> DEFINE entry == [worker |-> w, attempt |-> a, state |-> s]
<1>1. running' = [running EXCEPT ![i] = entry] /\ running \in [Issue -> RunningEntry \cup {None}]
  BY DEF DispatchIssue, TInv, TypeOK
<1>2. entry # None
  BY NoneAssumption DEF RunningEntry
<1>3. running'[i] = entry /\ \A j \in Issue \ {i} : running'[j] = running[j]
  BY <1>1
<1>4. Running' = Running \cup {i}
  BY <1>2, <1>3 DEF Running
<1>5. /\ retry'[i] = None /\ \A j \in Issue \ {i} : retry'[j] = retry[j]
      /\ claimed' = claimed \cup {i}
  BY DEF DispatchIssue, CancelRetry, TInv, TypeOK
<1>6. QED
  BY <1>3, <1>4, <1>5

\* Part B of the reconciliation replaces snapshots but no entry appears,
\* disappears or changes its task.
LEMMA Refreshing ==
  ASSUME TInv, RefreshReturns
  PROVE  /\ Running' = Running
         /\ \A i \in Running : running'[i].worker = running[i].worker
<1>1. PICK gone : running' = [i \in Issue |-> IF i \in Running \ gone
                                 THEN [running[i] EXCEPT !.state = tracker[i]]
                                 ELSE running[i]]
  BY DEF RefreshReturns
<1>2. \A i \in Running : running[i] \in RunningEntry
  BY DEF Running, TInv, TypeOK
<1>3. \A i \in Running : /\ [running[i] EXCEPT !.state = tracker[i]] \in RunningEntry
                         /\ [running[i] EXCEPT !.state = tracker[i]].worker = running[i].worker
  BY <1>2 DEF RunningEntry, Running, TInv, TypeOK
<1>4. \A i \in Running : running'[i] \in RunningEntry /\ running'[i].worker = running[i].worker
  BY <1>1, <1>2, <1>3 DEF Running
<1>5. \A i \in Issue \ Running : running'[i] = None
  BY <1>1 DEF Running
<1>6. QED
  BY <1>4, <1>5, NoneAssumption DEF Running

LEMMA ClaimInit == Init => ClaimInv
BY DEF Init, ClaimInv, ClaimsAreRunning, RetryOrRunning, EligibleIdle, GateKeepsSlot, Running

LEMMA ClaimTick == TInv /\ ClaimInv /\ Tick => ClaimInv'
<1> SUFFICES ASSUME TInv, ClaimInv, Tick PROVE ClaimInv'
  OBVIOUS
<1> USE DEF ClaimInv
<1>1. ASSUME UNCHANGED <<running, claimed, retry>>, pc' \notin {"loop", "gate", "retryFetch"}
      PROVE  ClaimInv'
  BY <1>1 DEF ClaimsAreRunning, RetryOrRunning, EligibleIdle, GateKeepsSlot, Running
<1>2. CASE ReconcileStalled \/ RefreshFails \/ FetchFails \/ EndTick
  BY <1>1, <1>2 DEF ReconcileStalled, RefreshFails, FetchFails, EndTick, LoadConfig, stateVars
<1>3. CASE RefreshReturns
  <2>1. Running' = Running /\ UNCHANGED <<claimed, retry>> /\ pc' = "fetch"
    BY <1>3, Refreshing DEF RefreshReturns, LoadConfig
  <2>2. QED
    BY <2>1 DEF ClaimsAreRunning, RetryOrRunning, EligibleIdle, GateKeepsSlot
<1>4. CASE FetchReturns
  <2>1. UNCHANGED <<running, claimed, retry>> /\ pc' = "loop"
    BY <1>4 DEF FetchReturns, stateVars
  <2>2. EligibleIdle'
    BY <1>4, <2>1 DEF FetchReturns, Eligible, EligibleIdle, Running
  <2>3. QED
    BY <2>1, <2>2 DEF ClaimsAreRunning, RetryOrRunning, GateKeepsSlot, Running
<1>5. ASSUME NEW i \in Issue, SkipFullIssue(i) PROVE ClaimInv'
  <2>1. UNCHANGED <<running, claimed, retry, pc>> /\ pc = "loop"
    BY <1>5 DEF SkipFullIssue, stateVars
  <2>2. \A j \in Issue : eligible'[j] # None => eligible[j] # None
    BY <1>5 DEF SkipFullIssue, TInv, TypeOK
  <2>3. QED
    BY <2>1, <2>2 DEF ClaimsAreRunning, RetryOrRunning, EligibleIdle, GateKeepsSlot, Running
<1>6. ASSUME NEW i \in Issue, AskGate(i) PROVE ClaimInv'
  <2>1. /\ UNCHANGED <<running, claimed, retry, maxAgents, config, eligible>>
        /\ pc = "loop" /\ pc' = "gate" /\ current' = i /\ HasSlot(eligible[i])
    BY <1>6 DEF AskGate, stateVars
  <2>2. GateKeepsSlot'
    BY <2>1 DEF GateKeepsSlot, HasSlot, StateCap, Running
  <2>3. QED
    BY <2>1, <2>2 DEF ClaimsAreRunning, RetryOrRunning, EligibleIdle, Running
<1>7. ASSUME LeaveGate PROVE /\ pc = "gate" /\ pc' = "loop" /\ current \in Issue
                             /\ eligible[current] # None /\ current \notin Running
                             /\ eligible'[current] = None
                             /\ \A j \in Issue \ {current} : eligible'[j] = eligible[j]
  BY <1>7, StatesAssumption DEF LeaveGate, EligibleIdle, TInv, TypeOK, LocalsOK
<1>8. CASE GateDenies
  <2>1. LeaveGate /\ UNCHANGED <<running, claimed, retry>>
    BY <1>8 DEF GateDenies, stateVars
  <2>2. QED
    BY <1>7, <2>1 DEF ClaimsAreRunning, RetryOrRunning, EligibleIdle, GateKeepsSlot, Running
<1>9. ASSUME NEW w \in Worker, GateAllows(w) PROVE ClaimInv'
  <2>1. LeaveGate /\ DispatchIssue(current, eligible[current], 1, w)
    BY <1>9 DEF GateAllows
  <2>2. eligible[current] \in State /\ 1 \in Attempt
    BY <1>7, <2>1, ConfigAssumption DEF TInv, LocalsOK, Attempt
  <2>3. /\ Running' = Running \cup {current} /\ claimed' = claimed \cup {current}
        /\ retry'[current] = None
        /\ \A j \in Issue \ {current} : retry'[j] = retry[j]
    BY <1>7, <2>1, <2>2, Dispatching
  <2>4. Running \subseteq Issue
    BY DEF Running
  <2>5. QED
    BY <1>7, <2>1, <2>3, <2>4 DEF ClaimsAreRunning, RetryOrRunning, EligibleIdle, GateKeepsSlot
<1>10. QED
  BY <1>2, <1>3, <1>4, <1>5, <1>6, <1>8, <1>9 DEF Tick

LEMMA ClaimRetry == TInv /\ ClaimInv /\ Retry => ClaimInv'
<1> SUFFICES ASSUME TInv, ClaimInv, Retry PROVE ClaimInv'
  OBVIOUS
<1> USE DEF ClaimInv
<1>1. Running \subseteq Issue
  BY DEF Running
<1>2. CASE HandleRetryTimer
  <2> DEFINE i == Head(mailbox).issue
  <2>1. /\ UNCHANGED <<running, claimed>> \/ (retry[i] # None /\ Unclaim(i) /\ UNCHANGED running)
        /\ \A j \in Issue : retry'[j] = retry[j] \/ (j = i /\ retry'[j] = None)
        /\ pc' \in {"recv", "retryFetch"}
        /\ pc' = "retryFetch" => current' = i /\ retry[i] # None /\ retry'[i] = None
    BY <1>2, HeadFields DEF HandleRetryTimer, Receive, TInv, TypeOK
  <2>2. i \in Issue
    BY <1>2, HeadFields DEF HandleRetryTimer, Receive, TInv
  <2>3. Running' = Running /\ claimed' = Running
    BY <2>1, <2>2 DEF ClaimsAreRunning, RetryOrRunning, Unclaim, Running
  <2>4. retry[i] # None => i \notin Running
    BY <2>2 DEF RetryOrRunning
  <2>5. RetryOrRunning'
    BY <1>1, <2>1, <2>3, <2>4 DEF RetryOrRunning
  <2>6. QED
    BY <2>1, <2>3, <2>5 DEF ClaimsAreRunning, EligibleIdle, GateKeepsSlot
<1>3. ASSUME EndRetry
      PROVE  /\ current \in Issue /\ popped \in Attempt /\ pc' = "recv"
             /\ current \notin Running /\ retry[current] = None
  BY <1>3 DEF EndRetry, RetryOrRunning, TInv, LocalsOK
<1>4. CASE RetryFetchFails \/ RetryFindsNoSlot
  <2>1. EndRetry /\ Requeue
    BY <1>4 DEF RetryFetchFails, RetryFindsNoSlot
  <2>2. UNCHANGED <<running, claimed>> /\ \A j \in Issue \ {current} : retry'[j] = retry[j]
    BY <2>1 DEF Requeue, Schedule, TInv, TypeOK
  <2>3. QED
    BY <1>1, <1>3, <2>1, <2>2 DEF ClaimsAreRunning, RetryOrRunning, EligibleIdle,
       GateKeepsSlot, Running
<1>5. CASE RetryIssueAbsent
  BY <1>3, <1>5 DEF RetryIssueAbsent, Unclaim, ClaimsAreRunning, RetryOrRunning,
     EligibleIdle, GateKeepsSlot, Running
<1>6. ASSUME NEW w \in Worker, RetryDispatches(w) PROVE ClaimInv'
  <2>1. /\ EndRetry /\ tracker[current] \in State
        /\ DispatchIssue(current, tracker[current], popped, w)
    BY <1>6 DEF RetryDispatches, EndRetry, TInv, TypeOK, LocalsOK
  <2>2. /\ Running' = Running \cup {current} /\ claimed' = claimed \cup {current}
        /\ retry'[current] = None
        /\ \A j \in Issue \ {current} : retry'[j] = retry[j]
    BY <1>3, <2>1, Dispatching
  <2>3. QED
    BY <1>1, <1>3, <2>1, <2>2 DEF ClaimsAreRunning, RetryOrRunning, EligibleIdle, GateKeepsSlot
<1>7. QED
  BY <1>2, <1>4, <1>5, <1>6 DEF Retry

LEMMA ClaimWorkerExit == TInv /\ ClaimInv /\ HandleWorkerExit => ClaimInv'
<1> SUFFICES ASSUME TInv, ClaimInv, HandleWorkerExit PROVE ClaimInv'
  OBVIOUS
<1> DEFINE i == Head(mailbox).issue
<1>1. i \in Issue /\ pc = "recv" /\ pc' = "recv"
  BY HeadFields DEF HandleWorkerExit, Receive, TInv, dispVars, localVars
<1>2. CASE running[i] = None
  BY <1>1, <1>2 DEF HandleWorkerExit, ClaimInv, ClaimsAreRunning, RetryOrRunning,
     EligibleIdle, GateKeepsSlot, Running
<1>3. CASE running[i] # None
  <2>1. /\ running' = [running EXCEPT ![i] = None] /\ claimed' = claimed \ {i}
        /\ Schedule(i, NextAttempt(running[i].attempt))
    BY <1>3 DEF HandleWorkerExit, Unclaim
  <2>2. Running' = Running \ {i} /\ \A j \in Issue \ {i} : retry'[j] = retry[j]
    BY <1>1, <2>1 DEF Running, Schedule, TInv, TypeOK
  <2>3. Running \subseteq Issue
    BY DEF Running
  <2>4. QED
    BY <1>1, <2>1, <2>2, <2>3 DEF ClaimInv, ClaimsAreRunning, RetryOrRunning,
       EligibleIdle, GateKeepsSlot
<1>4. QED
  BY <1>2, <1>3

LEMMA ClaimStep == TInv /\ ClaimInv /\ [Next]_vars => ClaimInv'
<1> SUFFICES ASSUME TInv, ClaimInv, [Next]_vars PROVE ClaimInv'
  OBVIOUS
<1>1. CASE HandleCodexUpdate \/ Outside \/ \E i \in Issue : CleanupEnds(i)
  <2>1. UNCHANGED <<stateVars, config, localVars>>
    BY <1>1 DEF HandleCodexUpdate, Outside, PostRefresh, RequestShutdown, ReloadWorkflow,
       UserMoves, UserBlocks, CleanupEnds, dispVars
  <2>2. QED
    BY <2>1, ClaimFrame DEF stateVars, dispVars, localVars
<1>2. CASE \E w \in Worker : WorkerStep(w)
  <2>1. UNCHANGED <<stateVars, config, localVars>>
    BY <1>2 DEF WorkerStep, WorkerOpensTurn, WorkerConcludes, WorkerExits,
       CancelledWorkerSettles, WorkerReports, WorkerSettles, dispVars
  <2>2. QED
    BY <2>1, ClaimFrame DEF stateVars, dispVars, localVars
<1>3. CASE Timers
  <2>1. ASSUME NEW i \in Issue, RetryTimerFires(i) PROVE ClaimInv'
    <3>1. \A j \in Issue : retry[j] = None => retry'[j] = None
      BY <2>1 DEF RetryTimerFires, TInv, TypeOK
    <3>2. QED
      BY <2>1, <3>1, ClaimFrame DEF RetryTimerFires, dispVars, localVars
  <2>2. ASSUME NEW i \in Issue, LooseTimerFires(i) PROVE ClaimInv'
    BY <2>2, ClaimFrame DEF LooseTimerFires, dispVars, localVars
  <2>3. ASSUME NEW i \in Issue, TickTimerFires \/ GoesQuiet(i) PROVE ClaimInv'
    BY <2>3, ClaimFrame DEF TickTimerFires, GoesQuiet, stateVars, dispVars, localVars
  <2>4. CASE TickTimerFires
    BY <2>4, ClaimFrame DEF TickTimerFires, stateVars, dispVars, localVars
  <2>5. QED
    BY <1>3, <2>1, <2>2, <2>3, <2>4 DEF Timers
<1>4. CASE HandleConfigReloaded \/ HandleShutdown \/ GracefulShutdown
  <2>1. /\ UNCHANGED <<running, claimed>>
        /\ \A i \in Issue : retry'[i] \in {retry[i], None}
        /\ pc' \in {"recv", "stopped", "drained"}
    BY <1>4 DEF HandleConfigReloaded, HandleShutdown, GracefulShutdown, CancelAllRetries,
       Receive, StopLoop, stateVars, dispVars, localVars
  <2>2. QED
    BY <2>1 DEF ClaimInv, ClaimsAreRunning, RetryOrRunning, EligibleIdle,
       GateKeepsSlot, Running
<1>5. CASE UNCHANGED vars
  BY <1>5, ClaimFrame DEF vars, stateVars, dispVars, localVars
<1>6. QED
  BY <1>1, <1>2, <1>3, <1>4, <1>5, ClaimTick, ClaimRetry, ClaimWorkerExit DEF Next, Dispatcher

LEMMA ClaimInvariant == Spec => [](TInv /\ ClaimInv)
<1>1. Init => TInv /\ ClaimInv
  BY TypeInit, ClaimInit
<1>2. TInv /\ ClaimInv /\ [Next]_vars => (TInv /\ ClaimInv)'
  BY TypeStep, ClaimStep
<1>3. QED
  BY <1>1, <1>2, PTL DEF Spec

\* Every running issue is claimed, and no exit, drop or requeue leaks a claim, which
\* would bar its issue from every later tick.
THEOREM ClaimsCorrect == Spec => []ClaimsOwned
<1>1. ClaimInv => ClaimsOwned
  BY DEF ClaimInv, ClaimsAreRunning, ClaimsOwned, Running, Status
<1>2. QED
  BY <1>1, ClaimInvariant, PTL

\* An issue never runs while its retry is pending or being looked up, although
\* on_retry_timer dispatches without consulting state.running.
THEOREM RetryExclusive == Spec => []RetryOrRunning
BY ClaimInvariant, PTL DEF ClaimInv

(***************************************************************************)
(* What a step may do to state.running.                                    *)
(***************************************************************************)
LEMMA WhoTouchesRunning ==
  ASSUME [Next]_vars
  PROVE  \/ UNCHANGED running \/ RefreshReturns \/ HandleWorkerExit
         \/ \E w \in Worker : GateAllows(w) \/ RetryDispatches(w)
<1>1. CASE Tick
  BY <1>1 DEF Tick, ReconcileStalled, RefreshFails, FetchFails, FetchReturns, EndTick,
     GateDenies, SkipFullIssue, AskGate, stateVars
<1>2. CASE Retry
  BY <1>2 DEF Retry, HandleRetryTimer, RetryFetchFails, RetryFindsNoSlot,
     RetryIssueAbsent, Requeue
<1>3. CASE HandleCodexUpdate \/ HandleConfigReloaded \/ HandleShutdown \/ GracefulShutdown
  BY <1>3 DEF HandleCodexUpdate, HandleConfigReloaded, HandleShutdown, GracefulShutdown,
     stateVars
<1>4. CASE Timers \/ Outside \/ \E i \in Issue : CleanupEnds(i)
  BY <1>4 DEF Timers, TickTimerFires, RetryTimerFires, LooseTimerFires, GoesQuiet, Outside,
     PostRefresh, RequestShutdown, ReloadWorkflow, UserMoves, UserBlocks, CleanupEnds, stateVars
<1>5. CASE \E w \in Worker : WorkerStep(w)
  BY <1>5 DEF WorkerStep, WorkerOpensTurn, WorkerConcludes, WorkerExits,
     CancelledWorkerSettles, WorkerReports, WorkerSettles, stateVars
<1>6. CASE UNCHANGED vars
  BY <1>6 DEF vars, stateVars
<1>7. QED
  BY <1>1, <1>2, <1>3, <1>4, <1>5, <1>6 DEF Next, Dispatcher

\* Every dispatch is of an issue that does not run, into a slot that is still
\* there, after whatever happened during the awaits.
LEMMA EveryDispatch ==
  ASSUME TInv, ClaimInv, NEW w \in Worker, GateAllows(w) \/ RetryDispatches(w)
  PROVE  \E i \in Issue, s \in State, a \in Attempt :
           i \notin Running /\ HasSlot(s) /\ DispatchIssue(i, s, a, w)
<1>1. CASE GateAllows(w)
  <2>1. current \in Issue /\ eligible[current] \in State /\ 1 \in Attempt
    BY <1>1, ConfigAssumption DEF GateAllows, LeaveGate, TInv, LocalsOK, Attempt
  <2>2. current \notin Running /\ HasSlot(eligible[current])
    BY <1>1, <2>1, StatesAssumption DEF GateAllows, LeaveGate, ClaimInv, EligibleIdle, GateKeepsSlot
  <2>3. QED
    BY <1>1, <2>1, <2>2 DEF GateAllows
<1>2. CASE RetryDispatches(w)
  <2>1. current \in Issue /\ tracker[current] \in State /\ popped \in Attempt
    BY <1>2 DEF RetryDispatches, EndRetry, TInv, TypeOK, LocalsOK
  <2>2. current \notin Running /\ HasSlot(tracker[current])
    BY <1>2 DEF RetryDispatches, EndRetry, ClaimInv, RetryOrRunning
  <2>3. QED
    BY <1>2, <2>1, <2>2 DEF RetryDispatches
<1>3. QED
  BY <1>1, <1>2

\* An exit removes one entry and adds none.
LEMMA Exiting ==
  ASSUME TInv, HandleWorkerExit
  PROVE  \A j \in Issue : running'[j] \in {running[j], None}
BY HeadFields DEF HandleWorkerExit, Receive, TInv, TypeOK

LEMMA KeepsEntries ==
  ASSUME TInv, ClaimInv, [Next]_vars, NEW i \in Issue, running[i] # None, running'[i] # None
  PROVE  running'[i].worker = running[i].worker
<1>1. CASE RefreshReturns
  BY <1>1, Refreshing DEF Running
<1>2. CASE HandleWorkerExit
  BY <1>2, Exiting
<1>3. CASE \E w \in Worker : GateAllows(w) \/ RetryDispatches(w)
  <2>1. PICK w \in Worker, j \in Issue, s \in State, a \in Attempt :
          j \notin Running /\ DispatchIssue(j, s, a, w)
    BY <1>3, EveryDispatch
  <2>2. i # j
    BY <2>1 DEF Running
  <2>3. QED
    BY <2>1, <2>2, Dispatching
<1>4. QED
  BY <1>1, <1>2, <1>3, WhoTouchesRunning

\* No dispatch, by a tick or by a retry, replaces an entry of state.running:
\* the task of the replaced entry would escape the caps and the shutdown.
THEOREM NoEntryReplaced == Spec => EntriesNotReplaced
<1>1. TInv /\ ClaimInv /\ [Next]_vars =>
        [\A i \in Issue : running[i] # None /\ running'[i] # None
           => running'[i].worker = running[i].worker]_vars
  BY KeepsEntries
<1>2. QED
  BY <1>1, ClaimInvariant, PTL DEF Spec, EntriesNotReplaced

\* One more element in a set below its bound does not exceed the bound.
LEMMA OneMoreFits ==
  ASSUME NEW S, IsFiniteSet(S), NEW x, NEW n \in Nat, Cardinality(S) < n
  PROVE  Cardinality(S \cup {x}) <= n
<1>1. Cardinality(S) \in Nat
  BY FS_CardinalityType
<1>2. Cardinality(S \cup {x}) = Cardinality(S) \/ Cardinality(S \cup {x}) = Cardinality(S) + 1
  BY FS_AddElement
<1>3. QED
  BY <1>1, <1>2

LEMMA FitsCaps ==
  ASSUME TInv, ClaimInv, [Next]_vars, NEW i \in Issue, running[i] = None, running'[i] # None
  PROVE  /\ Cardinality(Running') <= maxAgents
         /\ LET s == running'[i].state IN
            Cardinality({j \in Issue : running'[j] # None /\ running'[j].state = s})
              <= StateCap(s)
<1>1. ~RefreshReturns /\ ~HandleWorkerExit /\ ~UNCHANGED running
  BY Refreshing, Exiting DEF Running
<1>2. PICK w \in Worker, j \in Issue, s \in State, a \in Attempt :
        j \notin Running /\ HasSlot(s) /\ DispatchIssue(j, s, a, w)
  BY <1>1, WhoTouchesRunning, EveryDispatch
<1>3. j = i
  <2>1. \A k \in Issue \ {j} : running'[k] = running[k]
    BY <1>2, Dispatching
  <2>2. QED
    BY <2>1
<1>4. /\ Running' = Running \cup {i} /\ running'[i].state = s
      /\ \A k \in Issue \ {i} : running'[k] = running[k]
  BY <1>2, <1>3, Dispatching
<1> DEFINE peers == {k \in Running : running[k].state = s}
<1>5. {k \in Issue : running'[k] # None /\ running'[k].state = s} = peers \cup {i}
  BY <1>4 DEF Running
<1>6. IsFiniteSet(Running) /\ IsFiniteSet(peers)
  BY IssuesAssumption, FS_Subset DEF Running
<1>7. maxAgents \in Nat /\ StateCap(s) \in Nat
  BY ConfigAssumption DEF StateCap, ConfigType, TInv, TypeOK
<1>8. Cardinality(Running) < maxAgents /\ Cardinality(peers) < StateCap(s)
  BY <1>2 DEF HasSlot
<1>9. Cardinality(Running \cup {i}) <= maxAgents /\ Cardinality(peers \cup {i}) <= StateCap(s)
  BY <1>6, <1>7, <1>8, OneMoreFits
<1>10. QED
  BY <1>4, <1>5, <1>9

\* The slots checked before the gate's awaits are still there when the issue is
\* dispatched after them; the same holds for every retry.
THEOREM CapsHold == Spec => DispatchWithinCaps
<1>1. TInv /\ ClaimInv /\ [Next]_vars =>
        [\A i \in Issue : running[i] = None /\ running'[i] # None =>
           /\ Cardinality(Running') <= maxAgents
           /\ LET s == running'[i].state IN
              Cardinality({j \in Issue : running'[j] # None /\ running'[j].state = s})
                <= StateCap(s)]_vars
  BY FitsCaps
<1>2. QED
  BY <1>1, ClaimInvariant, PTL DEF Spec, DispatchWithinCaps

(***************************************************************************)
(* Refinement of the claim life cycle.                                     *)
(***************************************************************************)
Statuses == [i \in Issue |-> Status(i)]

LEMMA StatusType ==
  \A i \in Issue : Statuses[i] = Status(i) /\ (Status(i) = "running" <=> i \in Running)
BY DEF Statuses, Status, Running

LEMMA RunningNowIsRunning == Lifecycle!RunningNow = Running
BY StatusType DEF Lifecycle!RunningNow, Running, Status

\* The life cycle counts with the same operator.
LEMMA SameCount == ASSUME NEW S PROVE Lifecycle!Cardinality(S) = Cardinality(S)
BY DEF Cardinality, Lifecycle!Cardinality

LEMMA LifecycleInit == Init => Lifecycle!Init
<1> SUFFICES ASSUME Init PROVE Lifecycle!Init
  OBVIOUS
<1>1. \A i \in Issue : Status(i) = "idle"
  BY DEF Init, Status
<1>2. QED
  BY <1>1, ConfigAssumption DEF Init, Lifecycle!Init

\* The status of an issue depends on these facts only.
LEMMA SameStatus ==
  ASSUME NEW i \in Issue,
         i \in Running' <=> i \in Running,
         (retry'[i] # None \/ (pc' = "retryFetch" /\ current' = i))
           <=> (retry[i] # None \/ (pc = "retryFetch" /\ current = i))
  PROVE  Status(i)' = Status(i)
BY DEF Status, Running

LEMMA LifecycleStutters ==
  ASSUME UNCHANGED maxAgents, pc' = "drained" <=> pc = "drained",
         \A i \in Issue : Status(i)' = Status(i)
  PROVE  UNCHANGED Lifecycle!lifecycleVars
BY DEF Lifecycle!lifecycleVars

\* Steps that leave the running issues alone and the retries where they are.
LEMMA LifecycleFrame ==
  ASSUME UNCHANGED maxAgents, Running' = Running,
         \A i \in Issue : (retry'[i] = None) <=> (retry[i] = None),
         (pc' = "drained") <=> (pc = "drained"),
         \/ pc # "retryFetch" /\ pc' # "retryFetch"
         \/ UNCHANGED <<pc, current>>
  PROVE  UNCHANGED Lifecycle!lifecycleVars
BY SameStatus, LifecycleStutters

LEMMA LifecycleDispatch ==
  ASSUME TInv, ClaimInv, NEW w \in Worker, GateAllows(w) \/ RetryDispatches(w)
  PROVE  \E i \in Issue : Lifecycle!Dispatch(i)
<1>1. PICK i \in Issue, s \in State, a \in Attempt :
        i \notin Running /\ HasSlot(s) /\ DispatchIssue(i, s, a, w)
  BY EveryDispatch
<1>2. /\ Running' = Running \cup {i}
      /\ \A j \in Issue \ {i} : running'[j] = running[j] /\ retry'[j] = retry[j]
  BY <1>1, Dispatching
<1>3. /\ pc # "drained" /\ pc' \in {"loop", "recv"} /\ UNCHANGED maxAgents
      /\ pc = "retryFetch" => current = i
  <2>1. CASE GateAllows(w)
    BY <2>1 DEF GateAllows, LeaveGate
  <2>2. CASE RetryDispatches(w)
    <3>1. EndRetry /\ UNCHANGED maxAgents /\ DispatchIssue(current, tracker[current], popped, w)
      BY <2>2 DEF RetryDispatches
    <3>2. /\ current \in Issue /\ current \notin Running
          /\ tracker[current] \in State /\ popped \in Attempt
      BY <3>1 DEF EndRetry, ClaimInv, RetryOrRunning, TInv, TypeOK, LocalsOK
    <3>3. Running' = Running \cup {current}
      BY <3>1, <3>2, Dispatching
    <3>4. current = i
      BY <1>1, <1>2, <3>2, <3>3
    <3>5. QED
      BY <3>1, <3>4 DEF EndRetry
  <2>3. QED
    BY <2>1, <2>2
<1>4. Status(i) \in {"idle", "retrying"} /\ Status(i)' = "running"
  BY <1>1, <1>2 DEF Status, Running
<1>5. \A j \in Issue \ {i} : Status(j)' = Status(j)
  BY <1>2, <1>3, SameStatus
<1>6. Lifecycle!Cardinality(Lifecycle!RunningNow) < maxAgents
  BY <1>1, RunningNowIsRunning, SameCount DEF HasSlot
<1>7. Lifecycle!Dispatch(i)
  BY <1>3, <1>4, <1>5, <1>6 DEF Lifecycle!Dispatch
<1>8. QED
  BY <1>7

\* A scheduled retry is an entry.
LEMMA NextEntry ==
  ASSUME TInv, NEW i \in Running
  PROVE  [attempt |-> NextAttempt(running[i].attempt), armed |-> TRUE] # None
<1>1. running[i].attempt \in Attempt
  <2>1. running[i] \in RunningEntry
    BY DEF Running, TInv, TypeOK
  <2>2. QED
    BY <2>1 DEF RunningEntry
<1>2. [attempt |-> NextAttempt(running[i].attempt), armed |-> TRUE] \in RetryEntry
  BY <1>1, NextAttemptType DEF RetryEntry
<1>3. QED
  BY <1>2, NoneAssumption

LEMMA LifecycleExit ==
  ASSUME TInv, ClaimInv, HandleWorkerExit
  PROVE  UNCHANGED Lifecycle!lifecycleVars \/ \E i \in Issue : Lifecycle!WorkerEnds(i)
<1>0. PICK i \in Issue : i = Head(mailbox).issue
  BY HeadFields DEF HandleWorkerExit, Receive, TInv
<1>1. i \in Issue /\ pc = "recv" /\ pc' = "recv" /\ UNCHANGED maxAgents
  BY DEF HandleWorkerExit, Receive, dispVars, localVars
<1>2. CASE running[i] = None
  <2>1. UNCHANGED <<running, retry>>
    BY <1>0, <1>2 DEF HandleWorkerExit
  <2>2. QED
    BY <1>1, <2>1, LifecycleFrame DEF Running
<1>3. CASE running[i] # None
  <2>1. running' = [running EXCEPT ![i] = None] /\ Schedule(i, NextAttempt(running[i].attempt))
    BY <1>0, <1>3 DEF HandleWorkerExit
  <2>2. i \in Running
    BY <1>1, <1>3 DEF Running
  <2>3. running'[i] = None /\ retry'[i] # None
    BY <1>1, <2>1, <2>2, NextEntry DEF TInv, TypeOK, Schedule
  <2>4. \A j \in Issue \ {i} : running'[j] = running[j] /\ retry'[j] = retry[j]
    BY <2>1 DEF TInv, TypeOK, Schedule
  <2>5. Status(i) = "running" /\ Status(i)' = "retrying"
    BY <1>3, <2>3 DEF Status
  <2>6. \A j \in Issue \ {i} : Status(j)' = Status(j)
    BY <1>1, <2>4 DEF Status
  <2>7. Lifecycle!WorkerEnds(i)
    BY <1>1, <2>5, <2>6 DEF Lifecycle!WorkerEnds
  <2>8. QED
    BY <1>1, <2>7
<1>4. QED
  BY <1>2, <1>3

LEMMA LifecycleRetryTimer ==
  ASSUME TInv, ClaimInv, HandleRetryTimer
  PROVE  UNCHANGED Lifecycle!lifecycleVars \/ \E i \in Issue : Lifecycle!Release(i)
<1>1. PICK i \in Issue : i = Head(mailbox).issue
  BY HeadFields DEF HandleRetryTimer, Receive, TInv
<1>2. pc = "recv" /\ UNCHANGED <<running, maxAgents>>
  BY DEF HandleRetryTimer, Receive
<1>3. CASE retry[i] = None
  <2>1. UNCHANGED <<retry, pc, current>>
    BY <1>1, <1>3 DEF HandleRetryTimer
  <2>2. QED
    BY <1>2, <2>1, LifecycleFrame DEF Running
<1>4. CASE retry[i] # None /\ i \notin completed
  <2>1. pc' = "retryFetch" /\ current' = i /\ \A j \in Issue \ {i} : retry'[j] = retry[j]
    BY <1>1, <1>4 DEF HandleRetryTimer, TInv, TypeOK
  <2>2. \A j \in Issue : Status(j)' = Status(j)
    BY <1>2, <1>4, <2>1 DEF Status
  <2>3. QED
    BY <1>2, <2>1, <2>2, LifecycleStutters
<1>5. CASE retry[i] # None /\ i \in completed
  <2>1. pc' = "recv" /\ retry' = [retry EXCEPT ![i] = None]
    BY <1>1, <1>2, <1>5 DEF HandleRetryTimer
  <2>2. retry'[i] = None /\ \A j \in Issue \ {i} : retry'[j] = retry[j]
    BY <2>1 DEF TInv, TypeOK
  <2>3. running[i] = None
    BY <1>5 DEF ClaimInv, RetryOrRunning, Running
  <2>4. Status(i) = "retrying" /\ Status(i)' = "idle"
    BY <1>2, <1>5, <2>1, <2>2, <2>3 DEF Status
  <2>5. \A j \in Issue \ {i} : Status(j)' = Status(j)
    BY <1>2, <2>1, <2>2 DEF Status
  <2>6. Lifecycle!Release(i)
    BY <1>2, <2>1, <2>4, <2>5 DEF Lifecycle!Release
  <2>7. QED
    BY <2>6
<1>6. QED
  BY <1>3, <1>4, <1>5

LEMMA LifecycleRetryEnds ==
  ASSUME TInv, ClaimInv, RetryFetchFails \/ RetryFindsNoSlot \/ RetryIssueAbsent
  PROVE  UNCHANGED Lifecycle!lifecycleVars \/ \E i \in Issue : Lifecycle!Release(i)
<1>1. EndRetry /\ UNCHANGED <<running, maxAgents>> /\ (Requeue \/ UNCHANGED retry)
  BY DEF RetryFetchFails, RetryFindsNoSlot, RetryIssueAbsent, Requeue
<1>2. PICK i \in Issue : i = current
  BY <1>1 DEF EndRetry, TInv, LocalsOK
<1>3. running[i] = None /\ retry[i] = None /\ popped \in Attempt
  BY <1>1, <1>2 DEF EndRetry, ClaimInv, RetryOrRunning, Running, TInv, LocalsOK
<1>4. Status(i) = "retrying"
  BY <1>1, <1>2, <1>3 DEF Status, EndRetry
<1>5. CASE Requeue
  <2>1. [attempt |-> popped, armed |-> TRUE] # None
    <3>1. [attempt |-> popped, armed |-> TRUE] \in RetryEntry
      BY <1>3 DEF RetryEntry
    <3>2. QED
      BY <3>1, NoneAssumption
  <2>2. retry'[i] # None /\ \A j \in Issue \ {i} : retry'[j] = retry[j]
    BY <1>2, <1>5, <2>1 DEF Requeue, Schedule, TInv, TypeOK
  <2>3. \A j \in Issue : Status(j)' = Status(j)
    BY <1>1, <1>2, <1>3, <2>2 DEF Status, EndRetry
  <2>4. QED
    BY <1>1, <2>3, LifecycleStutters DEF EndRetry
<1>6. CASE UNCHANGED retry
  <2>1. Status(i)' = "idle"
    BY <1>1, <1>3, <1>6 DEF Status, EndRetry
  <2>2. \A j \in Issue \ {i} : Status(j)' = Status(j)
    BY <1>1, <1>2, <1>6 DEF Status, EndRetry
  <2>3. Lifecycle!Release(i)
    BY <1>1, <1>4, <2>1, <2>2 DEF Lifecycle!Release, EndRetry
  <2>4. QED
    BY <2>3
<1>7. QED
  BY <1>1, <1>5, <1>6

LEMMA LifecycleControl ==
  ASSUME TInv, ClaimInv, HandleConfigReloaded \/ HandleShutdown \/ GracefulShutdown
  PROVE  UNCHANGED Lifecycle!lifecycleVars \/ Lifecycle!Next
<1>1. CASE HandleConfigReloaded
  <2>1. PICK c \in Config : maxAgents' = c.cap
    BY <1>1, HeadFields DEF HandleConfigReloaded, AdoptConfig, Receive, TInv
  <2>2. pc = "recv" /\ UNCHANGED <<running, retry, pc, current>>
    BY <1>1 DEF HandleConfigReloaded, Receive, dispVars, localVars
  <2>3. \A j \in Issue : Status(j)' = Status(j)
    BY <2>2 DEF Status
  <2>4. Lifecycle!SetLimit(c.cap)
    BY <2>1, <2>2, <2>3 DEF Lifecycle!SetLimit
  <2>5. QED
    BY <2>4 DEF Lifecycle!Next
<1>2. CASE HandleShutdown
  BY <1>2, LifecycleFrame DEF HandleShutdown, Receive, StopLoop, stateVars, Running
<1>3. CASE GracefulShutdown
  <2>1. /\ pc = "stopped" /\ pc' = "drained" /\ UNCHANGED <<running, maxAgents>>
        /\ \A j \in Issue : retry'[j] = None
    BY <1>3 DEF GracefulShutdown, CancelAllRetries
  <2>2. \A j \in Issue : Status(j)' = IF Status(j) = "retrying" THEN "idle" ELSE Status(j)
    BY <2>1 DEF Status
  <2>3. Lifecycle!Close
    BY <2>1, <2>2 DEF Lifecycle!Close
  <2>4. QED
    BY <2>3 DEF Lifecycle!Next
<1>4. QED
  BY <1>1, <1>2, <1>3

LEMMA LifecycleStep ==
  TInv /\ ClaimInv /\ [Next]_vars => [Lifecycle!Next]_(Lifecycle!lifecycleVars)
<1> SUFFICES ASSUME TInv, ClaimInv, [Next]_vars
             PROVE  UNCHANGED Lifecycle!lifecycleVars \/ Lifecycle!Next
  OBVIOUS
<1>1. CASE \/ ReconcileStalled \/ RefreshFails \/ FetchFails \/ FetchReturns \/ EndTick
           \/ GateDenies \/ \E i \in Issue : SkipFullIssue(i) \/ AskGate(i)
  <2>1. UNCHANGED stateVars
    BY <1>1 DEF ReconcileStalled, RefreshFails, FetchFails, FetchReturns, EndTick,
       GateDenies, SkipFullIssue, AskGate
  <2>2. /\ pc \notin {"retryFetch", "drained"} /\ pc' \notin {"retryFetch", "drained"}
    BY <1>1 DEF ReconcileStalled, RefreshFails, FetchFails, FetchReturns, EndTick,
       GateDenies, SkipFullIssue, AskGate, LeaveGate, LoadConfig, Receive
  <2>3. QED
    BY <2>1, <2>2, LifecycleFrame DEF stateVars, Running
<1>2. CASE RefreshReturns
  <2>1. Running' = Running /\ UNCHANGED <<retry, maxAgents>> /\ pc = "refresh" /\ pc' = "fetch"
    BY <1>2, Refreshing DEF RefreshReturns, LoadConfig
  <2>2. QED
    BY <2>1, LifecycleFrame
<1>3. CASE \E w \in Worker : GateAllows(w) \/ RetryDispatches(w)
  BY <1>3, LifecycleDispatch DEF Lifecycle!Next
<1>4. CASE HandleWorkerExit
  BY <1>4, LifecycleExit DEF Lifecycle!Next
<1>5. CASE HandleRetryTimer
  BY <1>5, LifecycleRetryTimer DEF Lifecycle!Next
<1>6. CASE RetryFetchFails \/ RetryFindsNoSlot \/ RetryIssueAbsent
  BY <1>6, LifecycleRetryEnds DEF Lifecycle!Next
<1>7. CASE HandleConfigReloaded \/ HandleShutdown \/ GracefulShutdown
  BY <1>7, LifecycleControl
<1>8. CASE \/ HandleCodexUpdate \/ Outside \/ UNCHANGED vars
           \/ (\E i \in Issue : CleanupEnds(i)) \/ (\E w \in Worker : WorkerStep(w))
  <2>1. UNCHANGED <<stateVars, localVars>>
    BY <1>8 DEF HandleCodexUpdate, Outside, PostRefresh, RequestShutdown, ReloadWorkflow,
       UserMoves, UserBlocks, CleanupEnds, WorkerStep, WorkerOpensTurn, WorkerConcludes,
       WorkerExits, CancelledWorkerSettles, WorkerReports, WorkerSettles, vars, dispVars
  <2>2. QED
    BY <2>1, LifecycleFrame DEF stateVars, dispVars, localVars, Running
<1>9. CASE Timers
  <2>1. UNCHANGED <<running, maxAgents, localVars>>
    BY <1>9 DEF Timers, TickTimerFires, RetryTimerFires, LooseTimerFires, GoesQuiet,
       stateVars, dispVars
  <2>2. \A i \in Issue : (retry'[i] = None) <=> (retry[i] = None)
    <3>1. ASSUME NEW j \in Issue, RetryTimerFires(j), NEW i \in Issue
          PROVE  (retry'[i] = None) <=> (retry[i] = None)
      <4>1. retry[j] \in RetryEntry /\ retry' = [retry EXCEPT ![j].armed = FALSE]
        BY <3>1 DEF RetryTimerFires, TInv, TypeOK
      <4>2. retry'[j] \in RetryEntry
        BY <4>1 DEF RetryEntry, TInv, TypeOK
      <4>3. QED
        BY <4>1, <4>2, NoneAssumption DEF TInv, TypeOK
    <3>2. QED
      BY <1>9, <3>1 DEF Timers, TickTimerFires, LooseTimerFires, GoesQuiet, stateVars
  <2>3. QED
    BY <2>1, <2>2, LifecycleFrame DEF dispVars, localVars, Running
<1>10. QED
  BY <1>1, <1>2, <1>3, <1>4, <1>5, <1>6, <1>7, <1>8, <1>9 DEF Next, Dispatcher, Tick, Retry

\* Whatever the mailbox, the timers, the workers and the tracker do, the
\* orchestrator implements the claim life cycle: an issue leaves "running" only
\* through a retry and enters it only below the global cap.
THEOREM LifecycleImplemented == Spec => ImplementsLifecycle
<1>1. Init => Lifecycle!Init
  BY LifecycleInit
<1>2. TInv /\ ClaimInv /\ [Next]_vars => [Lifecycle!Next]_(Lifecycle!lifecycleVars)
  BY LifecycleStep
<1>3. QED
  BY <1>1, <1>2, ClaimInvariant, PTL DEF Spec, ImplementsLifecycle, Lifecycle!Spec

-----------------------------------------------------------------------------
(***************************************************************************)
(* Nothing the orchestrator waits for is ever lost in its mailbox: the     *)
(* next tick, a due retry, the latest configuration.                       *)
(***************************************************************************)
\* Consuming the head and posting s behind the rest loses no other message.
LEMMA TailKeeps ==
  ASSUME TypeOK, mailbox # <<>>, NEW s \in Seq(Message), mailbox' = Tail(mailbox) \o s,
         NEW m, InMail(m), m # Head(mailbox)
  PROVE  InMail(m)'
<1>1. PICK k \in DOMAIN mailbox : mailbox[k] = m
  BY DEF InMail
<1>2. mailbox \in Seq(Message) /\ k \in 1..Len(mailbox) /\ k # 1
  BY <1>1 DEF TypeOK
<1>3. k - 1 \in DOMAIN mailbox' /\ mailbox'[k - 1] = m
  BY <1>1, <1>2
<1>4. QED
  BY <1>3 DEF InMail

LEMMA ConsumeKeeps ==
  ASSUME TypeOK, mailbox # <<>>, Consume, NEW m, InMail(m), m # Head(mailbox)
  PROVE  InMail(m)'
<1>1. Tail(mailbox) \in Seq(Message)
  BY HeadFields
<1>2. <<>> \in Seq(Message) /\ mailbox' = Tail(mailbox) \o <<>>
  BY <1>1 DEF Consume
<1>3. QED
  BY <1>2, TailKeeps

LEMMA PostKeeps ==
  ASSUME TypeOK, NEW n, Post(n)
  PROVE  InMail(n)' /\ \A m : InMail(m) => InMail(m)'
<1>1. mailbox \in Seq(Message) /\ mailbox' = Append(mailbox, n)
  BY DEF TypeOK, Post
<1>2. /\ DOMAIN mailbox = 1..Len(mailbox) /\ DOMAIN mailbox' = 1..Len(mailbox) + 1
      /\ mailbox'[Len(mailbox) + 1] = n
      /\ \A k \in DOMAIN mailbox : mailbox'[k] = mailbox[k]
  BY <1>1
<1>3. QED
  BY <1>2 DEF InMail

\* A step outside the dispatcher posts one message or none.
LEMMA OutsidePosts ==
  ASSUME TypeOK,
         \/ Outside \/ UNCHANGED vars
         \/ (\E i \in Issue : CleanupEnds(i) \/ GoesQuiet(i))
         \/ (\E w \in Worker : WorkerStep(w))
  PROVE  /\ UNCHANGED <<ticks, stateVars, localVars, config>>
         /\ \A m : InMail(m) => InMail(m)'
<1>1. UNCHANGED <<ticks, stateVars, localVars, config>> /\ (UNCHANGED mailbox \/ \E n : Post(n))
  BY DEF Outside, PostRefresh, RequestShutdown, ReloadWorkflow, UserMoves, UserBlocks,
     CleanupEnds, GoesQuiet, WorkerStep, WorkerOpensTurn, WorkerConcludes, WorkerExits,
     CancelledWorkerSettles, WorkerReports, WorkerSettles, vars, dispVars
<1>2. QED
  BY <1>1, PostKeeps DEF InMail

\* The reconciliation consumes a PollTick and posts exits.
LEMMA Reconciling ==
  ASSUME TInv, ReconcileStalled
  PROVE  /\ mailbox # <<>> /\ Head(mailbox).type = "PollTick"
         /\ \E s \in Seq(Message) : /\ mailbox' = Tail(mailbox) \o s
                                    /\ \A k \in DOMAIN s : s[k].type = "WorkerExit"
<1>1. PICK order \in SetToSeqs(Stalled) :
        mailbox' = Tail(mailbox) \o [k \in DOMAIN order |-> StallExit(order[k])]
  BY DEF ReconcileStalled
<1> DEFINE s == [k \in DOMAIN order |-> StallExit(order[k])]
<1>2. s \in Seq(Message)
  BY StallExits DEF TInv
<1>3. \A k \in DOMAIN s : s[k].type = "WorkerExit"
  BY DEF StallExit, WorkerExit
<1>4. QED
  BY <1>1, <1>2, <1>3 DEF ReconcileStalled, Receive

(***************************************************************************)
(* The chain of ticks.                                                     *)
(***************************************************************************)
LEMMA TickChainStep == TInv /\ TickChainAlive /\ [Next]_vars => TickChainAlive'
<1> SUFFICES ASSUME TInv, TickChainAlive, [Next]_vars PROVE TickChainAlive'
  OBVIOUS
<1> USE DEF TInv
<1>1. ASSUME ticks' = ticks \/ ticks' = 0, pc' \notin {"recv", "retryFetch"}
      PROVE  TickChainAlive'
  BY <1>1 DEF TickChainAlive
<1>2. CASE \/ ReconcileStalled \/ RefreshFails \/ RefreshReturns \/ FetchReturns \/ GateDenies
           \/ (\E i \in Issue : SkipFullIssue(i) \/ AskGate(i))
           \/ (\E w \in Worker : GateAllows(w)) \/ HandleShutdown \/ GracefulShutdown
  BY <1>1, <1>2 DEF ReconcileStalled, RefreshFails, RefreshReturns, FetchReturns, GateDenies,
     SkipFullIssue, AskGate, GateAllows, LeaveGate, HandleShutdown, StopLoop,
     GracefulShutdown, LoadConfig
<1>3. CASE FetchFails \/ EndTick
  BY <1>3 DEF FetchFails, EndTick, ScheduleNextTick, TickChainAlive
<1>4. CASE HandleRetryTimer \/ HandleWorkerExit \/ HandleCodexUpdate \/ HandleConfigReloaded
  <2>1. /\ pc = "recv" /\ UNCHANGED ticks /\ Consume
        /\ mailbox # <<>> /\ Head(mailbox) # PollTick
    BY <1>4 DEF HandleRetryTimer, HandleWorkerExit, HandleCodexUpdate, HandleConfigReloaded,
       Receive, PollTick
  <2>2. QED
    BY <2>1, ConsumeKeeps DEF TickChainAlive
<1>5. CASE RetryFetchFails \/ RetryFindsNoSlot \/ RetryIssueAbsent
           \/ \E w \in Worker : RetryDispatches(w)
  <2>1. pc = "retryFetch" /\ UNCHANGED <<ticks, mailbox>>
    BY <1>5 DEF RetryFetchFails, RetryFindsNoSlot, RetryIssueAbsent, RetryDispatches,
       EndRetry, Requeue
  <2>2. QED
    BY <2>1 DEF TickChainAlive, InMail
<1>6. CASE TickTimerFires
  <2>1. Post(PollTick) /\ ticks' = ticks - 1 /\ ticks > 0
    BY <1>6 DEF TickTimerFires
  <2>2. QED
    BY <2>1, PostKeeps DEF TickChainAlive, TypeOK
<1>7. CASE \E i \in Issue : RetryTimerFires(i) \/ LooseTimerFires(i)
  <2>1. UNCHANGED <<ticks, pc>> /\ \E n : Post(n)
    BY <1>7 DEF RetryTimerFires, LooseTimerFires, dispVars, localVars
  <2>2. QED
    BY <2>1, PostKeeps DEF TickChainAlive
<1>8. CASE \/ Outside \/ UNCHANGED vars
           \/ (\E i \in Issue : CleanupEnds(i) \/ GoesQuiet(i))
           \/ (\E w \in Worker : WorkerStep(w))
  <2>1. UNCHANGED <<ticks, pc>> /\ \A m : InMail(m) => InMail(m)'
    BY <1>8, OutsidePosts DEF dispVars, localVars
  <2>2. QED
    BY <2>1 DEF TickChainAlive
<1>9. QED
  BY <1>2, <1>3, <1>4, <1>5, <1>6, <1>7, <1>8
  DEF Next, Dispatcher, Tick, Retry, Timers

\* on_tick has several returns and the loop dispatches between them; whichever
\* was taken, a next tick is armed or queued, and never two timers.
THEOREM TicksNeverStop == Spec => []TickChainAlive
<1>1. Init => TickChainAlive
  BY DEF Init, TickChainAlive, InMail
<1>2. QED
  BY <1>1, TypeInit, TypeStep, TickChainStep, PTL DEF Spec

(***************************************************************************)
(* Due retries.                                                            *)
(***************************************************************************)
\* Entries that stay as they are keep their message.
LEMMA StrandedFrame ==
  ASSUME NoStrandedRetry,
         \A i \in Issue : \/ retry'[i] = None \/ retry'[i].armed
                          \/ /\ retry'[i] = retry[i]
                             /\ InMail(RetryTimerFired(i)) => InMail(RetryTimerFired(i))'
  PROVE  NoStrandedRetry'
BY DEF NoStrandedRetry

LEMMA StrandedTick == TInv /\ NoStrandedRetry /\ Tick => NoStrandedRetry'
<1> SUFFICES ASSUME TInv, NoStrandedRetry, Tick PROVE NoStrandedRetry'
  OBVIOUS
<1>1. CASE ReconcileStalled
  <2>1. \A i \in Issue : InMail(RetryTimerFired(i)) => InMail(RetryTimerFired(i))'
    BY <1>1, Reconciling, TailKeeps DEF TInv, RetryTimerFired
  <2>2. QED
    BY <1>1, <2>1, StrandedFrame DEF ReconcileStalled, stateVars
<1>2. CASE \/ RefreshFails \/ RefreshReturns \/ FetchFails \/ FetchReturns \/ EndTick
           \/ GateDenies \/ (\E i \in Issue : SkipFullIssue(i) \/ AskGate(i))
  <2>1. UNCHANGED <<retry, mailbox>>
    BY <1>2 DEF RefreshFails, RefreshReturns, FetchFails, FetchReturns, EndTick,
       GateDenies, SkipFullIssue, AskGate, stateVars
  <2>2. QED
    BY <2>1, StrandedFrame DEF InMail
<1>3. ASSUME NEW w \in Worker, GateAllows(w) PROVE NoStrandedRetry'
  <2>1. CancelRetry(current) /\ UNCHANGED mailbox
    BY <1>3 DEF GateAllows, DispatchIssue
  <2>2. \A i \in Issue : retry'[i] = None \/ retry'[i] = retry[i]
    BY <2>1 DEF CancelRetry, TInv, TypeOK
  <2>3. QED
    BY <2>1, <2>2, StrandedFrame DEF InMail
<1>4. QED
  BY <1>1, <1>2, <1>3 DEF Tick

LEMMA StrandedRetry == TInv /\ NoStrandedRetry /\ Retry => NoStrandedRetry'
<1> SUFFICES ASSUME TInv, NoStrandedRetry, Retry PROVE NoStrandedRetry'
  OBVIOUS
<1>1. CASE HandleRetryTimer
  <2>1. PICK i \in Issue : i = Head(mailbox).issue
    BY <1>1, HeadFields DEF HandleRetryTimer, Receive, TInv
  <2>2. retry'[i] = None /\ \A j \in Issue \ {i} : retry'[j] = retry[j]
    BY <1>1, <2>1 DEF HandleRetryTimer, TInv, TypeOK
  <2>3. \A j \in Issue \ {i} : Head(mailbox) # RetryTimerFired(j)
    BY <2>1 DEF RetryTimerFired
  <2>4. \A j \in Issue \ {i} : InMail(RetryTimerFired(j)) => InMail(RetryTimerFired(j))'
    BY <1>1, <2>3, ConsumeKeeps DEF HandleRetryTimer, Receive, TInv
  <2>5. QED
    BY <2>2, <2>4, StrandedFrame
<1>2. CASE RetryFetchFails \/ RetryFindsNoSlot
  <2>1. Schedule(current, popped) /\ UNCHANGED mailbox
    BY <1>2 DEF RetryFetchFails, RetryFindsNoSlot, Requeue
  <2>2. \A i \in Issue : retry'[i] = retry[i] \/ retry'[i].armed
    BY <2>1 DEF Schedule, TInv, TypeOK
  <2>3. QED
    BY <2>1, <2>2, StrandedFrame DEF InMail
<1>3. CASE RetryIssueAbsent
  BY <1>3, StrandedFrame DEF RetryIssueAbsent, InMail
<1>4. ASSUME NEW w \in Worker, RetryDispatches(w) PROVE NoStrandedRetry'
  <2>1. CancelRetry(current) /\ UNCHANGED mailbox
    BY <1>4 DEF RetryDispatches, DispatchIssue
  <2>2. \A i \in Issue : retry'[i] = None \/ retry'[i] = retry[i]
    BY <2>1 DEF CancelRetry, TInv, TypeOK
  <2>3. QED
    BY <2>1, <2>2, StrandedFrame DEF InMail
<1>5. QED
  BY <1>1, <1>2, <1>3, <1>4 DEF Retry

LEMMA StrandedStep == TInv /\ NoStrandedRetry /\ [Next]_vars => NoStrandedRetry'
<1> SUFFICES ASSUME TInv, NoStrandedRetry, [Next]_vars PROVE NoStrandedRetry'
  OBVIOUS
<1>1. CASE HandleWorkerExit
  <2>1. \A i \in Issue : InMail(RetryTimerFired(i)) => InMail(RetryTimerFired(i))'
    BY <1>1, ConsumeKeeps DEF HandleWorkerExit, Receive, RetryTimerFired, TInv
  <2>2. \A i \in Issue : retry'[i] = retry[i] \/ retry'[i].armed
    BY <1>1 DEF HandleWorkerExit, Schedule, TInv, TypeOK
  <2>3. QED
    BY <2>1, <2>2, StrandedFrame
<1>2. CASE HandleCodexUpdate \/ HandleConfigReloaded \/ HandleShutdown
  <2>1. UNCHANGED retry
    BY <1>2 DEF HandleCodexUpdate, HandleConfigReloaded, HandleShutdown, stateVars
  <2>2. \A i \in Issue : InMail(RetryTimerFired(i)) => InMail(RetryTimerFired(i))'
    BY <1>2, ConsumeKeeps DEF HandleCodexUpdate, HandleConfigReloaded, HandleShutdown,
       Receive, RetryTimerFired, TInv
  <2>3. QED
    BY <2>1, <2>2, StrandedFrame
<1>3. CASE GracefulShutdown
  BY <1>3, StrandedFrame DEF GracefulShutdown, CancelAllRetries
<1>4. ASSUME NEW j \in Issue, RetryTimerFires(j) PROVE NoStrandedRetry'
  <2>1. InMail(RetryTimerFired(j))' /\ \A m : InMail(m) => InMail(m)'
    BY <1>4, PostKeeps DEF RetryTimerFires, TInv
  <2>2. \A i \in Issue \ {j} : retry'[i] = retry[i]
    BY <1>4 DEF RetryTimerFires, TInv, TypeOK
  <2>3. QED
    BY <2>1, <2>2 DEF NoStrandedRetry
<1>5. CASE TickTimerFires \/ \E i \in Issue : LooseTimerFires(i)
  <2>1. UNCHANGED retry /\ \E n : Post(n)
    BY <1>5 DEF TickTimerFires, LooseTimerFires, stateVars
  <2>2. QED
    BY <2>1, PostKeeps, StrandedFrame DEF TInv
<1>6. CASE \/ Outside \/ UNCHANGED vars
           \/ (\E i \in Issue : CleanupEnds(i) \/ GoesQuiet(i))
           \/ (\E w \in Worker : WorkerStep(w))
  <2>1. UNCHANGED retry /\ \A m : InMail(m) => InMail(m)'
    BY <1>6, OutsidePosts DEF stateVars, TInv
  <2>2. QED
    BY <2>1, StrandedFrame
<1>7. QED
  BY <1>1, <1>2, <1>3, <1>4, <1>5, <1>6, StrandedTick, StrandedRetry DEF Next, Dispatcher, Timers

\* An entry of the retry queue whose timer fired still has its message in the
\* mailbox: no superseded timer, exit or dispatch leaves a retry asleep.
THEOREM RetriesNotStranded == Spec => []NoStrandedRetry
<1>1. Init => NoStrandedRetry
  BY DEF Init, NoStrandedRetry
<1>2. QED
  BY <1>1, TypeInit, TypeStep, StrandedStep, PTL DEF Spec

(***************************************************************************)
(* Configurations.  ConfigCatchesUp alone is not inductive: what the last  *)
(* message will install must be what the watcher holds.                    *)
(***************************************************************************)
ReloadMail == MailOf("ConfigReloaded")

LastReloadIsHeld ==
  \A k \in ReloadMail : (\A j \in ReloadMail : j <= k) => mailbox[k].config = holder

ConfigInv == ConfigCatchesUp /\ LastReloadIsHeld

LEMMA ShiftedReloads ==
  ASSUME TypeOK, mailbox # <<>>, NEW s \in Seq(Message), mailbox' = Tail(mailbox) \o s,
         \A k \in DOMAIN s : s[k].type # "ConfigReloaded"
  PROVE  /\ ReloadMail \subseteq Nat \ {0} /\ ReloadMail' \subseteq Nat \ {0}
         /\ 1 \in ReloadMail <=> Head(mailbox).type = "ConfigReloaded"
         /\ \A k \in Nat \ {0} : k \in ReloadMail' <=> k + 1 \in ReloadMail
         /\ \A k \in ReloadMail' : mailbox'[k] = mailbox[k + 1]
<1>1. mailbox \in Seq(Message) /\ mailbox' \in Seq(Message) /\ Len(mailbox) > 0
  BY HeadFields DEF TypeOK
<1>2. /\ DOMAIN mailbox = 1..Len(mailbox) /\ DOMAIN mailbox' = 1..(Len(mailbox) - 1 + Len(s))
      /\ \A k \in 1..(Len(mailbox) - 1) : mailbox'[k] = mailbox[k + 1]
      /\ \A k \in DOMAIN mailbox' : k > Len(mailbox) - 1 => mailbox'[k] = s[k - (Len(mailbox) - 1)]
  BY <1>1
<1>3. \A k \in DOMAIN mailbox' : k > Len(mailbox) - 1 => mailbox'[k].type # "ConfigReloaded"
  BY <1>1, <1>2
<1>4. ReloadMail \subseteq Nat \ {0} /\ ReloadMail' \subseteq Nat \ {0}
  BY <1>1, <1>2 DEF ReloadMail, MailOf
<1>5. 1 \in ReloadMail <=> Head(mailbox).type = "ConfigReloaded"
  BY <1>1, <1>2 DEF ReloadMail, MailOf
<1>6. \A k \in ReloadMail' : k \in 1..(Len(mailbox) - 1)
  BY <1>1, <1>2, <1>3 DEF ReloadMail, MailOf
<1>7. \A k \in Nat \ {0} : k \in ReloadMail' <=> k + 1 \in ReloadMail
  BY <1>1, <1>2, <1>3 DEF ReloadMail, MailOf
<1>8. QED
  BY <1>2, <1>4, <1>5, <1>6, <1>7

LEMMA ConsumedReloads ==
  ASSUME TypeOK, mailbox # <<>>, Consume
  PROVE  /\ ReloadMail \subseteq Nat \ {0} /\ ReloadMail' \subseteq Nat \ {0}
         /\ 1 \in ReloadMail <=> Head(mailbox).type = "ConfigReloaded"
         /\ \A k \in Nat \ {0} : k \in ReloadMail' <=> k + 1 \in ReloadMail
         /\ \A k \in ReloadMail' : mailbox'[k] = mailbox[k + 1]
<1>1. Tail(mailbox) \in Seq(Message)
  BY HeadFields
<1>2. <<>> \in Seq(Message) /\ mailbox' = Tail(mailbox) \o <<>> /\ DOMAIN <<>> = {}
  BY <1>1 DEF Consume
<1>3. QED
  BY <1>2, ShiftedReloads

LEMMA PostedReloads ==
  ASSUME TypeOK, NEW n, Post(n)
  PROVE  /\ ReloadMail' = ReloadMail \cup
                             (IF n.type = "ConfigReloaded" THEN {Len(mailbox) + 1} ELSE {})
         /\ \A k \in ReloadMail : mailbox'[k] = mailbox[k] /\ k \in Nat /\ k <= Len(mailbox)
         /\ mailbox'[Len(mailbox) + 1] = n
<1>1. mailbox \in Seq(Message) /\ mailbox' = Append(mailbox, n)
  BY DEF TypeOK, Post
<1>2. /\ DOMAIN mailbox = 1..Len(mailbox) /\ DOMAIN mailbox' = 1..(Len(mailbox) + 1)
      /\ mailbox'[Len(mailbox) + 1] = n
      /\ \A k \in DOMAIN mailbox : mailbox'[k] = mailbox[k]
  BY <1>1
<1>3. QED
  BY <1>1, <1>2 DEF ReloadMail, MailOf

\* The configuration in use changes to the held one or not at all.
ConfigKept == UNCHANGED <<holder, maxAgents>> /\ config' \in {config, holder}

\* One message other than a reload is taken from the mailbox.
LEMMA ConfigShift ==
  ASSUME TypeOK, ConfigInv, ConfigKept, mailbox # <<>>, Head(mailbox).type # "ConfigReloaded",
         /\ ReloadMail \subseteq Nat \ {0} /\ ReloadMail' \subseteq Nat \ {0}
         /\ 1 \in ReloadMail <=> Head(mailbox).type = "ConfigReloaded"
         /\ \A k \in Nat \ {0} : k \in ReloadMail' <=> k + 1 \in ReloadMail
         /\ \A k \in ReloadMail' : mailbox'[k] = mailbox[k + 1]
  PROVE  ConfigInv'
<1>1. \A j \in ReloadMail : j \in Nat /\ j > 1 /\ j - 1 \in ReloadMail'
  <2>1. \A j \in ReloadMail : j \in Nat \ {0, 1}
    OBVIOUS
  <2>2. QED
    BY <2>1
<1>2. ReloadMail' = {} => ReloadMail = {}
  BY <1>1
<1>3. ConfigCatchesUp'
  BY <1>2 DEF ConfigInv, ConfigCatchesUp, ConfigKept, ReloadMail
<1>4. ASSUME NEW k \in ReloadMail', \A j \in ReloadMail' : j <= k PROVE mailbox'[k].config = holder'
  <2>1. k \in Nat \ {0} /\ k + 1 \in ReloadMail
    BY <1>4
  <2>2. \A j \in ReloadMail : j <= k + 1
    BY <1>1, <1>4, <2>1
  <2>3. QED
    BY <2>1, <2>2 DEF ConfigInv, LastReloadIsHeld, ConfigKept
<1>5. QED
  BY <1>3, <1>4 DEF ConfigInv, LastReloadIsHeld

\* Nothing happens to the mailbox.
LEMMA ConfigFrame ==
  ASSUME ConfigInv, ConfigKept, UNCHANGED mailbox
  PROVE  ConfigInv'
BY DEF ConfigInv, ConfigCatchesUp, LastReloadIsHeld, ConfigKept, ReloadMail, MailOf

\* A message other than a reload is posted.
LEMMA ConfigPost ==
  ASSUME TypeOK, ConfigInv, UNCHANGED <<config, holder, maxAgents>>,
         NEW n, Post(n), n.type # "ConfigReloaded"
  PROVE  ConfigInv'
<1>1. ReloadMail' = ReloadMail /\ \A k \in ReloadMail : mailbox'[k] = mailbox[k]
  BY PostedReloads
<1>2. QED
  BY <1>1 DEF ConfigInv, ConfigCatchesUp, LastReloadIsHeld, ReloadMail

\* AdoptConfig of the last waiting reload installs what the watcher holds.
LEMMA ConfigAdopted ==
  ASSUME TInv, ConfigInv, HandleConfigReloaded
  PROVE  ConfigInv'
<1>1. /\ mailbox # <<>> /\ Consume /\ Head(mailbox).type = "ConfigReloaded"
      /\ config' = Head(mailbox).config /\ maxAgents' = Head(mailbox).config.cap
      /\ UNCHANGED holder
  BY DEF HandleConfigReloaded, Receive, AdoptConfig, outsideVars
<1>2. /\ ReloadMail \subseteq Nat \ {0} /\ ReloadMail' \subseteq Nat \ {0} /\ 1 \in ReloadMail
      /\ \A k \in Nat \ {0} : k \in ReloadMail' <=> k + 1 \in ReloadMail
      /\ \A k \in ReloadMail' : mailbox'[k] = mailbox[k + 1]
  BY <1>1, ConsumedReloads DEF TInv
<1>3. \A j \in ReloadMail : j # 1 => j - 1 \in ReloadMail'
  <2>1. \A j \in ReloadMail : j # 1 => j - 1 \in Nat \ {0} /\ (j - 1) + 1 = j
    BY <1>2
  <2>2. QED
    BY <1>2, <2>1
<1>4. ASSUME ReloadMail' = {} PROVE config' = holder' /\ maxAgents' = holder'.cap
  <2>1. \A j \in ReloadMail : j <= 1
    BY <1>2, <1>3, <1>4
  <2>2. mailbox[1].config = holder
    BY <1>2, <2>1 DEF ConfigInv, LastReloadIsHeld
  <2>3. Head(mailbox) = mailbox[1]
    BY <1>1 DEF TInv, TypeOK
  <2>4. QED
    BY <1>1, <2>2, <2>3
<1>5. ASSUME NEW k \in ReloadMail', \A j \in ReloadMail' : j <= k PROVE mailbox'[k].config = holder'
  <2>1. k \in Nat \ {0} /\ k + 1 \in ReloadMail
    BY <1>2
  <2>2. \A j \in ReloadMail : j <= k + 1
    <3>1. TAKE j \in ReloadMail
    <3>2. j \in Nat /\ (j = 1 \/ j - 1 <= k)
      BY <1>2, <1>3, <1>5
    <3>3. QED
      BY <2>1, <3>2
  <2>3. QED
    BY <1>1, <1>2, <2>1, <2>2 DEF ConfigInv, LastReloadIsHeld
<1>6. QED
  BY <1>4, <1>5 DEF ConfigInv, ConfigCatchesUp, LastReloadIsHeld, ReloadMail

\* The watcher holds the configuration it announces.
LEMMA ConfigAnnounced ==
  ASSUME TInv, ConfigInv, NEW c \in Config, ReloadWorkflow(c)
  PROVE  ConfigInv'
<1>1. Post(ConfigReloaded(c)) /\ holder' = c
  BY DEF ReloadWorkflow
<1>2. /\ ReloadMail' = ReloadMail \cup {Len(mailbox) + 1}
      /\ \A k \in ReloadMail : k \in Nat /\ k <= Len(mailbox)
      /\ mailbox'[Len(mailbox) + 1].config = c
  BY <1>1, PostedReloads DEF ConfigReloaded, TInv
<1>3. Len(mailbox) \in Nat
  BY DEF TInv, TypeOK
<1>4. \A k \in ReloadMail' : (\A j \in ReloadMail' : j <= k) => k = Len(mailbox) + 1
  BY <1>2, <1>3
<1>5. QED
  BY <1>1, <1>2, <1>4 DEF ConfigInv, ConfigCatchesUp, LastReloadIsHeld, ReloadMail

LEMMA ConfigStep == TInv /\ ConfigInv /\ [Next]_vars => ConfigInv'
<1> SUFFICES ASSUME TInv, ConfigInv, [Next]_vars PROVE ConfigInv'
  OBVIOUS
<1>1. CASE ReconcileStalled
  <2>1. PICK s \in Seq(Message) : /\ mailbox' = Tail(mailbox) \o s
                                  /\ \A k \in DOMAIN s : s[k].type # "ConfigReloaded"
    BY <1>1, Reconciling
  <2>2. mailbox # <<>> /\ Head(mailbox).type # "ConfigReloaded"
    BY <1>1, Reconciling
  <2>3. ConfigKept
    BY <1>1 DEF ReconcileStalled, LoadConfig, ConfigKept, stateVars, outsideVars
  <2>4. QED
    BY <2>1, <2>2, <2>3, ShiftedReloads, ConfigShift DEF TInv
<1>2. CASE HandleRetryTimer \/ HandleWorkerExit \/ HandleCodexUpdate \/ HandleShutdown
  <2>1. mailbox # <<>> /\ Consume /\ Head(mailbox).type # "ConfigReloaded"
    BY <1>2 DEF HandleRetryTimer, HandleWorkerExit, HandleCodexUpdate, HandleShutdown, Receive
  <2>2. ConfigKept
    BY <1>2 DEF HandleRetryTimer, HandleWorkerExit, HandleCodexUpdate, HandleShutdown,
       ConfigKept, stateVars, outsideVars
  <2>3. QED
    BY <2>1, <2>2, ConsumedReloads, ConfigShift DEF TInv
<1>3. CASE \/ RefreshFails \/ RefreshReturns \/ FetchFails \/ FetchReturns \/ EndTick \/ GateDenies
           \/ (\E i \in Issue : SkipFullIssue(i) \/ AskGate(i) \/ CleanupEnds(i) \/ GoesQuiet(i))
           \/ GracefulShutdown \/ UNCHANGED vars
  <2>1. ConfigKept /\ UNCHANGED mailbox
    BY <1>3 DEF RefreshFails, RefreshReturns, FetchFails, FetchReturns, EndTick, GateDenies,
       SkipFullIssue, AskGate, CleanupEnds, GoesQuiet, GracefulShutdown, LoadConfig,
       ConfigKept, vars, stateVars, outsideVars
  <2>2. QED
    BY <2>1, ConfigFrame
<1>4. CASE \/ RetryFetchFails \/ RetryFindsNoSlot \/ RetryIssueAbsent
           \/ (\E w \in Worker : GateAllows(w) \/ RetryDispatches(w))
           \/ (\E i \in Issue, s \in State : UserMoves(i, s))
           \/ (\E b \in SUBSET Blockable : UserBlocks(b))
           \/ (\E w \in Worker : \/ WorkerOpensTurn(w) \/ WorkerConcludes(w)
                                 \/ CancelledWorkerSettles(w))
  <2>1. ConfigKept /\ UNCHANGED mailbox
    BY <1>4 DEF RetryFetchFails, RetryFindsNoSlot, RetryIssueAbsent, GateAllows,
       RetryDispatches, Requeue, UserMoves, UserBlocks, WorkerOpensTurn, WorkerConcludes,
       CancelledWorkerSettles, WorkerSettles, ConfigKept, stateVars, outsideVars
  <2>2. QED
    BY <2>1, ConfigFrame
<1>5. CASE \/ TickTimerFires \/ (\E i \in Issue : RetryTimerFires(i) \/ LooseTimerFires(i))
           \/ PostRefresh \/ RequestShutdown
           \/ (\E w \in Worker : WorkerExits(w) \/ WorkerReports(w))
  <2>1. UNCHANGED <<config, holder, maxAgents>>
    BY <1>5 DEF TickTimerFires, RetryTimerFires, LooseTimerFires, PostRefresh, RequestShutdown,
       WorkerExits, WorkerReports, WorkerSettles, stateVars, outsideVars
  <2>2. \/ Post(PollTick) \/ Post(Shutdown) \/ (\E i \in Issue : Post(RetryTimerFired(i)))
        \/ (\E w \in Worker : Post(WorkerExit(job[w], w, phase[w] = "succeeded"))
                              \/ Post(CodexUpdate(job[w])))
    BY <1>5 DEF TickTimerFires, RetryTimerFires, LooseTimerFires, PostRefresh,
       RequestShutdown, WorkerExits, WorkerReports
  <2>3. /\ PollTick.type # "ConfigReloaded" /\ Shutdown.type # "ConfigReloaded"
        /\ \A i : /\ RetryTimerFired(i).type # "ConfigReloaded"
                  /\ CodexUpdate(i).type # "ConfigReloaded"
                  /\ \A w, ok : WorkerExit(i, w, ok).type # "ConfigReloaded"
    BY DEF PollTick, Shutdown, RetryTimerFired, CodexUpdate, WorkerExit
  <2>4. QED
    BY <2>1, <2>2, <2>3, ConfigPost DEF TInv
<1>6. QED
  BY <1>1, <1>2, <1>3, <1>4, <1>5, ConfigAdopted, ConfigAnnounced
  DEF Next, Dispatcher, Tick, Retry, Timers, Outside, WorkerStep

\* The defensive reload of a tick installs a configuration ahead of the message
\* that announces it, and late messages install older ones in between; when the
\* last one has been handled, the dispatcher has the watcher's latest.
THEOREM ConfigsConverge == Spec => []ConfigCatchesUp
<1>1. Init => ConfigInv
  <2>1. Init => MailOf("ConfigReloaded") = {}
    BY DEF Init, MailOf, PollTick
  <2>2. QED
    BY <2>1 DEF Init, ConfigInv, ConfigCatchesUp, LastReloadIsHeld, ReloadMail
<1>2. ConfigInv => ConfigCatchesUp
  BY DEF ConfigInv
<1>3. QED
  BY <1>1, <1>2, TypeInit, TypeStep, ConfigStep, PTL DEF Spec

(***************************************************************************)
(* While it is Calm: one tick at a time, one task for an issue.            *)
(* Every exit in the mailbox is that of the entry its issue has, every     *)
(* task at work has such an entry, and a retry waits for its own timer.    *)
(* These facts need each other: QuietInv says, beside them, in which order *)
(* the messages of an issue stand, as the handlers only look at the issue. *)
(***************************************************************************)
TickAt(p) == p \in DOMAIN mailbox /\ mailbox[p].type = "PollTick"
FiredAt(p, i) ==
  p \in DOMAIN mailbox /\ mailbox[p].type = "RetryTimerFired" /\ mailbox[p].issue = i
ExitAt(k, i, w) ==
  /\ k \in DOMAIN mailbox /\ mailbox[k].type = "WorkerExit"
  /\ mailbox[k].issue = i /\ mailbox[k].worker = w

\* A timer, a queued PollTick or a tick under way, and only one of them.
OneTick ==
  pc \notin {"stopped", "drained"} =>
    /\ \A p, q : TickAt(p) /\ TickAt(q) => p = q
    /\ ticks > 0 => (\A p : ~TickAt(p)) /\ ~InTick
    /\ InTick => \A p : ~TickAt(p)
    /\ ticks > 0 \/ InTick \/ \E p : TickAt(p)

\* An exit is that of the entry, and its task is at work no more.
ExitsSettled ==
  \A i \in Issue : \A k, w : ExitAt(k, i, w) =>
    w \notin Busy /\ (running[i] # None => running[i].worker = w)

\* An exit that removes nothing, since the entry went or will go with an
\* earlier one, is handled before the next tick.
StaleExitsFirst ==
  \A i \in Issue : \A k, w, p : ExitAt(k, i, w) /\ TickAt(p) /\ p < k =>
    running[i] # None /\ \A j, v : ExitAt(j, i, v) => k <= j

\* Before the exit of an entry stand the retries it superseded, behind an exit
\* that removes nothing the retry that a former one has scheduled.
ExitsInOrder ==
  \A i \in Issue : \A k, w, p : ExitAt(k, i, w) /\ FiredAt(p, i) => (p < k <=> running[i] # None)

\* During a tick every exit in the mailbox is still awaited by its entry.
TickExits == InTick => \A i \in Issue : \A k, w : ExitAt(k, i, w) => running[i] # None

\* While a retry is looked up nothing else of its issue is in the mailbox.
RetryAlone ==
  pc = "retryFetch" => (\A k, w : ~ExitAt(k, current, w)) /\ \A p : ~FiredAt(p, current)

\* A timer that fired posted one message, and nothing of its entry is armed.
FiredOnce ==
  \A i \in Issue : \A p : FiredAt(p, i) =>
    /\ \A q : FiredAt(q, i) => p = q
    /\ retry[i] # None => ~retry[i].armed

TasksOK ==
  /\ ExitsSettled /\ StaleExitsFirst /\ ExitsInOrder /\ FiredOnce
  /\ WorkersOwned /\ BackoffHonoured

QuietInv == OneTick /\ TickExits /\ RetryAlone /\ TasksOK

-----------------------------------------------------------------------------
(* Where the messages are. *)

LEMMA Places ==
  ASSUME TypeOK
  PROVE  /\ \A p : TickAt(p) => p \in Nat \ {0}
         /\ \A p, i : FiredAt(p, i) => p \in Nat \ {0} /\ i \in Issue
         /\ \A k, i, w : ExitAt(k, i, w) => k \in Nat \ {0} /\ i \in Issue /\ w \in Worker
<1>1. mailbox \in Seq(Message)
  BY DEF TypeOK
<1>2. \A k \in DOMAIN mailbox : k \in Nat \ {0} /\ mailbox[k] \in Message
  BY <1>1
<1>3. \A m \in Message : /\ m.type \in {"RetryTimerFired", "WorkerExit"} => m.issue \in Issue
                         /\ m.type = "WorkerExit" => m.worker \in Worker
  BY DEF Message
<1>4. QED
  BY <1>2, <1>3 DEF TickAt, FiredAt, ExitAt

LEMMA SameMail ==
  ASSUME UNCHANGED mailbox
  PROVE  /\ \A p : TickAt(p)' <=> TickAt(p)
         /\ \A p, i : FiredAt(p, i)' <=> FiredAt(p, i)
         /\ \A k, i, w : ExitAt(k, i, w)' <=> ExitAt(k, i, w)
BY DEF TickAt, FiredAt, ExitAt

\* The head is consumed; exits may be posted behind the rest.
LEMMA ShiftedMail ==
  ASSUME TypeOK, mailbox # <<>>, NEW s \in Seq(Message), mailbox' = Tail(mailbox) \o s,
         \A k \in DOMAIN s : s[k].type = "WorkerExit"
  PROVE  /\ \A p : TickAt(p)' <=> p \in Nat \ {0} /\ TickAt(p + 1)
         /\ \A p, i : FiredAt(p, i)' =>
              p \in Nat \ {0} /\ FiredAt(p + 1, i) /\ p < Len(mailbox)
         /\ \A k, i, w : ExitAt(k, i, w)' =>
              /\ k \in Nat \ {0}
              /\ \/ ExitAt(k + 1, i, w)
                 \/ k >= Len(mailbox) /\ \E j \in DOMAIN s : s[j].issue = i /\ s[j].worker = w
<1>1. mailbox \in Seq(Message) /\ mailbox' \in Seq(Message) /\ Len(mailbox) > 0
  BY HeadFields DEF TypeOK
<1>2. /\ DOMAIN mailbox = 1..Len(mailbox) /\ DOMAIN mailbox' = 1..(Len(mailbox) - 1 + Len(s))
      /\ DOMAIN s = 1..Len(s) /\ Len(s) \in Nat /\ Len(mailbox) \in Nat
      /\ \A k \in 1..(Len(mailbox) - 1) : mailbox'[k] = mailbox[k + 1]
      /\ \A k \in DOMAIN mailbox' : k > Len(mailbox) - 1 => mailbox'[k] = s[k - (Len(mailbox) - 1)]
  BY <1>1
<1>3. \A k \in DOMAIN mailbox' : k > Len(mailbox) - 1 =>
        /\ k - (Len(mailbox) - 1) \in DOMAIN s /\ k >= Len(mailbox)
        /\ mailbox'[k].type = "WorkerExit"
  BY <1>1, <1>2
<1>4. \A k \in DOMAIN mailbox' :
        k <= Len(mailbox) - 1 \/ k > Len(mailbox) - 1
  BY <1>2
<1>5. \A k : k \in 1..(Len(mailbox) - 1) <=> k \in Nat \ {0} /\ k + 1 \in DOMAIN mailbox
  BY <1>2
<1>6. \A p : TickAt(p)' <=> p \in Nat \ {0} /\ TickAt(p + 1)
  BY <1>2, <1>3, <1>5 DEF TickAt
<1>7. \A p, i : FiredAt(p, i)' => p \in Nat \ {0} /\ FiredAt(p + 1, i) /\ p < Len(mailbox)
  BY <1>2, <1>3, <1>5 DEF FiredAt
<1>8. ASSUME NEW k, NEW i, NEW w, ExitAt(k, i, w)'
      PROVE  /\ k \in Nat \ {0}
             /\ \/ ExitAt(k + 1, i, w)
                \/ k >= Len(mailbox) /\ \E j \in DOMAIN s : s[j].issue = i /\ s[j].worker = w
  BY <1>2, <1>3, <1>4, <1>5, <1>8 DEF ExitAt
<1>9. QED
  BY <1>6, <1>7, <1>8

LEMMA ConsumedMail ==
  ASSUME TypeOK, mailbox # <<>>, Consume
  PROVE  /\ \A p : TickAt(p)' <=> p \in Nat \ {0} /\ TickAt(p + 1)
         /\ \A p, i : FiredAt(p, i)' => p \in Nat \ {0} /\ FiredAt(p + 1, i)
         /\ \A k, i, w : ExitAt(k, i, w)' => k \in Nat \ {0} /\ ExitAt(k + 1, i, w)
<1>1. Tail(mailbox) \in Seq(Message)
  BY HeadFields
<1>2. <<>> \in Seq(Message) /\ mailbox' = Tail(mailbox) \o <<>> /\ DOMAIN <<>> = {}
  BY <1>1 DEF Consume
<1>3. QED
  BY <1>2, ShiftedMail

LEMMA HeadAt ==
  ASSUME TypeOK, mailbox # <<>>
  PROVE  LET m == Head(mailbox) IN
         /\ TickAt(1) <=> m.type = "PollTick"
         /\ m.type = "RetryTimerFired" => FiredAt(1, m.issue)
         /\ m.type = "WorkerExit" => ExitAt(1, m.issue, m.worker)
<1>1. mailbox \in Seq(Message) /\ 1 \in DOMAIN mailbox /\ mailbox[1] = Head(mailbox)
  BY DEF TypeOK
<1>2. QED
  BY <1>1 DEF TickAt, FiredAt, ExitAt

\* What is posted is behind everything else.
LEMMA PostedMail ==
  ASSUME TypeOK, NEW m, Post(m)
  PROVE  \E n \in Nat \ {0} :
           /\ \A p : TickAt(p)' <=> TickAt(p) \/ (p = n /\ m.type = "PollTick")
           /\ \A p, i : FiredAt(p, i)' =>
                FiredAt(p, i) \/ (p = n /\ m.type = "RetryTimerFired" /\ m.issue = i)
           /\ \A k, i, w : ExitAt(k, i, w)' =>
                \/ ExitAt(k, i, w)
                \/ k = n /\ m.type = "WorkerExit" /\ m.issue = i /\ m.worker = w
           /\ \A p : TickAt(p) => p < n
           /\ \A p, i : FiredAt(p, i) => p < n
           /\ \A k, i, w : ExitAt(k, i, w) => k < n
<1>1. mailbox \in Seq(Message) /\ mailbox' = Append(mailbox, m)
  BY DEF TypeOK, Post
<1> DEFINE n == Len(mailbox) + 1
<1>2. /\ DOMAIN mailbox = 1..Len(mailbox) /\ DOMAIN mailbox' = DOMAIN mailbox \cup {n}
      /\ mailbox'[n] = m /\ n \in Nat \ {0} /\ n \notin DOMAIN mailbox
      /\ \A k \in DOMAIN mailbox : mailbox'[k] = mailbox[k]
  BY <1>1
<1>3. \A k \in DOMAIN mailbox : k < n
  BY <1>2
<1> HIDE DEF n
<1>4. QED
  BY <1>2, <1>3 DEF TickAt, FiredAt, ExitAt
-----------------------------------------------------------------------------
(* Steps that leave the mailbox alone. *)

LEMMA BusyJobs ==
  ASSUME TInv, WorkersOwned, NEW w \in Busy
  PROVE  /\ w \in Worker /\ job[w] \in Issue /\ job[w] \in Running
         /\ running[job[w]].worker = w
BY DEF TInv, LocalsOK, Busy, WorkersOwned, Running

\* No task is put to work and no entry gets another one.
LEMMA QuietTasks ==
  ASSUME TInv, TasksOK, UNCHANGED <<mailbox, retry, loose>>,
         \A i \in Issue : /\ running'[i] = None <=> running[i] = None
                          /\ running[i] # None => running'[i].worker = running[i].worker,
         \A w \in Busy' : w \in Busy /\ job'[w] = job[w]
  PROVE  TasksOK'
<1>1. WorkersOwned'
  BY BusyJobs DEF TasksOK, WorkersOwned, Running
<1>2. BackoffHonoured'
  BY DEF TasksOK, BackoffHonoured
<1>3. ExitsSettled' /\ StaleExitsFirst' /\ ExitsInOrder' /\ FiredOnce'
  BY SameMail DEF TasksOK, ExitsSettled, StaleExitsFirst, ExitsInOrder, FiredOnce
<1>4. QED
  BY <1>1, <1>2, <1>3 DEF TasksOK

\* A task that was cancelled is not at work, also if it goes on.
LEMMA CancelledTasks ==
  ASSUME TypeOK, NEW ws, Cancel(ws), UNCHANGED job
  PROVE  /\ \A w \in Busy' : w \in Busy /\ job'[w] = job[w]
         /\ \A w \in ws : w \notin Busy'
<1>1. PICK deaf \in SUBSET {w \in ws : MayBeInAclose(w)} :
        /\ phase' = [w \in Worker |-> IF w \in ws \ deaf /\ phase[w] # "settled"
                                      THEN "cancelling" ELSE phase[w]]
        /\ swallowed' = swallowed \cup deaf
  BY DEF Cancel
<1>2. QED
  BY <1>1 DEF TypeOK, Busy

\* A dispatch takes a task nothing refers to.
LEMMA QuietDispatch ==
  ASSUME TInv, TasksOK, UNCHANGED <<mailbox, loose>>,
         NEW i \in Issue, i \notin Running, \A k, v : ~ExitAt(k, i, v),
         NEW s \in State, NEW a \in Attempt, NEW w \in Worker, DispatchIssue(i, s, a, w)
  PROVE  TasksOK'
<1> DEFINE entry == [worker |-> w, attempt |-> a, state |-> s]
<1>1. /\ running' = [running EXCEPT ![i] = entry] /\ running \in [Issue -> RunningEntry \cup {None}]
      /\ phase' = [phase EXCEPT ![w] = "starting"] /\ phase \in [Worker -> Phase]
      /\ job' = [job EXCEPT ![w] = i] /\ job \in [Worker -> Issue \cup {None}]
      /\ retry' = [retry EXCEPT ![i] = None] /\ retry \in [Issue -> RetryEntry \cup {None}]
  BY DEF DispatchIssue, CancelRetry, TInv, TypeOK
<1>2. /\ running'[i] # None /\ running'[i].worker = w
      /\ \A j \in Issue \ {i} : running'[j] = running[j]
  BY <1>1, NoneAssumption DEF RunningEntry
<1>3. /\ retry'[i] = None /\ \A j \in Issue \ {i} : retry'[j] = retry[j]
  BY <1>1
<1>4. /\ Busy' = Busy \cup {w} /\ w \notin Busy
      /\ job'[w] = i /\ \A v \in Busy : job'[v] = job[v]
  BY <1>1 DEF Busy, DispatchIssue, Free
<1>5. \A v \in Busy : job[v] \in Issue \ {i}
  BY BusyJobs DEF TasksOK
<1>6. WorkersOwned'
  BY <1>2, <1>4, <1>5 DEF TasksOK, WorkersOwned
<1>7. \A k, j : ~ExitAt(k, j, w)
  BY DEF DispatchIssue, Free, MailOf, ExitAt
<1>8. ExitsSettled' /\ StaleExitsFirst' /\ ExitsInOrder' /\ FiredOnce'
  <2> USE SameMail DEF TasksOK, ExitsSettled, StaleExitsFirst, ExitsInOrder, FiredOnce
  <2>1. ExitsSettled'
    BY <1>2, <1>4, <1>7
  <2>2. StaleExitsFirst' /\ ExitsInOrder'
    BY <1>2
  <2>3. FiredOnce'
    BY <1>3
  <2>4. QED
    BY <2>1, <2>2, <2>3
<1>9. BackoffHonoured'
  BY DEF TasksOK, BackoffHonoured
<1>10. QED
  BY <1>6, <1>8, <1>9 DEF TasksOK

-----------------------------------------------------------------------------
(* on_tick *)

LEMMA QuietReconcile ==
  ASSUME TInv, TickChainAlive, QuietInv, ReconcileStalled
  PROVE  QuietInv'
<1>1. PICK order \in SetToSeqs(Stalled) :
        mailbox' = Tail(mailbox) \o [k \in DOMAIN order |-> StallExit(order[k])]
  BY DEF ReconcileStalled
<1> DEFINE s == [k \in DOMAIN order |-> StallExit(order[k])]
<1>2. /\ s \in Seq(Message) /\ DOMAIN s = DOMAIN order
      /\ \A k \in DOMAIN s : /\ s[k].type = "WorkerExit" /\ order[k] \in Stalled
                             /\ s[k].issue = order[k] /\ s[k].worker = running[order[k]].worker
  BY StallExits DEF TInv, StallExit, WorkerExit, SetToSeqs
<1> HIDE DEF s
<1>3. /\ mailbox # <<>> /\ Head(mailbox).type = "PollTick" /\ pc = "recv"
      /\ mailbox' = Tail(mailbox) \o s
      /\ UNCHANGED <<running, retry, loose, ticks, job>> /\ Cancel(HandlesOf(Stalled))
      /\ pc' \in {"fetch", "refresh"}
  BY <1>1 DEF ReconcileStalled, Receive, stateVars, LoadConfig, s
<1>4. TickAt(1) /\ Len(mailbox) \in Nat /\ Len(mailbox) > 0
  BY <1>3, HeadAt DEF TInv, TypeOK
<1>5. ticks = 0 /\ \A p : TickAt(p) => p = 1
  BY <1>3, <1>4 DEF QuietInv, OneTick, TInv, TypeOK
<1>6. /\ \A p : TickAt(p)' <=> p \in Nat \ {0} /\ TickAt(p + 1)
      /\ \A p, i : FiredAt(p, i)' => p \in Nat \ {0} /\ FiredAt(p + 1, i) /\ p < Len(mailbox)
      /\ \A k, i, w : ExitAt(k, i, w)' =>
           /\ k \in Nat \ {0}
           /\ \/ ExitAt(k + 1, i, w)
              \/ k >= Len(mailbox) /\ \E j \in DOMAIN s : s[j].issue = i /\ s[j].worker = w
  BY <1>2, <1>3, ShiftedMail DEF TInv
<1>7. \A p : ~TickAt(p)'
  BY <1>5, <1>6
<1>8. \A k, i, w : ExitAt(k, i, w)' =>
        \/ k \in Nat \ {0} /\ ExitAt(k + 1, i, w)
        \/ /\ k \in Nat \ {0} /\ k >= Len(mailbox)
           /\ i \in Stalled /\ running[i] # None /\ w = running[i].worker
  BY <1>2, <1>6 DEF Stalled, Running
<1>9. /\ \A w \in Busy' : w \in Busy /\ job'[w] = job[w]
      /\ \A i \in Stalled : running[i].worker \notin Busy'
  BY <1>3, CancelledTasks DEF TInv, HandlesOf
<1>10. \A k, i, w : ExitAt(k, i, w)' => running[i] # None
  <2> SUFFICES ASSUME NEW k, NEW i, NEW w, k \in Nat \ {0}, ExitAt(k + 1, i, w)
               PROVE running[i] # None
    BY <1>8
  <2>1. i \in Issue /\ 1 < k + 1
    BY Places DEF TInv
  <2>2. StaleExitsFirst
    BY DEF QuietInv, TasksOK
  <2>3. QED
    BY <1>4, <2>1, <2>2 DEF StaleExitsFirst
<1>11. OneTick' /\ TickExits' /\ RetryAlone'
  BY <1>3, <1>5, <1>7, <1>10 DEF OneTick, TickExits, RetryAlone, InTick
<1>12. ExitsSettled'
  BY <1>3, <1>8, <1>9 DEF QuietInv, TasksOK, ExitsSettled
<1>13. StaleExitsFirst'
  BY <1>7 DEF StaleExitsFirst
<1>14. ExitsInOrder'
  <2> SUFFICES ASSUME NEW i \in Issue, NEW k, NEW w, NEW p, ExitAt(k, i, w)', FiredAt(p, i)'
               PROVE  p < k
    BY <1>3, <1>10 DEF ExitsInOrder
  <2>1. p \in Nat \ {0} /\ FiredAt(p + 1, i) /\ p < Len(mailbox) /\ k \in Nat \ {0}
    BY <1>6
  <2>2. CASE ExitAt(k + 1, i, w)
    <3>1. p + 1 < k + 1
      BY <1>3, <1>10, <2>1, <2>2 DEF QuietInv, TasksOK, ExitsInOrder
    <3>2. QED
      BY <2>1, <3>1
  <2>3. CASE k >= Len(mailbox)
    BY <1>4, <2>1, <2>3
  <2>4. QED
    BY <1>6, <2>2, <2>3
<1>15. FiredOnce'
  <2> SUFFICES ASSUME NEW i \in Issue, NEW p, FiredAt(p, i)'
               PROVE  /\ \A q : FiredAt(q, i)' => p = q
                      /\ retry[i] # None => ~retry[i].armed
    BY <1>3 DEF FiredOnce
  <2>1. p \in Nat /\ FiredAt(p + 1, i) /\ \A q : FiredAt(q, i)' => q \in Nat /\ FiredAt(q + 1, i)
    BY <1>6
  <2>2. \A q : FiredAt(q, i)' => q \in Nat /\ p + 1 = q + 1
    BY <2>1 DEF QuietInv, TasksOK, FiredOnce
  <2>3. QED
    BY <2>1, <2>2 DEF QuietInv, TasksOK, FiredOnce
<1>16. WorkersOwned' /\ BackoffHonoured'
  BY <1>3, <1>9 DEF QuietInv, TasksOK, WorkersOwned, BackoffHonoured
<1>17. QED
  BY <1>11, <1>12, <1>13, <1>14, <1>15, <1>16 DEF QuietInv, TasksOK

\* The steps of a tick, and its end.
LEMMA TickGoesOn ==
  ASSUME QuietInv, TInv, InTick, UNCHANGED mailbox,
         \/ InTick' /\ UNCHANGED ticks
         \/ pc' = "recv" /\ ticks' = 1,
         \A i \in Issue : running[i] # None => running'[i] # None
  PROVE  OneTick' /\ TickExits' /\ RetryAlone'
<1>1. pc \notin {"stopped", "drained"} /\ ticks = 0 /\ \A p : ~TickAt(p)'
  BY SameMail DEF InTick, QuietInv, OneTick, TInv, TypeOK
<1>2. OneTick'
  BY <1>1 DEF OneTick, InTick
<1>3. TickExits' /\ RetryAlone'
  BY SameMail DEF TickExits, RetryAlone, QuietInv, InTick
<1>4. QED
  BY <1>2, <1>3

LEMMA QuietTick ==
  ASSUME TInv, ClaimInv, TickChainAlive, QuietInv, Tick
  PROVE  QuietInv'
<1> USE DEF TInv
<1>1. ASSUME InTick, UNCHANGED <<mailbox, running, retry, loose, taskVars>>,
             (InTick' /\ UNCHANGED ticks) \/ (pc' = "recv" /\ ticks' = 1)
      PROVE  QuietInv'
  <2>1. \A w \in Busy' : w \in Busy /\ job'[w] = job[w]
    BY <1>1 DEF Busy, taskVars
  <2>2. QED
    BY <1>1, <2>1, TickGoesOn, QuietTasks DEF QuietInv
<1>2. CASE ReconcileStalled
  BY <1>2, QuietReconcile
<1>3. CASE RefreshFails \/ FetchFails \/ FetchReturns \/ EndTick \/ GateDenies
  <2>1. /\ InTick /\ UNCHANGED <<mailbox, running, retry, loose, taskVars>>
        /\ (InTick' /\ UNCHANGED ticks) \/ (pc' = "recv" /\ ticks' = 1)
    BY <1>3
    DEF RefreshFails, FetchFails, FetchReturns, EndTick, GateDenies, LeaveGate, LoadConfig,
        ScheduleNextTick, InTick, stateVars
  <2>2. QED
    BY <1>1, <2>1
<1>4. ASSUME NEW i \in Issue, SkipFullIssue(i) \/ AskGate(i) PROVE QuietInv'
  <2>1. /\ InTick /\ UNCHANGED <<mailbox, running, retry, loose, taskVars>>
        /\ (InTick' /\ UNCHANGED ticks)
    BY <1>4 DEF SkipFullIssue, AskGate, InTick, stateVars
  <2>2. QED
    BY <1>1, <2>1
<1>5. CASE RefreshReturns
  <2>1. /\ UNCHANGED <<mailbox, retry, loose, ticks, job>> /\ Cancel(HandlesOf(Gone))
        /\ InTick /\ InTick'
    BY <1>5 DEF RefreshReturns, LoadConfig, InTick
  <2>2. \A i \in Issue : /\ running'[i] = None <=> running[i] = None
                         /\ running[i] # None => running'[i].worker = running[i].worker
    <3> SUFFICES ASSUME NEW i \in Issue
                 PROVE  /\ running'[i] = None <=> running[i] = None
                        /\ running[i] # None => running'[i].worker = running[i].worker
      OBVIOUS
    <3>1. CASE running'[i] = running[i]
      BY <3>1
    <3>2. CASE /\ running[i] \in RunningEntry
               /\ running'[i] = [running[i] EXCEPT !.state = tracker[i]]
      <4>1. \A e \in RunningEntry, t \in State :
              [e EXCEPT !.state = t] \in RunningEntry /\ [e EXCEPT !.state = t].worker = e.worker
        BY DEF RunningEntry
      <4>2. tracker[i] \in State
        BY DEF TypeOK
      <4>3. running'[i] \in RunningEntry /\ running'[i].worker = running[i].worker
        BY <3>2, <4>1, <4>2
      <4>4. QED
        BY <3>2, <4>3, NoneAssumption
    <3>3. QED
      BY <1>5, <3>1, <3>2 DEF RefreshReturns, Running, TypeOK
  <2>3. QED
    BY <2>1, <2>2, CancelledTasks, TickGoesOn, QuietTasks DEF QuietInv
<1>6. ASSUME NEW w \in Worker, GateAllows(w) PROVE QuietInv'
  <2>1. /\ current \in Issue /\ eligible[current] \in State /\ current \notin Running
        /\ UNCHANGED <<mailbox, loose, ticks>> /\ InTick /\ InTick'
        /\ DispatchIssue(current, eligible[current], 1, w)
    <3>1. pc = "gate" /\ current \in Issue /\ eligible[current] \in State
      BY <1>6 DEF GateAllows, LeaveGate, LocalsOK
    <3>2. eligible[current] # None
      BY <3>1, StatesAssumption
    <3>3. QED
      BY <1>6, <3>1, <3>2 DEF GateAllows, LeaveGate, ClaimInv, EligibleIdle, InTick
  <2>2. \A k, v : ~ExitAt(k, current, v)
    BY <2>1 DEF QuietInv, TickExits, Running
  <2>3. 1 \in Attempt
    BY ConfigAssumption DEF Attempt
  <2>4. TasksOK'
    BY <2>1, <2>2, <2>3, QuietDispatch DEF QuietInv
  <2>5. \A i \in Issue : running[i] # None => running'[i] # None
    <3>1. Running' = Running \cup {current}
      BY <2>1, <2>3, Dispatching
    <3>2. QED
      BY <3>1 DEF Running
  <2>6. QED
    BY <2>1, <2>4, <2>5, TickGoesOn DEF QuietInv
<1>7. QED
  BY <1>2, <1>3, <1>4, <1>5, <1>6 DEF Tick
-----------------------------------------------------------------------------
(* The other messages. *)

LEMMA ConsumedTick ==
  ASSUME TInv, TickChainAlive, QuietInv, pc = "recv", mailbox # <<>>, Consume,
         Head(mailbox).type # "PollTick",
         (pc' \in {"recv", "retryFetch"} /\ UNCHANGED ticks) \/ pc' = "stopped"
  PROVE  OneTick' /\ TickExits'
<1>1. ~TickAt(1) /\ \A p : TickAt(p)' <=> p \in Nat \ {0} /\ TickAt(p + 1)
  BY HeadAt, ConsumedMail DEF TInv
<1>2. OneTick /\ ~InTick /\ ~InTick'
  BY DEF QuietInv, InTick
<1>3. TickExits'
  BY <1>2 DEF TickExits
<1>4. CASE pc' = "stopped"
  BY <1>3, <1>4 DEF OneTick
<1>5. CASE pc' \in {"recv", "retryFetch"} /\ UNCHANGED ticks
  <2>1. \A p, q : TickAt(p)' /\ TickAt(q)' => p = q
    <3> SUFFICES ASSUME NEW p, NEW q, TickAt(p)', TickAt(q)' PROVE p = q
      OBVIOUS
    <3>1. p \in Nat /\ q \in Nat /\ TickAt(p + 1) /\ TickAt(q + 1)
      BY <1>1
    <3>2. p + 1 = q + 1
      BY <1>2, <3>1 DEF OneTick
    <3>3. QED
      BY <3>1, <3>2
  <2>2. ticks > 0 => \A p : ~TickAt(p)'
    BY <1>1, <1>2 DEF OneTick
  <2>3. ticks > 0 \/ \E p : TickAt(p)'
    <3>1. CASE ticks > 0
      BY <3>1
    <3>2. ASSUME NEW p, TickAt(p) PROVE TickAt(p - 1)'
      <4>1. p \in Nat \ {0} /\ p # 1
        BY <1>1, <3>2, Places DEF TInv
      <4>2. p - 1 \in Nat \ {0} /\ (p - 1) + 1 = p
        BY <4>1
      <4>3. QED
        BY <1>1, <3>2, <4>2
    <3>3. QED
      BY <1>2, <3>1, <3>2 DEF OneTick
  <2>4. QED
    BY <1>2, <1>3, <1>5, <2>1, <2>2, <2>3 DEF OneTick
<1>6. QED
  BY <1>4, <1>5

\* What is left of the mailbox keeps its order.
LEMMA ConsumedTasks ==
  ASSUME TInv, TasksOK, mailbox # <<>>, Consume, UNCHANGED <<running, loose, taskVars>>,
         \A i \in Issue : retry'[i] = retry[i] \/ retry'[i] = None
  PROVE  TasksOK'
<1>1. /\ \A p : TickAt(p)' <=> p \in Nat \ {0} /\ TickAt(p + 1)
      /\ \A p, i : FiredAt(p, i)' => p \in Nat \ {0} /\ FiredAt(p + 1, i)
      /\ \A k, i, w : ExitAt(k, i, w)' => k \in Nat \ {0} /\ ExitAt(k + 1, i, w)
  BY ConsumedMail DEF TInv
<1>2. UNCHANGED Busy
  BY DEF Busy, taskVars
<1>3. ExitsSettled'
  BY <1>1, <1>2 DEF TasksOK, ExitsSettled
<1>4. StaleExitsFirst'
  <2> SUFFICES ASSUME NEW i \in Issue, NEW k, NEW w, NEW p,
                      ExitAt(k, i, w)', TickAt(p)', p < k
               PROVE  running[i] # None /\ \A j, v : ExitAt(j, i, v)' => k <= j
    BY DEF StaleExitsFirst
  <2>1. /\ k \in Nat /\ p \in Nat /\ ExitAt(k + 1, i, w) /\ TickAt(p + 1)
        /\ \A j, v : ExitAt(j, i, v)' => j \in Nat /\ ExitAt(j + 1, i, v)
    BY <1>1
  <2>2. p + 1 < k + 1
    BY <2>1
  <2>3. running[i] # None /\ \A j, v : ExitAt(j, i, v)' => j \in Nat /\ k + 1 <= j + 1
    BY <2>1, <2>2 DEF TasksOK, StaleExitsFirst
  <2>4. QED
    BY <2>1, <2>3
<1>5. ExitsInOrder'
  <2> SUFFICES ASSUME NEW i \in Issue, NEW k, NEW w, NEW p, ExitAt(k, i, w)', FiredAt(p, i)'
               PROVE  p < k <=> running[i] # None
    BY DEF ExitsInOrder
  <2>1. k \in Nat /\ p \in Nat /\ ExitAt(k + 1, i, w) /\ FiredAt(p + 1, i)
    BY <1>1
  <2>2. p + 1 < k + 1 <=> running[i] # None
    BY <2>1 DEF TasksOK, ExitsInOrder
  <2>3. QED
    BY <2>1, <2>2
<1>6. FiredOnce'
  <2> SUFFICES ASSUME NEW i \in Issue, NEW p, FiredAt(p, i)'
               PROVE  /\ \A q : FiredAt(q, i)' => p = q
                      /\ retry'[i] # None => ~retry'[i].armed
    BY DEF FiredOnce
  <2>1. p \in Nat /\ FiredAt(p + 1, i) /\ \A q : FiredAt(q, i)' => q \in Nat /\ FiredAt(q + 1, i)
    BY <1>1
  <2>2. \A q : FiredAt(q, i)' => q \in Nat /\ p + 1 = q + 1
    BY <2>1 DEF TasksOK, FiredOnce
  <2>3. retry[i] # None => ~retry[i].armed
    BY <2>1 DEF TasksOK, FiredOnce
  <2>4. QED
    BY <2>1, <2>2, <2>3
<1>7. WorkersOwned' /\ BackoffHonoured'
  BY <1>2 DEF TasksOK, WorkersOwned, BackoffHonoured, taskVars
<1>8. QED
  BY <1>3, <1>4, <1>5, <1>6, <1>7 DEF TasksOK

LEMMA QuietWorkerExit ==
  ASSUME TInv, ClaimInv, TickChainAlive, QuietInv, HandleWorkerExit
  PROVE  QuietInv'
<1>a. PICK i \in Issue, x \in Worker :
        i = Head(mailbox).issue /\ x = Head(mailbox).worker
  <2>1. ExitAt(1, Head(mailbox).issue, Head(mailbox).worker)
    BY HeadAt DEF HandleWorkerExit, Receive, TInv
  <2>2. Head(mailbox).issue \in Issue /\ Head(mailbox).worker \in Worker
    BY <2>1, Places DEF TInv
  <2>3. QED
    BY <2>2
<1>0. /\ pc = "recv" /\ mailbox # <<>> /\ Head(mailbox).type = "WorkerExit" /\ Consume
      /\ UNCHANGED <<ticks, pc, loose, taskVars>> /\ ExitAt(1, i, x)
  BY <1>a, HeadAt DEF HandleWorkerExit, Receive, TInv, dispVars, localVars
<1>1. OneTick' /\ TickExits'
  BY <1>0, ConsumedTick
<1>2. RetryAlone'
  BY <1>0 DEF RetryAlone
<1>3. CASE running[i] = None
  <2>1. UNCHANGED <<running, retry>>
    BY <1>a, <1>3 DEF HandleWorkerExit
  <2>2. QED
    BY <1>0, <1>1, <1>2, <2>1, ConsumedTasks DEF QuietInv
<1>4. CASE running[i] # None
  <2> DEFINE a == NextAttempt(running[i].attempt)
  <2>1. /\ running' = [running EXCEPT ![i] = None]
        /\ retry' = [retry EXCEPT ![i] = [attempt |-> a, armed |-> TRUE]]
        /\ running \in [Issue -> RunningEntry \cup {None}]
        /\ retry \in [Issue -> RetryEntry \cup {None}]
    BY <1>a, <1>4 DEF HandleWorkerExit, Schedule, TInv, TypeOK
  <2>2. /\ running'[i] = None /\ \A j \in Issue \ {i} : running'[j] = running[j]
        /\ \A j \in Issue \ {i} : retry'[j] = retry[j]
    BY <2>1
  <2> HIDE DEF a
  <2>3. /\ \A p : TickAt(p)' <=> p \in Nat \ {0} /\ TickAt(p + 1)
        /\ \A p, j : FiredAt(p, j)' => p \in Nat \ {0} /\ FiredAt(p + 1, j)
        /\ \A k, j, w : ExitAt(k, j, w)' => k \in Nat \ {0} /\ ExitAt(k + 1, j, w)
    BY <1>0, ConsumedMail DEF TInv
  <2>4. \A p : ~FiredAt(p, i)'
    <3> SUFFICES ASSUME NEW p, p \in Nat \ {0}, FiredAt(p + 1, i) PROVE FALSE
      BY <2>3
    <3>1. p + 1 < 1
      BY <1>0, <1>4 DEF QuietInv, TasksOK, ExitsInOrder
    <3>2. QED
      BY <3>1
  <2>5. \A k, w, p : ExitAt(k, i, w)' /\ TickAt(p)' => ~(p < k)
    <3> SUFFICES ASSUME NEW k, NEW w, NEW p, ExitAt(k, i, w)', TickAt(p)', p < k PROVE FALSE
      OBVIOUS
    <3>1. /\ k \in Nat \ {0} /\ p \in Nat \ {0} /\ ExitAt(k + 1, i, w) /\ TickAt(p + 1)
          /\ p + 1 < k + 1
      BY <2>3
    <3>2. k + 1 <= 1
      BY <1>0, <3>1 DEF QuietInv, TasksOK, StaleExitsFirst
    <3>3. QED
      BY <3>1, <3>2
  <2>6. UNCHANGED Busy /\ UNCHANGED job
    BY <1>0 DEF Busy, taskVars
  <2>7. WorkersOwned'
    <3>1. running[i].worker \notin Busy
      BY <1>0, <1>4 DEF QuietInv, TasksOK, ExitsSettled
    <3>2. \A w \in Busy : job[w] \in Issue \ {i}
      BY <3>1, BusyJobs DEF QuietInv, TasksOK
    <3>3. QED
      BY <2>2, <2>6, <3>2 DEF QuietInv, TasksOK, WorkersOwned
  <2>8. ExitsSettled'
    BY <2>2, <2>3, <2>6 DEF QuietInv, TasksOK, ExitsSettled
  \* The rest for the other issues: as if the head were no exit.
  <2>9. StaleExitsFirst'
    <3> SUFFICES ASSUME NEW j \in Issue, NEW k, NEW w, NEW p,
                        ExitAt(k, j, w)', TickAt(p)', p < k
                 PROVE  running'[j] # None /\ \A l, v : ExitAt(l, j, v)' => k <= l
      BY DEF StaleExitsFirst
    <3>1. j \in Issue \ {i}
      BY <2>5
    <3>2. /\ k \in Nat /\ p \in Nat /\ ExitAt(k + 1, j, w) /\ TickAt(p + 1) /\ p + 1 < k + 1
          /\ \A l, v : ExitAt(l, j, v)' => l \in Nat /\ ExitAt(l + 1, j, v)
      BY <2>3
    <3>3. running[j] # None /\ \A l, v : ExitAt(l, j, v)' => l \in Nat /\ k + 1 <= l + 1
      BY <3>2 DEF QuietInv, TasksOK, StaleExitsFirst
    <3>4. QED
      BY <2>2, <3>1, <3>2, <3>3
  <2>10. ExitsInOrder'
    <3> SUFFICES ASSUME NEW j \in Issue \ {i}, NEW k, NEW w, NEW p,
                        ExitAt(k, j, w)', FiredAt(p, j)'
                 PROVE  p < k <=> running[j] # None
      BY <2>2, <2>4 DEF ExitsInOrder
    <3>1. k \in Nat /\ p \in Nat /\ ExitAt(k + 1, j, w) /\ FiredAt(p + 1, j)
      BY <2>3
    <3>2. p + 1 < k + 1 <=> running[j] # None
      BY <3>1 DEF QuietInv, TasksOK, ExitsInOrder
    <3>3. QED
      BY <3>1, <3>2
  <2>11. FiredOnce'
    <3> SUFFICES ASSUME NEW j \in Issue \ {i}, NEW p, FiredAt(p, j)'
                 PROVE  /\ \A q : FiredAt(q, j)' => p = q
                        /\ retry[j] # None => ~retry[j].armed
      BY <2>2, <2>4 DEF FiredOnce
    <3>1. /\ p \in Nat /\ FiredAt(p + 1, j)
          /\ \A q : FiredAt(q, j)' => q \in Nat /\ FiredAt(q + 1, j)
      BY <2>3
    <3>2. \A q : FiredAt(q, j)' => q \in Nat /\ p + 1 = q + 1
      BY <3>1 DEF QuietInv, TasksOK, FiredOnce
    <3>3. QED
      BY <3>1, <3>2 DEF QuietInv, TasksOK, FiredOnce
  <2>12. BackoffHonoured'
    BY <1>0 DEF QuietInv, TasksOK, BackoffHonoured
  <2>13. QED
    BY <1>1, <1>2, <2>7, <2>8, <2>9, <2>10, <2>11, <2>12 DEF QuietInv, TasksOK
<1>5. QED
  BY <1>3, <1>4
\* A retry timer's message: its entry is neither armed nor running.
LEMMA QuietRetryTimer ==
  ASSUME TInv, ClaimInv, TickChainAlive, QuietInv, HandleRetryTimer
  PROVE  QuietInv'
<1>a. PICK i \in Issue : i = Head(mailbox).issue
  BY HeadFields DEF HandleRetryTimer, Receive, TInv
<1>0. /\ pc = "recv" /\ mailbox # <<>> /\ Head(mailbox).type = "RetryTimerFired" /\ Consume
      /\ UNCHANGED <<ticks, running, taskVars>> /\ FiredAt(1, i)
  BY <1>a, HeadAt DEF HandleRetryTimer, Receive, TInv
<1>1. retry[i] # None => ~retry[i].armed
  BY <1>0 DEF QuietInv, TasksOK, FiredOnce
<1>2. /\ UNCHANGED loose
      /\ \A j \in Issue : retry'[j] = retry[j] \/ retry'[j] = None
  BY <1>a, <1>1 DEF HandleRetryTimer, TInv, TypeOK
<1>3. \/ UNCHANGED pc
      \/ pc' = "retryFetch" /\ current' = i /\ retry[i] # None
  BY <1>a DEF HandleRetryTimer
<1>4. TasksOK'
  BY <1>0, <1>2, ConsumedTasks DEF QuietInv
<1>5. OneTick' /\ TickExits'
  BY <1>0, <1>3, ConsumedTick
<1>6. RetryAlone'
  <2>1. CASE UNCHANGED pc
    BY <1>0, <2>1 DEF RetryAlone
  <2>2. CASE pc' = "retryFetch" /\ current' = i /\ retry[i] # None
    <3>1. running[i] = None
      BY <2>2 DEF ClaimInv, RetryOrRunning, Running
    <3>2. /\ \A p, j : FiredAt(p, j)' => p \in Nat \ {0} /\ FiredAt(p + 1, j)
          /\ \A k, j, w : ExitAt(k, j, w)' => k \in Nat \ {0} /\ ExitAt(k + 1, j, w)
      BY <1>0, ConsumedMail DEF TInv
    <3>3. \A k, w : ~ExitAt(k, i, w)'
      <4> SUFFICES ASSUME NEW k, NEW w, k \in Nat \ {0}, ExitAt(k + 1, i, w) PROVE FALSE
        BY <3>2
      <4>1. ~(1 < k + 1)
        BY <1>0, <3>1 DEF QuietInv, TasksOK, ExitsInOrder
      <4>2. QED
        BY <4>1
    <3>4. \A p : ~FiredAt(p, i)'
      <4> SUFFICES ASSUME NEW p, p \in Nat \ {0}, FiredAt(p + 1, i) PROVE FALSE
        BY <3>2
      <4>1. 1 = p + 1
        BY <1>0 DEF QuietInv, TasksOK, FiredOnce
      <4>2. QED
        BY <4>1
    <3>5. \A k, w : ~ExitAt(k, current, w)'
      BY <2>2, <3>3 DEF ExitAt
    <3>6. \A p : ~FiredAt(p, current)'
      BY <2>2, <3>4 DEF FiredAt
    <3>7. QED
      BY <3>5, <3>6 DEF RetryAlone
  <2>3. QED
    BY <1>3, <2>1, <2>2
<1>7. QED
  BY <1>4, <1>5, <1>6 DEF QuietInv

\* The end of a retry's lookup: nothing about the issue waits in the mailbox.
LEMMA QuietRetryEnds ==
  ASSUME TInv, ClaimInv, QuietInv,
         RetryFetchFails \/ RetryFindsNoSlot \/ RetryIssueAbsent
           \/ \E w \in Worker : RetryDispatches(w)
  PROVE  QuietInv'
<1>1. /\ pc = "retryFetch" /\ pc' = "recv" /\ current \in Issue /\ current \notin Running
      /\ popped \in Attempt /\ UNCHANGED <<mailbox, ticks, loose>>
  BY DEF RetryFetchFails, RetryFindsNoSlot, RetryIssueAbsent, RetryDispatches, EndRetry, Requeue,
     TInv, LocalsOK, ClaimInv, RetryOrRunning
<1>2. OneTick' /\ TickExits' /\ RetryAlone'
  BY <1>1, SameMail DEF QuietInv, OneTick, TickExits, RetryAlone, InTick
<1>3. (\A k, w : ~ExitAt(k, current, w)) /\ \A p : ~FiredAt(p, current)
  BY <1>1 DEF QuietInv, RetryAlone
<1>4. CASE RetryIssueAbsent
  <2>1. UNCHANGED <<running, retry, phase, job, swallowed>>
    BY <1>4 DEF RetryIssueAbsent, taskVars
  <2>2. QED
    BY <1>1, <1>2, <2>1, QuietTasks DEF QuietInv, Busy
<1>5. CASE RetryFetchFails \/ RetryFindsNoSlot
  <2>1. /\ UNCHANGED <<running, phase, job, swallowed>>
        /\ retry' = [retry EXCEPT ![current] = [attempt |-> popped, armed |-> TRUE]]
    BY <1>5 DEF RetryFetchFails, RetryFindsNoSlot, Requeue, Schedule, taskVars
  <2>2. \A i \in Issue : i # current => retry'[i] = retry[i]
    BY <2>1 DEF TInv, TypeOK
  <2>3. FiredOnce'
    BY <1>1, <1>3, <2>2, SameMail DEF QuietInv, TasksOK, FiredOnce
  <2>4. ExitsSettled' /\ StaleExitsFirst' /\ ExitsInOrder'
    BY <1>1, <2>1, SameMail
    DEF QuietInv, TasksOK, ExitsSettled, StaleExitsFirst, ExitsInOrder, Busy
  <2>5. WorkersOwned' /\ BackoffHonoured'
    BY <1>1, <2>1 DEF QuietInv, TasksOK, WorkersOwned, BackoffHonoured, Busy
  <2>6. QED
    BY <1>2, <2>3, <2>4, <2>5 DEF QuietInv, TasksOK
<1>6. ASSUME NEW w \in Worker, RetryDispatches(w) PROVE QuietInv'
  <2>1. DispatchIssue(current, tracker[current], popped, w) /\ tracker[current] \in State
    BY <1>1, <1>6 DEF RetryDispatches, TInv, TypeOK
  <2>2. TasksOK'
    BY <1>1, <1>3, <2>1, QuietDispatch DEF QuietInv
  <2>3. QED
    BY <1>2, <2>2 DEF QuietInv
<1>7. QED
  BY <1>4, <1>5, <1>6
-----------------------------------------------------------------------------
(* Everything else that runs between two steps of the dispatcher. *)

LEMMA QuietFrame ==
  ASSUME TInv, QuietInv, UNCHANGED <<running, retry, loose, ticks, pc, current>>,
         \A w \in Busy' : w \in Busy /\ job'[w] = job[w],
         \A p : TickAt(p)' <=> TickAt(p),
         \A p, i : FiredAt(p, i)' => FiredAt(p, i),
         \A k, i, w : ExitAt(k, i, w)' => ExitAt(k, i, w)
  PROVE  QuietInv'
<1> USE DEF QuietInv, TasksOK
<1>1. OneTick' /\ TickExits'
  BY DEF OneTick, TickExits, InTick
<1>2. RetryAlone'
  <2>1. /\ \A p : FiredAt(p, current)' => FiredAt(p, current)
        /\ \A k, w : ExitAt(k, current, w)' => ExitAt(k, current, w)
    BY DEF FiredAt, ExitAt
  <2>2. QED
    BY <2>1 DEF RetryAlone
<1>3. ExitsSettled' /\ StaleExitsFirst'
  BY DEF ExitsSettled, StaleExitsFirst
<1>4. ExitsInOrder' /\ FiredOnce'
  BY DEF ExitsInOrder, FiredOnce
<1>5. WorkersOwned' /\ BackoffHonoured'
  BY BusyJobs DEF WorkersOwned, BackoffHonoured
<1>6. QED
  BY <1>1, <1>2, <1>3, <1>4, <1>5

LEMMA QuietTickTimer ==
  ASSUME TInv, TickChainAlive, QuietInv, TickTimerFires
  PROVE  QuietInv'
<1> USE DEF QuietInv, TasksOK
<1>1. /\ UNCHANGED <<running, retry, loose, pc, current, phase, job, swallowed>> /\ Post(PollTick)
      /\ ticks = 1 /\ ticks' = 0
  BY DEF TickTimerFires, TickChainAlive, TInv, TypeOK, stateVars, dispVars, localVars, taskVars
<1>2. PICK n \in Nat \ {0} :
        /\ \A p : TickAt(p)' <=> TickAt(p) \/ p = n
        /\ \A p, i : FiredAt(p, i)' => FiredAt(p, i)
        /\ \A k, i, w : ExitAt(k, i, w)' => ExitAt(k, i, w)
        /\ \A k, i, w : ExitAt(k, i, w) => k < n
  BY <1>1, PostedMail DEF TInv, PollTick
<1>3. OneTick'
  BY <1>1, <1>2 DEF OneTick, InTick
<1>4. TickExits' /\ ExitsSettled'
  BY <1>1, <1>2 DEF TickExits, InTick, ExitsSettled, Busy
<1>5. RetryAlone'
  <2>1. /\ \A p : FiredAt(p, current)' => FiredAt(p, current)
        /\ \A k, w : ExitAt(k, current, w)' => ExitAt(k, current, w)
    BY <1>1, <1>2 DEF FiredAt, ExitAt
  <2>2. QED
    BY <1>1, <2>1 DEF RetryAlone
<1>6. StaleExitsFirst'
  <2>1. \A k, i, w, p : ExitAt(k, i, w) /\ p = n => ~(p < k)
    BY <1>2, Places DEF TInv
  <2>2. QED
    BY <1>1, <1>2, <2>1 DEF StaleExitsFirst
<1>7. ExitsInOrder' /\ FiredOnce'
  BY <1>1, <1>2 DEF ExitsInOrder, FiredOnce
<1>8. WorkersOwned' /\ BackoffHonoured'
  BY <1>1 DEF WorkersOwned, BackoffHonoured, Busy
<1>9. QED
  BY <1>3, <1>4, <1>5, <1>6, <1>7, <1>8

LEMMA QuietRetryFires ==
  ASSUME TInv, ClaimInv, QuietInv, NEW i \in Issue, RetryTimerFires(i)
  PROVE  QuietInv'
<1> USE DEF QuietInv, TasksOK
<1>1. /\ UNCHANGED <<running, loose, ticks, pc, current, phase, job, swallowed>> /\ Post(RetryTimerFired(i))
      /\ retry[i] # None /\ retry[i].armed
  BY DEF RetryTimerFires, dispVars, localVars, taskVars
<1>2. /\ running[i] = None /\ (pc = "retryFetch" => current # i)
  BY <1>1 DEF ClaimInv, RetryOrRunning, Running
<1>3. /\ \A p : ~FiredAt(p, i)
      /\ \A j \in Issue \ {i} : retry'[j] = retry[j]
      /\ ~retry'[i].armed
  <2>1. retry[i] \in RetryEntry /\ retry' = [retry EXCEPT ![i] = [retry[i] EXCEPT !.armed = FALSE]]
    BY <1>1 DEF RetryTimerFires, TInv, TypeOK
  <2>2. [retry[i] EXCEPT !.armed = FALSE].armed = FALSE
    BY <2>1 DEF RetryEntry
  <2>3. QED
    BY <1>1, <2>1, <2>2 DEF FiredOnce, TInv, TypeOK
<1>4. PICK n \in Nat \ {0} :
        /\ \A p : TickAt(p)' <=> TickAt(p)
        /\ \A p, j : FiredAt(p, j)' => FiredAt(p, j) \/ (p = n /\ j = i)
        /\ \A k, j, w : ExitAt(k, j, w)' => ExitAt(k, j, w)
        /\ \A k, j, w : ExitAt(k, j, w) => k < n
  BY <1>1, PostedMail DEF TInv, RetryTimerFired
<1>5. OneTick' /\ TickExits' /\ ExitsSettled' /\ StaleExitsFirst'
  BY <1>1, <1>4 DEF OneTick, TickExits, InTick, ExitsSettled, StaleExitsFirst, Busy
<1>6. RetryAlone'
  <2>1. pc = "retryFetch" => /\ \A p : FiredAt(p, current)' => FiredAt(p, current)
                             /\ \A k, w : ExitAt(k, current, w)' => ExitAt(k, current, w)
    BY <1>1, <1>2, <1>4 DEF FiredAt, ExitAt
  <2>2. QED
    BY <1>1, <2>1 DEF RetryAlone
<1>7. ExitsInOrder'
  <2>1. \A k, w : ExitAt(k, i, w) => ~(n < k)
    BY <1>4, Places DEF TInv
  <2>2. QED
    BY <1>1, <1>2, <1>4, <2>1 DEF ExitsInOrder
<1>8. FiredOnce'
  BY <1>3, <1>4 DEF FiredOnce
<1>9. WorkersOwned' /\ BackoffHonoured'
  BY <1>1 DEF WorkersOwned, BackoffHonoured, Busy
<1>10. QED
  BY <1>5, <1>6, <1>7, <1>8, <1>9

\* A task that ends although it was cancelled would break this.
LEMMA QuietExit ==
  ASSUME TInv, ClaimInv, QuietInv, Calm, NEW w \in Worker, WorkerExits(w)
  PROVE  QuietInv'
<1> USE DEF QuietInv, TasksOK
<1>a. PICK i \in Issue, ok \in BOOLEAN : i = job[w] /\ ok = (phase[w] = "succeeded")
  BY DEF WorkerExits, TInv, LocalsOK
<1>1. /\ UNCHANGED <<running, retry, loose, ticks, pc, current>> /\ Post(WorkerExit(i, w, ok))
      /\ w \in Busy /\ Busy' = Busy \ {w} /\ \A v \in Busy' : job'[v] = job[v]
  BY <1>a
  DEF WorkerExits, WorkerSettles, Busy, Calm, TInv, TypeOK, stateVars, dispVars, localVars
<1>2. running[i] # None /\ running[i].worker = w
  BY <1>a, <1>1 DEF WorkersOwned
<1>3. pc = "retryFetch" => current # i
  BY <1>2 DEF ClaimInv, RetryOrRunning, Running
<1>4. \A k, v : ~ExitAt(k, i, v)
  BY <1>1, <1>2 DEF ExitsSettled
<1>5. PICK n \in Nat \ {0} :
        /\ \A p : TickAt(p)' <=> TickAt(p)
        /\ \A p, j : FiredAt(p, j)' => FiredAt(p, j)
        /\ \A k, j, v : ExitAt(k, j, v)' => ExitAt(k, j, v) \/ (k = n /\ j = i /\ v = w)
        /\ \A p, j : FiredAt(p, j) => p < n
  BY <1>1, PostedMail DEF TInv, WorkerExit
<1>6. OneTick' /\ TickExits' /\ ExitsSettled'
  BY <1>1, <1>2, <1>5 DEF OneTick, TickExits, InTick, ExitsSettled
<1>7. StaleExitsFirst'
  <2>1. \A k, v : ExitAt(k, i, v)' => k = n
    BY <1>4, <1>5
  <2>2. n <= n
    OBVIOUS
  <2>3. QED
    BY <1>1, <1>2, <1>5, <2>1, <2>2 DEF StaleExitsFirst
<1>8. RetryAlone'
  <2>1. pc = "retryFetch" => /\ \A p : FiredAt(p, current)' => FiredAt(p, current)
                             /\ \A k, v : ExitAt(k, current, v)' => ExitAt(k, current, v)
    BY <1>1, <1>3, <1>5 DEF FiredAt, ExitAt
  <2>2. QED
    BY <1>1, <2>1 DEF RetryAlone
<1>9. ExitsInOrder' /\ FiredOnce'
  BY <1>1, <1>2, <1>4, <1>5 DEF ExitsInOrder, FiredOnce
<1>10. WorkersOwned' /\ BackoffHonoured'
  BY <1>1 DEF WorkersOwned, BackoffHonoured
<1>11. QED
  BY <1>6, <1>7, <1>8, <1>9, <1>10

\* Nothing of this is in the mailbox: reports, reloads and the shutdown request.
LEMMA QuietPost ==
  ASSUME TInv, QuietInv, NEW m, Post(m),
         m.type \notin {"PollTick", "RetryTimerFired", "WorkerExit"},
         UNCHANGED <<running, retry, loose, ticks, pc, current, phase, job, swallowed>>
  PROVE  QuietInv'
<1>1. /\ \A p : TickAt(p)' <=> TickAt(p)
      /\ \A p, i : FiredAt(p, i)' => FiredAt(p, i)
      /\ \A k, i, w : ExitAt(k, i, w)' => ExitAt(k, i, w)
  BY PostedMail DEF TInv
<1>2. \A w \in Busy' : w \in Busy /\ job'[w] = job[w]
  BY DEF Busy
<1>3. QED
  BY <1>1, <1>2, QuietFrame

LEMMA QuietOutside ==
  ASSUME TInv, QuietInv, Calm', Outside
  PROVE  QuietInv'
<1>1. ASSUME UNCHANGED <<mailbox, running, retry, loose, ticks, pc, current, phase, job, swallowed>>
      PROVE  QuietInv'
  <2>1. \A w \in Busy' : w \in Busy /\ job'[w] = job[w]
    BY <1>1 DEF Busy
  <2>2. QED
    BY <1>1, <2>1, SameMail, QuietFrame
<1>2. CASE PostRefresh
  BY <1>2 DEF PostRefresh, Calm, TInv, TypeOK
<1>3. CASE RequestShutdown
  BY <1>3, QuietPost DEF RequestShutdown, Shutdown, stateVars, dispVars, localVars, taskVars
<1>4. ASSUME NEW c \in Config, ReloadWorkflow(c) PROVE QuietInv'
  BY <1>4, QuietPost DEF ReloadWorkflow, ConfigReloaded, stateVars, dispVars, localVars, taskVars
<1>5. ASSUME NEW i \in Issue, NEW s \in State, UserMoves(i, s) PROVE QuietInv'
  BY <1>1, <1>5 DEF UserMoves, stateVars, dispVars, localVars, taskVars
<1>6. ASSUME NEW b \in SUBSET Blockable, UserBlocks(b) PROVE QuietInv'
  BY <1>1, <1>6 DEF UserBlocks, stateVars, dispVars, localVars, taskVars
<1>7. QED
  BY <1>2, <1>3, <1>4, <1>5, <1>6 DEF Outside

LEMMA QuietWorker ==
  ASSUME TInv, ClaimInv, QuietInv, Calm, NEW w \in Worker, WorkerStep(w)
  PROVE  QuietInv'
<1>1. CASE WorkerOpensTurn(w) \/ WorkerConcludes(w) \/ CancelledWorkerSettles(w)
  <2>1. /\ UNCHANGED <<mailbox, running, retry, loose, ticks, pc, current, swallowed>>
        /\ \A v \in Worker \ {w} : phase'[v] = phase[v] /\ job'[v] = job[v]
        /\ \/ w \in Busy /\ job'[w] = job[w]
           \/ phase'[w] = "settled"
    BY <1>1
    DEF WorkerOpensTurn, WorkerConcludes, CancelledWorkerSettles, WorkerSettles, Busy, Calm,
        TInv, TypeOK, stateVars, dispVars, localVars
  <2>2. \A v \in Busy' : v \in Busy /\ job'[v] = job[v]
    BY <2>1 DEF Busy
  <2>3. QED
    BY <2>1, <2>2, SameMail, QuietFrame
<1>2. CASE WorkerReports(w)
  BY <1>2, QuietPost DEF WorkerReports, CodexUpdate, stateVars, dispVars, localVars, taskVars
<1>3. QED
  BY <1>1, <1>2, QuietExit DEF WorkerStep

LEMMA QuietShutdown ==
  ASSUME TInv, QuietInv, GracefulShutdown
  PROVE  QuietInv'
<1> USE DEF QuietInv, TasksOK
<1>1. /\ UNCHANGED <<mailbox, running, loose, job>> /\ Cancel(HandlesOf(Running))
      /\ \A i \in Issue : retry'[i] = None
      /\ pc' = "drained"
  BY DEF GracefulShutdown, CancelAllRetries, DrainWorkers
<1>2. \A w \in Busy' : w \in Busy /\ job'[w] = job[w]
  BY <1>1, CancelledTasks DEF TInv
<1>3. OneTick' /\ TickExits' /\ RetryAlone'
  BY <1>1 DEF OneTick, TickExits, RetryAlone, InTick
<1>4. ExitsSettled' /\ StaleExitsFirst' /\ ExitsInOrder' /\ FiredOnce'
  BY <1>1, <1>2, SameMail DEF ExitsSettled, StaleExitsFirst, ExitsInOrder, FiredOnce
<1>5. WorkersOwned' /\ BackoffHonoured'
  BY <1>1, <1>2, BusyJobs DEF WorkersOwned, BackoffHonoured
<1>6. QED
  BY <1>3, <1>4, <1>5

LEMMA QuietStep ==
  ASSUME TInv, ClaimInv, TickChainAlive, QuietInv, Calm, Calm', [Next]_vars
  PROVE  QuietInv'
<1>1. CASE HandleCodexUpdate \/ HandleConfigReloaded \/ HandleShutdown
  <2>1. /\ pc = "recv" /\ mailbox # <<>> /\ Consume /\ Head(mailbox).type # "PollTick"
        /\ UNCHANGED <<running, retry, loose, taskVars>>
        /\ (pc' = "recv" /\ UNCHANGED ticks) \/ pc' = "stopped"
    BY <1>1
    DEF HandleCodexUpdate, HandleConfigReloaded, HandleShutdown, StopLoop, Receive, stateVars,
        dispVars, localVars
  <2>2. OneTick' /\ TickExits'
    BY <2>1, ConsumedTick
  <2>3. TasksOK'
    BY <2>1, ConsumedTasks DEF QuietInv
  <2>4. RetryAlone'
    BY <2>1 DEF RetryAlone
  <2>5. QED
    BY <2>2, <2>3, <2>4 DEF QuietInv
<1>2. ASSUME NEW i \in Issue, LooseTimerFires(i) PROVE QuietInv'
  BY <1>2 DEF LooseTimerFires, QuietInv, TasksOK, BackoffHonoured
<1>3. CASE UNCHANGED vars \/ \E i \in Issue : GoesQuiet(i) \/ CleanupEnds(i)
  <2>1. UNCHANGED <<mailbox, running, retry, loose, ticks, pc, current, phase, job, swallowed>>
    BY <1>3 DEF vars, GoesQuiet, CleanupEnds, stateVars, dispVars, localVars, taskVars
  <2>2. \A w \in Busy' : w \in Busy /\ job'[w] = job[w]
    BY <2>1 DEF Busy
  <2>3. QED
    BY <2>1, <2>2, SameMail, QuietFrame
<1>4. CASE Retry
  BY <1>4, QuietRetryTimer, QuietRetryEnds DEF Retry
<1>5. CASE Timers
  BY <1>2, <1>3, <1>5, QuietTickTimer, QuietRetryFires DEF Timers
<1>6. QED
  BY <1>1, <1>3, <1>4, <1>5, QuietTick, QuietWorkerExit, QuietShutdown, QuietOutside,
     QuietWorker
  DEF Next, Dispatcher

LEMMA QuietInit == Init => QuietInv
<1> SUFFICES ASSUME Init PROVE QuietInv
  OBVIOUS
<1>1. mailbox = <<PollTick>> /\ DOMAIN mailbox = {1} /\ mailbox[1].type = "PollTick"
  BY DEF Init, PollTick
<1>2. /\ \A p : TickAt(p) <=> p = 1
      /\ \A p, i : ~FiredAt(p, i)
      /\ \A k, i, w : ~ExitAt(k, i, w)
  BY <1>1 DEF TickAt, FiredAt, ExitAt
<1>3. OneTick /\ TickExits /\ RetryAlone
  BY <1>2 DEF Init, OneTick, TickExits, RetryAlone, InTick
<1>4. ExitsSettled /\ StaleExitsFirst /\ ExitsInOrder /\ FiredOnce
  BY <1>2 DEF ExitsSettled, StaleExitsFirst, ExitsInOrder, FiredOnce
<1>5. WorkersOwned /\ BackoffHonoured
  BY DEF Init, WorkersOwned, BackoffHonoured, Busy
<1>6. QED
  BY <1>3, <1>4, <1>5 DEF QuietInv, TasksOK

\* What has been posted or swallowed is not taken back.
LEMMA CalmBefore == ASSUME TInv, Calm', [Next]_vars PROVE Calm
<1>1. CASE PostRefresh
  BY <1>1 DEF PostRefresh, Calm, TInv, TypeOK
<1>2. CASE ReconcileStalled \/ RefreshReturns \/ GracefulShutdown
  <2>1. UNCHANGED refreshes /\ \E is \in SUBSET Running : Cancel(HandlesOf(is))
    BY <1>2 DEF ReconcileStalled, RefreshReturns, GracefulShutdown, DrainWorkers, Stalled, Gone,
       outsideVars
  <2>2. swallowed \subseteq swallowed'
    BY <2>1, HandlesType, Cancelling DEF TInv
  <2>3. QED
    BY <2>1, <2>2 DEF Calm
<1>3. ASSUME UNCHANGED <<refreshes, swallowed>> PROVE Calm
  BY <1>3 DEF Calm
<1>4. CASE Tick /\ ~ReconcileStalled /\ ~RefreshReturns
  BY <1>3, <1>4
  DEF Tick, RefreshFails, FetchFails, FetchReturns, EndTick, GateDenies, SkipFullIssue, AskGate,
      GateAllows, DispatchIssue, taskVars, outsideVars
<1>5. CASE Retry
  BY <1>3, <1>5
  DEF Retry, HandleRetryTimer, RetryFetchFails, RetryFindsNoSlot, RetryIssueAbsent, Requeue,
      RetryDispatches, DispatchIssue, taskVars, outsideVars
<1>6. CASE HandleWorkerExit \/ HandleCodexUpdate \/ HandleConfigReloaded \/ HandleShutdown
  BY <1>3, <1>6
  DEF HandleWorkerExit, HandleCodexUpdate, HandleConfigReloaded, HandleShutdown, taskVars,
      outsideVars
<1>7. CASE Timers \/ (Outside /\ ~PostRefresh) \/ \E i \in Issue : CleanupEnds(i)
  BY <1>3, <1>7
  DEF Timers, TickTimerFires, RetryTimerFires, LooseTimerFires, GoesQuiet, Outside,
      RequestShutdown, ReloadWorkflow, UserMoves, UserBlocks, CleanupEnds, taskVars, outsideVars
<1>8. CASE \E w \in Worker : WorkerStep(w)
  BY <1>3, <1>8
  DEF WorkerStep, WorkerOpensTurn, WorkerConcludes, WorkerExits, CancelledWorkerSettles,
      WorkerReports, WorkerSettles, taskVars, outsideVars
<1>9. CASE UNCHANGED vars
  BY <1>3, <1>9 DEF vars, taskVars, outsideVars
<1>10. QED
  BY <1>1, <1>2, <1>4, <1>5, <1>6, <1>7, <1>8, <1>9 DEF Next, Dispatcher

\* What the theorems below follow from.
AllInv == TInv /\ ClaimInv /\ TickChainAlive /\ (Calm => QuietInv)

LEMMA AllInvariant == Spec => []AllInv
<1>1. Init => AllInv
  BY TypeInit, ClaimInit, QuietInit DEF AllInv, Init, TickChainAlive, InMail
<1>2. AllInv /\ [Next]_vars => AllInv'
  BY TypeStep, ClaimStep, TickChainStep, QuietStep, CalmBefore DEF AllInv
<1>3. QED
  BY <1>1, <1>2, PTL DEF Spec

\* Until a POST /api/v1/refresh or a cancellation that its task swallows in
\* aclose, every task that was not cancelled is the one the entry of its issue
\* names: dispatch, retry, stall and exit handlers, which all know the issue
\* only, never leave an agent running that nobody counts.
THEOREM NoWorkerEscapes == Spec => [](Calm => WorkersOwned)
<1>1. AllInv => (Calm => WorkersOwned)
  BY DEF AllInv, QuietInv, TasksOK
<1>2. QED
  BY <1>1, AllInvariant, PTL

\* Until then, no issue has two workers, which is what "one authority" (SPED.md
\* 7.4) is for.
THEOREM OneWorkerUntilThen == Spec => [](Calm => OneWorkerPerIssue)
<1>1. WorkersOwned => OneWorkerPerIssue
  BY DEF WorkersOwned, OneWorkerPerIssue
<1>2. QED
  BY <1>1, NoWorkerEscapes, PTL

\* Until then, on_worker_exit never takes the entry of a later worker for that
\* of the one which ended, although a synthetic exit and a real one both may be
\* in the mailbox.
THEOREM ExitsSpeakOfTheEntry == Spec => [](Calm => ExitsAreCurrent)
<1>1. AllInv => (Calm => ExitsAreCurrent)
  <2> SUFFICES ASSUME AllInv, Calm, NEW k \in MailOf("WorkerExit"), running[mailbox[k].issue] # None
               PROVE  running[mailbox[k].issue].worker = mailbox[k].worker
    BY DEF ExitsAreCurrent
  <2>1. ExitAt(k, mailbox[k].issue, mailbox[k].worker)
    BY DEF MailOf, ExitAt
  <2>2. mailbox[k].issue \in Issue
    BY <2>1, Places DEF AllInv, TInv
  <2>3. QED
    BY <2>1, <2>2 DEF AllInv, QuietInv, TasksOK, ExitsSettled
<1>2. QED
  BY <1>1, AllInvariant, PTL

\* Until then, on_retry_timer pops an entry only after that entry's own timer
\* has fired: no message of a superseded timer serves a later retry.
THEOREM RetriesWait == Spec => [](Calm => BackoffHonoured)
<1>1. AllInv => (Calm => BackoffHonoured)
  BY DEF AllInv, QuietInv, TasksOK
<1>2. QED
  BY <1>1, AllInvariant, PTL

\* Until then, one tick at a time: every return of on_tick arms exactly one
\* timer, every timer posts one PollTick, every PollTick is one tick.
THEOREM TicksDoNotPileUp == Spec => [](Calm => OneTickAtATime)
<1>1. AllInv => (Calm => OneTickAtATime)
  <2> SUFFICES ASSUME AllInv, Calm, pc \notin {"stopped", "drained"}
               PROVE  ticks + Cardinality(MailOf("PollTick")) + (IF InTick THEN 1 ELSE 0) = 1
    BY DEF OneTickAtATime
  <2>1. \A p : p \in MailOf("PollTick") <=> TickAt(p)
    BY DEF MailOf, TickAt
  <2>2. ticks \in {0, 1}
    BY DEF AllInv, TInv, TypeOK, TickChainAlive
  <2>3. CASE \E p : TickAt(p)
    <3>1. PICK p : TickAt(p)
      BY <2>3
    <3>2. MailOf("PollTick") = {p}
      BY <2>1, <3>1 DEF AllInv, QuietInv, OneTick
    <3>3. Cardinality(MailOf("PollTick")) = 1
      BY <3>2, FS_Singleton
    <3>4. ticks = 0 /\ ~InTick
      BY <2>2, <3>1 DEF AllInv, QuietInv, OneTick
    <3>5. QED
      BY <3>3, <3>4
  <2>4. CASE \A p : ~TickAt(p)
    <3>1. MailOf("PollTick") = {}
      BY <2>1, <2>4
    <3>2. Cardinality(MailOf("PollTick")) = 0
      BY <3>1, FS_EmptySet
    <3>3. InTick <=> ticks = 0
      BY <2>2, <2>4 DEF AllInv, QuietInv, OneTick
    <3>4. QED
      BY <2>2, <3>2, <3>3
  <2>5. QED
    BY <2>3, <2>4
<1>2. QED
  BY <1>1, AllInvariant, PTL

\* A drained service stays so: nothing is dispatched and no timer is armed.
LEMMA DrainedStep ==
  ASSUME AllInv, Calm, ShutdownReachesAll, [Next]_vars
  PROVE  ShutdownReachesAll'
<1>1. CASE GracefulShutdown
  <2>1. /\ UNCHANGED <<running, loose, job>> /\ Cancel(HandlesOf(Running))
        /\ \A i \in Issue : retry'[i] = None
    BY <1>1 DEF GracefulShutdown, CancelAllRetries, DrainWorkers
  <2>2. \A w \in Busy : w \in HandlesOf(Running)
    BY BusyJobs DEF AllInv, QuietInv, TasksOK, HandlesOf
  <2>3. Busy' = {}
    BY <2>1, <2>2, CancelledTasks DEF AllInv, TInv
  <2>4. QED
    BY <2>1, <2>3 DEF ShutdownReachesAll, AllInv, QuietInv, TasksOK, BackoffHonoured
<1>2. CASE pc = "drained"
  <2>1. Busy = {} /\ loose = {} /\ \A i \in Issue : retry[i] = None
    BY <1>2 DEF ShutdownReachesAll
  <2>2. CASE Outside \/ UNCHANGED vars \/ TickTimerFires
             \/ \E i \in Issue : GoesQuiet(i) \/ CleanupEnds(i)
    BY <1>2, <2>1, <2>2
    DEF Outside, PostRefresh, RequestShutdown, ReloadWorkflow, UserMoves, UserBlocks, vars,
        TickTimerFires, GoesQuiet, CleanupEnds, stateVars, taskVars, ShutdownReachesAll, Busy
  <2>3. ASSUME NEW w \in Worker, WorkerStep(w) PROVE ShutdownReachesAll'
    <3>1. phase[w] = "cancelling"
      BY <2>1, <2>3
      DEF WorkerStep, WorkerOpensTurn, WorkerConcludes, WorkerExits, CancelledWorkerSettles,
          WorkerReports, Busy, Calm
    <3>2. CancelledWorkerSettles(w)
      BY <2>3, <3>1
      DEF WorkerStep, WorkerOpensTurn, WorkerConcludes, WorkerExits, WorkerReports
    <3>3. UNCHANGED <<retry, loose, swallowed>> /\ phase' = [phase EXCEPT ![w] = "settled"]
      BY <3>2 DEF CancelledWorkerSettles, WorkerSettles, stateVars
    <3>4. Busy' = {}
      BY <2>1, <3>3 DEF Busy, AllInv, TInv, TypeOK
    <3>5. QED
      BY <2>1, <3>3, <3>4 DEF ShutdownReachesAll
  <2>4. ~Dispatcher
    BY <1>2
    DEF Dispatcher, Tick, Retry, ReconcileStalled, RefreshFails, RefreshReturns, FetchFails,
        FetchReturns, EndTick, GateDenies, LeaveGate, SkipFullIssue, AskGate, GateAllows,
        HandleRetryTimer, RetryFetchFails, RetryFindsNoSlot, RetryIssueAbsent, RetryDispatches,
        EndRetry, HandleWorkerExit, HandleCodexUpdate, HandleConfigReloaded, HandleShutdown,
        GracefulShutdown, Receive
  <2>5. ASSUME NEW i \in Issue, RetryTimerFires(i) \/ LooseTimerFires(i) PROVE FALSE
    BY <2>1, <2>5 DEF RetryTimerFires, LooseTimerFires
  <2>6. QED
    BY <2>2, <2>3, <2>4, <2>5 DEF Next, Timers
<1>3. CASE ~GracefulShutdown /\ pc # "drained"
  <2>1. pc' # "drained"
    <3>1. CASE Tick \/ Retry
      BY <1>3, <3>1
      DEF Tick, Retry, ReconcileStalled, RefreshFails, RefreshReturns, FetchFails,
          FetchReturns, EndTick, GateDenies, LeaveGate, SkipFullIssue, AskGate, GateAllows,
          HandleRetryTimer, RetryFetchFails, RetryFindsNoSlot, RetryIssueAbsent,
          RetryDispatches, EndRetry, LoadConfig
    <3>2. CASE \/ HandleWorkerExit \/ HandleCodexUpdate \/ HandleConfigReloaded
               \/ HandleShutdown \/ Timers \/ Outside \/ UNCHANGED vars
               \/ (\E w \in Worker : WorkerStep(w)) \/ \E i \in Issue : CleanupEnds(i)
      BY <1>3, <3>2
      DEF HandleWorkerExit, HandleCodexUpdate, HandleConfigReloaded, HandleShutdown, StopLoop,
          Timers, TickTimerFires, RetryTimerFires, LooseTimerFires, GoesQuiet, Outside,
          PostRefresh, RequestShutdown, ReloadWorkflow, UserMoves, UserBlocks, WorkerStep,
          WorkerOpensTurn, WorkerConcludes, WorkerExits, CancelledWorkerSettles, WorkerReports,
          WorkerSettles, CleanupEnds, vars, dispVars, localVars
    <3>3. QED
      BY <1>3, <3>1, <3>2 DEF Next, Dispatcher
  <2>2. QED
    BY <2>1 DEF ShutdownReachesAll
<1>4. QED
  BY <1>1, <1>2, <1>3

\* Until then, a shutdown leaves no task at work and no retry timer armed,
\* although _drain_workers only reaches the tasks the running entries name.
THEOREM ShutdownIsComplete == Spec => [](Calm => ShutdownReachesAll)
<1>1. Init => (Calm => ShutdownReachesAll)
  BY DEF Init, ShutdownReachesAll
<1>2. AllInv /\ (Calm => ShutdownReachesAll) /\ [Next]_vars
        => (Calm => ShutdownReachesAll)'
  BY DrainedStep, CalmBefore DEF AllInv
<1>3. QED
  BY <1>1, <1>2, AllInvariant, PTL DEF Spec

(***************************************************************************)
(* Clean-ups.  Until then the task of an issue that is in its turn is the  *)
(* one its entry names, which RefreshReturns cancels when it spawns the    *)
(* clean-up, and a successor of it waits for the workspace.                *)
(***************************************************************************)
LEMMA WhoCleans ==
  ASSUME [Next]_vars, ~RefreshReturns
  PROVE  cleaning' \subseteq cleaning
<1>1. CASE Tick \/ Retry
  BY <1>1
  DEF Tick, Retry, ReconcileStalled, RefreshFails, FetchFails, FetchReturns, EndTick,
      GateDenies, LeaveGate, SkipFullIssue, AskGate, GateAllows, HandleRetryTimer,
      RetryFetchFails, RetryFindsNoSlot, RetryIssueAbsent, RetryDispatches, Requeue
<1>2. CASE \/ HandleWorkerExit \/ HandleCodexUpdate \/ HandleConfigReloaded
           \/ HandleShutdown \/ GracefulShutdown \/ Timers \/ Outside \/ UNCHANGED vars
           \/ (\E w \in Worker : WorkerStep(w)) \/ \E i \in Issue : CleanupEnds(i)
  BY <1>2
  DEF HandleWorkerExit, HandleCodexUpdate, HandleConfigReloaded, HandleShutdown,
      GracefulShutdown, Timers, TickTimerFires, RetryTimerFires, LooseTimerFires, GoesQuiet,
      Outside, PostRefresh, RequestShutdown, ReloadWorkflow, UserMoves, UserBlocks, WorkerStep,
      WorkerOpensTurn, WorkerConcludes, WorkerExits, CancelledWorkerSettles, WorkerReports,
      WorkerSettles, CleanupEnds, vars
<1>3. QED
  BY <1>1, <1>2 DEF Next, Dispatcher

\* Only WorkerOpensTurn begins a turn, and no step changes the issue of one.
LEMMA WhoseTurn ==
  ASSUME TInv, [Next]_vars, NEW w \in Worker, phase'[w] = "turn"
  PROVE  job'[w] = job[w] /\ (phase[w] = "turn" \/ WorkerOpensTurn(w))
<1>1. ASSUME NEW ws, Cancel(ws), UNCHANGED job
      PROVE  job'[w] = job[w] /\ phase[w] = "turn"
  BY <1>1 DEF Cancel
<1>2. CASE ReconcileStalled \/ RefreshReturns \/ GracefulShutdown
  BY <1>1, <1>2 DEF ReconcileStalled, RefreshReturns, GracefulShutdown, DrainWorkers
<1>3. ASSUME NEW v \in Worker, GateAllows(v) \/ RetryDispatches(v)
      PROVE  job'[w] = job[w] /\ phase[w] = "turn"
  BY <1>3 DEF GateAllows, RetryDispatches, DispatchIssue, TInv, TypeOK
<1>4. ASSUME NEW v \in Worker, WorkerStep(v)
      PROVE  job'[w] = job[w] /\ (phase[w] = "turn" \/ WorkerOpensTurn(w))
  BY <1>4 DEF WorkerStep, WorkerOpensTurn, WorkerConcludes, WorkerExits,
     CancelledWorkerSettles, WorkerReports, WorkerSettles, taskVars, TInv, TypeOK
<1>5. ASSUME UNCHANGED taskVars PROVE job'[w] = job[w] /\ phase[w] = "turn"
  BY <1>5 DEF taskVars
<1>6. CASE \/ RefreshFails \/ FetchFails \/ FetchReturns \/ EndTick \/ GateDenies
           \/ \E i \in Issue : SkipFullIssue(i) \/ AskGate(i)
  BY <1>5, <1>6 DEF RefreshFails, FetchFails, FetchReturns, EndTick, GateDenies,
     SkipFullIssue, AskGate
<1>7. CASE \/ HandleRetryTimer \/ RetryFetchFails \/ RetryFindsNoSlot \/ RetryIssueAbsent
           \/ HandleWorkerExit \/ HandleCodexUpdate \/ HandleConfigReloaded \/ HandleShutdown
  BY <1>5, <1>7 DEF HandleRetryTimer, RetryFetchFails, RetryFindsNoSlot, RetryIssueAbsent,
     Requeue, HandleWorkerExit, HandleCodexUpdate, HandleConfigReloaded, HandleShutdown
<1>8. CASE Timers \/ Outside \/ UNCHANGED vars \/ \E i \in Issue : CleanupEnds(i)
  BY <1>5, <1>8 DEF Timers, TickTimerFires, RetryTimerFires, LooseTimerFires, GoesQuiet,
     Outside, PostRefresh, RequestShutdown, ReloadWorkflow, UserMoves, UserBlocks,
     CleanupEnds, vars
<1>9. QED
  BY <1>2, <1>3, <1>4, <1>6, <1>7, <1>8 DEF Next, Dispatcher, Tick, Retry

LEMMA CleanupStep ==
  ASSUME AllInv, Calm, Calm', NoTurnInCleanup, [Next]_vars
  PROVE  NoTurnInCleanup'
<1> SUFFICES ASSUME NEW w \in Worker, phase'[w] = "turn", job'[w] \in cleaning'
             PROVE  FALSE
  BY DEF NoTurnInCleanup
<1>1. TInv /\ WorkersOwned
  BY DEF AllInv, QuietInv, TasksOK
<1>2. job'[w] = job[w] /\ (phase[w] = "turn" \/ WorkerOpensTurn(w))
  BY <1>1, WhoseTurn
<1>3. w \in Busy /\ job[w] \in Running /\ running[job[w]].worker = w
  <2>1. w \in Busy
    BY <1>2 DEF Busy, Calm, WorkerOpensTurn
  <2>2. QED
    BY <1>1, <2>1, BusyJobs
<1>4. CASE RefreshReturns
  <2>1. phase[w] = "turn" /\ job[w] \notin cleaning
    BY <1>2, <1>4 DEF RefreshReturns, LoadConfig, WorkerOpensTurn, dispVars, localVars,
       NoTurnInCleanup
  <2>2. w \in HandlesOf(Gone)
    BY <1>2, <1>3, <1>4, <2>1 DEF RefreshReturns, HandlesOf
  <2>3. w \notin Busy'
    BY <1>1, <1>4, <2>2, CancelledTasks DEF RefreshReturns, TInv
  <2>4. QED
    BY <2>3 DEF Busy, Calm
<1>5. CASE ~RefreshReturns
  <2>1. job[w] \in cleaning
    BY <1>2, <1>5, WhoCleans
  <2>2. QED
    BY <1>2, <1>3, <2>1 DEF WorkerOpensTurn, WorkspaceFree, NoTurnInCleanup, Running
<1>6. QED
  BY <1>4, <1>5

\* Until then, no agent is in its turn in a workspace that is being deleted: its
\* predecessors were cancelled with the entry, and it waits for their clean-up.
THEOREM NoTurnIsCleanedUp == Spec => [](Calm => NoTurnInCleanup)
<1>1. Init => (Calm => NoTurnInCleanup)
  BY DEF Init, NoTurnInCleanup
<1>2. AllInv /\ AllInv' /\ (Calm => NoTurnInCleanup) /\ [Next]_vars
        => (Calm => NoTurnInCleanup)'
  BY CleanupStep, CalmBefore DEF AllInv
<1>3. QED
  BY <1>1, <1>2, AllInvariant, PTL DEF Spec
=============================================================================
