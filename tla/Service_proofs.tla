--------------------------- MODULE Service_proofs ---------------------------
(***************************************************************************)
(* Theorems about the life of the process, for any number of workers and   *)
(* of edits of WORKFLOW.md.                                                *)
(*                                                                         *)
(* What holds when start_service returns is the sum of its stages: each    *)
(* conjunct of StagesOK says what one of them leaves behind.               *)
(***************************************************************************)
EXTENDS Service, TLAPS

\* The start: what is loaded was accepted, and nothing is watched before.
StartOK ==
  /\ phase \in {"cleanup", "watch"} => loaded \notin rejected
  /\ phase \in {"load", "cleanup", "watch"} => watcher = "off"
  /\ LastGoodAccepted

\* The stages of a shutdown: the HTTP server, the timers, the workers.
StagesOK ==
  /\ phase \in {"drain", "force", "stop_watcher"} => http = "off" /\ ~timers
  /\ phase = "drain" => \A w \in running : worker[w] # "working"
  /\ phase \in {"force", "stop_watcher"} => \A w \in running : worker[w] \in {"cut", "done"}
  /\ CleanReturn

\* The tasks the shutdown found at work are entries it waits for.
DrainedOK ==
  /\ drained \subseteq running
  /\ phase \in Starting \cup {"run", "stop_http"} => drained = {}
  /\ phase = "returned" /\ ~hurried /\ exit # 0 => drained = {}

IInv == TypeOK /\ StartOK /\ StagesOK /\ DrainedOK

-----------------------------------------------------------------------------
LEMMA ServiceInit == Init => IInv
<1> SUFFICES ASSUME Init PROVE IInv
  OBVIOUS
<1>1. TypeOK
  <2>1. 0 \in Version /\ 0 \in 0..2
    BY EditAssumption DEF Version
  <2>2. QED
    BY <2>1 DEF Init, TypeOK, Starting
<1>2. StartOK /\ StagesOK /\ DrainedOK
  BY DEF Init, StartOK, LastGoodAccepted, StagesOK, CleanReturn, DrainedOK
<1>3. QED
  BY <1>1, <1>2 DEF IInv

LEMMA Cancelling ==
  ASSUME TypeOK, NEW ws \in SUBSET Worker, Cancel(ws)
  PROVE  /\ worker' \in [Worker -> {"none", "working", "cleaning", "cut", "done"}]
         /\ \A w \in Worker \ ws : worker'[w] = worker[w]
         /\ \A w \in ws : worker'[w] = AfterCancel(w)
         /\ \A w \in Worker : worker'[w] = "none" <=> worker[w] = "none"
BY DEF TypeOK, Cancel, AfterCancel

LEMMA TypeStep == TypeOK /\ [Next]_vars => TypeOK'
<1> SUFFICES ASSUME TypeOK, [Next]_vars PROVE TypeOK'
  OBVIOUS
<1> USE DEF TypeOK, Starting, Stopping, Over, workflow, tasks
<1>1. CASE Load
  BY <1>1 DEF Load
<1>2. CASE TerminalCleanup
  BY <1>2 DEF TerminalCleanup
<1>3. CASE StartWatcher
  BY <1>3 DEF StartWatcher
<1>4. CASE StartHttp
  BY <1>4 DEF StartHttp, WantsHttp
<1>5. CASE Edit
  <2>1. file' \in Version
    BY <1>5, EditAssumption DEF Edit, Version
  <2>2. QED
    BY <1>5, <2>1 DEF Edit
<1>6. CASE Reload
  BY <1>6 DEF Reload, LoopGoesOn
<1>7. CASE WatcherCrashes
  BY <1>7 DEF WatcherCrashes
<1>8. ASSUME NEW w \in Worker, Dispatch(w) PROVE TypeOK'
  BY <1>8 DEF Dispatch
<1>9. ASSUME NEW w \in Worker, Terminate(w) PROVE TypeOK'
  BY <1>9, Cancelling DEF Terminate
<1>10. ASSUME NEW w \in Worker, WorkerExits(w) PROVE TypeOK'
  BY <1>10 DEF WorkerExits
<1>11. ASSUME NEW w \in Worker, AttemptEnds(w) PROVE TypeOK'
  BY <1>11 DEF AttemptEnds
<1>12. ASSUME NEW w \in Worker, CleanupEnds(w) PROVE TypeOK'
  BY <1>12 DEF CleanupEnds
<1>13. CASE RetryFires
  BY <1>13 DEF RetryFires
<1>14. CASE Signal
  <2>1. /\ phase' \in Starting \cup {"run"} \cup Stopping \cup Over /\ exit' \in 0..2
        /\ asked' \in BOOLEAN /\ hurried' \in BOOLEAN
    <3>1. \/ UNCHANGED <<phase, exit, hurried>> /\ asked' = TRUE
          \/ phase' \in {"killed", "returned"} /\ exit' \in {exit, 0} /\ hurried' = TRUE
               /\ UNCHANGED asked
      BY <1>14 DEF Signal
    <3>2. phase' \in Starting \cup {"run"} \cup Stopping \cup Over /\ exit' \in 0..2
      BY <3>1
    <3>3. asked \in BOOLEAN /\ hurried \in BOOLEAN
      OBVIOUS
    <3>4. QED
      BY <3>1, <3>2, <3>3
  <2>2. UNCHANGED <<port, workflow, http, tasks>>
    BY <1>14 DEF Signal
  <2>3. QED
    BY <2>1, <2>2
<1>15. CASE RunReturns
  BY <1>15 DEF RunReturns
<1>16. CASE CancelAll
  BY <1>16, Cancelling DEF CancelAll
<1>17. CASE Drained \/ GiveUp
  BY <1>17 DEF Drained, GiveUp
<1>18. CASE ForceCancel
  BY <1>18, Cancelling DEF ForceCancel, Unfinished
<1>19. CASE StopWatcher
  BY <1>19 DEF StopWatcher
<1>20. CASE CancelLeftovers
  BY <1>20, Cancelling DEF CancelLeftovers, Left
<1>21. CASE End
  BY <1>21 DEF End
<1>22. CASE UNCHANGED vars
  BY <1>22 DEF vars
<1>23. QED
  BY <1>1, <1>2, <1>3, <1>4, <1>5, <1>6, <1>7, <1>8, <1>9, <1>10, <1>11, <1>12, <1>13, <1>14,
     <1>15, <1>16, <1>17, <1>18, <1>19, <1>20, <1>21, <1>22
  DEF Next

LEMMA ServiceStep == IInv /\ [Next]_vars => IInv'
<1> SUFFICES ASSUME IInv, [Next]_vars PROVE (StartOK /\ StagesOK /\ DrainedOK)'
  BY TypeStep DEF IInv
<1> DEFINE Goal == StartOK /\ StagesOK /\ DrainedOK
<1>0. TypeOK /\ StartOK /\ StagesOK /\ DrainedOK
  BY DEF IInv
<1> USE <1>0
<1> USE DEF StartOK, LastGoodAccepted, StagesOK, CleanReturn, DrainedOK, Starting, workflow, tasks
<1>1. CASE Load
  BY <1>1 DEF Load, Accepted
<1>2. CASE TerminalCleanup
  BY <1>2 DEF TerminalCleanup
<1>3. CASE StartWatcher
  BY <1>3 DEF StartWatcher
<1>4. CASE StartHttp
  BY <1>4 DEF StartHttp
<1>5. CASE Edit
  BY <1>5 DEF Edit
<1>6. CASE Reload
  BY <1>6 DEF Reload, LoopGoesOn, Accepted
<1>7. CASE WatcherCrashes
  BY <1>7 DEF WatcherCrashes
<1>8. ASSUME NEW w \in Worker, Dispatch(w) PROVE Goal'
  BY <1>8 DEF Dispatch
<1>9. ASSUME NEW w \in Worker, Terminate(w) PROVE Goal'
  BY <1>9 DEF Terminate
<1>10. ASSUME NEW w \in Worker, WorkerExits(w) PROVE Goal'
  BY <1>10 DEF WorkerExits
<1>11. ASSUME NEW w \in Worker, AttemptEnds(w) PROVE Goal'
  BY <1>11 DEF AttemptEnds, TypeOK
<1>12. ASSUME NEW w \in Worker, CleanupEnds(w) PROVE Goal'
  BY <1>12 DEF CleanupEnds, TypeOK
<1>13. CASE RetryFires
  BY <1>13 DEF RetryFires
<1>14. CASE Signal
  BY <1>14 DEF Signal, Stopping
<1>15. CASE RunReturns
  BY <1>15 DEF RunReturns
<1>16. CASE CancelAll
  <2>1. \A w \in running : worker'[w] = AfterCancel(w) /\ worker'[w] # "working"
    BY <1>16, Cancelling DEF CancelAll, TypeOK, AfterCancel
  <2>2. QED
    BY <1>16, <2>1 DEF CancelAll
<1>17. CASE Drained \/ GiveUp
  BY <1>17 DEF Drained, GiveUp, Awaited
<1>18. CASE ForceCancel
  <2>1. phase = "drain"
    BY <1>18 DEF ForceCancel, GraceExpired
  <2>2. \A w \in running : worker'[w] \in {"cut", "done"}
    <3>1. Unfinished \in SUBSET Worker /\ Cancel(Unfinished) /\ running \subseteq Worker
      BY <1>18 DEF ForceCancel, Unfinished, TypeOK
    <3>2. \A w \in Unfinished : worker'[w] = AfterCancel(w)
      BY <3>1, Cancelling
    <3>3. \A w \in running \ Unfinished : worker'[w] = "done"
      BY <3>1, Cancelling DEF Unfinished
    <3>4. \A w \in running : worker[w] \in {"cleaning", "cut", "done"}
      BY <2>1, <3>1 DEF TypeOK
    <3>5. QED
      BY <3>2, <3>3, <3>4 DEF AfterCancel, Unfinished
  <2>3. QED
    BY <1>18, <2>1, <2>2 DEF ForceCancel
<1>19. CASE StopWatcher
  BY <1>19 DEF StopWatcher, TypeOK
<1>20. CASE CancelLeftovers
  BY <1>20 DEF CancelLeftovers
<1>21. CASE End
  BY <1>21 DEF End
<1>22. CASE UNCHANGED vars
  BY <1>22 DEF vars
<1>23. QED
  BY <1>1, <1>2, <1>3, <1>4, <1>5, <1>6, <1>7, <1>8, <1>9, <1>10, <1>11, <1>12, <1>13, <1>14,
     <1>15, <1>16, <1>17, <1>18, <1>19, <1>20, <1>21, <1>22
  DEF Next

-----------------------------------------------------------------------------
\* No rejected configuration reaches the dispatcher, and a shutdown returns with
\* server, watcher, timers and workers stopped.
THEOREM ServiceInvariant == Spec => []ServiceInv
<1>1. IInv => ServiceInv
  BY DEF IInv, ServiceInv, StartOK, StagesOK
<1>2. QED
  BY <1>1, ServiceInit, ServiceStep, PTL DEF Spec

\* Only the end of the grace period cuts short what a worker does after the
\* shutdown has cancelled it.
THEOREM GracePeriodKept == Spec => GraceGiven
<1>1. ASSUME IInv, [Next]_vars, NEW w \in drained, worker[w] = "cleaning", worker'[w] = "cut"
      PROVE  phase' = "force" \/ hurried
  <2> USE <1>1
  <2>1. TypeOK /\ StagesOK /\ DrainedOK
    BY DEF IInv
  <2>2. w \in running /\ w \in Worker /\ phase \notin Starting \cup {"run", "stop_http"}
    BY <2>1 DEF DrainedOK, TypeOK
  <2>3. CASE ForceCancel
    BY <2>3 DEF ForceCancel
  <2>4. CASE CancelLeftovers
    BY <2>1, <2>2, <2>4 DEF CancelLeftovers, StagesOK, CleanReturn, DrainedOK
  <2>5. ASSUME NEW x \in Worker, Dispatch(x) \/ Terminate(x) \/ WorkerExits(x) PROVE FALSE
    BY <2>2, <2>5 DEF Dispatch, Terminate, WorkerExits
  <2>6. ASSUME NEW x \in Worker, AttemptEnds(x) \/ CleanupEnds(x) PROVE FALSE
    BY <2>1, <2>2, <2>6 DEF AttemptEnds, CleanupEnds, TypeOK
  <2>7. ~CancelAll
    BY <2>2 DEF CancelAll
  <2>8. ~UNCHANGED worker
    OBVIOUS
  <2>9. QED
    BY <2>3, <2>4, <2>5, <2>6, <2>7, <2>8
    DEF Next, Load, TerminalCleanup, StartWatcher, StartHttp, Edit, Reload, WatcherCrashes,
        RetryFires, Signal, RunReturns, Drained, GiveUp, StopWatcher, End, tasks, vars
<1>2. IInv /\ [Next]_vars =>
        [\A w \in drained :
           worker[w] = "cleaning" /\ worker'[w] = "cut" => phase' = "force" \/ hurried]_vars
  BY <1>1
<1>3. QED
  BY <1>2, ServiceInit, ServiceStep, PTL DEF Spec, GraceGiven
=============================================================================
