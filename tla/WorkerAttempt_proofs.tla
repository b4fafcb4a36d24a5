------------------------ MODULE WorkerAttempt_proofs ------------------------
(***************************************************************************)
(* Theorems about a worker attempt, for every configuration of hooks and   *)
(* transitions and any number of cancellations.                            *)
(*                                                                         *)
(* AttemptInv is not inductive: what the exit promises was decided awaits  *)
(* earlier.  The invariant says what each await may take for granted.      *)
(***************************************************************************)
EXTENDS WorkerAttempt, TLAPS

Reporting == {"comment", "final_transition"}
Undecided == Starting \cup {"turn"}

\* The reason is known from the end of the turn on, unless a cancellation ended
\* it, and the finally block is what a cancellation leaves to run.
ResultKnown ==
  /\ stage \in Undecided => result = None /\ ~unwinding
  /\ stage \in CleaningUp \cup Reporting => (unwinding <=> result = None)
  /\ stage \in Reporting => ~unwinding
  /\ unwinding => cancels > 0
  /\ stage = "comment" => result \in Failure
  /\ stage \in CleaningUp \ {"after_run"} => result # "session_failed"

\* A script runs while its own await lasts, and left behind only by a task that
\* was cancelled there.
ScriptsAwaited ==
  /\ stage \in {"before_run", "after_run"} => scripts \subseteq {stage}
  /\ stage \notin {"before_run", "after_run", "settled"} => scripts = {}

\* The process of a turn is there to be stopped, and stopped after drain.
ProcessStopped ==
  /\ stage \in {"before_run", "handshake", "start_transition", "turn", "stop", "kill"} =>
       process # "none"
  /\ stage = "drain" => process = "exited"
  /\ /\ result \in {"normal", "turn_failed"}
        /\ (stage \in {"drain", "after_run"} \cup Reporting \/ exits # <<>>)
     => process = "exited"

\* One exit, the last step, true to the reason.
OneExit ==
  /\ exits # <<>> => stage = "settled" /\ result # None /\ exits = <<result>> /\ scripts = {}
  /\ stage = "settled" /\ exits = <<>> => cancels > 0
  /\ ticket = "success" => stage = "settled"

IInv ==
  AttemptInv /\ ResultKnown /\ ScriptsAwaited /\ ProcessStopped /\ OneExit

USE DEF Starting, CleaningUp, Stage, Reporting, Undecided, Failure, Reason

\* The first exit is the only one.
LEMMA NoExit == <<>> \in Seq(Reason)
OBVIOUS

LEMMA FirstExit ==
  ASSUME exits = <<>>, NEW reason \in Reason, PostExit(reason)
  PROVE  stage' = "settled" /\ exits' = <<reason>> /\ exits' \in Seq(Reason) /\ exits' # <<>>
BY DEF PostExit

LEMMA AttemptInit == Init => IInv
<1> SUFFICES ASSUME Init PROVE IInv
  OBVIOUS
<1>1. TypeOK
  <2>1. cancels \in 0..MaxCancels
    BY CancelsAssumption DEF Init
  <2>2. exits \in Seq(Reason)
    BY NoExit DEF Init
  <2>3. config \in Config /\ stage \in Stage /\ result \in Reason \cup {None}
    BY DEF Init
  <2>4. unwinding \in BOOLEAN /\ explained \in BOOLEAN
    BY DEF Init
  <2>5. QED
    BY <2>1, <2>2, <2>3, <2>4 DEF Init, TypeOK
<1>2. QED
  BY <1>1, NoneIsNoReason
  DEF Init, IInv, AttemptInv, ExitMeansReleased, FailureExplained, ResultKnown,
    ScriptsAwaited, ProcessStopped, OneExit

LEMMA AttemptStep == IInv /\ [Next]_vars => IInv'
<1> SUFFICES ASSUME IInv, [Next]_vars PROVE IInv'
  OBVIOUS
<1> USE NoneIsNoReason, FirstExit, NoExit DEF IInv, AttemptInv, TypeOK, ExitMeansReleased,
    FailureExplained, ResultKnown, ScriptsAwaited, ProcessStopped, OneExit, Resumes, idle
<1>1. CASE Begin
  BY <1>1 DEF Begin, Finalize, MoveToSuccess
<1>2. CASE EnsureReturns
  BY <1>2 DEF EnsureReturns, Finalize, MoveToSuccess
<1>3. CASE FactoryReturns
  BY <1>3 DEF FactoryReturns, Finalize, MoveToSuccess
<1>4. CASE BeforeRunReturns
  BY <1>4 DEF BeforeRunReturns, Finalize, MoveToSuccess
<1>5. CASE HandshakeReturns
  BY <1>5 DEF HandshakeReturns, Finalize, MoveToSuccess, EndAttempt, RunAfterRun
<1>6. CASE StartTransitionReturns
  BY <1>6 DEF StartTransitionReturns
<1>7. CASE TurnReturns
  BY <1>7 DEF TurnReturns, Finalize, MoveToSuccess, EndAttempt, RunAfterRun, Close,
     StopSession
<1>8. CASE StopReturns
  BY <1>8 DEF StopReturns, Finalize, MoveToSuccess, EndAttempt, RunAfterRun, Close
<1>9. CASE KillReturns
  BY <1>9 DEF KillReturns, Finalize, MoveToSuccess, EndAttempt, RunAfterRun, Close
<1>10. CASE DrainReturns
  BY <1>10 DEF DrainReturns, Finalize, MoveToSuccess, EndAttempt, RunAfterRun
<1>11. CASE AfterRunReturns
  BY <1>11 DEF AfterRunReturns, Finalize, MoveToSuccess, EndAttempt
<1>12. CASE CommentReturns
  BY <1>12 DEF CommentReturns, MoveToSuccess
<1>13. CASE FinalTransitionReturns
  BY <1>13 DEF FinalTransitionReturns
<1>14. CASE Cancel
  <2>0. cancels' \in 0..MaxCancels /\ cancels' > 0
    BY <1>14, CancelsAssumption DEF Cancel
  <2>1. CASE stage = "turn"
    BY <1>14, <2>0, <2>1 DEF Cancel, StopSession, Close, RunAfterRun, EndAttempt
  <2>2. CASE stage = "drain"
    <3>1. /\ RunAfterRun(result, unwinding)
          /\ UNCHANGED <<unwinding, ticket, config, process, explained>>
      BY <1>14, <2>2 DEF Cancel
    <3>2. CASE unwinding
      BY <3>1, <3>2, <2>0, <2>2 DEF RunAfterRun, EndAttempt
    <3>3. CASE ~unwinding
      BY <3>1, <3>3, <2>0, <2>2 DEF RunAfterRun, EndAttempt, Finalize, MoveToSuccess
    <3>4. QED
      BY <3>2, <3>3
  <2>3. CASE stage \notin {"turn", "drain"}
    BY <1>14, <2>0, <2>3 DEF Cancel
  <2>4. QED
    BY <2>1, <2>2, <2>3
<1>15. CASE ProcessExits
  BY <1>15 DEF ProcessExits
<1>16. ASSUME NEW hook \in {"before_run", "after_run"}, ScriptEnds(hook) PROVE IInv'
  BY <1>16 DEF ScriptEnds
<1>17. CASE UNCHANGED vars
  BY <1>17 DEF vars
<1>18. QED
  BY <1>1, <1>2, <1>3, <1>4, <1>5, <1>6, <1>7, <1>8, <1>9, <1>10, <1>11, <1>12,
     <1>13, <1>14, <1>15, <1>16, <1>17 DEF Next, Task

\* What an attempt guarantees to its workspace, to the ticket's readers and to
\* the dispatcher, for every configuration and wherever it is cancelled: types,
\* ExitMeansReleased and FailureExplained.
THEOREM AttemptInvariant == Spec => []AttemptInv
<1>1. IInv => AttemptInv
  BY DEF IInv
<1>2. QED
  BY <1>1, AttemptInit, AttemptStep, PTL DEF Spec

(***************************************************************************)
(* Refinement of AttemptLifecycle                                          *)
(***************************************************************************)
LEMMA LifecycleInit == Init => Lifecycle!Init
BY DEF Init, Lifecycle!Init, phase, exit

\* The dispatcher sees no difference until the next change of phase.
LEMMA LifecycleStep == IInv /\ IInv' /\ [Next]_vars => [Lifecycle!Next]_(Lifecycle!attemptVars)
<1> SUFFICES ASSUME IInv, IInv', [Next]_vars PROVE [Lifecycle!Next]_(Lifecycle!attemptVars)
  OBVIOUS
<1> USE NoneIsNoReason, FirstExit DEF IInv, AttemptInv, TypeOK, ResultKnown, OneExit, Resumes,
    idle, phase, exit, Lifecycle!attemptVars, Lifecycle!Next, Lifecycle!Work
<1>1. CASE Begin
  BY <1>1 DEF Begin, Finalize, MoveToSuccess, Lifecycle!Fail
<1>2. CASE EnsureReturns
  BY <1>2 DEF EnsureReturns, Finalize, MoveToSuccess, Lifecycle!Fail
<1>3. CASE FactoryReturns
  BY <1>3 DEF FactoryReturns, Finalize, MoveToSuccess, Lifecycle!Fail
<1>4. CASE BeforeRunReturns
  BY <1>4 DEF BeforeRunReturns, Finalize, MoveToSuccess, Lifecycle!Fail
<1>5. CASE HandshakeReturns
  BY <1>5 DEF HandshakeReturns, Finalize, MoveToSuccess, EndAttempt, RunAfterRun,
     Lifecycle!OpenTurn, Lifecycle!Fail
<1>6. CASE StartTransitionReturns
  BY <1>6 DEF StartTransitionReturns, Lifecycle!OpenTurn
<1>7. CASE TurnReturns
  BY <1>7 DEF TurnReturns, Finalize, MoveToSuccess, EndAttempt, RunAfterRun, Close,
     StopSession, Lifecycle!Fail, Lifecycle!Succeed, Lifecycle!ReportSuccess
<1>8. CASE StopReturns
  BY <1>8 DEF StopReturns, Finalize, MoveToSuccess, EndAttempt, RunAfterRun, Close,
     Lifecycle!Fail, Lifecycle!Succeed, Lifecycle!ReportSuccess,
     Lifecycle!SettleSilently
<1>9. CASE KillReturns
  BY <1>9 DEF KillReturns, Finalize, MoveToSuccess, EndAttempt, RunAfterRun, Close,
     Lifecycle!Fail, Lifecycle!Succeed, Lifecycle!ReportSuccess,
     Lifecycle!SettleSilently
<1>10. CASE DrainReturns
  BY <1>10 DEF DrainReturns, Finalize, MoveToSuccess, EndAttempt, RunAfterRun,
     Lifecycle!Fail, Lifecycle!Succeed, Lifecycle!ReportSuccess,
     Lifecycle!SettleSilently
<1>11. CASE AfterRunReturns
  BY <1>11 DEF AfterRunReturns, Finalize, MoveToSuccess, EndAttempt, Lifecycle!Fail,
     Lifecycle!Succeed, Lifecycle!ReportSuccess, Lifecycle!SettleSilently
<1>12. CASE CommentReturns
  BY <1>12 DEF CommentReturns, MoveToSuccess, Lifecycle!ReportFailure
<1>13. CASE FinalTransitionReturns
  BY <1>13 DEF FinalTransitionReturns, Lifecycle!ReportFailure,
     Lifecycle!ReportSuccess
<1>14. CASE ProcessExits
  BY <1>14 DEF ProcessExits
<1>15. CASE Cancel
  BY <1>15 DEF Cancel, StopSession, Close, RunAfterRun, EndAttempt, Finalize,
     MoveToSuccess, Lifecycle!Cancel, Lifecycle!Fail, Lifecycle!Succeed,
     Lifecycle!ReportSuccess
<1>16. ASSUME NEW hook \in {"before_run", "after_run"}, ScriptEnds(hook)
       PROVE  UNCHANGED Lifecycle!attemptVars
  BY <1>16 DEF ScriptEnds
<1>17. CASE UNCHANGED vars
  BY <1>17 DEF vars
<1>18. QED
  BY <1>1, <1>2, <1>3, <1>4, <1>5, <1>6, <1>7, <1>8, <1>9, <1>10, <1>11, <1>12,
     <1>13, <1>14, <1>15, <1>16, <1>17 DEF Next, Task

\* For the dispatcher an attempt concludes once and ends with one exit that tells
\* how its turn went, or silently when it was cancelled.
THEOREM AttemptImplemented == Spec => ImplementsAttempt
<1>1. QED
  BY AttemptInit, AttemptStep, LifecycleInit, LifecycleStep, PTL
  DEF Spec, ImplementsAttempt, Lifecycle!Spec
=============================================================================
