---------------------- MODULE ClarificationGate_proofs ----------------------
(***************************************************************************)
(* Theorems about the clarification gate, for every set of comments and    *)
(* questions and any number of edits and restarts.                         *)
(*                                                                         *)
(* A call works with locals it read before several awaits.  The invariant  *)
(* says that they stay what they were taken for: the entry read on entry   *)
(* is still the entry, and the input judged is the input of the call.      *)
(***************************************************************************)
EXTENDS ClarificationGate, TLAPS

InGate == at \in {"comments", "workspace", "turn", "stop", "post", "posted"}

\* A call uses the entry the issue has, and goes on only with a new input.
EntryIsCurrent ==
  /\ InGate => call.waiting = waiting
  /\ at \in {"workspace", "turn", "stop", "post", "posted"} => ~NoNewInput(call.said)

\* What is posted is a new question, about the input judged last.
PostIsJudged ==
  /\ at \in {"post", "posted"} =>
       judged = CallInput /\ call.verdict \in Question /\ IsNews(call.verdict)
  /\ at = "posted" => asked = call.verdict

\* The entry has the questions on the ticket.
AskedIsRecorded ==
  ~unrecorded /\ asked # None => waiting # None /\ waiting.question = asked

IInv == TypeOK /\ EntryIsCurrent /\ PostIsJudged /\ AskedIsRecorded

-----------------------------------------------------------------------------
Calls ==
  [text : 0..MaxText, said : SUBSET Comment, waiting : Entry \cup {None}, verdict : Verdict]

LEMMA GateTypes ==
  /\ NoCall \in Calls
  /\ TypeOK => /\ call \in Calls /\ CallInput \in Input /\ There \in SUBSET Comment
               /\ \A q \in Question : [input |-> CallInput, question |-> q] \in Entry
BY GateAssumption DEF NoCall, Calls, Verdict, TypeOK, CallInput, Input, There, Entry

LEMMA GateInit == Init => IInv
<1> SUFFICES ASSUME Init PROVE IInv
  OBVIOUS
<1>1. TypeOK
  <2>1. NoCall \in Calls /\ 0 \in 0..MaxText /\ 0 \in 0..MaxRestart
    BY GateTypes, GateAssumption
  <2>2. QED
    BY <2>1 DEF Init, TypeOK, Calls
<1>2. EntryIsCurrent /\ PostIsJudged /\ AskedIsRecorded
  BY DEF Init, EntryIsCurrent, PostIsJudged, AskedIsRecorded, InGate
<1>3. QED
  BY <1>1, <1>2 DEF IInv

\* The call ends, and the entry stays or asks the same as before.
LEMMA Denied ==
  ASSUME IInv, Deny, UNCHANGED <<linear, unrecorded, restarts>>, due' \in BOOLEAN,
         judged' \in Input \cup {None}, waiting' \in Entry \cup {None},
         waiting # None => waiting' # None /\ waiting'.question = waiting.question
  PROVE  IInv'
BY GateTypes
DEF IInv, TypeOK, EntryIsCurrent, PostIsJudged, AskedIsRecorded, InGate, Deny, linear, Calls

LEMMA GateStep == IInv /\ [Next]_vars => IInv'
<1> SUFFICES ASSUME IInv, [Next]_vars PROVE IInv'
  OBVIOUS
<1>0. TypeOK /\ call \in Calls /\ CallInput \in Input /\ There \in SUBSET Comment
  BY GateTypes DEF IInv
<1> USE DEF IInv, TypeOK, EntryIsCurrent, PostIsJudged, AskedIsRecorded, InGate, linear
<1>1. CASE FetchCandidates
  BY <1>0, <1>1, GateTypes DEF FetchCandidates, Calls, NoCall
<1>2. CASE NoSlot \/ NotDue \/ CommentsFail \/ StartFails \/ NoVerdict \/ PostFails
             \/ PostUnanswered
  BY <1>0, <1>2, Denied
  DEF NoSlot, NotDue, CommentsFail, StartFails, NoVerdict, PostFails, PostUnanswered
<1>3. CASE EnterGate
  BY <1>0, <1>3 DEF EnterGate, Calls
<1>4. CASE CommentsArrive
  <2>1. CASE Deny /\ waiting' = call.waiting /\ due' \in BOOLEAN
    BY <1>0, <1>4, <2>1, Denied DEF CommentsArrive
  <2>2. CASE /\ ~NoNewInput(There)
             /\ at' = "workspace" /\ call' = [call EXCEPT !.said = There]
             /\ UNCHANGED <<waiting, due>>
    BY <1>0, <1>4, <2>2 DEF CommentsArrive, Calls, NoNewInput
  <2>3. QED
    BY <1>4, <2>1, <2>2 DEF CommentsArrive
<1>5. CASE StartSession
  BY <1>0, <1>5 DEF StartSession, NoNewInput
<1>6. ASSUME NEW v \in Verdict, TurnEnds(v) PROVE IInv'
  BY <1>0, <1>6 DEF TurnEnds, NoNewInput, Calls
<1>7. CASE Allow
  BY <1>0, <1>7, GateTypes DEF Allow, Calls
<1>8. CASE Ask
  <2>1. call.verdict \in Question /\ judged' = CallInput /\ at = "stop"
    BY <1>8 DEF Ask, Asks
  <2>2. CASE IsNews(call.verdict) /\ at' = "post" /\ UNCHANGED <<call, waiting, due>>
    BY <1>0, <1>8, <2>1, <2>2 DEF Ask, IsNews, NoNewInput, CallInput
  <2>3. CASE ~IsNews(call.verdict) /\ Record(call.verdict) /\ Deny
    <3>1. call.waiting = waiting /\ waiting # None /\ waiting.question = call.verdict
      BY <2>1, <2>3 DEF IsNews
    <3>2. /\ waiting' = [input |-> CallInput, question |-> call.verdict]
          /\ due' \in BOOLEAN /\ waiting' \in Entry
      BY <2>1, <2>3, GateTypes DEF Record
    <3>3. waiting' # None /\ waiting'.question = waiting.question
      BY <3>1, <3>2, GateAssumption
    <3>4. QED
      BY <1>0, <1>8, <2>1, <2>3, <3>2, <3>3, Denied DEF Ask
  <2>4. QED
    BY <1>8, <2>2, <2>3 DEF Ask
<1>9. CASE PostArrives
  <2>1. text' \in 0..MaxText
    BY <1>0, <1>9, GateAssumption DEF PostArrives
  <2>2. asked' \in Question
    BY <1>9 DEF PostArrives
  <2>3. QED
    BY <1>0, <1>9, <2>1, <2>2 DEF PostArrives, IsNews, NoNewInput, CallInput
<1>10. CASE PostAnswered
  <2>1. /\ waiting' = [input |-> CallInput, question |-> call.verdict]
        /\ due' \in BOOLEAN /\ waiting' \in Entry /\ asked = call.verdict
    BY <1>10, GateTypes DEF PostAnswered, Record
  <2>2. waiting' # None /\ waiting'.question = asked
    BY <2>1, GateAssumption
  <2>3. QED
    BY <1>0, <1>10, <2>1, <2>2, GateTypes DEF PostAnswered, Deny, Calls
<1>11. CASE EditText
  <2>1. text' \in 0..MaxText
    BY <1>0, <1>11, GateAssumption DEF EditText
  <2>2. QED
    BY <1>0, <1>11, <2>1 DEF EditText, IsNews, NoNewInput, CallInput
<1>12. ASSUME NEW c \in Comment, EditComment(c) PROVE IInv'
  BY <1>0, <1>12 DEF EditComment, IsNews, NoNewInput, CallInput
<1>13. CASE PollIntervalPasses
  BY <1>0, <1>13 DEF PollIntervalPasses, IsNews, NoNewInput, CallInput
<1>14. CASE ComesBack
  BY <1>0, <1>14 DEF ComesBack
<1>15. CASE Restart
  <2>1. restarts' \in 0..MaxRestart
    BY <1>0, <1>15, GateAssumption DEF Restart
  <2>2. QED
    BY <1>0, <1>15, <2>1, GateTypes DEF Restart, Deny, Calls
<1>16. CASE UNCHANGED vars
  BY <1>0, <1>16 DEF vars, IsNews, NoNewInput, CallInput
<1>17. QED
  BY <1>1, <1>2, <1>3, <1>4, <1>5, <1>6, <1>7, <1>8, <1>9, <1>10, <1>11, <1>12, <1>13, <1>14,
     <1>15, <1>16
  DEF Next, Gate

-----------------------------------------------------------------------------
\* The state is what the code takes it for.
THEOREM TypeCorrect == Spec => []TypeOK
<1>1. IInv => TypeOK
  BY DEF IInv
<1>2. QED
  BY <1>1, GateInit, GateStep, PTL DEF Spec

\* An input is in the entry only when a verdict was given on it.
THEOREM EntriesAreJudged == Spec => OnlyJudgedInput
<1>1. ASSUME IInv, [Next]_vars, waiting' # None,
             waiting = None \/ waiting'.input # waiting.input
      PROVE  waiting'.input = judged'
  <2> USE <1>1 DEF IInv, EntryIsCurrent, PostIsJudged, InGate
  <2>1. CASE Ask
    BY <2>1 DEF Ask, Record
  <2>2. CASE PostAnswered
    BY <2>2 DEF PostAnswered, Record
  <2>3. CASE CommentsArrive
    BY <2>3 DEF CommentsArrive
  <2>4. CASE Allow \/ Restart
    BY <2>4 DEF Allow, Restart
  <2>5. CASE UNCHANGED waiting
    BY <2>5
  <2>6. QED
    BY <2>1, <2>2, <2>3, <2>4, <2>5
    DEF Next, Gate, FetchCandidates, NoSlot, NotDue, EnterGate, CommentsFail, StartFails,
        StartSession, TurnEnds, NoVerdict, PostFails, PostArrives, PostUnanswered, EditText,
        EditComment, PollIntervalPasses, ComesBack, vars
<1>2. IInv /\ [Next]_vars =>
        [waiting' # None /\ (waiting = None \/ waiting'.input # waiting.input) =>
           waiting'.input = judged']_vars
  BY <1>1
<1>3. QED
  BY <1>2, GateInit, GateStep, PTL DEF Spec, OnlyJudgedInput

\* A waiting issue goes on, or is asked something else, only for a new input.
THEOREM WaitingIsKept == Spec => WaitsForNewInput
<1>1. ASSUME IInv, [Next]_vars, waiting # None, restarts' = restarts,
             waiting' = None \/ waiting'.question # waiting.question
      PROVE  CallInput # waiting.input
  <2> USE <1>1 DEF IInv, EntryIsCurrent, PostIsJudged, InGate, NoNewInput, CallInput
  <2>1. CASE Ask \/ PostAnswered \/ Allow
    BY <2>1 DEF Ask, PostAnswered, Allow
  <2>2. CASE CommentsArrive
    BY <2>2 DEF CommentsArrive
  <2>3. ~Restart
    BY GateAssumption DEF Restart, TypeOK
  <2>4. CASE UNCHANGED waiting
    BY <2>4
  <2>5. QED
    BY <2>1, <2>2, <2>3, <2>4
    DEF Next, Gate, FetchCandidates, NoSlot, NotDue, EnterGate, CommentsFail, StartFails,
        StartSession, TurnEnds, NoVerdict, PostFails, PostArrives, PostUnanswered, EditText,
        EditComment, PollIntervalPasses, ComesBack, vars
<1>2. IInv /\ [Next]_vars =>
        [waiting # None /\ restarts' = restarts
           /\ (waiting' = None \/ waiting'.question # waiting.question) =>
           CallInput # waiting.input]_vars
  BY <1>1
<1>3. QED
  BY <1>2, GateInit, GateStep, PTL DEF Spec, WaitsForNewInput

\* What is on the ticket is not posted again, unless its entry may be gone.
THEOREM QuestionsPostedOnce == Spec => NotAskedTwice
<1>1. ASSUME IInv, at = "post", call.verdict = asked PROVE unrecorded
  BY <1>1, GateAssumption
  DEF IInv, EntryIsCurrent, PostIsJudged, AskedIsRecorded, InGate, IsNews, TypeOK
<1>2. IInv /\ [Next]_vars =>
        [at = "post" /\ at' = "posted" /\ call.verdict = asked => unrecorded]_vars
  BY <1>1
<1>3. QED
  BY <1>2, GateInit, GateStep, PTL DEF Spec, NotAskedTwice
=============================================================================
