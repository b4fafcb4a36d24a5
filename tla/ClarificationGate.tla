------------------------- MODULE ClarificationGate -------------------------
(***************************************************************************)
(* The clarification gate for one candidate issue: the dispatcher's        *)
(* _clarification_gate_allows_dispatch with the analysis it runs, the      *)
(* issue and its comments in Linear, and the users who edit both while a   *)
(* call is in flight.  The dispatcher is one task, so calls of the gate    *)
(* never overlap; issues have entries of their own.                        *)
(*                                                                         *)
(* What a fingerprint covers is an input: the version of the issue's text  *)
(* (title, description, updated_at) and the users' comments.  An edited    *)
(* comment is a deleted one and a new one.                                 *)
(***************************************************************************)
EXTENDS Naturals

CONSTANTS
  Comment,     \* comments the users may write, each once
  Question,    \* lists of questions an analysis may come back with
  None,
  MaxText,     \* bound: edits of the issue's text
  MaxRestart   \* bound: restarts of the service

VARIABLES
  text, comments,  \* Linear: the text's version, and what became of each comment
  asked,           \* Linear: the last questions river-gang posted
  waiting,         \* state.clarification_waiting[issue], or None
  due,             \* next_poll_at of that entry is past
  at,              \* where the dispatcher is with this issue
  call,            \* the locals of the call
  judged,          \* history: the input of the last verdict, or None
  unrecorded,      \* history: what was asked last may not be in the entry
  restarts         \* history

linear == <<text, comments, asked>>
vars == <<text, comments, asked, waiting, due, at, call, judged, unrecorded, restarts>>

Input == [text : 0..MaxText, said : SUBSET Comment]
Verdict == Question \cup {"sufficient", "raised"}
Entry == [input : Input, question : Question]
NoCall == [text |-> 0, said |-> {}, waiting |-> None, verdict |-> "raised"]

ASSUME GateAssumption ==
  MaxText \in Nat /\ MaxRestart \in Nat /\ None \notin Question \cup Input \cup Entry

TypeOK ==
  /\ text \in 0..MaxText /\ comments \in [Comment -> {"unwritten", "there", "deleted"}]
  /\ asked \in Question \cup {None} /\ waiting \in Entry \cup {None} /\ due \in BOOLEAN
  /\ at \in {"idle", "candidate", "comments", "workspace", "turn", "stop", "post",
             "posted", "dispatched"}
  /\ call \in [text : 0..MaxText, said : SUBSET Comment, waiting : Entry \cup {None},
               verdict : Verdict]
  /\ judged \in Input \cup {None} /\ unrecorded \in BOOLEAN /\ restarts \in 0..MaxRestart

There == {c \in Comment : comments[c] = "there"}
CurrentInput == [text |-> text, said |-> There]

\* no_new_input: the fingerprints are equal.  Slips: no comment has been added;
\* the question is not asked.
CallInput == [text |-> call.text, said |-> call.said]
AllNew(said) == FALSE
OldIds(said) == call.waiting # None /\ said \subseteq call.waiting.input.said
NoNewInput(said) ==
  call.waiting # None /\ call.waiting.input = [text |-> call.text, said |-> said]

\* return False
Deny == at' = "idle" /\ call' = NoCall

\* The wait entry of an insufficient verdict; next_poll_at counts from the start
\* of the call, so it may be past already.  Slip: the input is taken now.
RecordLatest(q) ==
  /\ waiting' = [input |-> CurrentInput, question |-> q] /\ due' \in BOOLEAN
Record(q) == waiting' = [input |-> CallInput, question |-> q] /\ due' \in BOOLEAN

-----------------------------------------------------------------------------
(* A tick reaches the issue. *)

\* fetch_candidate_issues returned it; other issues are looked at before it.
FetchCandidates ==
  /\ at = "idle" /\ at' = "candidate"
  /\ call' = [NoCall EXCEPT !.text = text]
  /\ UNCHANGED <<linear, waiting, due, judged, unrecorded, restarts>>

\* No slot is left for it.
NoSlot ==
  /\ at = "candidate" /\ Deny
  /\ UNCHANGED <<linear, waiting, due, judged, unrecorded, restarts>>

NotDue ==
  /\ at = "candidate" /\ waiting # None /\ ~due /\ Deny
  /\ UNCHANGED <<linear, waiting, due, judged, unrecorded, restarts>>

\* The entry is read here and used to the end of the call.
EnterGate ==
  /\ at = "candidate" /\ (waiting # None => due)
  /\ at' = "comments" /\ call' = [call EXCEPT !.waiting = waiting]
  /\ UNCHANGED <<linear, waiting, due, judged, unrecorded, restarts>>

CommentsFail ==
  /\ at = "comments" /\ Deny
  /\ UNCHANGED <<linear, waiting, due, judged, unrecorded, restarts>>

CommentsArrive ==
  /\ at = "comments"
  /\ \/ NoNewInput(There) /\ Deny /\ waiting' = call.waiting /\ due' \in BOOLEAN
     \/ /\ ~NoNewInput(There)
        /\ at' = "workspace" /\ call' = [call EXCEPT !.said = There]
        /\ UNCHANGED <<waiting, due>>
  /\ UNCHANGED <<linear, judged, unrecorded, restarts>>

-----------------------------------------------------------------------------
(* The analysis, and what follows from it. *)

\* ensure_for_issue, the client factory or start_session raises.
StartFails ==
  /\ at = "workspace" /\ Deny
  /\ UNCHANGED <<linear, waiting, due, judged, unrecorded, restarts>>

StartSession ==
  /\ at = "workspace" /\ at' = "turn"
  /\ UNCHANGED <<linear, waiting, due, call, judged, unrecorded, restarts>>

\* stream_turn raises, or its payload is parsed: what is no JSON asks a fixed
\* question.
TurnEnds(v) ==
  /\ at = "turn" /\ at' = "stop" /\ call' = [call EXCEPT !.verdict = v]
  /\ UNCHANGED <<linear, waiting, due, judged, unrecorded, restarts>>

\* finally: stop_session.  If it raises the verdict is lost.
NoVerdict ==
  /\ at = "stop" /\ Deny
  /\ UNCHANGED <<linear, waiting, due, judged, unrecorded, restarts>>

Allow ==
  /\ at = "stop" /\ call.verdict = "sufficient"
  /\ at' = "dispatched" /\ call' = NoCall /\ waiting' = None
  /\ due' = FALSE /\ judged' = CallInput /\ unrecorded' = TRUE
  /\ UNCHANGED <<linear, restarts>>

\* A question that is the entry's is not posted again.  Slip: it is.
AlwaysNews(q) == TRUE
IsNews(q) == call.waiting # None => call.waiting.question # q

\* Not sufficient, and nothing was raised.  Slip: whatever is not sufficient.
NotSufficient(v) == v # "sufficient"
Asks(v) == v \in Question

Ask ==
  /\ at = "stop" /\ Asks(call.verdict) /\ judged' = CallInput
  /\ \/ /\ IsNews(call.verdict) /\ at' = "post"
        /\ UNCHANGED <<call, waiting, due>>
     \/ ~IsNews(call.verdict) /\ Record(call.verdict) /\ Deny
  /\ UNCHANGED <<linear, unrecorded, restarts>>

\* add_comment fails before Linear has the comment.
PostFails ==
  /\ at = "post" /\ Deny
  /\ UNCHANGED <<linear, waiting, due, judged, unrecorded, restarts>>

\* Linear may count its own comment as an update of the issue.
PostArrives ==
  /\ at = "post" /\ at' = "posted" /\ asked' = call.verdict
  /\ \/ UNCHANGED text
     \/ text < MaxText /\ text' = text + 1
  /\ unrecorded' = TRUE
  /\ UNCHANGED <<comments, waiting, due, call, judged, restarts>>

PostAnswered ==
  /\ at = "posted" /\ Record(call.verdict) /\ Deny /\ unrecorded' = FALSE
  /\ UNCHANGED <<linear, judged, restarts>>

\* The reply is lost: the code cannot tell it from PostFails.
PostUnanswered ==
  /\ at = "posted" /\ Deny
  /\ UNCHANGED <<linear, waiting, due, judged, unrecorded, restarts>>

-----------------------------------------------------------------------------
(* Users, time, and the service. *)

EditText ==
  /\ text < MaxText /\ text' = text + 1
  /\ UNCHANGED <<comments, asked, waiting, due, at, call, judged, unrecorded, restarts>>

EditComment(c) ==
  /\ \/ comments[c] = "unwritten" /\ comments' = [comments EXCEPT ![c] = "there"]
     \/ comments[c] = "there" /\ comments' = [comments EXCEPT ![c] = "deleted"]
  /\ UNCHANGED <<text, asked, waiting, due, at, call, judged, unrecorded, restarts>>

PollIntervalPasses ==
  /\ waiting # None /\ ~due /\ due' = TRUE
  /\ UNCHANGED <<linear, waiting, at, call, judged, unrecorded, restarts>>

\* The worker has ended and the issue is a candidate again.
ComesBack ==
  /\ at = "dispatched" /\ at' = "idle"
  /\ UNCHANGED <<linear, waiting, due, call, judged, unrecorded, restarts>>

\* clarification_waiting is in memory only.
Restart ==
  /\ restarts < MaxRestart /\ restarts' = restarts + 1
  /\ waiting' = None /\ due' = FALSE /\ Deny /\ unrecorded' = TRUE
  /\ UNCHANGED <<linear, judged>>

-----------------------------------------------------------------------------
Init ==
  /\ text = 0 /\ comments = [c \in Comment |-> "unwritten"] /\ asked = None
  /\ waiting = None /\ due = FALSE /\ at = "idle" /\ call = NoCall
  /\ judged = None /\ unrecorded = FALSE /\ restarts = 0

Gate ==
  \/ FetchCandidates \/ NoSlot \/ NotDue \/ EnterGate
  \/ CommentsFail \/ CommentsArrive \/ StartFails \/ StartSession
  \/ \E v \in Verdict : TurnEnds(v)
  \/ NoVerdict \/ Allow \/ Ask
  \/ PostFails \/ PostArrives \/ PostAnswered \/ PostUnanswered

Next ==
  \/ Gate
  \/ EditText \/ (\E c \in Comment : EditComment(c))
  \/ PollIntervalPasses \/ ComesBack \/ Restart

Spec == Init /\ [][Next]_vars

\* The dispatcher goes on ticking and every request, turn and stop_session has
\* a timeout.  An outcome that is possible again and again happens some time:
\* Linear and the analysis do not fail for ever, and slots get free.
FairSpec ==
  /\ Spec /\ WF_vars(Gate) /\ WF_vars(PollIntervalPasses)
  /\ SF_vars(EnterGate) /\ SF_vars(CommentsArrive) /\ SF_vars(StartSession)
  /\ SF_vars(\E v \in Verdict \ {"raised"} : TurnEnds(v))
  /\ SF_vars(Allow \/ Ask) /\ SF_vars(PostArrives) /\ SF_vars(PostAnswered)

-----------------------------------------------------------------------------
(* Properties. *)

\* What the wait entry says has been considered, has been considered: its input
\* is one a verdict was given on, never one that arrived during the analysis or
\* while the question was posted.  Otherwise an answer would be taken for known.
OnlyJudgedInput ==
  [][waiting' # None /\ (waiting = None \/ waiting'.input # waiting.input) =>
       waiting'.input = judged']_vars

\* An issue that waits for an answer is neither dispatched nor asked something
\* else before its text or comments differ from what was judged.
WaitsForNewInput ==
  [][waiting # None /\ restarts' = restarts
       /\ (waiting' = None \/ waiting'.question # waiting.question) =>
       CallInput # waiting.input]_vars

\* The questions on the ticket are not posted a second time, unless their entry
\* went with a dispatch or a restart or the reply of add_comment was lost.
NotAskedTwice ==
  [][at = "post" /\ at' = "posted" /\ call.verdict = asked => unrecorded]_vars

\* Once users stop editing, what they wrote is in the entry the issue waits
\* with, its questions posted, or the issue has been dispatched: no answer is
\* overlooked, whenever in a call it arrives.
AnswersConsidered ==
  []<>(at = "dispatched" \/ (waiting # None /\ waiting.input = CurrentInput))
=============================================================================
