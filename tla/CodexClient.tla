---------------------------- MODULE CodexClient ----------------------------
(***************************************************************************)
(* codex/client.py and the frames of codex/process.py: one CodexClient,    *)
(* from start_session to the end of stream_turn, and the codex app-server  *)
(* at the other end of the pipes (external, as the client uses it).        *)
(*                                                                         *)
(* A frame is a record of its kind, its id and what the client tells apart *)
(* in its body.  pc says which response or notification the client awaits. *)
(***************************************************************************)
EXTENDS Naturals, Sequences

CONSTANTS
  None,
  MaxNoise,    \* how many frames the server sends without being asked
  Timeouts,    \* whether read_timeout_ms and turn_timeout_ms may expire
  ServerFails  \* whether the server may refuse requests or exit

ASSUME NoiseAssumption == MaxNoise \in Nat
ASSUME SwitchAssumption == Timeouts \in BOOLEAN /\ ServerFails \in BOOLEAN

VARIABLES
  pc,        \* where start_session or stream_turn is
  handling,  \* the id of the tool call being executed, or None
  outcome,   \* what was returned or raised, or None
  toServer,  \* frames in the server's stdin
  toClient,  \* frames in the server's stdout
  alive,     \* whether the subprocess runs
  stage,     \* how far the server is with the handshake
  turns,     \* what the server does with the turn of each turn/start
  asked,     \* ids of the server's requests that wait for a reply
  noise      \* frames sent without being asked so far

client == <<pc, handling, outcome>>
server == <<alive, stage, turns, asked, noise>>
vars == <<pc, handling, outcome, toServer, toClient, alive, stage, turns,
          asked, noise>>

\* The four requests of an attempt and their ids, from _allocate_id: the
\* handshake starts a turn and stream_turn starts another one.
RequestId == [initialize |-> 1, thread |-> 2, firstTurn |-> 3, ack |-> 4]
Handshake == {"initialize", "thread", "firstTurn"}
Awaiting == Handshake \cup {"ack"}
Turn == {RequestId.firstTurn, RequestId.ack}
OwnTurn == RequestId.ack

Ended == {"completed", "failed", "interrupted"}
RequestKind == {"tool", "known", "raises", "unknown", "badParams", "badId"}
Body == {"ok", "noId", "error", "malformed", "inProgress", "unknown", "retry",
         "fatal"} \cup Ended \cup RequestKind
FrameId == 0 .. (OwnTurn + MaxNoise)
Frame == [kind : {"response", "request", "turn/completed", "error", "event",
                  "garbage"},
          id : FrameId, body : Body]
Message == [kind : {"initialize", "initialized", "thread/start", "turn/start",
                    "result", "invalidParams", "methodNotFound", "internalError"},
            id : FrameId]

Returned == {"succeeded", "TurnFailed", "TurnCancelled"}
Raised == {"TurnTimeout", "PortExit", "ResponseError", "ResponseTimeout",
           "CodexNotFound"}

ASSUME NoneAssumption == None \notin FrameId /\ None \notin Returned \cup Raised

TypeOK ==
  /\ pc \in Awaiting \cup {"idle", "ready", "stream", "done"}
  /\ handling \in FrameId \cup {None}
  /\ outcome \in Returned \cup Raised \cup {None}
  /\ toServer \in Seq(Message) /\ toClient \in Seq(Frame)
  /\ alive \in BOOLEAN
  /\ stage \in {"fresh", "greeted", "initialized", "thread"}
  /\ turns \in [Turn -> Ended \cup {"none", "running"}]
  /\ asked \subseteq FrameId
  /\ noise \in 0 .. MaxNoise

-----------------------------------------------------------------------------
(* The client. *)

Ends(result) ==
  pc' = "done" /\ outcome' = result /\ handling' = None /\ UNCHANGED toServer

Continue(next) ==
  pc' = next /\ handling' = None /\ UNCHANGED <<outcome, toServer>>

\* write_frame, followed by what comes next.  Writing to a process that has
\* exited raises PortExit, or goes unnoticed until the next read.
Write(messages, next) ==
  \/ /\ toServer' = toServer \o messages /\ pc' = next /\ handling' = None
     /\ UNCHANGED outcome
  \/ ~alive /\ Ends("PortExit")

Request(kind, step) == [kind |-> kind, id |-> RequestId[step]]

\* start_session: the first request of the handshake.
StartSession ==
  /\ pc = "idle"
  /\ Write(<<Request("initialize", "initialize")>>, "initialize")
  /\ UNCHANGED <<toClient, server>>

\* stream_turn: turn.start once more, on the thread of the handshake.
StreamTurn ==
  /\ pc = "ready" /\ Write(<<Request("turn/start", "ack")>>, "ack")
  /\ UNCHANGED <<toClient, server>>

\* What a result to the awaited request leads to.  Slip: no initialized
\* notification.
SkipInitialized ==
  CASE pc = "initialize" -> Write(<<Request("thread/start", "thread")>>, "thread")
    [] OTHER -> FALSE
Proceed ==
  CASE pc = "initialize" ->
         Write(<<[kind |-> "initialized", id |-> 0], Request("thread/start", "thread")>>,
               "thread")
    [] pc = "thread" -> Write(<<Request("turn/start", "firstTurn")>>, "firstTurn")
    [] pc = "firstTurn" -> Continue("ready")
    [] pc = "ack" -> Continue("stream")
    [] OTHER -> FALSE

\* The outcome of a turn that ended with this status.  Slip: the status itself.
RawOutcome(status) == status
TurnOutcome(status) ==
  CASE status = "completed" -> "succeeded"
    [] status = "interrupted" -> "TurnCancelled"
    [] OTHER -> "TurnFailed"

\* parse_response and the callers of _await_response.
TakeResponse(frame) ==
  \/ /\ frame.id # RequestId[pc] \/ frame.body = "malformed"
     /\ Ends("ResponseError")
  \/ /\ frame.id = RequestId[pc]
     /\ \/ frame.body = "error" /\ pc = "ack" /\ Ends("TurnFailed")
        \/ frame.body = "error" /\ pc # "ack" /\ Ends("ResponseError")
        \/ frame.body = "noId" /\ Ends("ResponseError")
        \/ frame.body \in Ended /\ pc = "ack" /\ Ends(TurnOutcome(frame.body))
        \/ frame.body \in Ended /\ pc # "ack" /\ Proceed
        \/ frame.body = "ok" /\ Proceed

\* turn/completed and error in the streaming loop.  Slip: an unknown status
\* passes for success.
LenientCompleted(status) ==
  IF status = "inProgress" THEN Continue(pc)
  ELSE Ends(IF status = "unknown" THEN "succeeded" ELSE TurnOutcome(status))
TakeCompleted(status) ==
  IF status = "inProgress" THEN Continue(pc) ELSE Ends(TurnOutcome(status))
TakeError(body) ==
  IF body = "retry" THEN Continue(pc) ELSE Ends("TurnFailed")

\* _dispatch_server_request: the reply to each kind of request that gets one
\* at once; one with an unusable id gets none.  Slip: none to an unknown method.
ReplyToKnown(kind) ==
  CASE kind = "known" -> {"result"}
    [] kind = "raises" -> {"internalError"}
    [] kind = "badParams" -> {"invalidParams"}
    [] OTHER -> {}
Reply(kind) ==
  CASE kind = "known" -> {"result"}
    [] kind = "raises" -> {"internalError"}
    [] kind = "badParams" -> {"invalidParams"}
    [] kind = "unknown" -> {"methodNotFound"}
    [] OTHER -> {}
DispatchRequest(frame) ==
  \/ \E reply \in Reply(frame.body) :
       Write(<<[kind |-> reply, id |-> frame.id]>>, pc)
  \/ frame.body # "tool" /\ Reply(frame.body) = {} /\ Continue(pc)
  \/ /\ frame.body = "tool" /\ handling' = frame.id
     /\ UNCHANGED <<pc, outcome, toServer>>

\* read_frame and the dispatch on the shape of the frame, in _await_response
\* and in the loop of _run_turn.
ReadFrame ==
  /\ pc \in Awaiting \cup {"stream"} /\ handling = None /\ toClient # <<>>
  /\ toClient' = Tail(toClient) /\ UNCHANGED server
  /\ LET frame == Head(toClient) IN
     \/ frame.kind = "garbage" /\ Ends("ResponseError")
     \/ frame.kind = "request" /\ DispatchRequest(frame)
     \/ frame.kind = "response" /\ pc \in Awaiting /\ TakeResponse(frame)
     \/ frame.kind = "response" /\ pc = "stream" /\ Continue(pc)
     \/ frame.kind = "turn/completed" /\ pc = "stream" /\ TakeCompleted(frame.body)
     \/ frame.kind = "error" /\ pc = "stream" /\ TakeError(frame.body)
     \/ /\ frame.kind \in {"turn/completed", "error"} /\ pc \in Awaiting
        /\ Continue(pc)
     \/ frame.kind = "event" /\ Continue(pc)

\* The tool, or its own timeout, returns: either way a result is the reply.
ToolReturns ==
  /\ handling # None
  /\ Write(<<[kind |-> "result", id |-> handling]>>, pc)
  /\ UNCHANGED <<toClient, server>>

\* readuntil meets the end of the stream.  127 is the exit of a missing
\* command, which has answered nothing.
ReadEof ==
  /\ pc \in Awaiting \cup {"stream"} /\ handling = None
  /\ toClient = <<>> /\ ~alive
  /\ \/ Ends("PortExit")
     \/ stage = "fresh" /\ Ends("CodexNotFound")
  /\ UNCHANGED <<toClient, server>>

\* wait_for in _round_trip and in stream_turn.  Slip: the ack has no limit.
TimedStream == pc = "stream"
Timed == pc \in {"ack", "stream"}
ReadTimeout ==
  /\ Timeouts /\ pc \in Handshake /\ Ends("ResponseTimeout")
  /\ UNCHANGED <<toClient, server>>
TurnTimeout ==
  /\ Timeouts /\ Timed /\ Ends("TurnTimeout") /\ UNCHANGED <<toClient, server>>

Client ==
  StartSession \/ StreamTurn \/ ReadFrame \/ ToolReturns \/ ReadEof

-----------------------------------------------------------------------------
(* The app-server (external). *)

Emit(kind, id, body) ==
  toClient' = Append(toClient, [kind |-> kind, id |-> id, body |-> body])

\* Whether the server, as far as it is, accepts a message.
Acceptable(message) ==
  CASE message.kind = "initialize" -> stage = "fresh"
    [] message.kind = "initialized" -> stage = "greeted"
    [] message.kind = "thread/start" -> stage = "initialized"
    [] message.kind = "turn/start" -> stage = "thread" /\ turns[message.id] = "none"
    [] OTHER -> message.id \in asked

\* The server takes a message that it accepts and answers a request.
ServerAnswers ==
  /\ alive /\ toServer # <<>> /\ Acceptable(Head(toServer))
  /\ toServer' = Tail(toServer) /\ UNCHANGED <<client, alive, noise>>
  /\ LET message == Head(toServer) IN
     CASE message.kind = "initialize" ->
            /\ stage' = "greeted" /\ Emit("response", message.id, "ok")
            /\ UNCHANGED <<turns, asked>>
       [] message.kind = "initialized" ->
            stage' = "initialized" /\ UNCHANGED <<toClient, turns, asked>>
       [] message.kind = "thread/start" ->
            /\ stage' = "thread" /\ Emit("response", message.id, "ok")
            /\ UNCHANGED <<turns, asked>>
       [] message.kind = "turn/start" ->
            /\ \/ /\ turns' = [turns EXCEPT ![message.id] = "running"]
                  /\ Emit("response", message.id, "ok")
               \/ \E status \in Ended :
                    /\ turns' = [turns EXCEPT ![message.id] = status]
                    /\ Emit("response", message.id, status)
            /\ UNCHANGED <<stage, asked>>
       [] OTHER ->
            asked' = asked \ {message.id} /\ UNCHANGED <<toClient, stage, turns>>

\* The server refuses a request, or answers something unusable (noId: without
\* the identity of the thread or turn).
ServerRefuses ==
  /\ ServerFails /\ alive /\ toServer # <<>>
  /\ Head(toServer).kind \in {"initialize", "thread/start", "turn/start"}
  /\ toServer' = Tail(toServer)
  /\ \/ \E body \in {"error", "malformed"} :
          Emit("response", Head(toServer).id, body)
     \/ /\ Head(toServer).kind # "initialize"
        /\ Emit("response", Head(toServer).id, "noId")
  /\ UNCHANGED <<client, server>>

\* A turn ends once the turns before it have and nothing is asked any more.
TurnEndsAtServer(n) ==
  /\ alive /\ asked = {} /\ turns[n] = "running"
  /\ n = OwnTurn => turns[RequestId.firstTurn] # "running"
  /\ \E status \in Ended :
       /\ turns' = [turns EXCEPT ![n] = status]
       /\ Emit("turn/completed", n, status)
  /\ UNCHANGED <<client, toServer, alive, stage, asked, noise>>

\* A request of the server: approvals, tool calls, user input, elicitation.
ServerAsks ==
  /\ alive /\ noise < MaxNoise /\ noise' = noise + 1
  /\ \E kind \in RequestKind :
       LET id == OwnTurn + noise' IN
       /\ Emit("request", id, kind)
       /\ asked' = IF kind = "badId" THEN asked ELSE asked \cup {id}
  /\ UNCHANGED <<client, toServer, alive, stage, turns>>

\* Progress, errors of the session and frames no client can use.
ServerNotifies ==
  /\ alive /\ noise < MaxNoise /\ noise' = noise + 1
  /\ \/ Emit("event", 0, "ok")
     \/ Emit("turn/completed", 0, "inProgress")
     \/ Emit("error", 0, "retry")
     \/ /\ ServerFails
        /\ \/ Emit("turn/completed", 0, "unknown")
           \/ Emit("error", 0, "fatal")
           \/ Emit("garbage", 0, "malformed")
           \/ Emit("response", 0, "ok")
  /\ UNCHANGED <<client, toServer, alive, stage, turns, asked>>

ServerExits ==
  /\ ServerFails /\ alive /\ alive' = FALSE
  /\ UNCHANGED <<client, toServer, toClient, stage, turns, asked, noise>>

-----------------------------------------------------------------------------
Init ==
  /\ pc = "idle" /\ handling = None /\ outcome = None
  /\ toServer = <<>> /\ toClient = <<>>
  /\ alive = TRUE /\ stage = "fresh" /\ turns = [n \in Turn |-> "none"]
  /\ asked = {} /\ noise = 0

Next ==
  \/ StartSession \/ StreamTurn \/ ReadFrame \/ ToolReturns \/ ReadEof
  \/ ReadTimeout \/ TurnTimeout
  \/ ServerAnswers \/ ServerRefuses \/ ServerAsks \/ ServerNotifies \/ ServerExits
  \/ \E n \in Turn : TurnEndsAtServer(n)

Spec == Init /\ [][Next]_vars

\* The event loop resumes the client.  Nothing is assumed of the server, or of
\* time; the two liveness properties name what they need of them.
FairSpec == Spec /\ WF_vars(Client)

\* A server that works: it reads its pipe and its turns end.
ServerWorks ==
  WF_vars(ServerAnswers) /\ \A n \in Turn : WF_vars(TurnEndsAtServer(n))
TimePasses == WF_vars(TurnTimeout)

-----------------------------------------------------------------------------
(* Properties. *)

\* Whatever the server interleaves with its answers, the client speaks its
\* protocol: initialized follows the first answer and precedes everything
\* else, a turn is started on a started thread, and every reply goes to a
\* request that still waits for one, once.
ServerAccepts ==
  alive /\ toServer # <<>> => Acceptable(Head(toServer))

\* While the client waits for the server, the server does not wait for the
\* client: every request that can be answered has been, in the handshake, while
\* waiting for an ack and in the stream.
NoRequestForgotten ==
  /\ pc \in Awaiting \cup {"stream"} /\ handling = None
  /\ toClient = <<>> /\ toServer = <<>>
  => asked = {}

\* A turn is reported successful, or cancelled, only when the server ended a
\* turn of this session that way.
OutcomeReported ==
  /\ outcome = "succeeded" => \E n \in Turn : turns[n] = "completed"
  /\ outcome = "TurnCancelled" => \E n \in Turn : turns[n] = "interrupted"

\* What holds of every state of a session: its types, what the client sends and
\* what it reports.
SessionInv == TypeOK /\ ServerAccepts /\ OutcomeReported

\* With a server that works, and also when no timeout ever helps, the session
\* comes to an end: neither side waits for the other for ever.
SessionEnds == ServerWorks => <>(pc = "done")

\* Whatever the server does, a turn that was started ends.
TurnEnds == TimePasses => (pc = "ack" ~> pc = "done")

\* "Run exactly one Codex turn" (worker.py): success means that the turn that
\* stream_turn started was completed.  The handshake starts a turn too, and its
\* end is taken for the end of the second.
OutcomeOfOwnTurn ==
  outcome = "succeeded" => turns[OwnTurn] = "completed"
=============================================================================
