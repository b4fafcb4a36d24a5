------------------------- MODULE CodexClient_proofs -------------------------
(***************************************************************************)
(* Theorems about CodexClient, however much the server sends unasked and   *)
(* whether or not it fails and timeouts expire.                            *)
(***************************************************************************)
EXTENDS CodexClient, SequenceTheorems, TLAPS

HandshakeKind == {"initialize", "initialized", "thread/start", "turn/start"}
ReplyKind == {"result", "invalidParams", "methodNotFound", "internalError"}
Good == {"ok"} \cup Ended

\* The last request that has been sent.
LastId ==
  [idle |-> 0, initialize |-> 1, thread |-> 2, firstTurn |-> 3, ready |-> 3, ack |-> 4,
   stream |-> 4, done |-> 4]

\* How far the server is once it has accepted the awaited request.
StageAfter ==
  [initialize |-> "greeted", thread |-> "thread", firstTurn |-> "thread", ack |-> "thread"]

\* Where the messages and frames are.
StepAt(k, kind) == k \in DOMAIN toServer /\ toServer[k].kind = kind /\ kind \in HandshakeKind
RepliedAt(k, r) ==
  k \in DOMAIN toServer /\ toServer[k].kind \in ReplyKind /\ toServer[k].id = r
AskedAt(k, r) ==
  /\ k \in DOMAIN toClient /\ toClient[k].kind = "request" /\ toClient[k].id = r
  /\ toClient[k].body # "badId"
AnsweredAt(k, r, body) ==
  /\ k \in DOMAIN toClient /\ toClient[k].kind = "response" /\ toClient[k].id = r
  /\ toClient[k].body = body
EndedAt(k, body) ==
  k \in DOMAIN toClient /\ toClient[k].kind = "turn/completed" /\ toClient[k].body = body

NoStep == \A k, kind : ~StepAt(k, kind)

\* Each message of the protocol is sent once and suits the stage of the server,
\* or will when the one before it has been read.
StepsInOrder ==
  /\ \A j, k, kind : StepAt(j, kind) /\ StepAt(k, kind) => j = k
  /\ \A k : StepAt(k, "initialize") => stage = "fresh" /\ toServer[k].id = 1
  /\ \A k : StepAt(k, "initialized") => stage = "greeted"
  /\ \A k : StepAt(k, "thread/start") =>
       /\ toServer[k].id = 2 /\ 2 <= LastId[pc]
       /\ \/ stage = "initialized"
          \/ stage = "greeted" /\ \E j : StepAt(j, "initialized") /\ j < k
  /\ \A k : StepAt(k, "turn/start") =>
       /\ toServer[k].id \in Turn /\ toServer[k].id <= LastId[pc]
       /\ stage = "thread" /\ turns[toServer[k].id] = "none"

\* Between two requests, and once the awaited one was accepted, nothing is on
\* its way to the server and it is where the next step needs it.
Synchronized ==
  /\ pc = "idle" => NoStep /\ stage = "fresh" /\ handling = None
  /\ pc = "ready" => NoStep /\ stage = "thread" /\ handling = None
  /\ pc \in Awaiting => \A k, body : AnsweredAt(k, RequestId[pc], body) /\ body \in Good =>
       NoStep /\ stage = StageAfter[pc]

\* Nothing is answered or started before it has been requested.
OnlyRequested ==
  /\ \A k, r, body : AnsweredAt(k, r, body) => r <= LastId[pc]
  /\ \A n \in Turn : turns[n] # "none" => n <= LastId[pc]

\* The end of a turn that is reported to the client is what happened to one.
EndsTold ==
  /\ \A k, r, body : AnsweredAt(k, r, body) /\ body \in Ended => r \in Turn /\ turns[r] = body
  /\ \A k, body : EndedAt(k, body) /\ body \in Ended => \E n \in Turn : turns[n] = body

\* A request of the server that waits for a reply is in one place: unread, at
\* the tool, or answered; at most one, and at least one until the client is done.
RequestsTracked ==
  /\ \A r \in asked : r > OwnTurn /\ r <= OwnTurn + noise
  /\ \A k, r : AskedAt(k, r) \/ RepliedAt(k, r) => r \in asked
  /\ handling # None => handling \in asked
  /\ \A j, k, r : AskedAt(j, r) /\ AskedAt(k, r) => j = k
  /\ \A j, k, r : RepliedAt(j, r) /\ RepliedAt(k, r) => j = k
  /\ \A j, k, r : ~(AskedAt(j, r) /\ RepliedAt(k, r))
  /\ \A k : ~AskedAt(k, handling) /\ ~RepliedAt(k, handling)
  /\ pc # "done" => \A r \in asked :
       handling = r \/ \E k : AskedAt(k, r) \/ RepliedAt(k, r)

RequestBodies ==
  \A k \in DOMAIN toClient : toClient[k].kind = "request" => toClient[k].body \in RequestKind

IInv ==
  /\ TypeOK /\ StepsInOrder /\ Synchronized /\ OnlyRequested /\ EndsTold
  /\ RequestsTracked /\ RequestBodies /\ OutcomeReported

-----------------------------------------------------------------------------
(* Ids, stages and pipes. *)

LEMMA Ids ==
  /\ RequestId["initialize"] = 1 /\ RequestId["thread"] = 2
  /\ RequestId["firstTurn"] = 3 /\ RequestId["ack"] = 4 /\ OwnTurn = 4
  /\ LastId["idle"] = 0 /\ LastId["initialize"] = 1 /\ LastId["thread"] = 2
  /\ LastId["firstTurn"] = 3 /\ LastId["ready"] = 3 /\ LastId["ack"] = 4
  /\ LastId["stream"] = 4 /\ LastId["done"] = 4
  /\ StageAfter["initialize"] = "greeted" /\ StageAfter["thread"] = "thread"
  /\ StageAfter["firstTurn"] = "thread" /\ StageAfter["ack"] = "thread"
  /\ Turn = {3, 4} /\ FrameId = 0 .. (4 + MaxNoise)
BY DEF RequestId, OwnTurn, LastId, StageAfter, Turn, FrameId

\* A pipe that is read, and one that is written.
LEMMA Taken ==
  ASSUME NEW T, NEW s \in Seq(T), s # <<>>
  PROVE  /\ Tail(s) \in Seq(T) /\ Head(s) = s[1] /\ 1 \in DOMAIN s /\ Head(s) \in T
         /\ \A k : k \in DOMAIN Tail(s) <=> k \in Nat \ {0} /\ k + 1 \in DOMAIN s
         /\ \A k \in DOMAIN Tail(s) : Tail(s)[k] = s[k + 1]
<1>1. Len(s) \in Nat /\ Len(s) > 0 /\ DOMAIN s = 1..Len(s)
  OBVIOUS
<1>2. Tail(s) \in Seq(T) /\ DOMAIN Tail(s) = 1..(Len(s) - 1) /\ Head(s) = s[1]
  BY <1>1
<1>3. QED
  BY <1>1, <1>2

LEMMA Given ==
  ASSUME NEW T, NEW s \in Seq(T), NEW m \in T
  PROVE  /\ Append(s, m) \in Seq(T) /\ s \o <<m>> = Append(s, m)
         /\ \E n \in Nat \ {0} :
              /\ DOMAIN Append(s, m) = DOMAIN s \cup {n} /\ n \notin DOMAIN s
              /\ \A k \in DOMAIN s : k \in Nat \ {0} /\ k < n /\ Append(s, m)[k] = s[k]
              /\ Append(s, m)[n] = m
<1> DEFINE n == Len(s) + 1
<1>1. /\ DOMAIN Append(s, m) = DOMAIN s \cup {n} /\ n \notin DOMAIN s /\ n \in Nat \ {0}
      /\ \A k \in DOMAIN s : k \in Nat \ {0} /\ k < n /\ Append(s, m)[k] = s[k]
      /\ Append(s, m)[n] = m
  OBVIOUS
<1>2. Append(s, m) \in Seq(T) /\ s \o <<m>> = Append(s, m)
  OBVIOUS
<1> HIDE DEF n
<1>3. QED
  BY <1>1, <1>2

LEMMA Pipes ==
  ASSUME TypeOK
  PROVE  /\ \A k \in DOMAIN toServer : /\ k \in Nat \ {0} /\ toServer[k] \in Message
                                      /\ toServer[k].kind \in HandshakeKind \cup ReplyKind
                                      /\ toServer[k].id \in FrameId
         /\ \A k \in DOMAIN toClient : /\ k \in Nat \ {0} /\ toClient[k] \in Frame
                                       /\ toClient[k].id \in FrameId
                                       /\ toClient[k].body \in Body
<1>1. toServer \in Seq(Message) /\ toClient \in Seq(Frame)
  BY DEF TypeOK
<1>2. \A m \in Message : m.kind \in HandshakeKind \cup ReplyKind /\ m.id \in FrameId
  BY DEF Message, HandshakeKind, ReplyKind
<1>3. \A f \in Frame : f.id \in FrameId /\ f.body \in Body
  BY DEF Frame
<1>4. QED
  BY <1>1, <1>2, <1>3

\* A pipe nobody touches.
LEMMA SameMessages ==
  ASSUME UNCHANGED toServer
  PROVE  /\ \A k, kind : StepAt(k, kind)' <=> StepAt(k, kind)
         /\ \A k, r : RepliedAt(k, r)' <=> RepliedAt(k, r)
BY DEF StepAt, RepliedAt

LEMMA SameFrames ==
  ASSUME UNCHANGED toClient
  PROVE  /\ \A k, r : AskedAt(k, r)' <=> AskedAt(k, r)
         /\ \A k, r, body : AnsweredAt(k, r, body)' <=> AnsweredAt(k, r, body)
         /\ \A k, body : EndedAt(k, body)' <=> EndedAt(k, body)
         /\ RequestBodies' <=> RequestBodies
BY DEF AskedAt, AnsweredAt, EndedAt, RequestBodies

\* The server reads.
LEMMA MessageTaken ==
  ASSUME TypeOK, toServer # <<>>, toServer' = Tail(toServer)
  PROVE  /\ toServer' \in Seq(Message)
         /\ \A k, kind : StepAt(k, kind)' <=> k \in Nat \ {0} /\ StepAt(k + 1, kind)
         /\ \A k, kind : StepAt(k, kind)' => toServer'[k] = toServer[k + 1]
         /\ \A k, r : RepliedAt(k, r)' <=> k \in Nat \ {0} /\ RepliedAt(k + 1, r)
<1>1. toServer \in Seq(Message)
  BY DEF TypeOK
<1>2. QED
  BY <1>1, Taken DEF StepAt, RepliedAt

\* The client reads.
LEMMA FrameTaken ==
  ASSUME TypeOK, toClient # <<>>, toClient' = Tail(toClient)
  PROVE  /\ toClient' \in Seq(Frame)
         /\ \A k, r : AskedAt(k, r)' <=> k \in Nat \ {0} /\ AskedAt(k + 1, r)
         /\ \A k, r, body :
              AnsweredAt(k, r, body)' <=> k \in Nat \ {0} /\ AnsweredAt(k + 1, r, body)
         /\ \A k, body : EndedAt(k, body)' <=> k \in Nat \ {0} /\ EndedAt(k + 1, body)
         /\ RequestBodies => RequestBodies'
<1>1. toClient \in Seq(Frame)
  BY DEF TypeOK
<1>2. QED
  BY <1>1, Taken DEF AskedAt, AnsweredAt, EndedAt, RequestBodies

\* The client writes.
LEMMA MessageGiven ==
  ASSUME TypeOK, NEW m \in Message, toServer' = toServer \o <<m>>
  PROVE  /\ toServer' \in Seq(Message)
         /\ \E n \in Nat \ {0} :
              /\ \A k, kind : StepAt(k, kind)' <=>
                   StepAt(k, kind) \/ (k = n /\ m.kind = kind /\ kind \in HandshakeKind)
              /\ \A k, kind : StepAt(k, kind) => k < n /\ toServer'[k] = toServer[k]
              /\ toServer'[n] = m
              /\ \A k, r : RepliedAt(k, r)' <=>
                   RepliedAt(k, r) \/ (k = n /\ m.kind \in ReplyKind /\ m.id = r)
              /\ \A k, r : RepliedAt(k, r) => k < n
<1>1. toServer \in Seq(Message)
  BY DEF TypeOK
<1>2. QED
  BY <1>1, Given DEF StepAt, RepliedAt

\* The server writes.
LEMMA FrameGiven ==
  ASSUME TypeOK, NEW kind, NEW id, NEW body, Emit(kind, id, body),
         [kind |-> kind, id |-> id, body |-> body] \in Frame
  PROVE  /\ toClient' \in Seq(Frame)
         /\ \E n \in Nat \ {0} :
              /\ \A k, r : AskedAt(k, r)' <=>
                   AskedAt(k, r) \/ (k = n /\ kind = "request" /\ r = id /\ body # "badId")
              /\ \A k, r, b : AnsweredAt(k, r, b)' <=>
                   AnsweredAt(k, r, b) \/ (k = n /\ kind = "response" /\ r = id /\ b = body)
              /\ \A k, b : EndedAt(k, b)' <=>
                   EndedAt(k, b) \/ (k = n /\ kind = "turn/completed" /\ b = body)
              /\ \A k, r : AskedAt(k, r) => k < n
              /\ RequestBodies /\ (kind = "request" => body \in RequestKind) => RequestBodies'
<1>1. toClient \in Seq(Frame)
  BY DEF TypeOK
<1>2. QED
  BY <1>1, Given DEF Emit, AskedAt, AnsweredAt, EndedAt, RequestBodies

-----------------------------------------------------------------------------
(* Types *)

ClientOK ==
  /\ pc \in Awaiting \cup {"idle", "ready", "stream", "done"}
  /\ handling \in FrameId \cup {None}
  /\ outcome \in Returned \cup Raised \cup {None}
  /\ toServer \in Seq(Message)

LEMMA EndsType ==
  ASSUME TypeOK, NEW result \in Returned \cup Raised, Ends(result)
  PROVE  ClientOK'
BY DEF ClientOK, Ends, TypeOK

LEMMA ContinueType ==
  ASSUME TypeOK, NEW next \in Awaiting \cup {"idle", "ready", "stream", "done"}, Continue(next)
  PROVE  ClientOK'
BY DEF ClientOK, Continue, TypeOK

LEMMA WriteType ==
  ASSUME TypeOK, NEW next \in Awaiting \cup {"idle", "ready", "stream", "done"},
         NEW messages \in Seq(Message), Write(messages, next)
  PROVE  ClientOK'
<1>1. CASE Ends("PortExit")
  BY <1>1, EndsType DEF Raised
<1>2. CASE toServer' = toServer \o messages /\ pc' = next /\ handling' = None /\ UNCHANGED outcome
  <2>1. toServer' \in Seq(Message)
    BY <1>2 DEF TypeOK
  <2>2. QED
    BY <1>2, <2>1 DEF ClientOK, TypeOK
<1>3. QED
  BY <1>1, <1>2 DEF Write

LEMMA RequestTypes ==
  /\ \A step \in Awaiting, kind \in HandshakeKind : Request(kind, step) \in Message
  /\ [kind |-> "initialized", id |-> 0] \in Message
BY Ids, NoiseAssumption DEF Request, Message, Awaiting, Handshake, HandshakeKind

LEMMA RequestSeqs ==
  /\ \A step \in Awaiting, kind \in HandshakeKind : <<Request(kind, step)>> \in Seq(Message)
  /\ <<[kind |-> "initialized", id |-> 0], Request("thread/start", "thread")>> \in Seq(Message)
<1>1. Request("thread/start", "thread") \in Message
  BY RequestTypes DEF Awaiting, Handshake, HandshakeKind
<1>2. <<[kind |-> "initialized", id |-> 0], Request("thread/start", "thread")>> \in Seq(Message)
  BY <1>1, RequestTypes
<1>3. QED
  BY <1>2, RequestTypes

LEMMA OutcomeType == \A status : TurnOutcome(status) \in Returned
BY DEF TurnOutcome, Returned

LEMMA ProceedType ==
  ASSUME TypeOK, Proceed
  PROVE  ClientOK'
<1>1. CASE pc = "initialize"
  <2>1. Write(<<[kind |-> "initialized", id |-> 0], Request("thread/start", "thread")>>, "thread")
    BY <1>1 DEF Proceed
  <2>2. QED
    BY <2>1, RequestSeqs, WriteType DEF Awaiting, Handshake
<1>2. CASE pc = "thread"
  <2>1. Write(<<Request("turn/start", "firstTurn")>>, "firstTurn")
    BY <1>2 DEF Proceed
  <2>2. <<Request("turn/start", "firstTurn")>> \in Seq(Message)
    BY RequestSeqs DEF Awaiting, Handshake, HandshakeKind
  <2>3. QED
    BY <2>1, <2>2, WriteType DEF Awaiting, Handshake
<1>3. CASE pc = "firstTurn"
  BY <1>3, ContinueType DEF Proceed
<1>4. CASE pc = "ack"
  BY <1>4, ContinueType DEF Proceed
<1>5. QED
  BY <1>1, <1>2, <1>3, <1>4 DEF Proceed

LEMMA TypeReadFrame ==
  ASSUME TypeOK, ReadFrame
  PROVE  TypeOK'
<1> DEFINE frame == Head(toClient)
<1>1. toClient # <<>> /\ toClient' = Tail(toClient) /\ UNCHANGED server
  BY DEF ReadFrame
<1>2. toClient' \in Seq(Frame) /\ frame \in Frame /\ frame.id \in FrameId
  <2>1. toClient \in Seq(Frame)
    BY DEF TypeOK
  <2>2. toClient' \in Seq(Frame) /\ frame \in Frame
    BY <1>1, <2>1, Taken
  <2>3. QED
    BY <2>2 DEF Frame
<1>3. pc \in Awaiting \cup {"idle", "ready", "stream", "done"}
  BY DEF TypeOK
<1>4. ClientOK'
  <2>1. ASSUME NEW result, Ends(result), result \in Returned \cup Raised PROVE ClientOK'
    BY <2>1, EndsType
  <2>2. CASE Continue(pc)
    BY <1>3, <2>2, ContinueType
  <2>3. CASE DispatchRequest(frame)
    <3>1. ASSUME NEW reply \in Reply(frame.body), Write(<<[kind |-> reply, id |-> frame.id]>>, pc)
          PROVE  ClientOK'
      <4>1. [kind |-> reply, id |-> frame.id] \in Message
        BY <1>2 DEF Reply, Message
      <4>2. <<[kind |-> reply, id |-> frame.id]>> \in Seq(Message)
        BY <4>1
      <4>3. QED
        BY <1>3, <3>1, <4>2, WriteType
    <3>2. CASE handling' = frame.id /\ UNCHANGED <<pc, outcome, toServer>>
      BY <1>2, <3>2 DEF ClientOK, TypeOK
    <3>3. QED
      BY <2>2, <2>3, <3>1, <3>2 DEF DispatchRequest
  <2>4. CASE pc \in Awaiting /\ TakeResponse(frame)
    BY <2>1, <2>4, ProceedType, OutcomeType DEF TakeResponse, Returned, Raised
  <2>5. CASE TakeCompleted(frame.body) \/ TakeError(frame.body)
    BY <2>1, <2>2, <2>5, OutcomeType DEF TakeCompleted, TakeError, Returned
  <2>6. QED
    BY <2>1, <2>2, <2>3, <2>4, <2>5 DEF ReadFrame, Raised
<1>5. QED
  BY <1>1, <1>2, <1>4 DEF TypeOK, ClientOK, server

LEMMA TypeClient ==
  ASSUME TypeOK,
         StartSession \/ StreamTurn \/ ToolReturns \/ ReadEof \/ ReadTimeout \/ TurnTimeout
  PROVE  TypeOK'
<1>1. UNCHANGED <<toClient, server>>
  BY DEF StartSession, StreamTurn, ToolReturns, ReadEof, ReadTimeout, TurnTimeout
<1>2. ClientOK'
  <2>1. CASE StartSession
    <3>1. <<Request("initialize", "initialize")>> \in Seq(Message)
      BY RequestSeqs DEF Awaiting, Handshake, HandshakeKind
    <3>2. QED
      BY <2>1, <3>1, WriteType DEF StartSession, Awaiting, Handshake
  <2>2. CASE StreamTurn
    <3>1. <<Request("turn/start", "ack")>> \in Seq(Message)
      BY RequestSeqs DEF Awaiting, HandshakeKind
    <3>2. QED
      BY <2>2, <3>1, WriteType DEF StreamTurn, Awaiting
  <2>3. CASE ToolReturns
    <3>1. [kind |-> "result", id |-> handling] \in Message
      BY <2>3 DEF ToolReturns, TypeOK, Message
    <3>2. <<[kind |-> "result", id |-> handling]>> \in Seq(Message)
      BY <3>1
    <3>3. QED
      BY <2>3, <3>2, WriteType DEF ToolReturns, TypeOK
  <2>4. CASE ReadEof \/ ReadTimeout \/ TurnTimeout
    BY <2>4, EndsType DEF ReadEof, ReadTimeout, TurnTimeout, Raised
  <2>5. QED
    BY <2>1, <2>2, <2>3, <2>4
<1>3. QED
  BY <1>1, <1>2 DEF TypeOK, ClientOK, server

LEMMA EmitType ==
  ASSUME TypeOK, NEW kind, NEW id, NEW body, Emit(kind, id, body),
         [kind |-> kind, id |-> id, body |-> body] \in Frame
  PROVE  toClient' \in Seq(Frame)
BY FrameGiven

LEMMA TypeAnswers ==
  ASSUME TypeOK, StepsInOrder, ServerAnswers
  PROVE  TypeOK'
<1> DEFINE message == Head(toServer)
<1>1. /\ toServer # <<>> /\ toServer' = Tail(toServer) /\ UNCHANGED <<client, alive, noise>>
      /\ message \in Message /\ message = toServer[1] /\ 1 \in DOMAIN toServer
      /\ toServer' \in Seq(Message)
  BY Taken DEF ServerAnswers, TypeOK
<1>2. message.id \in FrameId /\ message.kind \in HandshakeKind \cup ReplyKind
  BY <1>1, Pipes
<1>3. CASE message.kind = "turn/start"
  <2>1. message.id \in Turn
    BY <1>1, <1>3 DEF StepsInOrder, StepAt, HandshakeKind
  <2>2. PICK body \in {"ok"} \cup Ended :
          /\ turns' = [turns EXCEPT ![message.id] = IF body = "ok" THEN "running" ELSE body]
          /\ Emit("response", message.id, body) /\ UNCHANGED <<stage, asked>>
    BY <1>3 DEF ServerAnswers, Ended
  <2>3. toClient' \in Seq(Frame)
    BY <1>2, <2>2, EmitType DEF Frame, Body
  <2>4. QED
    BY <1>1, <2>2, <2>3 DEF TypeOK, client
<1>4. CASE message.kind \in {"initialize", "thread/start"}
  <2>1. /\ Emit("response", message.id, "ok") /\ stage' \in {"greeted", "thread"}
        /\ UNCHANGED <<turns, asked>>
    BY <1>4 DEF ServerAnswers
  <2>2. toClient' \in Seq(Frame)
    BY <1>2, <2>1, EmitType DEF Frame, Body
  <2>3. QED
    BY <1>1, <2>1, <2>2 DEF TypeOK, client
<1>5. CASE message.kind \in {"initialized"} \cup ReplyKind
  <2>1. UNCHANGED <<toClient, turns>> /\ stage' \in {"initialized", stage} /\ asked' \subseteq asked
    BY <1>5 DEF ServerAnswers, ReplyKind
  <2>2. QED
    BY <1>1, <2>1 DEF TypeOK, client
<1>6. QED
  BY <1>2, <1>3, <1>4, <1>5 DEF HandshakeKind

LEMMA TypeServer ==
  ASSUME TypeOK,
         \/ ServerRefuses \/ ServerAsks \/ ServerNotifies \/ ServerExits
         \/ \E n \in Turn : TurnEndsAtServer(n)
  PROVE  TypeOK'
<1>1. CASE ServerRefuses
  <2>1. toServer' \in Seq(Message) /\ Head(toServer).id \in FrameId
    <3>1. toServer \in Seq(Message) /\ toServer # <<>> /\ toServer' = Tail(toServer)
      BY <1>1 DEF ServerRefuses, TypeOK
    <3>2. toServer' \in Seq(Message) /\ Head(toServer) \in Message
      BY <3>1, Taken
    <3>3. QED
      BY <3>2 DEF Message
  <2>2. PICK body \in {"error", "malformed", "noId"} : Emit("response", Head(toServer).id, body)
    BY <1>1 DEF ServerRefuses
  <2>3. toClient' \in Seq(Frame)
    BY <2>1, <2>2, EmitType DEF Frame, Body
  <2>4. QED
    BY <1>1, <2>1, <2>3 DEF ServerRefuses, TypeOK, client, server
<1>2. CASE ServerAsks
  <2>1. noise' \in 0 .. MaxNoise /\ OwnTurn + noise' \in FrameId
    BY <1>2, Ids, NoiseAssumption DEF ServerAsks, TypeOK
  <2>2. PICK kind \in RequestKind :
          /\ Emit("request", OwnTurn + noise', kind)
          /\ asked' = IF kind = "badId" THEN asked ELSE asked \cup {OwnTurn + noise'}
    BY <1>2 DEF ServerAsks
  <2>3. toClient' \in Seq(Frame)
    BY <2>1, <2>2, EmitType DEF Frame, Body
  <2>4. QED
    BY <1>2, <2>1, <2>2, <2>3 DEF ServerAsks, TypeOK, client
<1>3. CASE ServerNotifies
  <2>1. noise' \in 0 .. MaxNoise /\ 0 \in FrameId
    BY <1>3, Ids, NoiseAssumption DEF ServerNotifies, TypeOK
  <2>2. PICK kind \in {"event", "turn/completed", "error", "garbage", "response"},
             body \in {"ok", "inProgress", "retry", "unknown", "fatal", "malformed"} :
               Emit(kind, 0, body)
    BY <1>3 DEF ServerNotifies
  <2>3. toClient' \in Seq(Frame)
    BY <2>1, <2>2, EmitType DEF Frame, Body
  <2>4. QED
    BY <1>3, <2>1, <2>3 DEF ServerNotifies, TypeOK, client
<1>4. CASE ServerExits
  BY <1>4 DEF ServerExits, TypeOK, client
<1>5. ASSUME NEW n \in Turn, TurnEndsAtServer(n) PROVE TypeOK'
  <2>1. PICK status \in Ended :
          turns' = [turns EXCEPT ![n] = status] /\ Emit("turn/completed", n, status)
    BY <1>5 DEF TurnEndsAtServer
  <2>2. n \in FrameId
    BY Ids, NoiseAssumption
  <2>3. toClient' \in Seq(Frame)
    BY <2>1, <2>2, EmitType DEF Frame, Body
  <2>4. QED
    BY <1>5, <2>1, <2>3 DEF TurnEndsAtServer, TypeOK, client
<1>6. QED
  BY <1>1, <1>2, <1>3, <1>4, <1>5

-----------------------------------------------------------------------------
(* The client's side. *)

LEMMA FramesFewer ==
  ASSUME TypeOK, UNCHANGED toClient \/ (toClient # <<>> /\ toClient' = Tail(toClient))
  PROVE  /\ \A k, r : AskedAt(k, r)' => \E j : AskedAt(j, r)
         /\ (\A j, k, r : AskedAt(j, r) /\ AskedAt(k, r) => j = k)
              => \A j, k, r : AskedAt(j, r)' /\ AskedAt(k, r)' => j = k
         /\ \A k, r, body : AnsweredAt(k, r, body)' => \E j : AnsweredAt(j, r, body)
         /\ \A k, body : EndedAt(k, body)' => \E j : EndedAt(j, body)
         /\ RequestBodies => RequestBodies'
<1>1. CASE UNCHANGED toClient
  BY <1>1, SameFrames
<1>2. CASE toClient # <<>> /\ toClient' = Tail(toClient)
  <2>1. ASSUME \A j, k, r : AskedAt(j, r) /\ AskedAt(k, r) => j = k,
               NEW j, NEW k, NEW r, AskedAt(j, r)', AskedAt(k, r)'
        PROVE  j = k
    <3>1. j \in Nat /\ k \in Nat /\ AskedAt(j + 1, r) /\ AskedAt(k + 1, r)
      BY <1>2, <2>1, FrameTaken
    <3>2. j + 1 = k + 1
      BY <2>1, <3>1
    <3>3. QED
      BY <3>1, <3>2
  <2>2. QED
    BY <1>2, <2>1, FrameTaken
<1>3. QED
  BY <1>1, <1>2

\* The steps that are on their way stay, and the client gets ahead.
LEMMA ClientKeeps ==
  ASSUME IInv, UNCHANGED <<stage, turns>>,
         UNCHANGED toClient \/ (toClient # <<>> /\ toClient' = Tail(toClient)),
         LastId[pc] \in Nat, LastId[pc'] \in Nat, LastId[pc] <= LastId[pc']
  PROVE  /\ OnlyRequested' /\ EndsTold' /\ RequestBodies'
         /\ (\A k, kind : StepAt(k, kind)' <=> StepAt(k, kind))
              /\ (\A k, kind : StepAt(k, kind) => toServer'[k] = toServer[k])
            => StepsInOrder'
<1>1. /\ \A k, r, body : AnsweredAt(k, r, body)' => \E j : AnsweredAt(j, r, body)
      /\ \A k, body : EndedAt(k, body)' => \E j : EndedAt(j, body)
      /\ RequestBodies'
  BY FramesFewer DEF IInv
<1>2. OnlyRequested'
  <2>1. \A k, r, body : AnsweredAt(k, r, body) => r \in Nat
    BY Pipes, Ids, NoiseAssumption DEF AnsweredAt, IInv
  <2>2. \A n \in Turn : n \in Nat
    BY Ids
  <2>3. QED
    BY <1>1, <2>1, <2>2 DEF IInv, OnlyRequested
<1>3. EndsTold'
  BY <1>1 DEF IInv, EndsTold
<1>4. ASSUME \A k, kind : StepAt(k, kind)' <=> StepAt(k, kind),
             \A k, kind : StepAt(k, kind) => toServer'[k] = toServer[k]
      PROVE  StepsInOrder'
  <2>1. \A k, kind : StepAt(k, kind) => toServer[k].id \in Nat
    BY Pipes, Ids, NoiseAssumption DEF StepAt, IInv
  <2>2. QED
    BY <1>4, <2>1 DEF IInv, StepsInOrder
<1>5. QED
  BY <1>1, <1>2, <1>3, <1>4

LEMMA LastIds ==
  ASSUME TypeOK
  PROVE  LastId[pc] \in 0..4 /\ LastId["done"] = 4 /\ 4 \in Nat
BY Ids DEF TypeOK, Awaiting, Handshake

\* The client stays where it is, or has done.
LEMMA ClientStays ==
  ASSUME IInv, UNCHANGED <<stage, turns>>, pc' \in {pc, "done"},
         pc' \in {"idle", "ready"} => handling' = None,
         UNCHANGED toClient \/ (toClient # <<>> /\ toClient' = Tail(toClient)),
         \A k, kind : StepAt(k, kind)' <=> StepAt(k, kind),
         \A k, kind : StepAt(k, kind) => toServer'[k] = toServer[k]
  PROVE  StepsInOrder' /\ Synchronized' /\ OnlyRequested' /\ EndsTold' /\ RequestBodies'
<1>1. LastId[pc] \in Nat /\ LastId[pc'] \in Nat /\ LastId[pc] <= LastId[pc']
  BY LastIds DEF IInv
<1>2. StepsInOrder' /\ OnlyRequested' /\ EndsTold' /\ RequestBodies'
  BY <1>1, ClientKeeps
<1>3. CASE pc' = "done"
  BY <1>2, <1>3 DEF Synchronized, Awaiting, Handshake
<1>4. CASE pc' = pc
  <2>1. \A k, body : AnsweredAt(k, RequestId[pc], body)'
                       => \E j : AnsweredAt(j, RequestId[pc], body)
    BY <1>4, FramesFewer DEF IInv
  <2>2. NoStep => NoStep'
    BY DEF NoStep
  <2>3. Synchronized'
    BY <1>4, <2>1, <2>2 DEF Synchronized, IInv
  <2>4. QED
    BY <1>2, <2>3
<1>5. QED
  BY <1>3, <1>4

\* No reply is sent and no request taken that needs one.
LEMMA TrackedStill ==
  ASSUME IInv, UNCHANGED <<asked, noise>>, handling' \in {handling, None},
         \A k, r : RepliedAt(k, r)' <=> RepliedAt(k, r),
         UNCHANGED toClient \/ (toClient # <<>> /\ toClient' = Tail(toClient)),
         pc' # "done" => /\ pc # "done" /\ handling' = handling
                         /\ UNCHANGED toClient \/ \A r : ~AskedAt(1, r),
         TypeOK'
  PROVE  RequestsTracked'
<1> USE DEF IInv
<1>1. /\ \A k, r : AskedAt(k, r)' => \E j : AskedAt(j, r)
      /\ \A j, k, r : AskedAt(j, r)' /\ AskedAt(k, r)' => j = k
  BY FramesFewer DEF RequestsTracked
<1>2. \A k : ~AskedAt(k, None)' /\ ~RepliedAt(k, None)'
  <2>1. \A k : ~AskedAt(k, None) /\ ~RepliedAt(k, None)
    BY Pipes, NoneAssumption DEF AskedAt, RepliedAt
  <2>2. QED
    BY <1>1, <2>1
<1>3. \A k : ~AskedAt(k, handling)' /\ ~RepliedAt(k, handling)'
  <2>1. CASE handling' = None
    BY <1>2, <2>1 DEF AskedAt, RepliedAt
  <2>2. CASE handling' = handling
    <3>1. \A k : ~AskedAt(k, handling) /\ ~RepliedAt(k, handling)
      BY DEF RequestsTracked
    <3>2. PICK h : h = handling
      OBVIOUS
    <3>3. \A k : ~AskedAt(k, h)' /\ ~RepliedAt(k, h)'
      BY <1>1, <3>1, <3>2
    <3>4. QED
      BY <2>2, <3>2, <3>3 DEF AskedAt, RepliedAt
  <2>3. QED
    BY <2>1, <2>2
<1>4. ASSUME pc' # "done", NEW r \in asked
      PROVE  handling' = r \/ \E k : AskedAt(k, r)' \/ RepliedAt(k, r)'
  <2>1. handling' = handling /\ (handling = r \/ \E k : AskedAt(k, r) \/ RepliedAt(k, r))
    BY <1>4 DEF RequestsTracked
  <2>2. ASSUME NEW k, AskedAt(k, r) PROVE \E j : AskedAt(j, r)'
    <3>1. CASE UNCHANGED toClient
      BY <2>2, <3>1, SameFrames
    <3>2. CASE toClient # <<>> /\ toClient' = Tail(toClient) /\ ~AskedAt(1, r)
      <4>1. k \in Nat /\ k # 1 /\ k # 0
        BY <2>2, <3>2, Pipes DEF AskedAt
      <4>2. k - 1 \in Nat \ {0} /\ (k - 1) + 1 = k
        BY <4>1
      <4>3. AskedAt(k - 1, r)'
        BY <2>2, <3>2, <4>2, FrameTaken
      <4>4. QED
        BY <4>3
    <3>3. QED
      BY <1>4, <3>1, <3>2
  <2>3. QED
    BY <2>1, <2>2
<1>5. QED
  BY <1>1, <1>3, <1>4 DEF RequestsTracked

\* The client stops.
LEMMA Ending ==
  ASSUME IInv, TypeOK', NEW result, Ends(result), UNCHANGED server,
         UNCHANGED toClient \/ (toClient # <<>> /\ toClient' = Tail(toClient)),
         result = "succeeded" => \E n \in Turn : turns[n] = "completed",
         result = "TurnCancelled" => \E n \in Turn : turns[n] = "interrupted"
  PROVE  IInv'
<1>1. /\ pc' = "done" /\ outcome' = result /\ handling' = None /\ UNCHANGED toServer
      /\ UNCHANGED <<stage, turns, asked, noise>>
  BY DEF Ends, server
<1>2. /\ \A k, kind : StepAt(k, kind)' <=> StepAt(k, kind)
      /\ \A k, r : RepliedAt(k, r)' <=> RepliedAt(k, r)
  BY <1>1, SameMessages
<1>3. StepsInOrder' /\ Synchronized' /\ OnlyRequested' /\ EndsTold' /\ RequestBodies'
  BY <1>1, <1>2, ClientStays
<1>4. RequestsTracked'
  BY <1>1, <1>2, TrackedStill
<1>5. OutcomeReported'
  BY <1>1 DEF OutcomeReported
<1>6. QED
  BY <1>3, <1>4, <1>5 DEF IInv

\* It reads on: what it took needs no answer.
LEMMA Continuing ==
  ASSUME IInv, TypeOK', Continue(pc), UNCHANGED server, pc # "done", handling = None,
         toClient # <<>> /\ toClient' = Tail(toClient), \A r : ~AskedAt(1, r)
  PROVE  IInv'
<1>1. /\ pc' = pc /\ handling' = handling /\ UNCHANGED <<outcome, toServer>>
      /\ UNCHANGED <<stage, turns, asked, noise>>
  BY DEF Continue, server
<1>2. /\ \A k, kind : StepAt(k, kind)' <=> StepAt(k, kind)
      /\ \A k, r : RepliedAt(k, r)' <=> RepliedAt(k, r)
  BY <1>1, SameMessages
<1>3. StepsInOrder' /\ Synchronized' /\ OnlyRequested' /\ EndsTold' /\ RequestBodies'
  BY <1>1, <1>2, ClientStays
<1>4. RequestsTracked'
  BY <1>1, <1>2, TrackedStill
<1>5. OutcomeReported'
  BY <1>1 DEF OutcomeReported, IInv
<1>6. QED
  BY <1>3, <1>4, <1>5 DEF IInv

\* It gives the reply to a request it has just read, or that the tool was busy
\* with.
LEMMA Replying ==
  ASSUME IInv, TypeOK', NEW kind \in ReplyKind, NEW r \in FrameId,
         Write(<<[kind |-> kind, id |-> r]>>, pc), UNCHANGED server,
         \/ handling = r /\ UNCHANGED toClient
         \/ /\ handling = None /\ AskedAt(1, r)
            /\ toClient # <<>> /\ toClient' = Tail(toClient)
  PROVE  IInv'
<1> USE DEF IInv
<1>1. CASE Ends("PortExit")
  BY <1>1, Ending
<1>2. CASE /\ toServer' = toServer \o <<[kind |-> kind, id |-> r]>> /\ pc' = pc /\ handling' = None
           /\ UNCHANGED outcome
  <2> DEFINE m == [kind |-> kind, id |-> r]
  <2>0. m \in Message /\ m.kind = kind /\ m.id = r /\ kind \notin HandshakeKind
    BY DEF Message, ReplyKind, HandshakeKind
  <2>a. UNCHANGED <<stage, turns, asked, noise>>
    BY DEF server
  <2> HIDE DEF m
  <2>1. PICK n \in Nat \ {0} :
          /\ \A k, q : StepAt(k, q)' <=>
                         StepAt(k, q) \/ (k = n /\ m.kind = q /\ q \in HandshakeKind)
          /\ \A k, q : StepAt(k, q) => k < n /\ toServer'[k] = toServer[k]
          /\ toServer'[n] = m
          /\ \A k, q : RepliedAt(k, q)' <=>
               RepliedAt(k, q) \/ (k = n /\ m.kind \in ReplyKind /\ m.id = q)
          /\ \A k, q : RepliedAt(k, q) => k < n
    <3>1. toServer' = toServer \o <<m>>
      BY <1>2 DEF m
    <3>2. QED
      BY <2>0, <3>1, MessageGiven
  <2>2. \A k, q : StepAt(k, q)' <=> StepAt(k, q)
    BY <2>0, <2>1
  <2>3. StepsInOrder' /\ Synchronized' /\ OnlyRequested' /\ EndsTold' /\ RequestBodies'
    BY <1>2, <2>a, <2>1, <2>2, ClientStays
  <2>4. r \in asked /\ \A k : ~RepliedAt(k, r)
    <3>1. CASE handling = r
      BY <3>1, NoneAssumption DEF RequestsTracked
    <3>2. CASE AskedAt(1, r)
      BY <3>2 DEF RequestsTracked
    <3>3. QED
      BY <3>1, <3>2
  <2>5. /\ \A k, q : RepliedAt(k, q)' => q \in asked
        /\ \A j, k, q : RepliedAt(j, q)' /\ RepliedAt(k, q)' => j = k
        /\ \A k, q : RepliedAt(k, q) => RepliedAt(k, q)'
        /\ RepliedAt(n, r)'
    BY <2>0, <2>1, <2>4 DEF RequestsTracked
  <2>6. /\ \A k, q : AskedAt(k, q)' => \E j : AskedAt(j, q)
        /\ \A j, k, q : AskedAt(j, q)' /\ AskedAt(k, q)' => j = k
    BY FramesFewer DEF RequestsTracked
  <2>7. \A k : ~AskedAt(k, r)'
    <3>1. CASE handling = r /\ UNCHANGED toClient
      BY <2>6, <3>1 DEF RequestsTracked
    <3>2. CASE AskedAt(1, r) /\ toClient # <<>> /\ toClient' = Tail(toClient)
      <4> SUFFICES ASSUME NEW k, k \in Nat \ {0}, AskedAt(k + 1, r) PROVE FALSE
        BY <3>2, FrameTaken
      <4>1. k + 1 = 1
        BY <3>2 DEF RequestsTracked
      <4>2. QED
        BY <4>1
    <3>3. QED
      BY <3>1, <3>2
  <2>8. \A j, k, q : ~(AskedAt(j, q)' /\ RepliedAt(k, q)')
    BY <2>0, <2>1, <2>6, <2>7 DEF RequestsTracked
  <2>9. \A k : ~AskedAt(k, handling)' /\ ~RepliedAt(k, handling)'
    <3>1. \A k : ~AskedAt(k, None)
      BY Pipes, NoneAssumption DEF AskedAt
    <3>2. \A k : ~RepliedAt(k, None)
      BY Pipes, NoneAssumption DEF RepliedAt
    <3>3. \A k : ~AskedAt(k, None)' /\ ~RepliedAt(k, None)'
      BY <2>0, <2>1, <2>6, <3>1, <3>2, NoneAssumption
    <3>4. QED
      BY <1>2, <3>3 DEF AskedAt, RepliedAt
  <2>10. ASSUME pc # "done", NEW q \in asked
         PROVE  \E k : AskedAt(k, q)' \/ RepliedAt(k, q)'
    <3>1. CASE q = r
      BY <2>5, <3>1
    <3>2. CASE q # r
      <4>1. \E k : AskedAt(k, q) \/ RepliedAt(k, q)
        <5>1. q \in FrameId /\ q # None
          BY NoneAssumption DEF TypeOK
        <5>2. QED
          BY <2>10, <3>2, <5>1 DEF RequestsTracked
      <4>2. ASSUME NEW k, AskedAt(k, q) PROVE \E j : AskedAt(j, q)'
        <5>1. CASE UNCHANGED toClient
          BY <4>2, <5>1, SameFrames
        <5>2. CASE AskedAt(1, r) /\ toClient # <<>> /\ toClient' = Tail(toClient)
          <6>1. k # 1
            BY <3>2, <4>2, <5>2 DEF AskedAt
          <6>2. k - 1 \in Nat \ {0} /\ (k - 1) + 1 = k
            BY <4>2, <6>1, Pipes DEF AskedAt
          <6>3. AskedAt(k - 1, q)'
            BY <4>2, <5>2, <6>2, FrameTaken
          <6>4. QED
            BY <6>3
        <5>3. QED
          BY <5>1, <5>2
      <4>3. QED
        BY <2>5, <4>1, <4>2
    <3>3. QED
      BY <3>1, <3>2
  <2>11. RequestsTracked'
    BY <1>2, <2>a, <2>5, <2>6, <2>8, <2>9, <2>10 DEF RequestsTracked
  <2>12. OutcomeReported'
    BY <1>2, <2>a DEF OutcomeReported
  <2>13. QED
    BY <2>3, <2>11, <2>12
<1>3. QED
  BY <1>1, <1>2 DEF Write

\* It gives a request to the tool.
LEMMA Handling ==
  ASSUME IInv, TypeOK', NEW r \in FrameId, handling = None, AskedAt(1, r), handling' = r,
         pc \notin {"idle", "ready"},
         UNCHANGED <<pc, outcome, toServer>>, UNCHANGED server,
         toClient # <<>> /\ toClient' = Tail(toClient)
  PROVE  IInv'
<1> USE DEF IInv
<1>a. UNCHANGED <<stage, turns, asked, noise>>
  BY DEF server
<1>1. /\ \A k, kind : StepAt(k, kind)' <=> StepAt(k, kind)
      /\ \A k, q : RepliedAt(k, q)' <=> RepliedAt(k, q)
  BY SameMessages
<1>2. StepsInOrder' /\ Synchronized' /\ OnlyRequested' /\ EndsTold' /\ RequestBodies'
  BY <1>a, <1>1, ClientStays
<1>3. /\ \A k, q : AskedAt(k, q)' => \E j : AskedAt(j, q)
      /\ \A j, k, q : AskedAt(j, q)' /\ AskedAt(k, q)' => j = k
  BY FramesFewer DEF RequestsTracked
<1>4. \A k : ~AskedAt(k, r)' /\ ~RepliedAt(k, r)'
  <2>1. \A k : ~RepliedAt(k, r)'
    BY <1>1 DEF RequestsTracked
  <2>2. ASSUME NEW k, AskedAt(k, r)' PROVE FALSE
    <3>1. k \in Nat \ {0} /\ AskedAt(k + 1, r)
      BY <2>2, FrameTaken
    <3>2. k + 1 = 1
      BY <3>1 DEF RequestsTracked
    <3>3. QED
      BY <3>1, <3>2
  <2>3. QED
    BY <2>1, <2>2
<1>5. \A k : ~AskedAt(k, handling)' /\ ~RepliedAt(k, handling)'
  BY <1>4 DEF AskedAt, RepliedAt
<1>6. ASSUME pc # "done", NEW q \in asked
      PROVE  r = q \/ \E k : AskedAt(k, q)' \/ RepliedAt(k, q)'
  <2>1. q # None
    BY NoneAssumption DEF TypeOK
  <2>2. ASSUME NEW k, AskedAt(k, q), q # r PROVE \E j : AskedAt(j, q)'
    <3>1. k # 1
      BY <2>2 DEF AskedAt
    <3>2. k - 1 \in Nat \ {0} /\ (k - 1) + 1 = k
      BY <2>2, <3>1, Pipes DEF AskedAt
    <3>3. AskedAt(k - 1, q)'
      BY <2>2, <3>2, FrameTaken
    <3>4. QED
      BY <3>3
  <2>3. QED
    BY <1>1, <1>6, <2>1, <2>2 DEF RequestsTracked
<1>7. r \in asked
  BY DEF RequestsTracked
<1>8. RequestsTracked'
  BY <1>a, <1>1, <1>3, <1>5, <1>6, <1>7 DEF RequestsTracked
<1>9. OutcomeReported'
  BY <1>a DEF OutcomeReported
<1>10. QED
  BY <1>2, <1>8, <1>9

\* It sends the next request of the protocol once the server is ready for it.
LEMMA Requesting ==
  ASSUME IInv, TypeOK', NoStep, UNCHANGED server, handling = None, pc # "done",
         UNCHANGED toClient
           \/ (toClient # <<>> /\ toClient' = Tail(toClient) /\ \A r : ~AskedAt(1, r)),
         NEW step \in Awaiting, NEW kind \in HandshakeKind,
         Write(<<Request(kind, step)>>, step),
         LastId[pc] < RequestId[step],
         \/ step = "initialize" /\ kind = "initialize" /\ stage = "fresh"
         \/ step \in {"firstTurn", "ack"} /\ kind = "turn/start" /\ stage = "thread"
  PROVE  IInv'
<1> USE DEF IInv
<1>1. CASE Ends("PortExit")
  BY <1>1, Ending
<1>2. CASE toServer' = toServer \o <<Request(kind, step)>> /\ pc' = step /\ handling' = None
           /\ UNCHANGED outcome
  <2>1. PICK m \in Message : m = Request(kind, step)
    BY RequestTypes
  <2>2. m.kind = kind /\ m.id = RequestId[step] /\ kind \notin ReplyKind
    BY <2>1 DEF Request, HandshakeKind, ReplyKind
  <2>3. PICK n \in Nat \ {0} :
          /\ \A k, q : StepAt(k, q)' <=> (k = n /\ m.kind = q)
          /\ toServer'[n] = m
          /\ \A k, r : RepliedAt(k, r)' <=> RepliedAt(k, r)
    <3>1. toServer' = toServer \o <<m>>
      BY <1>2, <2>1
    <3>2. \A k, q : ~StepAt(k, q)
      BY DEF NoStep
    <3>3. PICK n \in Nat \ {0} :
            /\ \A k, q : StepAt(k, q)' <=>
                 StepAt(k, q) \/ (k = n /\ m.kind = q /\ q \in HandshakeKind)
            /\ toServer'[n] = m
            /\ \A k, r : RepliedAt(k, r)' <=>
                 RepliedAt(k, r) \/ (k = n /\ m.kind \in ReplyKind /\ m.id = r)
      BY <3>1, MessageGiven
    <3>4. QED
      BY <2>2, <3>2, <3>3
  <2>4. UNCHANGED <<stage, turns, asked, noise>>
    BY DEF server
  <2>5. /\ LastId[pc] \in Nat /\ LastId[pc'] = RequestId[step] /\ RequestId[step] \in Nat
        /\ LastId[pc] < LastId[pc'] /\ pc' # "done" /\ pc' \notin {"idle", "ready"}
    BY <1>2, LastIds, Ids DEF Awaiting, Handshake
  <2>6. OnlyRequested' /\ EndsTold' /\ RequestBodies'
    BY <2>4, <2>5, ClientKeeps
  <2>7. StepsInOrder'
    <3>1. \A j, k, q : StepAt(j, q)' /\ StepAt(k, q)' => j = k
      BY <2>3
    <3>2. CASE kind = "initialize"
      BY <2>2, <2>3, <2>4, <3>1, <3>2, Ids DEF StepsInOrder
    <3>3. CASE kind = "turn/start"
      <4>1. m.id \in Turn /\ m.id \in Nat /\ stage = "thread" /\ step \in {"firstTurn", "ack"}
        BY <2>2, <3>3, Ids
      <4>2. turns[m.id] = "none"
        BY <2>2, <2>5, <4>1 DEF OnlyRequested
      <4>3. QED
        BY <2>2, <2>3, <2>4, <2>5, <3>1, <3>3, <4>1, <4>2 DEF StepsInOrder
    <3>4. QED
      BY <3>2, <3>3
  <2>8. Synchronized'
    <3>1. \A k, body : AnsweredAt(k, RequestId[step], body)' =>
            \E j : AnsweredAt(j, RequestId[step], body)
      BY FramesFewer
    <3>2. \A k, body : ~AnsweredAt(k, RequestId[step], body)
      BY <2>5 DEF OnlyRequested
    <3>3. \A k, body : ~AnsweredAt(k, RequestId[pc], body)'
      BY <1>2, <3>1, <3>2 DEF AnsweredAt
    <3>4. QED
      BY <2>5, <3>3 DEF Synchronized
  <2>9. RequestsTracked'
    BY <1>2, <2>3, <2>4, TrackedStill
  <2>10. OutcomeReported'
    BY <1>2, <2>4 DEF OutcomeReported
  <2>11. QED
    BY <2>6, <2>7, <2>8, <2>9, <2>10
<1>3. QED
  BY <1>1, <1>2 DEF Write

\* After the first answer there are two messages.
LEMMA Initializing ==
  ASSUME IInv, TypeOK', NoStep, UNCHANGED server, handling = None, pc = "initialize",
         stage = "greeted",
         toClient # <<>> /\ toClient' = Tail(toClient) /\ \A r : ~AskedAt(1, r),
         Proceed
  PROVE  IInv'
<1> USE DEF IInv
<1> DEFINE a == [kind |-> "initialized", id |-> 0]
           b == Request("thread/start", "thread")
<1>0. Write(<<a, b>>, "thread")
  BY DEF Proceed
<1>1. CASE Ends("PortExit")
  BY <1>1, Ending
<1>2. CASE /\ toServer' = toServer \o <<a, b>> /\ pc' = "thread"
           /\ handling' = None /\ UNCHANGED outcome
  <2>1. a \in Message /\ b \in Message /\ toServer \in Seq(Message)
    BY RequestTypes DEF TypeOK, Awaiting, Handshake, HandshakeKind
  <2>2. a.kind = "initialized" /\ b.kind = "thread/start" /\ b.id = 2
    BY Ids DEF Request
  <2> HIDE DEF a, b
  <2>3. PICK n \in Nat : n = Len(toServer)
    BY <2>1
  <2>4. /\ DOMAIN toServer = 1..n /\ DOMAIN toServer' = 1..(n + 2)
        /\ \A k \in 1..n : toServer'[k] = toServer[k]
        /\ toServer'[n + 1] = a /\ toServer'[n + 2] = b
    BY <1>2, <2>1, <2>3
  <2>5. \A k : k \in DOMAIN toServer' <=> k \in DOMAIN toServer \/ k = n + 1 \/ k = n + 2
    BY <2>4
  <2>6. n + 1 \notin DOMAIN toServer /\ n + 2 \notin DOMAIN toServer
    BY <2>4
  <2>7. /\ \A k, q : StepAt(k, q)' <=>
             (k = n + 1 /\ q = "initialized") \/ (k = n + 2 /\ q = "thread/start")
        /\ \A k, r : RepliedAt(k, r)' <=> RepliedAt(k, r)
    BY <2>2, <2>4, <2>5, <2>6 DEF StepAt, NoStep, RepliedAt, HandshakeKind, ReplyKind
  <2>8. UNCHANGED <<stage, turns, asked, noise>>
    BY DEF server
  <2>9. LastId[pc] = 1 /\ LastId[pc'] = 2
    BY <1>2, Ids
  <2>10. OnlyRequested' /\ EndsTold' /\ RequestBodies'
    BY <2>8, <2>9, ClientKeeps
  <2>11. StepsInOrder'
    <3>1. n + 1 < n + 2 /\ toServer'[n + 2].id = 2 /\ LastId[pc'] = 2
      BY <2>2, <2>4, <2>9
    <3>2. StepAt(n + 1, "initialized")' /\ stage' = "greeted"
      BY <2>7, <2>8
    <3>3. /\ \A j, k, q : StepAt(j, q)' /\ StepAt(k, q)' => j = k
          /\ \A k : ~StepAt(k, "initialize")' /\ ~StepAt(k, "turn/start")'
          /\ \A k : StepAt(k, "thread/start")' => k = n + 2
      BY <2>7
    <3>4. \A k : StepAt(k, "thread/start")' =>
            /\ toServer'[k].id = 2 /\ 2 <= LastId[pc']
            /\ \E j : StepAt(j, "initialized")' /\ j < k
      BY <3>1, <3>2, <3>3
    <3>5. QED
      BY <3>2, <3>3, <3>4 DEF StepsInOrder
  <2>12. Synchronized'
    <3>1. \A k, body : AnsweredAt(k, 2, body)' => \E j : AnsweredAt(j, 2, body)
      BY FramesFewer
    <3>2. \A k, body : ~AnsweredAt(k, 2, body)
      BY <2>9 DEF OnlyRequested
    <3>3. pc' = "thread" /\ RequestId[pc'] = 2
      BY <1>2, Ids
    <3>4. \A k, body : ~AnsweredAt(k, RequestId[pc], body)'
      BY <3>1, <3>2, <3>3 DEF AnsweredAt
    <3>5. QED
      BY <3>3, <3>4 DEF Synchronized
  <2>13. RequestsTracked'
    BY <1>2, <2>7, <2>8, TrackedStill
  <2>14. OutcomeReported'
    BY <1>2, <2>8 DEF OutcomeReported
  <2>15. QED
    BY <2>10, <2>11, <2>12, <2>13, <2>14
<1>3. QED
  BY <1>0, <1>1, <1>2 DEF Write

\* What an answer to the awaited request leads to.
LEMMA Proceeding ==
  ASSUME IInv, TypeOK', UNCHANGED server, handling = None, pc \in Awaiting,
         toClient # <<>> /\ toClient' = Tail(toClient), Proceed,
         NEW body \in Good, AnsweredAt(1, RequestId[pc], body)
  PROVE  IInv'
<1> USE DEF IInv
<1>1. NoStep /\ stage = StageAfter[pc] /\ \A r : ~AskedAt(1, r)
  BY DEF Synchronized, AnsweredAt, AskedAt
<1>2. CASE pc = "initialize"
  BY <1>1, <1>2, Ids, Initializing
<1>3. CASE pc = "thread"
  <2>1. Write(<<Request("turn/start", "firstTurn")>>, "firstTurn")
    BY <1>3 DEF Proceed
  <2>2. stage = "thread" /\ LastId[pc] < RequestId["firstTurn"]
    BY <1>1, <1>3, Ids
  <2>3. QED
    BY <1>1, <1>3, <2>1, <2>2, Requesting DEF Awaiting, Handshake, HandshakeKind
<1>4. CASE pc \in {"firstTurn", "ack"}
  <2>1. /\ pc' = IF pc = "firstTurn" THEN "ready" ELSE "stream"
        /\ handling' = handling /\ UNCHANGED <<outcome, toServer>>
    BY <1>4 DEF Proceed, Continue
  <2>2. /\ \A k, kind : StepAt(k, kind)' <=> StepAt(k, kind)
        /\ \A k, r : RepliedAt(k, r)' <=> RepliedAt(k, r)
    BY <2>1, SameMessages
  <2>3. UNCHANGED <<stage, turns, asked, noise>>
    BY DEF server
  <2>4. LastId[pc] \in Nat /\ LastId[pc'] = LastId[pc] /\ pc' # "done" /\ pc # "done"
    BY <1>4, <2>1, Ids
  <2>5. StepsInOrder' /\ OnlyRequested' /\ EndsTold' /\ RequestBodies'
    BY <2>1, <2>2, <2>3, <2>4, ClientKeeps
  <2>6. Synchronized'
    BY <1>1, <1>4, <2>1, <2>2, <2>3, Ids DEF Synchronized, NoStep, Awaiting, Handshake
  <2>7. RequestsTracked'
    BY <1>1, <2>1, <2>2, <2>3, <2>4, TrackedStill
  <2>8. OutcomeReported'
    BY <2>1, <2>3 DEF OutcomeReported
  <2>9. QED
    BY <2>5, <2>6, <2>7, <2>8
<1>5. QED
  BY <1>2, <1>3, <1>4 DEF Awaiting, Handshake

LEMMA Outcomes ==
  /\ \A status : TurnOutcome(status) = "succeeded" => status = "completed"
  /\ \A status : TurnOutcome(status) = "TurnCancelled" => status = "interrupted"
  /\ {"completed", "interrupted"} \subseteq Ended
BY DEF TurnOutcome, Ended

LEMMA SessionRead ==
  ASSUME IInv, TypeOK', ReadFrame
  PROVE  IInv'
<1> USE DEF IInv
<1>0. PICK frame \in Frame : frame = Head(toClient)
  <2>1. toClient \in Seq(Frame) /\ toClient # <<>>
    BY DEF TypeOK, ReadFrame
  <2>2. QED
    BY <2>1, Taken
<1>1. /\ toClient # <<>> /\ toClient' = Tail(toClient) /\ UNCHANGED server
      /\ handling = None /\ pc \in Awaiting \cup {"stream"} /\ pc \notin {"done", "idle", "ready"}
      /\ 1 \in DOMAIN toClient /\ toClient[1] = frame
  BY <1>0, Taken DEF ReadFrame, TypeOK, Awaiting, Handshake
<1>2. ASSUME NEW result, Ends(result), result \notin {"succeeded", "TurnCancelled"} PROVE IInv'
  BY <1>1, <1>2, Ending
<1>3. ASSUME Continue(pc), frame.kind # "request" \/ frame.body = "badId" PROVE IInv'
  <2>1. \A r : ~AskedAt(1, r)
    BY <1>1, <1>3 DEF AskedAt
  <2>2. QED
    BY <1>1, <1>3, <2>1, Continuing
<1>4. CASE frame.kind = "request" /\ DispatchRequest(frame)
  <2>1. frame.id \in FrameId /\ frame.body \in RequestKind
    BY <1>1, <1>4 DEF Frame, RequestBodies
  <2>2. frame.body # "badId" => AskedAt(1, frame.id)
    BY <1>1, <1>4 DEF AskedAt
  <2>3. ASSUME NEW reply \in Reply(frame.body), Write(<<[kind |-> reply, id |-> frame.id]>>, pc)
        PROVE  IInv'
    <3>1. reply \in ReplyKind /\ frame.body # "badId"
      BY DEF Reply, ReplyKind
    <3>2. QED
      BY <1>1, <2>1, <2>2, <2>3, <3>1, Replying
  <2>4. CASE frame.body # "tool" /\ Reply(frame.body) = {} /\ Continue(pc)
    <3>1. frame.body = "badId"
      BY <2>1, <2>4 DEF Reply, RequestKind
    <3>2. QED
      BY <1>3, <2>4, <3>1
  <2>5. CASE frame.body = "tool" /\ handling' = frame.id /\ UNCHANGED <<pc, outcome, toServer>>
    BY <1>1, <2>1, <2>2, <2>5, Handling
  <2>6. QED
    BY <1>4, <2>3, <2>4, <2>5 DEF DispatchRequest
<1>5. CASE frame.kind = "response" /\ pc \in Awaiting /\ TakeResponse(frame)
  <2>1. ASSUME frame.id = RequestId[pc], frame.body \in Good, Proceed PROVE IInv'
    <3>1. AnsweredAt(1, RequestId[pc], frame.body)
      BY <1>1, <1>5, <2>1 DEF AnsweredAt
    <3>2. QED
      BY <1>1, <1>5, <2>1, <3>1, Proceeding
  <2>2. ASSUME frame.body \in Ended, Ends(TurnOutcome(frame.body)) PROVE IInv'
    <3>1. AnsweredAt(1, frame.id, frame.body)
      BY <1>1, <1>5 DEF AnsweredAt
    <3>2. frame.id \in Turn /\ turns[frame.id] = frame.body
      BY <2>2, <3>1 DEF EndsTold
    <3>3. QED
      BY <1>1, <2>2, <3>2, Ending, Outcomes
  <2>3. QED
    BY <1>2, <1>5, <2>1, <2>2 DEF TakeResponse, Good
<1>6. CASE frame.kind = "turn/completed" /\ pc = "stream" /\ TakeCompleted(frame.body)
  <2>1. CASE Ends(TurnOutcome(frame.body)) /\ frame.body \in Ended
    <3>1. EndedAt(1, frame.body)
      BY <1>1, <1>6 DEF EndedAt
    <3>2. \E n \in Turn : turns[n] = frame.body
      BY <2>1, <3>1 DEF EndsTold
    <3>3. QED
      BY <1>1, <2>1, <3>2, Ending, Outcomes
  <2>2. CASE Ends(TurnOutcome(frame.body)) /\ frame.body \notin Ended
    BY <1>2, <2>2, Outcomes
  <2>3. QED
    BY <1>3, <1>6, <2>1, <2>2 DEF TakeCompleted
<1>7. CASE frame.kind = "error" /\ pc = "stream" /\ TakeError(frame.body)
  BY <1>2, <1>3, <1>7 DEF TakeError
<1>8. CASE Continue(pc) /\ frame.kind \in {"response", "turn/completed", "error", "event"}
  BY <1>3, <1>8
<1>9. CASE Ends("ResponseError")
  BY <1>2, <1>9
<1>10. QED
  BY <1>0, <1>4, <1>5, <1>6, <1>7, <1>8, <1>9 DEF ReadFrame

LEMMA SessionClient ==
  ASSUME IInv, TypeOK',
         StartSession \/ StreamTurn \/ ToolReturns \/ ReadEof \/ ReadTimeout \/ TurnTimeout
  PROVE  IInv'
<1> USE DEF IInv
<1>1. UNCHANGED <<toClient, server>>
  BY DEF StartSession, StreamTurn, ToolReturns, ReadEof, ReadTimeout, TurnTimeout
<1>2. CASE StartSession
  <2>1. /\ NoStep /\ stage = "fresh" /\ LastId[pc] < RequestId["initialize"] /\ pc = "idle"
        /\ handling = None
    BY <1>2, Ids DEF StartSession, Synchronized
  <2>2. Write(<<Request("initialize", "initialize")>>, "initialize")
    BY <1>2 DEF StartSession
  <2>3. "initialize" \in Awaiting /\ "initialize" \in HandshakeKind
    BY DEF Awaiting, Handshake, HandshakeKind
  <2>4. QED
    BY <1>1, <2>1, <2>2, <2>3, Requesting
<1>3. CASE StreamTurn
  <2>1. /\ NoStep /\ stage = "thread" /\ LastId[pc] < RequestId["ack"] /\ pc = "ready"
        /\ handling = None
    BY <1>3, Ids DEF StreamTurn, Synchronized
  <2>2. Write(<<Request("turn/start", "ack")>>, "ack")
    BY <1>3 DEF StreamTurn
  <2>3. "ack" \in Awaiting /\ "turn/start" \in HandshakeKind
    BY DEF Awaiting, HandshakeKind
  <2>4. QED
    BY <1>1, <2>1, <2>2, <2>3, Requesting
<1>4. CASE ToolReturns
  <2>1. handling \in FrameId /\ "result" \in ReplyKind
    BY <1>4 DEF ToolReturns, TypeOK, ReplyKind
  <2>2. QED
    BY <1>1, <1>4, <2>1, Replying DEF ToolReturns
<1>5. CASE ReadEof \/ ReadTimeout \/ TurnTimeout
  BY <1>1, <1>5, Ending DEF ReadEof, ReadTimeout, TurnTimeout
<1>6. QED
  BY <1>2, <1>3, <1>4, <1>5

-----------------------------------------------------------------------------
(* The server's side. *)

\* One frame is written; turns that have ended stay as they are.
LEMMA Emitting ==
  ASSUME IInv, NEW kind, NEW id \in FrameId, NEW body, Emit(kind, id, body),
         [kind |-> kind, id |-> id, body |-> body] \in Frame,
         UNCHANGED <<pc, outcome>>,
         \A n \in Turn : /\ turns[n] \in Ended => turns'[n] = turns[n]
                         /\ turns'[n] # "none" => n <= LastId[pc],
         kind = "response" =>
           id <= LastId[pc] /\ (body \in Ended => id \in Turn /\ turns'[id] = body),
         kind = "turn/completed" /\ body \in Ended => \E n \in Turn : turns'[n] = body,
         kind = "request" => body \in RequestKind
  PROVE  OnlyRequested' /\ EndsTold' /\ OutcomeReported' /\ RequestBodies'
<1> USE DEF IInv
<1>1. PICK n \in Nat \ {0} :
        /\ \A k, r, b : AnsweredAt(k, r, b)' <=>
             AnsweredAt(k, r, b) \/ (k = n /\ kind = "response" /\ r = id /\ b = body)
        /\ \A k, b : EndedAt(k, b)' <=>
             EndedAt(k, b) \/ (k = n /\ kind = "turn/completed" /\ b = body)
        /\ RequestBodies /\ (kind = "request" => body \in RequestKind) => RequestBodies'
  BY FrameGiven
<1>2. OnlyRequested'
  <2>1. \A k, r, b : AnsweredAt(k, r, b)' => r <= LastId[pc]
    BY <1>1 DEF OnlyRequested
  <2>2. \A m \in Turn : turns'[m] # "none" => m <= LastId[pc]
    OBVIOUS
  <2>3. LastId[pc'] = LastId[pc]
    OBVIOUS
  <2>4. QED
    BY <2>1, <2>2, <2>3 DEF OnlyRequested
<1>3. EndsTold'
  <2>1. \A k, r, b : AnsweredAt(k, r, b)' /\ b \in Ended => r \in Turn /\ turns'[r] = b
    BY <1>1 DEF EndsTold
  <2>2. \A k, b : EndedAt(k, b)' /\ b \in Ended => \E m \in Turn : turns'[m] = b
    BY <1>1 DEF EndsTold
  <2>3. QED
    BY <2>1, <2>2 DEF EndsTold
<1>4. OutcomeReported'
  <2>1. \A status \in Ended :
          (\E m \in Turn : turns[m] = status) => \E m \in Turn : turns'[m] = status
    OBVIOUS
  <2>2. QED
    BY <2>1, Outcomes DEF OutcomeReported
<1>5. QED
  BY <1>1, <1>2, <1>3, <1>4

\* The server takes a message, or only writes frames that ask for nothing.
LEMMA TrackedServer ==
  ASSUME IInv, UNCHANGED <<pc, handling, noise>>,
         \A k, q : AskedAt(k, q)' <=> AskedAt(k, q),
         \/ UNCHANGED <<toServer, asked>>
         \/ /\ toServer # <<>> /\ toServer' = Tail(toServer)
            /\ \/ UNCHANGED asked /\ \A r : ~RepliedAt(1, r)
               \/ \E r : RepliedAt(1, r) /\ asked' = asked \ {r}
  PROVE  RequestsTracked'
<1> USE DEF IInv
<1>1. PICK h : h = handling
  OBVIOUS
<1>2. CASE UNCHANGED <<toServer, asked>>
  <2>1. \A k, r : RepliedAt(k, r)' <=> RepliedAt(k, r)
    BY <1>2, SameMessages
  <2>2. \A k : ~AskedAt(k, h)' /\ ~RepliedAt(k, h)'
    BY <1>1, <2>1 DEF RequestsTracked
  <2>3. \A k : ~AskedAt(k, handling)' /\ ~RepliedAt(k, handling)'
    BY <1>1, <2>2 DEF AskedAt, RepliedAt
  <2>4. QED
    BY <1>2, <2>1, <2>3 DEF RequestsTracked
<1>3. CASE toServer # <<>> /\ toServer' = Tail(toServer)
  <2>1. \A k, r : RepliedAt(k, r)' <=> k \in Nat \ {0} /\ RepliedAt(k + 1, r)
    BY <1>3, MessageTaken
  <2>2. ASSUME NEW j, NEW k, NEW r, RepliedAt(j, r)', RepliedAt(k, r)' PROVE j = k
    <3>1. j \in Nat /\ k \in Nat /\ RepliedAt(j + 1, r) /\ RepliedAt(k + 1, r)
      BY <2>1, <2>2
    <3>2. j + 1 = k + 1
      BY <3>1 DEF RequestsTracked
    <3>3. QED
      BY <3>1, <3>2
  <2>3. \A k : ~AskedAt(k, h)' /\ ~RepliedAt(k, h)'
    BY <1>1, <2>1 DEF RequestsTracked
  <2>4. \A k : ~AskedAt(k, handling)' /\ ~RepliedAt(k, handling)'
    BY <1>1, <2>3 DEF AskedAt, RepliedAt
  <2>5. ASSUME NEW k, NEW q, RepliedAt(k, q), ~RepliedAt(1, q) PROVE RepliedAt(k - 1, q)'
    <3>1. k # 1
      BY <2>5
    <3>2. k - 1 \in Nat \ {0} /\ (k - 1) + 1 = k
      BY <2>5, <3>1, Pipes DEF RepliedAt
    <3>3. QED
      BY <2>1, <2>5, <3>2
  <2>6. CASE UNCHANGED asked /\ \A r : ~RepliedAt(1, r)
    <3>1. \A q : (\E k : RepliedAt(k, q)) => \E k : RepliedAt(k, q)'
      BY <2>5, <2>6
    <3>2. QED
      BY <2>1, <2>2, <2>4, <2>6, <3>1 DEF RequestsTracked
  <2>7. ASSUME NEW r, RepliedAt(1, r), asked' = asked \ {r} PROVE RequestsTracked'
    <3>1. \A k : ~RepliedAt(k, r)'
      <4> SUFFICES ASSUME NEW k, k \in Nat \ {0}, RepliedAt(k + 1, r) PROVE FALSE
        BY <2>1
      <4>1. k + 1 = 1
        BY <2>7 DEF RequestsTracked
      <4>2. QED
        BY <4>1
    <3>2. /\ \A k : ~AskedAt(k, r)
          /\ handling # r
      BY <2>7 DEF RequestsTracked
    <3>3. \A q : q # r => ~RepliedAt(1, q)
      BY <2>7 DEF RepliedAt
    <3>4. \A q : q # r /\ (\E k : RepliedAt(k, q)) => \E k : RepliedAt(k, q)'
      BY <2>5, <3>3
    <3>5. /\ \A q \in asked' : q > OwnTurn /\ q <= OwnTurn + noise'
          /\ \A k, q : AskedAt(k, q)' \/ RepliedAt(k, q)' => q \in asked'
          /\ handling # None => handling \in asked'
      BY <2>1, <2>7, <3>1, <3>2 DEF RequestsTracked
    <3>6. pc # "done" => \A q \in asked' : handling = q \/ \E k : AskedAt(k, q)' \/ RepliedAt(k, q)'
      BY <2>7, <3>4 DEF RequestsTracked
    <3>7. /\ \A j, k, q : AskedAt(j, q)' /\ AskedAt(k, q)' => j = k
          /\ \A j, k, q : ~(AskedAt(j, q)' /\ RepliedAt(k, q)')
      BY <2>1 DEF RequestsTracked
    <3>8. QED
      BY <2>2, <2>4, <3>5, <3>6, <3>7 DEF RequestsTracked
  <2>8. QED
    BY <1>2, <1>3, <2>6, <2>7
<1>4. QED
  BY <1>2, <1>3

\* A message that leaves the pipe without moving the server.
LEMMA StepsShift ==
  ASSUME IInv, toServer # <<>>, toServer' = Tail(toServer), UNCHANGED <<stage, turns, pc>>,
         ~StepAt(1, "initialized")
  PROVE  StepsInOrder' /\ (NoStep => NoStep')
<1> USE DEF IInv
<1>1. /\ \A k, kind : StepAt(k, kind)' <=> k \in Nat \ {0} /\ StepAt(k + 1, kind)
      /\ \A k, kind : StepAt(k, kind)' => toServer'[k] = toServer[k + 1]
  BY MessageTaken
<1>2. NoStep => NoStep'
  BY <1>1 DEF NoStep
<1>3. ASSUME NEW j, NEW k, NEW kind, StepAt(j, kind)', StepAt(k, kind)' PROVE j = k
  <2>1. j \in Nat /\ k \in Nat /\ StepAt(j + 1, kind) /\ StepAt(k + 1, kind)
    BY <1>1, <1>3
  <2>2. j + 1 = k + 1
    BY <2>1 DEF StepsInOrder
  <2>3. QED
    BY <2>1, <2>2
<1>4. ASSUME NEW k, StepAt(k, "thread/start")', stage = "greeted"
      PROVE  \E j : StepAt(j, "initialized")' /\ j < k
  <2>1. k \in Nat /\ \E j : StepAt(j, "initialized") /\ j < k + 1
    BY <1>1, <1>4 DEF StepsInOrder
  <2>2. PICK j : StepAt(j, "initialized") /\ j < k + 1
    BY <2>1
  <2>3. j \in Nat \ {0} /\ j # 1
    BY <2>2, Pipes DEF StepAt
  <2>4. j - 1 \in Nat \ {0} /\ (j - 1) + 1 = j /\ j - 1 < k
    BY <2>1, <2>2, <2>3
  <2>5. StepAt(j - 1, "initialized")'
    BY <1>1, <2>2, <2>4
  <2>6. QED
    BY <2>4, <2>5
<1>5. ASSUME NEW k, StepAt(k, "thread/start")'
      PROVE  /\ toServer'[k].id = 2 /\ 2 <= LastId[pc]
             /\ stage = "initialized" \/ stage = "greeted"
  <2>1. StepAt(k + 1, "thread/start") /\ toServer'[k] = toServer[k + 1]
    BY <1>1, <1>5
  <2>2. QED
    BY <2>1 DEF StepsInOrder
<1>6. ASSUME NEW k
      PROVE  /\ StepAt(k, "initialize")' => stage = "fresh" /\ toServer'[k].id = 1
             /\ StepAt(k, "initialized")' => stage = "greeted"
             /\ StepAt(k, "turn/start")' =>
                  /\ toServer'[k].id \in Turn /\ toServer'[k].id <= LastId[pc]
                  /\ stage = "thread" /\ turns[toServer'[k].id] = "none"
  <2>1. \A q : StepAt(k, q)' => StepAt(k + 1, q) /\ toServer'[k] = toServer[k + 1]
    BY <1>1
  <2>2. QED
    BY <2>1 DEF StepsInOrder
<1>7. StepsInOrder'
  BY <1>3, <1>4, <1>5, <1>6 DEF StepsInOrder
<1>8. QED
  BY <1>2, <1>7

\* A request that is taken is the only step on its way.
LEMMA OnlyStep ==
  ASSUME IInv, toServer # <<>>, toServer' = Tail(toServer), NEW kind, StepAt(1, kind),
         kind # "initialized", Acceptable(Head(toServer))
  PROVE  NoStep'
<1> USE DEF IInv
<1>1. /\ \A k, q : StepAt(k, q)' <=> k \in Nat \ {0} /\ StepAt(k + 1, q)
      /\ toServer[1] = Head(toServer)
  BY MessageTaken, Taken DEF TypeOK
<1>2. SUFFICES ASSUME NEW k \in Nat \ {0}, NEW q, StepAt(k + 1, q) PROVE FALSE
  BY <1>1 DEF NoStep
<1>3. k + 1 # 1 /\ q # kind
  BY <1>2 DEF StepsInOrder
<1>4. /\ kind \in {"initialize", "thread/start", "turn/start"}
      /\ q \in {"initialize", "initialized", "thread/start", "turn/start"}
  BY <1>2 DEF StepAt, HandshakeKind
<1>5. /\ kind = "initialize" => stage = "fresh"
      /\ kind = "thread/start" => stage = "initialized"
      /\ kind = "turn/start" => stage = "thread"
  BY <1>1 DEF Acceptable, StepAt
<1>6. /\ q = "initialize" => stage = "fresh"
      /\ q = "initialized" => stage = "greeted"
      /\ q = "thread/start" => stage \in {"initialized", "greeted"}
      /\ q = "turn/start" => stage = "thread"
  BY <1>2 DEF StepsInOrder
<1>7. QED
  BY <1>3, <1>4, <1>5, <1>6

\* What is not a request leaves the requests where they are.
LEMMA NotAsking ==
  ASSUME TypeOK, NEW kind, NEW id, NEW body, Emit(kind, id, body),
         [kind |-> kind, id |-> id, body |-> body] \in Frame, kind # "request"
  PROVE  /\ \A k, q : AskedAt(k, q)' <=> AskedAt(k, q)
         /\ kind # "response" => \A k, r, b : AnsweredAt(k, r, b)' <=> AnsweredAt(k, r, b)
         /\ kind = "response" => \A k, r, b : AnsweredAt(k, r, b)' =>
              AnsweredAt(k, r, b) \/ (r = id /\ b = body)
BY FrameGiven

\* The server accepts a request and answers it.
LEMMA Accepting ==
  ASSUME IInv, TypeOK', UNCHANGED <<client, noise, asked>>,
         toServer # <<>>, toServer' = Tail(toServer), Acceptable(Head(toServer)),
         NEW kind \in {"initialize", "thread/start", "turn/start"}, StepAt(1, kind),
         NEW id \in FrameId, id = Head(toServer).id,
         NEW body \in Good, Emit("response", id, body),
         \/ kind = "initialize" /\ stage' = "greeted" /\ body = "ok" /\ UNCHANGED turns
         \/ kind = "thread/start" /\ stage' = "thread" /\ body = "ok" /\ UNCHANGED turns
         \/ /\ kind = "turn/start" /\ UNCHANGED stage
            /\ turns' = [turns EXCEPT ![id] = IF body = "ok" THEN "running" ELSE body]
  PROVE  IInv'
<1> USE DEF IInv
<1>1. /\ UNCHANGED <<pc, handling, outcome>> /\ toServer[1] = Head(toServer)
      /\ [kind |-> "response", id |-> id, body |-> body] \in Frame
  BY Taken DEF client, TypeOK, Frame, Good, Body
<1>2. /\ NoStep' /\ ~NoStep /\ StepsInOrder'
  <2>1. NoStep'
    BY OnlyStep
  <2>2. QED
    BY <2>1 DEF NoStep, StepsInOrder
<1>3. /\ kind = "initialize" => id = 1
      /\ kind = "thread/start" => id = 2 /\ 2 <= LastId[pc]
      /\ kind = "turn/start"
           => id \in Turn /\ id <= LastId[pc] /\ turns[id] = "none" /\ stage = "thread"
  BY <1>1 DEF StepsInOrder
<1>4. pc # "idle" /\ id <= LastId[pc]
  <2>1. pc # "idle" => 1 <= LastId[pc]
    BY Ids DEF TypeOK, Awaiting, Handshake
  <2>2. QED
    BY <1>2, <1>3, <2>1 DEF Synchronized
<1>5. Synchronized'
  <2>1. pc \notin {"idle", "ready"}
    BY <1>2 DEF Synchronized
  <2>2. pc \in Awaiting /\ id = RequestId[pc] => stage' = StageAfter[pc]
    BY <1>3, Ids DEF Awaiting, Handshake
  <2>3. \A k, b : AnsweredAt(k, RequestId[pc], b)' =>
          AnsweredAt(k, RequestId[pc], b) \/ RequestId[pc] = id
    <3>1. \A k, r, b : AnsweredAt(k, r, b)' => AnsweredAt(k, r, b) \/ r = id
      BY <1>1, NotAsking
    <3>2. PICK r : r = RequestId[pc]
      OBVIOUS
    <3>3. \A k, b : AnsweredAt(k, r, b)' => AnsweredAt(k, r, b) \/ r = id
      BY <3>1
    <3>4. QED
      BY <1>1, <3>2, <3>3 DEF AnsweredAt
  <2>4. pc \in Awaiting => \A k, b : AnsweredAt(k, RequestId[pc], b) => b \notin Good
    BY <1>2 DEF Synchronized
  <2>5. QED
    BY <1>1, <1>2, <2>1, <2>2, <2>3, <2>4 DEF Synchronized
<1>6. /\ OnlyRequested' /\ EndsTold' /\ OutcomeReported' /\ RequestBodies'
  <2>1. \A n \in Turn : turns'[n] = turns[n] \/ (n = id /\ kind = "turn/start")
    BY DEF TypeOK
  <2>2. \A n \in Turn : turns[n] \in Ended => turns'[n] = turns[n]
    BY <1>3, <2>1 DEF Ended
  <2>3. \A n \in Turn : turns'[n] # "none" => n <= LastId[pc]
    BY <1>3, <2>1 DEF OnlyRequested
  <2>4. body \in Ended => id \in Turn /\ turns'[id] = body
    BY <1>3 DEF Ended, TypeOK
  <2>5. QED
    BY <1>1, <1>4, <2>2, <2>3, <2>4, Emitting
<1>7. RequestsTracked'
  <2>1. \A r : ~RepliedAt(1, r)
    BY DEF StepAt, RepliedAt, ReplyKind, HandshakeKind
  <2>2. \A k, q : AskedAt(k, q)' <=> AskedAt(k, q)
    BY <1>1, NotAsking
  <2>3. QED
    BY <1>1, <2>1, <2>2, TrackedServer
<1>8. QED
  BY <1>2, <1>5, <1>6, <1>7

LEMMA SessionAnswers ==
  ASSUME IInv, TypeOK', ServerAnswers
  PROVE  IInv'
<1> USE DEF IInv
<1>0. PICK message \in Message : message = Head(toServer)
  <2>1. toServer \in Seq(Message) /\ toServer # <<>>
    BY DEF TypeOK, ServerAnswers
  <2>2. QED
    BY <2>1, Taken
<1>1. /\ toServer # <<>> /\ toServer' = Tail(toServer) /\ UNCHANGED <<client, alive, noise>>
      /\ 1 \in DOMAIN toServer /\ toServer[1] = message /\ Acceptable(message)
  BY <1>0, Taken DEF ServerAnswers, TypeOK
<1>2. message.id \in FrameId /\ message.kind \in HandshakeKind \cup ReplyKind
  BY <1>1, Pipes
<1>3. UNCHANGED <<pc, handling, outcome, noise>>
  BY <1>1 DEF client
<1>4. CASE message.kind \in {"initialize", "thread/start", "turn/start"}
  <2>1. StepAt(1, message.kind)
    BY <1>1, <1>4 DEF StepAt, HandshakeKind
  <2>2. PICK body \in Good :
          /\ Emit("response", message.id, body) /\ UNCHANGED asked
          /\ \/ message.kind = "initialize" /\ stage' = "greeted" /\ body = "ok" /\ UNCHANGED turns
             \/ message.kind = "thread/start" /\ stage' = "thread" /\ body = "ok" /\ UNCHANGED turns
             \/ /\ message.kind = "turn/start" /\ UNCHANGED stage
                /\ turns' = [turns EXCEPT ![message.id] = IF body = "ok" THEN "running" ELSE body]
    <3>1. CASE message.kind = "initialize"
      BY <1>0, <3>1 DEF ServerAnswers, Good
    <3>2. CASE message.kind = "thread/start"
      BY <1>0, <3>2 DEF ServerAnswers, Good
    <3>3. CASE message.kind = "turn/start"
      BY <1>0, <3>3 DEF ServerAnswers, Good, Ended
    <3>4. QED
      BY <1>4, <3>1, <3>2, <3>3
  <2>3. QED
    BY <1>0, <1>1, <1>2, <1>4, <2>1, <2>2, Accepting
<1>5. CASE message.kind = "initialized"
  <2>1. /\ stage = "greeted" /\ stage' = "initialized" /\ UNCHANGED <<toClient, turns, asked>>
        /\ StepAt(1, "initialized") /\ ~NoStep
    BY <1>0, <1>1, <1>5 DEF ServerAnswers, Acceptable, StepAt, HandshakeKind, NoStep
  <2>2. /\ \A k, q : StepAt(k, q)' <=> k \in Nat \ {0} /\ StepAt(k + 1, q)
        /\ \A k, q : StepAt(k, q)' => toServer'[k] = toServer[k + 1]
    BY <1>1, MessageTaken
  <2>3. ASSUME NEW k, NEW q, StepAt(k, q)'
        PROVE  q = "thread/start" /\ toServer'[k].id = 2 /\ 2 <= LastId[pc]
    <3>1. k \in Nat \ {0} /\ k + 1 # 1 /\ StepAt(k + 1, q) /\ toServer'[k] = toServer[k + 1]
      BY <2>2, <2>3
    <3>2. q \in HandshakeKind /\ q # "initialized"
      BY <2>1, <3>1 DEF StepsInOrder, StepAt
    <3>3. q = "thread/start"
      BY <2>1, <3>1, <3>2 DEF StepsInOrder, HandshakeKind
    <3>4. QED
      BY <3>1, <3>3 DEF StepsInOrder
  <2>4. ASSUME NEW j, NEW k, NEW q, StepAt(j, q)', StepAt(k, q)' PROVE j = k
    <3>1. j \in Nat /\ k \in Nat /\ StepAt(j + 1, q) /\ StepAt(k + 1, q)
      BY <2>2, <2>4
    <3>2. j + 1 = k + 1
      BY <3>1 DEF StepsInOrder
    <3>3. QED
      BY <3>1, <3>2
  <2>5. StepsInOrder'
    BY <1>3, <2>1, <2>3, <2>4 DEF StepsInOrder
  <2>6. Synchronized'
    <3>1. \A k, b : AnsweredAt(k, RequestId[pc], b)' => AnsweredAt(k, RequestId[pc], b)
      BY <1>3, <2>1 DEF AnsweredAt
    <3>2. QED
      BY <1>3, <2>1, <3>1 DEF Synchronized
  <2>7. OnlyRequested' /\ EndsTold' /\ OutcomeReported' /\ RequestBodies'
    BY <1>3, <2>1, SameFrames DEF OnlyRequested, EndsTold, OutcomeReported
  <2>8. RequestsTracked'
    <3>1. \A r : ~RepliedAt(1, r)
      BY <1>1, <1>5 DEF RepliedAt, ReplyKind
    <3>2. \A k, q : AskedAt(k, q)' <=> AskedAt(k, q)
      BY <2>1, SameFrames
    <3>3. QED
      BY <1>1, <1>3, <2>1, <3>1, <3>2, TrackedServer
  <2>9. QED
    BY <2>5, <2>6, <2>7, <2>8
<1>6. CASE message.kind \in ReplyKind
  <2>1. UNCHANGED <<toClient, turns, stage>> /\ asked' = asked \ {message.id}
    BY <1>0, <1>6 DEF ServerAnswers, ReplyKind
  <2>2. StepsInOrder' /\ (NoStep => NoStep')
    <3>1. ~StepAt(1, "initialized")
      BY <1>1, <1>6 DEF StepAt, ReplyKind
    <3>2. QED
      BY <1>1, <1>3, <2>1, <3>1, StepsShift
  <2>3. Synchronized'
    <3>1. \A k, b : AnsweredAt(k, RequestId[pc], b)' => AnsweredAt(k, RequestId[pc], b)
      BY <1>3, <2>1 DEF AnsweredAt
    <3>2. QED
      BY <1>3, <2>1, <2>2, <3>1 DEF Synchronized
  <2>4. OnlyRequested' /\ EndsTold' /\ OutcomeReported' /\ RequestBodies'
    BY <1>3, <2>1, SameFrames DEF OnlyRequested, EndsTold, OutcomeReported
  <2>5. RequestsTracked'
    <3>1. RepliedAt(1, message.id)
      BY <1>1, <1>6 DEF RepliedAt
    <3>2. \A k, q : AskedAt(k, q)' <=> AskedAt(k, q)
      BY <2>1, SameFrames
    <3>3. QED
      BY <1>1, <1>3, <2>1, <3>1, <3>2, TrackedServer
  <2>6. QED
    BY <2>2, <2>3, <2>4, <2>5
<1>7. QED
  BY <1>2, <1>4, <1>5, <1>6 DEF HandshakeKind

LEMMA SessionRefused ==
  ASSUME IInv, TypeOK', ServerRefuses
  PROVE  IInv'
<1> USE DEF IInv
<1>0. PICK message \in Message : message = Head(toServer)
  <2>1. toServer \in Seq(Message) /\ toServer # <<>>
    BY DEF TypeOK, ServerRefuses
  <2>2. QED
    BY <2>1, Taken
<1>1. /\ toServer # <<>> /\ toServer' = Tail(toServer)
      /\ 1 \in DOMAIN toServer /\ toServer[1] = message
      /\ UNCHANGED <<pc, handling, outcome, noise, stage, turns, asked>>
      /\ message.kind \in {"initialize", "thread/start", "turn/start"}
  BY <1>0, Taken DEF ServerRefuses, TypeOK, client, server
<1>2. message.id \in FrameId
  BY <1>1, Pipes
<1>3. PICK body \in {"error", "malformed", "noId"} : Emit("response", message.id, body)
  BY <1>0 DEF ServerRefuses
<1>4. /\ [kind |-> "response", id |-> message.id, body |-> body] \in Frame
      /\ body \notin Good /\ body \notin Ended
  BY <1>2 DEF Frame, Body, Good, Ended
<1>5. StepAt(1, message.kind) /\ ~NoStep /\ \A r : ~RepliedAt(1, r)
  BY <1>1 DEF StepAt, RepliedAt, NoStep, HandshakeKind, ReplyKind
<1>6. StepsInOrder'
  BY <1>1, StepsShift DEF StepAt
<1>7. message.id <= LastId[pc]
  <2>1. pc # "idle"
    BY <1>5 DEF Synchronized
  <2>2. 1 <= LastId[pc]
    BY <2>1, Ids DEF TypeOK, Awaiting, Handshake
  <2>3. QED
    BY <1>1, <1>5, <2>2 DEF StepsInOrder
<1>8. Synchronized'
  <2>1. pc \notin {"idle", "ready"}
    BY <1>5 DEF Synchronized
  <2>2. \A k, r, b : AnsweredAt(k, r, b)' /\ b \in Good => AnsweredAt(k, r, b)
    BY <1>3, <1>4, NotAsking
  <2>3. PICK r : r = RequestId[pc]
    OBVIOUS
  <2>4. \A k, b : AnsweredAt(k, r, b)' /\ b \in Good => AnsweredAt(k, r, b)
    BY <2>2
  <2>5. \A k, b : AnsweredAt(k, RequestId[pc], b)' /\ b \in Good => AnsweredAt(k, RequestId[pc], b)
    BY <1>1, <2>3, <2>4 DEF AnsweredAt
  <2>6. QED
    BY <1>1, <1>5, <2>1, <2>5 DEF Synchronized
<1>9. OnlyRequested' /\ EndsTold' /\ OutcomeReported' /\ RequestBodies'
  <2>1. \A n \in Turn : turns[n] # "none" => n <= LastId[pc]
    BY DEF OnlyRequested
  <2>2. QED
    BY <1>1, <1>2, <1>3, <1>4, <1>7, <2>1, Emitting
<1>10. RequestsTracked'
  <2>1. \A k, q : AskedAt(k, q)' <=> AskedAt(k, q)
    BY <1>3, <1>4, NotAsking
  <2>2. QED
    BY <1>1, <1>5, <2>1, TrackedServer
<1>11. QED
  BY <1>6, <1>8, <1>9, <1>10

\* What the server sends unasked, short of a request.
LEMMA Speaking ==
  ASSUME IInv, TypeOK', UNCHANGED <<client, toServer, stage, asked>>, noise <= noise',
         NEW kind, NEW id \in FrameId, NEW body, Emit(kind, id, body),
         [kind |-> kind, id |-> id, body |-> body] \in Frame,
         kind # "request", kind = "response" => id = 0 /\ body = "ok",
         \A n \in Turn : turns'[n] = turns[n] \/ (turns[n] = "running" /\ turns'[n] \in Ended),
         kind = "turn/completed" /\ body \in Ended => \E n \in Turn : turns'[n] = body
  PROVE  IInv'
<1> USE DEF IInv
<1>1. /\ UNCHANGED <<pc, handling, outcome>>
      /\ \A k, q : StepAt(k, q)' <=> StepAt(k, q)
      /\ \A k, r : RepliedAt(k, r)' <=> RepliedAt(k, r)
      /\ \A k, r : AskedAt(k, r)' <=> AskedAt(k, r)
  BY SameMessages, NotAsking DEF client
<1>2. \A n \in Turn : /\ turns[n] = "none" => turns'[n] = "none"
                      /\ turns'[n] # "none" => turns[n] # "none"
                      /\ turns[n] \in Ended => turns'[n] = turns[n]
  BY DEF Ended
<1>3. StepsInOrder'
  <2>1. \A k : toServer'[k] = toServer[k]
    OBVIOUS
  <2>2. LastId[pc'] = LastId[pc]
    BY <1>1
  <2>3. QED
    BY <1>1, <1>2, <2>1, <2>2 DEF StepsInOrder
<1>4. Synchronized'
  <2>1. PICK r : r = RequestId[pc]
    OBVIOUS
  <2>2. pc \in Awaiting => r # 0
    BY <2>1, Ids DEF Awaiting, Handshake
  <2>3. pc \in Awaiting => \A k, b : AnsweredAt(k, r, b)' => AnsweredAt(k, r, b)
    BY <2>2, NotAsking
  <2>4. pc \in Awaiting =>
          \A k, b : AnsweredAt(k, RequestId[pc], b)' => AnsweredAt(k, RequestId[pc], b)
    BY <1>1, <2>1, <2>3 DEF AnsweredAt
  <2>5. NoStep' <=> NoStep
    BY <1>1 DEF NoStep
  <2>6. QED
    BY <1>1, <2>4, <2>5 DEF Synchronized
<1>5. OnlyRequested' /\ EndsTold' /\ OutcomeReported' /\ RequestBodies'
  <2>1. \A n \in Turn : turns'[n] # "none" => n <= LastId[pc]
    BY <1>2 DEF OnlyRequested
  <2>2. kind = "response" => id <= LastId[pc] /\ body \notin Ended
    BY LastIds DEF Ended
  <2>3. QED
    BY <1>1, <1>2, <2>1, <2>2, Emitting
<1>6. RequestsTracked'
  <2>1. PICK h : h = handling
    OBVIOUS
  <2>2. \A k : ~AskedAt(k, h)' /\ ~RepliedAt(k, h)'
    BY <1>1, <2>1 DEF RequestsTracked
  <2>3. \A k : ~AskedAt(k, handling)' /\ ~RepliedAt(k, handling)'
    BY <1>1, <2>1, <2>2 DEF AskedAt, RepliedAt
  <2>4. \A r \in asked : r \in Nat /\ r <= OwnTurn + noise'
    <3>1. noise \in Nat /\ noise' \in Nat /\ OwnTurn \in Nat /\ asked \subseteq Nat
      BY Ids, NoiseAssumption DEF TypeOK
    <3>2. \A r \in asked : r <= OwnTurn + noise
      BY DEF RequestsTracked
    <3>3. \A r, a, n, m \in Nat : r <= a + n /\ n <= m => r <= a + m
      OBVIOUS
    <3>4. QED
      BY <3>1, <3>2, <3>3
  <2>5. QED
    BY <1>1, <2>3, <2>4 DEF RequestsTracked
<1>7. QED
  BY <1>3, <1>4, <1>5, <1>6

LEMMA SessionNotified ==
  ASSUME IInv, TypeOK', ServerNotifies \/ ServerExits \/ \E n \in Turn : TurnEndsAtServer(n)
  PROVE  IInv'
<1> USE DEF IInv
<1>1. CASE ServerNotifies
  <2>1. PICK kind \in {"event", "turn/completed", "error", "garbage", "response"},
             body \in {"ok", "inProgress", "retry", "unknown", "fatal", "malformed"} :
          Emit(kind, 0, body) /\ (kind = "response" => body = "ok")
    BY <1>1 DEF ServerNotifies
  <2>2. 0 \in FrameId /\ body \notin Ended /\ noise <= noise'
    BY <1>1, Ids, NoiseAssumption DEF ServerNotifies, Ended, TypeOK
  <2>3. [kind |-> kind, id |-> 0, body |-> body] \in Frame
    BY <2>2 DEF Frame, Body
  <2>4. UNCHANGED <<client, toServer, stage, asked, turns>>
    BY <1>1 DEF ServerNotifies
  <2>5. QED
    BY <2>1, <2>2, <2>3, <2>4, Speaking
<1>2. ASSUME NEW n \in Turn, TurnEndsAtServer(n) PROVE IInv'
  <2>1. PICK status \in Ended :
          turns' = [turns EXCEPT ![n] = status] /\ Emit("turn/completed", n, status)
    BY <1>2 DEF TurnEndsAtServer
  <2>2. n \in FrameId /\ turns[n] = "running" /\ noise <= noise'
    BY <1>2, Ids, NoiseAssumption DEF TurnEndsAtServer, TypeOK
  <2>3. [kind |-> "turn/completed", id |-> n, body |-> status] \in Frame
    BY <2>2 DEF Frame, Body
  <2>4. /\ \A m \in Turn : turns'[m] = turns[m] \/ (turns[m] = "running" /\ turns'[m] \in Ended)
        /\ turns'[n] = status
    BY <2>1, <2>2 DEF TypeOK
  <2>5. UNCHANGED <<client, toServer, stage, asked>>
    BY <1>2 DEF TurnEndsAtServer
  <2>6. QED
    BY <2>1, <2>2, <2>3, <2>4, <2>5, Speaking
<1>3. CASE ServerExits
  <2>1. UNCHANGED <<pc, handling, outcome, toServer, toClient, stage, turns, asked, noise>>
    BY <1>3 DEF ServerExits, client
  <2>2. QED
    BY <2>1
    DEF StepsInOrder, Synchronized, OnlyRequested, EndsTold, RequestsTracked, RequestBodies,
        OutcomeReported, NoStep, StepAt, AskedAt, RepliedAt, AnsweredAt, EndedAt
<1>4. QED
  BY <1>1, <1>2, <1>3

\* A request of the server has an id no earlier one had.
LEMMA SessionAsked ==
  ASSUME IInv, TypeOK', ServerAsks
  PROVE  IInv'
<1> USE DEF IInv
<1>1. /\ UNCHANGED <<pc, handling, outcome, toServer, stage, turns>>
      /\ noise \in Nat /\ noise' = noise + 1 /\ asked \subseteq Nat
  BY Ids, NoiseAssumption DEF ServerAsks, client, TypeOK
<1>2. PICK body \in RequestKind, id \in FrameId :
        /\ id = OwnTurn + noise' /\ Emit("request", id, body)
        /\ asked' = IF body = "badId" THEN asked ELSE asked \cup {id}
  <2>1. OwnTurn + noise' \in FrameId
    BY Ids, NoiseAssumption DEF ServerAsks, TypeOK
  <2>2. QED
    BY <2>1 DEF ServerAsks
<1>3. [kind |-> "request", id |-> id, body |-> body] \in Frame
  BY <1>2 DEF Frame, Body
<1>4. /\ \A k, q : StepAt(k, q)' <=> StepAt(k, q)
      /\ \A k, r : RepliedAt(k, r)' <=> RepliedAt(k, r)
  BY <1>1, SameMessages
<1>5. StepsInOrder'
  BY <1>1, <1>4 DEF StepsInOrder
<1>6. Synchronized'
  <2>1. \A k, r, b : AnsweredAt(k, r, b)' => AnsweredAt(k, r, b)
    BY <1>2, <1>3, FrameGiven
  <2>2. PICK r : r = RequestId[pc]
    OBVIOUS
  <2>3. \A k, b : AnsweredAt(k, r, b)' => AnsweredAt(k, r, b)
    BY <2>1
  <2>4. \A k, b : AnsweredAt(k, RequestId[pc], b)' => AnsweredAt(k, RequestId[pc], b)
    BY <1>1, <2>2, <2>3 DEF AnsweredAt
  <2>5. NoStep' <=> NoStep
    BY <1>4 DEF NoStep
  <2>6. QED
    BY <1>1, <2>4, <2>5 DEF Synchronized
<1>7. OnlyRequested' /\ EndsTold' /\ OutcomeReported' /\ RequestBodies'
  <2>1. \A n \in Turn : turns[n] # "none" => n <= LastId[pc]
    BY DEF OnlyRequested
  <2>2. QED
    BY <1>1, <1>2, <1>3, <2>1, Emitting
<1>8. RequestsTracked'
  <2>1. id \notin asked /\ id > OwnTurn /\ OwnTurn \in Nat /\ id \in Nat /\ id # None
    BY <1>1, <1>2, Ids, NoiseAssumption, NoneAssumption DEF RequestsTracked
  <2>2. PICK n \in Nat \ {0} :
          /\ \A k, r : AskedAt(k, r)' <=>
               AskedAt(k, r) \/ (k = n /\ r = id /\ body # "badId")
          /\ \A k, r : AskedAt(k, r) => k < n
    BY <1>2, <1>3, FrameGiven
  <2>3. /\ \A k : ~AskedAt(k, id) /\ ~RepliedAt(k, id)
        /\ handling # id
    BY <2>1 DEF RequestsTracked
  <2>4. PICK h : h = handling
    OBVIOUS
  <2>5. \A k : ~AskedAt(k, h)' /\ ~RepliedAt(k, h)'
    BY <1>4, <2>2, <2>3, <2>4 DEF RequestsTracked
  <2>6. \A k : ~AskedAt(k, handling)' /\ ~RepliedAt(k, handling)'
    BY <1>1, <2>4, <2>5 DEF AskedAt, RepliedAt
  <2>7. \A r \in asked' : r > OwnTurn /\ r <= OwnTurn + noise'
    BY <1>1, <1>2, <2>1 DEF RequestsTracked
  <2>8. /\ \A k, r : AskedAt(k, r)' \/ RepliedAt(k, r)' => r \in asked'
        /\ handling # None => handling \in asked'
    BY <1>2, <1>4, <2>2 DEF RequestsTracked
  <2>9. /\ \A j, k, r : AskedAt(j, r)' /\ AskedAt(k, r)' => j = k
        /\ \A j, k, r : RepliedAt(j, r)' /\ RepliedAt(k, r)' => j = k
        /\ \A j, k, r : ~(AskedAt(j, r)' /\ RepliedAt(k, r)')
    BY <1>4, <2>2, <2>3 DEF RequestsTracked
  <2>10. pc # "done" => \A r \in asked' :
           handling = r \/ \E k : AskedAt(k, r)' \/ RepliedAt(k, r)'
    BY <1>2, <1>4, <2>2 DEF RequestsTracked
  <2>11. QED
    BY <1>1, <2>6, <2>7, <2>8, <2>9, <2>10 DEF RequestsTracked
<1>9. QED
  BY <1>5, <1>6, <1>7, <1>8

-----------------------------------------------------------------------------
(* The session *)

LEMMA SessionInit == Init => IInv
<1> SUFFICES ASSUME Init PROVE IInv
  OBVIOUS
<1>1. /\ DOMAIN toServer = {} /\ DOMAIN toClient = {}
      /\ \A k : k \notin DOMAIN toServer /\ k \notin DOMAIN toClient
  BY DEF Init
<1>2. TypeOK
  <2>1. noise \in 0 .. MaxNoise
    BY NoiseAssumption DEF Init
  <2>2. QED
    BY <2>1 DEF Init, TypeOK
<1>3. StepsInOrder /\ Synchronized
  BY <1>1 DEF Init, StepsInOrder, Synchronized, NoStep, StepAt, Awaiting, Handshake
<1>4. OnlyRequested /\ EndsTold /\ RequestBodies
  BY <1>1 DEF Init, OnlyRequested, EndsTold, RequestBodies, AnsweredAt, EndedAt
<1>5. RequestsTracked
  BY <1>1 DEF Init, RequestsTracked, AskedAt, RepliedAt
<1>6. OutcomeReported
  BY NoneAssumption DEF Init, OutcomeReported, Returned
<1>7. QED
  BY <1>2, <1>3, <1>4, <1>5, <1>6 DEF IInv

LEMMA SessionStep == IInv /\ [Next]_vars => IInv'
<1> SUFFICES ASSUME IInv, [Next]_vars PROVE IInv'
  OBVIOUS
<1>1. CASE UNCHANGED vars
  BY <1>1
  DEF vars, IInv, TypeOK, StepsInOrder, Synchronized, OnlyRequested, EndsTold, RequestsTracked,
      RequestBodies, OutcomeReported, NoStep, StepAt, AskedAt, RepliedAt, AnsweredAt, EndedAt
<1>2. CASE Next
  <2>1. TypeOK'
    BY <1>2, TypeReadFrame, TypeClient, TypeAnswers, TypeServer DEF Next, IInv
  <2>2. QED
    BY <1>2, <2>1, SessionRead, SessionClient, SessionAnswers, SessionRefused, SessionAsked,
       SessionNotified
    DEF Next
<1>3. QED
  BY <1>1, <1>2

LEMMA SessionInvariant == Spec => []IInv
BY SessionInit, SessionStep, PTL DEF Spec

\* The server accepts every message when it comes to read it, whatever requests
\* it interleaves with its answers, and the client reports a turn successful or
\* cancelled only if the server ended one so.
THEOREM SessionCorrect == Spec => []SessionInv
<1>1. IInv => ServerAccepts
  <2> SUFFICES ASSUME IInv, toServer # <<>> PROVE Acceptable(Head(toServer))
    BY DEF ServerAccepts
  <2> USE DEF IInv
  <2>1. 1 \in DOMAIN toServer /\ toServer[1] = Head(toServer)
    BY Taken DEF TypeOK
  <2>2. Head(toServer).kind \in HandshakeKind \cup ReplyKind
    BY <2>1, Pipes
  <2>3. CASE Head(toServer).kind \in ReplyKind
    <3>1. RepliedAt(1, Head(toServer).id)
      BY <2>1, <2>3 DEF RepliedAt
    <3>2. Head(toServer).id \in asked
      BY <3>1 DEF RequestsTracked
    <3>3. QED
      BY <2>3, <3>2 DEF Acceptable, ReplyKind
  <2>4. CASE Head(toServer).kind \in HandshakeKind
    <3>1. StepAt(1, Head(toServer).kind)
      BY <2>1, <2>4 DEF StepAt
    <3>2. \A j, kind : StepAt(j, kind) => ~(j < 1)
      BY Pipes DEF StepAt
    <3>3. QED
      BY <2>1, <2>4, <3>1, <3>2 DEF StepsInOrder, Acceptable, HandshakeKind
  <2>5. QED
    BY <2>2, <2>3, <2>4
<1>2. IInv => SessionInv
  BY <1>1 DEF IInv, SessionInv
<1>3. QED
  BY <1>2, SessionInvariant, PTL

\* When the client waits for the server, nothing the server has asked waits for
\* the client: in every loop that reads frames, requests are answered or given
\* to the tool, whose result is the answer.
THEOREM NothingForgotten == Spec => []NoRequestForgotten
<1>1. IInv => NoRequestForgotten
  <2> SUFFICES ASSUME IInv, pc \in Awaiting \cup {"stream"}, handling = None,
                      toClient = <<>>, toServer = <<>>, NEW r \in asked
               PROVE  FALSE
    BY DEF NoRequestForgotten
  <2>1. pc # "done" /\ r # None
    BY NoneAssumption DEF IInv, TypeOK, Awaiting, Handshake
  <2>2. \A k : ~AskedAt(k, r) /\ ~RepliedAt(k, r)
    BY DEF AskedAt, RepliedAt
  <2>3. QED
    BY <2>1, <2>2 DEF IInv, RequestsTracked
<1>2. QED
  BY <1>1, SessionInvariant, PTL
=============================================================================
