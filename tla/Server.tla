------------------------------- MODULE Server -------------------------------
(***************************************************************************)
(* edgexpu_server_run and handle_client (server.c): one process, one       *)
(* client at a time.  A request is collected into one fixed buffer by      *)
(* repeated recv calls whose sizes the network chooses, framed by its      *)
(* Content-Length, routed, and answered with a JSON body or an event       *)
(* stream fed by the generation's token callback.                          *)
(*                                                                         *)
(* A request is a count of header bytes and a sequence of body pieces; a   *)
(* piece stands for the bytes of one JSON element and arrives whole.  The  *)
(* generation is module Completion, which Generate implements.  Escaping,  *)
(* the numbers of a request and the wording of answers are left out.       *)
(***************************************************************************)
EXTENDS Integers, Sequences, SequencesExt

CONSTANTS
  Buffer,        \* EDGEXPU_HTTP_BUFFER (32768)
  MaxMessages,   \* EDGEXPU_CHAT_MAX_MESSAGES (48)
  Backlog,       \* the backlog given to listen (8)
  Clients,       \* bound: the clients there are, each connecting once
  Requests,      \* what a client may send: records [line, head, len, body]
  Index,         \* bound: token indices of one generation
  SigPipe        \* a send on a reset connection raises SIGPIPE (POSIX builds)

Absent  == -1    \* no Content-Length header
Invalid == -2    \* a negative Content-Length

\* Pieces of a body: the model member, "stream": true, the braces that begin and
\* end a message object, and its content: a short text, one with an unmatched
\* brace, one that no longer fits once the template is applied.
Texts  == {"text", "brace", "long"}
Pieces == {"model", "other_model", "stream", "begin", "end"} \union Texts

ASSUME ServerAssumption ==
  /\ Buffer \in Nat /\ MaxMessages \in Nat \ {0} /\ Backlog \in Nat \ {0}
  /\ Index \subseteq Nat /\ SigPipe \in BOOLEAN
  /\ \A r \in Requests : /\ r.line \in {"models", "chat", "other"}
                         /\ r.head \in Nat \ {0}
                         /\ r.len \in Nat \union {Absent, Invalid}
                         /\ r.body \in Seq(Pieces)

VARIABLES
  backlog,    \* clients the kernel has queued for accept
  served,     \* clients that have been accepted
  stage,      \* where edgexpu_server_run is
  client,     \* [request, left, eof, peer] of the connection being served
  received,   \* bytes in the buffer
  decision,   \* how the request is to be answered, once that is known
  todo,       \* chunks handle_client still has to send before it goes on
  wire,       \* history: the chunks that reached the client
  open, sent, verdict   \* the generation

Connected == stage \notin {"starting", "exited", "accept"}

conn == <<client, received, decision>>
generation == <<open, sent, verdict>>
vars == <<backlog, served, stage, conn, todo, wire, generation>>

Run == INSTANCE Completion
Stream == INSTANCE EventStream WITH
            Status <- {200, 400, 404, 413, 500},
            live  <- Connected,
            heard <- received > 0,
            gone  <- client.peer # "here"

Undecided == [status |-> 0, turns |-> <<>>, stream |-> FALSE]
Answer(status) == [status |-> status, turns |-> <<>>, stream |-> FALSE]
NoClient == [request |-> [line |-> "other", head |-> 1, len |-> Absent, body |-> <<>>],
             left |-> 0, eof |-> TRUE, peer |-> "here"]

Json(status) == <<Stream!Chunk("status", status), Stream!Plain("json")>>
Opening == <<Stream!Plain("header"), Stream!Plain("role")>>

-----------------------------------------------------------------------------
\* Mutant of Scan: the content is not cleared for the next object.
ScanKeepsContent(acc, piece) ==
  IF Len(acc.turns) = MaxMessages THEN acc
  ELSE CASE piece = "begin" -> [acc EXCEPT !.depth = @ + 1]
         [] piece = "end" /\ acc.depth = 1 -> [acc EXCEPT !.turns = @ \o acc.text, !.depth = 0]
         [] piece = "end" /\ acc.depth > 1 -> [acc EXCEPT !.depth = @ - 1]
         [] piece \in Texts /\ acc.depth > 0 ->
              [acc EXCEPT !.text = <<piece>>,
                          !.depth = IF piece = "brace" THEN @ + 1 ELSE @]
         [] OTHER -> acc

\* The object scan of parse_chat_messages: it counts braces, those in texts too,
\* keeps the content of each object that closes, and stops at MaxMessages.
Scan(acc, piece) ==
  IF Len(acc.turns) = MaxMessages THEN acc
  ELSE CASE piece = "begin" -> [acc EXCEPT !.depth = @ + 1]
         [] piece = "end" /\ acc.depth = 1 ->
              [turns |-> acc.turns \o acc.text, text |-> <<>>, depth |-> 0]
         [] piece = "end" /\ acc.depth > 1 -> [acc EXCEPT !.depth = @ - 1]
         [] piece \in Texts /\ acc.depth > 0 ->
              [acc EXCEPT !.text  = IF @ = <<>> THEN <<piece>> ELSE @,
                          !.depth = IF piece = "brace" THEN @ + 1 ELSE @]
         [] OTHER -> acc

ScanMessages(body) ==
  LET upto[i \in 0 .. Len(body)] ==
        IF i = 0 THEN [turns |-> <<>>, text |-> <<>>, depth |-> 0]
        ELSE Scan(upto[i - 1], body[i])
  IN upto[Len(body)]

KeepText(texts, piece) == IF piece \in Texts THEN Append(texts, piece) ELSE texts

TextsOf(body) ==
  LET upto[i \in 0 .. Len(body)] ==
        IF i = 0 THEN <<>> ELSE KeepText(upto[i - 1], body[i])
  IN upto[Len(body)]

\* The messages a body is answered for: what the scan found or, when it met an
\* object it could not close or found none, the first content as one message.
\* Roles are left out, and so is the length of a content: the code cuts one to
\* EDGEXPU_TEXT_LARGE, and a body cannot hold more than the pool of contents.
Turns(body) ==
  LET scan  == ScanMessages(body)
      texts == TextsOf(body)
  IN CASE scan.depth = 0 /\ scan.turns # <<>> -> scan.turns
       [] texts = <<>> -> <<>>
       [] OTHER -> <<Head(texts)>>

Holds(body, piece) == \E i \in DOMAIN body : body[i] = piece

\* handle_chat_completion up to the generation.
ChatCompletion(body) ==
  IF Holds(body, "other_model") \/ Turns(body) = <<>> \/ Holds(Turns(body), "long")
  THEN Answer(400)
  ELSE [status |-> 200, turns |-> Turns(body), stream |-> Holds(body, "stream")]

Route(request, body) ==
  CASE request.line = "models" -> Answer(200)
    [] request.line = "other"  -> Answer(404)
    [] request.line = "chat"   -> ChatCompletion(body)

\* The body handle_client hands on: what follows the header in the buffer.
BodyIn(request, n) == SubSeq(request.body, 1, n - request.head)

\* Mutant of AfterRecv: one recv that brings the header is taken for the request.
AfterRecvOnce(request, n) ==
  IF n < request.head
  THEN IF n = Buffer THEN Answer(400) ELSE Undecided
  ELSE IF request.len = Invalid THEN Answer(400)
  ELSE IF request.head + request.len > Buffer THEN Answer(413)
  ELSE Route(request, BodyIn(request, n))

\* What handle_client knows after a recv that left n bytes in the buffer.
AfterRecv(request, n) ==
  CASE n < request.head -> IF n = Buffer THEN Answer(400) ELSE Undecided
    [] n >= request.head /\ request.len = Invalid -> Answer(400)
    [] n >= request.head /\ request.len = Absent -> Route(request, BodyIn(request, n))
    [] n >= request.head /\ request.len \in Nat ->
         IF request.head + request.len > Buffer THEN Answer(413)
         ELSE IF n >= request.head + request.len
              THEN Route(request, BodyIn(request, n)) ELSE Undecided

\* Mutant of AfterEof: a short request is waited for for ever.
AfterEofWaits(request, n) ==
  IF n < request.head + request.len THEN Undecided ELSE Route(request, BodyIn(request, n))

\* What it makes of a request whose client stops sending.
AfterEof(request, n) ==
  IF n < request.head THEN Answer(400) ELSE Route(request, BodyIn(request, n))

-----------------------------------------------------------------------------
Init ==
  /\ backlog = <<>> /\ served = {} /\ stage = "starting"
  /\ client = NoClient /\ received = 0 /\ decision = Undecided
  /\ todo = <<>> /\ wire = <<>>
  /\ Run!Init

\* The load, the socket, bind or listen fails: edgexpu_server_run returns.
StartFails ==
  /\ stage = "starting"
  /\ stage' = "exited"
  /\ UNCHANGED <<backlog, served, conn, todo, wire, generation>>

Listen ==
  /\ stage = "starting"
  /\ stage' = "accept"
  /\ UNCHANGED <<backlog, served, conn, todo, wire, generation>>

Connect(c) ==
  /\ stage \notin {"starting", "exited"}
  /\ c \notin served /\ ~Contains(backlog, c)
  /\ Len(backlog) < Backlog
  /\ backlog' = Append(backlog, c)
  /\ UNCHANGED <<served, stage, conn, todo, wire, generation>>

Accept(request) ==
  /\ stage = "accept" /\ backlog # <<>>
  /\ backlog' = Tail(backlog)
  /\ served' = served \union {Head(backlog)}
  /\ client' = [request |-> request, left |-> request.head + Len(request.body),
                eof |-> FALSE, peer |-> "here"]
  /\ received' = 0 /\ decision' = Undecided /\ wire' = <<>>
  /\ stage' = "recv"
  /\ UNCHANGED <<todo, generation>>

-----------------------------------------------------------------------------
\* handle_client acts on what it has: an answer, an event stream, a generation.
Decide(d) ==
  /\ decision' = d
  /\ CASE d = Undecided -> stage' = "recv" /\ UNCHANGED todo
       [] d # Undecided /\ d.turns = <<>> -> stage' = "closing" /\ todo' = Json(d.status)
       [] d.turns # <<>> ->
            /\ stage' = "calling"
            /\ todo' = IF d.stream THEN Opening ELSE <<>>

Recv(k) ==
  /\ stage = "recv"
  /\ k <= client.left /\ k <= Buffer - received
  /\ received' = received + k
  /\ client' = [client EXCEPT !.left = @ - k]
  /\ Decide(AfterRecv(client.request, received + k))
  /\ UNCHANGED <<backlog, served, wire, generation>>

\* recv returns 0, or fails because the client has left.
RecvNothing ==
  /\ stage = "recv"
  /\ client.left = 0 /\ client.eof
  /\ received > 0
  /\ Decide(AfterEof(client.request, received))
  /\ UNCHANGED <<backlog, served, client, received, wire, generation>>

RecvNothingAtAll ==
  /\ stage = "recv"
  /\ client.left = 0 /\ client.eof
  /\ received = 0
  /\ stage' = "closing"
  /\ UNCHANGED <<backlog, served, conn, todo, wire, generation>>

\* The client ends its half of the connection, before or after its last byte.
ClientStops ==
  /\ Connected /\ ~client.eof
  /\ client' = [client EXCEPT !.eof = TRUE, !.left = 0]
  /\ UNCHANGED <<backlog, served, stage, received, decision, todo, wire, generation>>

\* The client closes the connection; it will receive nothing more.
ClientLeaves ==
  /\ Connected /\ client.peer = "here"
  /\ client' = [client EXCEPT !.eof = TRUE, !.left = 0, !.peer = "left"]
  /\ UNCHANGED <<backlog, served, stage, received, decision, todo, wire, generation>>

\* send_all of one chunk.  The kernel takes a first chunk for a client that has
\* left and learns from it that the connection is reset; an error is dropped.
Send ==
  /\ todo # <<>>
  /\ ~(SigPipe /\ client.peer = "reset")
  /\ todo' = Tail(todo)
  /\ wire' = IF client.peer = "here" THEN Append(wire, Head(todo)) ELSE wire
  /\ client' = IF client.peer = "left" THEN [client EXCEPT !.peer = "reset"] ELSE client
  /\ UNCHANGED <<backlog, served, stage, received, decision, generation>>

\* The process does not handle SIGPIPE, whose default action ends it.
SendKills ==
  /\ todo # <<>>
  /\ SigPipe /\ client.peer = "reset"
  /\ stage' = "exited" /\ todo' = <<>>
  /\ UNCHANGED <<backlog, served, conn, wire, generation>>

-----------------------------------------------------------------------------
\* The call of edgexpu_runtime_generate[_stream].
StartGeneration ==
  /\ stage = "calling" /\ todo = <<>>
  /\ Run!Open
  /\ stage' = "generating"
  /\ UNCHANGED <<backlog, served, conn, todo, wire>>

\* sse_on_token, inside the call; without stream the token is only collected.
Token ==
  /\ stage = "generating" /\ todo = <<>>
  /\ Run!Send
  /\ todo' = IF decision.stream THEN <<Stream!TokenChunk(Last(sent'))>> ELSE <<>>
  /\ UNCHANGED <<backlog, served, stage, conn, wire>>

\* Mutant of Ending: a generation that fails answers 500 even in a stream.
EndingByStatus(ok) ==
  IF decision.stream /\ ok
  THEN <<Stream!Plain("finish"), Stream!Plain("done")>>
  ELSE Json(IF ok THEN 200 ELSE 500)

\* Mutant of Ending: the verdict is not looked at.
EndingAlwaysWell(ok) ==
  IF decision.stream
  THEN <<Stream!Plain("finish"), Stream!Plain("done")>>
  ELSE Json(IF ok THEN 200 ELSE 500)

\* What is sent once generate has returned.
Ending(ok) ==
  IF decision.stream
  THEN <<Stream!Plain(IF ok THEN "finish" ELSE "error"), Stream!Plain("done")>>
  ELSE Json(IF ok THEN 200 ELSE 500)

Finish(ok) ==
  /\ stage = "generating" /\ todo = <<>>
  /\ verdict' = IF ok THEN "done" ELSE "failed"
  /\ Run!Close
  /\ todo' = Ending(ok)
  /\ stage' = "closing"
  /\ UNCHANGED <<backlog, served, conn, wire>>

\* The call is refused before it starts: the prompt is too long.
Refused ==
  /\ stage = "calling" /\ todo = <<>>
  /\ Run!Report
  /\ verdict' = "failed"
  /\ todo' = Ending(FALSE)
  /\ stage' = "closing"
  /\ UNCHANGED <<backlog, served, conn, wire>>

Close ==
  /\ stage = "closing" /\ todo = <<>>
  /\ stage' = "accept"
  /\ UNCHANGED <<backlog, served, conn, todo, wire, generation>>

Server ==
  \/ StartFails \/ Listen
  \/ \E request \in Requests : Accept(request)
  \/ RecvNothing \/ RecvNothingAtAll
  \/ Send \/ SendKills
  \/ StartGeneration \/ Token \/ Refused
  \/ \E ok \in BOOLEAN : Finish(ok)
  \/ Close

Receive == \E k \in 1 .. Buffer : Recv(k)

Next ==
  \/ Server \/ Receive
  \/ \E c \in Clients : Connect(c)
  \/ ClientStops \/ ClientLeaves

Spec == Init /\ [][Next]_vars

\* The server runs whenever it can; recv has no timeout, so the clients too must
\* go on sending, or stop, for the server to get any further.
FairSpec == Spec /\ WF_vars(Server) /\ WF_vars(Receive) /\ WF_vars(ClientStops)

-----------------------------------------------------------------------------
Kinds  == {"status", "json", "header", "role", "token", "finish", "error", "done"}
Chunks == [kind : Kinds, n : Nat]

Decision == [status : {0, 200, 400, 404, 413}, turns : Seq(Texts), stream : BOOLEAN]

\* Types of the variables; nothing is left to send outside a connection.
TypeOK ==
  /\ backlog \in Seq(Clients) /\ served \subseteq Clients
  /\ stage \in {"starting", "exited", "accept", "recv", "calling", "generating", "closing"}
  /\ client \in [request : Requests \union {NoClient.request}, left : Nat, eof : BOOLEAN,
                 peer : {"here", "left", "reset"}]
  /\ received \in 0 .. Buffer
  /\ decision \in Decision
  /\ wire \in Seq(Chunks) /\ todo \in Seq(Chunks) /\ (Connected \/ todo = <<>>)
  /\ sent \in Seq(Index)

\* How a whole request must be answered, whatever the sizes of the recv calls.
Reference(request) ==
  IF request.head > Buffer THEN Answer(400)
  ELSE IF request.head + request.len > Buffer THEN Answer(413)
  ELSE Route(request, request.body)

Framed(request) == request.len = Len(request.body)
AllSent == received + client.left = client.request.head + Len(client.request.body)

\* A request with a correct Content-Length whose client has not stopped early is
\* answered for its whole body, and refused for its size exactly when header and
\* body together exceed the buffer, however the network cuts it into pieces.
ChunkingIrrelevant ==
  (decision # Undecided /\ Framed(client.request) /\ AllSent)
    => decision = Reference(client.request)

\* Whatever was cut off, dropped or could not be parsed, the model is asked the
\* leading messages of the request, in their order and each at most once.
AsksLeadingMessages == IsPrefix(decision.turns, TextsOf(client.request.body))

\* What a client that is still there has received or is about to.
Delivered == wire \o todo

TokenChunks == [i \in DOMAIN sent |-> Stream!TokenChunk(sent[i])]

\* A client that stays is sent every token of its stream, in order and nothing
\* in between, and is told at the end how the generation went.
StreamTellsGeneration ==
  (client.peer = "here" /\ decision.stream) =>
    /\ stage = "generating" => Delivered = Opening \o TokenChunks
    /\ stage = "closing" => (Holds(Delivered, Stream!Plain("finish")) <=> verdict = "done")

\* Each connection delivers one well-formed answer, cut short only by a client
\* that leaves, and is closed only when that answer is complete.
ImplementsEventStream == Stream!Spec

\* A client in the backlog is accepted, whatever the clients before it do, as
\* long as they go on sending or stop and none of them ends the process.
WaitingIsServed ==
  \A c \in Clients : Contains(backlog, c) ~> (c \in served \/ stage = "exited")

-----------------------------------------------------------------------------
(* The inductive invariant.                                                *)

\* No more bytes are in the buffer than the client has sent.
BytesOfRequest ==
  received + client.left <= client.request.head + Len(client.request.body)

\* Nothing is decided or sent while the request is being received.
NothingBeforeDecision ==
  stage = "recv" => decision = Undecided /\ wire = <<>> /\ todo = <<>>

\* Every chunk is one that may come after the chunks before it.
WellFormed(chunks) ==
  \A i \in DOMAIN chunks : chunks[i] \in Stream!Follows(SubSeq(chunks, 1, i - 1))

\* A client that stays gets a well-formed answer, and the whole of it once all
\* that is left is to close the connection.
AnswerInProgress ==
  (client.peer = "here" /\ Connected) =>
    /\ WellFormed(Delivered)
    /\ stage = "calling" => Delivered = IF decision.stream THEN Opening ELSE <<>>
    /\ stage = "generating" =>
         Delivered = IF decision.stream THEN Opening \o TokenChunks ELSE <<>>
    /\ stage = "closing" =>
         Stream!Complete(Delivered) \/ (received = 0 /\ Delivered = <<>>)

IInv ==
  /\ TypeOK /\ BytesOfRequest /\ NothingBeforeDecision /\ AnswerInProgress
  /\ ChunkingIrrelevant /\ StreamTellsGeneration

\* The messages of a request are objects without objects in them, with one
\* content each.
Flat(body) ==
  \A i \in DOMAIN body :
    /\ body[i] \in Texts => i > 1 /\ body[i - 1] = "begin"
    /\ body[i] = "end" => i > 1 /\ body[i - 1] \in {"begin"} \union Texts
    /\ body[i] = "begin" /\ i > 1 => body[i - 1] \notin {"begin"} \union Texts

FlatMessages == \A r \in Requests : Flat(r.body)

-----------------------------------------------------------------------------
\* README.plan.zh.md:54: the endpoint parses the complete messages.  It does
\* not: a conversation is cut at MaxMessages, and a brace inside a text leaves
\* its first message only.
WholeConversation ==
  (decision.turns # <<>> /\ Framed(client.request) /\ AllSent)
    => decision.turns = TextsOf(client.request.body)

\* README.plan.zh.md:138 speaks of a resident server: once it listens it goes on.
\* It does not on POSIX: a client that leaves during its answer ends the process.
StaysResident == [][stage # "starting" => stage' # "exited"]_vars
=============================================================================
