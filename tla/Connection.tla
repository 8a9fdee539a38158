----------------------------- MODULE Connection -----------------------------
(***************************************************************************)
(* The one TCP connection between client and server: opening it            *)
(* (server::init, client::init), requests and answers, "exit", and the end *)
(* of one of the processes.  PathORAM says which requests are made; here   *)
(* any may be, and what matters is how the bytes of one and of the next    *)
(* are told apart: each side takes what one recv returns for one message.  *)
(*                                                                         *)
(* An operator named X_Something, before the operator X, is a wrong X: a    *)
(* bug the properties are shown to tell from the code.                      *)
(***************************************************************************)
EXTENDS Frames

CONSTANTS
  Layers,     \* mid1 is 1, mid2 is 2, leaf is 3
  Leaves,     \* positions the client may ask for
  Indices,    \* numbers of buckets
  MaxPath,    \* buckets an answer may have
  InParts,    \* processes whose recv may return a part of what was sent
  MayDie      \* processes that may die at any time

ASSUME ConnectionAssumption ==
  /\ Layers \subseteq 1 .. 3
  /\ Leaves \subseteq Nat
  /\ Indices \subseteq Nat
  /\ MaxPath \in Nat
  /\ PlainBlocks \in Nat

VARIABLES
  client,     \* "start", "ready", "waits" in recv, "ended" by exit, "dead"
  server,     \* "start", "listens", "serves", "stopped", "dead"
  toServer,   \* what was sent and not received yet
  toClient,
  request,    \* what the client asked for last
  heard,      \* what the server took for a request last
  answer,     \* buckets the server sent last
  got         \* buckets the client took for the answer

vars == <<client, server, toServer, toClient, request, heard, answer, got>>

Requests == {Fetch(l, x) : l \in Layers, x \in Leaves}
              \union {Write(l, x) : l \in Layers, x \in Indices}
Answers == UNION {[1 .. n -> Indices] : n \in 0 .. MaxPath}
NoAnswer == <<Noise>>

TypeOK ==
  /\ client \in {"start", "ready", "waits", "ended", "dead"}
  /\ server \in {"start", "listens", "serves", "stopped", "dead"}
  /\ request \in Requests \union {Ended, Ignored}
  /\ heard \in Requests \union {Ended, Ignored}
  /\ answer \in Answers \union {NoAnswer}
  /\ got \in Answers \union {NoAnswer}

Init ==
  /\ client = "start"
  /\ server = "start"
  /\ toServer = <<>>
  /\ toClient = <<>>
  /\ request = Ignored
  /\ heard = Ignored
  /\ answer = NoAnswer
  /\ got = NoAnswer

(* server::init up to accept; a failure of socket, bind or listen is       *)
(* printed, and init returns                                               *)
Listen ==
  /\ server = "start"
  /\ server' \in {"listens", "stopped"}
  /\ UNCHANGED <<client, toServer, toClient, request, heard, answer, got>>

(* client::init: connect and accept *)
Connect ==
  /\ client = "start"
  /\ server = "listens"
  /\ client' = "ready"
  /\ server' = "serves"
  /\ UNCHANGED <<toServer, toClient, request, heard, answer, got>>

(* connect is refused; the caller does not look at the result of init, and *)
(* the first send on the socket kills the process (SIGPIPE)                *)
Refused ==
  /\ client = "start"
  /\ server \in {"start", "stopped", "dead"}
  /\ client' = "dead"
  /\ UNCHANGED <<server, toServer, toClient, request, heard, answer, got>>

Alive(process) == process \notin {"dead", "stopped"}

(* Fetch...Path and Write...Path up to their recv.  The first message to a *)
(* server that is gone is lost; a later one may kill the client (SIGPIPE). *)
Awaits_Fetch(r) == r.op = "fetch"
Awaits(r) == r.op # "exit"
Send(r) ==
  /\ client = "ready"
  /\ request' = r
  /\ \/ /\ client' = IF r.op = "exit" THEN "ended"
                     ELSE IF Awaits(r) THEN "waits" ELSE "ready"
        /\ toServer' = IF Alive(server) THEN toServer \o Frame(r) ELSE toServer
     \/ /\ ~Alive(server)
        /\ client' = "dead"
        /\ UNCHANGED toServer
  /\ UNCHANGED <<server, toClient, heard, answer, got>>

(* how many units of a stream one recv may return: all, or some *)
Received(stream, process) ==
  IF process \in InParts THEN 1 .. Len(stream) ELSE {Len(stream)} \ {0}

(* one pass of the loop of server::init *)
Serve ==
  /\ server = "serves"
  /\ \E n \in Received(toServer, "server") :
       LET r == Parsed(SubSeq(toServer, 1, n)) IN
       /\ toServer' = SubSeq(toServer, n + 1, Len(toServer))
       /\ heard' = r
       /\ CASE r.op = "fetch" ->
                 \E buckets \in Answers :
                   /\ answer' = buckets
                   /\ toClient' = toClient \o PathFrame(buckets)
                   /\ UNCHANGED server
            [] r.op = "write" ->
                 /\ toClient' = Append(toClient, Ack)
                 /\ UNCHANGED <<answer, server>>
            [] r.op = "exit" ->
                 /\ server' = "stopped"
                 /\ UNCHANGED <<answer, toClient>>
            [] OTHER -> UNCHANGED <<answer, toClient, server>>
  /\ UNCHANGED <<client, request, got>>

(* Fetch...Path from its recv *)
ReceivePath ==
  /\ client = "waits"
  /\ request.op = "fetch"
  /\ \E n \in Received(toClient, "client") :
       /\ got' = Sliced(SubSeq(toClient, 1, n))
       /\ toClient' = SubSeq(toClient, n + 1, Len(toClient))
  /\ client' = "ready"
  /\ UNCHANGED <<server, toServer, request, heard, answer>>

(* Write...Path from its recv; without an ACK it prints "Send WRONG!" and  *)
(* goes on just the same                                                   *)
ReceiveAck ==
  /\ client = "waits"
  /\ request.op = "write"
  /\ \E n \in Received(toClient, "client") :
       toClient' = SubSeq(toClient, n + 1, Len(toClient))
  /\ client' = "ready"
  /\ UNCHANGED <<server, toServer, request, heard, answer, got>>

(* The server is gone: recv returns 0 or an error, which Fetch...Path takes *)
(* for an answer without buckets and Write...Path for a wrong one.         *)
GivesUp_Never == FALSE
GivesUp == ~Alive(server) /\ toClient = <<>>
ReceiveNothing ==
  /\ client = "waits"
  /\ GivesUp
  /\ got' = IF request.op = "fetch" THEN <<>> ELSE got
  /\ client' = "ready"
  /\ UNCHANGED <<server, toServer, toClient, request, heard, answer>>

(* The client is gone without "exit": recv returns 0 at once, for ever, and *)
(* buf[len - 1] is the byte before the buffer.  What is read there may pass *)
(* for a request, whose answer kills the server (SIGPIPE); most often it   *)
(* goes round.                                                             *)
ServeNobody ==
  /\ server = "serves"
  /\ client = "dead"
  /\ toServer = <<>>
  /\ server' \in {"serves", "dead"}
  /\ UNCHANGED <<client, toServer, toClient, request, heard, answer, got>>

ClientDies ==
  /\ "client" \in MayDie
  /\ client \in {"ready", "waits"}
  /\ client' = "dead"
  /\ UNCHANGED <<server, toServer, toClient, request, heard, answer, got>>

(* What the client had sent, and the server had not yet read, is gone too, *)
(* and with it what the server had sent may be.                            *)
ServerDies ==
  /\ "server" \in MayDie
  /\ server \in {"listens", "serves"}
  /\ server' = "dead"
  /\ toServer' = <<>>
  /\ toClient' \in {toClient, <<>>}
  /\ UNCHANGED <<client, request, heard, answer, got>>

Client == ReceivePath \/ ReceiveAck \/ ReceiveNothing \/ Refused
Server == Listen \/ Serve \/ ServeNobody
User == Connect \/ \E r \in Requests \union {Ended} : Send(r)
Fault == ClientDies \/ ServerDies

Next == Client \/ Server \/ User \/ Fault

Spec == Init /\ [][Next]_vars

(* Both processes run their loops; the user need not ask for anything, and *)
(* nobody need die.                                                        *)
FairSpec == Spec /\ WF_vars(Client) /\ WF_vars(Serve)

(***************************************************************************)
(* Correctness                                                             *)
(***************************************************************************)

(* What the server takes for a request is what the client asked for: no    *)
(* recv returns bytes of two messages, and the tags tell them apart.       *)
RequestsUnderstood ==
  [][Len(toServer') < Len(toServer) /\ server' # "dead" => heard' = request]_vars

(* "assert(buffer.size() == Z * (blockSize))" (client.cpp:588): what the    *)
(* client decrypts are whole buckets; it takes for the answer all of what  *)
(* the server sent for this request and nothing else, or nothing at all if *)
(* the server is gone.                                                     *)
AnswersUnderstood ==
  [][ client = "waits" /\ client' = "ready" /\ request.op = "fetch" =>
        \/ heard = request /\ got' = answer
        \/ ~Alive(server) /\ got' = <<>> ]_vars

(* While the client computes, nothing is on the connection: no answer is   *)
(* left that the next recv would take for its own.                         *)
StreamsDrained == client = "ready" => toServer = <<>> /\ toClient = <<>>

(* No recv of the client waits for ever, whether the server answers or is  *)
(* gone.                                                                   *)
CallsReturn == client = "waits" ~> client # "waits"

(* The server ends its loop when the client has sent "exit". *)
ExitStopsServer == client = "ended" ~> ~Alive(server)
=============================================================================
