-------------------------------- MODULE Web --------------------------------
(***************************************************************************)
(* The web server with its clients: the thread pool of Server serving each *)
(* connection as request.c does, and the programs client.c and             *)
(* client_simple.c, beside clients that use another method or close their  *)
(* connection early.  Connections carry lines one way and the parts of an  *)
(* answer the other; the kernel keeps both, and closes the connections of  *)
(* a process that ends.                                                    *)
(***************************************************************************)
EXTENDS Server, Sequences

CONSTANTS
  NrClients,   \* client processes, each with one thread
  Mixes,       \* who the clients may be: functions to records of a manner
               \* and the files of the file set
  Times,       \* nr_times of client.c
  Files, Kind  \* "full", "empty" or "missing" (or not to be read), of each

VARIABLES
  who,         \* each client's manner and files
  client,      \* where it is in its program
  todo,        \* requests it has still to make
  asks,        \* the file it asks for
  backlog,     \* of the listening socket: clients connected, not accepted
  peer,        \* the client at the other end of each descriptor
  sent,        \* lines each client has sent and the server has not read
  answer,      \* what the server has written to each client
  closed,      \* has the server closed its end?
  stage,       \* where each thread is in do_server_request
  name         \* data->file_name of each thread

client_vars == <<client, todo, asks>>
wire == <<backlog, peer, sent, answer, closed>>
serving_vars == <<stage, name>>
web_vars == <<vars, who, client_vars, wire, serving_vars>>

Clients == 1 .. NrClients
NoFile == "no file"
manner(c) == who[c].manner
requests(c) == IF manner(c) = "get" THEN Times ELSE 1
Early == {"partial", "silent"}        \* manners of clients that close early

ASSUME WebAssumption ==
  /\ NrClients \in Nat
  /\ Mixes \subseteq [Clients -> [manner : Early \cup {"get", "simple", "post"},
                                files : SUBSET Files]]

WebInit ==
  /\ Init
  /\ who \in Mixes
  /\ client = [c \in Clients |-> "idle"]
  /\ todo = [c \in Clients |-> requests(c)]
  /\ asks = [c \in Clients |-> NoFile]
  /\ backlog = <<>>
  /\ peer = [fd \in Fds |-> 0]
  /\ sent = [c \in Clients |-> <<>>]
  /\ answer = [c \in Clients |-> <<>>]
  /\ closed = [c \in Clients |-> FALSE]
  /\ stage = [t \in Threads |-> "line"]
  /\ name = [t \in Threads |-> NoFile]

-----------------------------------------------------------------------------
(* The clients.  open_listenfd is called when server_init is done.         *)
Listening == up /\ pc[Main] # "create"

(* client_send writes the request in one piece.                            *)
Text(m) ==
  CASE m \in {"get", "simple"} -> {<<"GET", "host", "empty">>}
    [] m = "post" -> {<<"POST", "host", "empty">>}
    [] m = "partial" -> {<<"GET">>, <<"GET", "host">>}
    [] m = "silent" -> {<<>>}

(* open_clientfd, the random choice of a file, and client_send: until a    *)
(* server that has accepted the connection has the text, its read waits.   *)
Connect(c) ==
  /\ client[c] = "idle" /\ Listening
  /\ client' = [client EXCEPT ![c] = IF manner(c) \in Early THEN "gone" ELSE "wait"]
  /\ \E f \in who[c].files : asks' = [asks EXCEPT ![c] = f]
  /\ \E text \in Text(manner(c)) : sent' = [sent EXCEPT ![c] = text]
  /\ backlog' = Append(backlog, c)
  /\ answer' = [answer EXCEPT ![c] = <<>>]
  /\ closed' = [closed EXCEPT ![c] = FALSE]
  /\ UNCHANGED <<vars, who, todo, peer, serving_vars>>

(* connect fails: the client's process ends.                               *)
Refused(c) ==
  /\ client[c] = "idle" /\ ~Listening
  /\ client' = [client EXCEPT ![c] = "refused"]
  /\ UNCHANGED <<vars, who, todo, asks, wire, serving_vars>>

Part(what, f) == [what |-> what, file |-> f]
Body(f) == IF Kind[f] = "full" THEN <<Part("body", f)>> ELSE <<>>
Whole(f) == <<Part("head", f)>> \o Body(f)

(* The assertions of client_print, in client.c on length and checksum of   *)
(* the file (0 when no header came), in client_simple.c on the length that *)
(* the header gave.                                                        *)
same_file(c) ==
  \/ answer[c] = Whole(asks[c])
  \/ answer[c] = <<>> /\ Kind[asks[c]] = "empty"
same_length(c) ==
  \A f \in Files : Kind[f] = "full" => answer[c] # <<Part("head", f)>>
Satisfied(c) ==
  /\ manner(c) = "get" => same_file(c)
  /\ manner(c) = "simple" => same_length(c)

(* client_print reads to the end of the answer; then close.                *)
Finish(c) ==
  /\ client[c] = "wait" /\ (closed[c] \/ ~up)
  /\ client' = [client EXCEPT ![c] =
                  IF ~Satisfied(c) THEN "assert"
                  ELSE IF todo[c] > 1 THEN "idle" ELSE "done"]
  /\ todo' = [todo EXCEPT ![c] = @ - 1]
  /\ UNCHANGED <<vars, who, asks, wire, serving_vars>>

ClientStep(c) == Connect(c) \/ Refused(c) \/ Finish(c)

-----------------------------------------------------------------------------
(* The pool, and accept.  Spurious wakeups are Server's.                   *)
Aside == UNCHANGED <<who, client_vars, wire, serving_vars>>
Pool == (MainStep \/ \E w \in Workers : WorkerStep(w)) /\ Aside

(* accept returns the lowest descriptor that is free: a fixed one of them. *)
AcceptClient ==
  /\ backlog # <<>> /\ Accept
  /\ connfd'[Main] = CHOOSE fd \in Fds : fd \notin open
  /\ peer' = [peer EXCEPT ![connfd'[Main]] = Head(backlog)]
  /\ backlog' = Tail(backlog)
  /\ UNCHANGED <<who, client_vars, sent, answer, closed, serving_vars>>

-----------------------------------------------------------------------------
(* do_server_request.                                                      *)
Serving(t, s) == At(t, "serve") /\ stage[t] = s
caller(t) == peer[connfd[t]]
Gone(c) == client[c] = "gone"
AtEof(t) == sent[caller(t)] = <<>> /\ Gone(caller(t))

Advance(t, s) == stage' = [stage EXCEPT ![t] = s]

(* Rio_readlineb, when there is a line.                                    *)
GetLine(t, line) ==
  LET c == caller(t) IN
  /\ sent[c] # <<>> /\ Head(sent[c]) = line
  /\ sent' = [sent EXCEPT ![c] = Tail(@)]

request_parse_URI(c) == asks[c]      \* the file that ./uri names

(* request_init: the first line.  At end of file method and uri are what   *)
(* was on the stack.                                                       *)
ReadRequest(t) ==
  /\ Serving(t, "line")
  /\ \/ /\ GetLine(t, "GET")
        /\ Advance(t, "headers")
        /\ name' = [name EXCEPT ![t] = request_parse_URI(caller(t))]
     \/ GetLine(t, "POST") /\ Advance(t, "error") /\ UNCHANGED name
     \/ /\ AtEof(t) /\ UNCHANGED <<sent, name>>
        /\ Advance(t, "headers") \/ Advance(t, "error")
  /\ UNCHANGED <<vars, who, client_vars, backlog, peer, answer, closed>>

(* request_read_headers, and the file name after it.  buf is junk at       *)
(* first, and end of file leaves it as it is: unless the junk is an empty  *)
(* line, the loop never ends.                                              *)
ReadHeader(t) ==
  /\ Serving(t, "headers") \/ Serving(t, "more")
  /\ \/ GetLine(t, "empty") /\ Advance(t, "file") /\ UNCHANGED name
     \/ GetLine(t, "host") /\ Advance(t, "more") /\ UNCHANGED name
     \/ AtEof(t) /\ Advance(t, "spin") /\ UNCHANGED <<sent, name>>
     \/ /\ AtEof(t) /\ stage[t] = "headers" /\ Advance(t, "file")
        /\ \E f \in IF name[t] = NoFile THEN Files ELSE {name[t]} :
             name' = [name EXCEPT ![t] = f]
        /\ UNCHANGED sent
  /\ UNCHANGED <<vars, who, client_vars, backlog, peer, answer, closed>>

Spin(t) == Serving(t, "spin") /\ UNCHANGED web_vars

Named == {u \in Threads : name[u] # NoFile}
shared_name(t) == IF Named = {} THEN NoFile ELSE name[CHOOSE u \in Named : TRUE]
file_name(t) == name[t]
Readable(f) == Kind[f] \in {"full", "empty"}
ReadFile(t) ==
  /\ Serving(t, "file")
  /\ Advance(t, IF Readable(file_name(t)) THEN "head" ELSE "error")
  /\ UNCHANGED <<vars, who, client_vars, wire, name>>

Reply(t, parts, s) ==
  /\ answer' = [answer EXCEPT ![caller(t)] = @ \o parts]
  /\ Advance(t, s)
  /\ UNCHANGED <<vars, who, client_vars, backlog, peer, sent, closed, name>>

SendError(t) ==
  Serving(t, "error") /\ Reply(t, <<Part("error", file_name(t))>>, "close")

head_only(t) == "close"
after_head(t) == IF Kind[file_name(t)] = "full" THEN "body" ELSE "close"
SendHead(t) ==
  Serving(t, "head") /\ Reply(t, <<Part("head", file_name(t))>>, after_head(t))

SendBody(t) ==
  Serving(t, "body") /\ Reply(t, <<Part("body", file_name(t))>>, "close")

(* A write to a connection the client has closed may end the server:       *)
(* SIGPIPE, or unix_error in Rio_write.                                    *)
BrokenPipe(t) ==
  /\ Serving(t, "error") \/ Serving(t, "head") \/ Serving(t, "body")
  /\ Gone(caller(t))
  /\ up' = FALSE
  /\ UNCHANGED <<init_vars, queue_vars, sync_vars, pc, connfd, open, who,
                 client_vars, wire, serving_vars>>

Close(t) ==
  /\ Serving(t, "close") /\ Serve(t)
  /\ closed' = [closed EXCEPT ![caller(t)] = TRUE]
  /\ Advance(t, "line")
  /\ name' = [name EXCEPT ![t] = NoFile]
  /\ UNCHANGED <<who, client_vars, backlog, peer, sent, answer>>

Request(t) ==
  \/ ReadRequest(t) \/ ReadHeader(t) \/ ReadFile(t) \/ SendError(t)
  \/ SendHead(t) \/ SendBody(t) \/ Close(t)

-----------------------------------------------------------------------------
WebNext ==
  \/ \E c \in Clients : ClientStep(c)
  \/ Pool \/ AcceptClient
  \/ \E t \in Threads : Request(t) \/ BrokenPipe(t) \/ Spin(t)
WebSpec == WebInit /\ [][WebNext]_web_vars

(* Clients and threads run on; the kernel hands the mutex to whom it likes.*)
LargestPool == 1 .. CHOOSE n \in ThreadArgs : \A m \in ThreadArgs : m <= n
Fairness ==
  /\ WF_web_vars(AcceptClient \/ Request(Main) \/ (MainStep /\ Aside))
  /\ \A w \in LargestPool :
       WF_web_vars(w \in Workers /\ (Request(w) \/ (WorkerStep(w) /\ Aside)))
  /\ \A c \in Clients : WF_web_vars(ClientStep(c))
WebFairSpec == WebSpec /\ Fairness
-----------------------------------------------------------------------------
Polite(c) == manner(c) \notin Early

(* However the threads interleave, what a client receives is a prefix of   *)
(* the one answer to its own request: the head and the body of the file it *)
(* asked for, or one error.                                                *)
OwnAnswer ==
  \A c \in Clients :
    Polite(c) /\ answer[c] # <<>> =>
      \/ answer[c] = SubSeq(Whole(asks[c]), 1, Len(answer[c]))
      \/ /\ Len(answer[c]) = 1 /\ Head(answer[c]).what = "error"
         /\ manner(c) = "post" \/ ~Readable(asks[c])

(* The assertions of client.c and client_simple.c on length and checksum   *)
(* hold for every file the server can read, unless the server has ended.   *)
FullAnswer ==
  \A c \in Clients :
    client[c] = "assert" => ~up \/ ~Readable(asks[c])

(* When no client closes early, each gets its answer: the ring, the        *)
(* wakeups and the pool keep nobody waiting for ever.                      *)
Answered ==
  \A c \in Clients :
    (\A d \in Clients : Polite(d)) /\ client[c] = "wait" ~> client[c] # "wait"
=============================================================================
