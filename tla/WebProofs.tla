----------------------------- MODULE WebProofs -----------------------------
(***************************************************************************)
(* Proofs about Web, for every number of clients, worker threads, slots    *)
(* and descriptors, and every mix of clients and files.  Fatal says that   *)
(* Server's requests may end the process, as those of Web do.              *)
(***************************************************************************)
EXTENDS Web, ServerProofs

(* The server in Web is Server: a request is the steps of one Serve, or    *)
(* one Exit.                                                               *)
LEMMA WebSimulates ==
  ASSUME Fatal, [WebNext]_web_vars PROVE [Next]_vars
<1>1. CASE UNCHANGED web_vars
  BY <1>1 DEF web_vars
<1>2. CASE \E c \in Clients : ClientStep(c)
  BY <1>2 DEF ClientStep, Connect, Refused, Finish
<1>3. CASE Pool
  BY <1>3 DEF Pool, Next
<1>4. CASE AcceptClient
  BY <1>4 DEF AcceptClient, Next
<1>5. ASSUME NEW t \in Threads, Request(t) PROVE [Next]_vars
  BY <1>5 DEF Request, ReadRequest, ReadHeader, ReadFile, SendError, SendHead,
    SendBody, Reply, Close, Next
<1>6. ASSUME NEW t \in Threads, BrokenPipe(t) PROVE Next
  <2>1. At(t, "serve")
    BY <1>6 DEF BrokenPipe, Serving
  <2>2. up' = FALSE /\ UNCHANGED <<init_vars, queue_vars, sync_vars, pc, connfd, open>>
    BY <1>6 DEF BrokenPipe
  <2>3. Exit(t)
    BY <2>1, <2>2 DEF Exit
  <2> QED BY <2>3 DEF Next
<1>7. ASSUME NEW t \in Threads, Spin(t) PROVE UNCHANGED vars
  BY <1>7 DEF Spin, web_vars
<1> QED BY <1>1, <1>2, <1>3, <1>4, <1>5, <1>6, <1>7 DEF WebNext

(* Everything proved of the thread pool holds with the clients around it   *)
(* and the requests in their steps: request.c changes nothing of the ring  *)
(* but that it closes the connection.                                      *)
THEOREM WebImplementsServer == ASSUME Fatal PROVE WebSpec => Spec
<1>1. WebInit => Init
  BY DEF WebInit
<1>2. [WebNext]_web_vars => [Next]_vars
  BY WebSimulates
<1> QED BY <1>1, <1>2, PTL DEF WebSpec, Spec

LEMMA WebSafeAlways == ASSUME Fatal PROVE WebSpec => [](SafeInv /\ HeldInv)
<1>1. WebSpec => Spec
  BY WebImplementsServer
<1>2. Spec => [](SafeInv /\ HeldInv)
  BY SafeAlways, HeldAlways, PTL
<1> QED BY <1>1, <1>2, PTL

-----------------------------------------------------------------------------
Lines == {"GET", "POST", "host", "empty"}
Parts == [what : {"head", "body", "error"}, file : Files \cup {NoFile}]
Stages == {"line", "headers", "more", "spin", "file", "head", "body", "error", "close"}

WebType ==
  /\ who \in [Clients -> [manner : Early \cup {"get", "simple", "post"},
                          files : SUBSET Files]]
  /\ client \in [Clients -> {"idle", "wait", "gone", "refused", "assert", "done"}]
  /\ asks \in [Clients -> Files \cup {NoFile}]
  /\ backlog \in Seq(Clients)
  /\ peer \in [Fds -> Clients \cup {0}]
  /\ sent \in [Clients -> Seq(Lines)]
  /\ answer \in [Clients -> Seq(Parts)]
  /\ closed \in [Clients -> BOOLEAN]
  /\ stage \in [Threads -> Stages]
  /\ name \in [Threads -> Files \cup {NoFile}]

(* A client has one connection at most: in the backlog, or at one of the   *)
(* server's descriptors, and it waits for the answer or has gone.          *)
OneConnection ==
  /\ \A i, j \in 1 .. Len(backlog) : backlog[i] = backlog[j] => i = j
  /\ \A fd, gd \in open : peer[fd] = peer[gd] => fd = gd
  /\ \A fd \in open, i \in 1 .. Len(backlog) : peer[fd] # backlog[i]
Connected(c) == c \in Clients /\ client[c] \in {"wait", "gone"} /\ ~closed[c]
AllConnected ==
  /\ \A fd \in open : Connected(peer[fd])
  /\ \A i \in 1 .. Len(backlog) : Connected(backlog[i])

(* Nothing of the request has been read, unless a thread is behind its     *)
(* first line; and what it has then answered.                              *)
Fresh(c) == answer[c] = <<>> /\ sent[c] \in Text(manner(c))
Begun(fd) == \E t \in Threads : connfd[t] = fd /\ pc[t] = "serve" /\ stage[t] # "line"
Unread ==
  /\ \A fd \in open : Begun(fd) \/ Fresh(peer[fd])
  /\ \A i \in 1 .. Len(backlog) : Fresh(backlog[i])
  /\ \A t \in Threads : pc[t] # "serve" => stage[t] = "line"

(* Of an answer to a request for file f by a client of manner m: it is     *)
(* complete; it is its own, as OwnAnswer says; and what a thread has made  *)
(* of it in each stage, with the file name n.                              *)
CompleteOf(a, f, m) ==
  \/ Readable(f) /\ a = Whole(f)
  \/ /\ m = "post" \/ ~Readable(f)
     /\ Len(a) = 1 /\ Head(a).what = "error"
Complete(c) == CompleteOf(answer[c], asks[c], manner(c))

OwnOf(a, f, m) ==
  a # <<>> =>
    \/ a = SubSeq(Whole(f), 1, Len(a))
    \/ /\ Len(a) = 1 /\ Head(a).what = "error"
       /\ m = "post" \/ ~Readable(f)
Own(c) == OwnOf(answer[c], asks[c], manner(c))

ProgressOf(s, n, a, f, m) ==
  /\ s # "spin"
  /\ s \in {"headers", "more", "file"} => a = <<>> /\ n = f
  /\ s = "head" => a = <<>> /\ n = f /\ Readable(f)
  /\ s = "body" => a = <<Part("head", f)>> /\ n = f /\ Kind[f] = "full"
  /\ s = "error" => a = <<>> /\ (m = "post" \/ ~Readable(f))
  /\ s = "close" => CompleteOf(a, f, m)
Progress(t) ==
  LET c == caller(t) IN ProgressOf(stage[t], name[t], answer[c], asks[c], manner(c))
InProgress ==
  \A t \in Threads : pc[t] = "serve" /\ Polite(caller(t)) => Progress(t)

Waiting ==
  \A c \in Clients :
    /\ client[c] = "wait" => Polite(c)
    /\ client[c] = "gone" => ~Polite(c)
Told == \A c \in Clients : client[c] = "wait" /\ closed[c] => Complete(c)

LiveInv == OneConnection /\ AllConnected /\ Unread /\ InProgress /\ Told
WebInv == WebType /\ Waiting /\ (up => LiveInv) /\ OwnAnswer /\ FullAnswer

LEMMA WebInitially == ASSUME WebInit PROVE WebInv
<1>1. WebType
  BY WebAssumption DEF WebInit, WebType, Stages
<1>2. Waiting /\ LiveInv
  BY DEF WebInit, Init, Waiting, LiveInv, OneConnection, AllConnected, Unread,
    InProgress, Told, Threads, Workers, Main
<1>3. OwnAnswer /\ FullAnswer
  BY DEF WebInit, OwnAnswer, FullAnswer
<1> QED BY <1>1, <1>2, <1>3 DEF WebInv
-----------------------------------------------------------------------------
(* What the invariants say of a thread that serves a connection.           *)
LEMMA CallerIs ==
  ASSUME HeldInv, WebType, AllConnected, NEW t \in Threads, pc[t] = "serve"
  PROVE  connfd[t] \in open /\ caller(t) \in Clients /\ Connected(caller(t))
  BY DEF HeldInv, HandsOK, OnceEach, AllConnected, Connected, caller, Threads, Workers,
    Main

LEMMA CallersDiffer ==
  ASSUME HeldInv, WebType, OneConnection, AllConnected,
         NEW t \in Threads, pc[t] = "serve"
  PROVE  /\ \A u \in Threads : pc[u] = "serve" /\ u # t => caller(u) # caller(t)
         /\ \A fd \in open : fd # connfd[t] => peer[fd] # caller(t)
         /\ \A i \in 1 .. Len(backlog) : backlog[i] # caller(t)
<1>1. connfd[t] \in open
  BY CallerIs
<1>2. \A u \in Threads : pc[u] = "serve" => connfd[u] \in open
  BY CallerIs
<1>3. connfd[t] # NoFd
  BY DEF HeldInv, HandsOK, Threads, Workers, Main
<1> QED BY <1>1, <1>2, <1>3 DEF OneConnection, HeldInv, OnceEach, caller

LEMMA PartTypes ==
  ASSUME NEW f \in Files \cup {NoFile}
  PROVE  /\ Part("head", f) \in Parts /\ Part("body", f) \in Parts
         /\ Part("error", f) \in Parts
  BY DEF Part, Parts

LEMMA SeqOfOne ==
  ASSUME NEW S, NEW s \in Seq(S), Len(s) = 1 PROVE s = <<s[1]>>
<1>1. s \in [1 .. 1 -> S]
  BY LenProperties
<1> QED BY <1>1

LEMMA SeqOfTwo ==
  ASSUME NEW S, NEW s \in Seq(S), Len(s) = 2 PROVE s = <<s[1], s[2]>>
<1>1. s \in [1 .. 2 -> S]
  BY LenProperties
<1>2. 1 .. 2 = {1, 2}
  OBVIOUS
<1> QED BY <1>1, <1>2

LEMMA WholeIs ==
  ASSUME NEW f \in Files \cup {NoFile}
  PROVE  /\ Kind[f] = "full" => Whole(f) = <<Part("head", f), Part("body", f)>>
         /\ Kind[f] # "full" => Whole(f) = <<Part("head", f)>>
         /\ SubSeq(Whole(f), 1, Len(Whole(f))) = Whole(f)
         /\ SubSeq(Whole(f), 1, 1) = <<Part("head", f)>>
         /\ Whole(f) \in Seq(Parts)
<1> DEFINE first == <<Part("head", f)>>
<1>1. /\ first \in Seq(Parts) /\ Len(first) = 1 /\ first[1] = Part("head", f)
      /\ Body(f) \in Seq(Parts)
      /\ Kind[f] = "full" => Len(Body(f)) = 1 /\ Body(f)[1] = Part("body", f)
      /\ Kind[f] # "full" => Len(Body(f)) = 0
  BY PartTypes DEF Body
<1>2. Whole(f) = first \o Body(f)
  BY DEF Whole
<1> HIDE DEF first
<1>3. /\ Whole(f) \in Seq(Parts) /\ Len(Whole(f)) = 1 + Len(Body(f))
      /\ \A i \in 1 .. 1 + Len(Body(f)) :
           Whole(f)[i] = IF i <= 1 THEN first[i] ELSE Body(f)[i - 1]
  BY <1>1, <1>2, ConcatProperties
<1>4. /\ Whole(f)[1] = Part("head", f)
      /\ Kind[f] = "full" => Whole(f)[2] = Part("body", f)
  BY <1>1, <1>3, LenProperties
<1>5. \A n \in 1 .. Len(Whole(f)) :
        /\ SubSeq(Whole(f), 1, n) \in Seq(Parts) /\ Len(SubSeq(Whole(f), 1, n)) = n
        /\ \A i \in 1 .. n : SubSeq(Whole(f), 1, n)[i] = Whole(f)[i]
  <2> TAKE n \in 1 .. Len(Whole(f))
  <2>1. n \in Int /\ \A i \in 1 .. n : Whole(f)[i] \in Parts
    BY <1>3, LenProperties, ElementOfSeq
  <2> QED BY <1>3, <2>1, SubSeqProperties, LenProperties
<1>6. Len(Whole(f)) \in 1 .. Len(Whole(f)) /\ 1 \in 1 .. Len(Whole(f))
  BY <1>1, <1>3
<1>7. SubSeq(Whole(f), 1, Len(Whole(f))) = Whole(f)
  BY <1>3, <1>5, <1>6, SeqEqual
<1>8. SubSeq(Whole(f), 1, 1) = <<Part("head", f)>>
  <2> DEFINE s == SubSeq(Whole(f), 1, 1)
  <2>1. s \in Seq(Parts) /\ Len(s) = 1 /\ s[1] = Part("head", f)
    BY <1>4, <1>5, <1>6
  <2> HIDE DEF s
  <2>2. s = <<s[1]>>
    BY <2>1, SeqOfOne
  <2> QED BY <2>1, <2>2 DEF s
<1>9. /\ Kind[f] = "full" => Whole(f) = <<Part("head", f), Part("body", f)>>
      /\ Kind[f] # "full" => Whole(f) = <<Part("head", f)>>
  BY <1>1, <1>3, <1>4, SeqOfOne, SeqOfTwo
<1> QED BY <1>3, <1>7, <1>8, <1>9

LEMMA ProgressIsOwn ==
  ASSUME NEW s \in Stages \ {"line"}, NEW n, NEW a, NEW f \in Files \cup {NoFile},
         NEW m, ProgressOf(s, n, a, f, m)
  PROVE  OwnOf(a, f, m)
<1>1. CASE s = "close"
  BY <1>1, WholeIs DEF ProgressOf, CompleteOf, OwnOf
<1>2. CASE s = "body"
  <2>1. a = <<Part("head", f)>>
    BY <1>2 DEF ProgressOf
  <2>2. Len(a) = 1
    BY <2>1
  <2> QED BY <2>1, <2>2, WholeIs DEF OwnOf
<1>3. CASE s \notin {"close", "body"}
  BY <1>3 DEF ProgressOf, OwnOf, Stages
<1> QED BY <1>1, <1>2, <1>3

(* A step of a request: thread t goes on with its own connection.          *)
LEMMA RequestMove ==
  ASSUME SafeInv, HeldInv, WebInv, up, NEW t \in Threads, pc[t] = "serve", WebType',
         UNCHANGED <<vars, who, client_vars, backlog, peer, closed>>,
         \A c \in Clients \ {caller(t)} : answer'[c] = answer[c] /\ sent'[c] = sent[c],
         \A u \in Threads \ {t} : stage'[u] = stage[u] /\ name'[u] = name[u],
         stage'[t] # "line", Polite(caller(t)) => Progress(t)'
  PROVE  WebInv'
<1> USE DEF WebInv, LiveInv
<1>1. /\ pc' = pc /\ connfd' = connfd /\ open' = open /\ Threads' = Threads
      /\ who' = who /\ client' = client /\ asks' = asks /\ backlog' = backlog
      /\ peer' = peer /\ closed' = closed /\ up' = up
      /\ \A u \in Threads : caller(u)' = caller(u)
  BY DEF vars, client_vars, init_vars, Threads, Workers, caller
<1>2. connfd[t] \in open /\ caller(t) \in Clients /\ Connected(caller(t))
  BY CallerIs
<1>3. /\ \A u \in Threads : pc[u] = "serve" /\ u # t => caller(u) # caller(t)
      /\ \A fd \in open : fd # connfd[t] => peer[fd] # caller(t)
      /\ \A i \in 1 .. Len(backlog) : backlog[i] # caller(t)
  BY CallersDiffer
<1>4. \A u \in Threads : pc[u] = "serve" => caller(u) \in Clients
  BY CallerIs
<1>5. Waiting' /\ OneConnection' /\ AllConnected'
  BY <1>1 DEF Waiting, OneConnection, AllConnected, Connected, Polite, manner
<1>6. Unread'
  <2>1. \A c \in Clients \ {caller(t)} : Fresh(c)' <=> Fresh(c)
    BY <1>1 DEF Fresh, manner
  <2>2. ASSUME NEW fd \in open PROVE Begun(fd)' \/ Fresh(peer[fd])'
    <3>1. CASE fd = connfd[t]
      BY <1>1, <3>1 DEF Begun
    <3>2. CASE fd # connfd[t]
      <4>1. Fresh(peer[fd]) => Fresh(peer[fd])'
        BY <1>1, <1>3, <2>1, <3>2 DEF AllConnected, Connected, Fresh, manner
      <4>2. Begun(fd) => Begun(fd)'
        BY <1>1, <3>2 DEF Begun
      <4> QED BY <4>1, <4>2 DEF Unread
    <3> QED BY <3>1, <3>2
  <2>3. \A i \in 1 .. Len(backlog) : Fresh(backlog[i])'
    BY <1>1, <1>3, <2>1 DEF Unread, AllConnected, Connected, Fresh, manner
  <2>4. \A u \in Threads : pc[u] # "serve" => stage'[u] = "line"
    BY DEF Unread
  <2> QED BY <1>1, <2>2, <2>3, <2>4 DEF Unread
<1>7. InProgress'
  <2>1. ASSUME NEW u \in Threads, u # t, pc[u] = "serve", Polite(caller(u))
        PROVE  Progress(u)'
    <3>1. Progress(u)
      BY <2>1 DEF InProgress
    <3>2. /\ answer'[caller(u)] = answer[caller(u)]
          /\ stage'[u] = stage[u] /\ name'[u] = name[u]
      BY <1>3, <1>4, <2>1
    <3> QED BY <1>1, <3>1, <3>2 DEF Progress, Complete, manner
  <2>2. \A u \in Threads : Polite(caller(u))' <=> Polite(caller(u))
    BY <1>1 DEF Polite, manner
  <2> QED BY <1>1, <2>1, <2>2 DEF InProgress
<1>8. Told'
  <2>1. ~closed[caller(t)]
    BY <1>2 DEF Connected
  <2>2. \A c \in Clients \ {caller(t)} : Complete(c) => Complete(c)'
    BY <1>1 DEF Complete, manner
  <2> QED BY <1>1, <2>1, <2>2 DEF Told
<1>9. OwnAnswer'
  <2>1. Polite(caller(t)) => Own(caller(t))'
    <3>1. /\ stage'[t] \in Stages \ {"line"}
          /\ asks'[caller(t)] \in Files \cup {NoFile}
      BY <1>1, <1>2 DEF WebType
    <3>2. Progress(t)' = ProgressOf(stage'[t], name'[t], answer'[caller(t)],
                                    asks'[caller(t)], manner(caller(t))')
      BY <1>1 DEF Progress, manner
    <3>3. Progress(t)' => OwnOf(answer'[caller(t)], asks'[caller(t)], manner(caller(t))')
      BY <3>1, <3>2, ProgressIsOwn
    <3>4. Own(caller(t))' = OwnOf(answer'[caller(t)], asks'[caller(t)], manner(caller(t))')
      BY <1>1 DEF Own, manner
    <3> QED BY <3>3, <3>4
  <2>2. \A c \in Clients \ {caller(t)} : Polite(c) => Own(c)'
    BY <1>1 DEF OwnAnswer, Own, OwnOf, manner
  <2> QED BY <1>1, <1>2, <2>1, <2>2 DEF OwnAnswer, Own, OwnOf, Polite, manner
<1>10. FullAnswer'
  BY <1>1 DEF FullAnswer
<1> QED BY <1>5, <1>6, <1>7, <1>8, <1>9, <1>10

LEMMA FreshAtFirst ==
  ASSUME HeldInv, WebType, LiveInv, NEW t \in Threads, pc[t] = "serve",
         stage[t] = "line"
  PROVE  Fresh(caller(t))
<1>1. connfd[t] \in open /\ connfd[t] # NoFd
  BY CallerIs DEF LiveInv, HeldInv, HandsOK, Threads, Workers, Main
<1>2. ~Begun(connfd[t])
  BY <1>1 DEF Begun, HeldInv, OnceEach
<1> QED BY <1>1, <1>2 DEF LiveInv, Unread, caller

LEMMA TextIs ==
  ASSUME NEW m, NEW text \in Text(m)
  PROVE  /\ m \in {"get", "simple"} => text = <<"GET", "host", "empty">>
         /\ m = "post" => text = <<"POST", "host", "empty">>
  BY DEF Text

LEMMA GetLineIs ==
  ASSUME WebType, NEW t \in Threads, NEW line, caller(t) \in Clients, GetLine(t, line)
  PROVE  /\ sent' \in [Clients -> Seq(Lines)]
         /\ \A c \in Clients \ {caller(t)} : sent'[c] = sent[c]
         /\ line = Head(sent[caller(t)])
<1>1. Tail(sent[caller(t)]) \in Seq(Lines)
  BY HeadTailProperties DEF GetLine, WebType
<1> QED BY <1>1 DEF GetLine, WebType

LEMMA WebReadRequest ==
  ASSUME SafeInv, HeldInv, WebInv, NEW t \in Threads, ReadRequest(t) PROVE WebInv'
<1> USE DEF WebInv
<1> DEFINE c == caller(t)
<1>1. /\ up /\ pc[t] = "serve" /\ stage[t] = "line"
      /\ UNCHANGED <<vars, who, client_vars, backlog, peer, answer, closed>>
  BY DEF ReadRequest, GetLine, Serving, At
<1>2. c \in Clients
  BY <1>1, CallerIs DEF LiveInv
<1>3. Fresh(c)
  BY <1>1, FreshAtFirst
<1>4. c' = c /\ Threads' = Threads /\ manner(c)' = manner(c) /\ asks' = asks
  BY <1>1 DEF vars, init_vars, client_vars, Threads, Workers, caller, manner
<1>5. /\ stage' \in [Threads -> Stages] /\ stage'[t] # "line"
      /\ name' \in [Threads -> Files \cup {NoFile}]
      /\ sent' \in [Clients -> Seq(Lines)]
      /\ \A d \in Clients \ {c} : sent'[d] = sent[d]
      /\ \A u \in Threads \ {t} : stage'[u] = stage[u] /\ name'[u] = name[u]
      /\ Polite(c) => ProgressOf(stage'[t], name'[t], answer[c], asks[c], manner(c))
  <2>0. /\ stage \in [Threads -> Stages] /\ name \in [Threads -> Files \cup {NoFile}]
        /\ asks[c] \in Files \cup {NoFile} /\ answer[c] = <<>>
        /\ {"headers", "error"} \subseteq Stages
    BY <1>2, <1>3 DEF WebType, Fresh, Stages
  <2>1. CASE GetLine(t, "GET") /\ Advance(t, "headers")
                /\ name' = [name EXCEPT ![t] = request_parse_URI(caller(t))]
    BY <1>2, <2>0, <2>1, GetLineIs DEF Advance, request_parse_URI, ProgressOf
  <2>2. CASE GetLine(t, "POST") /\ Advance(t, "error") /\ UNCHANGED name
    <3>1. Head(sent[c]) = "POST"
      BY <1>2, <2>2, GetLineIs
    <3>2. Polite(c) => manner(c) = "post"
      <4>1. manner(c) \in Early \cup {"get", "simple", "post"}
        BY <1>2 DEF WebType, manner
      <4>2. CASE manner(c) \in {"get", "simple"}
        <5>1. sent[c] = <<"GET", "host", "empty">>
          BY <1>3, <4>2, TextIs DEF Fresh
        <5> QED BY <3>1, <5>1
      <4> QED BY <4>1, <4>2 DEF Polite
    <3> QED BY <1>2, <2>0, <2>2, <3>2, GetLineIs DEF Advance, ProgressOf
  <2>3. CASE AtEof(t) /\ UNCHANGED <<sent, name>>
                /\ (Advance(t, "headers") \/ Advance(t, "error"))
    <3>1. ~Polite(c)
      BY <1>2, <2>3 DEF AtEof, Gone, Waiting
    <3> QED BY <2>0, <2>3, <3>1 DEF Advance, WebType
  <2> QED BY <2>1, <2>2, <2>3 DEF ReadRequest
<1>6. WebType'
  BY <1>1, <1>4, <1>5 DEF WebType, client_vars
<1>7. Polite(c) => Progress(t)'
  BY <1>1, <1>4, <1>5 DEF Progress
<1> QED BY <1>1, <1>5, <1>6, <1>7, RequestMove

LEMMA WebReadHeader ==
  ASSUME SafeInv, HeldInv, WebInv, NEW t \in Threads, ReadHeader(t) PROVE WebInv'
<1> USE DEF WebInv
<1> DEFINE c == caller(t)
<1>1. /\ up /\ pc[t] = "serve" /\ stage[t] \in {"headers", "more"}
      /\ UNCHANGED <<vars, who, client_vars, backlog, peer, answer, closed>>
  BY DEF ReadHeader, GetLine, Serving, At
<1>2. c \in Clients
  BY <1>1, CallerIs DEF LiveInv
<1>3. Polite(c) => answer[c] = <<>> /\ name[t] = asks[c]
  BY <1>1 DEF LiveInv, InProgress, Progress, ProgressOf
<1>4. c' = c /\ Threads' = Threads /\ manner(c)' = manner(c) /\ asks' = asks
  BY <1>1 DEF vars, init_vars, client_vars, Threads, Workers, caller, manner
<1>5. /\ stage' \in [Threads -> Stages] /\ stage'[t] # "line"
      /\ name' \in [Threads -> Files \cup {NoFile}]
      /\ sent' \in [Clients -> Seq(Lines)]
      /\ \A d \in Clients \ {c} : sent'[d] = sent[d]
      /\ \A u \in Threads \ {t} : stage'[u] = stage[u] /\ name'[u] = name[u]
      /\ Polite(c) => ProgressOf(stage'[t], name'[t], answer[c], asks[c], manner(c))
  <2>0. /\ stage \in [Threads -> Stages] /\ name \in [Threads -> Files \cup {NoFile}]
        /\ {"file", "more", "spin"} \subseteq Stages
    BY DEF WebType, Stages
  <2>1. CASE \/ GetLine(t, "empty") /\ Advance(t, "file") /\ UNCHANGED name
             \/ GetLine(t, "host") /\ Advance(t, "more") /\ UNCHANGED name
    BY <1>2, <1>3, <2>0, <2>1, GetLineIs DEF Advance, ProgressOf
  <2>2. ASSUME AtEof(t) PROVE ~Polite(c)
    BY <1>2, <2>2 DEF AtEof, Gone, Waiting
  <2>3. CASE AtEof(t) /\ Advance(t, "spin") /\ UNCHANGED <<sent, name>>
    BY <2>0, <2>2, <2>3 DEF Advance, WebType
  <2>4. CASE /\ AtEof(t) /\ stage[t] = "headers" /\ Advance(t, "file")
             /\ \E f \in IF name[t] = NoFile THEN Files ELSE {name[t]} :
                  name' = [name EXCEPT ![t] = f]
             /\ UNCHANGED sent
    BY <2>0, <2>2, <2>4 DEF Advance, WebType
  <2> QED BY <2>1, <2>3, <2>4 DEF ReadHeader
<1>6. WebType'
  BY <1>1, <1>4, <1>5 DEF WebType, client_vars
<1>7. Polite(c) => Progress(t)'
  BY <1>1, <1>4, <1>5 DEF Progress
<1> QED BY <1>1, <1>5, <1>6, <1>7, RequestMove

LEMMA WebReadFile ==
  ASSUME SafeInv, HeldInv, WebInv, NEW t \in Threads, ReadFile(t) PROVE WebInv'
<1> USE DEF WebInv
<1> DEFINE c == caller(t)
<1>1. /\ up /\ pc[t] = "serve" /\ stage[t] = "file"
      /\ stage' = [stage EXCEPT ![t] = IF Readable(name[t]) THEN "head" ELSE "error"]
      /\ UNCHANGED <<vars, who, client_vars, wire, name>>
  BY DEF ReadFile, Serving, At, Advance, file_name
<1>2. c \in Clients
  BY <1>1, CallerIs DEF LiveInv
<1>3. c' = c /\ Threads' = Threads /\ manner(c)' = manner(c) /\ asks' = asks
  BY <1>1 DEF vars, init_vars, client_vars, wire, Threads, Workers, caller, manner
<1>4. WebType'
  BY <1>1, <1>3 DEF WebType, client_vars, wire, Stages
<1>5. stage'[t] = IF Readable(name[t]) THEN "head" ELSE "error"
  BY <1>1 DEF WebType
<1>6. Polite(c) => Progress(t)'
  <2>1. Polite(c) => answer[c] = <<>> /\ name[t] = asks[c]
    BY <1>1 DEF LiveInv, InProgress, Progress, ProgressOf
  <2> QED BY <1>1, <1>3, <1>5, <2>1 DEF Progress, ProgressOf, wire
<1>7. \A u \in Threads \ {t} : stage'[u] = stage[u] /\ name'[u] = name[u]
  BY <1>1 DEF WebType
<1> QED BY <1>1, <1>4, <1>5, <1>6, <1>7, RequestMove DEF wire

(* A write of one part of the answer.                                      *)
LEMMA ReplyMove ==
  ASSUME SafeInv, HeldInv, WebInv, up, NEW t \in Threads, pc[t] = "serve",
         NEW part \in Parts, NEW s \in Stages \ {"line"},
         Reply(t, <<part>>, s),
         LET c == caller(t) IN
           Polite(c) => \A a \in Seq(Parts) :
             a = answer[c] \o <<part>> => ProgressOf(s, name[t], a, asks[c], manner(c))
  PROVE  WebInv'
<1> USE DEF WebInv
<1> DEFINE c == caller(t)
<1>1. /\ answer' = [answer EXCEPT ![c] = @ \o <<part>>]
      /\ stage' = [stage EXCEPT ![t] = s]
      /\ UNCHANGED <<vars, who, client_vars, backlog, peer, sent, closed, name>>
  BY DEF Reply, Advance
<1>2. c \in Clients
  BY CallerIs DEF LiveInv
<1>3. c' = c /\ Threads' = Threads /\ manner(c)' = manner(c) /\ asks' = asks
  BY <1>1 DEF vars, init_vars, client_vars, Threads, Workers, caller, manner
<1>4. /\ answer[c] \o <<part>> \in Seq(Parts)
      /\ answer'[c] = answer[c] \o <<part>>
  BY <1>1, <1>2, ConcatProperties DEF WebType
<1>5. WebType'
  BY <1>1, <1>3, <1>4 DEF WebType, client_vars
<1>6. stage'[t] = s /\ name'[t] = name[t]
  BY <1>1 DEF WebType
<1>7. Polite(c) => Progress(t)'
  BY <1>3, <1>4, <1>6 DEF Progress
<1>8. /\ \A u \in Threads \ {t} : stage'[u] = stage[u] /\ name'[u] = name[u]
      /\ \A d \in Clients \ {c} : answer'[d] = answer[d] /\ sent'[d] = sent[d]
  BY <1>1, <1>2 DEF WebType
<1> QED BY <1>1, <1>5, <1>6, <1>7, <1>8, RequestMove

LEMMA WebSend ==
  ASSUME SafeInv, HeldInv, WebInv, NEW t \in Threads,
         SendError(t) \/ SendHead(t) \/ SendBody(t)
  PROVE  WebInv'
<1> USE DEF WebInv
<1> DEFINE c == caller(t)
<1>1. up /\ pc[t] = "serve"
  BY DEF SendError, SendHead, SendBody, Serving, At
<1>2. c \in Clients
  BY <1>1, CallerIs DEF LiveInv
<1>3. /\ asks[c] \in Files \cup {NoFile} /\ name[t] \in Files \cup {NoFile}
      /\ answer[c] \in Seq(Parts)
  BY <1>2 DEF WebType
<1>4. Polite(c) => ProgressOf(stage[t], name[t], answer[c], asks[c], manner(c))
  BY <1>1 DEF LiveInv, InProgress, Progress
<1>5. CASE SendError(t)
  <2> DEFINE part == Part("error", name[t])
  <2>1. stage[t] = "error" /\ Reply(t, <<part>>, "close")
    BY <1>5 DEF SendError, Serving, file_name
  <2>2. part \in Parts /\ part.what = "error"
    BY <1>3, PartTypes DEF Part
  <2> HIDE DEF part
  <2>3. Polite(c) => ProgressOf("close", name[t], answer[c] \o <<part>>, asks[c], manner(c))
    <3> SUFFICES ASSUME Polite(c)
                 PROVE  ProgressOf("close", name[t], answer[c] \o <<part>>, asks[c],
                                   manner(c))
      OBVIOUS
    <3>1. answer[c] = <<>> /\ (manner(c) = "post" \/ ~Readable(asks[c]))
      BY <1>4, <2>1 DEF ProgressOf
    <3>2. <<>> \o <<part>> = <<part>>
      BY <2>2, ConcatEmptySeq
    <3>3. Len(<<part>>) = 1 /\ Head(<<part>>) = part
      OBVIOUS
    <3> QED BY <2>2, <3>1, <3>2, <3>3 DEF ProgressOf, CompleteOf
  <2>4. "close" \in Stages \ {"line"}
    BY DEF Stages
  <2> QED BY <1>1, <2>1, <2>2, <2>3, <2>4, ReplyMove
<1>6. CASE SendHead(t)
  <2> DEFINE part == Part("head", name[t])
             s == IF Kind[name[t]] = "full" THEN "body" ELSE "close"
  <2>1. stage[t] = "head" /\ Reply(t, <<part>>, s)
    BY <1>6 DEF SendHead, Serving, file_name, after_head
  <2>2. part \in Parts
    BY <1>3, PartTypes
  <2>3. s \in Stages \ {"line"}
    BY DEF Stages
  <2>4. Polite(c) => ProgressOf(s, name[t], answer[c] \o <<part>>, asks[c], manner(c))
    <3> SUFFICES ASSUME Polite(c)
                 PROVE  ProgressOf(s, name[t], answer[c] \o <<part>>, asks[c], manner(c))
      OBVIOUS
    <3>1. answer[c] = <<>> /\ name[t] = asks[c] /\ Readable(asks[c])
      BY <1>4, <2>1 DEF ProgressOf
    <3>2. <<>> \o <<part>> = <<part>>
      BY <2>2, ConcatEmptySeq
    <3>3. Kind[asks[c]] # "full" => Whole(asks[c]) = <<part>>
      BY <1>3, <3>1, WholeIs
    <3> QED BY <3>1, <3>2, <3>3 DEF ProgressOf, CompleteOf
  <2> HIDE DEF part, s
  <2> QED BY <1>1, <2>1, <2>2, <2>3, <2>4, ReplyMove
<1>7. CASE SendBody(t)
  <2> DEFINE part == Part("body", name[t])
             first == <<Part("head", name[t])>>
  <2>1. stage[t] = "body" /\ Reply(t, <<part>>, "close")
    BY <1>7 DEF SendBody, Serving, file_name
  <2>2. part \in Parts
    BY <1>3, PartTypes
  <2>3. "close" \in Stages \ {"line"}
    BY DEF Stages
  <2>4. Polite(c) => ProgressOf("close", name[t], answer[c] \o <<part>>, asks[c],
                                manner(c))
    <3> SUFFICES ASSUME Polite(c)
                 PROVE  ProgressOf("close", name[t], answer[c] \o <<part>>, asks[c],
                                   manner(c))
      OBVIOUS
    <3>1. answer[c] = first /\ name[t] = asks[c] /\ Kind[asks[c]] = "full"
      BY <1>4, <2>1 DEF ProgressOf
    <3>2. Whole(asks[c]) = answer[c] \o <<part>>
      BY <3>1 DEF Whole, Body
    <3> QED BY <3>1, <3>2 DEF ProgressOf, CompleteOf, Readable
  <2> HIDE DEF part
  <2> QED BY <1>1, <2>1, <2>2, <2>3, <2>4, ReplyMove
<1> QED BY <1>5, <1>6, <1>7

LEMMA WebClose ==
  ASSUME SafeInv, HeldInv, WebInv, NEW t \in Threads, Close(t) PROVE WebInv'
<1> USE DEF WebInv, LiveInv
<1> DEFINE c == caller(t)
<1>1. /\ up /\ up' = up /\ pc[t] = "serve" /\ stage[t] = "close"
      /\ open' = open \ {connfd[t]} /\ nr_threads' = nr_threads
      /\ connfd' = [connfd EXCEPT ![t] = NoFd]
      /\ pc' = [pc EXCEPT ![t] = IF t = Main THEN "accept" ELSE "lock"]
      /\ closed' = [closed EXCEPT ![c] = TRUE]
      /\ stage' = [stage EXCEPT ![t] = "line"]
      /\ name' = [name EXCEPT ![t] = NoFile]
      /\ UNCHANGED <<who, client, todo, asks, backlog, peer, sent, answer>>
  BY DEF Close, Serving, Serve, At, Goto, Advance, init_vars, client_vars
<1>2. connfd[t] \in open /\ c \in Clients
  BY <1>1, CallerIs
<1>3. /\ \A u \in Threads : pc[u] = "serve" /\ u # t => caller(u) # c
      /\ \A fd \in open : fd # connfd[t] => peer[fd] # c
      /\ \A i \in 1 .. Len(backlog) : backlog[i] # c
  BY <1>1, CallersDiffer
<1>4. /\ pc \in [Threads -> Pc] /\ connfd \in [Threads -> Fds \cup {NoFd}]
      /\ Threads' = Threads
  BY <1>1 DEF SafeInv, TypeOK, Threads, Workers
<1>5. WebType'
  BY <1>1, <1>4 DEF WebType, Stages
<1>6. Waiting' /\ OneConnection'
  BY <1>1 DEF Waiting, OneConnection, Polite, manner
<1>7. AllConnected'
  BY <1>1, <1>3, <1>5 DEF AllConnected, Connected, WebType
<1>8. Unread'
  <2>1. \A d : Fresh(d)' <=> Fresh(d)
    BY <1>1 DEF Fresh, manner
  <2>2. ASSUME NEW fd \in open', Begun(fd) PROVE Begun(fd)'
    BY <1>1, <1>4, <2>2 DEF Begun, WebType
  <2>3. \A u \in Threads : pc'[u] # "serve" => stage'[u] = "line"
    BY <1>1, <1>4 DEF Unread, WebType
  <2>4. \A fd \in open' : Begun(fd)' \/ Fresh(peer[fd])'
    BY <1>1, <2>1, <2>2 DEF Unread, Fresh, manner
  <2>5. \A i \in 1 .. Len(backlog) : Fresh(backlog[i])'
    BY <1>1, <2>1 DEF Unread, Fresh, manner
  <2> QED BY <1>1, <1>4, <2>3, <2>4, <2>5 DEF Unread, Fresh, manner
<1>9. InProgress'
  <2>1. \A u \in Threads : pc'[u] = "serve" => /\ u # t /\ pc[u] = "serve"
                                               /\ caller(u)' = caller(u)
    BY <1>1, <1>4 DEF caller
  <2>2. \A u \in Threads : u # t => stage'[u] = stage[u] /\ name'[u] = name[u]
    BY <1>1 DEF WebType
  <2> QED BY <1>1, <1>4, <2>1, <2>2 DEF InProgress, Progress, Polite, manner
<1>10. Told'
  <2>1. Polite(c) => Complete(c)
    BY <1>1 DEF InProgress, Progress, ProgressOf, Complete
  <2>2. \A d \in Clients : d # c => closed'[d] = closed[d]
    BY <1>1 DEF WebType
  <2>3. \A d \in Clients : client[d] = "wait" /\ closed'[d] => Complete(d)
    <3> SUFFICES ASSUME NEW d \in Clients, client[d] = "wait", closed'[d]
                 PROVE  Complete(d)
      OBVIOUS
    <3>1. CASE d = c
      <4>1. Polite(c)
        BY <1>2, <3>1 DEF Waiting
      <4> QED BY <2>1, <3>1, <4>1
    <3>2. CASE d # c
      BY <1>1, <2>2, <3>2 DEF Told
    <3> QED BY <3>1, <3>2
  <2> QED BY <1>1, <2>3 DEF Told, Complete, manner
<1>11. OwnAnswer' /\ FullAnswer'
  BY <1>1 DEF OwnAnswer, FullAnswer, Polite, manner
<1> QED BY <1>5, <1>6, <1>7, <1>8, <1>9, <1>10, <1>11
-----------------------------------------------------------------------------
(* The clients' steps.                                                     *)
LEMMA TextType ==
  ASSUME NEW m, NEW text \in Text(m),
         m \in Early \cup {"get", "simple", "post"}
  PROVE  text \in Seq(Lines)
<1>1. <<>> \in Seq(Lines) /\ {"GET", "POST", "host", "empty"} \subseteq Lines
  BY EmptySeq DEF Lines
<1>2. \A h, i, j \in Lines :
        <<h>> \in Seq(Lines) /\ <<h, i>> \in Seq(Lines) /\ <<h, i, j>> \in Seq(Lines)
  OBVIOUS
<1>3. CASE m \in {"get", "simple"}
  BY <1>1, <1>2, <1>3 DEF Text
<1>4. CASE m = "post"
  BY <1>1, <1>2, <1>4 DEF Text
<1>5. CASE m = "partial"
  BY <1>1, <1>2, <1>5 DEF Text
<1>6. CASE m = "silent"
  BY <1>1, <1>6 DEF Text
<1> QED BY <1>3, <1>4, <1>5, <1>6 DEF Early

LEMMA WebConnect ==
  ASSUME SafeInv, HeldInv, WebInv, NEW c \in Clients, Connect(c) PROVE WebInv'
<1> USE DEF WebInv, LiveInv
<1>1. /\ up /\ client[c] = "idle" /\ backlog' = Append(backlog, c)
      /\ client' = [client EXCEPT ![c] = IF manner(c) \in Early THEN "gone" ELSE "wait"]
      /\ answer' = [answer EXCEPT ![c] = <<>>]
      /\ closed' = [closed EXCEPT ![c] = FALSE]
      /\ UNCHANGED <<vars, who, todo, peer, serving_vars>>
  BY DEF Connect, Listening
<1>2. PICK f \in who[c].files : asks' = [asks EXCEPT ![c] = f]
  BY DEF Connect
<1>3. PICK text \in Text(manner(c)) : sent' = [sent EXCEPT ![c] = text]
  BY DEF Connect
<1>4. f \in Files /\ text \in Seq(Lines)
  <2>1. /\ who[c].files \in SUBSET Files
        /\ manner(c) \in Early \cup {"get", "simple", "post"}
    BY DEF WebType, manner
  <2> QED BY <2>1, TextType
<1>5. /\ Threads' = Threads /\ pc' = pc /\ connfd' = connfd /\ open' = open
      /\ up' = up /\ \A d : manner(d)' = manner(d)
      /\ stage' = stage /\ name' = name
      /\ \A u \in Threads : caller(u)' = caller(u)
  BY <1>1 DEF vars, init_vars, serving_vars, Threads, Workers, caller, manner
<1>6. /\ Len(backlog') = Len(backlog) + 1 /\ backlog' \in Seq(Clients)
      /\ \A i \in 1 .. Len(backlog) : backlog'[i] = backlog[i]
      /\ backlog'[Len(backlog) + 1] = c /\ Len(backlog) \in Nat
  BY <1>1, AppendProperties, LenProperties DEF WebType
<1>7. \A i \in 1 .. Len(backlog') : i \in 1 .. Len(backlog) \/ i = Len(backlog) + 1
  BY <1>6
<1>8. /\ \A fd \in open : peer[fd] # c
      /\ \A i \in 1 .. Len(backlog) : backlog[i] # c
  BY <1>1 DEF AllConnected, Connected
<1>9. /\ \A d \in Clients \ {c} :
           /\ client'[d] = client[d] /\ answer'[d] = answer[d] /\ sent'[d] = sent[d]
           /\ asks'[d] = asks[d] /\ closed'[d] = closed[d]
      /\ client'[c] = IF manner(c) \in Early THEN "gone" ELSE "wait"
      /\ answer'[c] = <<>> /\ sent'[c] = text /\ closed'[c] = FALSE
  BY <1>1, <1>2, <1>3 DEF WebType
<1>10. WebType'
  <2>1. client' \in [Clients -> {"idle", "wait", "gone", "refused", "assert", "done"}]
    BY <1>1 DEF WebType
  <2>2. asks' \in [Clients -> Files \cup {NoFile}] /\ sent' \in [Clients -> Seq(Lines)]
    BY <1>2, <1>3, <1>4 DEF WebType
  <2>3. answer' \in [Clients -> Seq(Parts)] /\ closed' \in [Clients -> BOOLEAN]
    BY <1>1, EmptySeq DEF WebType
  <2> QED BY <1>1, <1>5, <1>6, <2>1, <2>2, <2>3 DEF WebType, serving_vars
<1>11. Waiting'
  BY <1>1, <1>5, <1>9 DEF Waiting, Polite
<1>12. OneConnection'
  <2>1. \A i, j \in 1 .. Len(backlog') : backlog'[i] = backlog'[j] => i = j
    BY <1>1, <1>6, <1>7, <1>8 DEF OneConnection
  <2>2. \A fd \in open, i \in 1 .. Len(backlog') : peer[fd] # backlog'[i]
    BY <1>1, <1>6, <1>7, <1>8 DEF OneConnection
  <2> QED BY <1>1, <1>5, <2>1, <2>2 DEF OneConnection
<1>13. AllConnected'
  <2>1. \A d \in Clients : Connected(d) => Connected(d)'
    BY <1>1, <1>9 DEF Connected
  <2>2. Connected(c)'
    BY <1>9 DEF Connected
  <2>3. \A fd \in open : peer[fd] \in Clients /\ Connected(peer[fd])
    BY <1>1 DEF AllConnected, Connected
  <2>4. \A i \in 1 .. Len(backlog) : backlog[i] \in Clients /\ Connected(backlog[i])
    BY <1>1 DEF AllConnected, Connected
  <2>5. \A fd \in open : peer'[fd] = peer[fd]
    BY <1>1
  <2>6. \A fd \in open : Connected(peer[fd])'
    BY <1>1, <2>1, <2>3 DEF Connected
  <2>7. \A i \in 1 .. Len(backlog') : Connected(backlog[i])'
    BY <1>6, <1>7, <2>1, <2>2, <2>4 DEF Connected
  <2> QED BY <1>5, <2>6, <2>7 DEF AllConnected, Connected
<1>14. Unread'
  <2>1. \A d \in Clients \ {c} : Fresh(d) => Fresh(d)'
    BY <1>5, <1>9 DEF Fresh
  <2>2. Fresh(c)'
    BY <1>5, <1>9 DEF Fresh
  <2>3. \A fd \in open : Begun(fd) <=> Begun(fd)'
    BY <1>5 DEF Begun
  <2>4. \A fd \in open : Begun(fd)' \/ Fresh(peer[fd])'
    BY <1>1, <1>8, <2>1, <2>3 DEF Unread, AllConnected, Connected, Fresh
  <2>5. \A i \in 1 .. Len(backlog') : Fresh(backlog[i])'
    BY <1>1, <1>5, <1>6, <1>7, <1>8, <2>1, <2>2 DEF Unread, AllConnected, Connected, Fresh
  <2> QED BY <1>1, <1>5, <2>4, <2>5 DEF Unread
<1>15. InProgress'
  <2>1. \A u \in Threads : pc[u] = "serve" => caller(u) \in Clients \ {c}
    BY <1>1, <1>8, CallerIs DEF caller
  <2> QED BY <1>1, <1>5, <1>9, <2>1 DEF InProgress, Progress, Polite
<1>16. Told'
  BY <1>1, <1>5, <1>9 DEF Told, Complete
<1>17. OwnAnswer' /\ FullAnswer'
  BY <1>5, <1>9 DEF OwnAnswer, FullAnswer, Polite
<1> QED BY <1>10, <1>11, <1>12, <1>13, <1>14, <1>15, <1>16, <1>17
(* A client that is not connected, or whose server has ended, goes on.     *)
LEMMA ClientMove ==
  ASSUME WebInv, NEW c \in Clients, NEW s \in {"idle", "refused", "assert", "done"},
         client' = [client EXCEPT ![c] = s],
         UNCHANGED <<vars, who, asks, wire, serving_vars>>,
         up => client[c] = "idle" \/ closed[c],
         s = "assert" => ~up \/ ~Readable(asks[c])
  PROVE  WebInv'
<1> USE DEF WebInv, LiveInv
<1>1. /\ Threads' = Threads /\ pc' = pc /\ connfd' = connfd /\ open' = open
      /\ up' = up /\ who' = who /\ asks' = asks /\ backlog' = backlog /\ peer' = peer
      /\ sent' = sent /\ answer' = answer /\ closed' = closed
      /\ stage' = stage /\ name' = name
  BY DEF vars, init_vars, wire, serving_vars, Threads, Workers
<1>2. /\ \A d \in Clients \ {c} : client'[d] = client[d]
      /\ client'[c] = s
  BY DEF WebType
<1>3. WebType'
  BY <1>1 DEF WebType
<1>4. Waiting'
  BY <1>1, <1>2 DEF Waiting, Polite, manner
<1>5. ASSUME up PROVE LiveInv'
  <2>1. OneConnection' /\ Unread' /\ InProgress'
    BY <1>1, <1>5 DEF OneConnection, Unread, Begun, Fresh, InProgress, Progress,
      Polite, caller, manner
  <2>2. AllConnected'
    <3>1. ~Connected(c)
      BY <1>5 DEF Connected
    <3>2. \A d : Connected(d) => d # c /\ Connected(d)'
      BY <1>1, <1>2, <3>1 DEF Connected
    <3> QED BY <1>1, <1>5, <3>2 DEF AllConnected, Connected
  <2>3. Told'
    BY <1>1, <1>2, <1>5 DEF Told, Complete, manner
  <2> QED BY <2>1, <2>2, <2>3
<1>6. OwnAnswer' /\ FullAnswer'
  BY <1>1, <1>2 DEF OwnAnswer, FullAnswer, Polite, manner
<1> QED BY <1>1, <1>3, <1>4, <1>5, <1>6

LEMMA WebClient ==
  ASSUME SafeInv, HeldInv, WebInv, NEW c \in Clients, ClientStep(c) PROVE WebInv'
<1>1. CASE Connect(c)
  BY <1>1, WebConnect
<1>2. CASE Refused(c)
  BY <1>2, ClientMove DEF Refused
<1>3. CASE Finish(c)
  <2> DEFINE s == IF ~Satisfied(c) THEN "assert"
                  ELSE IF todo[c] > 1 THEN "idle" ELSE "done"
  <2>1. /\ client[c] = "wait" /\ (closed[c] \/ ~up)
        /\ client' = [client EXCEPT ![c] = s]
        /\ UNCHANGED <<vars, who, asks, wire, serving_vars>>
    BY <1>3 DEF Finish
  <2>2. ASSUME up, Readable(asks[c]) PROVE Satisfied(c)
    <3>1. Complete(c) /\ asks[c] \in Files \cup {NoFile}
      BY <2>1, <2>2 DEF WebInv, LiveInv, Told, WebType
    <3>2. manner(c) # "post" => answer[c] = Whole(asks[c])
      BY <2>2, <3>1 DEF Complete, CompleteOf
    <3>3. manner(c) = "simple" => same_length(c)
      <4> SUFFICES ASSUME manner(c) = "simple", NEW f \in Files, Kind[f] = "full",
                          answer[c] = <<Part("head", f)>>
                   PROVE  FALSE
        BY DEF same_length
      <4>1. Whole(asks[c]) = <<Part("head", f)>> /\ Len(<<Part("head", f)>>) = 1
        BY <3>2
      <4>2. CASE Kind[asks[c]] = "full"
        <5>1. Whole(asks[c]) = <<Part("head", asks[c]), Part("body", asks[c])>>
          BY <3>1, <4>2, WholeIs
        <5> QED BY <4>1, <5>1
      <4>3. CASE Kind[asks[c]] # "full"
        <5>1. Whole(asks[c]) = <<Part("head", asks[c])>>
          BY <3>1, <4>3, WholeIs
        <5>2. Part("head", asks[c]) = Part("head", f)
          BY <4>1, <5>1
        <5>3. asks[c] = f
          BY <5>2 DEF Part
        <5> QED BY <4>3, <5>3
      <4> QED BY <4>2, <4>3
    <3> QED BY <3>2, <3>3 DEF Satisfied, same_file
  <2>3. s \in {"idle", "refused", "assert", "done"} /\ (s = "assert" => ~Satisfied(c))
    OBVIOUS
  <2> HIDE DEF s
  <2> QED BY <2>1, <2>2, <2>3, ClientMove
<1> QED BY <1>1, <1>2, <1>3 DEF ClientStep

-----------------------------------------------------------------------------
(* The pool's steps, and the end of the server.                            *)
LEMMA PoolKeeps ==
  ASSUME SafeInv, HeldInv, MainStep \/ \E w \in Workers : WorkerStep(w)
  PROVE  /\ up /\ up' = up /\ open' = open /\ Threads' = Threads
         /\ \A t \in Threads : pc[t] = "serve" => /\ pc'[t] = "serve"
                                                  /\ connfd'[t] = connfd[t]
         /\ \A t \in Threads : pc'[t] = "serve" => connfd'[t] = connfd[t]
<1>1. pc \in [Threads -> Pc] /\ connfd \in [Threads -> Fds \cup {NoFd}]
  BY DEF SafeInv, TypeOK
<1>2. ASSUME NEW t \in Threads, Sync(t)
      PROVE  /\ up /\ UNCHANGED <<up, open, nr_threads, connfd>> /\ pc[t] # "serve"
             /\ \E s : pc' = [pc EXCEPT ![t] = s]
  BY <1>2 DEF Sync, Lock, Wake, Unlock, At, Goto, init_vars
<1>3. CASE CreateWorker
  <2>1. created + 1 \in Threads /\ pc[created + 1] = "none"
    BY <1>3 DEF CreateWorker, At, SafeInv, TypeOK, PlacesOK, Threads, Workers
  <2>2. pc' = pc \/ pc' = [pc EXCEPT ![created + 1] = "lock"]
    BY <1>3 DEF CreateWorker, Goto
  <2>3. up /\ UNCHANGED <<up, open, nr_threads, connfd>>
    BY <1>3 DEF CreateWorker, At, init_vars
  <2> QED BY <1>1, <2>1, <2>2, <2>3 DEF Threads, Workers
<1>4. CASE InitDone
  BY <1>1, <1>4 DEF InitDone, At, Goto, init_vars, Threads, Workers
<1>5. CASE TestFull
  BY <1>1, <1>5 DEF TestFull, At, Goto, init_vars, Threads, Workers
<1>6. CASE Put
  BY <1>1, <1>6 DEF Put, At, Goto, init_vars, Threads, Workers
<1>7. ASSUME NEW t \in Threads, Sync(t) PROVE Threads' = Threads
  BY <1>2, <1>7 DEF Threads, Workers
<1>8. CASE \E t \in Threads : Sync(t)
  BY <1>1, <1>2, <1>7, <1>8
<1>9. ASSUME NEW w \in Workers, TestEmpty(w) \/ Take(w)
      PROVE  /\ up /\ UNCHANGED <<up, open, nr_threads>> /\ pc[w] # "serve"
             /\ connfd' = connfd \/ connfd' = [connfd EXCEPT ![w] = oldest]
             /\ \E s \in {"wait", "take", "unlock"} : pc' = [pc EXCEPT ![w] = s]
  BY <1>9 DEF TestEmpty, Take, At, Goto, init_vars
<1>10. CASE \E w \in Workers : TestEmpty(w) \/ Take(w)
  BY <1>1, <1>9, <1>10 DEF Threads, Workers
<1> QED BY <1>3, <1>4, <1>5, <1>6, <1>8, <1>10 DEF MainStep, WorkerStep, Threads

LEMMA WebPool == ASSUME SafeInv, HeldInv, WebInv, Pool PROVE WebInv'
<1> USE DEF WebInv, LiveInv
<1>1. /\ up /\ up' = up /\ open' = open /\ Threads' = Threads
      /\ \A t \in Threads : pc[t] = "serve" => /\ pc'[t] = "serve"
                                               /\ connfd'[t] = connfd[t]
      /\ \A t \in Threads : pc'[t] = "serve" => connfd'[t] = connfd[t]
  BY PoolKeeps DEF Pool
<1>2. /\ who' = who /\ client' = client /\ asks' = asks /\ backlog' = backlog
      /\ peer' = peer /\ sent' = sent /\ answer' = answer /\ closed' = closed
      /\ stage' = stage /\ name' = name
  BY DEF Pool, Aside, client_vars, wire, serving_vars
<1>3. WebType'
  BY <1>1, <1>2 DEF WebType
<1>4. Waiting' /\ OneConnection' /\ AllConnected' /\ Told'
  BY <1>1, <1>2 DEF Waiting, OneConnection, AllConnected, Connected, Told, Complete,
    Polite, manner
<1>5. Unread'
  <2>1. ASSUME NEW fd \in open PROVE Begun(fd)' \/ Fresh(peer[fd])'
    <3>1. Begun(fd) => Begun(fd)'
      BY <1>1, <1>2 DEF Begun
    <3>2. Fresh(peer[fd]) => Fresh(peer[fd])'
      BY <1>2 DEF Fresh, manner
    <3> QED BY <1>1, <3>1, <3>2 DEF Unread
  <2>2. \A i \in 1 .. Len(backlog) : Fresh(backlog[i])'
    BY <1>1, <1>2 DEF Unread, Fresh, manner
  <2>3. \A t \in Threads : pc'[t] # "serve" => stage[t] = "line"
    BY <1>1 DEF Unread
  <2> QED BY <1>1, <1>2, <2>1, <2>2, <2>3 DEF Unread
<1>6. InProgress'
  <2> SUFFICES ASSUME NEW t \in Threads, pc'[t] = "serve", Polite(caller(t))'
               PROVE  Progress(t)'
    BY <1>1 DEF InProgress
  <2>1. caller(t)' = caller(t) /\ Polite(caller(t))
    BY <1>1, <1>2 DEF caller, Polite, manner
  <2>2. CASE pc[t] = "serve"
    <3>1. Progress(t)
      BY <1>1, <2>1, <2>2 DEF InProgress
    <3> QED BY <1>2, <2>1, <3>1 DEF Progress, manner
  <2>3. CASE pc[t] # "serve"
    <3>1. stage'[t] = "line"
      BY <1>1, <1>2, <2>3 DEF Unread
    <3> QED BY <3>1 DEF Progress, ProgressOf
  <2> QED BY <2>2, <2>3
<1>7. OwnAnswer' /\ FullAnswer'
  BY <1>1, <1>2 DEF OwnAnswer, FullAnswer, Polite, manner
<1> QED BY <1>3, <1>4, <1>5, <1>6, <1>7

LEMMA WebAccept == ASSUME SafeInv, HeldInv, WebInv, AcceptClient PROVE WebInv'
<1> USE DEF WebInv, LiveInv
<1>1. /\ up /\ up' = up /\ pc[Main] = "accept" /\ Main \in Threads
      /\ pc' = [pc EXCEPT ![Main] = IF nr_threads = 0 THEN "serve" ELSE "lock"]
      /\ nr_threads' = nr_threads
      /\ backlog # <<>> /\ backlog' = Tail(backlog)
      /\ UNCHANGED <<who, client_vars, sent, answer, closed, serving_vars>>
  BY DEF AcceptClient, Accept, At, Goto, Threads, init_vars
<1>2. PICK fd \in Fds \ open : /\ open' = open \cup {fd}
                               /\ connfd' = [connfd EXCEPT ![Main] = fd]
  BY DEF AcceptClient, Accept
<1>3. /\ pc \in [Threads -> Pc] /\ connfd \in [Threads -> Fds \cup {NoFd}]
      /\ connfd'[Main] = fd /\ Threads' = Threads /\ open \subseteq Fds
  BY <1>1, <1>2 DEF SafeInv, TypeOK, Threads, Workers
<1>4. peer' = [peer EXCEPT ![fd] = Head(backlog)]
  BY <1>3 DEF AcceptClient
<1>5. /\ Len(backlog) \in Nat \ {0} /\ Head(backlog) = backlog[1]
      /\ Tail(backlog) \in Seq(Clients) /\ Len(backlog') = Len(backlog) - 1
      /\ \A i \in 1 .. Len(backlog) - 1 : backlog'[i] = backlog[i + 1]
  BY <1>1, HeadTailProperties, EmptySeq DEF WebType
<1>6. /\ 1 \in 1 .. Len(backlog)
      /\ \A i \in 1 .. Len(backlog) - 1 : i + 1 \in 1 .. Len(backlog) /\ i + 1 # 1
  BY <1>5
<1>7. /\ peer'[fd] = backlog[1] /\ backlog[1] \in Clients
      /\ \A gd \in open : peer'[gd] = peer[gd]
  BY <1>1, <1>2, <1>3, <1>4, <1>5, <1>6 DEF WebType, AllConnected, Connected
<1>8. /\ who' = who /\ client' = client /\ asks' = asks /\ sent' = sent
      /\ answer' = answer /\ closed' = closed /\ stage' = stage /\ name' = name
  BY <1>1 DEF client_vars, serving_vars
<1>9. WebType'
  <2>1. peer' \in [Fds -> Clients \cup {0}]
    BY <1>4, <1>5, <1>7 DEF WebType
  <2> QED BY <1>1, <1>3, <1>5, <1>8, <2>1 DEF WebType
<1>10. Waiting' /\ Told' /\ OwnAnswer' /\ FullAnswer'
  BY <1>1, <1>8 DEF Waiting, Told, Complete, OwnAnswer, FullAnswer, Polite, manner
<1>11. OneConnection'
  <2>1. \A i, j \in 1 .. Len(backlog) - 1 : backlog'[i] = backlog'[j] => i = j
    BY <1>1, <1>5, <1>6 DEF OneConnection
  <2>2. \A gd, hd \in open' : peer'[gd] = peer'[hd] => gd = hd
    BY <1>1, <1>2, <1>6, <1>7 DEF OneConnection
  <2>3. \A gd \in open', i \in 1 .. Len(backlog) - 1 : peer'[gd] # backlog'[i]
    <3> SUFFICES ASSUME NEW gd \in open', NEW i \in 1 .. Len(backlog) - 1
                 PROVE  peer'[gd] # backlog[i + 1]
      BY <1>5
    <3>1. CASE gd = fd
      BY <1>1, <1>6, <1>7, <3>1 DEF OneConnection
    <3>2. CASE gd \in open
      BY <1>1, <1>6, <1>7, <3>2 DEF OneConnection
    <3> QED BY <1>2, <3>1, <3>2
  <2> QED BY <1>5, <2>1, <2>2, <2>3 DEF OneConnection
<1>12. AllConnected'
  <2>1. \A c : Connected(c)' <=> Connected(c)
    BY <1>8 DEF Connected
  <2>2. \A gd \in open' : Connected(peer'[gd])
    BY <1>1, <1>2, <1>6, <1>7 DEF AllConnected
  <2>3. \A i \in 1 .. Len(backlog) - 1 : Connected(backlog'[i])
    BY <1>1, <1>5, <1>6 DEF AllConnected
  <2> QED BY <1>5, <1>8, <2>2, <2>3 DEF AllConnected, Connected
<1>13. Unread'
  <2>1. \A c : Fresh(c)' <=> Fresh(c)
    BY <1>8 DEF Fresh, manner
  <2>2. Fresh(backlog[1])
    BY <1>1, <1>6 DEF Unread
  <2>3. ASSUME NEW gd \in open, Begun(gd) PROVE Begun(gd)'
    BY <1>1, <1>2, <1>3, <1>8, <2>3 DEF Begun
  <2>4. \A gd \in open' : Begun(gd)' \/ Fresh(peer'[gd])
    BY <1>1, <1>2, <1>7, <2>2, <2>3 DEF Unread
  <2>5. \A i \in 1 .. Len(backlog) - 1 : Fresh(backlog'[i])
    BY <1>1, <1>5, <1>6 DEF Unread
  <2>6. \A t \in Threads : pc'[t] # "serve" => stage[t] = "line"
    BY <1>1, <1>3 DEF Unread
  <2> QED BY <1>3, <1>5, <1>8, <2>4, <2>5, <2>6 DEF Unread, Fresh, manner
<1>14. InProgress'
  <2> SUFFICES ASSUME NEW t \in Threads, pc'[t] = "serve", Polite(caller(t))'
               PROVE  Progress(t)'
    BY <1>3 DEF InProgress
  <2>1. CASE t = Main
    <3>1. stage'[t] = "line"
      BY <1>1, <1>8, <2>1 DEF Unread
    <3> QED BY <3>1 DEF Progress, ProgressOf
  <2>2. CASE t # Main
    <3>1. pc[t] = "serve" /\ connfd'[t] = connfd[t]
      BY <1>1, <1>2, <1>3, <2>2
    <3>2. connfd[t] \in open
      BY <1>1, <3>1, CallerIs
    <3>3. caller(t)' = caller(t)
      BY <1>7, <3>1, <3>2 DEF caller
    <3>4. Progress(t)
      BY <1>1, <1>8, <3>1, <3>3 DEF InProgress, Polite, manner
    <3> QED BY <1>8, <3>3, <3>4 DEF Progress, manner
  <2> QED BY <2>1, <2>2
<1> QED BY <1>9, <1>10, <1>11, <1>12, <1>13, <1>14

LEMMA WebStill ==
  ASSUME WebInv, up' = up \/ up' = FALSE,
         UNCHANGED <<init_vars, pc, connfd, open, who, client_vars, wire, serving_vars>>
  PROVE  WebInv'
<1> USE DEF WebInv, LiveInv
<1>1. /\ Threads' = Threads /\ pc' = pc /\ connfd' = connfd /\ open' = open
      /\ who' = who /\ client' = client /\ asks' = asks /\ backlog' = backlog
      /\ peer' = peer /\ sent' = sent /\ answer' = answer /\ closed' = closed
      /\ stage' = stage /\ name' = name
  BY DEF init_vars, client_vars, wire, serving_vars, Threads, Workers
<1>2. WebType' /\ Waiting'
  BY <1>1 DEF WebType, Waiting, Polite, manner
<1>3. ASSUME up PROVE LiveInv'
  BY <1>1, <1>3 DEF OneConnection, AllConnected, Connected, Unread, Begun, Fresh,
    InProgress, Progress, Told, Complete, Polite, caller, manner
<1>4. OwnAnswer' /\ FullAnswer'
  BY <1>1 DEF OwnAnswer, FullAnswer, Polite, manner
<1> QED BY <1>2, <1>3, <1>4

LEMMA WebStep ==
  ASSUME SafeInv, HeldInv, WebInv, [WebNext]_web_vars PROVE WebInv'
<1>1. CASE UNCHANGED web_vars
  BY <1>1, WebStill DEF web_vars, vars
<1>2. CASE \E c \in Clients : ClientStep(c)
  BY <1>2, WebClient
<1>3. CASE Pool
  BY <1>3, WebPool
<1>4. CASE AcceptClient
  BY <1>4, WebAccept
<1>5. ASSUME NEW t \in Threads, Request(t) PROVE WebInv'
  BY <1>5, WebReadRequest, WebReadHeader, WebReadFile, WebSend, WebClose DEF Request
<1>6. ASSUME NEW t \in Threads, BrokenPipe(t) PROVE WebInv'
  BY <1>6, WebStill DEF BrokenPipe
<1>7. ASSUME NEW t \in Threads, Spin(t) PROVE WebInv'
  BY <1>7, WebStill DEF Spin, web_vars, vars
<1> QED BY <1>1, <1>2, <1>3, <1>4, <1>5, <1>6, <1>7 DEF WebNext

LEMMA WebAlways == ASSUME Fatal PROVE WebSpec => []WebInv
<1>1. WebInit => WebInv
  BY WebInitially
<1>2. SafeInv /\ HeldInv /\ WebInv /\ [WebNext]_web_vars => WebInv'
  BY WebStep
<1> QED BY <1>1, <1>2, WebSafeAlways, PTL DEF WebSpec

(* do_server_request: what a client reads is a prefix of the one answer to *)
(* its own request, however many threads read, look up and write at once,  *)
(* whoever had the descriptor before, and whatever other clients do.       *)
THEOREM OwnAnswerHolds == ASSUME Fatal PROVE WebSpec => []OwnAnswer
<1>1. WebInv => OwnAnswer
  BY DEF WebInv
<1> QED BY <1>1, WebAlways, PTL

(* client_print: the assertions of client.c and client_simple.c hold for   *)
(* every file the server can read, as long as the server has not ended.    *)
THEOREM FullAnswerHolds == ASSUME Fatal PROVE WebSpec => []FullAnswer
<1>1. WebInv => FullAnswer
  BY DEF WebInv
<1> QED BY <1>1, WebAlways, PTL
=============================================================================
