---------------------------- MODULE RequestHandler ----------------------------
(***************************************************************************)
(* One connection as its client sees it: requestData::handleRequest() with *)
(* readn(), the parsers, analysisRequest() and reset(), run by whichever   *)
(* worker the pool picks each time epoll reports the socket.  Registration,*)
(* timers and ownership of the request are in Reactor; here the socket is  *)
(* either armed or closed.                                                 *)
(*                                                                         *)
(* A call of handleRequest() is one step: it reads what has arrived, and   *)
(* what arrives meanwhile is as good as sent after it, because epoll_mod   *)
(* looks at the socket again.  errno is per thread, and survives from one  *)
(* call to the next, whatever connection the thread works for in between.  *)
(*                                                                         *)
(* The client sends its requests one at a time, each with one of Lines, at *)
(* least one well-formed header and, for POST, a Content-length that is a  *)
(* number, and waits for the answer; the network cuts them.  What stoi()   *)
(* makes of other values, which a cut may bring about (`whole` is FALSE    *)
(* then), is left open: no run gets there, and no theorem is about it.     *)
(***************************************************************************)
EXTENDS RequestParser

CONSTANTS
    Workers,
    Requests,           \* requests: records of line, length of body, keep_alive
    Decimal,            \* the numeral of each length, a function
    Payload,            \* what bodies are made of; one of length n is its first n characters
    MaxRequests,        \* bound: requests on the connection
    AnyCut,             \* the network cuts a request anywhere, or only where MayCut says
    FirstErrno,         \* errno of the worker threads when the connection is opened
    MAX_BUFF,           \* characters that one call reads
    MAX_READ_TIMES,
    Faults              \* what may go wrong: subset of {"read", "analysis", "reclaim"}

ASSUME HandlerAssumption ==
    /\ \A r \in Requests :
          r.line \in DOMAIN Lines /\ r.length \in 0 .. Len(Payload) \cap DOMAIN Decimal /\ r.keep_alive \in BOOLEAN
    /\ DOMAIN Lines \subseteq STRING \ {CR}
    /\ \A word \in DOMAIN Lines : Lines[word].size \in Nat
    /\ Payload \in Seq(STRING)
    /\ \A m, n \in DOMAIN Decimal : Decimal[m] \in STRING /\ (Decimal[m] = Decimal[n] => m = n)
    /\ MaxRequests \in Nat \ {0} /\ AnyCut \in BOOLEAN
    /\ FirstErrno \in {"0", "EAGAIN", "other"}
    /\ MAX_BUFF \in Nat \ {0} /\ MAX_READ_TIMES \in Nat

VARIABLES
    asked,      \* requests the client has made
    wire,       \* characters of the last one that have not arrived
    whole,      \* so far the network has cut no request where MayCut says that it does harm
    socket,     \* characters in the socket's receive buffer
    eof,        \* the client has closed its end
    open,       \* the server has not closed its end
    req,        \* fields of the requestData
    answers,    \* what the server has answered
    errno

(* What requests consist of. *)
Char ==
    {CR, LF, Colon, Space, "Content-length", "Connection", "keep-alive", "Host", "server"}
    \cup DOMAIN Lines \cup {Decimal[n] : n \in DOMAIN Decimal} \cup ToSet(Payload)

client == <<asked, wire, whole>>
vars == <<client, socket, eof, open, req, answers, errno>>

TypeOK ==
    /\ asked \in Seq(Requests) /\ Len(asked) <= MaxRequests
    /\ wire \in Seq(Char) /\ socket \in Seq(Char) /\ whole \in BOOLEAN
    /\ eof \in BOOLEAN /\ open \in BOOLEAN
    /\ req.content \in Seq(Char)
    /\ req.state \in {"STATE_PARSE_URI", "STATE_PARSE_HEADERS", "STATE_RECV_BODY"}
    /\ req.h_state \in {"h_start", "h_key", "h_colon", "h_spaces_after_colon", "h_value",
                        "h_CR", "h_LF", "h_end_CR", "h_end_LF"}
    /\ req.readTimes \in 0 .. MAX_READ_TIMES + 1
    /\ Len(answers) <= Len(asked)
    /\ errno \in [Workers -> {"0", "EAGAIN", "other"}]

Init ==
    /\ asked = <<>> /\ wire = <<>> /\ whole = TRUE /\ socket = <<>>
    /\ eof = FALSE /\ open = TRUE
    /\ req = NewRequest
    /\ answers = <<>>
    /\ errno = [w \in Workers |-> FirstErrno]

------------------------------------------------------------------------------
(* The client and the network *)

Method(r) == Lines[r.line].method

BodyOf(r) == SubSeq(Payload, 1, r.length)

HeadOf(r) ==
    <<r.line, CR, LF>>
    \o (IF Method(r) = "POST" THEN <<"Content-length", Colon, Space, Decimal[r.length], CR, LF>> ELSE <<>>)
    \o (IF r.keep_alive THEN <<"Connection", Colon, Space, "keep-alive">> ELSE <<"Host", Colon, Space, "server">>)
    \o <<CR, LF, CR, LF>>

Ask(r) ==
    /\ open /\ ~eof
    /\ Len(asked) = Len(answers) /\ Len(asked) < MaxRequests
    /\ asked' = Append(asked, r)
    /\ wire' = HeadOf(r) \o BodyOf(r)
    /\ UNCHANGED <<whole, socket, eof, open, req, answers, errno>>

(* A cut after n characters of request r does no harm before the first     *)
(* header, or after the first character of the body.  One among the        *)
(* headers does, because parse_request_head() forgets its place; and one   *)
(* exactly between the head and a body, because the end of the head is     *)
(* then taken for the beginning of the body.                               *)
MayCut(r, n) ==
    \/ n <= Len(<<r.line, CR, LF>>)
    \/ n > Len(HeadOf(r)) \/ n = Len(HeadOf(r)) + r.length

(* The next n characters arrive. *)
Deliver(n) ==
    /\ open /\ ~eof
    /\ LET r == Last(asked)
           harmless == MayCut(r, Len(HeadOf(r)) + r.length - Len(wire) + n)
       IN  (AnyCut \/ harmless) /\ whole' = (whole /\ harmless)
    /\ socket' = socket \o SubSeq(wire, 1, n)
    /\ wire' = SubSeq(wire, n + 1, Len(wire))
    /\ UNCHANGED <<asked, eof, open, req, answers, errno>>

Hangup ==
    /\ open /\ ~eof
    /\ eof' = TRUE
    /\ UNCHANGED <<client, socket, open, req, answers, errno>>

------------------------------------------------------------------------------
(* handleRequest(), step by step, as functions of the request's fields *)

(* The end of a call that has found no error. *)
InState(q, state) == q.flag = "ok" /\ q.state = state

ParseLine(q) == IF InState(q, "STATE_PARSE_URI") THEN parse_request_line(q) ELSE q

ParseHead(q) ==
    IF ~InState(q, "STATE_PARSE_HEADERS") THEN q
    ELSE LET p == parse_request_head(q)
         IN  IF p.flag # "ok" THEN p
             ELSE [p EXCEPT !.state = IF p.method = "POST" THEN "STATE_RECV_BODY" ELSE "STATE_ANALYSIS"]

ContentLength == <<"Content-length">>
Connection == <<"Connection">>

stoi(str) == CHOOSE n \in DOMAIN Decimal : <<Decimal[n]>> = str

RecvBody_offByOne(q) ==
    IF ~InState(q, "STATE_RECV_BODY") THEN q
    ELSE IF ContentLength \notin DOMAIN q.headers THEN [q EXCEPT !.flag = "error"]
    ELSE IF Len(q.content) <= stoi(q.headers[ContentLength]) THEN [q EXCEPT !.flag = "again"]
    ELSE [q EXCEPT !.state = "STATE_ANALYSIS"]

RecvBody(q) ==
    IF ~InState(q, "STATE_RECV_BODY") THEN q
    ELSE IF ContentLength \notin DOMAIN q.headers THEN [q EXCEPT !.flag = "error"]
    ELSE IF Len(q.content) < stoi(q.headers[ContentLength]) THEN [q EXCEPT !.flag = "again"]
    ELSE [q EXCEPT !.state = "STATE_ANALYSIS"]

(* readn() stops at MAX_BUFF characters, at the end of the stream (read()  *)
(* returns 0 and leaves errno alone), or when nothing is left (EAGAIN).    *)
Reads == IF Len(socket) < MAX_BUFF THEN Len(socket) ELSE MAX_BUFF

(* What a call makes of the request, as a set of one element. *)
Received ==
    {RecvBody(q) : q \in
        {ParseHead(p) : p \in
            {ParseLine([req EXCEPT !.content = @ \o SubSeq(socket, 1, Reads), !.flag = "ok"])}}}

(* analysisRequest(): what it answers is a matter of the method, and, for  *)
(* POST, of the content it has been given, for GET, of the file's name.    *)
AnswerTo(q) ==
    [method     |-> q.method,
     file       |-> IF q.method = "POST" THEN NoName ELSE q.file_name,
     content    |-> IF q.method = "POST" THEN q.content ELSE <<>>,
     keep_alive |-> q.keep_alive \/ (Connection \in DOMAIN q.headers
                                       /\ q.headers[Connection] = <<"keep-alive">>)]

(* stat("") always fails. *)
NoFile(q) == q.method # "POST" /\ q.file_name = NoName

reset_keepsHeadState(q) == [NewRequest EXCEPT !.method = q.method, !.h_state = q.h_state]

reset_keepsHeaders(q) == [NewRequest EXCEPT !.method = q.method, !.headers = q.headers]

reset(q) == [NewRequest EXCEPT !.method = q.method]

------------------------------------------------------------------------------
(* handleRequest(), run by worker w *)

Readn(w) ==
    /\ open /\ socket # <<>>
    /\ socket' = SubSeq(socket, Reads + 1, Len(socket))
    /\ errno' = IF Reads < MAX_BUFF /\ ~eof THEN [errno EXCEPT ![w] = "EAGAIN"] ELSE errno
    /\ UNCHANGED <<client, eof>>

(* Not all of the request has arrived: timer and epoll_mod. *)
HandlePart(w) ==
    /\ Readn(w)
    /\ \E q \in Received : q.flag = "again" /\ req' = q
    /\ UNCHANGED <<open, answers>>

(* A parser reports an error, or the length is missing: `delete this`. *)
HandleError(w) ==
    /\ Readn(w)
    /\ \E q \in Received : q.flag = "error"
    /\ open' = FALSE
    /\ UNCHANGED <<req, answers>>

HandleAnswer(w) ==
    /\ Readn(w)
    /\ \E q \in Received :
          /\ InState(q, "STATE_ANALYSIS") /\ ~NoFile(q)
          /\ answers' = Append(answers, AnswerTo(q))
          /\ IF AnswerTo(q).keep_alive
             THEN req' = reset(q) /\ UNCHANGED open
             ELSE open' = FALSE /\ UNCHANGED req

(* The URL has given no name to the file, there is no such file, or a      *)
(* write fails.                                                            *)
AnalysisFails(w) ==
    /\ Readn(w)
    /\ \E q \in Received : InState(q, "STATE_ANALYSIS") /\ (NoFile(q) \/ "analysis" \in Faults)
    /\ open' = FALSE
    /\ UNCHANGED <<req, answers>>

ReadFails(w) ==
    /\ "read" \in Faults
    /\ open /\ (socket # <<>> \/ eof)
    /\ open' = FALSE
    /\ errno' = [errno EXCEPT ![w] = "other"]
    /\ UNCHANGED <<client, socket, eof, req, answers>>

HandleNothing_noLimit(w) ==
    /\ open /\ socket = <<>> /\ eof
    /\ CASE errno[w] = "EAGAIN" -> req' = [req EXCEPT !.readTimes = @ + 1] /\ UNCHANGED open
         [] errno[w] = "other"  -> open' = FALSE /\ UNCHANGED req
         [] errno[w] = "0"      -> UNCHANGED <<open, req>>
    /\ UNCHANGED <<client, socket, eof, answers, errno>>

HandleNothing_uncounted(w) ==
    /\ open /\ socket = <<>> /\ eof
    /\ CASE errno[w] = "EAGAIN" /\ req.readTimes > MAX_READ_TIMES -> open' = FALSE /\ UNCHANGED req
         [] errno[w] = "other" -> open' = FALSE /\ UNCHANGED req
         [] OTHER -> UNCHANGED <<open, req>>
    /\ UNCHANGED <<client, socket, eof, answers, errno>>

(* The socket is reported, but there is nothing to read: the client has    *)
(* closed its end.  errno is what an earlier call of this thread left.     *)
HandleNothing(w) ==
    /\ open /\ socket = <<>> /\ eof
    /\ CASE errno[w] = "EAGAIN" /\ req.readTimes > MAX_READ_TIMES -> open' = FALSE /\ UNCHANGED req
         [] errno[w] = "EAGAIN" /\ req.readTimes <= MAX_READ_TIMES ->
               req' = [req EXCEPT !.readTimes = @ + 1] /\ UNCHANGED open
         [] errno[w] = "other" -> open' = FALSE /\ UNCHANGED req
         [] errno[w] = "0" -> UNCHANGED <<open, req>>
    /\ UNCHANGED <<client, socket, eof, answers, errno>>

(* w works for another connection. *)
OtherWork(w) ==
    /\ \E e \in {"EAGAIN", "other"} : errno' = [errno EXCEPT ![w] = e]
    /\ UNCHANGED <<client, socket, eof, open, req, answers>>

(* The main thread deletes the request: its timer has expired, or epoll    *)
(* has reported an error.                                                  *)
Reclaim ==
    /\ "reclaim" \in Faults
    /\ open /\ open' = FALSE
    /\ UNCHANGED <<client, socket, eof, req, answers, errno>>

------------------------------------------------------------------------------
ClientStep == Hangup \/ \E r \in Requests : Ask(r)
NetworkStep == \E n \in 1 .. Len(wire) : Deliver(n)
Handle(w) == HandlePart(w) \/ HandleError(w) \/ HandleAnswer(w) \/ AnalysisFails(w) \/ HandleNothing(w)
handleRequest(w) == Handle(w) \/ ReadFails(w)

Next ==
    \/ ClientStep \/ NetworkStep \/ Reclaim
    \/ \E w \in Workers : handleRequest(w) \/ OtherWork(w)

Spec == Init /\ [][Next]_vars

(* What is sent arrives unless the client gives up, and a socket with      *)
(* something to report gets a worker (EventReachesWorker in Reactor).      *)
(* Nothing has to fail.                                                    *)
FairSpec == Spec /\ WF_vars(NetworkStep) /\ WF_vars(\E w \in Workers : Handle(w))

------------------------------------------------------------------------------
(* Properties.  An operator X_y above is X with the mistake y; it is no    *)
(* part of the specification and shows what the properties can detect.     *)

(* What the theorems suppose of the requests: a head fits into one read(), *)
(* and POST, and no other request, has a body.                             *)
Orderly ==
    \A r \in Requests : Len(HeadOf(r)) < MAX_BUFF /\ (Method(r) = "POST" <=> r.length > 0)

(* Until the network has cut a request among its headers, or exactly       *)
(* between its head and its body, the answers are those to the requests,   *)
(* in their order, with the file that was asked for, the whole body and    *)
(* the client's wish to keep the connection; nothing is left over from one *)
(* request to the next.                                                    *)
AnsweredAsSent ==
    whole => \A i \in DOMAIN answers :
        LET line == Lines[asked[i].line]
            post == line.method = "POST"
        IN  answers[i] = [method     |-> line.method,
                          file       |-> IF post THEN NoName ELSE IF line.url = "root" THEN "index.html" ELSE line.file,
                          content    |-> IF post THEN BodyOf(asked[i]) ELSE <<>>,
                          keep_alive |-> asked[i].keep_alive]

(* What is refused for its own line: an unknown method or version, no '/', *)
(* and every URL of more than four characters, good as it may be.          *)
Refusable(r) ==
    LET line == Lines[r.line]
    IN  line.method \notin {"GET", "POST"} \/ line.version \notin {"1.0", "1.1"} \/ line.url = "bare" \/ line.size > 4

(* Until there has been a cut that does harm, only these are refused: a    *)
(* parser that is left in the wrong state by the request before would      *)
(* refuse others.                                                          *)
RefusesOnlyBad == [][(\E w \in Workers : HandleError(w)) /\ whole => Refusable(Last(asked))]_vars

(* A request that has arrived is answered, or the connection is closed:    *)
(* none is left waiting for more.                                          *)
NoneLeftWaiting ==
    \A n \in 1 .. MaxRequests : Len(asked) >= n ~> Len(answers) >= n \/ eof \/ ~open

(* requestData.h:16-18, "request aborted [...] given up after a number of  *)
(* times": the server closes the connection of a client that has gone.     *)
GoneClientDropped == eof ~> ~open

(* It does so if every worker has set its errno before.                    *)
GoneClientDroppedInTheEnd == (eof /\ \A w \in Workers : errno[w] # "0") ~> ~open
==============================================================================
