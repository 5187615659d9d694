----------------------------- MODULE EarlyRequest -----------------------------
(***************************************************************************)
(* The requests of one connection in history_version/failed: from the      *)
(* listen queue through main's thread (server_simple.cpp), epoll and the   *)
(* pool to handle_request() (request_data.cpp), with readn() and           *)
(* set_socket_unblocking() (util.cpp).  The client, the network, the       *)
(* request's fields and the parser of the head are those of                *)
(* RequestHandler.                                                         *)
(*                                                                         *)
(* handle_request() is a loop: it tries again without leaving the worker   *)
(* when the body of a POST has not arrived, so that a step is one round of *)
(* it.  (That a timer may expire between its push and epoll_mod is left to *)
(* Reactor; the code is the same.)                                         *)
(***************************************************************************)
EXTENDS RequestHandler

VARIABLES
    phase,      \* "backlog"; "armed" in epoll, with a timer; "queued" in the pool; "loop" in
                \* handle_request(); "deleted"; "lost": nobody will touch it again
    by,         \* the worker that has run handle_request() last
    is_error    \* its local variable

place == <<phase, by, is_error>>
EarlyVars == <<vars, place>>

EarlyTypeOK ==
    /\ TypeOK
    /\ phase \in {"backlog", "armed", "queued", "loop", "deleted", "lost"}
    /\ by \in Workers /\ is_error \in BOOLEAN
    /\ open <=> phase # "deleted"

EarlyInit == Init /\ phase = "backlog" /\ by \in Workers /\ is_error = FALSE

------------------------------------------------------------------------------
(* The thread of main() *)

Delete_keepsOpen == phase' = "deleted" /\ UNCHANGED open

Delete == phase' = "deleted" /\ open' = FALSE

accept_connection ==
    /\ phase = "backlog" /\ phase' = "armed"
    /\ UNCHANGED <<vars, by, is_error>>

(* set_socket_unblocking() returns no value when it succeeds: what its     *)
(* caller finds may be negative, and then the descriptor is forgotten.     *)
AcceptLoses ==
    /\ phase = "backlog" /\ phase' = "lost"
    /\ UNCHANGED <<vars, by, is_error>>

(* epoll reports the socket: separate_timer() and thread_pool_add_task().  *)
HandleEvent ==
    /\ phase = "armed" /\ (socket # <<>> \/ eof)
    /\ phase' = "queued"
    /\ UNCHANGED <<vars, by, is_error>>

(* The result of thread_pool_add_task() is not looked at. *)
PoolRefuses ==
    /\ "pool" \in Faults
    /\ phase = "armed" /\ (socket # <<>> \/ eof)
    /\ phase' = "lost"
    /\ UNCHANGED <<vars, by, is_error>>

MainDeletes ==
    /\ "reclaim" \in Faults
    /\ phase = "armed" /\ Delete
    /\ UNCHANGED <<client, socket, eof, req, answers, errno, by, is_error>>

(* EPOLLERR or EPOLLHUP, of a client that has gone. *)
HandleErrorEvent == eof /\ MainDeletes

(* 500 ms without an event: ~mytimer() deletes the request it still has.   *)
handle_expired_event == MainDeletes

------------------------------------------------------------------------------
(* A worker: my_handler() and handle_request() *)

my_handler(w) ==
    /\ phase = "queued" /\ phase' = "loop"
    /\ by' = w /\ is_error' = FALSE
    /\ UNCHANGED vars

(* The checks of method, URL and version.  GET is not recognised where a   *)
(* request has it, at the beginning of the line, but only behind another   *)
(* character ("?GET").  URLs of any length are taken.                      *)
EarlyAccepts(l) == l.method \in {"POST", "?GET"} /\ l.url # "bare" /\ l.version \in Versions

(* The line before its first CR. *)
parse_uri(q) ==
    IF ~InState(q, "STATE_PARSE_URI") THEN q
    ELSE IF CR \notin ToSet(q.content) THEN [q EXCEPT !.flag = "again"]
    ELSE LET pos  == SelectInSeq(q.content, LAMBDA ch : ch = CR)
             line == SubSeq(q.content, 1, pos - 1)
         IN  IF \E word \in DOMAIN Lines : line = <<word>> /\ EarlyAccepts(Lines[word])
             THEN [q EXCEPT !.content = SubSeq(@, pos + 1, Len(@)), !.method = Lines[line[1]].method,
                            !.file_name = IF Lines[line[1]].url = "root" THEN "index.html" ELSE Lines[line[1]].file,
                            !.state = "STATE_PARSE_HEADERS"]
             ELSE [q EXCEPT !.flag = "error"]

readn ==
    /\ phase = "loop"
    /\ socket' = SubSeq(socket, Reads + 1, Len(socket))
    /\ errno' = IF Reads < MAX_BUFF /\ ~eof THEN [errno EXCEPT ![by] = "EAGAIN"] ELSE errno
    /\ UNCHANGED <<client, eof, by>>

(* parse_headers() is parse_request_head() of src/src, to the letter. *)
parse_headers(q) == ParseHead(q)

(* Nothing has been read, and errno, which may be an old one, is EAGAIN.   *)
(* Beyond the limit the round goes on all the same.                        *)
Again == socket = <<>> /\ errno'[by] = "EAGAIN"
TooOften == req.readTimes > MAX_READ_TIMES

count == is_error' = (is_error \/ (Again /\ TooOften))

Round ==
    {RecvBody(q) : q \in {parse_headers(p) : p \in {parse_uri(
        [req EXCEPT !.content = @ \o SubSeq(socket, 1, Reads), !.flag = "ok",
                    !.readTimes = IF Again /\ ~TooOften THEN @ + 1 ELSE @])}}}

InBody(q) == q.flag = "again" /\ q.state = "STATE_RECV_BODY"

EpollMod ==
    \/ phase' = "armed" /\ UNCHANGED open
    \/ "epoll_mod" \in Faults /\ Delete

RoundReads == readn /\ count /\ ~(socket = <<>> /\ errno'[by] = "other")

RoundFails_unnoticed ==
    /\ readn /\ UNCHANGED <<is_error, req, answers, phase, open>>
    /\ socket = <<>> /\ errno'[by] = "other"

(* Nothing has been read, and the worker's errno, an old one, is an error. *)
RoundFails ==
    /\ readn /\ UNCHANGED <<is_error, req, answers>>
    /\ socket = <<>> /\ errno'[by] = "other"
    /\ Delete

EarlyReadFails ==
    /\ "read" \in Faults
    /\ phase = "loop"
    /\ errno' = [errno EXCEPT ![by] = "other"]
    /\ Delete
    /\ UNCHANGED <<client, socket, eof, by, is_error, req, answers>>

(* `continue`: the body of a POST has not arrived. *)
Continue ==
    /\ RoundReads
    /\ \E q \in Round : InBody(q) /\ req' = q
    /\ UNCHANGED <<answers, phase, open>>

(* The line or the head is not complete: a new timer, and epoll_mod.       *)
Break ==
    /\ RoundReads
    /\ \E q \in Round : q.flag = "again" /\ ~InBody(q) /\ req' = q
    /\ IF is_error' THEN Delete ELSE EpollMod
    /\ UNCHANGED answers

Refuse ==
    /\ RoundReads
    /\ \E q \in Round : q.flag = "error"
    /\ Delete
    /\ UNCHANGED <<req, answers>>

Reset_keepsHeadState(q) == [NewRequest EXCEPT !.method = q.method, !.h_state = q.h_state]

Reset(q) == [NewRequest EXCEPT !.method = q.method]

(* analysis_request().  A body that came after too many rounds is answered *)
(* and then the connection is ended, whatever the client was told.         *)
Answer ==
    /\ RoundReads
    /\ \E q \in Round :
          /\ InState(q, "STATE_ANALYSIS") /\ ~NoFile(q)
          /\ answers' = Append(answers, AnswerTo(q))
          /\ IF AnswerTo(q).keep_alive /\ ~is_error'
             THEN req' = Reset(q) /\ EpollMod
             ELSE UNCHANGED req /\ Delete

(* analysis_request() fails: the URL names no file (/?b), there is no such *)
(* file, or a send() is cut short.                                         *)
AnswerFails ==
    /\ RoundReads
    /\ \E q \in Round : InState(q, "STATE_ANALYSIS") /\ (NoFile(q) \/ "analysis" \in Faults)
    /\ Delete
    /\ UNCHANGED <<req, answers>>

------------------------------------------------------------------------------
OneRound == RoundFails \/ Continue \/ Break \/ Refuse \/ Answer \/ AnswerFails
handle_request == OneRound \/ EarlyReadFails

EarlyNext ==
    \/ accept_connection \/ AcceptLoses \/ HandleEvent \/ PoolRefuses
    \/ HandleErrorEvent \/ handle_expired_event
    \/ handle_request
    \/ \E w \in Workers : my_handler(w) \/ (OtherWork(w) /\ (phase = "loop" => w # by) /\ UNCHANGED place)
    \/ (ClientStep \/ NetworkStep) /\ UNCHANGED place

EarlySpec == EarlyInit /\ [][EarlyNext]_EarlyVars

------------------------------------------------------------------------------
(* Properties.  An operator X_y above is X with the mistake y. *)

(* The worker gets out of handle_request(), or its client has gone in the  *)
(* middle of a body while the worker's errno is an EAGAIN of before: then  *)
(* read() returns 0 for ever, and the limit on tries ends nothing.         *)
WorkerReturns ==
    phase = "loop" ~> phase # "loop"
                        \/ (eof /\ socket = <<>> /\ req.state = "STATE_RECV_BODY" /\ errno[by] # "other")

(* A request that has arrived is answered, unless its connection is ended  *)
(* or forgotten, or the client leaves; none is left waiting in a state     *)
(* that the requests before it on the connection have brought about.       *)
EarlyNoneLeftWaiting ==
    \A n \in 1 .. MaxRequests : Len(asked) >= n ~> Len(answers) >= n \/ eof \/ ~open \/ phase = "lost"
==============================================================================
