------------------------------- MODULE MCAnswer -------------------------------
(* Four small models in one run: how main() starts (Startup), the requests *)
(* of the early version (EarlyRequest), the writing of answers (Response), *)
(* and the reading of lines (LineReader).  A behaviour is one of one of    *)
(* them; the others stay in one of their initial states.                   *)
EXTENDS EarlyRequest, TLC

CONSTANTS HeaderLen, BodyLens, Room, MaxAnswers,
          Descriptors, MaxSent, BufSize, MaxLen, Drains,
          Ports, PoolThreads, MaxClients

VARIABLES part,
          version, step, begun, left, stream, taken, peer,
          reader, sent, arrived, ended, call, piece, pieces, read_buf,
          events, at, port, threads, listener, blocking, registered, edge, connected, accepted, missed

ofResponse == <<version, step, begun, left, stream, taken, peer>>
ofLines == <<reader, sent, arrived, ended, call, piece, pieces, read_buf>>
ofStart == <<events, at, port, threads, listener, blocking, registered, edge, connected, accepted, missed>>

R == INSTANCE Response WITH answers <- begun
L == INSTANCE LineReader
S == INSTANCE Startup WITH socket <- listener

ASSUME AnswerAssumption == R!ResponseConstants /\ L!LineConstants /\ S!StartConstants

allVars == <<part, EarlyVars, ofResponse, ofLines, ofStart>>

MCInit ==
    /\ EarlyInit /\ R!Init /\ L!Init /\ S!Init
    /\ part \in {"request", "response", "lines", "startup"}
    /\ part # "request" => by = CHOOSE w \in Workers : TRUE
    /\ part # "response" => version = "now"
    /\ part # "lines" => reader = "Readline"
    /\ part # "startup" => events = "usable" /\ port = CHOOSE n \in Ports : TRUE

Early(A)  == part = "request"  /\ A /\ UNCHANGED <<part, ofResponse, ofLines, ofStart>>
Writing(A) == part = "response" /\ A /\ UNCHANGED <<part, EarlyVars, ofLines, ofStart>>
Line(A)   == part = "lines"    /\ A /\ UNCHANGED <<part, EarlyVars, ofResponse, ofStart>>
Start(A)  == part = "startup"  /\ A /\ UNCHANGED <<part, EarlyVars, ofResponse, ofLines>>

MCNext == Early(EarlyNext) \/ Writing(R!Next) \/ Line(L!Next) \/ Start(S!Next)

(* Fairness.  EarlyRequest: main's thread and the workers run, and what is *)
(* sent arrives unless the client gives up.  Response: a worker runs, and  *)
(* a client that has not gone reads what it is sent.  Startup: main() runs.*)
MCSpec ==
    /\ MCInit /\ [][MCNext]_allVars
    /\ WF_allVars(Early(accept_connection \/ HandleEvent))
    /\ WF_allVars(Early(\E w \in Workers : my_handler(w)))
    /\ WF_allVars(Early(OneRound)) /\ WF_allVars(Early(NetworkStep /\ UNCHANGED place))
    /\ WF_allVars(Writing(R!Write)) /\ WF_allVars(Writing(R!Receive))
    /\ WF_allVars(Start(S!main))

------------------------------------------------------------------------------
(* The variables of the four models have their types. *)
AnswerTypeOK == EarlyTypeOK /\ R!TypeOK /\ L!TypeOK /\ S!TypeOK

(* While a connection is kept, what its client has been sent is whole      *)
(* responses (see Response).                                               *)
WholeResponses == R!WholeResponses

(* A worker gets out of writen() if its client reads or leaves.            *)
WriterFinishes == R!WriterFinishes

(* Every call of Readline(), Readn() or get_line() consumes the next line, *)
(* or the next n characters.                                               *)
LinesAsSent == L!LinesAsSent

(* A client that connects while main() starts is accepted, if no call for  *)
(* it fails (see Startup).                                                 *)
EarlyClientAccepted == S!EarlyClientAccepted
------------------------------------------------------------------------------
CONSTANTS w1, w2

LineOf(method, url, size, file, http) ==
    [method |-> method, url |-> url, size |-> size, file |-> file, version |-> http]

RequestLines ==
    "GET /"      :> LineOf("GET", "root", 1, "", "1.1") @@
    "?GET /"     :> LineOf("?GET", "root", 1, "", "1.0") @@
    "?GET /?b"   :> LineOf("?GET", "query", 3, "", "1.1") @@
    "?GET /abcd" :> LineOf("?GET", "plain", 5, "abcd", "1.1") @@
    "POST /"     :> LineOf("POST", "root", 1, "", "1.1")

Get(line)     == [line |-> line, length |-> 0, keep_alive |-> TRUE]
Post(n, keep) == [line |-> "POST /", length |-> n, keep_alive |-> keep]

Digit == [n \in 0 .. 9 |-> ToString(n)]
ThreeB == <<"b1", "b2", "b3">>
TwoWorkers == {w1, w2}
SomeRequests == {Get(line) : line \in DOMAIN RequestLines \ {"POST /"}} \cup {Post(1, TRUE), Post(3, FALSE)}
AllFaults == {"read", "analysis", "reclaim", "pool", "epoll_mod"}
UpToTwo == 0 .. 2

(* What the theorems suppose is so in the run. *)
ASSUME AsTheoremsSuppose == Orderly /\ Drains
==============================================================================
