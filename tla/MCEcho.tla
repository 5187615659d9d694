-------------------------------- MODULE MCEcho --------------------------------
(* The early echo servers side by side: each behaviour is one of one of    *)
(* them, with the same clients.                                            *)
EXTENDS EpollServer

CONSTANTS TableSize, OPEN_MAX, Checks, Timeout

VARIABLES
    parent, cfd, child, handler, sigchld,
    ts, thread, buf,
    fd, status, call_back, data, deaf, blocking, idle, tree, touched, check_pos,
    connect_fd, edge

ofFork   == <<parent, cfd, child, handler, sigchld>>
ofThread == <<ts, thread, buf>>
ofEpoll  == <<interest, ep>>
ofLoop   == <<fd, status, call_back, data, deaf, blocking, idle, tree, touched, check_pos>>
ofEdge   == <<connect_fd, edge>>
echoVars == <<net, process, ofFork, ofThread, ofEpoll, ofLoop, ofEdge>>

F == INSTANCE ForkServer
T == INSTANCE ThreadServer
L == INSTANCE EpollLoop
L1 == INSTANCE EpollLoop WITH OPEN_MAX <- 1    \* full with one client
R == INSTANCE EdgeReader WITH BUFSIZE <- 1

ASSUME EarlyConstants == L!LoopConstants /\ TableSize \in Nat

EchoInit ==
    /\ \/ F!Init /\ process = "runs"
       \/ T!Init \/ Init \/ L!Init \/ L1!Init \/ R!Init
    /\ F!Off /\ T!Off /\ Off /\ R!Off
    /\ L!Off \/ (program = "loop" /\ L1!Off)

(* The table g_events has room for one connection only. *)
OneSlot == DOMAIN fd = {1}

EchoNext ==
    \/ program = "fork"   /\ F!Next /\ UNCHANGED <<process, ofThread, ofEpoll, ofLoop, ofEdge>>
    \/ program = "thread" /\ T!Next /\ UNCHANGED <<ofFork, ofEpoll, ofLoop, ofEdge>>
    \/ program = "epoll"  /\ Next /\ UNCHANGED <<ofFork, ofThread, ofLoop, ofEdge>>
    \/ program = "loop"   /\ (IF OneSlot THEN L1!Next ELSE L!Next) /\ UNCHANGED <<ofFork, ofThread, ofEpoll, ofEdge>>
    \/ program = "edge"   /\ R!Next /\ UNCHANGED <<ofFork, ofThread, ofEpoll, ofLoop>>

EchoSpec == EchoInit /\ [][EchoNext]_echoVars

(* Processes and threads run, and a client that listens reads what it is   *)
(* sent.                                                                   *)
InFork(A)   == program = "fork" /\ A /\ UNCHANGED <<process, ofThread, ofEpoll, ofLoop, ofEdge>>
InThread(A) == program = "thread" /\ A /\ UNCHANGED <<ofFork, ofEpoll, ofLoop, ofEdge>>
InEpoll(A)  == program = "epoll" /\ A /\ UNCHANGED <<ofFork, ofThread, ofLoop, ofEdge>>
InLoop(A)   == program = "loop" /\ A /\ UNCHANGED <<ofFork, ofThread, ofEpoll, ofEdge>>
InEdge(A)   == program = "edge" /\ A /\ UNCHANGED <<ofFork, ofThread, ofEpoll, ofLoop>>

Main ==
    \/ InFork(F!main) \/ InThread(T!Accept \/ T!AcceptTooMany) \/ InEpoll(Loop) \/ InLoop(IF OneSlot THEN L1!Loop ELSE L!Loop) \/ InEdge(R!Loop)
Serve(c) == InFork(F!ChildStep(c)) \/ InThread(T!WorkStep(c))
Hear(c) ==
    /\ program # "edge" /\ (program # "fork" => process # "dead")
    /\ Receive(c)
    /\ UNCHANGED <<process, ofFork, ofThread, ofEpoll, ofLoop, ofEdge>>

FairSpec ==
    /\ EchoSpec
    /\ WF_echoVars(Main) /\ WF_echoVars(InFork(F!wait_child))
    /\ \A c \in Clients : WF_echoVars(Serve(c)) /\ WF_echoVars(Hear(c))

------------------------------------------------------------------------------
(* The variables of the program that runs have their types. *)
EchoTypeOK ==
    /\ program = "fork" => F!TypeOK
    /\ program = "thread" => T!TypeOK
    /\ program = "epoll" => TypeOK
    /\ program = "loop" => IF OneSlot THEN L1!TypeOK ELSE L!TypeOK
    /\ program = "edge" => R!TypeOK

(* The table g_events and epoll agree (see EpollLoop). *)
SlotsConsistent == L!SlotsConsistent

(* multi_progress_server and epoll are echo servers in the sense of        *)
(* EchoService: no character is lost, repeated or answered before it was   *)
(* sent, although writes are cut anywhere, and no connection is ended      *)
(* before a client that still listens has been answered in full.           *)
ImplementsEcho ==
    /\ (program = "fork" => F!Service!Init) /\ (program = "epoll" => Service!Init)
    /\ [][/\ program = "fork"  => F!Service!Next \/ UNCHANGED F!Service!vars
          /\ program = "epoll" => Service!Next \/ UNCHANGED Service!vars]_echoVars

(* The server has come down, or nobody serves client c: the parent hangs   *)
(* in wait_child(), pthread_create() has failed, the slots of g_events     *)
(* were all taken or epoll_ctl() has failed, or the program serves one     *)
(* client only.                                                            *)
NotServed(c) ==
    \/ program = "fork" /\ parent \in {"stuck", "dead"} /\ (child[c] = "none" \/ cfd = c)
    \/ program # "fork" /\ process \in {"dead", "undefined"}
    \/ program = "thread" /\ thread[c] = "none" /\ ~Waits(c)
    \/ program = "loop" /\ ~Waits(c) /\ \A s \in DOMAIN fd \ deaf : fd[s] # c
    \/ program = "loop" /\ Waits(c) /\ 0 \in deaf
    \/ program = "edge" /\ connect_fd # c

(* What a client has sent is read and, but for a blocked or late write of  *)
(* epoll_loop, answered (epoll_unblock: printed): no input is left lying   *)
(* in a socket although the server waits, edge-triggered or not; unless    *)
(* accept() of epoll_loop fails for ever.                                  *)
CatchesUp ==
    \/ []<><<InLoop(IF OneSlot THEN L1!AcceptFails ELSE L!AcceptFails)>>_echoVars
    \/ []<>(\A c \in Clients :
              \/ peer[c] # "open" \/ NotServed(c)
              \/ read[c] = sent[c] /\ (program # "loop" => Len(got[c]) >= sent[c]))

(* The servers that close() at end of file do not keep the connection of a *)
(* client that has finished: all their processes give their descriptor up. *)
EndsAfterClient ==
    []<>(program \in {"fork", "thread", "epoll"} =>
            \A c \in Clients : peer[c] = "eof" => Ended(c) \/ NotServed(c))

(* Children that end after signal(SIGCHLD, wait_child) are waited for, all *)
(* of them, also when several end at once and the kernel merges their      *)
(* signals: no zombie stays.                                               *)
ZombiesReaped == []<>(parent = "dead" \/ \A c \in Clients : child[c] # "zombie")

------------------------------------------------------------------------------
CONSTANTS c1, c2

TwoClients == {c1, c2}
TextAB == <<"a", "b">>
UpperAB == [x \in {"a", "b"} |-> IF x = "a" THEN "A" ELSE "B"]
AllFaults == {"accept", "fork", "pthread_create", "epoll_ctl", "fcntl"}

(* A bound: the clients are interchangeable, and c1 is the first to come.  *)
FirstIsC1 == peer[c2] # "none" => peer[c1] # "none"

(* A bound: epoll_loop meets one epoll_ctl() or fcntl() that fails.        *)
OneFault == Cardinality(deaf) + Cardinality(blocking) <= 1
==============================================================================
