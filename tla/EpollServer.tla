------------------------------ MODULE EpollServer ------------------------------
(***************************************************************************)
(* history_version/concurrence_server/epoll: one thread, level-triggered   *)
(* epoll, blocking sockets.  server.cc and the wrap.cc of its include      *)
(* directory; epoll_nonblock_io has the same server.cc.                    *)
(***************************************************************************)
EXTENDS EchoNet

VARIABLES
    interest,       \* clients registered with epoll
    ep,         \* events that epoll_wait() has returned and the loop has not handled:
                \* clients, and NoClient for the listening socket
    process     \* "runs", "dead"

own  == <<interest, ep, process>>
vars == <<net, own>>

TypeOK ==
    /\ NetTypeOK
    /\ interest \in SUBSET Clients
    /\ ep \in SUBSET (Clients \cup {NoClient})
    /\ process \in {"runs", "dead"}

Off == interest = {} /\ ep = {}

Init == NetInit /\ program = "epoll" /\ process = "runs" /\ Off

(* The thread is not blocked in a Write(). *)
Free == process = "runs" /\ \A c \in Clients : out[c] = <<>>

ReadyList == {c \in interest : Readable(c)} \cup (IF backlog # <<>> THEN {NoClient} ELSE {})

EpollWait ==
    /\ Free /\ ep = {}
    /\ ReadyList # {} /\ ep' = ReadyList
    /\ UNCHANGED <<net, interest, process>>

(* Accept() ends the process on an error other than ECONNABORTED or EINTR. *)
Accept ==
    /\ Free /\ NoClient \in ep
    /\ ep' = ep \ {NoClient}
    /\ \E c \in Clients : accept(c) /\ interest' = interest \cup {c}
    /\ UNCHANGED <<program, peer, sent, read, out, got, taken, process>>

AcceptFails ==
    /\ "accept" \in Faults /\ Free /\ NoClient \in ep
    /\ process' = "dead" /\ Drop(Clients)
    /\ UNCHANGED <<program, peer, backlog, sent, read, out, got, taken, interest, ep>>

Handle(c) == Free /\ c \in ep /\ ep' = ep \ {c}

HandleData_twice(c) ==
    /\ Handle(c)
    /\ readData(c)
    /\ out' = [out EXCEPT ![c] = SubSeq(Answer(Upto(c)), 1, Upto(c))]
    /\ UNCHANGED <<program, backlog, sent, got, taken, fds, interest, process>>

HandleData(c) ==
    /\ Handle(c)
    /\ readData(c)
    /\ out' = [out EXCEPT ![c] = SubSeq(Answer(Upto(c)), read[c] + 1, Upto(c))]
    /\ UNCHANGED <<program, backlog, sent, got, taken, fds, interest, process>>

(* Read() returns 0 or -1: EPOLL_CTL_DEL and Close(). *)
HandleEnd(c) ==
    /\ Handle(c)
    /\ readEnd(c) \/ readError(c)
    /\ interest' = interest \ {c}
    /\ close(c)
    /\ UNCHANGED <<program, backlog, sent, out, got, taken, process>>

(* The only thread waits in Write() until the client has read enough. *)
Write(c) ==
    /\ process = "runs" /\ write(c)
    /\ UNCHANGED <<program, backlog, sent, read, taken, fds, own>>

Killed(c) ==
    /\ process = "runs" /\ raisesSIGPIPE(c)
    /\ process' = "dead" /\ Drop(Clients)
    /\ UNCHANGED <<program, peer, backlog, sent, read, out, got, taken, interest, ep>>

Loop == EpollWait \/ Accept \/ \E c \in Clients : HandleData(c) \/ HandleEnd(c) \/ Write(c) \/ Killed(c)

Next == Loop \/ AcceptFails \/ \E c \in Clients : ClientStep(c) /\ process = "runs" /\ UNCHANGED own

Spec == Init /\ [][Next]_vars

Service == INSTANCE EchoService WITH
    said <- sent, heard <- got, over <- [c \in Clients |-> Ended(c)],
    standing <- [c \in Clients |->
        IF peer[c] \in {"none", "open"} THEN "talking" ELSE IF peer[c] = "eof" THEN "finished" ELSE "gone"],
    crashed <- process = "dead"
==============================================================================
