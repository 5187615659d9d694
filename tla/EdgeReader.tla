------------------------------ MODULE EdgeReader ------------------------------
(***************************************************************************)
(* history_version/epoll_unblock (server.cpp, wrap.cpp): a server of one   *)
(* client, whose input it prints, with edge-triggered epoll and a          *)
(* non-blocking socket.  Here `got` is what has been printed.              *)
(***************************************************************************)
EXTENDS EchoNet

VARIABLES
    connect_fd,
    edge,       \* something has happened on the socket since epoll_wait() returned
    process     \* "wait", "read"; "dead" once Accept() has failed

own  == <<connect_fd, edge, process>>
vars == <<net, own>>

TypeOK ==
    /\ NetTypeOK
    /\ connect_fd \in Clients \cup {NoClient}
    /\ edge \in BOOLEAN
    /\ process \in {"wait", "read", "dead"}

Off == connect_fd = NoClient /\ edge = FALSE

Init == NetInit /\ program = "edge" /\ process = "wait" /\ Off

(* One accept() only.  EPOLL_CTL_ADD reports what is there already. *)
Accept ==
    /\ connect_fd = NoClient /\ process # "dead"
    /\ \E c \in Clients : accept(c) /\ connect_fd' = c /\ edge' = Readable(c)
    /\ UNCHANGED <<program, peer, sent, read, out, got, taken, process>>

AcceptFails ==
    /\ "accept" \in Faults /\ connect_fd = NoClient
    /\ process' = "dead"
    /\ UNCHANGED <<net, connect_fd, edge>>

EpollWait ==
    /\ process = "wait" /\ edge
    /\ edge' = FALSE /\ process' = "read"
    /\ UNCHANGED <<net, connect_fd>>

ReadLoop_once ==
    /\ process = "read"
    /\ readData(connect_fd)
    /\ got' = [got EXCEPT ![connect_fd] = @ \o SubSeq(Text, read[connect_fd] + 1, Upto(connect_fd))]
    /\ process' = "wait"
    /\ UNCHANGED <<program, backlog, sent, out, taken, fds, connect_fd, edge>>

(* while ((len = Read()) > 0) Write(STDOUT_FILENO) *)
ReadLoop ==
    /\ process = "read"
    /\ readData(connect_fd)
    /\ got' = [got EXCEPT ![connect_fd] = @ \o SubSeq(Text, read[connect_fd] + 1, Upto(connect_fd))]
    /\ UNCHANGED <<program, backlog, sent, out, taken, fds, own>>

(* Nothing left (EAGAIN), end of file or an error: all the same to it. *)
ReadStops ==
    /\ process = "read" /\ process' = "wait"
    /\ \/ ~Readable(connect_fd) /\ UNCHANGED <<read, peer>>
       \/ readEnd(connect_fd) \/ readError(connect_fd)
    /\ UNCHANGED <<program, backlog, sent, out, got, taken, fds, connect_fd, edge>>

Client(c) ==
    \/ Connect(c) /\ UNCHANGED own
    \/ (Send(c) \/ Leave(c)) /\ edge' = (edge \/ c = connect_fd) /\ UNCHANGED <<connect_fd, process>>

Loop == Accept \/ EpollWait \/ ReadLoop \/ ReadStops

Next == Loop \/ AcceptFails \/ \E c \in Clients : Client(c)

Spec == Init /\ [][Next]_vars
==============================================================================
