------------------------------- MODULE Startup --------------------------------
(***************************************************************************)
(* main() of src/main.cpp before its loop (which is Reactor's): epoll, the *)
(* pool, socket_bind_listen(), setSocketNonBlocking() and epoll_add(), any *)
(* of which may fail, while clients already connect.  The loop is here     *)
(* only as far as connections that come one after the other need it.       *)
(***************************************************************************)
EXTENDS Integers

CONSTANTS
    Ports,          \* arguments of socket_bind_listen(); PORT is one
    PoolThreads,    \* THREADPOOL_THREAD_NUM
    MaxClients      \* bound: connections

StartConstants == PoolThreads \in Nat /\ MaxClients \in Nat

VARIABLES
    events,     \* main's uninitialized local `events`, which it gives to epoll_wait: "usable", "invalid"
    at,         \* what main() does next; "loop"; "exit" (exit(-1))
    port,
    threads,    \* threads of the pool
    socket,     \* the listening socket: "none", "open", "reusable", "bound", "listens"
    blocking,   \* its descriptor blocks
    registered, \* it is in epoll's interest list
    edge,       \* epoll will report it
    connected,  \* clients whose connection is established
    accepted,   \* those of them that main() has accepted
    missed      \* those that it has not, although epoll has reported them

vars == <<events, at, port, threads, socket, blocking, registered, edge, connected, accepted, missed>>
ofListener == <<events, socket, blocking, registered, edge>>
ofClients == <<connected, accepted, missed>>

Calls == {"epoll_init", "create", "socket", "setsockopt", "bind", "listen", "nonblocking", "epoll_add"}

TypeOK ==
    /\ events \in {"usable", "invalid"}
    /\ at \in Calls \cup {"loop", "exit"}
    /\ port \in Ports
    /\ threads \in 0 .. PoolThreads
    /\ socket \in {"none", "open", "reusable", "bound", "listens"}
    /\ blocking \in BOOLEAN /\ registered \in BOOLEAN /\ edge \in BOOLEAN
    /\ connected \in 0 .. MaxClients /\ accepted \in 0 .. connected
    /\ missed \in 0 .. connected - accepted

Init ==
    /\ events \in {"usable", "invalid"}
    /\ at = "epoll_init" /\ port \in Ports
    /\ threads = 0
    /\ socket = "none" /\ blocking = TRUE /\ registered = FALSE /\ edge = FALSE
    /\ connected = 0 /\ accepted = 0 /\ missed = 0

------------------------------------------------------------------------------
(* Clients that main() has yet to hear of. *)
Waiting == connected - accepted - missed

(* A client that connects, when main() has heard of those before it. *)
Connect ==
    /\ at # "exit" /\ socket = "listens"
    /\ Waiting = 0 /\ connected < MaxClients
    /\ connected' = connected + 1
    /\ edge' = registered
    /\ UNCHANGED <<events, at, port, threads, socket, blocking, registered, accepted, missed>>

------------------------------------------------------------------------------
(* main() *)

epoll_init ==
    /\ at = "epoll_init" /\ at' = "create"
    /\ UNCHANGED <<port, threads, ofListener, ofClients>>

(* pthread_create() may fail; what create() returns is not looked at. *)
create ==
    /\ at = "create" /\ at' = "socket"
    /\ threads' \in 0 .. PoolThreads
    /\ UNCHANGED <<port, ofListener, ofClients>>

BindStep(call, before, after, next) ==
    /\ at = call /\ socket = before
    /\ at' = next /\ socket' = after
    /\ UNCHANGED <<events, port, threads, blocking, registered, edge, ofClients>>

(* A port below 1024 or above 65535 is refused before anything is opened.  *)
socket_bind_listen ==
    \/ port \in 1024 .. 65535 /\ BindStep("socket", "none", "open", "setsockopt")
    \/ BindStep("setsockopt", "open", "reusable", "bind")
    \/ BindStep("bind", "reusable", "bound", "listen")
    \/ BindStep("listen", "bound", "listens", "nonblocking")

setSocketNonBlocking_sameFlags ==
    /\ at = "nonblocking" /\ at' = "epoll_add"
    /\ UNCHANGED <<port, threads, ofListener, ofClients>>

setSocketNonBlocking ==
    /\ at = "nonblocking" /\ at' = "epoll_add"
    /\ blocking' = FALSE
    /\ UNCHANGED <<events, port, threads, socket, registered, edge, ofClients>>

(* A connection that is waiting counts as an edge. *)
epoll_add ==
    /\ at = "epoll_add" /\ at' = "loop"
    /\ registered' = TRUE /\ edge' = (Waiting > 0)
    /\ UNCHANGED <<events, port, threads, socket, blocking, ofClients>>

(* What epoll_add() returns is not looked at: the loop runs, and waits for *)
(* ever.                                                                   *)
EpollAddFails ==
    /\ at = "epoll_add" /\ at' = "loop"
    /\ UNCHANGED <<port, threads, ofListener, ofClients>>

(* Any other call fails, and main() gives up. *)
GiveUp ==
    /\ at \in Calls \ {"create", "epoll_add"} /\ at' = "exit"
    /\ UNCHANGED <<port, threads, ofListener, ofClients>>

(* One accept() for an edge.  If it fails, the client stays in the listen  *)
(* queue, where only the next client's edge can get one out; if            *)
(* setSocketNonBlocking() fails, the descriptor is forgotten.  When        *)
(* `events` cannot be written to, epoll_wait returns -1, and the loop goes *)
(* on without events.                                                      *)
acceptConnection ==
    /\ at = "loop" /\ events = "usable" /\ edge
    /\ edge' = FALSE
    /\ \/ accepted' = accepted + 1 /\ UNCHANGED missed
       \/ missed' = missed + 1 /\ UNCHANGED accepted
    /\ UNCHANGED <<events, at, port, threads, socket, blocking, registered, connected>>

main ==
    \/ epoll_init \/ create \/ socket_bind_listen \/ setSocketNonBlocking \/ epoll_add
    \/ EpollAddFails \/ GiveUp \/ acceptConnection

Next == Connect \/ main

Spec == Init /\ [][Next]_vars

------------------------------------------------------------------------------
(* Properties.  An operator X_y above is X with the mistake y. *)

(* A client that connects, as early as it can, is accepted by a socket     *)
(* that does not block, or the call for it fails; unless the server gives  *)
(* up, epoll_add() has failed, or `events` cannot be used.                 *)
EarlyClientAccepted ==
    Waiting > 0 ~>
        (Waiting = 0 /\ ~blocking) \/ at = "exit" \/ (at = "loop" /\ (~registered \/ events = "invalid"))
==============================================================================
