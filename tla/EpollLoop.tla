------------------------------- MODULE EpollLoop -------------------------------
(***************************************************************************)
(* history_version/epoll_loop: one thread, non-blocking sockets, and a     *)
(* table g_events of connections.  A slot of the table waits for input     *)
(* (receive_data) or for room to echo it (send_data); what it waits for is *)
(* registered with epoll afresh each time.  server.cpp, and epoll_tool.cpp *)
(* and wrap.cpp of its include directory; failed/src/server_epool.cpp is   *)
(* the same program.                                                       *)
(***************************************************************************)
EXTENDS EchoNet

CONSTANTS
    OPEN_MAX,       \* slots of g_events
    Checks,         \* slots that a round of the loop checks for time-outs (100)
    Timeout         \* ticks that make an idle connection time out (60 s)

LoopConstants == OPEN_MAX \in Nat \ {0} /\ Checks \in Nat /\ Timeout \in Nat

VARIABLES
    fd, status, call_back, data, \* of each slot; data is what is left to send
    deaf,       \* slots, and 0 for the listening socket, that epoll_ctl() failed to register
    blocking,   \* clients whose socket fcntl() failed to make non-blocking
    idle,       \* time since its last_active, up to Timeout; 0 out of the tree
    tree,       \* registrations with epoll: client, slot, event
    touched,    \* slots, and 0 for the listening socket, with events left in this round
    check_pos,
    process     \* "start", "wait" (a round begins), "events" (call-backs); "dead"

table == <<fd, status, call_back, data, deaf, blocking>>
own   == <<table, idle, tree, touched, check_pos, process>>
vars  == <<net, own>>

Slots == 1 .. OPEN_MAX

TypeOK ==
    /\ NetTypeOK
    /\ fd \in [Slots -> Clients \cup {NoClient}]
    /\ status \in [Slots -> {"IN_EPOLL_TREE", "NOT_IN_EPOLL_TREE"}]
    /\ call_back \in [Slots -> {"receive_data", "send_data"}]
    /\ data \in [Slots -> Seq(Char)]
    /\ deaf \in SUBSET (0 .. OPEN_MAX) /\ blocking \in SUBSET Clients
    /\ idle \in [Slots -> 0 .. Timeout]
    /\ tree \in SUBSET (Clients \X Slots \X {"EPOLLIN", "EPOLLOUT"})
    /\ touched \in SUBSET (0 .. OPEN_MAX)
    /\ check_pos \in Slots
    /\ process \in {"start", "wait", "events", "dead"}

Off ==
    /\ fd = [s \in Slots |-> NoClient]
    /\ status = [s \in Slots |-> "NOT_IN_EPOLL_TREE"]
    /\ call_back = [s \in Slots |-> "receive_data"]
    /\ data = [s \in Slots |-> <<>>]
    /\ deaf = {} /\ blocking = {}
    /\ idle = [s \in Slots |-> 0]
    /\ tree = {} /\ touched = {} /\ check_pos = 1

Init == NetInit /\ program = "loop" /\ process = "start" /\ Off

------------------------------------------------------------------------------
(* epoll_tool.cpp *)

In(s) == status[s] = "IN_EPOLL_TREE"

Registrations(s) == {r \in tree : r[2] = s}

(* event_remove() of a slot that is registered: Epoll_ctl() returns. *)
event_remove(s) ==
    /\ tree' = tree \ Registrations(s)
    /\ status' = [status EXCEPT ![s] = "NOT_IN_EPOLL_TREE"]
    /\ idle' = [idle EXCEPT ![s] = 0]

(* epoll_ctl() that registers slot or socket s, as R.  The status is set   *)
(* before, and a failure is only printed.                                  *)
epoll_ctl(s, R) ==
    \/ tree' = (tree \ Registrations(s)) \cup R /\ deaf' = deaf \ {s}
    \/ "epoll_ctl" \in Faults /\ tree' = tree \ Registrations(s) /\ deaf' = deaf \cup {s}

event_set(c, s, event) ==
    /\ fd' = [fd EXCEPT ![s] = c]
    /\ call_back' = [call_back EXCEPT ![s] = IF event = "EPOLLIN" THEN "receive_data" ELSE "send_data"]
    /\ idle' = [idle EXCEPT ![s] = 0]

event_add_modifies(c, s, event) ==
    /\ event_set(c, s, event)
    /\ status' = [status EXCEPT ![s] = "IN_EPOLL_TREE"]
    /\ tree' = tree \cup {<<c, s, event>>} /\ UNCHANGED deaf

(* event_set() and event_add() on a slot that is not, or no longer, in the *)
(* tree.                                                                   *)
event_add(c, s, event) ==
    /\ event_set(c, s, event)
    /\ status' = [status EXCEPT ![s] = "IN_EPOLL_TREE"]
    /\ epoll_ctl(s, {<<c, s, event>>})

------------------------------------------------------------------------------
(* main(): time-outs, epoll_wait, call-backs *)

(* The listening socket is registered. *)
ListenAdd ==
    /\ process = "start" /\ process' = "wait"
    /\ epoll_ctl(0, {})
    /\ UNCHANGED <<net, fd, status, call_back, data, blocking, idle, touched, check_pos>>

Tick ==
    /\ process # "dead"
    /\ \E s \in Slots : In(s) /\ idle[s] < Timeout
    /\ idle' = [s \in Slots |-> IF In(s) /\ idle[s] < Timeout THEN idle[s] + 1 ELSE idle[s]]
    /\ UNCHANGED <<net, table, tree, touched, check_pos, process>>

(* The slots from check_pos on, round the table. *)
Checked == {((check_pos - 1 + i) % OPEN_MAX) + 1 : i \in 0 .. Checks - 1}
Expired == {s \in Checked : In(s) /\ idle[s] = Timeout}

(* Close() comes before event_remove(): Epoll_ctl() is given a descriptor  *)
(* that is not open, and exits.                                            *)
TimeoutExits ==
    /\ process = "wait" /\ Expired # {}
    /\ process' = "dead" /\ Drop(Clients)
    /\ UNCHANGED <<program, peer, backlog, sent, read, out, got, taken, table, idle, tree, touched, check_pos>>

Writable(c) == ~Listens(c) \/ Len(got[c]) - taken[c] < Room

Ready(r) == IF r[3] = "EPOLLIN" THEN Readable(r[1]) ELSE Writable(r[1])

(* The check for time-outs, and epoll_wait(), for 100 ms at most. *)
EpollWait ==
    /\ process = "wait" /\ Expired = {}
    /\ check_pos' = ((check_pos - 1 + Checks) % OPEN_MAX) + 1
    /\ touched' = {r[2] : r \in {q \in tree : Ready(q)}} \cup (IF backlog # <<>> THEN {0} \ deaf ELSE {})
    /\ process' = IF touched' = {} THEN "wait" ELSE "events"
    /\ UNCHANGED <<net, table, idle, tree>>

(* send() on a socket that is blocking has begun and not returned. *)
Sending(s) == s \in touched \cap Slots /\ call_back[s] = "send_data" /\ data[s] = <<>>

Touch(s) ==
    /\ process = "events" /\ s \in touched
    /\ \A t \in touched : Sending(t) => t = s
    /\ touched' = touched \ {s}
    /\ process' = IF touched' = {} THEN "wait" ELSE "events"
    /\ UNCHANGED check_pos

FreeSlots == {s \in Slots : ~In(s)}

accept_connection ==
    /\ Touch(0)
    /\ \E c \in Clients, s \in FreeSlots :
          /\ \A free \in FreeSlots : s <= free
          /\ accept(c)
          /\ blocking' = blocking \/ ("fcntl" \in Faults /\ blocking' = blocking \cup {c})
          /\ event_add(c, s, "EPOLLIN")
    /\ UNCHANGED <<program, peer, sent, read, out, got, taken, data>>

(* accept() returns -1, for want of descriptors or memory: the connection  *)
(* waits, and is reported again.                                           *)
AcceptFails ==
    /\ "accept" \in Faults /\ Touch(0)
    /\ UNCHANGED <<net, table, idle, tree>>

(* The table is full: the connection is accepted and forgotten. *)
AcceptLeaks ==
    /\ Touch(0) /\ FreeSlots = {}
    /\ \E c \in Clients : accept(c)
    /\ UNCHANGED <<program, peer, sent, read, out, got, taken, table, idle, tree>>

receive_data(s) ==
    /\ Touch(s) /\ call_back[s] = "receive_data"
    /\ readData(fd[s])
    /\ data' = [data EXCEPT ![s] = SubSeq(Text, read[fd[s]] + 1, Upto(fd[s]))]
    /\ event_add(fd[s], s, "EPOLLOUT")
    /\ UNCHANGED <<program, backlog, sent, out, got, taken, fds, blocking>>

(* End of file: the slot is free, the descriptor stays open (the Close()   *)
(* is commented out).  An error closes it.                                 *)
ReceiveFails(s) ==
    /\ Touch(s) /\ call_back[s] = "receive_data"
    /\ \/ readEnd(fd[s]) /\ UNCHANGED fds
       \/ readError(fd[s]) /\ close(fd[s])
    /\ event_remove(s)
    /\ UNCHANGED <<program, backlog, sent, out, got, taken, fd, call_back, data, deaf, blocking>>

(* What there is no room for is not sent again. *)
Fits(s) == Least(Len(data[s]), Room - (Len(got[fd[s]]) - taken[fd[s]]))

send_data(s) ==
    LET c == fd[s]
    IN  /\ Touch(s) /\ call_back[s] = "send_data" /\ ~Sending(s)
        /\ \/ Listens(c) /\ (c \in blocking => Fits(s) = Len(data[s]))
              /\ got' = [got EXCEPT ![c] = @ \o SubSeq(data[s], 1, Fits(s))]
           \/ peer[c] = "closed" /\ UNCHANGED got
        /\ data' = [data EXCEPT ![s] = <<>>]
        /\ event_add(c, s, "EPOLLIN")
        /\ UNCHANGED <<program, peer, backlog, sent, read, out, taken, fds, blocking>>

(* If the socket is blocking, send() waits until it has written the rest,  *)
(* or until the client is gone: some has been written, so that it returns  *)
(* how much.                                                               *)
SendBlocks(s) ==
    LET c == fd[s]
    IN  /\ process = "events" /\ s \in touched /\ \A t \in touched : ~Sending(t)
        /\ call_back[s] = "send_data" /\ Listens(c)
        /\ c \in blocking /\ Fits(s) \in 1 .. Len(data[s]) - 1
        /\ got' = [got EXCEPT ![c] = @ \o SubSeq(data[s], 1, Fits(s))]
        /\ out' = [out EXCEPT ![c] = SubSeq(data[s], Fits(s) + 1, Len(data[s]))]
        /\ data' = [data EXCEPT ![s] = <<>>]
        /\ UNCHANGED <<program, peer, backlog, sent, read, taken, fds, fd, status, call_back, deaf,
                       blocking, idle, tree, touched, check_pos, process>>

SendGoesOn(s) ==
    /\ process = "events" /\ Sending(s) /\ writeSome(fd[s])
    /\ UNCHANGED <<program, backlog, sent, read, taken, fds, own>>

SendReturns(s) ==
    /\ Sending(s) /\ Touch(s)
    /\ out[fd[s]] = <<>> \/ ~Listens(fd[s])
    /\ out' = [out EXCEPT ![fd[s]] = <<>>]
    /\ event_add(fd[s], s, "EPOLLIN")
    /\ UNCHANGED <<program, peer, backlog, sent, read, got, taken, fds, data, blocking>>

(* send() returns -1: the slot is free, the descriptor stays open. *)
SendFails(s) ==
    /\ Touch(s) /\ call_back[s] = "send_data" /\ ~Sending(s)
    /\ peer[fd[s]] = "reset" /\ peer' = [peer EXCEPT ![fd[s]] = "broken"]
    /\ event_remove(s)
    /\ UNCHANGED <<program, backlog, sent, read, out, got, taken, fds, fd, call_back, data, deaf, blocking>>

Killed(s) ==
    /\ process = "events" /\ s \in touched /\ \A t \in touched : ~Sending(t)
    /\ call_back[s] = "send_data" /\ peer[fd[s]] = "broken"
    /\ process' = "dead" /\ Drop(Clients)
    /\ UNCHANGED <<program, peer, backlog, sent, read, out, got, taken, table, idle, tree, touched, check_pos>>

------------------------------------------------------------------------------
CallBack(s) ==
    \/ receive_data(s) \/ ReceiveFails(s)
    \/ send_data(s) \/ SendBlocks(s) \/ SendGoesOn(s) \/ SendReturns(s) \/ SendFails(s) \/ Killed(s)

Loop ==
    \/ ListenAdd \/ TimeoutExits \/ EpollWait
    \/ accept_connection \/ AcceptFails \/ AcceptLeaks
    \/ \E s \in Slots : CallBack(s)

(* What clients do once the server is dead is left out. *)
Next == Loop \/ Tick \/ \E c \in Clients : ClientStep(c) /\ process # "dead" /\ UNCHANGED own

Spec == Init /\ [][Next]_vars

------------------------------------------------------------------------------
(* A slot is marked as in the tree exactly if epoll has one registration   *)
(* of it, for the descriptor and the event that its call-back is about, or *)
(* the last attempt to register it failed; no descriptor is registered     *)
(* twice, and none that has been closed.                                   *)
SlotsConsistent ==
    process # "dead" =>
        /\ \A s \in DOMAIN status : In(s) <=> Registrations(s) # {} \/ s \in deaf
        /\ \A s \in deaf : Registrations(s) = {}
        /\ \A q, r \in tree : q[1] = r[1] \/ q[2] = r[2] => q = r
        /\ \A r \in tree :
              /\ r[1] = fd[r[2]] /\ fds[r[1]] = 1
              /\ r[3] = "EPOLLIN" <=> call_back[r[2]] = "receive_data"
==============================================================================
