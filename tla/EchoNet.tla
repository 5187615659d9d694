-------------------------------- MODULE EchoNet --------------------------------
(***************************************************************************)
(* The clients of the early servers of src/history_version and the sockets *)
(* between them and the server: what read(), write(), accept() and close() *)
(* do.  Each server is a module that EXTENDS this one.                     *)
(*                                                                         *)
(* Every client sends the characters of Text, may stop sending (shutdown), *)
(* stop reading as well (close), or reset the connection (abort).          *)
(***************************************************************************)
EXTENDS Integers, Sequences, FiniteSets

CONSTANTS
    Clients, NoClient,
    Text,           \* what a client sends, character by character
    Upper,          \* toupper(), a function on characters
    Room,           \* size of a socket's send buffer
    BUFSIZE,        \* size of the buffer that a server reads into
    Faults          \* what may fail: subset of {"accept", "fork", "pthread_create", "epoll_ctl", "fcntl"}

ASSUME EchoAssumption ==
    /\ IsFiniteSet(Clients) /\ NoClient \notin Clients
    /\ Text \in Seq(DOMAIN Upper) /\ Text # <<>>
    /\ Room \in Nat \ {0} /\ BUFSIZE \in Nat \ {0}

VARIABLES
    program,    \* the server that runs
    peer,       \* the server's view of the client: "none" before connect(), "open",
                \* "eof" (no more data), "closed" (nor does it read), "reset" (and read()
                \* or write() has yet to say so), "broken" (and the next write() raises SIGPIPE)
    backlog,    \* connections not accepted yet
    sent, read, \* characters that the client has sent, that the server has read
    out,        \* what the server has yet to write
    got, taken, \* what it has written, how much of it the client has read
    fds         \* descriptors of the connection in the server's processes

net == <<program, peer, backlog, sent, read, out, got, taken, fds>>

Peers == {"none", "open", "eof", "closed", "reset", "broken"}
Char == DOMAIN Upper \cup {Upper[x] : x \in DOMAIN Upper} \cup {"junk"}

NetTypeOK ==
    /\ peer \in [Clients -> Peers]
    /\ backlog \in Seq(Clients)
    /\ sent \in [Clients -> 0 .. Len(Text)]
    /\ read \in [Clients -> 0 .. Len(Text)]
    /\ out \in [Clients -> Seq(Char)] /\ got \in [Clients -> Seq(Char)]
    /\ taken \in [Clients -> Nat]
    /\ fds \in [Clients -> 0 .. 2]

NetInit ==
    /\ peer = [c \in Clients |-> "none"]
    /\ backlog = <<>>
    /\ sent = [c \in Clients |-> 0] /\ read = [c \in Clients |-> 0]
    /\ out = [c \in Clients |-> <<>>] /\ got = [c \in Clients |-> <<>>]
    /\ taken = [c \in Clients |-> 0]
    /\ fds = [c \in Clients |-> 0]

Waits(c)    == \E i \in DOMAIN backlog : backlog[i] = c
Accepted(c) == peer[c] # "none" /\ ~Waits(c)
Ended(c)    == Accepted(c) /\ fds[c] = 0
Listens(c)  == peer[c] \in {"open", "eof"}

------------------------------------------------------------------------------
(* The client *)

Connect(c) ==
    /\ peer[c] = "none"
    /\ peer' = [peer EXCEPT ![c] = "open"]
    /\ backlog' = Append(backlog, c)
    /\ UNCHANGED <<program, sent, read, out, got, taken, fds>>

Send(c) ==
    /\ peer[c] = "open" /\ ~Ended(c) /\ sent[c] < Len(Text)
    /\ sent' = [sent EXCEPT ![c] = @ + 1]
    /\ UNCHANGED <<program, peer, backlog, read, out, got, taken, fds>>

(* A reset after the client's end of file leaves no error to be read. *)
Leave(c) ==
    /\ \/ peer[c] = "open" /\ \E p \in {"eof", "closed", "reset"} : peer' = [peer EXCEPT ![c] = p]
       \/ peer[c] = "eof"  /\ \E p \in {"closed", "broken"} : peer' = [peer EXCEPT ![c] = p]
       \/ peer[c] = "closed" /\ peer' = [peer EXCEPT ![c] = "broken"]
    /\ UNCHANGED <<program, backlog, sent, read, out, got, taken, fds>>

Receive(c) ==
    /\ Listens(c) /\ taken[c] < Len(got[c])
    /\ taken' = [taken EXCEPT ![c] = Len(got[c])]
    /\ UNCHANGED <<program, peer, backlog, sent, read, out, got, fds>>

ClientStep(c) == Connect(c) \/ Send(c) \/ Leave(c) \/ Receive(c)

------------------------------------------------------------------------------
(* The server's system calls: the effect of each on these variables.  What *)
(* they do to `out` and `fds` when the program adds to it is said there.   *)

Least(m, n) == IF m < n THEN m ELSE n

accept(c) ==
    /\ backlog # <<>> /\ c = Head(backlog)
    /\ backlog' = Tail(backlog)
    /\ fds' = [fds EXCEPT ![c] = 1]

close(c) == fds' = [fds EXCEPT ![c] = @ - 1]

(* A process or the whole server is gone, and its descriptors of C with it. *)
Drop(C) == fds' = [c \in Clients |-> IF c \in C /\ fds[c] > 0 THEN fds[c] - 1 ELSE fds[c]]

Readable(c) == read[c] < sent[c] \/ peer[c] # "open"

(* read() returns the characters from read + 1 to Upto. *)
Upto(c) == Least(sent[c], read[c] + BUFSIZE)
readData(c) == read[c] < sent[c] /\ read' = [read EXCEPT ![c] = Upto(c)] /\ UNCHANGED peer
readEnd(c) == read[c] = sent[c] /\ peer[c] \in {"eof", "closed", "broken"} /\ UNCHANGED <<read, peer>>
readError(c) ==
    /\ read[c] = sent[c] /\ peer[c] = "reset"
    /\ peer' = [peer EXCEPT ![c] = "broken"] /\ UNCHANGED read

(* A blocking write() writes what there is room for and waits to write the *)
(* rest; to a client that has closed, it writes into the void.             *)
writeSome(c) ==
    LET n == Least(Len(out[c]), Room - (Len(got[c]) - taken[c]))
    IN  /\ Listens(c) /\ n > 0
        /\ got' = [got EXCEPT ![c] = @ \o SubSeq(out[c], 1, n)]
        /\ out' = [out EXCEPT ![c] = SubSeq(@, n + 1, Len(@))]
        /\ UNCHANGED peer

writeLost(c) ==
    /\ out[c] # <<>> /\ peer[c] \in {"closed", "reset"}
    /\ out' = [out EXCEPT ![c] = <<>>]
    /\ peer' = [peer EXCEPT ![c] = IF @ = "reset" THEN "broken" ELSE @]
    /\ UNCHANGED got

write(c) == writeSome(c) \/ writeLost(c)

raisesSIGPIPE(c) == out[c] # <<>> /\ peer[c] = "broken"

------------------------------------------------------------------------------
(* The properties that servers share *)

Answer(n) == [i \in 1 .. n |-> Upper[Text[i]]]

(* A client that listens has been written, or is about to be, exactly what *)
(* the server has read from it, in capitals: nothing is lost or repeated   *)
(* when a write() blocks half-way (buf[i] = toupper(buf[i]), write(n)).    *)
EchoExact ==
    program \in {"fork", "epoll"} =>
        \A c \in Clients : Listens(c) => got[c] \o out[c] = Answer(read[c])
==============================================================================
