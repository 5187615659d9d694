------------------------------ MODULE ForkServer ------------------------------
(***************************************************************************)
(* history_version/concurrence_server/multi_progress_server: the parent    *)
(* accepts, and forks a child for every client.  server.cc and the wrap.cc *)
(* of its include directory.                                               *)
(***************************************************************************)
EXTENDS EchoNet

VARIABLES
    parent,     \* "accept", "fork", "close", "signal": the next call of main's loop;
                \* "stuck" in wait_child() for ever; "dead"
    cfd,        \* the client that main() is forking a child for
    child,      \* each client's child: "none", "run", "zombie", "reaped", or "missed":
                \* a zombie whose SIGCHLD came before there was a handler
    handler,    \* signal(SIGCHLD, wait_child) has been called
    sigchld     \* SIGCHLD is pending; several are one

own  == <<parent, cfd, child, handler, sigchld>>
vars == <<net, own>>

TypeOK ==
    /\ NetTypeOK
    /\ parent \in {"accept", "fork", "close", "signal", "stuck", "dead"}
    /\ cfd \in Clients \cup {NoClient}
    /\ child \in [Clients -> {"none", "run", "zombie", "missed", "reaped"}]
    /\ handler \in BOOLEAN /\ sigchld \in BOOLEAN

Off ==
    /\ parent = "accept" /\ cfd = NoClient
    /\ child = [c \in Clients |-> "none"]
    /\ handler = FALSE /\ sigchld = FALSE

Init == NetInit /\ program = "fork" /\ Off

------------------------------------------------------------------------------
(* The parent: main() *)

Accept ==
    /\ parent = "accept"
    /\ \E c \in Clients : accept(c) /\ cfd' = c
    /\ parent' = "fork"
    /\ UNCHANGED <<program, peer, sent, read, out, got, taken, child, handler, sigchld>>

(* Accept() tries again after ECONNABORTED and EINTR; any other error ends *)
(* the parent (perr_exit), as a failing fork() does.  The children go on.  *)
ParentExits ==
    /\ \/ "accept" \in Faults /\ parent = "accept" /\ UNCHANGED fds
       \/ "fork" \in Faults /\ parent = "fork" /\ close(cfd)
    /\ parent' = "dead"
    /\ UNCHANGED <<program, peer, backlog, sent, read, out, got, taken, cfd, child, handler, sigchld>>

Fork ==
    /\ parent = "fork"
    /\ fds' = [fds EXCEPT ![cfd] = @ + 1]
    /\ child' = [child EXCEPT ![cfd] = "run"]
    /\ parent' = "close"
    /\ UNCHANGED <<program, peer, backlog, sent, read, out, got, taken, cfd, handler, sigchld>>

ParentClose_forgotten ==
    /\ parent = "close" /\ parent' = "signal"
    /\ UNCHANGED <<net, cfd, child, handler, sigchld>>

ParentClose ==
    /\ parent = "close" /\ parent' = "signal"
    /\ close(cfd)
    /\ UNCHANGED <<program, peer, backlog, sent, read, out, got, taken, cfd, child, handler, sigchld>>

InstallHandler ==
    /\ parent = "signal" /\ parent' = "accept"
    /\ handler' = TRUE
    /\ UNCHANGED <<net, cfd, child, sigchld>>

Zombies == {c \in Clients : child[c] \in {"zombie", "missed"}}

wait_child_once ==
    /\ sigchld /\ parent \notin {"stuck", "dead"}
    /\ \E c \in Zombies : child' = [child EXCEPT ![c] = "reaped"]
    /\ parent' = IF \E c \in Clients : child[c] = "run" THEN parent ELSE "stuck"
    /\ sigchld' = FALSE
    /\ UNCHANGED <<net, cfd, handler>>

(* The handler of SIGCHLD runs between two steps of main().  waitpid()     *)
(* returns 0 while children are running, which ends the loop.  With none   *)
(* left it returns -1, and the loop goes on for ever.                      *)
wait_child ==
    /\ sigchld /\ parent \notin {"stuck", "dead"}
    /\ child' = [c \in Clients |-> IF c \in Zombies THEN "reaped" ELSE child[c]]
    /\ parent' = IF \E c \in Clients : child[c] = "run" THEN parent ELSE "stuck"
    /\ sigchld' = FALSE
    /\ UNCHANGED <<net, cfd, handler>>

------------------------------------------------------------------------------
(* A child *)

Idle(c) == child[c] = "run" /\ out[c] = <<>>

ChildRead(c) ==
    /\ Idle(c)
    /\ readData(c)
    /\ out' = [out EXCEPT ![c] = SubSeq(Answer(Upto(c)), read[c] + 1, Upto(c))]
    /\ UNCHANGED <<program, backlog, sent, got, taken, fds, own>>

ChildWrite(c) ==
    /\ child[c] = "run"
    /\ write(c)
    /\ UNCHANGED <<program, backlog, sent, read, taken, fds, own>>

ChildGone(c) ==
    /\ close(c)
    /\ child' = [child EXCEPT ![c] = IF handler /\ parent # "dead" THEN "zombie" ELSE "missed"]
    /\ sigchld' = (sigchld \/ handler)
    /\ UNCHANGED <<program, backlog, sent, got, taken, parent, cfd, handler>>

ChildExit_inWrite(c) ==
    /\ child[c] = "run"
    /\ (readEnd(c) \/ readError(c)) /\ UNCHANGED out
    /\ ChildGone(c)

(* End of file: close() and return 0.  An error: exit(1). *)
ChildExit(c) ==
    /\ Idle(c)
    /\ (readEnd(c) \/ readError(c)) /\ UNCHANGED out
    /\ ChildGone(c)

(* write() to a client that has reset the connection kills this child only. *)
ChildKilled(c) ==
    /\ child[c] = "run" /\ raisesSIGPIPE(c)
    /\ out' = [out EXCEPT ![c] = <<>>]
    /\ UNCHANGED <<read, peer>>
    /\ ChildGone(c)

------------------------------------------------------------------------------
main == Accept \/ Fork \/ ParentClose \/ InstallHandler
ChildStep(c) == ChildRead(c) \/ ChildWrite(c) \/ ChildExit(c) \/ ChildKilled(c)

Next ==
    \/ main \/ ParentExits \/ wait_child
    \/ \E c \in Clients :
          ChildStep(c) \/ (ClientStep(c) /\ (parent = "dead" => peer[c] # "none") /\ UNCHANGED own)

Spec == Init /\ [][Next]_vars

Service == INSTANCE EchoService WITH
    said <- sent, heard <- got, over <- [c \in Clients |-> Ended(c)],
    standing <- [c \in Clients |->
        IF peer[c] \in {"none", "open"} THEN "talking" ELSE IF peer[c] = "eof" THEN "finished" ELSE "gone"],
    crashed <- parent = "dead"
==============================================================================
