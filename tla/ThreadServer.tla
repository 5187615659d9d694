----------------------------- MODULE ThreadServer -----------------------------
(***************************************************************************)
(* history_version/concurrence_server/multi_thread_server: one process, in *)
(* which main() accepts and starts a thread for every client.  server.cc   *)
(* and the wrap.cc of its include directory.                               *)
(***************************************************************************)
EXTENDS EchoNet

CONSTANT TableSize      \* elements of the array ts

VARIABLES
    ts,         \* ts[j].connfd for j < i: the clients accepted so far
    thread,     \* each client's thread: "none", "run", "done"
    buf,        \* its buffer
    process     \* "runs", "dead", or "undefined" once ts has been written past its end

own  == <<ts, thread, buf, process>>
vars == <<net, own>>

TypeOK ==
    /\ NetTypeOK
    /\ ts \in Seq(Clients) /\ Len(ts) <= TableSize
    /\ thread \in [Clients -> {"none", "run", "done"}]
    /\ buf \in [Clients -> [1 .. BUFSIZE -> Char]]
    /\ process \in {"runs", "dead", "undefined"}

(* buf is not initialized. *)
Off ==
    /\ ts = <<>> /\ thread = [c \in Clients |-> "none"]
    /\ buf = [c \in Clients |-> [i \in 1 .. BUFSIZE |-> "junk"]]

Init == NetInit /\ program = "thread" /\ process = "runs" /\ Off

Accept_anyNumber ==
    /\ process = "runs"
    /\ \E c \in Clients :
          /\ accept(c)
          /\ ts' = Append(ts, c)
          /\ thread' = [thread EXCEPT ![c] = "run"]
    /\ UNCHANGED <<program, peer, sent, read, out, got, taken, buf, process>>

(* One round of main's loop.  i only grows; the result of pthread_create() *)
(* is not looked at, and without a thread nobody serves the client.        *)
Accept ==
    /\ process = "runs" /\ Len(ts) < TableSize
    /\ \E c \in Clients :
          /\ accept(c)
          /\ ts' = Append(ts, c)
          /\ \/ thread' = [thread EXCEPT ![c] = "run"]
             \/ "pthread_create" \in Faults /\ UNCHANGED thread
    /\ UNCHANGED <<program, peer, sent, read, out, got, taken, buf, process>>

(* ts[TableSize] is whatever follows the array. *)
AcceptTooMany ==
    /\ process = "runs" /\ Len(ts) = TableSize
    /\ \E c \in Clients : accept(c)
    /\ process' = "undefined"
    /\ UNCHANGED <<program, peer, sent, read, out, got, taken, ts, thread, buf>>

AcceptFails ==
    /\ "accept" \in Faults /\ process = "runs"
    /\ process' = "dead"
    /\ Drop(Clients)
    /\ UNCHANGED <<program, peer, backlog, sent, read, out, got, taken, ts, thread, buf>>

------------------------------------------------------------------------------
(* do_work(), run by the thread of client c *)

Idle(c) == process = "runs" /\ thread[c] = "run" /\ out[c] = <<>>

(* The whole buffer is written, not only what has just been read into it;  *)
(* and it is written as it was after a failing Read().                     *)
WorkRead(c) ==
    /\ Idle(c)
    /\ \/ /\ readData(c)
          /\ buf' = [buf EXCEPT ![c] = [i \in 1 .. BUFSIZE |->
                        IF i <= Upto(c) - read[c] THEN Upper[Text[read[c] + i]] ELSE buf[c][i]]]
       \/ readError(c) /\ UNCHANGED buf
    /\ out' = [out EXCEPT ![c] = buf'[c]]
    /\ UNCHANGED <<program, backlog, sent, got, taken, fds, ts, thread, process>>

WorkWrite(c) ==
    /\ process = "runs" /\ thread[c] = "run"
    /\ write(c)
    /\ UNCHANGED <<program, backlog, sent, read, taken, fds, own>>

WorkEnd(c) ==
    /\ Idle(c) /\ readEnd(c)
    /\ close(c)
    /\ thread' = [thread EXCEPT ![c] = "done"]
    /\ UNCHANGED <<program, backlog, sent, out, got, taken, ts, buf, process>>

(* SIGPIPE ends the process, with all its clients. *)
Killed(c) ==
    /\ process = "runs" /\ thread[c] = "run" /\ raisesSIGPIPE(c)
    /\ process' = "dead"
    /\ Drop(Clients)
    /\ UNCHANGED <<program, peer, backlog, sent, read, out, got, taken, ts, thread, buf>>

WorkStep(c) == WorkRead(c) \/ WorkWrite(c) \/ WorkEnd(c) \/ Killed(c)

Next ==
    \/ Accept \/ AcceptTooMany \/ AcceptFails
    \/ \E c \in Clients : WorkStep(c) \/ (ClientStep(c) /\ process = "runs" /\ UNCHANGED own)

Spec == Init /\ [][Next]_vars
==============================================================================
