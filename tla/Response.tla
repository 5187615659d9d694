------------------------------- MODULE Response -------------------------------
(***************************************************************************)
(* A worker writes the answers of one connection: analysisRequest() with   *)
(* writen() and handleError() of src/src ("now"), and analysis_request()   *)
(* with send() and handle_error() of history_version/failed ("early").     *)
(* The socket does not block.  The requests, and which of them keep the    *)
(* connection, are as RequestHandler has them; here they just come.        *)
(***************************************************************************)
EXTENDS Integers, SequencesExt

CONSTANTS
    HeaderLen, BodyLens,    \* characters of a header; possible sizes of a body
    Room,                   \* size of the socket's send buffer
    MaxAnswers              \* bound: answers on the connection

ResponseConstants ==
    HeaderLen \in Nat /\ BodyLens \subseteq Nat /\ Room \in Nat /\ MaxAnswers \in Nat

VARIABLES
    version,    \* "now" or "early"
    step,       \* "idle" between requests; "header", "body": being written; "error header",
                \* "error body": written by handleError(); "closed" (delete this); "killed"
    answers,    \* the answers begun: the size of the body, and where in stream they begin
    left,       \* what the call of writen() or send() is still to write
    stream,     \* what has been written
    taken,      \* how much of it the client has read
    peer        \* the client: "reads", "closed", "reset", "broken" (the next write raises SIGPIPE)

vars == <<version, step, answers, left, stream, taken, peer>>

Writing == {"header", "body", "error header", "error body"}

TypeOK ==
    /\ version \in {"now", "early"}
    /\ step \in Writing \cup {"idle", "closed", "killed"}
    /\ answers \in Seq([length : BodyLens, from : 0 .. Len(stream)]) /\ Len(answers) <= MaxAnswers
    /\ left \in Nat
    /\ stream \in Seq({"header", "body"})
    /\ taken \in 0 .. Len(stream)
    /\ peer \in {"reads", "closed", "reset", "broken"}

Init ==
    /\ version \in {"now", "early"}
    /\ step = "idle" /\ answers = <<>> /\ left = 0
    /\ stream = <<>> /\ taken = 0
    /\ peer = "reads"

Piece(kind, n) == [i \in 1 .. n |-> kind]
ResponseTo(length) == [i \in 1 .. HeaderLen + length |-> IF i <= HeaderLen THEN "header" ELSE "body"]

------------------------------------------------------------------------------
(* The client *)

Receive ==
    /\ peer = "reads" /\ taken < Len(stream)
    /\ taken' = Len(stream)
    /\ UNCHANGED <<version, step, answers, left, stream, peer>>

Leave ==
    /\ \/ peer = "reads" /\ \E p \in {"closed", "reset"} : peer' = p
       \/ peer = "closed" /\ peer' = "broken"
    /\ UNCHANGED <<version, step, answers, left, stream, taken>>

------------------------------------------------------------------------------
(* The worker *)

(* A request has been parsed.  POST is answered with a text; GET with a    *)
(* file, or with 404 if stat() fails.                                      *)
Begin ==
    /\ step = "idle" /\ Len(answers) < MaxAnswers
    /\ \E n \in BodyLens : answers' = Append(answers, [length |-> n, from |-> Len(stream)])
    /\ step' \in {"header", "error header"}
    /\ left' = HeaderLen
    /\ UNCHANGED <<version, stream, taken, peer>>

(* What follows a write that is complete.  handleError() of now announces  *)
(* a body and writes none; both end in ANALYSIS_ERROR.  A success is       *)
(* followed by reset() if the client wants the connection kept.            *)
Then ==
    \/ step = "header" /\ step' = "body" /\ left' = Last(answers).length
    \/ step = "error header" /\ version = "early" /\ step' = "error body" /\ left' = Last(answers).length
    \/ step = "body" /\ step' \in {"idle", "closed"} /\ left' = 0
    \/ /\ (step = "error header" /\ version = "now") \/ step = "error body"
       /\ step' = "closed" /\ left' = 0

Kind == IF step \in {"header", "error header"} THEN "header" ELSE "body"

Takes == LET room == Room - (Len(stream) - taken) IN IF left < room THEN left ELSE room

Put(n) == peer = "reads" /\ stream' = stream \o Piece(Kind, n)

(* To a client that has closed, everything is written, into the void. *)
Lost == peer = "closed" /\ UNCHANGED stream

(* One write() of writen()'s loop; the loop goes on after EAGAIN, without  *)
(* waiting for room, which is no step here.  A size of 0 needs no write(). *)
writen ==
    /\ version = "now" /\ step \in Writing
    /\ \/ /\ left > 0 /\ Takes > 0 /\ Put(Takes)
          /\ IF Takes = left THEN Then ELSE left' = left - Takes /\ UNCHANGED step
       \/ (left = 0 \/ Lost) /\ Then /\ UNCHANGED stream
    /\ UNCHANGED <<version, answers, taken, peer>>

send_unchecked ==
    /\ version = "early" /\ step \in Writing
    /\ \/ Put(Takes) /\ Then
       \/ Lost /\ Then
    /\ UNCHANGED <<version, answers, taken, peer>>

(* One send().  analysis_request() goes on only if all was taken;          *)
(* handle_error() does not look.                                           *)
send ==
    /\ version = "early" /\ step \in Writing
    /\ \/ /\ Put(Takes)
          /\ IF Takes = left \/ step \notin {"header", "body"} THEN Then ELSE step' = "closed" /\ left' = 0
       \/ Lost /\ Then
    /\ UNCHANGED <<version, answers, taken, peer>>

WriteFails_retried ==
    /\ step \in Writing /\ (version = "early" \/ left > 0)
    /\ peer = "reset" /\ version = "early" /\ peer' = "broken"
    /\ step' = "closed" /\ left' = 0
    /\ UNCHANGED <<version, answers, stream, taken>>

(* write() or send() returns -1: the client has reset the connection.      *)
WriteFails ==
    /\ step \in Writing /\ (version = "early" \/ left > 0)
    /\ peer = "reset" /\ peer' = "broken"
    /\ IF version = "early" /\ step = "error header" THEN Then ELSE step' = "closed" /\ left' = 0
    /\ UNCHANGED <<version, answers, stream, taken>>

(* open() or mmap() fails, and so does write() from the address mmap() has *)
(* returned, with EFAULT.                                                  *)
FileFails ==
    /\ step = "body" /\ left = Last(answers).length /\ left > 0
    /\ step' = "closed" /\ left' = 0
    /\ UNCHANGED <<version, answers, stream, taken, peer>>

(* handle_for_sigpipe() is not called: SIGPIPE ends the server. *)
Sigpipe ==
    /\ step \in Writing /\ (version = "early" \/ left > 0)
    /\ peer = "broken"
    /\ step' = "killed" /\ left' = 0
    /\ UNCHANGED <<version, answers, stream, taken, peer>>

Write == writen \/ send \/ WriteFails \/ Sigpipe

Next == Receive \/ Leave \/ Begin \/ Write \/ FileFails

Spec == Init /\ [][Next]_vars

------------------------------------------------------------------------------
(* Properties.  An operator X_y above is X with the mistake y. *)

(* Where in stream the i-th answer begins, or would begin. *)
Begins(i) == IF i \in DOMAIN answers THEN answers[i].from ELSE Len(stream)

(* While the connection is kept, what a client has been sent is whole      *)
(* responses, one after the other, as their lengths say: a write that is   *)
(* cut short is either continued or ends the connection.                   *)
WholeResponses ==
    step = "idle" /\ peer = "reads" =>
        /\ Begins(1) = 0
        /\ \A i \in DOMAIN answers : SubSeq(stream, Begins(i) + 1, Begins(i + 1)) = ResponseTo(answers[i].length)

(* A worker does not stay in writen() for ever if its client reads or      *)
(* leaves, however little room the socket has.                             *)
WriterFinishes == step \in Writing ~> step \notin Writing
==============================================================================
