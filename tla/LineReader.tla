------------------------------ MODULE LineReader ------------------------------
(***************************************************************************)
(* Reading pieces of a stream from a blocking socket.  Readline() and      *)
(* Readn() of wrap.cc, which the earlier servers carry along: my_read()    *)
(* gives Readline() one character after the other from a static buffer,    *)
(* filled by read() whatever the descriptor; Readn() reads n characters.   *)
(* get_line() of this_util.cpp asks the kernel for every character.        *)
(*                                                                         *)
(* No program of the repository calls them; the caller here reads from     *)
(* several descriptors, by one of the functions, one call at a time.       *)
(***************************************************************************)
EXTENDS Integers, SequencesExt

CONSTANTS
    Descriptors,
    MaxSent,    \* bound: characters sent to all descriptors
    BufSize,    \* sizeof(read_buf)
    MaxLen,     \* maxlen, n, and size, of every call
    Drains      \* the caller changes the descriptor only when read_buf is empty

LineConstants ==
    /\ "none" \notin Descriptors
    /\ MaxSent \in Nat /\ BufSize \in Nat \ {0} /\ MaxLen \in Nat \ {0, 1}

Char == {"a", "CR", "LF"}

VARIABLES
    reader,     \* "Readline", "Readn" or "get_line"
    sent,       \* characters sent to each descriptor
    arrived,    \* those of them that have not been read
    ended,      \* the other end is closed
    call,       \* descriptor of the call, or "none"
    piece,      \* what the call has consumed
    pieces,     \* the text that each call before it has consumed, and the place in sent
                \* that it was consumed from, for each descriptor
    read_buf    \* from read_ptr on: read_cnt is its length

vars == <<reader, sent, arrived, ended, call, piece, pieces, read_buf>>

TypeOK ==
    /\ reader \in {"Readline", "Readn", "get_line"}
    /\ sent \in [Descriptors -> Seq(Char)]
    /\ arrived \in [Descriptors -> Seq(Char)]
    /\ ended \in [Descriptors -> BOOLEAN]
    /\ call \in Descriptors \cup {"none"}
    /\ piece \in Seq(Char) /\ read_buf \in Seq(Char)
    /\ Len(read_buf) <= BufSize
    /\ pieces \in [Descriptors -> Seq([from : Nat, text : Seq(Char)])]

Init ==
    /\ reader \in {"Readline", "Readn", "get_line"}
    /\ sent = [d \in Descriptors |-> <<>>] /\ arrived = sent
    /\ ended = [d \in Descriptors |-> FALSE]
    /\ call = "none" /\ piece = <<>> /\ read_buf = <<>>
    /\ pieces = [d \in Descriptors |-> <<>>]

------------------------------------------------------------------------------
(* The other end *)

Send(d, c) ==
    /\ ~ended[d] /\ MapThenSumSet(LAMBDA e : Len(sent[e]), Descriptors) < MaxSent
    /\ sent' = [sent EXCEPT ![d] = Append(@, c)]
    /\ arrived' = [arrived EXCEPT ![d] = Append(@, c)]
    /\ UNCHANGED <<reader, ended, call, piece, pieces, read_buf>>

End(d) ==
    /\ ~ended[d] /\ ended' = [ended EXCEPT ![d] = TRUE]
    /\ UNCHANGED <<reader, sent, arrived, call, piece, pieces, read_buf>>

------------------------------------------------------------------------------
(* The caller *)

Consumed(d) == IF pieces[d] = <<>> THEN 0 ELSE Last(pieces[d]).from + Len(Last(pieces[d]).text)

(* It stops at the end of a stream. *)
Call(d) ==
    /\ call = "none" /\ call' = d
    /\ pieces[d] # <<>> => Last(pieces[d]).text # <<>>
    /\ Drains /\ read_buf # <<>> =>
          \A e \in Descriptors \ {d} : Consumed(e) + Len(arrived[e]) = Len(sent[e])
    /\ UNCHANGED <<reader, sent, arrived, ended, piece, pieces, read_buf>>

(* The call returns, with the characters it has consumed. *)
Return(p) ==
    /\ pieces' = [pieces EXCEPT ![call] = Append(@, [from |-> Consumed(call), text |-> p])]
    /\ piece' = <<>> /\ call' = "none"

------------------------------------------------------------------------------
(* Readline() and my_read() *)

Refill_beforeEmpty ==
    /\ reader = "Readline" /\ call # "none"
    /\ Len(read_buf) <= 1 /\ arrived[call] # <<>>
    /\ \E n \in 1 .. BufSize :
          /\ n <= Len(arrived[call])
          /\ read_buf' = SubSeq(arrived[call], 1, n)
          /\ arrived' = [arrived EXCEPT ![call] = SubSeq(@, n + 1, Len(@))]
    /\ UNCHANGED <<reader, sent, ended, call, piece, pieces>>

Refill ==
    /\ reader = "Readline" /\ call # "none"
    /\ read_buf = <<>> /\ arrived[call] # <<>>
    /\ \E n \in 1 .. BufSize :
          /\ n <= Len(arrived[call])
          /\ read_buf' = SubSeq(arrived[call], 1, n)
          /\ arrived' = [arrived EXCEPT ![call] = SubSeq(@, n + 1, Len(@))]
    /\ UNCHANGED <<reader, sent, ended, call, piece, pieces>>

my_read ==
    /\ reader = "Readline" /\ call # "none" /\ read_buf # <<>>
    /\ read_buf' = Tail(read_buf)
    /\ LET p == Append(piece, Head(read_buf))
       IN  IF Head(read_buf) = "LF" \/ Len(p) = MaxLen - 1
           THEN Return(p)
           ELSE piece' = p /\ UNCHANGED <<call, pieces>>
    /\ UNCHANGED <<reader, sent, arrived, ended>>

(* read() returns 0. *)
ReadlineEnds ==
    /\ reader = "Readline" /\ call # "none"
    /\ read_buf = <<>> /\ arrived[call] = <<>> /\ ended[call]
    /\ Return(piece)
    /\ UNCHANGED <<reader, sent, arrived, ended, read_buf>>

------------------------------------------------------------------------------
(* Readn(): it goes on until it has all n characters, or read() returns 0. *)

ReadSome ==
    /\ reader = "Readn" /\ call # "none"
    /\ \E k \in 1 .. MaxLen - Len(piece) :
          /\ k <= Len(arrived[call])
          /\ arrived' = [arrived EXCEPT ![call] = SubSeq(@, k + 1, Len(@))]
          /\ LET p == piece \o SubSeq(arrived[call], 1, k)
             IN  IF Len(p) = MaxLen THEN Return(p) ELSE piece' = p /\ UNCHANGED <<call, pieces>>
    /\ UNCHANGED <<reader, sent, ended, read_buf>>

ReadEnd ==
    /\ reader = "Readn" /\ call # "none"
    /\ arrived[call] = <<>> /\ ended[call]
    /\ Return(piece)
    /\ UNCHANGED <<reader, sent, arrived, ended, read_buf>>

------------------------------------------------------------------------------
(* get_line(): it stores nothing but the ends of lines, and size does not  *)
(* stop it.                                                                *)

Recv(n) ==
    /\ reader = "get_line" /\ call # "none"
    /\ n <= Len(arrived[call])
    /\ arrived' = [arrived EXCEPT ![call] = SubSeq(@, n + 1, Len(@))]
    /\ UNCHANGED <<reader, sent, ended, read_buf>>

GetChar ==
    /\ Recv(1) /\ arrived[call][1] = "a"
    /\ piece' = Append(piece, "a")
    /\ UNCHANGED <<call, pieces>>

GetLF ==
    /\ Recv(1) /\ arrived[call][1] = "LF"
    /\ Return(Append(piece, "LF"))

(* After CR it looks at the next character, and waits for it.              *)
GetCR ==
    \/ /\ Recv(2) /\ SubSeq(arrived[call], 1, 2) = <<"CR", "LF">>
       /\ Return(piece \o <<"CR", "LF">>)
    \/ /\ Recv(1) /\ arrived[call][1] = "CR"
       /\ IF Len(arrived[call]) = 1 THEN ended[call] ELSE arrived[call][2] # "LF"
       /\ Return(Append(piece, "CR"))

GetEnd ==
    /\ Recv(0) /\ arrived[call] = <<>> /\ ended[call]
    /\ Return(piece)

------------------------------------------------------------------------------
Readn == ReadSome \/ ReadEnd
Readline == Refill \/ my_read \/ ReadlineEnds
get_line == GetChar \/ GetLF \/ GetCR \/ GetEnd

Next ==
    \/ \E d \in Descriptors : Call(d) \/ End(d) \/ \E c \in Char : Send(d, c)
    \/ Readline \/ Readn \/ get_line

Spec == Init /\ [][Next]_vars

------------------------------------------------------------------------------
(* Properties.  An operator X_y above is X with the mistake y. *)

Ends(s, n) ==
    \/ n = Len(s)
    \/ reader = "Readn"    /\ n = MaxLen
    \/ reader = "Readline" /\ (s[n] = "LF" \/ n = MaxLen - 1)
    \/ reader = "get_line" /\ (s[n] = "LF" \/ (s[n] = "CR" /\ s[n + 1] # "LF"))

FirstPiece(s) ==
    IF s = <<>> THEN <<>>
    ELSE SubSeq(s, 1, CHOOSE n \in 1 .. Len(s) : Ends(s, n) /\ \A m \in 1 .. n - 1 : ~Ends(s, m))

(* Every call consumes the next piece of its descriptor (a line, or n      *)
(* characters), all of it and no more, however read() and the static       *)
(* buffer have cut the stream.                                             *)
LinesAsSent ==
    \A d \in Descriptors : \A i \in DOMAIN pieces[d] :
        pieces[d][i].text = FirstPiece(SubSeq(sent[d], pieces[d][i].from + 1, Len(sent[d])))
==============================================================================
