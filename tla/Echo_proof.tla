------------------------------ MODULE Echo_proof ------------------------------
(* Theorems about the early echo servers for any number of clients, any    *)
(* text, any sizes and any faults: EpollServer and ForkServer answer what  *)
(* they read and implement EchoService, and all five keep their types and  *)
(* their tables.  What is proved of epoll_loop alone is in EpollLoop_proof.*)
EXTENDS MCEcho, SequenceLemmas, TLAPS

------------------------------------------------------------------------------
(* Lemmas about the answers *)

LEMMA AnswerIsSeq ==
  ASSUME NEW n \in 0 .. Len(Text)
  PROVE  Answer(n) \in Seq(Char) /\ Len(Answer(n)) = n /\ \A i \in 1 .. n : Answer(n)[i] = Upper[Text[i]]
  <1>1. \A i \in 1 .. n : Upper[Text[i]] \in Char
    BY EchoAssumption DEF Char
  <1>2. Answer(n) \in [1 .. n -> Char]
    BY <1>1 DEF Answer
  <1>3. QED
    BY <1>2 DEF Answer

LEMMA AnswerEmpty == Answer(0) = <<>>
  BY DEF Answer

(* The answer to n characters begins with the answer to the first m. *)
LEMMA AnswerBegins ==
  ASSUME NEW m \in 0 .. Len(Text), NEW n \in 0 .. Len(Text), m <= n
  PROVE  SubSeq(Answer(n), 1, m) = Answer(m)
  <1>1. /\ Answer(n) \in Seq(Char) /\ Len(Answer(n)) = n
        /\ Answer(m) \in Seq(Char) /\ Len(Answer(m)) = m
        /\ \A i \in 1 .. n : Answer(n)[i] = Upper[Text[i]]
        /\ \A i \in 1 .. m : Answer(m)[i] = Upper[Text[i]]
    BY AnswerIsSeq
  <1> HIDE DEF Answer
  <1>2. \A i \in 1 .. m : Answer(n)[i] \in Char
    BY <1>1, ElementOfSeq
  <1>3. /\ SubSeq(Answer(n), 1, m) \in Seq(Char)
        /\ Len(SubSeq(Answer(n), 1, m)) = m
        /\ \A i \in 1 .. m : SubSeq(Answer(n), 1, m)[i] = Answer(n)[i]
    BY <1>2, SubSeqProperties
  <1>4. QED
    BY <1>1, <1>3, SeqEqual

LEMMA AnswerExtends ==
  ASSUME NEW m \in 0 .. Len(Text), NEW n \in 0 .. Len(Text), m <= n
  PROVE  /\ SubSeq(Answer(n), m + 1, n) \in Seq(Char)
         /\ Answer(m) \o SubSeq(Answer(n), m + 1, n) = Answer(n)
  <1>1. Answer(n) \in Seq(Char) /\ Len(Answer(n)) = n
    BY AnswerIsSeq
  <1>2. SubSeq(Answer(n), 1, m) \o SubSeq(Answer(n), m + 1, n) = SubSeq(Answer(n), 1, n)
    BY <1>1, ConcatAdjacentSubSeq, 1 \in 1 .. Len(Answer(n)) + 1, m \in 1 - 1 .. Len(Answer(n)),
       n \in m .. Len(Answer(n))
  <1>3. SubSeq(Answer(n), 1, n) = Answer(n)
    BY <1>1, SubSeqFull
  <1>4. \A i \in m + 1 .. n : Answer(n)[i] \in Char
    BY <1>1, ElementOfSeq
  <1>5. SubSeq(Answer(n), m + 1, n) \in Seq(Char)
    BY <1>4, SubSeqProperties
  <1>6. QED
    BY <1>2, <1>3, <1>5, AnswerBegins

(* To write the first n characters of t and to keep the rest changes       *)
(* nothing to what has been written and is to be written.                  *)
LEMMA SplitConcat ==
  ASSUME NEW s \in Seq(Char), NEW t \in Seq(Char), NEW n \in 1 .. Len(t)
  PROVE  /\ SubSeq(t, 1, n) \in Seq(Char) /\ Len(SubSeq(t, 1, n)) = n
         /\ SubSeq(t, n + 1, Len(t)) \in Seq(Char)
         /\ (s \o SubSeq(t, 1, n)) \o SubSeq(t, n + 1, Len(t)) = s \o t
  <1>1. n \in 0 .. Len(t)
    BY LenProperties
  <1>2. Concat(Concat(s, SubSeq(t, 1, n)), SubSeq(t, n + 1, Len(t))) = Concat(s, t)
    BY ONLY <1>1, s \in Seq(Char), t \in Seq(Char), ConcatCut
  <1>3. (s \o SubSeq(t, 1, n)) \o SubSeq(t, n + 1, Len(t)) = s \o t
    BY <1>2 DEF Concat
  <1>4. SubSeq(t, 1, n) \in Seq(Char) /\ Len(SubSeq(t, 1, n)) = n
    BY <1>1, CutIs
  <1>5. SubSeq(t, n + 1, Len(t)) \in Seq(Char)
    BY <1>1, CutIs
  <1>6. QED
    BY <1>3, <1>4, <1>5

(* A beginning of an answer is the answer to a beginning. *)
LEMMA PrefixIsAnswer ==
  ASSUME NEW s \in Seq(Char), NEW t \in Seq(Char), NEW m \in 0 .. Len(Text), s \o t = Answer(m)
  PROVE  Len(s) \in 0 .. m /\ s = Answer(Len(s))
  <1>1. Answer(m) \in Seq(Char) /\ Len(Answer(m)) = m /\ \A i \in 1 .. m : Answer(m)[i] = Upper[Text[i]]
    BY AnswerIsSeq
  <1>2. Len(s) \in Nat /\ Len(t) \in Nat /\ Len(s) + Len(t) = m
    BY <1>1, ConcatProperties, LenProperties
  <1>3. \A i \in 1 .. Len(s) : s[i] = Upper[Text[i]]
    BY <1>1, <1>2, ConcatProperties
  <1>4. Len(s) \in 0 .. Len(Text)
    BY <1>2, EchoAssumption
  <1>5. Answer(Len(s)) \in Seq(Char) /\ Len(Answer(Len(s))) = Len(s)
        /\ \A i \in 1 .. Len(s) : Answer(Len(s))[i] = Upper[Text[i]]
    BY <1>4, AnswerIsSeq
  <1>6. QED
    BY <1>2, <1>3, <1>5, SeqEqual

------------------------------------------------------------------------------
(* The sockets and the clients: what holds whatever the server that runs,  *)
(* and what each step of a client and each system call keeps.              *)

WaitsOnce == \A i, j \in DOMAIN backlog : backlog[i] = backlog[j] => i = j

Sockets ==
    /\ NetTypeOK /\ WaitsOnce
    /\ \A c \in Clients : Waits(c) => peer[c] # "none"

ReadWhatWasSent == \A c \in Clients : read[c] <= sent[c]

NothingBefore == \A c \in Clients : peer[c] = "none" => sent[c] = 0 /\ got[c] = <<>> /\ out[c] = <<>>

Echoed == \A c \in Clients : Listens(c) => got[c] \o out[c] = Answer(read[c])

(* What a server that answers right keeps. *)
Exchange == ReadWhatWasSent /\ NothingBefore /\ Echoed

LEMMA TextLen == Len(Text) \in Nat
  BY EchoAssumption, LenProperties

LEMMA InitSockets ==
  ASSUME NetInit
  PROVE  /\ Sockets /\ Exchange
         /\ \A c \in Clients : peer[c] = "none" /\ ~Waits(c) /\ fds[c] = 0
  <1>1. /\ peer = [c \in Clients |-> "none"] /\ backlog = <<>>
        /\ sent = [c \in Clients |-> 0] /\ read = [c \in Clients |-> 0]
        /\ out = [c \in Clients |-> <<>>] /\ got = [c \in Clients |-> <<>>]
        /\ taken = [c \in Clients |-> 0] /\ fds = [c \in Clients |-> 0]
    BY DEF NetInit
  <1>2. <<>> \in Seq(Char) /\ <<>> \in Seq(Clients) /\ DOMAIN backlog = {}
    BY <1>1, EmptySeq
  <1>3. NetTypeOK
    BY <1>1, <1>2, TextLen DEF NetTypeOK, Peers
  <1>4. WaitsOnce /\ \A c \in Clients : ~Waits(c)
    BY <1>2 DEF WaitsOnce, Waits
  <1>5. Exchange
    BY <1>1 DEF Exchange, ReadWhatWasSent, NothingBefore, Echoed, Listens
  <1>6. QED
    BY <1>1, <1>3, <1>4, <1>5 DEF Sockets

(* What connect() and accept() do to the clients that wait. *)
LEMMA BacklogAppended ==
  ASSUME backlog \in Seq(Clients), WaitsOnce, NEW c \in Clients, ~Waits(c), backlog' = Append(backlog, c)
  PROVE  /\ backlog' \in Seq(Clients) /\ WaitsOnce'
         /\ \A d : Waits(d)' <=> Waits(d) \/ d = c
  <1>1. Once(backlog) /\ ~Within(backlog, c)
    BY DEF WaitsOnce, Waits, Once, Within
  <1>2. /\ Longer(backlog, c) \in Seq(Clients) /\ Once(Longer(backlog, c))
        /\ \A d : Within(Longer(backlog, c), d) <=> Within(backlog, d) \/ d = c
    BY <1>1, AppendOnce
  <1>3. backlog' = Longer(backlog, c)
    BY DEF Longer
  <1>4. backlog' \in Seq(Clients) /\ Once(backlog') /\ \A d : Within(backlog', d) <=> Within(backlog, d) \/ d = c
    BY ONLY <1>2, <1>3
  <1>5. QED
    BY ONLY <1>4 DEF WaitsOnce, Waits, Once, Within

LEMMA BacklogTaken ==
  ASSUME backlog \in Seq(Clients), WaitsOnce, backlog # <<>>, backlog' = Tail(backlog)
  PROVE  /\ backlog' \in Seq(Clients) /\ WaitsOnce'
         /\ Head(backlog) \in Clients /\ Waits(Head(backlog))
         /\ \A d : Waits(d)' <=> Waits(d) /\ d # Head(backlog)
  <1>1. Once(backlog)
    BY DEF WaitsOnce, Once
  <1>2. /\ backlog' \in Seq(Clients) /\ Head(backlog) \in Clients
        /\ Once(backlog') /\ Within(backlog, Head(backlog))
        /\ \A d : Within(backlog', d) <=> Within(backlog, d) /\ d # Head(backlog)
    BY <1>1, TailOnce
  <1>3. QED
    BY ONLY <1>2 DEF WaitsOnce, Waits, Once, Within

(* A step that accepts nobody, and after which no client is unknown that   *)
(* was known.                                                              *)
LEMMA SocketsKept ==
  ASSUME Sockets, NetTypeOK', UNCHANGED backlog,
         \A c \in Clients : peer[c] # "none" => peer'[c] # "none"
  PROVE  Sockets' /\ \A c : Waits(c)' <=> Waits(c)
  BY DEF Sockets, WaitsOnce, Waits

------------------------------------------------------------------------------
(* The client's steps *)

LEMMA ConnectSockets ==
  ASSUME Sockets, NEW c \in Clients, Connect(c)
  PROVE  /\ Sockets' /\ peer[c] = "none" /\ peer'[c] = "open"
         /\ \A d \in Clients \ {c} : peer'[d] = peer[d]
         /\ ~Waits(c) /\ \A d : Waits(d)' <=> Waits(d) \/ d = c
         /\ UNCHANGED <<program, sent, read, out, got, taken, fds>>
  <1>1. /\ peer[c] = "none" /\ peer' = [peer EXCEPT ![c] = "open"] /\ backlog' = Append(backlog, c)
        /\ UNCHANGED <<program, sent, read, out, got, taken, fds>>
    BY DEF Connect
  <1>2. NetTypeOK /\ WaitsOnce /\ ~Waits(c)
    BY <1>1 DEF Sockets
  <1>3. /\ backlog' \in Seq(Clients) /\ WaitsOnce'
        /\ \A d : Waits(d)' <=> Waits(d) \/ d = c
    BY <1>1, <1>2, BacklogAppended DEF NetTypeOK
  <1>4. peer' \in [Clients -> Peers] /\ peer'[c] = "open" /\ \A d \in Clients \ {c} : peer'[d] = peer[d]
    BY <1>1, <1>2 DEF NetTypeOK, Peers
  <1>5. NetTypeOK'
    BY <1>1, <1>2, <1>3, <1>4 DEF NetTypeOK
  <1>6. \A d \in Clients : Waits(d)' => peer'[d] # "none"
    BY <1>3, <1>4 DEF Sockets
  <1>7. QED
    BY <1>1, <1>2, <1>3, <1>4, <1>5, <1>6 DEF Sockets

LEMMA SendSockets ==
  ASSUME Sockets, NEW c \in Clients, Send(c)
  PROVE  /\ Sockets' /\ peer[c] = "open" /\ ~Ended(c) /\ sent[c] < Len(Text)
         /\ sent' = [sent EXCEPT ![c] = @ + 1]
         /\ sent'[c] = sent[c] + 1 /\ \A d \in Clients \ {c} : sent'[d] = sent[d]
         /\ UNCHANGED <<program, peer, backlog, read, out, got, taken, fds>>
  <1>1. /\ peer[c] = "open" /\ ~Ended(c) /\ sent[c] < Len(Text) /\ sent' = [sent EXCEPT ![c] = @ + 1]
        /\ UNCHANGED <<program, peer, backlog, read, out, got, taken, fds>>
    BY DEF Send
  <1>2. NetTypeOK /\ sent \in [Clients -> 0 .. Len(Text)]
    BY DEF Sockets, NetTypeOK
  <1>3. /\ sent' \in [Clients -> 0 .. Len(Text)]
        /\ sent'[c] = sent[c] + 1 /\ \A d \in Clients \ {c} : sent'[d] = sent[d]
    BY <1>1, <1>2, TextLen
  <1>4. NetTypeOK'
    BY <1>1, <1>2, <1>3 DEF NetTypeOK
  <1>5. QED
    BY <1>1, <1>3, <1>4, SocketsKept

LEMMA LeaveSockets ==
  ASSUME Sockets, NEW c \in Clients, Leave(c)
  PROVE  /\ Sockets'
         /\ peer[c] \in {"open", "eof", "closed"} /\ peer'[c] \in {"eof", "closed", "reset", "broken"}
         /\ peer'[c] = "eof" => peer[c] = "open"
         /\ peer[c] = "closed" => peer'[c] = "broken"
         /\ \A d \in Clients \ {c} : peer'[d] = peer[d]
         /\ UNCHANGED <<program, backlog, sent, read, out, got, taken, fds>>
  <1>1. UNCHANGED <<program, backlog, sent, read, out, got, taken, fds>>
    BY DEF Leave
  <1>2. PICK p \in {"eof", "closed", "reset", "broken"} :
          /\ peer' = [peer EXCEPT ![c] = p]
          /\ peer[c] \in {"open", "eof", "closed"} /\ (p = "eof" => peer[c] = "open")
          /\ peer[c] = "closed" => p = "broken"
    BY DEF Leave
  <1>3. NetTypeOK /\ peer \in [Clients -> Peers]
    BY DEF Sockets, NetTypeOK
  <1>4. /\ peer' \in [Clients -> Peers] /\ peer'[c] = p
        /\ \A d \in Clients \ {c} : peer'[d] = peer[d]
    BY <1>2, <1>3 DEF Peers
  <1>5. NetTypeOK'
    BY <1>1, <1>3, <1>4 DEF NetTypeOK
  <1>6. QED
    BY <1>1, <1>2, <1>4, <1>5, SocketsKept

LEMMA ReceiveSockets ==
  ASSUME Sockets, NEW c \in Clients, Receive(c)
  PROVE  Sockets' /\ UNCHANGED <<program, peer, backlog, sent, read, out, got, fds>>
  <1>1. /\ taken' = [taken EXCEPT ![c] = Len(got[c])]
        /\ UNCHANGED <<program, peer, backlog, sent, read, out, got, fds>>
    BY DEF Receive
  <1>2. NetTypeOK /\ Len(got[c]) \in Nat
    BY LenProperties DEF Sockets, NetTypeOK
  <1>3. NetTypeOK'
    BY <1>1, <1>2 DEF NetTypeOK
  <1>4. QED
    BY <1>1, <1>3, SocketsKept

(* No step of a client touches a descriptor, or makes an accepted client   *)
(* wait.                                                                   *)
LEMMA ClientSockets ==
  ASSUME Sockets, NEW c \in Clients, ClientStep(c)
  PROVE  /\ Sockets' /\ UNCHANGED <<program, read, out, got, fds>>
         /\ \A d \in Clients : peer[d] # "none" => peer'[d] # "none" /\ (Waits(d)' <=> Waits(d))
  <1>1. CASE Connect(c)
    <2>1. /\ Sockets' /\ peer[c] = "none" /\ peer'[c] = "open"
          /\ \A d \in Clients \ {c} : peer'[d] = peer[d]
          /\ \A d : Waits(d)' <=> Waits(d) \/ d = c
          /\ UNCHANGED <<program, read, out, got, fds>>
      BY <1>1, ConnectSockets
    <2>2. QED
      BY <2>1
  <1>2. CASE Send(c)
    BY <1>2, SendSockets DEF Waits
  <1>3. CASE Leave(c)
    <2>1. /\ Sockets' /\ peer'[c] \in {"eof", "closed", "reset", "broken"}
          /\ \A d \in Clients \ {c} : peer'[d] = peer[d]
          /\ UNCHANGED <<program, backlog, read, out, got, fds>>
      BY <1>3, LeaveSockets
    <2>2. QED
      BY <2>1 DEF Waits
  <1>4. CASE Receive(c)
    BY <1>4, ReceiveSockets DEF Waits
  <1>5. QED
    BY <1>1, <1>2, <1>3, <1>4 DEF ClientStep

LEMMA ClientExchange ==
  ASSUME Sockets, Exchange, NEW c \in Clients, ClientStep(c)
  PROVE  Exchange'
  <1>0. NetTypeOK /\ ReadWhatWasSent /\ NothingBefore /\ Echoed
    BY DEF Sockets, Exchange
  <1>1. CASE Connect(c)
    <2>1. /\ peer[c] = "none" /\ peer'[c] = "open"
          /\ \A d \in Clients \ {c} : peer'[d] = peer[d]
          /\ UNCHANGED <<sent, read, out, got>>
      BY <1>1, ConnectSockets
    <2>2. ReadWhatWasSent' /\ NothingBefore'
      BY <1>0, <2>1 DEF ReadWhatWasSent, NothingBefore
    <2>3. got[c] = <<>> /\ out[c] = <<>> /\ read[c] = 0
      BY <1>0, <2>1 DEF ReadWhatWasSent, NothingBefore, NetTypeOK
    <2>4. got[c] \o out[c] = Answer(read[c])
      <3>1. <<>> \o <<>> = <<>>
        BY EmptySeq, ConcatEmptySeq
      <3>2. QED
        BY <2>3, <3>1, AnswerEmpty
    <2>5. Echoed'
      BY <1>0, <2>1, <2>4 DEF Echoed, Listens, Answer
    <2>6. QED
      BY <2>2, <2>5 DEF Exchange
  <1>2. CASE Send(c)
    <2>1. /\ peer[c] = "open" /\ sent'[c] = sent[c] + 1 /\ \A d \in Clients \ {c} : sent'[d] = sent[d]
          /\ UNCHANGED <<peer, read, out, got>>
      BY <1>2, SendSockets
    <2>2. sent[c] \in Nat /\ read[c] \in Nat
      BY <1>0 DEF NetTypeOK
    <2>3. ReadWhatWasSent'
      BY <1>0, <2>1, <2>2 DEF ReadWhatWasSent
    <2>4. NothingBefore' /\ Echoed'
      BY <1>0, <2>1 DEF NothingBefore, Echoed, Listens, Answer
    <2>5. QED
      BY <2>3, <2>4 DEF Exchange
  <1>3. CASE Leave(c)
    <2>1. /\ peer[c] \in {"open", "eof", "closed"} /\ peer'[c] \in {"eof", "closed", "reset", "broken"}
          /\ peer'[c] = "eof" => peer[c] = "open"
          /\ \A d \in Clients \ {c} : peer'[d] = peer[d]
          /\ UNCHANGED <<sent, read, out, got>>
      BY <1>3, LeaveSockets
    <2>2. ReadWhatWasSent' /\ NothingBefore'
      BY <1>0, <2>1 DEF ReadWhatWasSent, NothingBefore
    <2>3. Echoed'
      BY <1>0, <2>1 DEF Echoed, Listens, Answer
    <2>4. QED
      BY <2>2, <2>3 DEF Exchange
  <1>4. CASE Receive(c)
    BY <1>0, <1>4, ReceiveSockets DEF Exchange, ReadWhatWasSent, NothingBefore, Echoed, Listens, Answer
  <1>5. QED
    BY <1>1, <1>2, <1>3, <1>4 DEF ClientStep

------------------------------------------------------------------------------
(* The server's system calls *)

LEMMA AcceptSockets ==
  ASSUME Sockets, NEW c \in Clients, accept(c), UNCHANGED <<peer, sent, read, out, got, taken>>
  PROVE  /\ Sockets' /\ Waits(c) /\ peer[c] # "none"
         /\ \A d : Waits(d)' <=> Waits(d) /\ d # c
         /\ fds'[c] = 1 /\ \A d \in Clients \ {c} : fds'[d] = fds[d]
         /\ Exchange => Exchange'
  <1>1. backlog # <<>> /\ c = Head(backlog) /\ backlog' = Tail(backlog) /\ fds' = [fds EXCEPT ![c] = 1]
    BY DEF accept
  <1>2. NetTypeOK /\ WaitsOnce /\ fds \in [Clients -> 0 .. 2]
    BY DEF Sockets, NetTypeOK
  <1>3. /\ backlog' \in Seq(Clients) /\ WaitsOnce' /\ Waits(c)
        /\ \A d : Waits(d)' <=> Waits(d) /\ d # c
    BY <1>1, <1>2, BacklogTaken DEF NetTypeOK
  <1>4. /\ fds' \in [Clients -> 0 .. 2]
        /\ fds'[c] = 1 /\ \A d \in Clients \ {c} : fds'[d] = fds[d]
    BY ONLY <1>1, <1>2, c \in Clients
  <1>5. NetTypeOK'
    BY <1>2, <1>3, <1>4 DEF NetTypeOK
  <1>6. peer[c] # "none" /\ \A d \in Clients : Waits(d)' => peer'[d] # "none"
    BY <1>3 DEF Sockets
  <1>7. Exchange => Exchange'
    BY DEF Exchange, ReadWhatWasSent, NothingBefore, Echoed, Listens, Answer
  <1>8. QED
    BY <1>3, <1>4, <1>5, <1>6, <1>7 DEF Sockets

LEMMA UptoIs ==
  ASSUME Sockets, NEW c \in Clients, read[c] < sent[c]
  PROVE  /\ Upto(c) \in 0 .. Len(Text) /\ read[c] \in 0 .. Len(Text) /\ read[c] <= Upto(c) /\ Upto(c) <= sent[c]
  <1>1. sent[c] \in 0 .. Len(Text) /\ read[c] \in 0 .. Len(Text)
    BY DEF Sockets, NetTypeOK
  <1>2. QED
    BY <1>1, TextLen, EchoAssumption DEF Upto, Least

(* What read() does; the rest of the types is up to the server. *)
LEMMA ReadTypes ==
  ASSUME Sockets, NEW c \in Clients, readData(c) \/ readEnd(c) \/ readError(c),
         UNCHANGED <<backlog, sent, taken>>,
         out' \in [Clients -> Seq(Char)], got' \in [Clients -> Seq(Char)], fds' \in [Clients -> 0 .. 2]
  PROVE  /\ Sockets' /\ \A d : Waits(d)' <=> Waits(d)
         /\ \A d \in Clients : peer'[d] = "none" <=> peer[d] = "none"
  <1>1. NetTypeOK /\ peer \in [Clients -> Peers] /\ read \in [Clients -> 0 .. Len(Text)]
    BY DEF Sockets, NetTypeOK
  <1>2. read' \in [Clients -> 0 .. Len(Text)]
    <2>1. CASE readData(c)
      <3>1. read[c] < sent[c] /\ read' = [read EXCEPT ![c] = Upto(c)]
        BY <2>1 DEF readData
      <3>2. Upto(c) \in 0 .. Len(Text)
        BY <3>1, UptoIs
      <3>3. QED
        BY ONLY <1>1, <3>1, <3>2
    <2>2. CASE ~readData(c)
      BY <1>1, <2>2 DEF readEnd, readError
    <2>3. QED
      BY <2>1, <2>2
  <1>3. peer' = peer \/ (peer[c] = "reset" /\ peer' = [peer EXCEPT ![c] = "broken"])
    BY DEF readData, readEnd, readError
  <1>4. peer' \in [Clients -> Peers] /\ \A d \in Clients : peer'[d] = "none" <=> peer[d] = "none"
    BY <1>1, <1>3 DEF Peers
  <1>5. NetTypeOK'
    BY <1>1, <1>2, <1>4 DEF NetTypeOK
  <1>6. QED
    BY <1>4, <1>5, SocketsKept

(* A server reads some characters, and is going to write their capitals.   *)
LEMMA ReadExchange ==
  ASSUME Sockets, Exchange, NEW c \in Clients, peer[c] # "none", out[c] = <<>>, readData(c),
         out' = [out EXCEPT ![c] = SubSeq(Answer(Upto(c)), read[c] + 1, Upto(c))],
         UNCHANGED <<backlog, sent, got, taken, fds>>
  PROVE  /\ Sockets' /\ Exchange' /\ UNCHANGED peer /\ \A d : Waits(d)' <=> Waits(d)
         /\ \A d \in Clients \ {c} : out'[d] = out[d]
  <1> DEFINE rest == SubSeq(Answer(Upto(c)), read[c] + 1, Upto(c))
  <1>1. read[c] < sent[c] /\ read' = [read EXCEPT ![c] = Upto(c)] /\ UNCHANGED peer
    BY DEF readData
  <1>2. Upto(c) \in 0 .. Len(Text) /\ read[c] \in 0 .. Len(Text) /\ read[c] <= Upto(c) /\ Upto(c) <= sent[c]
    BY <1>1, UptoIs
  <1>3. rest \in Seq(Char) /\ Answer(read[c]) \o rest = Answer(Upto(c))
    BY <1>2, AnswerExtends
  <1>4. out' = [out EXCEPT ![c] = rest]
    OBVIOUS
  <1> HIDE DEF rest
  <1>5. NetTypeOK /\ ReadWhatWasSent /\ NothingBefore /\ Echoed
    BY DEF Sockets, Exchange
  <1>6. /\ out \in [Clients -> Seq(Char)] /\ got \in [Clients -> Seq(Char)]
        /\ fds \in [Clients -> 0 .. 2] /\ read \in [Clients -> 0 .. Len(Text)]
    BY <1>5 DEF NetTypeOK
  <1>7. /\ out' \in [Clients -> Seq(Char)] /\ out'[c] = rest
        /\ \A d \in Clients \ {c} : out'[d] = out[d]
    BY ONLY <1>3, <1>4, <1>6, c \in Clients
  <1>8. Sockets' /\ \A d : Waits(d)' <=> Waits(d)
    BY <1>6, <1>7, ReadTypes
  <1>9. read'[c] = Upto(c) /\ \A d \in Clients \ {c} : read'[d] = read[d]
    BY ONLY <1>1, <1>6, c \in Clients
  <1>10. ReadWhatWasSent'
    BY <1>2, <1>5, <1>9 DEF ReadWhatWasSent
  <1>11. NothingBefore'
    BY <1>1, <1>5, <1>7 DEF NothingBefore
  <1>12. Echoed'
    <2> SUFFICES ASSUME NEW d \in Clients, Listens(d)' PROVE (got[d] \o out[d] = Answer(read[d]))'
      BY DEF Echoed
    <2>1. got[d] \o out[d] = Answer(read[d])
      BY <1>1, <1>5 DEF Echoed, Listens
    <2>2. CASE d = c
      <3>1. got[c] = Answer(read[c])
        BY <1>6, <2>1, <2>2, ConcatEmptySeq
      <3>2. got'[c] \o out'[c] = Answer(Upto(c))
        BY <1>3, <1>7, <3>1
      <3>3. QED
        BY <1>9, <2>2, <3>2 DEF Answer
    <2>3. CASE d # c
      BY <1>7, <1>9, <2>1, <2>3 DEF Answer
    <2>4. QED
      BY <2>2, <2>3
  <1>13. QED
    BY <1>1, <1>7, <1>8, <1>10, <1>11, <1>12 DEF Exchange

(* The end of file, or an error, and nothing left to write. *)
LEMMA EndExchange ==
  ASSUME Sockets, Exchange, NEW c \in Clients, peer[c] # "none",
         \/ (readEnd(c) \/ readError(c)) /\ UNCHANGED out
         \/ raisesSIGPIPE(c) /\ out' = [out EXCEPT ![c] = <<>>] /\ UNCHANGED <<read, peer>>,
         fds' \in [Clients -> 0 .. 2], UNCHANGED <<backlog, sent, got, taken>>
  PROVE  /\ Sockets' /\ Exchange' /\ \A d : Waits(d)' <=> Waits(d)
         /\ peer[c] \notin {"none", "open"} /\ UNCHANGED read
         /\ peer' = peer \/ (peer[c] = "reset" /\ peer' = [peer EXCEPT ![c] = "broken"])
         /\ peer[c] = "eof" => read[c] = sent[c] /\ UNCHANGED out
  <1>1. /\ peer[c] \notin {"none", "open"} /\ UNCHANGED read
        /\ peer' = peer \/ (peer[c] = "reset" /\ peer' = [peer EXCEPT ![c] = "broken"])
        /\ peer[c] = "eof" => read[c] = sent[c] /\ UNCHANGED out
        /\ out' = out \/ (peer[c] = "broken" /\ out' = [out EXCEPT ![c] = <<>>] /\ UNCHANGED peer)
    BY DEF readEnd, readError, raisesSIGPIPE
  <1>2. NetTypeOK /\ ReadWhatWasSent /\ NothingBefore /\ Echoed
    BY DEF Sockets, Exchange
  <1>3. out \in [Clients -> Seq(Char)] /\ peer \in [Clients -> Peers] /\ got \in [Clients -> Seq(Char)]
    BY <1>2 DEF NetTypeOK
  <1>4. out' \in [Clients -> Seq(Char)] /\ \A d \in Clients : out'[d] = out[d] \/ (out'[d] = <<>> /\ peer[d] = "broken")
    BY <1>1, <1>3, EmptySeq
  <1>5. /\ peer' \in [Clients -> Peers]
        /\ \A d \in Clients : peer'[d] = peer[d] \/ (peer[d] = "reset" /\ peer'[d] = "broken")
    BY <1>1, <1>3 DEF Peers
  <1>6. NetTypeOK'
    BY <1>1, <1>2, <1>4, <1>5 DEF NetTypeOK
  <1>7. Sockets' /\ \A d : Waits(d)' <=> Waits(d)
    BY <1>5, <1>6, SocketsKept
  <1>8. ReadWhatWasSent' /\ NothingBefore'
    BY <1>1, <1>2, <1>4, <1>5 DEF ReadWhatWasSent, NothingBefore
  <1>9. Echoed'
    <2> SUFFICES ASSUME NEW d \in Clients, Listens(d)' PROVE (got[d] \o out[d] = Answer(read[d]))'
      BY DEF Echoed
    <2>1. Listens(d) /\ peer'[d] = peer[d] /\ peer[d] \in {"open", "eof"}
      BY <1>5 DEF Listens
    <2>2. got[d] \o out[d] = Answer(read[d])
      BY <1>2, <2>1 DEF Echoed
    <2>3. out'[d] = out[d]
      BY <1>4, <2>1
    <2>4. QED
      BY <1>1, <2>2, <2>3 DEF Answer
  <1>10. QED
    BY <1>1, <1>7, <1>8, <1>9 DEF Exchange

(* A client that has been read to the end, with nothing left to write. *)
LEMMA AnsweredInFull ==
  ASSUME Sockets, Exchange, NEW c \in Clients, Listens(c), read[c] = sent[c], out[c] = <<>>
  PROVE  got[c] = Answer(sent[c])
  <1>1. got[c] \o out[c] = Answer(read[c])
    BY DEF Exchange, Echoed
  <1>2. got[c] \in Seq(Char)
    BY DEF Sockets, NetTypeOK
  <1>3. got[c] \o <<>> = got[c]
    BY <1>2, ConcatEmptySeq
  <1>4. QED
    BY <1>1, <1>3

(* What a write() to a client that listens takes from `out` goes to `got`. *)
LEMMA WriteSomeIs ==
  ASSUME NetTypeOK, NEW c \in Clients, writeSome(c)
  PROVE  \E n \in 1 .. Len(out[c]) :
            /\ got' = [got EXCEPT ![c] = @ \o SubSeq(out[c], 1, n)]
            /\ out' = [out EXCEPT ![c] = SubSeq(@, n + 1, Len(@))]
            /\ out[c] # <<>>
            /\ got'[c] \in Seq(Char) /\ out'[c] \in Seq(Char)
            /\ got'[c] \o out'[c] = got[c] \o out[c]
            /\ Len(got[c]) \in Nat /\ Len(got'[c]) = Len(got[c]) + n
  <1> DEFINE n == Least(Len(out[c]), Room - (Len(got[c]) - taken[c]))
  <1>1. /\ n > 0
        /\ got' = [got EXCEPT ![c] = @ \o SubSeq(out[c], 1, n)]
        /\ out' = [out EXCEPT ![c] = SubSeq(@, n + 1, Len(@))]
    BY DEF writeSome
  <1>2. /\ got \in [Clients -> Seq(Char)] /\ out \in [Clients -> Seq(Char)]
        /\ got[c] \in Seq(Char) /\ out[c] \in Seq(Char) /\ taken[c] \in Nat
    BY DEF NetTypeOK
  <1>3. Len(got[c]) \in Nat /\ Len(out[c]) \in Nat
    BY <1>2, LenProperties
  <1>4. n \in 1 .. Len(out[c])
    <2>1. Room - (Len(got[c]) - taken[c]) \in Int
      BY <1>2, <1>3, EchoAssumption
    <2>2. n \in Int /\ n <= Len(out[c])
      BY <1>3, <2>1 DEF Least
    <2> HIDE DEF n
    <2>3. QED
      BY <1>1, <1>3, <2>2
  <1> HIDE DEF n
  <1>5. /\ SubSeq(out[c], 1, n) \in Seq(Char) /\ Len(SubSeq(out[c], 1, n)) = n
        /\ SubSeq(out[c], n + 1, Len(out[c])) \in Seq(Char)
        /\ (got[c] \o SubSeq(out[c], 1, n)) \o SubSeq(out[c], n + 1, Len(out[c])) = got[c] \o out[c]
    BY <1>2, <1>4, SplitConcat
  <1>6. got'[c] = got[c] \o SubSeq(out[c], 1, n) /\ out'[c] = SubSeq(out[c], n + 1, Len(out[c]))
    BY <1>1, <1>2
  <1>7. got'[c] \in Seq(Char) /\ Len(got'[c]) = Len(got[c]) + n
    BY <1>2, <1>5, <1>6, ConcatProperties
  <1>8. out[c] # <<>>
    BY <1>3, <1>4, EmptySeq
  <1>9. QED
    BY <1>1, <1>3, <1>4, <1>5, <1>6, <1>7, <1>8

LEMMA WriteSockets ==
  ASSUME Sockets, NEW c \in Clients, write(c), UNCHANGED <<backlog, sent, read, taken, fds>>
  PROVE  /\ Sockets' /\ \A d : Waits(d)' <=> Waits(d)
         /\ out[c] # <<>> /\ peer[c] # "none"
         /\ \A d \in Clients : peer'[d] = peer[d] \/ (peer[d] = "reset" /\ peer'[d] = "broken")
         /\ \A d \in Clients \ {c} : got'[d] = got[d] /\ out'[d] = out[d]
         /\ Listens(c) => got'[c] \o out'[c] = got[c] \o out[c]
  <1>1. NetTypeOK /\ got \in [Clients -> Seq(Char)] /\ out \in [Clients -> Seq(Char)] /\ peer \in [Clients -> Peers]
    BY DEF Sockets, NetTypeOK
  <1>2. CASE writeSome(c)
    <2>1. PICK n \in 1 .. Len(out[c]) :
            /\ got' = [got EXCEPT ![c] = @ \o SubSeq(out[c], 1, n)]
            /\ out' = [out EXCEPT ![c] = SubSeq(@, n + 1, Len(@))]
            /\ out[c] # <<>>
            /\ got'[c] \in Seq(Char) /\ out'[c] \in Seq(Char)
            /\ got'[c] \o out'[c] = got[c] \o out[c]
      BY <1>1, <1>2, WriteSomeIs
    <2>2. Listens(c) /\ UNCHANGED peer
      BY <1>2 DEF writeSome
    <2> DEFINE g == got[c] \o SubSeq(out[c], 1, n)
    <2> DEFINE o == SubSeq(out[c], n + 1, Len(out[c]))
    <2>3. got' = [got EXCEPT ![c] = g] /\ out' = [out EXCEPT ![c] = o]
      BY <2>1
    <2> HIDE DEF g, o
    <2>4. g \in Seq(Char) /\ o \in Seq(Char)
      BY <1>1, <2>1, <2>3
    <2>5. /\ got' \in [Clients -> Seq(Char)] /\ out' \in [Clients -> Seq(Char)]
          /\ \A d \in Clients \ {c} : got'[d] = got[d] /\ out'[d] = out[d]
      BY ONLY <1>1, <2>3, <2>4, c \in Clients
    <2>6. NetTypeOK'
      BY <1>1, <2>2, <2>5 DEF NetTypeOK
    <2>7. Sockets' /\ \A d : Waits(d)' <=> Waits(d)
      BY <2>2, <2>6, SocketsKept
    <2>8. QED
      BY <2>1, <2>2, <2>5, <2>7 DEF Listens
  <1>3. CASE writeLost(c)
    <2>1. /\ out[c] # <<>> /\ peer[c] \in {"closed", "reset"} /\ out' = [out EXCEPT ![c] = <<>>]
          /\ peer' = [peer EXCEPT ![c] = IF @ = "reset" THEN "broken" ELSE @] /\ UNCHANGED got
      BY <1>3 DEF writeLost
    <2>2. /\ peer' \in [Clients -> Peers]
          /\ \A d \in Clients : peer'[d] = peer[d] \/ (peer[d] = "reset" /\ peer'[d] = "broken")
      BY <1>1, <2>1 DEF Peers
    <2>3. out' \in [Clients -> Seq(Char)] /\ \A d \in Clients \ {c} : out'[d] = out[d]
      BY <1>1, <2>1, EmptySeq
    <2>4. NetTypeOK'
      BY <1>1, <2>1, <2>2, <2>3 DEF NetTypeOK
    <2>5. Sockets' /\ \A d : Waits(d)' <=> Waits(d)
      BY <2>2, <2>4, SocketsKept
    <2>6. QED
      BY <2>1, <2>2, <2>3, <2>5 DEF Listens
  <1>4. QED
    BY <1>2, <1>3 DEF write

LEMMA WriteExchange ==
  ASSUME Sockets, Exchange, NEW c \in Clients, write(c), UNCHANGED <<backlog, sent, read, taken, fds>>
  PROVE  Exchange'
  <1>1. /\ peer[c] # "none"
        /\ \A d \in Clients : peer'[d] = peer[d] \/ (peer[d] = "reset" /\ peer'[d] = "broken")
        /\ \A d \in Clients \ {c} : got'[d] = got[d] /\ out'[d] = out[d]
        /\ Listens(c) => got'[c] \o out'[c] = got[c] \o out[c]
    BY WriteSockets
  <1>2. ReadWhatWasSent /\ NothingBefore /\ Echoed
    BY DEF Exchange
  <1>3. ReadWhatWasSent' /\ NothingBefore'
    BY <1>1, <1>2 DEF ReadWhatWasSent, NothingBefore
  <1>4. Echoed'
    <2> SUFFICES ASSUME NEW d \in Clients, Listens(d)' PROVE (got[d] \o out[d] = Answer(read[d]))'
      BY DEF Echoed
    <2>1. Listens(d)
      BY <1>1 DEF Listens
    <2>2. got'[d] \o out'[d] = got[d] \o out[d]
      BY <1>1, <2>1
    <2>3. got[d] \o out[d] = Answer(read[d])
      BY <1>2, <2>1 DEF Echoed
    <2>4. QED
      BY <2>2, <2>3 DEF Answer
  <1>5. QED
    BY <1>3, <1>4 DEF Exchange

(* A process that is gone, and its descriptors with it. *)
LEMMA DropSockets ==
  ASSUME Sockets, Drop(Clients), UNCHANGED <<peer, backlog, sent, read, out, got, taken>>
  PROVE  Sockets' /\ (Exchange => Exchange') /\ \A d : Waits(d)' <=> Waits(d)
  <1>1. fds' = [c \in Clients |-> IF fds[c] > 0 THEN fds[c] - 1 ELSE fds[c]]
    BY DEF Drop
  <1>2. NetTypeOK /\ fds \in [Clients -> 0 .. 2]
    BY DEF Sockets, NetTypeOK
  <1>3. fds' \in [Clients -> 0 .. 2]
    BY <1>1, <1>2
  <1>4. NetTypeOK'
    BY <1>2, <1>3 DEF NetTypeOK
  <1>5. Sockets' /\ \A d : Waits(d)' <=> Waits(d)
    BY <1>4, SocketsKept
  <1>6. Exchange => Exchange'
    BY DEF Exchange, ReadWhatWasSent, NothingBefore, Echoed, Listens, Answer
  <1>7. QED
    BY <1>5, <1>6

LEMMA CloseFds ==
  ASSUME NetTypeOK, NEW c \in Clients, fds[c] >= 1, close(c)
  PROVE  /\ fds' \in [Clients -> 0 .. 2] /\ fds'[c] = fds[c] - 1
         /\ \A d \in Clients \ {c} : fds'[d] = fds[d]
  <1>1. fds \in [Clients -> 0 .. 2] /\ fds' = [fds EXCEPT ![c] = @ - 1]
    BY DEF NetTypeOK, close
  <1>2. QED
    BY ONLY <1>1, c \in Clients, fds[c] >= 1

------------------------------------------------------------------------------
(* epoll: the inductive invariant, and every step keeps it *)

(* While the server runs, it knows the descriptors it answers. *)
Owned ==
    process = "runs" =>
        /\ ep \subseteq interest \cup {NoClient}
        /\ \A c \in interest : fds[c] = 1 /\ peer[c] # "none" /\ ~Waits(c)
        /\ \A c \in Clients : out[c] # <<>> => c \in interest

IInv == TypeOK /\ program = "epoll" /\ Sockets /\ Exchange /\ Owned

LEMMA InitIInv == Init => IInv
  <1> SUFFICES ASSUME Init PROVE IInv
    OBVIOUS
  <1>1. NetInit /\ interest = {} /\ ep = {} /\ program = "epoll" /\ process = "runs"
    BY DEF Init, Off
  <1>2. Sockets /\ Exchange
    BY <1>1, InitSockets
  <1>3. \A c \in Clients : out[c] = <<>>
    BY <1>1 DEF NetInit
  <1>4. QED
    BY <1>1, <1>2, <1>3 DEF IInv, TypeOK, Sockets, Owned

LEMMA ClientIInv ==
  ASSUME IInv, process = "runs", NEW c \in Clients, ClientStep(c), UNCHANGED own
  PROVE  IInv'
  <1>1. UNCHANGED <<interest, ep, process>>
    BY DEF own
  <1>2. /\ Sockets' /\ UNCHANGED <<program, out, fds>>
        /\ \A d \in Clients : peer[d] # "none" => peer'[d] # "none" /\ (Waits(d)' <=> Waits(d))
    BY ClientSockets DEF IInv
  <1>3. Exchange'
    BY ClientExchange DEF IInv
  <1>4. TypeOK'
    BY <1>1, <1>2 DEF IInv, TypeOK, Sockets
  <1>5. Owned'
    <2>1. Owned /\ interest \subseteq Clients
      BY DEF IInv, TypeOK
    <2>2. QED
      BY <1>1, <1>2, <2>1 DEF Owned
  <1>6. QED
    BY <1>2, <1>3, <1>4, <1>5 DEF IInv

LEMMA EpollWaitIInv ==
  ASSUME IInv, EpollWait
  PROVE  IInv'
  <1>1. ep' = ReadyList /\ UNCHANGED <<net, interest, process>>
    BY DEF EpollWait
  <1>2. ep' \subseteq interest \cup {NoClient}
    BY <1>1 DEF ReadyList
  <1>3. NetTypeOK' /\ UNCHANGED <<program, peer, backlog, sent, read, out, got, taken, fds>>
    BY <1>1 DEF IInv, TypeOK, NetTypeOK, net
  <1>4. Sockets' /\ Exchange'
    BY <1>3, SocketsKept DEF IInv, Exchange, ReadWhatWasSent, NothingBefore, Echoed, Listens, Answer
  <1>5. TypeOK' /\ Owned'
    BY <1>1, <1>2, <1>3 DEF IInv, TypeOK, Owned, Waits
  <1>6. QED
    BY <1>3, <1>4, <1>5 DEF IInv

LEMMA AcceptIInv ==
  ASSUME IInv, Accept
  PROVE  IInv'
  <1>1. PICK c \in Clients : accept(c) /\ interest' = interest \cup {c}
    BY DEF Accept
  <1>2. /\ process = "runs" /\ ep' = ep \ {NoClient}
        /\ UNCHANGED <<program, peer, sent, read, out, got, taken, process>>
    BY DEF Accept, Free
  <1>3. /\ Sockets' /\ Waits(c) /\ peer[c] # "none"
        /\ \A d : Waits(d)' <=> Waits(d) /\ d # c
        /\ fds'[c] = 1 /\ \A d \in Clients \ {c} : fds'[d] = fds[d]
        /\ Exchange'
    BY <1>1, <1>2, AcceptSockets DEF IInv
  <1>4. TypeOK'
    BY <1>1, <1>2, <1>3 DEF IInv, TypeOK, Sockets
  <1>5. Owned'
    BY <1>1, <1>2, <1>3 DEF IInv, Owned, TypeOK
  <1>6. QED
    BY <1>2, <1>3, <1>4, <1>5 DEF IInv

LEMMA HandleDataIInv ==
  ASSUME IInv, NEW c \in Clients, HandleData(c)
  PROVE  IInv'
  <1>1. /\ process = "runs" /\ c \in ep /\ ep' = ep \ {c} /\ out[c] = <<>>
        /\ readData(c) /\ out' = [out EXCEPT ![c] = SubSeq(Answer(Upto(c)), read[c] + 1, Upto(c))]
        /\ UNCHANGED <<program, backlog, sent, got, taken, fds, interest, process>>
    BY DEF HandleData, Handle, Free
  <1>2. c \in interest /\ peer[c] # "none"
    BY <1>1, EchoAssumption DEF IInv, Owned
  <1>3. /\ Sockets' /\ Exchange' /\ UNCHANGED peer /\ \A d : Waits(d)' <=> Waits(d)
        /\ \A d \in Clients \ {c} : out'[d] = out[d]
    BY <1>1, <1>2, ReadExchange DEF IInv
  <1>4. TypeOK'
    BY <1>1, <1>3 DEF IInv, TypeOK, Sockets
  <1>5. Owned'
    BY <1>1, <1>2, <1>3 DEF IInv, Owned
  <1>6. QED
    BY <1>1, <1>3, <1>4, <1>5 DEF IInv

LEMMA HandleEndIInv ==
  ASSUME IInv, NEW c \in Clients, HandleEnd(c)
  PROVE  IInv'
  <1>1. /\ process = "runs" /\ c \in ep /\ ep' = ep \ {c} /\ \A d \in Clients : out[d] = <<>>
        /\ (readEnd(c) \/ readError(c)) /\ UNCHANGED out
        /\ interest' = interest \ {c} /\ close(c)
        /\ UNCHANGED <<program, backlog, sent, out, got, taken, process>>
    BY DEF HandleEnd, Handle, Free
  <1>2. c \in interest /\ fds[c] = 1 /\ peer[c] # "none"
    BY <1>1, EchoAssumption DEF IInv, Owned
  <1>3. fds' \in [Clients -> 0 .. 2] /\ \A d \in Clients \ {c} : fds'[d] = fds[d]
    BY <1>1, <1>2, CloseFds DEF IInv, TypeOK
  <1>4. /\ Sockets' /\ Exchange' /\ \A d : Waits(d)' <=> Waits(d)
        /\ peer' = peer \/ (peer[c] = "reset" /\ peer' = [peer EXCEPT ![c] = "broken"])
    BY <1>1, <1>2, <1>3, EndExchange DEF IInv
  <1>5. \A d \in Clients : peer[d] # "none" => peer'[d] # "none"
    BY <1>4 DEF IInv, Sockets, NetTypeOK
  <1>6. TypeOK'
    BY <1>1, <1>4 DEF IInv, TypeOK, Sockets
  <1>7. Owned'
    BY <1>1, <1>3, <1>4, <1>5 DEF IInv, Owned, TypeOK
  <1>8. QED
    BY <1>1, <1>4, <1>6, <1>7 DEF IInv

LEMMA WriteIInv ==
  ASSUME IInv, NEW c \in Clients, Write(c)
  PROVE  IInv'
  <1>1. process = "runs" /\ write(c) /\ UNCHANGED <<program, backlog, sent, read, taken, fds, interest, ep, process>>
    BY DEF Write, own
  <1>2. /\ Sockets' /\ \A d : Waits(d)' <=> Waits(d)
        /\ out[c] # <<>>
        /\ \A d \in Clients : peer'[d] = peer[d] \/ (peer[d] = "reset" /\ peer'[d] = "broken")
        /\ \A d \in Clients \ {c} : got'[d] = got[d] /\ out'[d] = out[d]
    BY <1>1, WriteSockets DEF IInv
  <1>3. Exchange'
    BY <1>1, WriteExchange DEF IInv
  <1>4. TypeOK'
    BY <1>1, <1>2 DEF IInv, TypeOK, Sockets
  <1>5. Owned'
    <2>1. Owned /\ interest \subseteq Clients
      BY DEF IInv, TypeOK
    <2>2. QED
      BY <1>1, <1>2, <2>1 DEF Owned
  <1>6. QED
    BY <1>1, <1>2, <1>3, <1>4, <1>5 DEF IInv

(* The end of the process: nothing is owned any more. *)
LEMMA DeathIInv ==
  ASSUME IInv, process' = "dead", Drop(Clients),
         UNCHANGED <<program, peer, backlog, sent, read, out, got, taken, interest, ep>>
  PROVE  IInv'
  <1>1. Sockets' /\ Exchange'
    BY DropSockets DEF IInv
  <1>2. TypeOK' /\ Owned'
    BY <1>1 DEF IInv, TypeOK, Sockets, Owned
  <1>3. QED
    BY <1>1, <1>2 DEF IInv

LEMMA StepIInv == IInv /\ [Next]_vars => IInv'
  <1> SUFFICES ASSUME IInv, [Next]_vars PROVE IInv'
    OBVIOUS
  <1>1. CASE UNCHANGED vars
    <2>1. UNCHANGED <<net, interest, ep, process>> /\ NetTypeOK' /\ UNCHANGED <<program, peer, backlog, sent, read, out, got, taken, fds>>
      BY <1>1 DEF vars, own, net, IInv, TypeOK, NetTypeOK
    <2>2. Sockets' /\ Exchange'
      BY <2>1, SocketsKept DEF IInv, Exchange, ReadWhatWasSent, NothingBefore, Echoed, Listens, Answer
    <2>3. QED
      BY <2>1, <2>2 DEF IInv, TypeOK, Owned, Waits
  <1>2. CASE EpollWait
    BY <1>2, EpollWaitIInv
  <1>3. CASE Accept
    BY <1>3, AcceptIInv
  <1>4. CASE AcceptFails
    BY <1>4, DeathIInv DEF AcceptFails
  <1>5. ASSUME NEW c \in Clients, HandleData(c) PROVE IInv'
    BY <1>5, HandleDataIInv
  <1>6. ASSUME NEW c \in Clients, HandleEnd(c) PROVE IInv'
    BY <1>6, HandleEndIInv
  <1>7. ASSUME NEW c \in Clients, Write(c) PROVE IInv'
    BY <1>7, WriteIInv
  <1>8. ASSUME NEW c \in Clients, Killed(c) PROVE IInv'
    BY <1>8, DeathIInv DEF Killed
  <1>9. ASSUME NEW c \in Clients, ClientStep(c), process = "runs", UNCHANGED own PROVE IInv'
    BY <1>9, ClientIInv
  <1>10. QED
    BY <1>1, <1>2, <1>3, <1>4, <1>5, <1>6, <1>7, <1>8, <1>9 DEF Next, Loop

LEMMA Inductive == Spec => []IInv
  BY InitIInv, StepIInv, PTL DEF Spec

(* Every variable keeps its type, whatever the clients, the text, the      *)
(* buffers' sizes and the faults: no connection is closed twice (fds is    *)
(* never below 0: Close(sockfd) in the loop of server.cc).                 *)
THEOREM TypeCorrect == Spec => []TypeOK
  <1>1. IInv => TypeOK
    BY DEF IInv
  <1>2. QED
    BY <1>1, Inductive, PTL

(* A client that listens has been written, or is about to be, exactly what *)
(* has been read from it in capitals, wherever write() was cut short.      *)
THEOREM EchoCorrect == Spec => []EchoExact
  <1>1. IInv => EchoExact
    BY DEF IInv, Exchange, Echoed, EchoExact
  <1>2. QED
    BY <1>1, Inductive, PTL

------------------------------------------------------------------------------
(* What EchoService sees of the sockets, apart from the server's end *)

standing ==
    [c \in Clients |->
        IF peer[c] \in {"none", "open"} THEN "talking" ELSE IF peer[c] = "eof" THEN "finished" ELSE "gone"]

over == [c \in Clients |-> Ended(c)]

Serving == INSTANCE EchoService WITH said <- sent, heard <- got, crashed <- FALSE

Serves(c) == Serving!Say(c) \/ Serving!Leave(c) \/ Serving!Reply(c) \/ Serving!End(c)

LEMMA SameAnswer == ASSUME NEW n PROVE Serving!Answer(n) = Answer(n)
  BY DEF Serving!Answer, Answer

LEMMA EndedSame ==
  ASSUME NEW c, Ended(c)' <=> Ended(c)
  PROVE  Ended(c)' = Ended(c)
  BY Zenon DEF Ended

LEMMA OverKept ==
  ASSUME \A c \in Clients : Ended(c)' <=> Ended(c)
  PROVE  UNCHANGED over
  <1>1. \A c \in Clients : Ended(c)' = Ended(c)
    BY EndedSame
  <1>2. QED
    BY <1>1, Zenon DEF over

(* A connection whose descriptors and whose client are as known as before. *)
LEMMA EndedKept ==
  ASSUME \A c \in Clients : (peer'[c] = "none" <=> peer[c] = "none") /\ (fds'[c] = 0 <=> fds[c] = 0),
         \A d : Waits(d)' <=> Waits(d)
  PROVE  UNCHANGED over
  <1>1. \A c \in Clients : Ended(c)' <=> Ended(c)
    BY DEF Ended, Accepted
  <1>2. QED
    BY <1>1, OverKept

LEMMA StandingKept ==
  ASSUME \A c \in Clients : \/ peer'[c] = peer[c]
                            \/ peer[c] = "none" /\ peer'[c] = "open"
                            \/ peer[c] \in {"closed", "reset"} /\ peer'[c] = "broken"
  PROVE  UNCHANGED standing
  BY DEF standing

(* The service sees nothing of connect() and accept(), ... *)
LEMMA ConnectServes ==
  ASSUME Sockets, NEW c \in Clients, Connect(c)
  PROVE  UNCHANGED <<sent, got, standing, over>>
  <1>1. /\ peer[c] = "none" /\ peer'[c] = "open" /\ \A d \in Clients \ {c} : peer'[d] = peer[d]
        /\ \A d : Waits(d)' <=> Waits(d) \/ d = c
        /\ UNCHANGED <<sent, got, fds>>
    BY ConnectSockets
  <1>2. UNCHANGED standing
    BY <1>1, StandingKept
  <1>3. \A d \in Clients : Ended(d)' <=> Ended(d)
    BY <1>1 DEF Ended, Accepted
  <1>4. QED
    BY <1>1, <1>2, <1>3, OverKept

LEMMA AcceptServes ==
  ASSUME Sockets, NEW c \in Clients, accept(c), UNCHANGED <<peer, sent, read, out, got, taken>>
  PROVE  UNCHANGED <<sent, got, standing, over>>
  <1>1. /\ Waits(c) /\ \A d : Waits(d)' <=> Waits(d) /\ d # c
        /\ fds'[c] = 1 /\ \A d \in Clients \ {c} : fds'[d] = fds[d]
    BY AcceptSockets
  <1>2. UNCHANGED standing
    BY StandingKept
  <1>3. \A d \in Clients : Ended(d)' <=> Ended(d)
    BY <1>1 DEF Ended, Accepted
  <1>4. QED
    BY <1>2, <1>3, OverKept

(* ... but of a client that sends or leaves, ... *)
LEMMA SendServes ==
  ASSUME Sockets, NEW c \in Clients, Send(c)
  PROVE  Serving!Say(c)
  <1>1. /\ sent[c] < Len(Text) /\ sent' = [sent EXCEPT ![c] = @ + 1]
        /\ UNCHANGED <<peer, backlog, got, fds>>
    BY DEF Send
  <1>2. UNCHANGED <<standing, over>>
    BY <1>1, StandingKept, EndedKept DEF Waits
  <1>3. QED
    BY <1>1, <1>2 DEF Serving!Say

LEMMA LeaveServes ==
  ASSUME Sockets, NEW c \in Clients, Leave(c)
  PROVE  Serving!Leave(c) \/ UNCHANGED <<sent, got, standing, over>>
  <1>1. /\ peer[c] \in {"open", "eof", "closed"} /\ peer'[c] \in {"eof", "closed", "reset", "broken"}
        /\ peer'[c] = "eof" => peer[c] = "open"
        /\ peer[c] = "closed" => peer'[c] = "broken"
        /\ \A d \in Clients \ {c} : peer'[d] = peer[d]
        /\ UNCHANGED <<backlog, sent, got, fds>>
    BY LeaveSockets
  <1>2. UNCHANGED over
    BY <1>1, EndedKept DEF Waits
  <1>3. CASE peer[c] = "closed"
    BY <1>1, <1>2, <1>3, StandingKept
  <1>4. CASE peer[c] # "closed"
    <2>1. standing' = [standing EXCEPT ![c] = IF peer'[c] = "eof" THEN "finished" ELSE "gone"]
      BY <1>1, <1>4 DEF standing
    <2>2. standing[c] = IF peer[c] = "open" THEN "talking" ELSE "finished"
      BY <1>1, <1>4 DEF standing
    <2>3. \/ standing[c] = "talking" /\ standing' = [standing EXCEPT ![c] = "finished"]
          \/ standing[c] # "gone" /\ standing' = [standing EXCEPT ![c] = "gone"]
      BY <1>1, <1>4, <2>1, <2>2
    <2>4. QED
      BY <1>1, <1>2, <2>3 DEF Serving!Leave
  <1>5. QED
    BY <1>3, <1>4

LEMMA ClientServes ==
  ASSUME Sockets, NEW c \in Clients, ClientStep(c)
  PROVE  Serves(c) \/ UNCHANGED <<sent, got, standing, over>>
  <1>1. CASE Connect(c)
    BY <1>1, ConnectServes
  <1>2. CASE Send(c)
    BY <1>2, SendServes DEF Serves
  <1>3. CASE Leave(c)
    BY <1>3, LeaveServes DEF Serves
  <1>4. CASE Receive(c)
    BY <1>4, ReceiveSockets, StandingKept, EndedKept DEF Waits
  <1>5. QED
    BY <1>1, <1>2, <1>3, <1>4 DEF ClientStep

(* ... of a write() to a client that listens, ... *)
LEMMA WriteServes ==
  ASSUME Sockets, Exchange, NEW c \in Clients, fds[c] # 0, write(c),
         UNCHANGED <<backlog, sent, read, taken, fds>>
  PROVE  Serves(c) \/ UNCHANGED <<sent, got, standing, over>>
  <1>1. /\ Sockets' /\ \A d : Waits(d)' <=> Waits(d)
        /\ \A d \in Clients : peer'[d] = peer[d] \/ (peer[d] = "reset" /\ peer'[d] = "broken")
    BY WriteSockets
  <1>2. Exchange'
    BY WriteExchange
  <1>3. UNCHANGED standing
    BY <1>1, StandingKept
  <1>4. UNCHANGED over
    BY <1>1, EndedKept
  <1>5. CASE writeLost(c)
    BY <1>3, <1>4, <1>5 DEF writeLost
  <1>6. CASE writeSome(c)
    <2>1. PICK n \in 1 .. Len(out[c]) :
            /\ got' = [got EXCEPT ![c] = @ \o SubSeq(out[c], 1, n)]
            /\ Len(got[c]) \in Nat /\ Len(got'[c]) = Len(got[c]) + n
      BY <1>6, WriteSomeIs DEF Sockets
    <2>2. Listens(c)'
      BY <1>6 DEF writeSome, Listens
    <2>3. Len(got'[c]) \in 0 .. read'[c] /\ got'[c] = Answer(Len(got'[c]))
      <3>1. got'[c] \in Seq(Char) /\ out'[c] \in Seq(Char) /\ read'[c] \in 0 .. Len(Text)
        BY <1>1 DEF Sockets, NetTypeOK
      <3>2. got'[c] \o out'[c] = Answer(read'[c])
        BY <1>2, <2>2 DEF Exchange, Echoed, Answer
      <3>3. QED
        BY <3>1, <3>2, PrefixIsAnswer
    <2>4. read[c] <= sent[c] /\ read[c] \in Nat /\ sent[c] \in Nat /\ Len(out[c]) \in Nat
      BY LenProperties DEF Sockets, Exchange, ReadWhatWasSent, NetTypeOK
    <2>5. Len(got'[c]) \in Len(got[c]) + 1 .. sent[c]
      BY <2>1, <2>3, <2>4
    <2>6. got' = [got EXCEPT ![c] = Serving!Answer(Len(got'[c]))]
      <3> DEFINE g == got[c] \o SubSeq(out[c], 1, n)
      <3>1. got' = [got EXCEPT ![c] = g]
        BY <2>1
      <3>2. got \in [Clients -> Seq(Char)]
        BY DEF Sockets, NetTypeOK
      <3> HIDE DEF g
      <3>3. got'[c] = g
        BY <3>1, <3>2
      <3>4. Serving!Answer(Len(got'[c])) = g
        BY <2>3, <3>3, SameAnswer
      <3>5. QED
        BY <3>1, <3>4
    <2>7. \E m \in Len(got[c]) + 1 .. sent[c] : got' = [got EXCEPT ![c] = Serving!Answer(m)]
      BY <2>5, <2>6, Zenon
    <2>8. ~over[c]
      BY DEF over, Ended
    <2>9. QED
      BY <1>3, <1>4, <2>7, <2>8, Zenon DEF Serves, Serving!Reply
  <1>7. QED
    BY <1>5, <1>6 DEF write

(* ... and of the last close() of the connection of a client that has left *)
(* or has been answered in full.                                           *)
LEMMA CloseServes ==
  ASSUME Sockets, NEW c \in Clients,
         peer[c] \notin {"none", "open"} /\ (peer[c] = "eof" => got[c] = Answer(sent[c])), ~Waits(c),
         \A d : Waits(d)' <=> Waits(d),
         \A d \in Clients : peer'[d] = peer[d] \/ (peer[d] = "reset" /\ peer'[d] = "broken"),
         \A d \in Clients \ {c} : fds'[d] = fds[d], fds[c] # 0,
         UNCHANGED <<sent, got>>
  PROVE  Serves(c) \/ UNCHANGED <<sent, got, standing, over>>
  <1>1. UNCHANGED standing
    BY StandingKept
  <1>2. \A d \in Clients : peer'[d] = "none" <=> peer[d] = "none"
    OBVIOUS
  <1>3. CASE fds'[c] # 0
    <2>1. UNCHANGED over
      BY <1>2, <1>3, EndedKept
    <2>2. QED
      BY <1>1, <2>1
  <1>4. CASE fds'[c] = 0
    <2>1. Ended(c)' /\ \A d \in Clients \ {c} : Ended(d)' <=> Ended(d)
      BY <1>2, <1>4 DEF Ended, Accepted
    <2>2. Ended(c)' = TRUE
      BY <2>1, Zenon DEF Ended
    <2>3. \A d \in Clients \ {c} : Ended(d)' = Ended(d)
      BY <2>1, EndedSame
    <2>4. over' = [over EXCEPT ![c] = TRUE]
      BY <2>2, <2>3 DEF over
    <2>5. standing[c] # "talking" /\ (standing[c] = "finished" => got[c] = Serving!Answer(sent[c]))
      BY SameAnswer DEF standing
    <2>6. QED
      BY <1>1, <2>4, <2>5 DEF Serves, Serving!End
  <1>5. QED
    BY <1>3, <1>4

(* The server comes down: some connections may end with it. *)
LEMMA EndsAre ==
  ASSUME \A c \in Clients : Ended(c) => Ended(c)'
  PROVE  \E C \in SUBSET Clients : over' = [c \in Clients |-> over[c] \/ c \in C]
  <1> DEFINE C == {c \in Clients : Ended(c)'}
  <1>1. \A c \in Clients : Ended(c)' = (over[c] \/ c \in C)
    <2> TAKE c \in Clients
    <2>1. over[c] = Ended(c)
      BY DEF over
    <2>2. c \in C <=> Ended(c)'
      OBVIOUS
    <2> HIDE DEF C
    <2>3. Ended(c)' <=> (over[c] \/ c \in C)
      BY <2>1, <2>2
    <2>4. Ended(c)' \in BOOLEAN
      BY Zenon DEF Ended
    <2>5. QED
      BY <2>3, <2>4, Zenon
  <1>2. C \in SUBSET Clients
    OBVIOUS
  <1> HIDE DEF C
  <1>3. over' = [c \in Clients |-> over[c] \/ c \in C]
    BY <1>1, Zenon DEF over
  <1>4. QED
    BY <1>2, <1>3

------------------------------------------------------------------------------
(* EpollServer implements EchoService *)

LEMMA InitServes ==
  ASSUME NetInit
  PROVE  /\ sent = [c \in Clients |-> 0] /\ got = [c \in Clients |-> <<>>]
         /\ standing = [c \in Clients |-> "talking"] /\ over = [c \in Clients |-> FALSE]
  <1>1. /\ peer = [c \in Clients |-> "none"] /\ sent = [c \in Clients |-> 0] /\ got = [c \in Clients |-> <<>>]
    BY DEF NetInit
  <1>2. \A c \in Clients : ~Ended(c)
    BY <1>1 DEF Ended, Accepted
  <1>3. \A c \in Clients : Ended(c) = FALSE
    BY <1>2, Zenon DEF Ended
  <1>4. over = [c \in Clients |-> FALSE]
    BY <1>3, Zenon DEF over
  <1>5. standing = [c \in Clients |-> "talking"]
    BY <1>1 DEF standing
  <1>6. QED
    BY <1>1, <1>4, <1>5

LEMMA InitRefines == Init => Service!Init
  <1> SUFFICES ASSUME Init PROVE Service!Init
    OBVIOUS
  <1>1. /\ sent = [c \in Clients |-> 0] /\ got = [c \in Clients |-> <<>>]
        /\ standing = [c \in Clients |-> "talking"] /\ over = [c \in Clients |-> FALSE]
    BY InitServes DEF Init
  <1>2. (process = "dead") = FALSE
    BY DEF Init
  <1>3. QED
    BY <1>1, <1>2, Zenon DEF Service!Init, standing, over

LEMMA ServesRefines ==
  ASSUME NEW c \in Clients, Serves(c) \/ UNCHANGED <<sent, got, standing, over>>,
         process' = "dead" <=> process = "dead"
  PROVE  Service!Next \/ UNCHANGED Service!vars
  <1>1. (process = "dead")' = (process = "dead")
    OBVIOUS
  <1>2. CASE UNCHANGED <<sent, got, standing, over>>
    BY <1>1, <1>2, Zenon DEF Service!vars, standing, over
  <1>3. CASE Serves(c)
    <2>1. CASE Serving!Say(c)
      <3>1. Service!Say(c)
        BY <1>1, <2>1, Zenon DEF Serving!Say, Service!Say, standing, over
      <3>2. QED
        BY <3>1 DEF Service!Next
    <2>2. CASE Serving!Leave(c)
      <3>1. Service!Leave(c)
        BY <1>1, <2>2, Zenon DEF Serving!Leave, Service!Leave, standing, over
      <3>2. QED
        BY <3>1 DEF Service!Next
    <2>3. CASE Serving!Reply(c)
      <3>1. Service!Reply(c)
        BY <1>1, <2>3, Zenon DEF Serving!Reply, Service!Reply, Serving!Answer, Service!Answer, standing, over
      <3>2. QED
        BY <3>1 DEF Service!Next
    <2>4. CASE Serving!End(c)
      <3>1. Service!End(c)
        BY <1>1, <2>4, Zenon DEF Serving!End, Service!End, Serving!Answer, Service!Answer, standing, over
      <3>2. QED
        BY <3>1 DEF Service!Next
    <2>5. QED
      BY <1>3, <2>1, <2>2, <2>3, <2>4 DEF Serves
  <1>4. QED
    BY <1>2, <1>3

LEMMA DeathRefines ==
  ASSUME IInv, process' = "dead", Drop(Clients), UNCHANGED <<peer, backlog, sent, got>>
  PROVE  Service!Next
  <1>1. \A c \in Clients : Ended(c) => Ended(c)'
    <2>1. fds' = [c \in Clients |-> IF fds[c] > 0 THEN fds[c] - 1 ELSE fds[c]]
      BY DEF Drop
    <2>2. QED
      BY <2>1 DEF Ended, Accepted, Waits
  <1>2. \E C \in SUBSET Clients : over' = [c \in Clients |-> over[c] \/ c \in C]
    BY <1>1, EndsAre
  <1>3. UNCHANGED standing
    BY DEF standing
  <1>4. (process = "dead")' = TRUE
    OBVIOUS
  <1>5. Service!Crash
    BY <1>2, <1>3, <1>4, Zenon DEF Service!Crash, standing, over
  <1>6. QED
    BY <1>5 DEF Service!Next

LEMMA EndRefines ==
  ASSUME IInv, NEW c \in Clients, HandleEnd(c)
  PROVE  Service!Next \/ UNCHANGED Service!vars
  <1>1. /\ process = "runs" /\ c \in ep /\ out[c] = <<>>
        /\ (readEnd(c) \/ readError(c)) /\ close(c)
        /\ UNCHANGED <<backlog, sent, out, got, taken, process>>
    BY DEF HandleEnd, Handle, Free
  <1>2. fds[c] = 1 /\ peer[c] # "none" /\ ~Waits(c)
    BY <1>1, EchoAssumption DEF IInv, Owned
  <1>3. fds' \in [Clients -> 0 .. 2] /\ \A d \in Clients \ {c} : fds'[d] = fds[d]
    BY <1>1, <1>2, CloseFds DEF IInv, TypeOK
  <1>4. /\ \A d : Waits(d)' <=> Waits(d)
        /\ peer[c] \notin {"none", "open"} /\ (peer[c] = "eof" => read[c] = sent[c])
        /\ peer' = peer \/ (peer[c] = "reset" /\ peer' = [peer EXCEPT ![c] = "broken"])
    BY <1>1, <1>2, <1>3, EndExchange DEF IInv
  <1>5. \A d \in Clients : peer'[d] = peer[d] \/ (peer[d] = "reset" /\ peer'[d] = "broken")
    BY <1>4 DEF IInv, TypeOK, NetTypeOK
  <1>6. peer[c] = "eof" => got[c] = Answer(sent[c])
    BY <1>1, <1>4, AnsweredInFull DEF IInv, Listens
  <1>7. Serves(c) \/ UNCHANGED <<sent, got, standing, over>>
    <2>1. UNCHANGED <<sent, got>> /\ fds[c] # 0 /\ Sockets
      BY <1>1, <1>2 DEF IInv
    <2>2. QED
      BY ONLY <1>2, <1>3, <1>4, <1>5, <1>6, <2>1, c \in Clients, CloseServes
  <1>8. QED
    BY <1>1, <1>7, ServesRefines

LEMMA StepRefines == IInv /\ [Next]_vars => [Service!Next]_(Service!vars)
  <1> SUFFICES ASSUME IInv, [Next]_vars PROVE Service!Next \/ UNCHANGED Service!vars
    OBVIOUS
  <1>0. Sockets /\ Exchange
    BY DEF IInv
  <1>1. ASSUME UNCHANGED <<peer, backlog, sent, got, fds, process>> PROVE UNCHANGED Service!vars
    <2>1. UNCHANGED over
      BY <1>1, EndedKept DEF Waits
    <2>2. UNCHANGED standing
      BY <1>1 DEF standing
    <2>3. (process = "dead")' = (process = "dead")
      BY <1>1
    <2>4. QED
      BY <1>1, <2>1, <2>2, <2>3, Zenon DEF Service!vars, standing, over
  <1>2. CASE UNCHANGED vars
    BY <1>1, <1>2 DEF vars, net, own
  <1>3. CASE EpollWait
    BY <1>1, <1>3 DEF EpollWait, net
  <1>4. CASE Accept
    <2>1. PICK c \in Clients : accept(c) /\ UNCHANGED <<peer, sent, read, out, got, taken, process>>
      BY <1>4 DEF Accept
    <2>2. UNCHANGED <<sent, got, standing, over>>
      BY <1>0, <2>1, AcceptServes
    <2>3. QED
      BY <2>1, <2>2, ServesRefines
  <1>5. CASE AcceptFails
    BY <1>5, DeathRefines DEF AcceptFails
  <1>6. ASSUME NEW c \in Clients, HandleData(c) PROVE UNCHANGED Service!vars
    BY <1>1, <1>6 DEF HandleData, readData
  <1>7. ASSUME NEW c \in Clients, HandleEnd(c) PROVE Service!Next \/ UNCHANGED Service!vars
    BY <1>7, EndRefines
  <1>8. ASSUME NEW c \in Clients, Write(c) PROVE Service!Next \/ UNCHANGED Service!vars
    <2>1. write(c) /\ UNCHANGED <<backlog, sent, read, taken, fds, process>> /\ process = "runs"
      BY <1>8 DEF Write, own
    <2>2. out[c] # <<>>
      BY <1>0, <2>1, WriteSockets
    <2>3. fds[c] # 0
      BY <2>1, <2>2 DEF IInv, Owned
    <2>4. Serves(c) \/ UNCHANGED <<sent, got, standing, over>>
      BY <1>0, <2>1, <2>3, WriteServes
    <2>5. QED
      BY <2>1, <2>4, ServesRefines
  <1>9. ASSUME NEW c \in Clients, Killed(c) PROVE Service!Next
    BY <1>9, DeathRefines DEF Killed
  <1>10. ASSUME NEW c \in Clients, ClientStep(c), UNCHANGED own
         PROVE  Service!Next \/ UNCHANGED Service!vars
    <2>1. Serves(c) \/ UNCHANGED <<sent, got, standing, over>>
      BY <1>0, <1>10, ClientServes
    <2>2. QED
      BY <1>10, <2>1, ServesRefines DEF own
  <1>11. QED
    BY <1>2, <1>3, <1>4, <1>5, <1>6, <1>7, <1>8, <1>9, <1>10 DEF Next, Loop

(* What the server does, a step of EchoService does or nothing at all: it  *)
(* loses no answer and makes none up, and closes (server.cc's Close()) only *)
(* the connection of a client that has left or has been answered in full.  *)
THEOREM ImplementsService == Spec => Service!Spec
  <1>1. Spec => []IInv
    BY Inductive
  <1>2. QED
    BY <1>1, InitRefines, StepRefines, PTL DEF Spec, Service!Spec

------------------------------------------------------------------------------
(* multi_progress_server: the inductive invariant *)

(* Who holds descriptors of a connection: its child, and the parent from   *)
(* accept() to close().                                                    *)
Descriptors(c) ==
    (IF c = cfd /\ parent \in {"fork", "close"} THEN 1 ELSE 0) + (IF child[c] = "run" THEN 1 ELSE 0)

ForkTypes ==
    /\ parent \in {"accept", "fork", "close", "signal", "stuck", "dead"}
    /\ cfd \in Clients \cup {NoClient}
    /\ child \in [Clients -> {"none", "run", "zombie", "missed", "reaped"}]
    /\ handler \in BOOLEAN /\ sigchld \in BOOLEAN

Forked ==
    /\ \A c \in Clients : child[c] # "none" => peer[c] # "none" /\ ~Waits(c)
    /\ parent \in {"fork", "close"} => cfd \in Clients /\ peer[cfd] # "none" /\ ~Waits(cfd)
    /\ parent = "fork" => child[cfd] = "none"
    /\ parent = "close" => child[cfd] # "none"
    /\ IF parent = "stuck" THEN \A c \in Clients : child[c] # "run"
                           ELSE \A c \in Clients : fds[c] = Descriptors(c)

(* A child ends only when its client has left or been answered in full.    *)
Finished ==
    \A c \in Clients :
        child[c] \in {"zombie", "missed", "reaped"} =>
            peer[c] \notin {"none", "open"} /\ (peer[c] = "eof" => got[c] = Answer(sent[c]))

ForkInv == program = "fork" /\ ForkTypes /\ Sockets /\ Exchange /\ Forked /\ Finished

(* The sockets of ForkServer are those above. *)
LEMMA ForkSockets ==
  ASSUME NEW c
  PROVE  /\ F!ClientStep(c) <=> ClientStep(c)
         /\ F!accept(c) <=> accept(c)
         /\ F!close(c) <=> close(c)
         /\ F!readData(c) <=> readData(c)
         /\ F!readEnd(c) <=> readEnd(c)
         /\ F!readError(c) <=> readError(c)
         /\ F!write(c) <=> write(c)
         /\ F!raisesSIGPIPE(c) <=> raisesSIGPIPE(c)
         /\ F!Upto(c) = Upto(c)
  <1>1. F!ClientStep(c) <=> ClientStep(c)
    BY DEF F!ClientStep, F!Connect, F!Send, F!Leave, F!Receive, F!Ended, F!Accepted, F!Waits, F!Listens,
       ClientStep, Connect, Send, Leave, Receive, Ended, Accepted, Waits, Listens
  <1>2. (F!accept(c) <=> accept(c)) /\ (F!close(c) <=> close(c)) /\ (F!raisesSIGPIPE(c) <=> raisesSIGPIPE(c))
    BY DEF F!accept, accept, F!close, close, F!raisesSIGPIPE, raisesSIGPIPE
  <1>3. F!Upto(c) = Upto(c)
    BY DEF F!Upto, F!Least, Upto, Least
  <1>4. /\ F!readData(c) <=> readData(c)
        /\ F!readEnd(c) <=> readEnd(c)
        /\ F!readError(c) <=> readError(c)
    BY <1>3 DEF F!readData, readData, F!readEnd, readEnd, F!readError, readError
  <1>5. F!write(c) <=> write(c)
    BY DEF F!write, F!writeSome, F!writeLost, F!Listens, F!Least, write, writeSome, writeLost, Listens, Least
  <1>6. QED
    BY <1>1, <1>2, <1>3, <1>4, <1>5

LEMMA ForkTyped == ASSUME ForkInv PROVE F!TypeOK
  <1>1. F!NetTypeOK
    BY DEF ForkInv, Sockets, NetTypeOK, Peers, Char, F!NetTypeOK, F!Peers, F!Char
  <1>2. QED
    BY <1>1 DEF F!TypeOK, ForkInv, ForkTypes

LEMMA ForkInit == ASSUME F!Init PROVE ForkInv
  <1>1. NetInit /\ parent = "accept" /\ cfd = NoClient /\ child = [c \in Clients |-> "none"]
        /\ handler = FALSE /\ sigchld = FALSE /\ program = "fork"
    BY DEF F!Init, F!NetInit, F!Off, NetInit
  <1>2. Sockets /\ Exchange /\ \A c \in Clients : fds[c] = 0
    BY <1>1, InitSockets
  <1>3. ForkTypes /\ \A c \in Clients : child[c] = "none"
    BY <1>1 DEF ForkTypes
  <1>4. Forked /\ Finished
    BY <1>1, <1>2, <1>3 DEF Forked, Finished, Descriptors
  <1>5. QED
    BY <1>1, <1>2, <1>3, <1>4 DEF ForkInv

------------------------------------------------------------------------------
(* multi_progress_server: every step keeps the invariant *)

(* A step of the net or of the parent's book-keeping after which the       *)
(* children, the parent and their descriptors are the same.                *)
LEMMA ForkClient ==
  ASSUME ForkInv, NEW c \in Clients, ClientStep(c), UNCHANGED F!own
  PROVE  ForkInv'
  <1>1. UNCHANGED <<parent, cfd, child, handler, sigchld>>
    BY DEF F!own
  <1>2. /\ Sockets' /\ UNCHANGED <<program, read, out, got, fds>>
        /\ \A d \in Clients : peer[d] # "none" => peer'[d] # "none" /\ (Waits(d)' <=> Waits(d))
    BY ClientSockets DEF ForkInv
  <1>3. Exchange'
    BY ClientExchange DEF ForkInv
  <1>4. ForkTypes' /\ Forked'
    BY <1>1, <1>2 DEF ForkInv, ForkTypes, Forked, Descriptors
  <1>5. Finished'
    <2> SUFFICES ASSUME NEW d \in Clients, child[d] \in {"zombie", "missed", "reaped"}
                 PROVE  peer'[d] \notin {"none", "open"} /\ (peer'[d] = "eof" => got[d] = Answer(sent'[d]))
      BY <1>1, <1>2 DEF Finished, Answer
    <2>1. peer[d] \notin {"none", "open"} /\ (peer[d] = "eof" => got[d] = Answer(sent[d]))
      BY DEF ForkInv, Finished
    <2>2. CASE Connect(c)
      BY <2>1, <2>2, ConnectSockets DEF ForkInv
    <2>3. CASE Send(c)
      BY <2>1, <2>3, SendSockets DEF ForkInv
    <2>4. CASE Leave(c)
      <3>1. /\ peer'[c] \in {"eof", "closed", "reset", "broken"} /\ (peer'[c] = "eof" => peer[c] = "open")
            /\ \A e \in Clients \ {c} : peer'[e] = peer[e]
            /\ UNCHANGED sent
        BY <2>4, LeaveSockets DEF ForkInv
      <3>2. QED
        BY <2>1, <3>1
    <2>5. CASE Receive(c)
      BY <2>1, <2>5, ReceiveSockets DEF ForkInv
    <2>6. QED
      BY <2>2, <2>3, <2>4, <2>5 DEF ClientStep
  <1>6. QED
    BY <1>2, <1>3, <1>4, <1>5 DEF ForkInv

LEMMA ForkAccept ==
  ASSUME ForkInv, F!Accept
  PROVE  ForkInv'
  <1>1. PICK c \in Clients : accept(c) /\ cfd' = c
    BY ForkSockets DEF F!Accept
  <1>2. /\ parent = "accept" /\ parent' = "fork"
        /\ UNCHANGED <<program, peer, sent, read, out, got, taken, child, handler, sigchld>>
    BY DEF F!Accept
  <1>3. /\ Sockets' /\ Waits(c) /\ peer[c] # "none"
        /\ \A d : Waits(d)' <=> Waits(d) /\ d # c
        /\ fds'[c] = 1 /\ \A d \in Clients \ {c} : fds'[d] = fds[d]
        /\ Exchange'
    BY <1>1, <1>2, AcceptSockets DEF ForkInv
  <1>4. ForkTypes'
    BY <1>1, <1>2 DEF ForkInv, ForkTypes
  <1>5. Forked /\ child[c] = "none"
    BY <1>3 DEF ForkInv, Forked, ForkTypes
  <1>6. Forked'
    BY <1>1, <1>2, <1>3, <1>5 DEF Forked, Descriptors
  <1>7. Finished'
    BY <1>2 DEF ForkInv, Finished, Answer
  <1>8. QED
    BY <1>2, <1>3, <1>4, <1>6, <1>7 DEF ForkInv

(* Only descriptors are opened or closed. *)
LEMMA FdsSockets ==
  ASSUME Sockets, Exchange, fds' \in [Clients -> 0 .. 2], UNCHANGED <<peer, backlog, sent, read, out, got, taken>>
  PROVE  Sockets' /\ Exchange' /\ \A d : Waits(d)' <=> Waits(d)
  <1>1. NetTypeOK'
    BY DEF Sockets, NetTypeOK
  <1>2. Sockets' /\ \A d : Waits(d)' <=> Waits(d)
    BY <1>1, SocketsKept
  <1>3. Exchange'
    BY DEF Exchange, ReadWhatWasSent, NothingBefore, Echoed, Listens, Answer
  <1>4. QED
    BY <1>2, <1>3

LEMMA ForkFork ==
  ASSUME ForkInv, F!Fork
  PROVE  ForkInv'
  <1>1. /\ parent = "fork" /\ parent' = "close"
        /\ fds' = [fds EXCEPT ![cfd] = @ + 1] /\ child' = [child EXCEPT ![cfd] = "run"]
        /\ UNCHANGED <<program, peer, backlog, sent, read, out, got, taken, cfd, handler, sigchld>>
    BY DEF F!Fork
  <1>2. ForkTypes /\ Forked /\ fds \in [Clients -> 0 .. 2]
    BY DEF ForkInv, Sockets, NetTypeOK
  <1>3. cfd \in Clients /\ peer[cfd] # "none" /\ ~Waits(cfd) /\ child[cfd] = "none" /\ fds[cfd] = 1
    BY <1>1, <1>2 DEF Forked, Descriptors
  <1>4. /\ fds' \in [Clients -> 0 .. 2] /\ fds'[cfd] = 2
        /\ \A d \in Clients \ {cfd} : fds'[d] = fds[d]
    BY ONLY <1>1, <1>2, <1>3
  <1>5. Sockets' /\ Exchange' /\ \A d : Waits(d)' <=> Waits(d)
    BY <1>1, <1>4, FdsSockets DEF ForkInv
  <1>6. /\ child' \in [Clients -> {"none", "run", "zombie", "missed", "reaped"}] /\ child'[cfd] = "run"
        /\ \A d \in Clients \ {cfd} : child'[d] = child[d]
    BY <1>1, <1>2, <1>3 DEF ForkTypes
  <1>7. ForkTypes'
    BY <1>1, <1>2, <1>6 DEF ForkTypes
  <1>8. Forked'
    BY <1>1, <1>2, <1>3, <1>4, <1>5, <1>6 DEF Forked, Descriptors
  <1>9. Finished'
    BY <1>1, <1>3, <1>6 DEF ForkInv, Finished, Answer
  <1>10. QED
    BY <1>1, <1>5, <1>7, <1>8, <1>9 DEF ForkInv

(* The parent closes the connection, having forked a child for it or not. *)
LEMMA ParentCloses ==
  ASSUME ForkInv, parent \in {"fork", "close"}, close(cfd)
  PROVE  /\ cfd \in Clients /\ peer[cfd] # "none" /\ ~Waits(cfd)
         /\ fds[cfd] \in {1, 2} /\ fds' \in [Clients -> 0 .. 2]
         /\ \A d \in Clients : fds'[d] = IF child[d] = "run" THEN 1 ELSE 0
         /\ \A d \in Clients \ {cfd} : fds'[d] = fds[d]
  <1>1. NetTypeOK /\ Forked
    BY DEF ForkInv, Sockets
  <1>2. /\ cfd \in Clients /\ peer[cfd] # "none" /\ ~Waits(cfd)
        /\ \A d \in Clients : fds[d] = Descriptors(d)
    BY <1>1 DEF Forked
  <1>3. \A d \in Clients : fds[d] = (IF d = cfd THEN 1 ELSE 0) + (IF child[d] = "run" THEN 1 ELSE 0)
    BY <1>2 DEF Descriptors
  <1>4. fds[cfd] >= 1 /\ fds[cfd] \in {1, 2}
    BY <1>2, <1>3
  <1>5. /\ fds' \in [Clients -> 0 .. 2] /\ fds'[cfd] = fds[cfd] - 1
        /\ \A d \in Clients \ {cfd} : fds'[d] = fds[d]
    BY <1>1, <1>2, <1>4, CloseFds
  <1>6. QED
    BY <1>2, <1>3, <1>4, <1>5

LEMMA ForkParentClose ==
  ASSUME ForkInv, F!ParentClose
  PROVE  ForkInv'
  <1>1. /\ parent = "close" /\ parent' = "signal" /\ close(cfd)
        /\ UNCHANGED <<program, peer, backlog, sent, read, out, got, taken, cfd, child, handler, sigchld>>
    BY ForkSockets DEF F!ParentClose
  <1>2. fds' \in [Clients -> 0 .. 2] /\ \A d \in Clients : fds'[d] = IF child[d] = "run" THEN 1 ELSE 0
    BY <1>1, ParentCloses
  <1>3. Sockets' /\ Exchange' /\ \A d : Waits(d)' <=> Waits(d)
    BY <1>1, <1>2, FdsSockets DEF ForkInv
  <1>4. ForkTypes' /\ Finished'
    BY <1>1 DEF ForkInv, ForkTypes, Finished, Answer
  <1>5. Forked'
    BY <1>1, <1>2, <1>3 DEF ForkInv, Forked, Descriptors
  <1>6. QED
    BY <1>1, <1>3, <1>4, <1>5 DEF ForkInv

LEMMA ForkParentExits ==
  ASSUME ForkInv, F!ParentExits
  PROVE  ForkInv'
  <1>1. /\ \/ parent = "accept" /\ UNCHANGED fds
           \/ parent = "fork" /\ close(cfd)
        /\ parent' = "dead"
        /\ UNCHANGED <<program, peer, backlog, sent, read, out, got, taken, cfd, child, handler, sigchld>>
    BY ForkSockets DEF F!ParentExits
  <1>2. fds' \in [Clients -> 0 .. 2] /\ \A d \in Clients : fds'[d] = IF child[d] = "run" THEN 1 ELSE 0
    <2>1. CASE parent = "accept"
      BY <1>1, <2>1 DEF ForkInv, Sockets, NetTypeOK, Forked, Descriptors
    <2>2. CASE parent = "fork"
      BY <1>1, <2>2, ParentCloses
    <2>3. QED
      BY <1>1, <2>1, <2>2
  <1>3. Sockets' /\ Exchange' /\ \A d : Waits(d)' <=> Waits(d)
    BY <1>1, <1>2, FdsSockets DEF ForkInv
  <1>4. ForkTypes' /\ Finished'
    BY <1>1 DEF ForkInv, ForkTypes, Finished, Answer
  <1>5. Forked'
    BY <1>1, <1>2, <1>3 DEF ForkInv, Forked, Descriptors
  <1>6. QED
    BY <1>1, <1>3, <1>4, <1>5 DEF ForkInv

LEMMA NetUnchanged ==
  ASSUME Sockets, Exchange, UNCHANGED net
  PROVE  Sockets' /\ Exchange' /\ \A d : Waits(d)' <=> Waits(d)
  <1>1. UNCHANGED <<peer, backlog, sent, read, out, got, taken, fds>>
    BY DEF net
  <1>2. fds' \in [Clients -> 0 .. 2]
    BY <1>1 DEF Sockets, NetTypeOK
  <1>3. QED
    BY <1>1, <1>2, FdsSockets

(* InstallHandler, and nothing at all. *)
LEMMA ForkQuiet ==
  ASSUME ForkInv, UNCHANGED <<net, cfd, child>>, ForkTypes',
         parent' = parent \/ (parent = "signal" /\ parent' = "accept")
  PROVE  ForkInv'
  <1>1. Sockets' /\ Exchange' /\ \A d : Waits(d)' <=> Waits(d)
    BY NetUnchanged DEF ForkInv
  <1>2. UNCHANGED <<program, peer, sent, got, fds>>
    BY DEF net
  <1>3. Forked'
    BY <1>1, <1>2 DEF ForkInv, Forked, Descriptors
  <1>4. Finished'
    BY <1>2 DEF ForkInv, Finished, Answer
  <1>5. QED
    BY <1>1, <1>2, <1>3, <1>4 DEF ForkInv

LEMMA ForkWaitChild ==
  ASSUME ForkInv, F!wait_child
  PROVE  ForkInv'
  <1>1. /\ child' = [c \in Clients |-> IF child[c] \in {"zombie", "missed"} THEN "reaped" ELSE child[c]]
        /\ parent \notin {"stuck", "dead"}
        /\ parent' = IF \E c \in Clients : child[c] = "run" THEN parent ELSE "stuck"
        /\ sigchld' = FALSE /\ UNCHANGED <<net, cfd, handler>>
    BY DEF F!wait_child, F!Zombies, F!net, net
  <1>2. Sockets' /\ Exchange' /\ \A d : Waits(d)' <=> Waits(d)
    BY <1>1, NetUnchanged DEF ForkInv
  <1>3. UNCHANGED <<program, peer, sent, got, fds>>
    BY <1>1 DEF net
  <1>4. ForkTypes /\ Forked /\ Finished
    BY DEF ForkInv
  <1>5. /\ child' \in [Clients -> {"none", "run", "zombie", "missed", "reaped"}]
        /\ \A c \in Clients : child'[c] = child[c] \/ (child[c] \in {"zombie", "missed"} /\ child'[c] = "reaped")
    BY <1>1, <1>4 DEF ForkTypes
  <1>6. ForkTypes'
    BY <1>1, <1>4, <1>5 DEF ForkTypes
  <1>7. Forked'
    <2>1. CASE parent' = "stuck"
      <3>1. \A c \in Clients : child[c] # "run"
        BY <1>1, <2>1
      <3>2. QED
        BY <1>2, <1>3, <1>4, <1>5, <2>1, <3>1 DEF Forked
    <2>2. CASE parent' # "stuck"
      <3>1. parent' = parent
        BY <1>1, <2>2
      <3>2. \A c \in Clients : Descriptors(c)' = Descriptors(c)
        BY <1>1, <1>5, <3>1 DEF Descriptors
      <3>3. \A c \in Clients : (child'[c] = "none" <=> child[c] = "none")
        BY <1>5
      <3>4. UNCHANGED cfd
        BY <1>1
      <3>5. QED
        BY <1>1, <1>2, <1>3, <1>4, <2>2, <3>1, <3>2, <3>3, <3>4 DEF Forked
    <2>3. QED
      BY <2>1, <2>2
  <1>8. Finished'
    BY <1>3, <1>4, <1>5 DEF Finished, Answer
  <1>9. QED
    BY <1>2, <1>3, <1>6, <1>7, <1>8 DEF ForkInv

------------------------------------------------------------------------------
(* multi_progress_server: the children *)

(* A child that runs serves a client that is known, with a descriptor.     *)
LEMMA ChildOf ==
  ASSUME ForkInv, NEW c \in Clients, child[c] = "run"
  PROVE  peer[c] # "none" /\ ~Waits(c) /\ parent # "stuck" /\ fds[c] \in {1, 2} /\ fds[c] = Descriptors(c)
  BY DEF ForkInv, Forked, Descriptors

LEMMA ForkChildRead ==
  ASSUME ForkInv, NEW c \in Clients, F!ChildRead(c)
  PROVE  ForkInv'
  <1>1. /\ child[c] = "run" /\ out[c] = <<>> /\ readData(c)
        /\ out' = [out EXCEPT ![c] = SubSeq(Answer(Upto(c)), read[c] + 1, Upto(c))]
        /\ UNCHANGED <<program, backlog, sent, got, taken, fds, parent, cfd, child, handler, sigchld>>
    BY ForkSockets DEF F!ChildRead, F!Idle, F!own, F!Answer, Answer
  <1>2. Sockets' /\ Exchange' /\ UNCHANGED peer /\ \A d : Waits(d)' <=> Waits(d)
    BY <1>1, ChildOf, ReadExchange DEF ForkInv
  <1>3. ForkTypes' /\ Forked' /\ Finished'
    BY <1>1, <1>2 DEF ForkInv, ForkTypes, Forked, Descriptors, Finished, Answer
  <1>4. QED
    BY <1>1, <1>2, <1>3 DEF ForkInv

LEMMA ForkChildWrite ==
  ASSUME ForkInv, NEW c \in Clients, F!ChildWrite(c)
  PROVE  ForkInv'
  <1>1. /\ child[c] = "run" /\ write(c)
        /\ UNCHANGED <<program, backlog, sent, read, taken, fds, parent, cfd, child, handler, sigchld>>
    BY ForkSockets DEF F!ChildWrite, F!own
  <1>2. /\ Sockets' /\ \A d : Waits(d)' <=> Waits(d)
        /\ \A d \in Clients : peer'[d] = peer[d] \/ (peer[d] = "reset" /\ peer'[d] = "broken")
        /\ \A d \in Clients \ {c} : got'[d] = got[d]
    BY <1>1, WriteSockets DEF ForkInv
  <1>3. Exchange'
    BY <1>1, WriteExchange DEF ForkInv
  <1>4. ForkTypes' /\ Forked'
    BY <1>1, <1>2 DEF ForkInv, ForkTypes, Forked, Descriptors
  <1>5. Finished'
    BY <1>1, <1>2 DEF ForkInv, Finished, Answer
  <1>6. QED
    BY <1>1, <1>2, <1>3, <1>4, <1>5 DEF ForkInv

(* The two ways that a child ends, in one. *)
LEMMA ChildEnds ==
  ASSUME ForkInv, NEW c \in Clients, F!ChildExit(c) \/ F!ChildKilled(c)
  PROVE  /\ child[c] = "run"
         /\ \/ out[c] = <<>> /\ (readEnd(c) \/ readError(c)) /\ UNCHANGED out
            \/ raisesSIGPIPE(c) /\ out' = [out EXCEPT ![c] = <<>>] /\ UNCHANGED <<read, peer>>
         /\ close(c)
         /\ \E end \in {"zombie", "missed"} : child' = [child EXCEPT ![c] = end]
         /\ sigchld' = (sigchld \/ handler)
         /\ UNCHANGED <<program, backlog, sent, got, taken, parent, cfd, handler>>
  <1>1. /\ child[c] = "run" /\ F!ChildGone(c)
        /\ \/ out[c] = <<>> /\ (readEnd(c) \/ readError(c)) /\ UNCHANGED out
           \/ raisesSIGPIPE(c) /\ out' = [out EXCEPT ![c] = <<>>] /\ UNCHANGED <<read, peer>>
    BY ForkSockets DEF F!ChildExit, F!ChildKilled, F!Idle
  <1>2. /\ close(c) /\ sigchld' = (sigchld \/ handler)
        /\ child' = [child EXCEPT ![c] = IF handler /\ parent # "dead" THEN "zombie" ELSE "missed"]
        /\ UNCHANGED <<program, backlog, sent, got, taken, parent, cfd, handler>>
    BY <1>1, ForkSockets DEF F!ChildGone
  <1>3. \E end \in {"zombie", "missed"} : child' = [child EXCEPT ![c] = end]
    BY <1>2
  <1>4. QED
    BY <1>1, <1>2, <1>3

(* What is left of the connection when a child has ended.                  *)
LEMMA ChildEnded ==
  ASSUME ForkInv, NEW c \in Clients, F!ChildExit(c) \/ F!ChildKilled(c)
  PROVE  /\ Sockets' /\ Exchange' /\ \A d : Waits(d)' <=> Waits(d)
         /\ peer[c] \notin {"none", "open"} /\ (peer[c] = "eof" => got[c] = Answer(sent[c])) /\ ~Waits(c)
         /\ \A d \in Clients : peer'[d] = peer[d] \/ (peer[d] = "reset" /\ peer'[d] = "broken")
         /\ fds[c] \in {1, 2} /\ fds'[c] = fds[c] - 1 /\ \A d \in Clients \ {c} : fds'[d] = fds[d]
  <1>1. /\ child[c] = "run" /\ close(c)
        /\ \/ out[c] = <<>> /\ (readEnd(c) \/ readError(c)) /\ UNCHANGED out
           \/ raisesSIGPIPE(c) /\ out' = [out EXCEPT ![c] = <<>>] /\ UNCHANGED <<read, peer>>
        /\ UNCHANGED <<backlog, sent, got, taken>>
    BY ChildEnds
  <1>2. peer[c] # "none" /\ ~Waits(c) /\ fds[c] \in {1, 2}
    BY <1>1, ChildOf
  <1>3. /\ fds' \in [Clients -> 0 .. 2] /\ fds'[c] = fds[c] - 1
        /\ \A d \in Clients \ {c} : fds'[d] = fds[d]
    BY <1>1, <1>2, CloseFds DEF ForkInv, Sockets
  <1>4. /\ Sockets' /\ Exchange' /\ \A d : Waits(d)' <=> Waits(d)
        /\ peer[c] \notin {"none", "open"} /\ (peer[c] = "eof" => read[c] = sent[c] /\ UNCHANGED out)
        /\ peer' = peer \/ (peer[c] = "reset" /\ peer' = [peer EXCEPT ![c] = "broken"])
    BY <1>1, <1>2, <1>3, EndExchange DEF ForkInv
  <1>5. \A d \in Clients : peer'[d] = peer[d] \/ (peer[d] = "reset" /\ peer'[d] = "broken")
    BY <1>4 DEF ForkInv, Sockets, NetTypeOK
  <1>6. peer[c] = "eof" => got[c] = Answer(sent[c])
    <2> SUFFICES ASSUME peer[c] = "eof" PROVE got[c] = Answer(sent[c])
      OBVIOUS
    <2>1. out[c] = <<>> /\ read[c] = sent[c]
      BY <1>1, <1>4 DEF raisesSIGPIPE
    <2>2. QED
      BY <2>1, AnsweredInFull DEF ForkInv, Listens
  <1>7. QED
    BY <1>2, <1>3, <1>4, <1>5, <1>6

LEMMA ForkChildEnds ==
  ASSUME ForkInv, NEW c \in Clients, F!ChildExit(c) \/ F!ChildKilled(c)
  PROVE  ForkInv'
  <1>1. PICK end \in {"zombie", "missed"} :
            /\ child[c] = "run" /\ child' = [child EXCEPT ![c] = end] /\ sigchld' = (sigchld \/ handler)
            /\ UNCHANGED <<program, sent, got, parent, cfd, handler>>
    BY ChildEnds
  <1>2. /\ Sockets' /\ Exchange' /\ \A d : Waits(d)' <=> Waits(d)
        /\ peer[c] \notin {"none", "open"} /\ (peer[c] = "eof" => got[c] = Answer(sent[c])) /\ ~Waits(c)
        /\ \A d \in Clients : peer'[d] = peer[d] \/ (peer[d] = "reset" /\ peer'[d] = "broken")
        /\ fds'[c] = fds[c] - 1 /\ \A d \in Clients \ {c} : fds'[d] = fds[d]
    BY ChildEnded
  <1>3. ForkTypes /\ Forked /\ Finished
    BY DEF ForkInv
  <1>4. /\ child' \in [Clients -> {"none", "run", "zombie", "missed", "reaped"}] /\ child'[c] = end
        /\ \A d \in Clients \ {c} : child'[d] = child[d]
    BY <1>1, <1>3 DEF ForkTypes
  <1>5. ForkTypes'
    <2>1. sigchld' \in BOOLEAN
      BY <1>1, <1>3, Zenon DEF ForkTypes
    <2>2. QED
      BY <1>1, <1>3, <1>4, <2>1 DEF ForkTypes
  <1>6. Forked'
    <2>1. parent # "stuck" /\ fds[c] = Descriptors(c)
      BY <1>1, ChildOf
    <2>2. fds'[c] = Descriptors(c)'
      BY <1>1, <1>2, <1>4, <2>1 DEF Descriptors
    <2>3. \A d \in Clients \ {c} : fds'[d] = Descriptors(d)'
      BY <1>1, <1>2, <1>3, <1>4, <2>1 DEF Forked, Descriptors
    <2>4. \A d \in Clients : peer[d] # "none" => peer'[d] # "none"
      BY <1>2
    <2>5. \A d \in Clients : child'[d] = "none" <=> child[d] = "none"
      BY <1>1, <1>4
    <2>6. QED
      BY <1>1, <1>2, <1>3, <2>1, <2>2, <2>3, <2>4, <2>5 DEF Forked
  <1>7. Finished'
    BY <1>1, <1>2, <1>3, <1>4 DEF Finished, Answer
  <1>8. QED
    BY <1>1, <1>2, <1>5, <1>6, <1>7 DEF ForkInv

LEMMA ForkStep == ASSUME ForkInv, F!Next \/ UNCHANGED F!vars PROVE ForkInv'
  <1>1. CASE F!main
    <2>1. CASE F!InstallHandler
      <3>1. /\ parent = "signal" /\ parent' = "accept" /\ handler' = TRUE /\ UNCHANGED <<net, cfd, child, sigchld>>
        BY <2>1 DEF F!InstallHandler, F!net, net
      <3>2. ForkTypes'
        BY <3>1 DEF ForkInv, ForkTypes
      <3>3. QED
        BY <3>1, <3>2, ForkQuiet
    <2>2. QED
      BY <1>1, <2>1, ForkAccept, ForkFork, ForkParentClose DEF F!main
  <1>2. CASE F!ParentExits
    BY <1>2, ForkParentExits
  <1>3. CASE F!wait_child
    BY <1>3, ForkWaitChild
  <1>4. ASSUME NEW c \in Clients, F!ChildStep(c) PROVE ForkInv'
    BY <1>4, ForkChildRead, ForkChildWrite, ForkChildEnds DEF F!ChildStep
  <1>5. ASSUME NEW c \in Clients, F!ClientStep(c), UNCHANGED F!own PROVE ForkInv'
    BY <1>5, ForkSockets, ForkClient
  <1>6. CASE UNCHANGED F!vars
    <2>1. UNCHANGED <<net, parent, cfd, child, handler, sigchld>>
      BY <1>6 DEF F!vars, F!own, F!net, net
    <2>2. ForkTypes'
      BY <2>1 DEF ForkInv, ForkTypes
    <2>3. QED
      BY <2>1, <2>2, ForkQuiet
  <1>7. QED
    BY <1>1, <1>2, <1>3, <1>4, <1>5, <1>6 DEF F!Next

------------------------------------------------------------------------------
(* ForkServer implements EchoService *)

LEMMA ForkOver == [c \in Clients |-> F!Ended(c)] = over
  BY DEF over, F!Ended, F!Accepted, F!Waits, Ended, Accepted, Waits

LEMMA ForkInitRefines == ASSUME F!Init PROVE F!Service!Init
  <1>1. NetInit /\ parent = "accept"
    BY DEF F!Init, F!NetInit, F!Off, NetInit
  <1>2. /\ sent = [c \in Clients |-> 0] /\ got = [c \in Clients |-> <<>>]
        /\ standing = [c \in Clients |-> "talking"] /\ over = [c \in Clients |-> FALSE]
    BY <1>1, InitServes
  <1>3. (parent = "dead") = FALSE
    BY <1>1
  <1>4. QED
    BY <1>2, <1>3, Zenon DEF F!Service!Init, standing, over, F!Ended, F!Accepted, F!Waits, Ended, Accepted, Waits

LEMMA ForkServesRefines ==
  ASSUME NEW c \in Clients, Serves(c) \/ UNCHANGED <<sent, got, standing, over>>,
         parent' = "dead" <=> parent = "dead"
  PROVE  F!Service!Next \/ UNCHANGED F!Service!vars
  <1>1. (parent = "dead")' = (parent = "dead")
    OBVIOUS
  <1>2. CASE UNCHANGED <<sent, got, standing, over>>
    BY <1>1, <1>2, Zenon
       DEF F!Service!vars, standing, over, F!Ended, F!Accepted, F!Waits, Ended, Accepted, Waits
  <1>3. CASE Serves(c)
    <2>1. CASE Serving!Say(c)
      <3>1. F!Service!Say(c)
        BY <1>1, <2>1, Zenon DEF Serving!Say, F!Service!Say, standing, over,
           F!Ended, F!Accepted, F!Waits, Ended, Accepted, Waits
      <3>2. QED
        BY <3>1 DEF F!Service!Next
    <2>2. CASE Serving!Leave(c)
      <3>1. F!Service!Leave(c)
        BY <1>1, <2>2, Zenon DEF Serving!Leave, F!Service!Leave, standing, over,
           F!Ended, F!Accepted, F!Waits, Ended, Accepted, Waits
      <3>2. QED
        BY <3>1 DEF F!Service!Next
    <2>3. CASE Serving!Reply(c)
      <3>1. F!Service!Reply(c)
        BY <1>1, <2>3, Zenon DEF Serving!Reply, F!Service!Reply, Serving!Answer, F!Service!Answer,
           standing, over, F!Ended, F!Accepted, F!Waits, Ended, Accepted, Waits
      <3>2. QED
        BY <3>1 DEF F!Service!Next
    <2>4. CASE Serving!End(c)
      <3>1. F!Service!End(c)
        BY <1>1, <2>4, Zenon DEF Serving!End, F!Service!End, Serving!Answer, F!Service!Answer,
           standing, over, F!Ended, F!Accepted, F!Waits, Ended, Accepted, Waits
      <3>2. QED
        BY <3>1 DEF F!Service!Next
    <2>5. QED
      BY <1>3, <2>1, <2>2, <2>3, <2>4 DEF Serves
  <1>4. QED
    BY <1>2, <1>3

(* The parent's close(), after fork() or because it has failed: what ends  *)
(* with it is the connection of a child that has ended before.             *)
LEMMA ParentExitRefines ==
  ASSUME ForkInv, F!ParentExits
  PROVE  F!Service!Next
  <1>1. /\ UNCHANGED fds \/ (parent = "fork" /\ close(cfd))
        /\ parent' = "dead" /\ UNCHANGED <<peer, backlog, sent, got>>
    BY ForkSockets DEF F!ParentExits
  <1>2. \A c \in Clients : fds[c] = 0 => fds'[c] = 0
    <2>1. CASE UNCHANGED fds
      BY <2>1
    <2>2. CASE parent = "fork" /\ close(cfd)
      <3>1. fds[cfd] \in {1, 2} /\ \A d \in Clients \ {cfd} : fds'[d] = fds[d]
        BY <2>2, ParentCloses
      <3>2. QED
        BY <3>1
    <2>3. QED
      BY <1>1, <2>1, <2>2
  <1>3. \A c \in Clients : Ended(c) => Ended(c)'
    BY <1>1, <1>2 DEF Ended, Accepted, Waits
  <1>4. \E C \in SUBSET Clients : over' = [c \in Clients |-> over[c] \/ c \in C]
    BY <1>3, EndsAre
  <1>5. UNCHANGED standing
    BY <1>1 DEF standing
  <1>6. (parent = "dead")' = TRUE
    BY <1>1
  <1>7. F!Service!Crash
    BY <1>1, <1>4, <1>5, <1>6, Zenon
       DEF F!Service!Crash, standing, over, F!Ended, F!Accepted, F!Waits, Ended, Accepted, Waits
  <1>8. QED
    BY <1>7 DEF F!Service!Next

LEMMA ParentCloseRefines ==
  ASSUME ForkInv, F!ParentClose
  PROVE  F!Service!Next \/ UNCHANGED F!Service!vars
  <1>1. /\ parent = "close" /\ parent' = "signal" /\ close(cfd)
        /\ UNCHANGED <<peer, backlog, sent, got>>
    BY ForkSockets DEF F!ParentClose
  <1>2. /\ cfd \in Clients /\ peer[cfd] # "none" /\ ~Waits(cfd) /\ fds[cfd] \in {1, 2}
        /\ \A d \in Clients : fds'[d] = IF child[d] = "run" THEN 1 ELSE 0
        /\ \A d \in Clients \ {cfd} : fds'[d] = fds[d]
    BY <1>1, ParentCloses
  <1>3. Sockets /\ child[cfd] \in {"run", "zombie", "missed", "reaped"}
    BY <1>1, <1>2 DEF ForkInv, ForkTypes, Forked
  <1>4. \A d : Waits(d)' <=> Waits(d)
    BY <1>1 DEF Waits
  <1>5. Serves(cfd) \/ UNCHANGED <<sent, got, standing, over>>
    <2>1. CASE child[cfd] = "run"
      <3>1. UNCHANGED over
        BY <1>1, <1>2, <1>4, <2>1, EndedKept
      <3>2. QED
        BY <1>1, <3>1, StandingKept
    <2>2. CASE child[cfd] # "run"
      <3>1. peer[cfd] \notin {"none", "open"} /\ (peer[cfd] = "eof" => got[cfd] = Answer(sent[cfd]))
        BY <1>2, <1>3, <2>2 DEF ForkInv, Finished
      <3>2. \A d \in Clients : peer'[d] = peer[d] \/ (peer[d] = "reset" /\ peer'[d] = "broken")
        BY <1>1
      <3>3. fds[cfd] # 0 /\ UNCHANGED <<sent, got>> /\ cfd \in Clients
        BY <1>1, <1>2
      <3>4. QED
        BY ONLY <1>2, <1>3, <1>4, <3>1, <3>2, <3>3, CloseServes
    <2>3. QED
      BY <2>1, <2>2
  <1>6. QED
    BY <1>1, <1>2, <1>5, ForkServesRefines

LEMMA ChildEndRefines ==
  ASSUME ForkInv, NEW c \in Clients, F!ChildExit(c) \/ F!ChildKilled(c)
  PROVE  F!Service!Next \/ UNCHANGED F!Service!vars
  <1>1. UNCHANGED <<sent, got, parent>>
    BY ChildEnds
  <1>2. /\ \A d : Waits(d)' <=> Waits(d)
        /\ peer[c] \notin {"none", "open"} /\ (peer[c] = "eof" => got[c] = Answer(sent[c])) /\ ~Waits(c)
        /\ \A d \in Clients : peer'[d] = peer[d] \/ (peer[d] = "reset" /\ peer'[d] = "broken")
        /\ fds[c] # 0 /\ \A d \in Clients \ {c} : fds'[d] = fds[d]
    BY ChildEnded
  <1>3. Serves(c) \/ UNCHANGED <<sent, got, standing, over>>
    <2>1. Sockets
      BY DEF ForkInv
    <2>2. QED
      BY ONLY <1>1, <1>2, <2>1, c \in Clients, CloseServes
  <1>4. QED
    BY <1>1, <1>3, ForkServesRefines

LEMMA ForkStepRefines ==
  ASSUME ForkInv, F!Next \/ UNCHANGED F!vars
  PROVE  F!Service!Next \/ UNCHANGED F!Service!vars
  <1>0. Sockets /\ Exchange
    BY DEF ForkInv
  <1>1. ASSUME UNCHANGED <<peer, backlog, sent, got>>, \A c \in Clients : fds'[c] = 0 <=> fds[c] = 0,
               parent' = "dead" <=> parent = "dead"
        PROVE  UNCHANGED F!Service!vars
    <2>1. UNCHANGED over
      BY <1>1, EndedKept DEF Waits
    <2>2. UNCHANGED standing
      BY <1>1 DEF standing
    <2>3. (parent = "dead")' = (parent = "dead")
      BY <1>1
    <2>4. QED
      BY <1>1, <2>1, <2>2, <2>3, Zenon
         DEF F!Service!vars, standing, over, F!Ended, F!Accepted, F!Waits, Ended, Accepted, Waits
  <1>2. CASE UNCHANGED F!vars
    BY <1>1, <1>2 DEF F!vars, F!net, F!own
  <1>3. CASE F!Accept
    <2>1. PICK c \in Clients : accept(c)
      BY <1>3, ForkSockets DEF F!Accept
    <2>2. UNCHANGED <<peer, sent, read, out, got, taken>> /\ parent = "accept" /\ parent' = "fork"
      BY <1>3 DEF F!Accept
    <2>3. UNCHANGED <<sent, got, standing, over>>
      BY <1>0, <2>1, <2>2, AcceptServes
    <2>4. QED
      BY <2>2, <2>3, ForkServesRefines
  <1>4. CASE F!Fork
    <2>1. /\ parent = "fork" /\ parent' = "close" /\ fds' = [fds EXCEPT ![cfd] = @ + 1]
          /\ UNCHANGED <<peer, backlog, sent, got>>
      BY <1>4 DEF F!Fork
    <2>2. cfd \in Clients /\ fds[cfd] = 1 /\ fds \in [Clients -> 0 .. 2]
      <3>1. Forked /\ fds \in [Clients -> 0 .. 2]
        BY DEF ForkInv, Sockets, NetTypeOK
      <3>2. QED
        BY <2>1, <3>1 DEF Forked, Descriptors
    <2>3. \A c \in Clients : fds'[c] = 0 <=> fds[c] = 0
      BY <2>1, <2>2
    <2>4. QED
      BY <1>1, <2>1, <2>3
  <1>5. CASE F!ParentClose
    BY <1>5, ParentCloseRefines
  <1>6. CASE F!InstallHandler
    BY <1>1, <1>6 DEF F!InstallHandler, F!net
  <1>7. CASE F!ParentExits
    BY <1>7, ParentExitRefines
  <1>8. CASE F!wait_child
    BY <1>1, <1>8 DEF F!wait_child, F!net
  <1>9. ASSUME NEW c \in Clients, F!ChildRead(c) PROVE UNCHANGED F!Service!vars
    BY <1>1, <1>9 DEF F!ChildRead, F!readData, F!own
  <1>10. ASSUME NEW c \in Clients, F!ChildWrite(c) PROVE F!Service!Next \/ UNCHANGED F!Service!vars
    <2>1. child[c] = "run" /\ write(c) /\ UNCHANGED <<backlog, sent, read, taken, fds, parent>>
      BY <1>10, ForkSockets DEF F!ChildWrite, F!own
    <2>2. fds[c] # 0
      BY <2>1, ChildOf
    <2>3. Serves(c) \/ UNCHANGED <<sent, got, standing, over>>
      BY <1>0, <2>1, <2>2, WriteServes
    <2>4. QED
      BY <2>1, <2>3, ForkServesRefines
  <1>11. ASSUME NEW c \in Clients, F!ChildExit(c) \/ F!ChildKilled(c)
         PROVE  F!Service!Next \/ UNCHANGED F!Service!vars
    BY <1>11, ChildEndRefines
  <1>12. ASSUME NEW c \in Clients, F!ClientStep(c), UNCHANGED F!own
         PROVE  F!Service!Next \/ UNCHANGED F!Service!vars
    <2>1. ClientStep(c) /\ UNCHANGED parent
      BY <1>12, ForkSockets DEF F!own
    <2>2. Serves(c) \/ UNCHANGED <<sent, got, standing, over>>
      BY <1>0, <2>1, ClientServes
    <2>3. QED
      BY <2>1, <2>2, ForkServesRefines
  <1>13. QED
    BY <1>2, <1>3, <1>4, <1>5, <1>6, <1>7, <1>8, <1>9, <1>10, <1>11, <1>12 DEF F!Next, F!main, F!ChildStep

------------------------------------------------------------------------------
(* multi_thread_server: while the process runs, a thread has its           *)
(* connection's one descriptor                                             *)

ThreadTypes ==
    /\ TableSize \in Nat
    /\ ts \in Seq(Clients) /\ Len(ts) <= TableSize
    /\ thread \in [Clients -> {"none", "run", "done"}]
    /\ buf \in [Clients -> [1 .. BUFSIZE -> Char]]
    /\ process \in {"runs", "dead", "undefined"}

Threaded ==
    \A c \in Clients :
        /\ thread[c] # "none" => peer[c] # "none" /\ ~Waits(c)
        /\ thread[c] = "run" /\ process = "runs" => fds[c] = 1

ThreadInv == program = "thread" /\ ThreadTypes /\ Sockets /\ Threaded

LEMMA ThreadSockets ==
  ASSUME NEW c
  PROVE  /\ T!ClientStep(c) <=> ClientStep(c)
         /\ T!accept(c) <=> accept(c)
         /\ T!close(c) <=> close(c)
         /\ T!readData(c) <=> readData(c)
         /\ T!readEnd(c) <=> readEnd(c)
         /\ T!readError(c) <=> readError(c)
         /\ T!write(c) <=> write(c)
         /\ T!Upto(c) = Upto(c)
         /\ T!Drop(Clients) <=> Drop(Clients)
  <1>1. T!ClientStep(c) <=> ClientStep(c)
    BY DEF T!ClientStep, T!Connect, T!Send, T!Leave, T!Receive, T!Ended, T!Accepted, T!Waits, T!Listens,
       ClientStep, Connect, Send, Leave, Receive, Ended, Accepted, Waits, Listens
  <1>2. (T!accept(c) <=> accept(c)) /\ (T!close(c) <=> close(c)) /\ (T!Drop(Clients) <=> Drop(Clients))
    BY DEF T!accept, accept, T!close, close, T!Drop, Drop
  <1>3. T!Upto(c) = Upto(c)
    BY DEF T!Upto, T!Least, Upto, Least
  <1>4. /\ T!readData(c) <=> readData(c)
        /\ T!readEnd(c) <=> readEnd(c)
        /\ T!readError(c) <=> readError(c)
    BY <1>3 DEF T!readData, readData, T!readEnd, readEnd, T!readError, readError
  <1>5. T!write(c) <=> write(c)
    BY DEF T!write, T!writeSome, T!writeLost, T!Listens, T!Least, write, writeSome, writeLost, Listens, Least
  <1>6. QED
    BY <1>1, <1>2, <1>3, <1>4, <1>5

LEMMA ThreadTyped == ASSUME ThreadInv PROVE T!TypeOK
  <1>1. T!NetTypeOK
    BY DEF ThreadInv, Sockets, NetTypeOK, Peers, Char, T!NetTypeOK, T!Peers, T!Char
  <1>2. buf \in [Clients -> [1 .. BUFSIZE -> T!Char]]
    BY DEF ThreadInv, ThreadTypes, Char, T!Char
  <1>3. QED
    BY <1>1, <1>2 DEF T!TypeOK, ThreadInv, ThreadTypes

LEMMA ThreadInit == ASSUME T!Init PROVE ThreadInv
  <1>1. /\ NetInit /\ process = "runs" /\ program = "thread" /\ ts = <<>>
        /\ thread = [c \in Clients |-> "none"] /\ buf = [c \in Clients |-> [i \in 1 .. BUFSIZE |-> "junk"]]
    BY DEF T!Init, T!NetInit, T!Off, NetInit
  <1>2. Sockets
    BY <1>1, InitSockets
  <1>3. TableSize \in Nat /\ "junk" \in Char
    BY EarlyConstants DEF Char
  <1>4. ts \in Seq(Clients) /\ Len(ts) = 0
    BY <1>1, EmptySeq
  <1>5. ThreadTypes
    BY <1>1, <1>3, <1>4 DEF ThreadTypes
  <1>6. Threaded
    BY <1>1 DEF Threaded
  <1>7. QED
    BY <1>1, <1>2, <1>5, <1>6 DEF ThreadInv

LEMMA ThreadClient ==
  ASSUME ThreadInv, NEW c \in Clients, ClientStep(c), UNCHANGED T!own
  PROVE  ThreadInv'
  <1>1. UNCHANGED <<ts, thread, buf, process>>
    BY DEF T!own
  <1>2. /\ Sockets' /\ UNCHANGED <<program, fds>>
        /\ \A d \in Clients : peer[d] # "none" => peer'[d] # "none" /\ (Waits(d)' <=> Waits(d))
    BY ClientSockets DEF ThreadInv
  <1>3. ThreadTypes'
    BY <1>1 DEF ThreadInv, ThreadTypes
  <1>4. Threaded'
    BY <1>1, <1>2 DEF ThreadInv, Threaded
  <1>5. QED
    BY <1>2, <1>3, <1>4 DEF ThreadInv

(* accept(), with a thread for the client or without, and past the end of  *)
(* the table.                                                              *)
LEMMA ThreadAccept ==
  ASSUME ThreadInv, T!Accept \/ T!AcceptTooMany
  PROVE  ThreadInv'
  <1>1. PICK c \in Clients :
            /\ accept(c)
            /\ thread' = [thread EXCEPT ![c] = "run"] \/ thread' = thread
            /\ \/ Len(ts) < TableSize /\ ts' = Append(ts, c) /\ process' = process
               \/ ts' = ts /\ process' = "undefined"
    BY ThreadSockets DEF T!Accept, T!AcceptTooMany
  <1>2. UNCHANGED <<program, peer, sent, read, out, got, taken, buf>>
    BY DEF T!Accept, T!AcceptTooMany
  <1>3. /\ Sockets' /\ Waits(c) /\ peer[c] # "none"
        /\ \A d : Waits(d)' <=> Waits(d) /\ d # c
        /\ fds'[c] = 1 /\ \A d \in Clients \ {c} : fds'[d] = fds[d]
    BY <1>1, <1>2, AcceptSockets DEF ThreadInv
  <1>4. ts \in Seq(Clients) /\ Len(ts) <= TableSize /\ TableSize \in Nat
    BY DEF ThreadInv, ThreadTypes
  <1>5. ts' \in Seq(Clients) /\ Len(ts') <= TableSize
    <2>1. CASE ts' = ts
      BY <1>4, <2>1
    <2>2. CASE Len(ts) < TableSize /\ ts' = Append(ts, c)
      <3>1. Append(ts, c) \in Seq(Clients) /\ Len(Append(ts, c)) = Len(ts) + 1 /\ Len(ts) \in Nat
        BY <1>4, AppendProperties, LenProperties
      <3>2. QED
        BY <1>4, <2>2, <3>1
    <2>3. QED
      BY <1>1, <2>1, <2>2
  <1>6. /\ thread' \in [Clients -> {"none", "run", "done"}]
        /\ \A d \in Clients \ {c} : thread'[d] = thread[d]
    BY <1>1 DEF ThreadInv, ThreadTypes
  <1>7. ThreadTypes'
    BY <1>1, <1>2, <1>5, <1>6 DEF ThreadInv, ThreadTypes
  <1>8. process' = "runs" => process = "runs"
    BY <1>1
  <1>9. Threaded'
    BY <1>2, <1>3, <1>6, <1>8 DEF ThreadInv, Threaded
  <1>10. QED
    BY <1>2, <1>3, <1>7, <1>9 DEF ThreadInv

LEMMA ThreadDies ==
  ASSUME ThreadInv, process' = "dead", Drop(Clients),
         UNCHANGED <<program, peer, backlog, sent, read, out, got, taken, ts, thread, buf>>
  PROVE  ThreadInv'
  <1>1. Sockets' /\ \A d : Waits(d)' <=> Waits(d)
    BY DropSockets DEF ThreadInv
  <1>2. QED
    BY <1>1 DEF ThreadInv, ThreadTypes, Threaded

(* What do_work() writes is a whole buffer of characters.                  *)
LEMMA ThreadRead ==
  ASSUME ThreadInv, NEW c \in Clients, T!WorkRead(c)
  PROVE  ThreadInv'
  <1> DEFINE fill == [i \in 1 .. BUFSIZE |-> IF i <= Upto(c) - read[c] THEN Upper[Text[read[c] + i]] ELSE buf[c][i]]
  <1>1. /\ process = "runs"
        /\ \/ readData(c) /\ buf' = [buf EXCEPT ![c] = fill]
           \/ readError(c) /\ UNCHANGED buf
        /\ out' = [out EXCEPT ![c] = buf'[c]]
        /\ UNCHANGED <<program, backlog, sent, got, taken, fds, ts, thread, process>>
    BY ThreadSockets DEF T!WorkRead, T!Idle
  <1>2. buf \in [Clients -> [1 .. BUFSIZE -> Char]] /\ buf[c] \in [1 .. BUFSIZE -> Char] /\ BUFSIZE \in Nat
    BY EchoAssumption DEF ThreadInv, ThreadTypes
  <1>3. buf' \in [Clients -> [1 .. BUFSIZE -> Char]] /\ buf'[c] \in [1 .. BUFSIZE -> Char]
    <2>1. CASE UNCHANGED buf
      BY <1>2, <2>1
    <2>2. CASE readData(c) /\ buf' = [buf EXCEPT ![c] = fill]
      <3>1. Upto(c) \in 0 .. Len(Text) /\ read[c] \in 0 .. Len(Text)
        BY <2>2, UptoIs DEF ThreadInv, readData
      <3>2. \A i \in 1 .. BUFSIZE : i <= Upto(c) - read[c] => read[c] + i \in 1 .. Len(Text)
        BY <1>2, <3>1, TextLen
      <3>3. \A j \in 1 .. Len(Text) : Upper[Text[j]] \in Char
        BY EchoAssumption, ElementOfSeq DEF Char
      <3>4. \A i \in 1 .. BUFSIZE : i <= Upto(c) - read[c] => Upper[Text[read[c] + i]] \in Char
        BY ONLY <3>2, <3>3
      <3>5. fill \in [1 .. BUFSIZE -> Char]
        BY ONLY <1>2, <3>4
      <3> HIDE DEF fill
      <3>6. QED
        BY ONLY <1>2, <2>2, <3>5, c \in Clients
    <2>3. QED
      BY <1>1, <2>1, <2>2
  <1>4. out' \in [Clients -> Seq(Char)]
    <2>1. out \in [Clients -> Seq(Char)]
      BY DEF ThreadInv, Sockets, NetTypeOK
    <2>2. buf'[c] \in Seq(Char)
      BY <1>2, <1>3, SeqDef
    <2>3. QED
      BY <1>1, <2>1, <2>2
  <1>5. /\ Sockets' /\ \A d : Waits(d)' <=> Waits(d)
        /\ \A d \in Clients : peer'[d] = "none" <=> peer[d] = "none"
    <2>1. got' \in [Clients -> Seq(Char)] /\ fds' \in [Clients -> 0 .. 2] /\ Sockets
      BY <1>1 DEF ThreadInv, Sockets, NetTypeOK
    <2>2. readData(c) \/ readEnd(c) \/ readError(c)
      BY <1>1
    <2>3. UNCHANGED <<backlog, sent, taken>>
      BY <1>1
    <2>4. QED
      BY ONLY <1>4, <2>1, <2>2, <2>3, c \in Clients, ReadTypes
  <1>6. ThreadTypes'
    BY <1>1, <1>3 DEF ThreadInv, ThreadTypes
  <1>7. Threaded'
    BY <1>1, <1>5 DEF ThreadInv, Threaded
  <1>8. QED
    BY <1>1, <1>5, <1>6, <1>7 DEF ThreadInv

LEMMA ThreadWrite ==
  ASSUME ThreadInv, NEW c \in Clients, T!WorkWrite(c)
  PROVE  ThreadInv'
  <1>1. /\ write(c) /\ UNCHANGED <<program, backlog, sent, read, taken, fds, ts, thread, buf, process>>
    BY ThreadSockets DEF T!WorkWrite, T!own
  <1>2. /\ Sockets' /\ \A d : Waits(d)' <=> Waits(d)
        /\ \A d \in Clients : peer'[d] = peer[d] \/ (peer[d] = "reset" /\ peer'[d] = "broken")
    BY <1>1, WriteSockets DEF ThreadInv
  <1>3. QED
    BY <1>1, <1>2 DEF ThreadInv, ThreadTypes, Threaded

LEMMA ThreadEnd ==
  ASSUME ThreadInv, NEW c \in Clients, T!WorkEnd(c)
  PROVE  ThreadInv'
  <1>1. /\ process = "runs" /\ thread[c] = "run" /\ readEnd(c) /\ close(c)
        /\ thread' = [thread EXCEPT ![c] = "done"]
        /\ UNCHANGED <<program, backlog, sent, out, got, taken, ts, buf, process>>
    BY ThreadSockets DEF T!WorkEnd, T!Idle
  <1>2. fds[c] = 1
    BY <1>1 DEF ThreadInv, Threaded
  <1>3. fds' \in [Clients -> 0 .. 2] /\ \A d \in Clients \ {c} : fds'[d] = fds[d]
    BY <1>1, <1>2, CloseFds DEF ThreadInv, Sockets
  <1>4. /\ Sockets' /\ \A d : Waits(d)' <=> Waits(d)
        /\ \A d \in Clients : peer'[d] = "none" <=> peer[d] = "none"
    <2>1. out' \in [Clients -> Seq(Char)] /\ got' \in [Clients -> Seq(Char)] /\ Sockets
      BY <1>1 DEF ThreadInv, Sockets, NetTypeOK
    <2>2. UNCHANGED <<backlog, sent, taken>>
      BY <1>1
    <2>3. QED
      BY ONLY <1>1, <1>3, <2>1, <2>2, c \in Clients, ReadTypes
  <1>5. /\ thread' \in [Clients -> {"none", "run", "done"}] /\ thread'[c] = "done"
        /\ \A d \in Clients \ {c} : thread'[d] = thread[d]
    BY <1>1 DEF ThreadInv, ThreadTypes
  <1>6. ThreadTypes'
    BY <1>1, <1>5 DEF ThreadInv, ThreadTypes
  <1>7. Threaded'
    BY <1>1, <1>3, <1>4, <1>5 DEF ThreadInv, Threaded
  <1>8. QED
    BY <1>1, <1>4, <1>6, <1>7 DEF ThreadInv

LEMMA ThreadStep == ASSUME ThreadInv, T!Next \/ UNCHANGED T!vars PROVE ThreadInv'
  <1>1. CASE T!Accept \/ T!AcceptTooMany
    BY <1>1, ThreadAccept
  <1>2. CASE T!AcceptFails
    BY <1>2, ThreadSockets, ThreadDies DEF T!AcceptFails
  <1>3. ASSUME NEW c \in Clients, T!Killed(c) PROVE ThreadInv'
    BY <1>3, ThreadSockets, ThreadDies DEF T!Killed
  <1>4. ASSUME NEW c \in Clients, T!ClientStep(c), UNCHANGED T!own PROVE ThreadInv'
    BY <1>4, ThreadSockets, ThreadClient
  <1>5. CASE UNCHANGED T!vars
    <2>1. UNCHANGED <<program, peer, backlog, sent, read, out, got, taken, fds, ts, thread, buf, process>>
      BY <1>5 DEF T!vars, T!own, T!net
    <2>2. NetTypeOK'
      BY <2>1 DEF ThreadInv, Sockets, NetTypeOK
    <2>3. Sockets' /\ \A d : Waits(d)' <=> Waits(d)
      BY <2>1, <2>2, SocketsKept DEF ThreadInv
    <2>4. QED
      BY <2>1, <2>3 DEF ThreadInv, ThreadTypes, Threaded
  <1>6. ASSUME NEW c \in Clients, T!WorkStep(c) PROVE ThreadInv'
    BY <1>3, <1>6, ThreadRead, ThreadWrite, ThreadEnd DEF T!WorkStep
  <1>7. QED
    BY <1>1, <1>2, <1>4, <1>5, <1>6 DEF T!Next

------------------------------------------------------------------------------
(* epoll_unblock: it reads only once it has accepted its client *)

EdgeTypes ==
    /\ connect_fd \in Clients \cup {NoClient}
    /\ edge \in BOOLEAN
    /\ process \in {"wait", "read", "dead"}

EdgeInv ==
    /\ program = "edge" /\ EdgeTypes /\ Sockets
    /\ edge \/ process = "read" => connect_fd \in Clients

LEMMA EdgeSockets ==
  ASSUME NEW c
  PROVE  /\ R!Connect(c) <=> Connect(c)
         /\ R!Send(c) <=> Send(c)
         /\ R!Leave(c) <=> Leave(c)
         /\ R!accept(c) <=> accept(c)
         /\ R!readEnd(c) <=> readEnd(c)
         /\ R!readError(c) <=> readError(c)
  <1>1. (R!Connect(c) <=> Connect(c)) /\ (R!Send(c) <=> Send(c)) /\ (R!Leave(c) <=> Leave(c))
    BY DEF R!Connect, R!Send, R!Leave, R!Ended, R!Accepted, R!Waits, Connect, Send, Leave, Ended, Accepted, Waits
  <1>2. (R!accept(c) <=> accept(c)) /\ (R!readEnd(c) <=> readEnd(c)) /\ (R!readError(c) <=> readError(c))
    BY DEF R!accept, R!readEnd, R!readError, accept, readEnd, readError
  <1>3. QED
    BY <1>1, <1>2

LEMMA EdgeTyped == ASSUME EdgeInv PROVE R!TypeOK
  <1>1. R!NetTypeOK
    BY DEF EdgeInv, Sockets, NetTypeOK, Peers, Char, R!NetTypeOK, R!Peers, R!Char
  <1>2. QED
    BY <1>1 DEF R!TypeOK, EdgeInv, EdgeTypes

LEMMA EdgeInit == ASSUME R!Init PROVE EdgeInv
  <1>1. NetInit /\ program = "edge" /\ process = "wait" /\ connect_fd = NoClient /\ edge = FALSE
    BY DEF R!Init, R!NetInit, R!Off, NetInit
  <1>2. Sockets
    BY <1>1, InitSockets
  <1>3. QED
    BY <1>1, <1>2 DEF EdgeInv, EdgeTypes

LEMMA EdgeAccept ==
  ASSUME EdgeInv, R!Accept
  PROVE  EdgeInv'
  <1>1. PICK c \in Clients : accept(c) /\ connect_fd' = c /\ edge' = R!Readable(c)
    BY EdgeSockets DEF R!Accept
  <1>2. UNCHANGED <<program, peer, sent, read, out, got, taken, process>>
    BY DEF R!Accept
  <1>3. Sockets'
    BY <1>1, <1>2, AcceptSockets DEF EdgeInv
  <1>4. edge' \in BOOLEAN
    BY <1>1, Zenon DEF R!Readable
  <1>5. QED
    BY <1>1, <1>2, <1>3, <1>4 DEF EdgeInv, EdgeTypes

LEMMA EdgeQuiet ==
  ASSUME EdgeInv, UNCHANGED R!net, UNCHANGED connect_fd,
         edge' \in {edge, FALSE},
         process' \in {process, "dead"} \/ (edge /\ process' = "read")
  PROVE  EdgeInv'
  <1>1. UNCHANGED <<program, peer, backlog, sent, read, out, got, taken, fds>>
    BY DEF R!net
  <1>2. NetTypeOK'
    BY <1>1 DEF EdgeInv, Sockets, NetTypeOK
  <1>3. Sockets'
    BY <1>1, <1>2, SocketsKept DEF EdgeInv
  <1>4. EdgeTypes'
    BY DEF EdgeInv, EdgeTypes
  <1>5. QED
    BY <1>1, <1>3, <1>4 DEF EdgeInv, EdgeTypes

LEMMA EdgeClient ==
  ASSUME EdgeInv, NEW c \in Clients, R!Client(c)
  PROVE  EdgeInv'
  <1>1. ClientStep(c) /\ UNCHANGED <<connect_fd, process>> /\ edge' \in {edge, edge \/ c = connect_fd}
    BY EdgeSockets DEF R!Client, R!own, ClientStep
  <1>2. Sockets' /\ UNCHANGED program
    BY <1>1, ClientSockets DEF EdgeInv
  <1>3. edge \in BOOLEAN
    BY DEF EdgeInv, EdgeTypes
  <1>4. edge' \in BOOLEAN /\ (edge' => edge \/ c = connect_fd)
    BY <1>1, <1>3, Zenon
  <1>5. QED
    BY <1>1, <1>2, <1>4 DEF EdgeInv, EdgeTypes

LEMMA EdgeRead ==
  ASSUME EdgeInv, R!ReadLoop
  PROVE  EdgeInv'
  <1> DEFINE c == connect_fd
  <1> DEFINE last == R!Upto(c)
  <1>1. /\ process = "read" /\ read[c] < sent[c] /\ read' = [read EXCEPT ![c] = last]
        /\ got' = [got EXCEPT ![c] = @ \o SubSeq(Text, read[c] + 1, last)]
        /\ UNCHANGED <<program, peer, backlog, sent, out, taken, fds, connect_fd, edge, process>>
    BY DEF R!ReadLoop, R!readData, R!own
  <1>2. c \in Clients /\ NetTypeOK
    BY <1>1 DEF EdgeInv, Sockets
  <1>3. /\ read \in [Clients -> 0 .. Len(Text)] /\ got \in [Clients -> Seq(Char)]
        /\ read[c] \in 0 .. Len(Text) /\ sent[c] \in 0 .. Len(Text) /\ got[c] \in Seq(Char)
    BY <1>2 DEF NetTypeOK
  <1>4. last \in 0 .. Len(Text)
    BY <1>1, <1>3, TextLen DEF R!Upto, R!Least
  <1> HIDE DEF last, c
  <1>5. SubSeq(Text, read[c] + 1, last) \in Seq(Char)
    <2>1. Text \in Seq(DOMAIN Upper) /\ DOMAIN Upper \subseteq Char
      BY EchoAssumption DEF Char
    <2>2. \A i \in 1 .. Len(Text) : Text[i] \in Char
      BY <2>1, ElementOfSeq
    <2>3. \A i \in read[c] + 1 .. last : Text[i] \in Char
      BY <1>3, <1>4, <2>2, TextLen
    <2>4. read[c] + 1 \in Int /\ last \in Int
      BY <1>3, <1>4, TextLen
    <2>5. QED
      BY <2>3, <2>4, SubSeqProperties
  <1>6. PICK u \in Seq(Char) : u = SubSeq(Text, read[c] + 1, last)
    BY ONLY <1>5
  <1>7. PICK v \in Seq(Char) : v = got[c] \o u
    BY ONLY <1>3, u \in Seq(Char), ConcatIs
  <1>8. got' = [got EXCEPT ![c] = v]
    BY <1>1, <1>6, <1>7
  <1>9. got' \in [Clients -> Seq(Char)] /\ read' \in [Clients -> 0 .. Len(Text)]
    BY ONLY <1>1, <1>2, <1>3, <1>4, <1>8, v \in Seq(Char)
  <1>10. NetTypeOK'
    BY <1>1, <1>2, <1>9 DEF NetTypeOK
  <1>11. Sockets'
    BY <1>1, <1>10, SocketsKept DEF EdgeInv
  <1>12. QED
    BY <1>1, <1>11 DEF EdgeInv, EdgeTypes

LEMMA EdgeStops ==
  ASSUME EdgeInv, R!ReadStops
  PROVE  EdgeInv'
  <1>1. /\ process = "read" /\ process' = "wait"
        /\ UNCHANGED <<read, peer>> \/ readEnd(connect_fd) \/ readError(connect_fd)
        /\ UNCHANGED <<program, backlog, sent, out, got, taken, fds, connect_fd, edge>>
    BY EdgeSockets DEF R!ReadStops
  <1>2. connect_fd \in Clients /\ NetTypeOK /\ peer \in [Clients -> Peers]
    BY <1>1 DEF EdgeInv, Sockets, NetTypeOK
  <1>3. /\ peer' = peer \/ (peer[connect_fd] = "reset" /\ peer' = [peer EXCEPT ![connect_fd] = "broken"])
        /\ UNCHANGED read
    BY <1>1 DEF readEnd, readError
  <1>4. /\ peer' \in [Clients -> Peers]
        /\ \A d \in Clients : peer[d] # "none" => peer'[d] # "none"
    BY <1>2, <1>3 DEF Peers
  <1>5. NetTypeOK'
    BY <1>1, <1>2, <1>3, <1>4 DEF NetTypeOK
  <1>6. Sockets'
    BY <1>1, <1>4, <1>5, SocketsKept DEF EdgeInv
  <1>7. QED
    BY <1>1, <1>6 DEF EdgeInv, EdgeTypes

LEMMA EdgeStep == ASSUME EdgeInv, R!Next \/ UNCHANGED R!vars PROVE EdgeInv'
  <1>1. CASE R!AcceptFails
    BY <1>1, EdgeQuiet DEF R!AcceptFails
  <1>2. CASE R!EpollWait
    BY <1>2, EdgeQuiet DEF R!EpollWait
  <1>3. CASE UNCHANGED R!vars
    BY <1>3, EdgeQuiet DEF R!vars, R!own
  <1>4. QED
    BY <1>1, <1>2, <1>3, EdgeAccept, EdgeRead, EdgeStops, EdgeClient DEF R!Next, R!Loop

------------------------------------------------------------------------------
(* epoll_loop: its theorems (EpollLoop_proof), for a table of OPEN_MAX     *)
(* slots and for one of a single slot                                      *)

P  == INSTANCE EpollLoop_proof
P1 == INSTANCE EpollLoop_proof WITH OPEN_MAX <- 1

(* The steps of the one module are those of the other.                     *)
LEMMA LoopSame ==
  ASSUME L!Next \/ UNCHANGED L!vars
  PROVE  P!Next \/ UNCHANGED P!vars
  <1>1. /\ L!ListenAdd <=> P!ListenAdd
        /\ L!Tick <=> P!Tick
        /\ L!TimeoutExits <=> P!TimeoutExits
        /\ L!EpollWait <=> P!EpollWait
    BY DEF L!ListenAdd, L!epoll_ctl, L!Registrations, L!Tick, L!TimeoutExits, L!EpollWait, L!Expired,
           L!Checked, L!In, L!Slots, L!Drop, L!Ready, L!Readable, L!Writable, L!Listens, L!net, L!table,
           P!ListenAdd, P!epoll_ctl, P!Registrations, P!Tick, P!TimeoutExits, P!EpollWait, P!Expired,
           P!Checked, P!In, P!Slots, P!Drop, P!Ready, P!Readable, P!Writable, P!Listens, P!net, P!table
  <1>2. /\ L!accept_connection <=> P!accept_connection
        /\ L!AcceptFails <=> P!AcceptFails
        /\ L!AcceptLeaks <=> P!AcceptLeaks
    BY DEF L!accept_connection, L!AcceptFails, L!AcceptLeaks, L!Touch, L!Sending, L!FreeSlots, L!In, L!Slots,
           L!accept, L!event_add, L!event_set, L!epoll_ctl, L!Registrations, L!net, L!table,
           P!accept_connection, P!AcceptFails, P!AcceptLeaks, P!Touch, P!Sending, P!FreeSlots, P!In, P!Slots,
           P!accept, P!event_add, P!event_set, P!epoll_ctl, P!Registrations, P!net, P!table
  <1>3. ASSUME NEW s
        PROVE  /\ L!receive_data(s) <=> P!receive_data(s)
               /\ L!ReceiveFails(s) <=> P!ReceiveFails(s)
    BY DEF L!receive_data, L!ReceiveFails, L!Touch, L!Sending, L!Slots, L!readData, L!readEnd, L!readError,
           L!Upto, L!Least, L!event_add, L!event_set, L!epoll_ctl, L!event_remove, L!Registrations, L!close,
           P!receive_data, P!ReceiveFails, P!Touch, P!Sending, P!Slots, P!readData, P!readEnd, P!readError,
           P!Upto, P!Least, P!event_add, P!event_set, P!epoll_ctl, P!event_remove, P!Registrations, P!close
  <1>4. ASSUME NEW s
        PROVE  /\ L!send_data(s) <=> P!send_data(s)
               /\ L!SendBlocks(s) <=> P!SendBlocks(s)
               /\ L!SendGoesOn(s) <=> P!SendGoesOn(s)
               /\ L!SendReturns(s) <=> P!SendReturns(s)
    BY DEF L!send_data, L!SendBlocks, L!SendGoesOn, L!SendReturns, L!Touch, L!Sending, L!Slots, L!Fits,
           L!Least, L!Listens, L!writeSome, L!event_add, L!event_set, L!epoll_ctl, L!Registrations, L!own,
           L!table, P!send_data, P!SendBlocks, P!SendGoesOn, P!SendReturns, P!Touch, P!Sending, P!Slots,
           P!Fits, P!Least, P!Listens, P!writeSome, P!event_add, P!event_set, P!epoll_ctl, P!Registrations,
           P!own, P!table
  <1>5. ASSUME NEW s
        PROVE  /\ L!SendFails(s) <=> P!SendFails(s)
               /\ L!Killed(s) <=> P!Killed(s)
    BY DEF L!SendFails, L!Killed, L!Touch, L!Sending, L!Slots, L!event_remove, L!Registrations, L!Drop,
           L!table, P!SendFails, P!Killed, P!Touch, P!Sending, P!Slots, P!event_remove, P!Registrations,
           P!Drop, P!table
  <1>6. ASSUME NEW c
        PROVE  L!ClientStep(c) <=> P!ClientStep(c)
    BY DEF L!ClientStep, L!Connect, L!Send, L!Leave, L!Receive, L!Waits, L!Accepted, L!Ended, L!Listens,
           P!ClientStep, P!Connect, P!Send, P!Leave, P!Receive, P!Waits, P!Accepted, P!Ended, P!Listens
  <1>7. /\ UNCHANGED L!own <=> UNCHANGED P!own
        /\ UNCHANGED L!vars <=> UNCHANGED P!vars
    BY DEF L!own, L!vars, L!net, L!table, P!own, P!vars, P!net, P!table
  <1>8. QED
    BY <1>1, <1>2, <1>3, <1>4, <1>5, <1>6, <1>7, Zenon
       DEF L!Next, L!Loop, L!CallBack, L!Slots, P!Next, P!Loop, P!CallBack, P!Slots

LEMMA OneSlotLoopSame ==
  ASSUME L1!Next \/ UNCHANGED L1!vars
  PROVE  P1!Next \/ UNCHANGED P1!vars
  <1>1. /\ L1!ListenAdd <=> P1!ListenAdd
        /\ L1!Tick <=> P1!Tick
        /\ L1!TimeoutExits <=> P1!TimeoutExits
        /\ L1!EpollWait <=> P1!EpollWait
    BY DEF L1!ListenAdd, L1!epoll_ctl, L1!Registrations, L1!Tick, L1!TimeoutExits, L1!EpollWait, L1!Expired,
           L1!Checked, L1!In, L1!Slots, L1!Drop, L1!Ready, L1!Readable, L1!Writable, L1!Listens, L1!net,
           L1!table, P1!ListenAdd, P1!epoll_ctl, P1!Registrations, P1!Tick, P1!TimeoutExits, P1!EpollWait,
           P1!Expired, P1!Checked, P1!In, P1!Slots, P1!Drop, P1!Ready, P1!Readable, P1!Writable, P1!Listens,
           P1!net, P1!table
  <1>2. /\ L1!accept_connection <=> P1!accept_connection
        /\ L1!AcceptFails <=> P1!AcceptFails
        /\ L1!AcceptLeaks <=> P1!AcceptLeaks
    BY DEF L1!accept_connection, L1!AcceptFails, L1!AcceptLeaks, L1!Touch, L1!Sending, L1!FreeSlots, L1!In,
           L1!Slots, L1!accept, L1!event_add, L1!event_set, L1!epoll_ctl, L1!Registrations, L1!net, L1!table,
           P1!accept_connection, P1!AcceptFails, P1!AcceptLeaks, P1!Touch, P1!Sending, P1!FreeSlots, P1!In,
           P1!Slots, P1!accept, P1!event_add, P1!event_set, P1!epoll_ctl, P1!Registrations, P1!net, P1!table
  <1>3. ASSUME NEW s
        PROVE  /\ L1!receive_data(s) <=> P1!receive_data(s)
               /\ L1!ReceiveFails(s) <=> P1!ReceiveFails(s)
    BY DEF L1!receive_data, L1!ReceiveFails, L1!Touch, L1!Sending, L1!Slots, L1!readData, L1!readEnd,
           L1!readError, L1!Upto, L1!Least, L1!event_add, L1!event_set, L1!epoll_ctl, L1!event_remove,
           L1!Registrations, L1!close, P1!receive_data, P1!ReceiveFails, P1!Touch, P1!Sending, P1!Slots,
           P1!readData, P1!readEnd, P1!readError, P1!Upto, P1!Least, P1!event_add, P1!event_set,
           P1!epoll_ctl, P1!event_remove, P1!Registrations, P1!close
  <1>4. ASSUME NEW s
        PROVE  /\ L1!send_data(s) <=> P1!send_data(s)
               /\ L1!SendBlocks(s) <=> P1!SendBlocks(s)
               /\ L1!SendGoesOn(s) <=> P1!SendGoesOn(s)
               /\ L1!SendReturns(s) <=> P1!SendReturns(s)
    BY DEF L1!send_data, L1!SendBlocks, L1!SendGoesOn, L1!SendReturns, L1!Touch, L1!Sending, L1!Slots,
           L1!Fits, L1!Least, L1!Listens, L1!writeSome, L1!event_add, L1!event_set, L1!epoll_ctl,
           L1!Registrations, L1!own, L1!table, P1!send_data, P1!SendBlocks, P1!SendGoesOn, P1!SendReturns,
           P1!Touch, P1!Sending, P1!Slots, P1!Fits, P1!Least, P1!Listens, P1!writeSome, P1!event_add,
           P1!event_set, P1!epoll_ctl, P1!Registrations, P1!own, P1!table
  <1>5. ASSUME NEW s
        PROVE  /\ L1!SendFails(s) <=> P1!SendFails(s)
               /\ L1!Killed(s) <=> P1!Killed(s)
    BY DEF L1!SendFails, L1!Killed, L1!Touch, L1!Sending, L1!Slots, L1!event_remove, L1!Registrations,
           L1!Drop, L1!table, P1!SendFails, P1!Killed, P1!Touch, P1!Sending, P1!Slots, P1!event_remove,
           P1!Registrations, P1!Drop, P1!table
  <1>6. ASSUME NEW c
        PROVE  L1!ClientStep(c) <=> P1!ClientStep(c)
    BY DEF L1!ClientStep, L1!Connect, L1!Send, L1!Leave, L1!Receive, L1!Waits, L1!Accepted, L1!Ended,
           L1!Listens, P1!ClientStep, P1!Connect, P1!Send, P1!Leave, P1!Receive, P1!Waits, P1!Accepted,
           P1!Ended, P1!Listens
  <1>7. /\ UNCHANGED L1!own <=> UNCHANGED P1!own
        /\ UNCHANGED L1!vars <=> UNCHANGED P1!vars
    BY DEF L1!own, L1!vars, L1!net, L1!table, P1!own, P1!vars, P1!net, P1!table
  <1>8. QED
    BY <1>1, <1>2, <1>3, <1>4, <1>5, <1>6, <1>7, Zenon
       DEF L1!Next, L1!Loop, L1!CallBack, L1!Slots, P1!Next, P1!Loop, P1!CallBack, P1!Slots

LEMMA LoopSteps ==
  ASSUME L!Next \/ UNCHANGED L!vars \/ L1!Next \/ UNCHANGED L1!vars
  PROVE  UNCHANGED program
  <1>1. CASE L!Next \/ UNCHANGED L!vars
    BY <1>1 DEF L!Next, L!Loop, L!CallBack, L!ClientStep, L!ListenAdd, L!Tick, L!TimeoutExits, L!EpollWait,
       L!accept_connection, L!AcceptFails, L!AcceptLeaks, L!receive_data, L!ReceiveFails, L!send_data,
       L!SendBlocks, L!SendGoesOn, L!SendReturns, L!SendFails, L!Killed, L!Connect, L!Send, L!Leave,
       L!Receive, L!vars, L!net
  <1>2. CASE L1!Next \/ UNCHANGED L1!vars
    BY <1>2 DEF L1!Next, L1!Loop, L1!CallBack, L1!ClientStep, L1!ListenAdd, L1!Tick, L1!TimeoutExits,
       L1!EpollWait, L1!accept_connection, L1!AcceptFails, L1!AcceptLeaks, L1!receive_data,
       L1!ReceiveFails, L1!send_data, L1!SendBlocks, L1!SendGoesOn, L1!SendReturns, L1!SendFails,
       L1!Killed, L1!Connect, L1!Send, L1!Leave, L1!Receive, L1!vars, L1!net
  <1>3. QED
    BY <1>1, <1>2

LoopInv ==
    /\ program = "loop"
    /\ IF OneSlot THEN P1!IInv ELSE P!IInv

LEMMA Constants == P!LoopConstants /\ P1!LoopConstants /\ OPEN_MAX \in Nat \ {0}
  BY EarlyConstants DEF L!LoopConstants, P!LoopConstants, P1!LoopConstants

LEMMA SameAssumption == P!EchoAssumption /\ P1!EchoAssumption
  BY EchoAssumption DEF IsFiniteSet, P!IsFiniteSet, P1!IsFiniteSet

LEMMA SlotsAre ==
  /\ P!IInv => DOMAIN fd = 1 .. OPEN_MAX
  /\ P1!IInv => DOMAIN fd = {1}
  <1>1. P!IInv => fd \in [1 .. OPEN_MAX -> Clients \cup {NoClient}]
    BY DEF P!IInv, P!TypeOK, P!Slots
  <1>2. P1!IInv => fd \in [1 .. 1 -> Clients \cup {NoClient}]
    BY DEF P1!IInv, P1!TypeOK, P1!Slots
  <1>3. 1 .. 1 = {1}
    OBVIOUS
  <1>4. QED
    BY <1>1, <1>2, <1>3

LEMMA OneSlotInit == ASSUME L1!Init PROVE LoopInv
  <1>1. P1!Init
    BY DEF L1!Init, L1!NetInit, L1!Off, L1!Slots, P1!Init, P1!NetInit, P1!Off, P1!Slots
  <1>2. P1!IInv
    BY <1>1, Constants, SameAssumption, P1!InitIInv
  <1>3. OneSlot
    BY <1>2, SlotsAre DEF OneSlot
  <1>4. program = "loop"
    BY DEF L1!Init
  <1>5. QED
    BY <1>2, <1>3, <1>4 DEF LoopInv

LEMMA LoopInit == ASSUME L!Init PROVE LoopInv
  <1>1. CASE OPEN_MAX = 1
    <2>1. L1!Init
      BY <1>1 DEF L!Init, L!NetInit, L!Off, L!Slots, L1!Init, L1!NetInit, L1!Off, L1!Slots
    <2>2. QED
      BY <2>1, OneSlotInit
  <1>2. CASE OPEN_MAX # 1
    <2>1. P!Init
      BY DEF L!Init, L!NetInit, L!Off, L!Slots, P!Init, P!NetInit, P!Off, P!Slots
    <2>2. P!IInv
      BY <2>1, Constants, SameAssumption, P!InitIInv
    <2>3. DOMAIN fd = 1 .. OPEN_MAX
      BY <2>2, SlotsAre
    <2>4. ~OneSlot
      <3>1. OPEN_MAX \in 1 .. OPEN_MAX
        BY Constants
      <3>2. QED
        BY <1>2, <2>3, <3>1 DEF OneSlot
    <2>5. program = "loop"
      BY DEF L!Init
    <2>6. QED
      BY <2>2, <2>4, <2>5 DEF LoopInv
  <1>3. QED
    BY <1>1, <1>2

LEMMA LoopStep ==
  ASSUME LoopInv, \/ (IF OneSlot THEN L1!Next ELSE L!Next)
                  \/ UNCHANGED L!vars /\ UNCHANGED L1!vars
  PROVE  LoopInv'
  <1>1. program' = "loop"
    BY LoopSteps DEF LoopInv
  <1>2. CASE OneSlot
    <2>1. P1!IInv /\ (L1!Next \/ UNCHANGED L1!vars)
      BY <1>2 DEF LoopInv
    <2>2. P1!Next \/ UNCHANGED P1!vars
      BY <2>1, OneSlotLoopSame
    <2>3. P1!IInv'
      BY <2>1, <2>2, Constants, SameAssumption, P1!StepIInv
    <2>4. (P1!IInv => DOMAIN fd = {1})'
      BY SlotsAre, PTL
    <2>5. OneSlot'
      BY <2>3, <2>4 DEF OneSlot
    <2>6. QED
      BY <1>1, <2>3, <2>5 DEF LoopInv
  <1>3. CASE ~OneSlot
    <2>1. P!IInv /\ (L!Next \/ UNCHANGED L!vars)
      BY <1>3 DEF LoopInv
    <2>2. P!Next \/ UNCHANGED P!vars
      BY <2>1, LoopSame
    <2>3. P!IInv'
      BY <2>1, <2>2, Constants, SameAssumption, P!StepIInv
    <2>4. (P!IInv => DOMAIN fd = 1 .. OPEN_MAX)'
      BY SlotsAre, PTL
    <2>5. DOMAIN fd = 1 .. OPEN_MAX
      BY <2>1, SlotsAre
    <2>6. ~OneSlot'
      BY <1>3, <2>3, <2>4, <2>5 DEF OneSlot
    <2>7. QED
      BY <1>1, <2>3, <2>6 DEF LoopInv
  <1>4. QED
    BY <1>2, <1>3

LEMMA LoopTyped ==
  ASSUME LoopInv
  PROVE  IF OneSlot THEN L1!TypeOK ELSE L!TypeOK
  <1>1. CASE OneSlot
    <2>1. P1!TypeOK
      BY <1>1 DEF LoopInv, P1!IInv
    <2>2. P1!TypeOK <=> L1!TypeOK
      BY DEF P1!TypeOK, P1!NetTypeOK, P1!Peers, P1!Char, P1!Slots, L1!TypeOK, L1!NetTypeOK, L1!Peers, L1!Char, L1!Slots
    <2>3. QED
      BY <1>1, <2>1, <2>2
  <1>2. CASE ~OneSlot
    <2>1. P!TypeOK
      BY <1>2 DEF LoopInv, P!IInv
    <2>2. P!TypeOK <=> L!TypeOK
      BY DEF P!TypeOK, P!NetTypeOK, P!Peers, P!Char, P!Slots, L!TypeOK, L!NetTypeOK, L!Peers, L!Char, L!Slots
    <2>3. QED
      BY <1>2, <2>1, <2>2
  <1>3. QED
    BY <1>1, <1>2

LEMMA LoopTable == ASSUME LoopInv PROVE SlotsConsistent
  <1>1. CASE OneSlot
    <2>1. P1!TypeOK /\ (process # "dead" => P1!Table)
      BY <1>1 DEF LoopInv, P1!IInv
    <2>2. DOMAIN status = P1!Slots
      BY <2>1 DEF P1!TypeOK
    <2>3. QED
      BY <2>1, <2>2 DEF P1!Table, P1!In, P1!Registrations, SlotsConsistent, L!SlotsConsistent, L!In, L!Registrations
  <1>2. CASE ~OneSlot
    <2>1. P!TypeOK /\ (process # "dead" => P!Table)
      BY <1>2 DEF LoopInv, P!IInv
    <2>2. DOMAIN status = P!Slots
      BY <2>1 DEF P!TypeOK
    <2>3. QED
      BY <2>1, <2>2 DEF P!Table, P!In, P!Registrations, SlotsConsistent, L!SlotsConsistent, L!In, L!Registrations
  <1>3. QED
    BY <1>1, <1>2

------------------------------------------------------------------------------
(* The servers side by side *)

(* Each program keeps its own invariant, and the table of epoll_loop is    *)
(* empty in the others.                                                    *)
EchoInv ==
    /\ program = "fork" => ForkInv
    /\ program = "thread" => ThreadInv
    /\ program = "epoll" => IInv
    /\ program = "loop" => LoopInv
    /\ program = "edge" => EdgeInv
    /\ program # "loop" => L!Off

LEMMA EchoStarts ==
  ASSUME EchoInit
  PROVE  \/ F!Init /\ ForkInv /\ program = "fork"
         \/ T!Init /\ ThreadInv /\ program = "thread"
         \/ Init /\ IInv /\ program = "epoll"
         \/ LoopInv /\ program = "loop"
         \/ EdgeInv /\ program = "edge"
  <1>1. CASE F!Init
    BY <1>1, ForkInit DEF ForkInv
  <1>2. CASE T!Init
    BY <1>2, ThreadInit DEF ThreadInv
  <1>3. CASE Init
    BY <1>3, InitIInv DEF IInv
  <1>4. CASE L!Init \/ L1!Init
    BY <1>4, LoopInit, OneSlotInit DEF LoopInv
  <1>5. CASE R!Init
    BY <1>5, EdgeInit DEF EdgeInv
  <1>6. QED
    BY <1>1, <1>2, <1>3, <1>4, <1>5 DEF EchoInit

LEMMA EchoInitInv == EchoInit => EchoInv
  <1> SUFFICES ASSUME EchoInit PROVE EchoInv
    OBVIOUS
  <1>1. program # "loop" => L!Off
    BY DEF EchoInit
  <1>2. QED
    BY <1>1, EchoStarts DEF EchoInv

(* A step of the program that runs, or none. *)
LEMMA EchoSteps ==
  ASSUME [EchoNext]_echoVars
  PROVE  /\ program = "fork" => F!Next \/ UNCHANGED F!vars
         /\ program = "thread" => T!Next \/ UNCHANGED T!vars
         /\ program = "epoll" => Next \/ UNCHANGED vars
         /\ program = "loop" => \/ IF OneSlot THEN L1!Next ELSE L!Next
                                \/ UNCHANGED L!vars /\ UNCHANGED L1!vars
         /\ program = "edge" => R!Next \/ UNCHANGED R!vars
         /\ program # "loop" => UNCHANGED ofLoop
  <1>1. CASE UNCHANGED echoVars
    <2>1. UNCHANGED <<net, process, ofFork, ofThread, ofEpoll, ofLoop, ofEdge>>
      BY <1>1 DEF echoVars
    <2>2. UNCHANGED F!vars /\ UNCHANGED T!vars
      BY <2>1 DEF net, ofFork, ofThread, F!vars, F!net, F!own, T!vars, T!net, T!own
    <2>3. UNCHANGED vars /\ UNCHANGED R!vars
      BY <2>1 DEF net, ofEpoll, ofEdge, vars, own, R!vars, R!net, R!own
    <2>4. UNCHANGED L!vars /\ UNCHANGED L1!vars
      BY <2>1 DEF net, ofLoop, L!vars, L!net, L!own, L!table, L1!vars, L1!net, L1!own, L1!table
    <2>5. QED
      BY <2>1, <2>2, <2>3, <2>4
  <1>2. CASE EchoNext
    BY <1>2 DEF EchoNext
  <1>3. QED
    BY <1>1, <1>2

LEMMA EchoStepInv == EchoInv /\ [EchoNext]_echoVars => EchoInv'
  <1> SUFFICES ASSUME EchoInv, [EchoNext]_echoVars PROVE EchoInv'
    OBVIOUS
  <1>1. program # "loop" => L!Off'
    BY EchoSteps DEF EchoInv, L!Off, L!Slots, ofLoop
  <1>2. CASE program = "fork"
    <2>1. ForkInv'
      BY <1>2, EchoSteps, ForkStep DEF EchoInv
    <2>2. QED
      BY <1>1, <1>2, <2>1 DEF EchoInv, ForkInv
  <1>3. CASE program = "thread"
    <2>1. ThreadInv'
      BY <1>3, EchoSteps, ThreadStep DEF EchoInv
    <2>2. QED
      BY <1>1, <1>3, <2>1 DEF EchoInv, ThreadInv
  <1>4. CASE program = "epoll"
    <2>1. IInv'
      BY <1>4, EchoSteps, StepIInv DEF EchoInv
    <2>2. QED
      BY <1>1, <1>4, <2>1 DEF EchoInv, IInv
  <1>5. CASE program = "loop"
    <2>1. LoopInv'
      BY <1>5, EchoSteps, LoopStep DEF EchoInv
    <2>2. QED
      BY <2>1 DEF EchoInv, LoopInv
  <1>6. CASE program = "edge"
    <2>1. EdgeInv'
      BY <1>6, EchoSteps, EdgeStep DEF EchoInv
    <2>2. QED
      BY <1>1, <1>6, <2>1 DEF EchoInv, EdgeInv
  <1>7. CASE program \notin {"fork", "thread", "epoll", "loop", "edge"}
    <2>1. UNCHANGED program
      BY <1>7 DEF EchoNext, echoVars, net
    <2>2. QED
      BY <1>1, <1>7, <2>1 DEF EchoInv
  <1>8. QED
    BY <1>2, <1>3, <1>4, <1>5, <1>6, <1>7

LEMMA EchoInductive == EchoSpec => []EchoInv
  BY EchoInitInv, EchoStepInv, PTL DEF EchoSpec

(* Whichever of the early servers runs, every variable keeps its type, for *)
(* any clients, text, sizes and faults: no process closes a descriptor it  *)
(* does not hold (fds is never below 0), epoll_unblock reads nothing       *)
(* before it has accepted its client, and ts is never longer than its      *)
(* array.                                                                  *)
THEOREM EchoTyped == EchoSpec => []EchoTypeOK
  <1>1. EchoInv => EchoTypeOK
    <2> SUFFICES ASSUME EchoInv PROVE EchoTypeOK
      OBVIOUS
    <2>1. program = "fork" => F!TypeOK
      BY ForkTyped DEF EchoInv
    <2>2. program = "thread" => T!TypeOK
      BY ThreadTyped DEF EchoInv
    <2>3. program = "epoll" => TypeOK
      BY DEF EchoInv, IInv
    <2>4. program = "loop" => IF OneSlot THEN L1!TypeOK ELSE L!TypeOK
      BY LoopTyped DEF EchoInv
    <2>5. program = "edge" => R!TypeOK
      BY EdgeTyped DEF EchoInv
    <2>6. QED
      BY <2>1, <2>2, <2>3, <2>4, <2>5 DEF EchoTypeOK
  <1>2. QED
    BY <1>1, EchoInductive, PTL

(* multi_progress_server answers as exactly as epoll does: what a child    *)
(* has written, or is about to, is what it has read, in capitals.          *)
THEOREM EchoAnswers == EchoSpec => []EchoExact
  <1>1. EchoInv => EchoExact
    BY DEF EchoInv, ForkInv, IInv, Exchange, Echoed, EchoExact
  <1>2. QED
    BY <1>1, EchoInductive, PTL

(* g_events agrees with the epoll instance, with many slots and with one,  *)
(* but for the slots that epoll_ctl() has failed to register.              *)
THEOREM EchoTables == EchoSpec => []SlotsConsistent
  <1>1. EchoInv => SlotsConsistent
    <2>1. ASSUME EchoInv, program = "loop" PROVE SlotsConsistent
      BY <2>1, LoopTable DEF EchoInv
    <2>2. ASSUME L!Off PROVE SlotsConsistent
      BY <2>2 DEF L!Off, SlotsConsistent, L!SlotsConsistent, L!In, L!Registrations
    <2>3. QED
      BY <2>1, <2>2 DEF EchoInv
  <1>2. QED
    BY <1>1, EchoInductive, PTL

(* multi_progress_server and epoll do what EchoService does, step by step: *)
(* whatever the order in which the parent closes and a child ends, a       *)
(* connection ends only when its client has left or been answered in full. *)
THEOREM EchoImplements == EchoSpec => ImplementsEcho
  <1>1. EchoInit => (program = "fork" => F!Service!Init) /\ (program = "epoll" => Service!Init)
    BY EchoStarts, ForkInitRefines, InitRefines
  <1>2. EchoInv /\ [EchoNext]_echoVars =>
          /\ program = "fork" => F!Service!Next \/ UNCHANGED F!Service!vars
          /\ program = "epoll" => Service!Next \/ UNCHANGED Service!vars
    <2> SUFFICES ASSUME EchoInv, [EchoNext]_echoVars
                 PROVE  /\ program = "fork" => F!Service!Next \/ UNCHANGED F!Service!vars
                        /\ program = "epoll" => Service!Next \/ UNCHANGED Service!vars
      OBVIOUS
    <2>1. program = "fork" => F!Service!Next \/ UNCHANGED F!Service!vars
      BY EchoSteps, ForkStepRefines DEF EchoInv
    <2>2. program = "epoll" => Service!Next \/ UNCHANGED Service!vars
      BY EchoSteps, StepRefines DEF EchoInv
    <2>3. QED
      BY <2>1, <2>2
  <1>3. QED
    BY <1>1, <1>2, EchoInductive, PTL DEF EchoSpec, ImplementsEcho
==============================================================================
