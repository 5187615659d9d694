----------------------------- MODULE Answer_proof -----------------------------
(* Theorems about the models that MCAnswer puts together: the writing of   *)
(* answers (Response) and the reading of lines (LineReader), for any sizes *)
(* of buffers, headers, bodies and lines; the requests of one connection   *)
(* (RequestHandler) and those of the early version (EarlyRequest), for any *)
(* requests, bodies, faults and cuts of the network; and all of MCAnswer.  *)
EXTENDS MCAnswer, SequenceLemmas, TLAPS

------------------------------------------------------------------------------
(* Response: the inductive invariant *)

Should(k) == IF k <= HeaderLen THEN "header" ELSE "body"

(* The i-th answer is in the stream from its beginning to the next one.    *)
Whole(i) ==
    /\ R!Begins(i + 1) = R!Begins(i) + HeaderLen + begun[i].length
    /\ \A k \in 1 .. HeaderLen + begun[i].length : stream[R!Begins(i) + k] = Should(k)

(* Of the last answer, what is still to be written is missing.             *)
Partly ==
    LET n == Len(begun)
    IN  /\ R!Begins(n) + (IF step = "header" THEN HeaderLen ELSE HeaderLen + begun[n].length) = Len(stream) + left
        /\ step = "header" => left <= HeaderLen
        /\ step = "body" => left <= begun[n].length
        /\ \A k \in 1 .. Len(stream) - R!Begins(n) : stream[R!Begins(n) + k] = Should(k)

AsLengthsSay ==
    peer = "reads" /\ step \in {"idle", "header", "body"} =>
        /\ R!Begins(1) = 0
        /\ \A i \in DOMAIN begun : i < Len(begun) \/ step = "idle" => Whole(i)
        /\ step # "idle" => Partly

ResponseIInv ==
    /\ R!TypeOK /\ AsLengthsSay
    /\ step \in R!Writing => begun # <<>>

LEMMA ResponseInit == ASSUME R!ResponseConstants, R!Init PROVE ResponseIInv
  <1>1. /\ version \in {"now", "early"} /\ step = "idle" /\ begun = <<>> /\ left = 0
        /\ stream = <<>> /\ taken = 0 /\ peer = "reads"
    BY DEF R!Init
  <1>2. Len(begun) = 0 /\ Len(stream) = 0 /\ DOMAIN begun = {}
    BY <1>1
  <1>3. R!TypeOK
    BY <1>1, <1>2, EmptySeq DEF R!TypeOK, R!ResponseConstants
  <1>4. R!Begins(1) = 0
    BY <1>2 DEF R!Begins
  <1>5. QED
    BY <1>1, <1>2, <1>3, <1>4 DEF ResponseIInv, AsLengthsSay, R!Writing

LEMMA AnswersAre ==
  ASSUME R!ResponseConstants, R!TypeOK
  PROVE  /\ Len(begun) \in Nat /\ DOMAIN begun = 1 .. Len(begun) /\ Len(stream) \in Nat
         /\ left \in Nat /\ HeaderLen \in Nat
         /\ \A i \in DOMAIN begun : R!Begins(i) = begun[i].from /\ begun[i].from \in 0 .. Len(stream) /\ begun[i].length \in Nat
         /\ R!Begins(Len(begun) + 1) = Len(stream)
  <1>1. begun \in Seq([length : BodyLens, from : 0 .. Len(stream)]) /\ stream \in Seq({"header", "body"})
    BY DEF R!TypeOK
  <1>2. Len(begun) \in Nat /\ DOMAIN begun = 1 .. Len(begun) /\ Len(stream) \in Nat
    BY <1>1, LenProperties
  <1>3. \A i \in 1 .. Len(begun) : begun[i] \in [length : BodyLens, from : 0 .. Len(stream)]
    BY <1>1, ElementOfSeq
  <1>4. ASSUME NEW i \in DOMAIN begun
        PROVE  R!Begins(i) = begun[i].from /\ begun[i].from \in 0 .. Len(stream) /\ begun[i].length \in Nat
    <2>1. begun[i] \in [length : BodyLens, from : 0 .. Len(stream)]
      BY <1>2, <1>3
    <2>2. QED
      BY <2>1 DEF R!Begins, R!ResponseConstants
  <1>5. Len(begun) + 1 \notin DOMAIN begun
    BY <1>2
  <1>6. QED
    BY <1>2, <1>4, <1>5 DEF R!Begins, R!TypeOK, R!ResponseConstants

(* A write that adds n characters to the stream. *)
Extended(n) ==
    /\ stream' \in Seq({"header", "body"})
    /\ Len(stream') = Len(stream) + n
    /\ \A k \in 1 .. Len(stream) : stream'[k] = stream[k]
    /\ \A k \in 1 .. n : stream'[Len(stream) + k] = R!Kind

LEMMA PieceIs ==
  ASSUME NEW kind \in {"header", "body"}, NEW n \in Nat
  PROVE  /\ R!Piece(kind, n) \in Seq({"header", "body"}) /\ Len(R!Piece(kind, n)) = n
         /\ \A k \in 1 .. n : R!Piece(kind, n)[k] = kind
  BY DEF R!Piece

LEMMA PutExtends ==
  ASSUME R!TypeOK, NEW n \in Nat, R!Put(n)
  PROVE  Extended(n)
  <1>1. stream \in Seq({"header", "body"}) /\ R!Kind \in {"header", "body"}
    BY DEF R!TypeOK, R!Kind
  <1>2. PICK t \in Seq({"header", "body"}) : t = R!Piece(R!Kind, n)
    BY <1>1, PieceIs
  <1>3. Len(t) = n /\ \A k \in 1 .. n : t[k] = R!Kind
    BY ONLY <1>1, <1>2, n \in Nat, PieceIs
  <1>4. stream' = stream \o t
    BY <1>2 DEF R!Put
  <1>5. /\ stream \o t \in Seq({"header", "body"}) /\ Len(stream \o t) = Len(stream) + Len(t)
        /\ \A i \in 1 .. Len(stream) : (stream \o t)[i] = stream[i]
        /\ \A i \in 1 .. Len(t) : (stream \o t)[Len(stream) + i] = t[i]
    BY ONLY <1>1, t \in Seq({"header", "body"}), ConcatIs
  <1>6. /\ stream' \in Seq({"header", "body"}) /\ Len(stream') = Len(stream) + Len(t)
        /\ \A i \in 1 .. Len(stream) : stream'[i] = stream[i]
        /\ \A i \in 1 .. Len(t) : stream'[Len(stream) + i] = t[i]
    BY ONLY <1>4, <1>5
  <1>7. QED
    BY ONLY <1>3, <1>6 DEF Extended

LEMMA SameExtends ==
  ASSUME R!TypeOK, stream' = stream
  PROVE  Extended(0)
  <1>1. Len(stream) \in Nat /\ stream \in Seq({"header", "body"})
    BY LenProperties DEF R!TypeOK
  <1>2. QED
    BY <1>1 DEF Extended

(* The answers written before are left as they are. *)
LEMMA WholeKept ==
  ASSUME R!ResponseConstants, R!TypeOK, NEW n \in Nat, Extended(n), begun' = begun,
         NEW i \in DOMAIN begun, i < Len(begun), Whole(i)
  PROVE  Whole(i)'
  <1>1. /\ Len(begun) \in Nat /\ DOMAIN begun = 1 .. Len(begun) /\ Len(stream) \in Nat /\ HeaderLen \in Nat
        /\ \A j \in DOMAIN begun : R!Begins(j) = begun[j].from /\ begun[j].from \in 0 .. Len(stream) /\ begun[j].length \in Nat
    BY AnswersAre
  <1>2. i + 1 \in DOMAIN begun
    BY <1>1
  <1>3. R!Begins(i)' = R!Begins(i) /\ R!Begins(i + 1)' = R!Begins(i + 1)
    BY <1>2 DEF R!Begins
  <1>4. PICK length \in Nat : length = begun[i].length
    BY <1>1
  <1>5. PICK b \in Nat : b = R!Begins(i)
    BY <1>1
  <1>6. PICK e \in 0 .. Len(stream) : e = R!Begins(i + 1)
    BY <1>1, <1>2
  <1>7. e = b + HeaderLen + length /\ \A k \in 1 .. HeaderLen + length : stream[b + k] = Should(k)
    BY <1>4, <1>5, <1>6 DEF Whole
  <1>8. \A k \in 1 .. HeaderLen + length : b + k \in 1 .. Len(stream)
    BY ONLY <1>1, <1>7, b \in Nat, e \in 0 .. Len(stream), length \in Nat
  <1>9. \A k \in 1 .. HeaderLen + length : stream'[b + k] = Should(k)
    BY ONLY Extended(n), <1>7, <1>8 DEF Extended
  <1>10. /\ R!Begins(i)' = b /\ R!Begins(i + 1)' = e /\ begun'[i].length = length
    BY <1>3, <1>4, <1>5, <1>6
  <1>11. QED
    BY <1>7, <1>9, <1>10 DEF Whole, Should

(* Of the last answer, n characters more. *)
LEMMA PartlyWritten ==
  ASSUME R!ResponseConstants, R!TypeOK, NEW n \in Nat, n <= left, Extended(n),
         step \in {"header", "body"}, begun # <<>>, Partly, NEW b, b = R!Begins(Len(begun))
  PROVE  /\ b + (IF step = "header" THEN HeaderLen ELSE HeaderLen + begun[Len(begun)].length) = Len(stream') + left - n
         /\ \A k \in 1 .. Len(stream') - b : stream'[b + k] = Should(k)
  <1>1. Len(begun) \in DOMAIN begun
    <2>1. Len(begun) \in Nat /\ DOMAIN begun = 1 .. Len(begun) /\ begun \in Seq([length : BodyLens, from : 0 .. Len(stream)])
      BY AnswersAre DEF R!TypeOK
    <2>2. Len(begun) # 0
      BY <2>1, EmptySeq
    <2>3. QED
      BY ONLY <2>1, <2>2
  <1> DEFINE all == IF step = "header" THEN HeaderLen ELSE HeaderLen + begun[Len(begun)].length
  <1>2. /\ Len(stream) \in Nat /\ left \in Nat /\ HeaderLen \in Nat /\ b \in 0 .. Len(stream)
        /\ begun[Len(begun)].length \in Nat
    BY <1>1, AnswersAre
  <1>3. /\ b + all = Len(stream) + left
        /\ step = "header" => left <= HeaderLen
        /\ step = "body" => left <= begun[Len(begun)].length
        /\ \A k \in 1 .. Len(stream) - b : stream[b + k] = Should(k)
    BY DEF Partly
  <1>4. Len(stream') = Len(stream) + n
    BY DEF Extended
  <1>5. b + all = Len(stream') + left - n
    BY ONLY <1>2, <1>3, <1>4, n \in Nat
  <1>6. ASSUME NEW k \in 1 .. Len(stream') - b PROVE stream'[b + k] = Should(k)
    <2>1. CASE k <= Len(stream) - b
      <3>1. k \in 1 .. Len(stream) - b /\ b + k \in 1 .. Len(stream)
        BY ONLY <1>2, <2>1, k \in 1 .. Len(stream') - b
      <3>2. QED
        BY <1>3, <3>1 DEF Extended
    <2>2. CASE k > Len(stream) - b
      <3>1. b + k - Len(stream) \in 1 .. n /\ b + k = Len(stream) + (b + k - Len(stream)) /\ k \in Nat
        BY ONLY <1>2, <1>4, <2>2, n \in Nat, k \in 1 .. Len(stream') - b
      <3>2. stream'[b + k] = R!Kind
        BY <3>1 DEF Extended
      <3>3. CASE step = "header"
        <4>1. k <= HeaderLen
          BY ONLY <1>2, <1>3, <1>4, <1>5, <3>1, <3>3, n \in Nat, n <= left, k \in 1 .. Len(stream') - b
        <4>2. QED
          BY <3>2, <3>3, <4>1 DEF Should, R!Kind
      <3>4. CASE step = "body"
        <4>1. PICK length \in Nat : length = begun[Len(begun)].length
          BY <1>2
        <4>2. b + HeaderLen + length = Len(stream) + left /\ left <= length
          <5>1. all = HeaderLen + length
            BY ONLY <3>4, <4>1
          <5> HIDE DEF all
          <5>2. b + all = Len(stream) + left /\ left <= length
            BY ONLY <1>3, <3>4, <4>1
          <5>3. QED
            BY ONLY <1>2, <5>1, <5>2, length \in Nat
        <4>3. ~(k <= HeaderLen)
          BY ONLY <1>2, <2>2, <3>1, <4>2, length \in Nat
        <4>4. QED
          BY <3>2, <3>4, <4>3 DEF Should, R!Kind
      <3>5. QED
        BY <3>3, <3>4
    <2>3. QED
      BY <1>2, <2>1, <2>2
  <1>7. QED
    BY <1>5, <1>6

------------------------------------------------------------------------------
(* Response: the steps *)

(* Types, where a step writes on or leaves the stream alone. *)
LEMMA ResponseTypes ==
  ASSUME R!ResponseConstants, R!TypeOK, NEW n \in Nat, Extended(n), begun' = begun, version' = version,
         step' \in R!Writing \cup {"idle", "closed", "killed"}, left' \in Nat,
         taken' = taken, peer' \in {"reads", "closed", "reset", "broken"}
  PROVE  R!TypeOK'
  <1>1. /\ begun \in Seq([length : BodyLens, from : 0 .. Len(stream)]) /\ Len(begun) <= MaxAnswers
        /\ version \in {"now", "early"} /\ taken \in 0 .. Len(stream)
    BY DEF R!TypeOK
  <1>2. Len(stream) \in Nat
    BY AnswersAre
  <1>3. stream' \in Seq({"header", "body"}) /\ Len(stream') = Len(stream) + n
    BY DEF Extended
  <1>4. 0 .. Len(stream) \subseteq 0 .. Len(stream')
    BY <1>2, <1>3
  <1>5. [length : BodyLens, from : 0 .. Len(stream)] \subseteq [length : BodyLens, from : 0 .. Len(stream')]
    BY <1>4
  <1>6. begun \in Seq([length : BodyLens, from : 0 .. Len(stream')])
    BY ONLY <1>1, <1>5, SeqMonotonic
  <1>7. taken' \in 0 .. Len(stream')
    BY <1>1, <1>4
  <1>8. QED
    BY <1>1, <1>3, <1>6, <1>7 DEF R!TypeOK

LEMMA LastIs ==
  ASSUME R!ResponseConstants, R!TypeOK, begun # <<>>
  PROVE  /\ Len(begun) \in DOMAIN begun /\ R!Last(begun) = begun[Len(begun)]
         /\ R!Last(begun).length \in Nat /\ 1 \in DOMAIN begun
  <1>1. Len(begun) \in Nat /\ DOMAIN begun = 1 .. Len(begun) /\ begun \in Seq([length : BodyLens, from : 0 .. Len(stream)])
    BY AnswersAre DEF R!TypeOK
  <1>2. Len(begun) # 0
    BY <1>1, EmptySeq
  <1>3. Len(begun) \in DOMAIN begun /\ 1 \in DOMAIN begun
    BY ONLY <1>1, <1>2
  <1>4. begun[Len(begun)].length \in Nat
    BY <1>3, AnswersAre
  <1>5. R!Last(begun) = begun[Len(begun)]
    BY DEF R!Last
  <1>6. QED
    BY <1>3, <1>4, <1>5

(* Nothing is said of a connection that will not be kept.                  *)
LEMMA SilentKeeps ==
  ASSUME R!TypeOK', begun' = begun,
         step \in R!Writing, peer' # "reads" \/ step' \notin {"idle", "header", "body"}, ResponseIInv
  PROVE  ResponseIInv'
  BY DEF ResponseIInv, AsLengthsSay

LEMMA ThenTypes ==
  ASSUME R!ResponseConstants, R!TypeOK, begun # <<>>, R!Then
  PROVE  step' \in R!Writing \cup {"idle", "closed"} /\ left' \in Nat
  <1>1. \/ step' \in {"body", "error body"} /\ left' = R!Last(begun).length
        \/ step' \in {"idle", "closed"} /\ left' = 0
    BY DEF R!Then
  <1>2. PICK length \in Nat : length = R!Last(begun).length
    BY LastIs
  <1>3. left' = length \/ left' = 0
    BY ONLY <1>1, <1>2
  <1>4. step' \in {"body", "error body", "idle", "closed"}
    BY ONLY <1>1
  <1>5. left' \in Nat
    BY ONLY <1>3, length \in Nat
  <1>6. step' \in R!Writing \cup {"idle", "closed"}
    BY ONLY <1>4 DEF R!Writing
  <1>7. QED
    BY <1>5, <1>6

(* What follows a write that is complete. *)
LEMMA ThenKeeps ==
  ASSUME R!ResponseConstants, ResponseIInv, step \in R!Writing, Extended(left), R!Then,
         begun' = begun, version' = version, taken' = taken, peer' = peer
  PROVE  ResponseIInv'
  <1>1. R!TypeOK /\ begun # <<>> /\ left \in Nat
    BY DEF ResponseIInv, R!TypeOK
  <1>2. Len(begun) \in DOMAIN begun /\ R!Last(begun) = begun[Len(begun)] /\ R!Last(begun).length \in Nat /\ 1 \in DOMAIN begun
    BY <1>1, LastIs
  <1>3. step' \in R!Writing \cup {"idle", "closed"} /\ left' \in Nat
    BY <1>1, ThenTypes
  <1>4. R!TypeOK'
    <2>1. peer' \in {"reads", "closed", "reset", "broken"}
      BY <1>1 DEF R!TypeOK
    <2>2. step' \in R!Writing \cup {"idle", "closed", "killed"}
      BY <1>3
    <2>3. QED
      BY <1>1, <1>3, <2>1, <2>2, ResponseTypes
  <1>5. CASE step' \notin {"idle", "header", "body"} \/ peer' # "reads"
    BY <1>4, <1>5, SilentKeeps
  <1>6. CASE step' \in {"idle", "header", "body"} /\ peer = "reads"
    <2>1. \/ step = "header" /\ step' = "body" /\ left' = R!Last(begun).length
          \/ step = "body" /\ step' = "idle" /\ left' = 0
      BY <1>6 DEF R!Then, R!Writing
    <2>2. R!Begins(1) = 0 /\ (\A i \in DOMAIN begun : i < Len(begun) => Whole(i)) /\ Partly
      BY <1>6, <2>1 DEF ResponseIInv, AsLengthsSay
    <2>3. R!Begins(1)' = 0
      BY <1>2, <2>2 DEF R!Begins
    <2>4. \A i \in DOMAIN begun : i < Len(begun) => Whole(i)'
      BY <1>1, <2>2, WholeKept
    <2>5. PICK b : b = R!Begins(Len(begun))
      OBVIOUS
    <2>6. b \in Nat /\ Len(stream') \in Nat /\ HeaderLen \in Nat
      <3>1. R!Begins(Len(begun)) \in 0 .. Len(stream) /\ HeaderLen \in Nat
        BY <1>1, <1>2, AnswersAre
      <3>2. Len(stream') \in Nat
        BY LenProperties DEF Extended
      <3>3. QED
        BY <2>5, <3>1, <3>2
    <2>7. /\ b + (IF step = "header" THEN HeaderLen ELSE HeaderLen + begun[Len(begun)].length) = Len(stream')
          /\ \A k \in 1 .. Len(stream') - b : stream'[b + k] = Should(k)
      <3>1. left <= left /\ step \in {"header", "body"}
        BY <1>1, <2>1
      <3>2. /\ b + (IF step = "header" THEN HeaderLen ELSE HeaderLen + begun[Len(begun)].length) = Len(stream') + left - left
            /\ \A k \in 1 .. Len(stream') - b : stream'[b + k] = Should(k)
        BY ONLY R!ResponseConstants, Extended(left), <1>1, <2>2, <2>5, <3>1, PartlyWritten
      <3>3. Len(stream') + left - left = Len(stream')
        BY ONLY <1>1, <2>6
      <3>4. QED
        BY ONLY <3>2, <3>3
    <2>8. R!Begins(Len(begun))' = b
      BY <1>2, <2>5 DEF R!Begins
    <2>9. CASE step = "header"
      <3>1. step' = "body" /\ left' = begun[Len(begun)].length /\ b + HeaderLen = Len(stream')
        BY <1>2, <2>1, <2>7, <2>9
      <3>2. left' \in Nat
        BY <1>3
      <3>3. b + (HeaderLen + begun[Len(begun)].length) = Len(stream') + left'
        <4>1. PICK length \in Nat : length = begun[Len(begun)].length
          BY <1>2
        <4>2. b + (HeaderLen + length) = Len(stream') + length
          BY ONLY <2>6, <3>1, length \in Nat
        <4>3. QED
          BY ONLY <3>1, <4>1, <4>2
      <3>4. Partly'
        BY <2>7, <2>8, <3>1, <3>2, <3>3 DEF Partly, Should
      <3>5. QED
        BY <1>1, <1>4, <2>3, <2>4, <3>1, <3>4 DEF ResponseIInv, AsLengthsSay
    <2>10. CASE step = "body"
      <3>1. step' = "idle" /\ b + (HeaderLen + begun[Len(begun)].length) = Len(stream')
        BY <2>1, <2>7, <2>10
      <3>2. R!Begins(Len(begun) + 1)' = Len(stream')
        <4>1. Len(begun) + 1 \notin DOMAIN begun
          BY <1>1, AnswersAre
        <4>2. QED
          BY <4>1 DEF R!Begins
      <3>3. begun[Len(begun)].length \in Nat
        BY <1>2
      <3>4. Len(stream') = b + HeaderLen + begun[Len(begun)].length /\ Len(stream') - b = HeaderLen + begun[Len(begun)].length
        <4>1. PICK length \in Nat : length = begun[Len(begun)].length
          BY <3>3
        <4>2. b + (HeaderLen + length) = Len(stream')
          BY <3>1, <4>1
        <4>3. Len(stream') = b + HeaderLen + length /\ Len(stream') - b = HeaderLen + length
          BY ONLY <2>6, <4>2, length \in Nat
        <4>4. QED
          BY ONLY <4>1, <4>3
      <3>5. Whole(Len(begun))'
        BY <2>7, <2>8, <3>2, <3>4 DEF Whole, Should
      <3>6. \A i \in DOMAIN begun : i < Len(begun) \/ i = Len(begun)
        BY <1>1, AnswersAre
      <3>7. \A i \in DOMAIN begun : Whole(i)'
        BY <2>4, <3>5, <3>6
      <3>8. QED
        BY <1>1, <1>4, <2>3, <3>1, <3>7 DEF ResponseIInv, AsLengthsSay, R!Writing
    <2>11. QED
      BY <2>1, <2>9, <2>10
  <1>7. QED
    BY <1>5, <1>6

(* A write() that is cut short, and that writen() continues. *)
LEMMA GoesOn ==
  ASSUME R!ResponseConstants, ResponseIInv, step \in R!Writing, NEW n \in Nat, n <= left, Extended(n), left' = left - n,
         step' = step, begun' = begun, version' = version, taken' = taken, peer' = peer
  PROVE  ResponseIInv'
  <1>1. R!TypeOK /\ begun # <<>> /\ left \in Nat
    BY DEF ResponseIInv, R!TypeOK
  <1>2. Len(begun) \in DOMAIN begun /\ 1 \in DOMAIN begun
    BY <1>1, LastIs
  <1>3. left' \in Nat
    BY <1>1
  <1>4. R!TypeOK'
    <2>1. peer' \in {"reads", "closed", "reset", "broken"}
      BY <1>1 DEF R!TypeOK
    <2>2. step' \in R!Writing \cup {"idle", "closed", "killed"}
      OBVIOUS
    <2>3. QED
      BY <1>1, <1>3, <2>1, <2>2, ResponseTypes
  <1>5. CASE step' \notin {"idle", "header", "body"} \/ peer' # "reads"
    BY <1>4, <1>5, SilentKeeps
  <1>6. CASE step' \in {"idle", "header", "body"} /\ peer = "reads"
    <2>1. step \in {"header", "body"}
      BY <1>6 DEF R!Writing
    <2>2. R!Begins(1) = 0 /\ (\A i \in DOMAIN begun : i < Len(begun) => Whole(i)) /\ Partly
      BY <1>6, <2>1 DEF ResponseIInv, AsLengthsSay
    <2>3. R!Begins(1)' = 0
      BY <1>2, <2>2 DEF R!Begins
    <2>4. \A i \in DOMAIN begun : i < Len(begun) => Whole(i)'
      BY <1>1, <2>2, WholeKept
    <2>5. PICK b : b = R!Begins(Len(begun))
      OBVIOUS
    <2>6. R!Begins(Len(begun))' = b
      BY <1>2, <2>5 DEF R!Begins
    <2>7. /\ b + (IF step = "header" THEN HeaderLen ELSE HeaderLen + begun[Len(begun)].length) = Len(stream') + left - n
          /\ \A k \in 1 .. Len(stream') - b : stream'[b + k] = Should(k)
      BY ONLY R!ResponseConstants, Extended(n), n \in Nat, n <= left, <1>1, <2>1, <2>2, <2>5, PartlyWritten
    <2>8. Len(stream') \in Nat
      BY LenProperties DEF Extended
    <2>9. Len(stream') + left - n = Len(stream') + left'
      BY ONLY <1>1, <2>8, n \in Nat, left' = left - n
    <2>10. /\ step = "header" => left' <= HeaderLen
           /\ step = "body" => left' <= begun[Len(begun)].length
      <3>1. HeaderLen \in Nat /\ begun[Len(begun)].length \in Nat
        BY <1>1, <1>2, AnswersAre
      <3>2. /\ step = "header" => left <= HeaderLen
            /\ step = "body" => left <= begun[Len(begun)].length
        BY <2>2 DEF Partly
      <3>3. QED
        BY ONLY <1>1, <3>1, <3>2, n \in Nat, left' = left - n
    <2>11. Partly'
      BY <2>6, <2>7, <2>9, <2>10 DEF Partly, Should
    <2>12. QED
      BY <1>1, <1>4, <2>1, <2>3, <2>4, <2>11 DEF ResponseIInv, AsLengthsSay
  <1>7. QED
    BY <1>5, <1>6

(* The connection is given up, or its client has gone. *)
LEMMA ClosesKeeps ==
  ASSUME R!ResponseConstants, ResponseIInv, NEW n \in Nat, Extended(n), step \in R!Writing,
         step' \in {"closed", "killed"}, left' = 0,
         begun' = begun, version' = version, taken' = taken, peer' \in {peer, "broken"}
  PROVE  ResponseIInv'
  <1>1. R!TypeOK
    BY DEF ResponseIInv
  <1>2. step' \in R!Writing \cup {"idle", "closed", "killed"} /\ left' \in Nat
    OBVIOUS
  <1>3. peer' \in {"reads", "closed", "reset", "broken"}
    BY <1>1 DEF R!TypeOK
  <1>4. R!TypeOK'
    BY <1>1, <1>2, <1>3, ResponseTypes
  <1>5. QED
    BY <1>4, SilentKeeps

LEMMA ReceiveKeeps ==
  ASSUME ResponseIInv, R!Receive \/ R!Leave
  PROVE  ResponseIInv'
  <1>1. /\ UNCHANGED <<version, step, begun, left, stream>>
        /\ taken' = taken \/ taken' = Len(stream)
        /\ peer' \in {peer, "closed", "reset", "broken"}
    BY DEF R!Receive, R!Leave
  <1>2. Len(stream) \in Nat
    BY LenProperties DEF ResponseIInv, R!TypeOK
  <1>3. R!TypeOK'
    <2>1. taken' \in 0 .. Len(stream')
      BY <1>1, <1>2 DEF ResponseIInv, R!TypeOK
    <2>2. QED
      BY <1>1, <2>1 DEF ResponseIInv, R!TypeOK
  <1>4. AsLengthsSay'
    <2>1. CASE peer' = "reads"
      <3>1. peer = "reads"
        BY <1>1, <2>1
      <3>2. QED
        BY <1>1, <3>1 DEF ResponseIInv, AsLengthsSay, R!Begins, Whole, Partly, Should
    <2>2. CASE peer' # "reads"
      BY <2>2 DEF AsLengthsSay
    <2>3. QED
      BY <2>1, <2>2
  <1>5. QED
    BY <1>1, <1>3, <1>4 DEF ResponseIInv

LEMMA BeginKeeps ==
  ASSUME R!ResponseConstants, ResponseIInv, R!Begin
  PROVE  ResponseIInv'
  <1>1. PICK length \in BodyLens : begun' = Append(begun, [length |-> length, from |-> Len(stream)])
    BY DEF R!Begin
  <1>2. /\ step = "idle" /\ Len(begun) < MaxAnswers /\ step' \in {"header", "error header"} /\ left' = HeaderLen
        /\ UNCHANGED <<version, stream, taken, peer>>
    BY DEF R!Begin
  <1>3. R!TypeOK /\ HeaderLen \in Nat /\ MaxAnswers \in Nat /\ length \in Nat
    BY DEF ResponseIInv, R!ResponseConstants
  <1>4. /\ Len(begun) \in Nat /\ DOMAIN begun = 1 .. Len(begun) /\ Len(stream) \in Nat
        /\ R!Begins(Len(begun) + 1) = Len(stream)
    BY <1>3, AnswersAre
  <1> DEFINE new == [length |-> length, from |-> Len(stream)]
  <1> DEFINE Els == [length : BodyLens, from : 0 .. Len(stream)]
  <1>5. new \in Els /\ begun \in Seq(Els) /\ begun' = Append(begun, new)
    BY <1>1, <1>3, <1>4 DEF R!TypeOK
  <1>6. new.length = length /\ new.from = Len(stream)
    OBVIOUS
  <1> HIDE DEF new
  <1>7. begun' \in Seq(Els) /\ Len(begun') = Len(begun) + 1 /\ begun' # <<>>
        /\ begun'[Len(begun) + 1] = new /\ \A i \in 1 .. Len(begun) : begun'[i] = begun[i]
    <2>1. /\ Append(begun, new) \in Seq(Els) /\ Len(Append(begun, new)) = Len(begun) + 1
          /\ \A i \in 1 .. Len(begun) : Append(begun, new)[i] = begun[i]
          /\ Append(begun, new)[Len(begun) + 1] = new
      BY ONLY <1>5, AppendProperties
    <2> HIDE DEF Els
    <2>2. /\ begun' \in Seq(Els) /\ Len(begun') = Len(begun) + 1
          /\ begun'[Len(begun) + 1] = new /\ \A i \in 1 .. Len(begun) : begun'[i] = begun[i]
      BY ONLY <1>5, <2>1
    <2>3. begun' # <<>>
      BY ONLY <1>4, <2>2
    <2>4. QED
      BY ONLY <2>2, <2>3
  <1>8. DOMAIN begun' = 1 .. Len(begun) + 1
    BY <1>7, LenProperties
  <1>9. R!TypeOK'
    <2>1. Len(begun') <= MaxAnswers
      <3>1. PICK k \in Nat : k = Len(begun)
        BY <1>4
      <3>2. k < MaxAnswers /\ Len(begun') = k + 1
        <4>1. Len(begun) < MaxAnswers /\ Len(begun') = Len(begun) + 1
          BY ONLY <1>2, <1>7, Zenon
        <4>2. QED
          BY ONLY <3>1, <4>1
      <3>3. MaxAnswers \in Nat
        BY <1>3
      <3>4. k + 1 <= MaxAnswers
        BY ONLY <3>2, <3>3, k \in Nat
      <3>5. QED
        BY ONLY <3>2, <3>4
    <2>2. begun' \in Seq([length : BodyLens, from : 0 .. Len(stream')])
      BY <1>2, <1>7
    <2>3. step' \in R!Writing \cup {"idle", "closed", "killed"}
      BY <1>2 DEF R!Writing
    <2> HIDE DEF Els
    <2>4. /\ version' \in {"now", "early"} /\ stream' \in Seq({"header", "body"})
          /\ taken' \in 0 .. Len(stream') /\ peer' \in {"reads", "closed", "reset", "broken"}
      BY <1>2, <1>3 DEF R!TypeOK
    <2>5. left' \in Nat
      BY <1>2, <1>3
    <2>6. QED
      BY ONLY <2>1, <2>2, <2>3, <2>4, <2>5, SMTT(20) DEF R!TypeOK
  <1>10. PICK n \in Nat \ {0} : n = Len(begun) + 1
    BY <1>4
  <1>11. /\ Len(begun') = n /\ DOMAIN begun' = 1 .. n /\ DOMAIN begun = 1 .. n - 1
         /\ R!Begins(n) = Len(stream) /\ begun'[n] = new /\ \A i \in 1 .. n - 1 : begun'[i] = begun[i]
    <2>1. Len(begun) = n - 1 /\ n = Len(begun) + 1
      BY ONLY <1>4, <1>10
    <2>2. R!Begins(n) = Len(stream)
      BY <1>4, <1>10
    <2>3. QED
      BY ONLY <1>4, <1>7, <1>8, <2>1, <2>2
  <1>12. R!Begins(n)' = Len(stream)
    BY <1>6, <1>11 DEF R!Begins
  <1>13. \A i \in 1 .. n - 1 : R!Begins(i)' = R!Begins(i)
    BY <1>11 DEF R!Begins
  <1>14. CASE peer = "reads"
    <2>1. R!Begins(1) = 0 /\ \A i \in 1 .. n - 1 : Whole(i)
      BY <1>2, <1>11, <1>14 DEF ResponseIInv, AsLengthsSay
    <2>2. R!Begins(1)' = 0
      <3>1. CASE n = 1
        BY <1>11, <1>12, <2>1, <3>1
      <3>2. CASE n # 1
        <4>1. 1 \in 1 .. n - 1
          BY <1>10, <3>2
        <4>2. QED
          BY <1>13, <2>1, <4>1
      <3>3. QED
        BY <3>1, <3>2
    <2>3. ASSUME NEW i \in 1 .. n - 1 PROVE Whole(i)'
      <3>1. PICK j \in 1 .. n : j = i + 1
        BY <1>10
      <3>2. R!Begins(i)' = R!Begins(i) /\ begun'[i] = begun[i]
        BY <1>11, <1>13
      <3>3. R!Begins(j)' = R!Begins(j)
        <4>1. j \in 1 .. n - 1 \/ j = n
          BY <1>10
        <4>2. QED
          BY <1>11, <1>12, <1>13, <4>1
      <3>4. R!Begins(i + 1)' = R!Begins(i + 1)
        BY <3>1, <3>3
      <3>5. Whole(i)
        BY <2>1
      <3>6. QED
        BY <1>2, <3>2, <3>4, <3>5 DEF Whole, Should
    <2>4. \A i \in DOMAIN begun' : i < Len(begun') => Whole(i)'
      <3>1. \A i \in 1 .. n : i < n => i \in 1 .. n - 1
        BY <1>10
      <3>2. QED
        BY <1>11, <2>3, <3>1
    <2>5. CASE step' = "header"
      <3>1. R!Begins(Len(begun))' = Len(stream)
        BY <1>11, <1>12
      <3>2. Len(stream) - Len(stream) = 0 /\ HeaderLen <= HeaderLen
        BY <1>3, <1>4
      <3>3. Partly'
        BY <1>2, <2>5, <3>1, <3>2 DEF Partly
      <3>4. QED
        BY <1>7, <1>9, <2>2, <2>4, <2>5, <3>3 DEF ResponseIInv, AsLengthsSay
    <2>6. CASE step' = "error header"
      BY <1>7, <1>9, <2>6 DEF ResponseIInv, AsLengthsSay
    <2>7. QED
      BY <1>2, <2>5, <2>6
  <1>15. CASE peer # "reads"
    BY <1>2, <1>7, <1>9, <1>15 DEF ResponseIInv, AsLengthsSay
  <1>16. QED
    BY <1>14, <1>15

(* What follows a write to a client that has gone, or the header of an     *)
(* error: the connection will not be kept.                                 *)
LEMMA ThenEnds ==
  ASSUME R!ResponseConstants, ResponseIInv, step \in R!Writing, R!Then, NEW n \in Nat, Extended(n),
         begun' = begun, version' = version, taken' = taken, peer' \in {peer, "broken"},
         peer' # "reads" \/ step \in {"error header", "error body"}
  PROVE  ResponseIInv'
  <1>1. R!TypeOK /\ begun # <<>>
    BY DEF ResponseIInv
  <1>2. step' \in R!Writing \cup {"idle", "closed"} /\ left' \in Nat
    BY <1>1, ThenTypes
  <1>3. R!TypeOK'
    <2>1. peer' \in {"reads", "closed", "reset", "broken"} /\ step' \in R!Writing \cup {"idle", "closed", "killed"}
      BY <1>1, <1>2 DEF R!TypeOK
    <2>2. QED
      BY <1>1, <1>2, <2>1, ResponseTypes
  <1>4. peer' # "reads" \/ step' \notin {"idle", "header", "body"}
    BY DEF R!Then
  <1>5. QED
    BY <1>3, <1>4, SilentKeeps

LEMMA WritenKeeps ==
  ASSUME R!ResponseConstants, ResponseIInv, R!writen
  PROVE  ResponseIInv'
  <1>1. step \in R!Writing /\ UNCHANGED <<version, begun, taken, peer>>
    BY DEF R!writen
  <1>2. R!TypeOK /\ left \in Nat
    BY DEF ResponseIInv, R!TypeOK
  <1>3. CASE R!Takes > 0 /\ R!Put(R!Takes) /\ (IF R!Takes = left THEN R!Then ELSE left' = left - R!Takes /\ UNCHANGED step)
    <2>1. R!Takes \in Nat /\ R!Takes <= left
      <3>1. Len(stream) \in Nat /\ taken \in Nat /\ Room \in Nat
        BY <1>2, LenProperties DEF R!TypeOK, R!ResponseConstants
      <3>2. QED
        BY <1>2, <1>3, <3>1 DEF R!Takes
    <2>2. PICK n \in Nat : n = R!Takes
      BY <2>1
    <2>3. Extended(n) /\ n <= left
      BY <1>2, <1>3, <2>1, <2>2, PutExtends
    <2>4. CASE n = left
      BY <1>1, <1>3, <2>2, <2>3, <2>4, ThenKeeps
    <2>5. CASE n # left
      BY <1>1, <1>3, <2>2, <2>3, <2>5, GoesOn
    <2>6. QED
      BY <2>4, <2>5
  <1>4. CASE left = 0 /\ R!Then /\ UNCHANGED stream
    <2>1. Extended(left)
      BY <1>2, <1>4, SameExtends
    <2>2. QED
      BY <1>1, <1>4, <2>1, ThenKeeps
  <1>5. CASE R!Lost /\ R!Then
    <2>1. Extended(0) /\ peer' # "reads" /\ 0 \in Nat /\ peer' \in {peer, "broken"}
      BY <1>1, <1>2, <1>5, SameExtends DEF R!Lost
    <2>2. QED
      BY <1>1, <1>5, <2>1, ThenEnds
  <1>6. QED
    BY <1>3, <1>4, <1>5 DEF R!writen

(* A send() may take nothing at all. *)
LEMMA PutSome ==
  ASSUME R!TypeOK, NEW n \in Int, R!Put(n)
  PROVE  \E m \in Nat : Extended(m)
  <1>1. CASE n \in Nat
    BY <1>1, PutExtends
  <1>2. CASE n \notin Nat
    <2>1. R!Piece(R!Kind, n) = <<>>
      <3>1. 1 .. n = {}
        BY <1>2
      <3>2. QED
        BY <3>1 DEF R!Piece
    <2>2. stream' = stream \o <<>> /\ stream \in Seq({"header", "body"})
      BY <2>1 DEF R!Put, R!TypeOK
    <2>3. stream' = stream
      BY <2>2, ConcatEmptySeq
    <2>4. Extended(0)
      BY <2>3, SameExtends
    <2>5. QED
      BY <2>4
  <1>3. QED
    BY <1>1, <1>2

LEMMA SendKeeps ==
  ASSUME R!ResponseConstants, ResponseIInv, R!send
  PROVE  ResponseIInv'
  <1>1. step \in R!Writing /\ UNCHANGED <<version, begun, taken, peer>>
    BY DEF R!send
  <1>2. R!TypeOK /\ left \in Nat
    BY DEF ResponseIInv, R!TypeOK
  <1>3. CASE /\ R!Put(R!Takes)
             /\ IF R!Takes = left \/ step \notin {"header", "body"} THEN R!Then ELSE step' = "closed" /\ left' = 0
    <2>1. R!Takes \in Int
      <3>1. Len(stream) \in Nat /\ taken \in Nat /\ Room \in Nat
        BY <1>2, LenProperties DEF R!TypeOK, R!ResponseConstants
      <3>2. QED
        BY <1>2, <3>1 DEF R!Takes
    <2>2. PICK n \in Int : n = R!Takes
      BY <2>1
    <2>3. PICK m \in Nat : Extended(m)
      BY <1>2, <1>3, <2>2, PutSome
    <2>4. peer' \in {peer, "broken"}
      BY <1>1
    <2>5. CASE n = left
      <3>1. Extended(left) /\ R!Then
        BY <1>2, <1>3, <2>2, <2>5, PutExtends
      <3>2. QED
        BY <1>1, <3>1, ThenKeeps
    <2>6. CASE n # left /\ step \in {"header", "body"}
      <3>1. step' = "closed" /\ left' = 0
        BY <1>3, <2>2, <2>6
      <3>2. step' \in {"closed", "killed"}
        BY <3>1
      <3>3. QED
        BY <1>1, <2>3, <2>4, <3>1, <3>2, ClosesKeeps
    <2>7. CASE step \notin {"header", "body"}
      <3>1. R!Then /\ step \in {"error header", "error body"}
        <4>1. step \in {"error header", "error body"}
          BY ONLY <1>1, <2>7 DEF R!Writing
        <4>2. QED
          BY ONLY <1>3, <2>7, <4>1
      <3>2. QED
        BY <1>1, <2>3, <2>4, <3>1, ThenEnds
    <2>8. QED
      BY <2>5, <2>6, <2>7
  <1>4. CASE R!Lost /\ R!Then
    <2>1. Extended(0) /\ peer' # "reads" /\ 0 \in Nat /\ peer' \in {peer, "broken"}
      BY <1>1, <1>2, <1>4, SameExtends DEF R!Lost
    <2>2. QED
      BY <1>1, <1>4, <2>1, ThenEnds
  <1>5. QED
    BY <1>3, <1>4 DEF R!send

LEMMA FailsKeeps ==
  ASSUME R!ResponseConstants, ResponseIInv, R!WriteFails \/ R!FileFails \/ R!Sigpipe
  PROVE  ResponseIInv'
  <1>1. /\ step \in R!Writing /\ UNCHANGED <<version, begun, stream, taken>>
        /\ \/ R!Then /\ peer' = "broken"
           \/ step' \in {"closed", "killed"} /\ left' = 0 /\ peer' \in {peer, "broken"}
    <2>1. CASE R!WriteFails
      BY <2>1 DEF R!WriteFails
    <2>2. CASE R!FileFails
      BY <2>2 DEF R!FileFails, R!Writing
    <2>3. CASE R!Sigpipe
      BY <2>3 DEF R!Sigpipe
    <2>4. QED
      BY <2>1, <2>2, <2>3
  <1>2. Extended(0) /\ 0 \in Nat
    BY <1>1, SameExtends DEF ResponseIInv
  <1>3. CASE R!Then /\ peer' = "broken"
    <2>1. peer' \in {peer, "broken"} /\ peer' # "reads"
      BY <1>3
    <2>2. QED
      BY <1>1, <1>2, <1>3, <2>1, ThenEnds
  <1>4. CASE step' \in {"closed", "killed"} /\ left' = 0 /\ peer' \in {peer, "broken"}
    BY <1>1, <1>2, <1>4, ClosesKeeps
  <1>5. QED
    BY <1>1, <1>3, <1>4

LEMMA ResponseStep ==
  ASSUME R!ResponseConstants, ResponseIInv, R!Next \/ UNCHANGED ofResponse
  PROVE  ResponseIInv'
  <1>1. CASE R!Next
    BY <1>1, ReceiveKeeps, BeginKeeps, WritenKeeps, SendKeeps, FailsKeeps DEF R!Next, R!Write
  <1>2. CASE UNCHANGED ofResponse
    BY <1>2 DEF ofResponse, ResponseIInv, R!TypeOK, AsLengthsSay, R!Begins, Whole, Partly, Should
  <1>3. QED
    BY <1>1, <1>2

LEMMA ResponseInductive == MCSpec => []ResponseIInv
  <1>1. MCInit => ResponseIInv
    BY AnswerAssumption, ResponseInit DEF MCInit
  <1>2. ResponseIInv /\ [MCNext]_allVars => ResponseIInv'
    <2>1. [MCNext]_allVars => R!Next \/ UNCHANGED ofResponse
      BY DEF MCNext, Early, Writing, Line, Start, allVars
    <2>2. QED
      BY <2>1, AnswerAssumption, ResponseStep
  <1>3. QED
    BY <1>1, <1>2, PTL DEF MCSpec

LEMMA ResponseToIs ==
  ASSUME R!ResponseConstants, NEW length \in Nat
  PROVE  /\ R!ResponseTo(length) \in Seq({"header", "body"}) /\ Len(R!ResponseTo(length)) = HeaderLen + length
         /\ \A k \in 1 .. HeaderLen + length : R!ResponseTo(length)[k] = Should(k)
  BY DEF R!ResponseTo, R!ResponseConstants, Should

(* While the connection is kept and its client reads, what the client has  *)
(* been sent is whole responses, one after the other and as their lengths  *)
(* say: a write that is cut short, in writen() or in send(), is continued  *)
(* or ends the connection.                                                 *)
THEOREM ResponsesWhole == MCSpec => []WholeResponses
  <1>1. ASSUME ResponseIInv PROVE WholeResponses
    <2>1. SUFFICES ASSUME step = "idle", peer = "reads"
          PROVE  /\ R!Begins(1) = 0
                 /\ \A i \in DOMAIN begun : SubSeq(stream, R!Begins(i) + 1, R!Begins(i + 1)) = R!ResponseTo(begun[i].length)
      BY DEF WholeResponses, R!WholeResponses
    <2>2. R!ResponseConstants /\ R!TypeOK /\ R!Begins(1) = 0 /\ \A i \in DOMAIN begun : Whole(i)
      BY <1>1, <2>1, AnswerAssumption DEF ResponseIInv, AsLengthsSay
    <2>3. /\ Len(begun) \in Nat /\ DOMAIN begun = 1 .. Len(begun) /\ Len(stream) \in Nat /\ HeaderLen \in Nat
          /\ \A i \in DOMAIN begun : R!Begins(i) \in 0 .. Len(stream) /\ begun[i].length \in Nat
          /\ R!Begins(Len(begun) + 1) = Len(stream)
      BY <2>2, AnswersAre
    <2>4. ASSUME NEW i \in DOMAIN begun
          PROVE  SubSeq(stream, R!Begins(i) + 1, R!Begins(i + 1)) = R!ResponseTo(begun[i].length)
      <3>1. PICK b \in Nat : b = R!Begins(i)
        BY <2>3
      <3>2. PICK length \in Nat : length = begun[i].length
        BY <2>3
      <3>3. PICK e \in 0 .. Len(stream) : e = R!Begins(i + 1)
        <4>1. i + 1 \in DOMAIN begun \/ i + 1 = Len(begun) + 1
          BY <2>3
        <4>2. CASE i + 1 \in DOMAIN begun
          BY <2>3, <4>2
        <4>3. CASE i + 1 = Len(begun) + 1
          BY <2>3, <4>3
        <4>4. QED
          BY <4>1, <4>2, <4>3
      <3>4. /\ e = b + HeaderLen + length
            /\ \A k \in 1 .. HeaderLen + length : stream[b + k] = Should(k)
        BY <2>2, <3>1, <3>2, <3>3 DEF Whole
      <3>5. PICK m \in Nat : m = HeaderLen + length
        BY <2>3
      <3>6. /\ R!ResponseTo(length) \in Seq({"header", "body"}) /\ Len(R!ResponseTo(length)) = m
            /\ \A k \in 1 .. m : R!ResponseTo(length)[k] = Should(k)
        BY ONLY <2>2, <3>5, length \in Nat, ResponseToIs
      <3>7. /\ SubSeq(stream, b + 1, e) \in Seq({"header", "body"}) /\ Len(SubSeq(stream, b + 1, e)) = m
            /\ \A k \in 1 .. m : SubSeq(stream, b + 1, e)[k] = stream[b + k]
        <4>1. stream \in Seq({"header", "body"})
          BY <2>2 DEF R!TypeOK
        <4>2. e = b + m /\ e <= Len(stream)
          BY ONLY <2>3, <3>4, <3>5, b \in Nat, e \in 0 .. Len(stream), length \in Nat
        <4>3. QED
          BY ONLY <2>3, <4>1, <4>2, b \in Nat, m \in Nat, e \in 0 .. Len(stream), SliceIs
      <3>8. \A k \in 1 .. m : SubSeq(stream, b + 1, e)[k] = R!ResponseTo(length)[k]
        BY ONLY <3>4, <3>5, <3>6, <3>7
      <3>9. SubSeq(stream, b + 1, e) = R!ResponseTo(length)
        BY ONLY <3>6, <3>7, <3>8, SeqEqual
      <3>10. QED
        BY <3>1, <3>2, <3>3, <3>9
    <2>5. QED
      BY <2>2, <2>4
  <1>2. QED
    BY <1>1, ResponseInductive, PTL

------------------------------------------------------------------------------
(* LineReader: the inductive invariant *)

(* How far the calls have got in the stream of d. *)
Pos(d) == L!Consumed(d) + (IF call = d THEN Len(piece) ELSE 0)

(* read_buf holds what follows there in the stream of o, and arrived what  *)
(* follows that: nothing is lost between the two.                          *)
FlowFor(o) ==
    /\ call # "none" /\ read_buf # <<>> => call = o
    /\ o = "none" => read_buf = <<>>
    /\ \A d \in Descriptors : Pos(d) + (IF d = o THEN Len(read_buf) ELSE 0) + Len(arrived[d]) = Len(sent[d])
    /\ o # "none" => \A k \in 1 .. Len(read_buf) : read_buf[k] = sent[o][Pos(o) + k]

Flow == \E o \in Descriptors \cup {"none"} : FlowFor(o)

Arrived == \A d \in Descriptors : \A k \in 1 .. Len(arrived[d]) :
             arrived[d][k] = sent[d][Len(sent[d]) - Len(arrived[d]) + k]

(* A piece that begins behind the place f of sent ends with its n-th       *)
(* character, as the reader sees it when it has read no further.           *)
CutsAt(d, f, n) ==
    \/ reader = "Readn"    /\ n = MaxLen
    \/ reader = "Readline" /\ (sent[d][f + n] = "LF" \/ n = MaxLen - 1)
    \/ reader = "get_line" /\ (\/ sent[d][f + n] = "LF"
                               \/ sent[d][f + n] = "CR" /\ f + n < Len(sent[d]) /\ sent[d][f + n + 1] # "LF")

TakenAt(d, f, t) ==
    /\ f + Len(t) <= Len(sent[d])
    /\ \A k \in 1 .. Len(t) : t[k] = sent[d][f + k]
    /\ \A n \in 1 .. Len(t) - 1 : ~CutsAt(d, f, n)
    /\ \/ Len(t) > 0 /\ CutsAt(d, f, Len(t))
       \/ ended[d] /\ f + Len(t) = Len(sent[d])

AllTaken == \A d \in Descriptors : \A i \in DOMAIN pieces[d] : TakenAt(d, pieces[d][i].from, pieces[d][i].text)

(* What the call has consumed so far does not end a piece. *)
InPiece ==
    /\ call = "none" => piece = <<>>
    /\ call # "none" => \A k \in 1 .. Len(piece) : piece[k] = sent[call][L!Consumed(call) + k]
    /\ reader = "Readn" => Len(piece) < MaxLen
    /\ reader = "Readline" => Len(piece) < MaxLen - 1 /\ \A k \in 1 .. Len(piece) : piece[k] # "LF"
    /\ reader = "get_line" => \A k \in 1 .. Len(piece) : piece[k] = "a"
    /\ reader # "Readline" => read_buf = <<>>

LinesIInv == L!TypeOK /\ Flow /\ Arrived /\ AllTaken /\ InPiece

Record == [from : Nat, text : Seq(L!Char)]

LEMMA LinesTypes ==
  ASSUME L!LineConstants, LinesIInv
  PROVE  /\ sent \in [Descriptors -> Seq(L!Char)] /\ arrived \in [Descriptors -> Seq(L!Char)]
         /\ pieces \in [Descriptors -> Seq(Record)]
         /\ piece \in Seq(L!Char) /\ read_buf \in Seq(L!Char) /\ Len(piece) \in Nat /\ Len(read_buf) \in Nat
         /\ \A d \in Descriptors : Len(sent[d]) \in Nat /\ Len(arrived[d]) \in Nat
         /\ MaxLen \in Nat \ {0, 1} /\ BufSize \in Nat \ {0} /\ "none" \notin Descriptors
  <1>1. /\ sent \in [Descriptors -> Seq(L!Char)] /\ arrived \in [Descriptors -> Seq(L!Char)]
        /\ pieces \in [Descriptors -> Seq(Record)]
        /\ piece \in Seq(L!Char) /\ read_buf \in Seq(L!Char)
    BY DEF LinesIInv, L!TypeOK, Record
  <1>2. \A t \in Seq(L!Char) : Len(t) \in Nat
    BY LenProperties
  <1>3. Len(piece) \in Nat /\ Len(read_buf) \in Nat
    BY ONLY <1>1, <1>2
  <1>4. \A d \in Descriptors : Len(sent[d]) \in Nat /\ Len(arrived[d]) \in Nat
    BY ONLY <1>1, <1>2
  <1>5. QED
    BY <1>1, <1>3, <1>4 DEF L!LineConstants

(* The end of what the calls have consumed: behind the last piece. *)
LEMMA ConsumedIs ==
  ASSUME L!LineConstants, LinesIInv, NEW d \in Descriptors
  PROVE  /\ L!Consumed(d) \in Nat
         /\ pieces[d] # <<>> => L!Consumed(d) = pieces[d][Len(pieces[d])].from + Len(pieces[d][Len(pieces[d])].text)
         /\ pieces[d] = <<>> => L!Consumed(d) = 0
  <1>1. pieces[d] \in Seq(Record)
    BY LinesTypes
  <1>2. CASE pieces[d] = <<>>
    BY <1>2 DEF L!Consumed
  <1>3. CASE pieces[d] # <<>>
    <2>1. Len(pieces[d]) \in 1 .. Len(pieces[d])
      BY <1>1, <1>3, LenProperties, EmptySeq
    <2>2. PICK r \in Record : r = pieces[d][Len(pieces[d])]
      BY ONLY <1>1, <2>1, ElementOfSeq
    <2>3. r.from \in Nat /\ Len(r.text) \in Nat
      BY LenProperties DEF Record
    <2>4. L!Consumed(d) = r.from + Len(r.text)
      BY <1>3, <2>2 DEF L!Consumed, L!Last
    <2>5. QED
      BY <1>3, <2>2, <2>3, <2>4
  <1>4. QED
    BY <1>2, <1>3

LEMMA PosIs ==
  ASSUME L!LineConstants, LinesIInv, NEW d \in Descriptors
  PROVE  Pos(d) \in Nat
  <1>1. L!Consumed(d) \in Nat /\ Len(piece) \in Nat
    BY ConsumedIs, LinesTypes
  <1>2. QED
    BY ONLY <1>1 DEF Pos

LEMMA LinesInit == ASSUME L!LineConstants, L!Init PROVE LinesIInv
  <1>1. /\ reader \in {"Readline", "Readn", "get_line"}
        /\ sent = [d \in Descriptors |-> <<>>] /\ arrived = [d \in Descriptors |-> <<>>]
        /\ ended = [d \in Descriptors |-> FALSE]
        /\ call = "none" /\ piece = <<>> /\ read_buf = <<>>
        /\ pieces = [d \in Descriptors |-> <<>>]
    BY DEF L!Init
  <1>2. <<>> \in Seq(L!Char) /\ <<>> \in Seq(Record) /\ Len(<<>>) = 0
    BY EmptySeq
  <1>3. MaxLen \in Nat \ {0, 1} /\ BufSize \in Nat \ {0} /\ "none" \notin Descriptors
    BY DEF L!LineConstants
  <1>4. L!TypeOK
    <2>1. sent \in [Descriptors -> Seq(L!Char)] /\ arrived \in [Descriptors -> Seq(L!Char)]
      BY ONLY <1>1, <1>2
    <2>2. pieces \in [Descriptors -> Seq(Record)] /\ ended \in [Descriptors -> BOOLEAN]
      BY ONLY <1>1, <1>2
    <2>3. piece \in Seq(L!Char) /\ read_buf \in Seq(L!Char) /\ Len(read_buf) <= BufSize
      BY ONLY <1>1, <1>2, <1>3
    <2>4. QED
      BY <1>1, <2>1, <2>2, <2>3 DEF L!TypeOK, Record
  <1>5. \A d \in Descriptors : /\ sent[d] = <<>> /\ arrived[d] = <<>> /\ pieces[d] = <<>>
                               /\ Len(sent[d]) = 0 /\ Len(arrived[d]) = 0 /\ DOMAIN pieces[d] = {}
    <2>1. \A d \in Descriptors : sent[d] = <<>> /\ arrived[d] = <<>> /\ pieces[d] = <<>>
      BY ONLY <1>1
    <2>2. DOMAIN <<>> = {} /\ Len(<<>>) = 0
      OBVIOUS
    <2>3. QED
      BY ONLY <2>1, <2>2
  <1>6. \A d \in Descriptors : Pos(d) = 0
    BY <1>1, <1>3, <1>5 DEF Pos, L!Consumed
  <1>7. FlowFor("none")
    BY <1>1, <1>3, <1>5, <1>6 DEF FlowFor
  <1>8. Arrived /\ AllTaken
    <2>1. \A d \in Descriptors : Len(arrived[d]) = 0 /\ DOMAIN pieces[d] = {}
      BY <1>5
    <2>2. \A d \in Descriptors : \A k \in 1 .. Len(arrived[d]) : FALSE
      BY ONLY <2>1
    <2>3. QED
      BY ONLY <2>1, <2>2 DEF Arrived, AllTaken
  <1>9. InPiece
    BY <1>1, <1>2, <1>3 DEF InPiece
  <1>10. QED
    BY <1>4, <1>7, <1>8, <1>9 DEF LinesIInv, Flow

------------------------------------------------------------------------------
(* LineReader: the other end, and the caller *)

(* What a call has consumed had been sent. *)
LEMMA InStream ==
  ASSUME L!LineConstants, LinesIInv, NEW c \in Descriptors, call = c
  PROVE  /\ FlowFor(c) /\ L!Consumed(c) \in Nat /\ Pos(c) = L!Consumed(c) + Len(piece)
         /\ Pos(c) + Len(read_buf) + Len(arrived[c]) = Len(sent[c])
         /\ \A k \in 1 .. Len(piece) : L!Consumed(c) + k \in 1 .. Len(sent[c])
  <1>1. /\ Len(piece) \in Nat /\ Len(read_buf) \in Nat /\ "none" \notin Descriptors
        /\ \A e \in Descriptors : Len(sent[e]) \in Nat /\ Len(arrived[e]) \in Nat
    BY LinesTypes
  <1>2. PICK o \in Descriptors \cup {"none"} : FlowFor(o)
    BY DEF LinesIInv, Flow
  <1>3. FlowFor(c)
    <2>1. CASE o = c
      BY <1>2, <2>1
    <2>2. CASE o # c
      <3>1. read_buf = <<>>
        BY <1>1, <1>2, <2>2 DEF FlowFor
      <3>2. Len(read_buf) = 0
        BY <3>1
      <3>3. \A k \in 1 .. Len(read_buf) : FALSE
        BY ONLY <3>2
      <3>4. \A d \in Descriptors : Pos(d) + (IF d = c THEN Len(read_buf) ELSE 0) + Len(arrived[d]) = Len(sent[d])
        <4>1. \A d \in Descriptors : Pos(d) + (IF d = o THEN Len(read_buf) ELSE 0) + Len(arrived[d]) = Len(sent[d])
          BY <1>2 DEF FlowFor
        <4>2. QED
          BY ONLY <3>2, <4>1
      <3>5. QED
        BY ONLY <3>1, <3>3, <3>4 DEF FlowFor
    <2>3. QED
      BY <2>1, <2>2
  <1>4. L!Consumed(c) \in Nat /\ Pos(c) = L!Consumed(c) + Len(piece)
    BY <1>1, ConsumedIs DEF Pos
  <1>5. Pos(c) + Len(read_buf) + Len(arrived[c]) = Len(sent[c])
    BY <1>3 DEF FlowFor
  <1>6. \A k \in 1 .. Len(piece) : L!Consumed(c) + k \in 1 .. Len(sent[c])
    BY ONLY <1>1, <1>4, <1>5, c \in Descriptors
  <1>7. QED
    BY <1>3, <1>4, <1>5, <1>6

LEMMA TakenGrows ==
  ASSUME NEW d, NEW f \in Nat, NEW t \in Seq(L!Char), TakenAt(d, f, t), Len(sent[d]) \in Nat,
         Len(sent'[d]) = Len(sent[d]) + 1, \A k \in 1 .. Len(sent[d]) : sent'[d][k] = sent[d][k],
         ~ended[d], reader' = reader
  PROVE  TakenAt(d, f, t)'
  <1>1. PICK m \in Nat : m = Len(t)
    BY LenProperties
  <1>2. PICK l \in Nat : l = Len(sent[d])
    OBVIOUS
  <1>3. /\ f + m <= l /\ \A k \in 1 .. m : t[k] = sent[d][f + k]
        /\ \A n \in 1 .. m - 1 : ~CutsAt(d, f, n)
        /\ m > 0 /\ CutsAt(d, f, m)
    BY <1>1, <1>2 DEF TakenAt
  <1>4. Len(sent'[d]) = l + 1 /\ \A k \in 1 .. l : sent'[d][k] = sent[d][k]
    BY <1>2
  <1>5. \A k \in 1 .. m : sent'[d][f + k] = sent[d][f + k]
    <2>1. \A k \in 1 .. m : f + k \in 1 .. l
      BY ONLY <1>3, f \in Nat, m \in Nat, l \in Nat
    <2>2. QED
      BY ONLY <1>4, <2>1
  <1>6. ASSUME NEW n \in 1 .. m - 1 PROVE ~CutsAt(d, f, n)'
    <2>1. f + n < l /\ f + n < l + 1 /\ f + n \in 1 .. l /\ f + n + 1 \in 1 .. l /\ ~CutsAt(d, f, n)
      <3>1. f + m <= l
        BY <1>3
      <3>2. f + n < l /\ f + n < l + 1 /\ f + n \in 1 .. l /\ f + n + 1 \in 1 .. l
        BY ONLY <3>1, f \in Nat, m \in Nat, l \in Nat, n \in 1 .. m - 1
      <3>3. QED
        BY <1>3, <3>2
    <2>2. sent'[d][f + n] = sent[d][f + n] /\ sent'[d][f + n + 1] = sent[d][f + n + 1]
      BY ONLY <1>4, <2>1
    <2>3. QED
      BY <1>2, <1>4, <2>1, <2>2 DEF CutsAt
  <1>7. CutsAt(d, f, m)'
    <2>1. f + m \in 1 .. l /\ f + m < l + 1 /\ (f + m < l => f + m + 1 \in 1 .. l)
      BY <1>3
    <2>2. sent'[d][f + m] = sent[d][f + m] /\ (f + m < l => sent'[d][f + m + 1] = sent[d][f + m + 1])
      BY ONLY <1>4, <2>1
    <2>3. QED
      BY <1>2, <1>3, <1>4, <2>1, <2>2 DEF CutsAt
  <1>8. f + m <= l + 1
    BY <1>3
  <1>9. QED
    BY <1>1, <1>3, <1>4, <1>5, <1>6, <1>7, <1>8 DEF TakenAt

(* Within what has been sent before, an arriving character changes nothing.*)
LEMMA LineSendKeeps ==
  ASSUME L!LineConstants, LinesIInv, NEW d \in Descriptors, NEW c \in L!Char, L!Send(d, c)
  PROVE  LinesIInv'
  <1>1. /\ ~ended[d] /\ sent' = [sent EXCEPT ![d] = Append(@, c)] /\ arrived' = [arrived EXCEPT ![d] = Append(@, c)]
        /\ UNCHANGED <<reader, ended, call, piece, pieces, read_buf>>
    BY DEF L!Send
  <1>2. /\ sent \in [Descriptors -> Seq(L!Char)] /\ arrived \in [Descriptors -> Seq(L!Char)]
        /\ Len(piece) \in Nat /\ Len(read_buf) \in Nat
        /\ \A e \in Descriptors : Len(sent[e]) \in Nat /\ Len(arrived[e]) \in Nat
    BY LinesTypes
  <1>3. PICK s \in Seq(L!Char) : s = Append(sent[d], c)
    BY <1>2, AppendProperties
  <1>4. PICK a \in Seq(L!Char) : a = Append(arrived[d], c)
    BY <1>2, AppendProperties
  <1>5. /\ Len(s) = Len(sent[d]) + 1 /\ s[Len(sent[d]) + 1] = c
        /\ \A k \in 1 .. Len(sent[d]) : s[k] = sent[d][k]
    BY ONLY <1>2, <1>3, d \in Descriptors, c \in L!Char, AppendProperties
  <1>6. /\ Len(a) = Len(arrived[d]) + 1 /\ a[Len(arrived[d]) + 1] = c
        /\ \A k \in 1 .. Len(arrived[d]) : a[k] = arrived[d][k]
    BY ONLY <1>2, <1>4, d \in Descriptors, c \in L!Char, AppendProperties
  <1>7. sent' = [sent EXCEPT ![d] = s] /\ arrived' = [arrived EXCEPT ![d] = a]
    BY <1>1, <1>3, <1>4
  <1>8. /\ sent' \in [Descriptors -> Seq(L!Char)] /\ arrived' \in [Descriptors -> Seq(L!Char)]
        /\ sent'[d] = s /\ arrived'[d] = a
        /\ \A e \in Descriptors \ {d} : sent'[e] = sent[e] /\ arrived'[e] = arrived[e]
    BY ONLY <1>2, <1>7, s \in Seq(L!Char), a \in Seq(L!Char), d \in Descriptors
  <1>9. \A e \in Descriptors : /\ Len(sent'[e]) - Len(arrived'[e]) = Len(sent[e]) - Len(arrived[e])
                               /\ Len(sent'[e]) \in {Len(sent[e]), Len(sent[e]) + 1}
                               /\ \A k \in 1 .. Len(sent[e]) : sent'[e][k] = sent[e][k]
    <2>1. ASSUME NEW e \in Descriptors, e # d
          PROVE  sent'[e] = sent[e] /\ arrived'[e] = arrived[e]
      BY <1>8, <2>1
    <2>2. Len(s) - Len(a) = Len(sent[d]) - Len(arrived[d])
      BY <1>2, <1>5, <1>6
    <2>3. QED
      BY ONLY <1>5, <1>8, <2>1, <2>2
  <1>10. L!TypeOK'
    BY <1>1, <1>8 DEF LinesIInv, L!TypeOK
  <1>11. \A e \in Descriptors : L!Consumed(e)' = L!Consumed(e) /\ Pos(e)' = Pos(e)
    BY <1>1 DEF L!Consumed, Pos
  <1>12. PICK o \in Descriptors \cup {"none"} : FlowFor(o)
    BY DEF LinesIInv, Flow
  <1>13. FlowFor(o)'
    <2>1. ASSUME NEW e \in Descriptors
          PROVE  (Pos(e) + (IF e = o THEN Len(read_buf) ELSE 0) + Len(arrived[e]) = Len(sent[e]))'
      <3>1. /\ Pos(e) + (IF e = o THEN Len(read_buf) ELSE 0) + Len(arrived[e]) = Len(sent[e])
            /\ Pos(e) \in Nat
        BY <1>12, PosIs DEF FlowFor
      <3>2. Pos(e)' = Pos(e)
        BY <1>11
      <3>3. PICK b \in Nat : b = IF e = o THEN Len(read_buf) ELSE 0
        BY <1>2
      <3>4. Pos(e) + b + Len(arrived'[e]) = Len(sent'[e])
        <4>1. Pos(e) + b + Len(arrived[e]) = Len(sent[e])
          BY <3>1, <3>3
        <4>2. PICK l \in Nat, m \in Nat : l = Len(sent[e]) /\ m = Len(arrived[e])
          BY <1>2
        <4>3. PICK x \in Nat, y \in Nat : x = Len(sent'[e]) /\ y = Len(arrived'[e])
          BY <1>8, LenProperties
        <4>4. PICK p \in Nat : p = Pos(e)
          BY <3>1
        <4>5. p + b + m = l /\ x - y = l - m
          BY <1>9, <4>1, <4>2, <4>3, <4>4
        <4>6. p + b + y = x
          BY ONLY <4>5, p \in Nat, b \in Nat, l \in Nat, m \in Nat, x \in Nat, y \in Nat
        <4>7. QED
          BY <4>3, <4>4, <4>6
      <3>5. QED
        BY <1>1, <3>2, <3>3, <3>4
    <2>2. ASSUME o # "none", NEW k \in 1 .. Len(read_buf) PROVE read_buf[k] = sent'[o][Pos(o) + k]
      <3>1. o \in Descriptors /\ read_buf[k] = sent[o][Pos(o) + k] /\ Pos(o) + Len(read_buf) + Len(arrived[o]) = Len(sent[o])
        BY <1>12, <2>2 DEF FlowFor
      <3>2. Pos(o) \in Nat
        BY <3>1, PosIs
      <3>3. Pos(o) + k \in 1 .. Len(sent[o])
        <4>1. Len(sent[o]) \in Nat /\ Len(arrived[o]) \in Nat /\ Len(read_buf) \in Nat
          BY <1>2, <3>1
        <4>2. PICK l \in Nat, m \in Nat, b \in Nat, p \in Nat :
                 l = Len(sent[o]) /\ m = Len(arrived[o]) /\ b = Len(read_buf) /\ p = Pos(o)
          BY ONLY <3>2, <4>1
        <4>3. p + b + m = l /\ k \in 1 .. b
          BY ONLY <3>1, <4>2, k \in 1 .. Len(read_buf)
        <4>4. p + k \in 1 .. l
          BY ONLY <4>3, l \in Nat, m \in Nat, b \in Nat, p \in Nat
        <4>5. QED
          BY ONLY <4>2, <4>4
      <3>4. QED
        BY <1>9, <3>1, <3>3
    <2>3. o # "none" => \A k \in 1 .. Len(read_buf') : read_buf'[k] = sent'[o][Pos(o)' + k]
      <3>1. ASSUME o # "none" PROVE Pos(o)' = Pos(o)
        BY <1>11, <3>1
      <3>2. QED
        BY <1>1, <2>2, <3>1
    <2>4. QED
      BY <1>1, <1>12, <2>1, <2>3 DEF FlowFor
  <1>14. Arrived'
    <2>1. ASSUME NEW e \in Descriptors, NEW k \in 1 .. Len(arrived'[e])
          PROVE  arrived'[e][k] = sent'[e][Len(sent'[e]) - Len(arrived'[e]) + k]
      <3>1. PICK b \in Nat : b = Len(sent[e]) - Len(arrived[e])
        <4>1. Len(arrived[e]) <= Len(sent[e])
          <5>1. /\ Pos(e) + (IF e = o THEN Len(read_buf) ELSE 0) + Len(arrived[e]) = Len(sent[e])
                /\ Pos(e) \in Nat
            BY <1>12, PosIs DEF FlowFor
          <5>2. PICK x \in Nat : x = IF e = o THEN Len(read_buf) ELSE 0
            BY <1>2
          <5>3. Pos(e) + x + Len(arrived[e]) = Len(sent[e]) /\ Pos(e) \in Nat
            BY ONLY <5>1, <5>2
          <5>4. Len(arrived[e]) \in Nat /\ Len(sent[e]) \in Nat
            BY <1>2
          <5>5. QED
            BY ONLY <5>3, <5>4, x \in Nat
        <4>2. Len(arrived[e]) \in Nat /\ Len(sent[e]) \in Nat
          BY <1>2
        <4>3. Len(sent[e]) - Len(arrived[e]) \in Nat
          BY ONLY <4>1, <4>2
        <4>4. QED
          BY ONLY <4>3
      <3>2. Len(sent'[e]) - Len(arrived'[e]) = b
        BY <1>9, <3>1
      <3>3. \A i \in 1 .. Len(arrived[e]) : arrived[e][i] = sent[e][b + i] /\ b + i \in 1 .. Len(sent[e])
        <4>1. \A i \in 1 .. Len(arrived[e]) : b + i \in 1 .. Len(sent[e])
          BY ONLY <1>2, <3>1, b \in Nat, e \in Descriptors
        <4>2. QED
          BY <3>1, <4>1 DEF LinesIInv, Arrived
      <3>4. CASE e # d
        BY <1>8, <3>2, <3>3, <3>4
      <3>5. CASE e = d /\ k <= Len(arrived[d])
        <4>1. k \in 1 .. Len(arrived[d])
          BY <1>2, <3>5
        <4>2. arrived'[d][k] = arrived[d][k]
          BY <1>6, <1>8, <4>1
        <4>3. sent'[d][b + k] = sent[d][b + k]
          BY <1>9, <3>3, <3>5, <4>1
        <4>4. QED
          BY <3>2, <3>3, <3>5, <4>1, <4>2, <4>3
      <3>6. CASE e = d /\ k > Len(arrived[d])
        <4>1. k = Len(arrived[d]) + 1
          BY <1>2, <1>6, <1>8, <3>6
        <4>2. b + k = Len(sent[d]) + 1
          BY <1>2, <3>1, <3>6, <4>1
        <4>3. arrived'[d][k] = c /\ sent'[d][b + k] = c
          BY <1>5, <1>6, <1>8, <4>1, <4>2
        <4>4. QED
          BY <3>2, <3>6, <4>3
      <3>7. Len(arrived[d]) \in Nat /\ k \in Int
        BY <1>2
      <3>8. k <= Len(arrived[d]) \/ k > Len(arrived[d])
        BY ONLY <3>7
      <3>9. QED
        BY <3>4, <3>5, <3>6, <3>8
    <2>2. QED
      BY <2>1 DEF Arrived
  <1>15. AllTaken'
    <2>1. ASSUME NEW e \in Descriptors, NEW i \in DOMAIN pieces[e] PROVE TakenAt(e, pieces[e][i].from, pieces[e][i].text)'
      <3>1. PICK r \in Record : r = pieces[e][i]
        <4>1. pieces[e] \in Seq(Record)
          BY LinesTypes
        <4>2. QED
          BY ONLY <4>1, i \in DOMAIN pieces[e], ElementOfSeq, LenProperties
      <3>2. TakenAt(e, r.from, r.text)
        BY <3>1 DEF LinesIInv, AllTaken
      <3>3. r.from \in Nat /\ r.text \in Seq(L!Char)
        BY DEF Record
      <3>4. PICK f \in Nat : f = r.from
        BY <3>3
      <3>5. PICK t \in Seq(L!Char) : t = r.text
        BY <3>3
      <3>6. TakenAt(e, f, t)
        BY <3>2, <3>4, <3>5
      <3>7. TakenAt(e, f, t)'
        <4>1. CASE e = d
          BY <1>1, <1>2, <1>5, <1>8, <3>6, <4>1, TakenGrows
        <4>2. CASE e # d
          BY <1>1, <1>8, <3>6, <4>2 DEF TakenAt, CutsAt
        <4>3. QED
          BY <4>1, <4>2
      <3>8. pieces'[e][i].from = f /\ pieces'[e][i].text = t
        BY <1>1, <3>1, <3>4, <3>5
      <3>9. QED
        BY <3>7, <3>8
    <2>2. QED
      BY <1>1, <2>1 DEF AllTaken
  <1>16. InPiece'
    <2>1. ASSUME call # "none", NEW k \in 1 .. Len(piece) PROVE piece[k] = sent'[call][L!Consumed(call) + k]
      <3>1. call \in Descriptors
        BY <2>1 DEF LinesIInv, L!TypeOK
      <3>2. piece[k] = sent[call][L!Consumed(call) + k]
        BY <2>1 DEF LinesIInv, InPiece
      <3>3. L!Consumed(call) + k \in 1 .. Len(sent[call])
        BY <1>2, <1>12, <3>1, InStream
      <3>4. QED
        BY <1>9, <3>1, <3>2, <3>3
    <2>2. L!Consumed(call)' = L!Consumed(call)
      BY <1>1 DEF L!Consumed
    <2>3. QED
      BY <1>1, <2>1, <2>2 DEF LinesIInv, InPiece
  <1>17. QED
    BY <1>10, <1>12, <1>13, <1>14, <1>15, <1>16 DEF LinesIInv, Flow

LEMMA LineQuiet ==
  ASSUME L!LineConstants, LinesIInv, UNCHANGED <<reader, sent, arrived, call, piece, pieces, read_buf>>,
         ended' \in [Descriptors -> BOOLEAN], \A d \in Descriptors : ended[d] => ended'[d]
  PROVE  LinesIInv'
  <1>1. L!TypeOK'
    BY DEF LinesIInv, L!TypeOK
  <1>2. Arrived' /\ InPiece'
    BY DEF LinesIInv, Arrived, InPiece, L!Consumed
  <1>3. Flow'
    BY DEF LinesIInv, Flow, FlowFor, Pos, L!Consumed
  <1>4. AllTaken'
    BY DEF LinesIInv, AllTaken, TakenAt, CutsAt
  <1>5. QED
    BY <1>1, <1>2, <1>3, <1>4 DEF LinesIInv

LEMMA EndKeeps ==
  ASSUME L!LineConstants, LinesIInv, NEW d \in Descriptors, L!End(d)
  PROVE  LinesIInv'
  <1>1. ended' = [ended EXCEPT ![d] = TRUE] /\ UNCHANGED <<reader, sent, arrived, call, piece, pieces, read_buf>>
    BY DEF L!End
  <1>2. ended \in [Descriptors -> BOOLEAN]
    BY DEF LinesIInv, L!TypeOK
  <1>3. ended' \in [Descriptors -> BOOLEAN] /\ \A e \in Descriptors : ended[e] => ended'[e]
    BY ONLY <1>1, <1>2, d \in Descriptors
  <1>4. QED
    BY <1>1, <1>3, LineQuiet

(* A caller that changes the descriptor leaves nothing in read_buf. *)
LEMMA CallKeeps ==
  ASSUME L!LineConstants, Drains, LinesIInv, NEW c \in Descriptors, L!Call(c)
  PROVE  LinesIInv'
  <1>1. /\ call = "none" /\ call' = c
        /\ read_buf # <<>> => \A e \in Descriptors \ {c} : L!Consumed(e) + Len(arrived[e]) = Len(sent[e])
        /\ UNCHANGED <<reader, sent, arrived, ended, piece, pieces, read_buf>>
    BY DEF L!Call
  <1>2. /\ Len(piece) \in Nat /\ Len(read_buf) \in Nat /\ "none" \notin Descriptors /\ read_buf \in Seq(L!Char)
        /\ \A e \in Descriptors : Len(sent[e]) \in Nat /\ Len(arrived[e]) \in Nat
    BY LinesTypes
  <1>3. piece = <<>> /\ Len(piece) = 0
    BY <1>1 DEF LinesIInv, InPiece
  <1>4. L!TypeOK'
    BY <1>1 DEF LinesIInv, L!TypeOK
  <1>5. Arrived' /\ AllTaken'
    <2>1. Arrived'
      BY <1>1 DEF LinesIInv, Arrived
    <2>2. AllTaken'
      BY <1>1 DEF LinesIInv, AllTaken, TakenAt, CutsAt
    <2>3. QED
      BY <2>1, <2>2
  <1>6. InPiece'
    <2>1. \A k \in 1 .. Len(piece) : FALSE
      BY ONLY <1>3
    <2>2. QED
      BY <1>1, <1>2, <2>1 DEF LinesIInv, InPiece
  <1>7. ASSUME NEW d \in Descriptors
        PROVE  L!Consumed(d)' = L!Consumed(d) /\ L!Consumed(d) \in Nat /\ Pos(d) = L!Consumed(d) /\ Pos(d)' = Pos(d)
    <2>1. L!Consumed(d)' = L!Consumed(d)
      BY <1>1 DEF L!Consumed
    <2>2. L!Consumed(d) \in Nat
      BY ConsumedIs
    <2>3. PICK n \in Nat : n = L!Consumed(d)
      BY <2>2
    <2>4. Pos(d) = n + (IF call = d THEN 0 ELSE 0) /\ Pos(d)' = n + (IF call' = d THEN 0 ELSE 0)
      BY <1>1, <1>3, <2>1, <2>3 DEF Pos
    <2>5. Pos(d) = n /\ Pos(d)' = n
      BY ONLY <2>4, n \in Nat
    <2>6. QED
      BY <2>1, <2>2, <2>3, <2>5
  <1>8. PICK o \in Descriptors \cup {"none"} : FlowFor(o)
    BY DEF LinesIInv, Flow
  <1>9. CASE o = c \/ read_buf = <<>>
    <2>1. \A d \in Descriptors : (Pos(d) + (IF d = o THEN Len(read_buf) ELSE 0) + Len(arrived[d]) = Len(sent[d]))'
      BY <1>1, <1>7, <1>8 DEF FlowFor
    <2>2. o # "none" => \A k \in 1 .. Len(read_buf') : read_buf'[k] = sent'[o][Pos(o)' + k]
      BY <1>1, <1>7, <1>8 DEF FlowFor
    <2>3. FlowFor(o)'
      BY <1>1, <1>8, <1>9, <2>1, <2>2 DEF FlowFor
    <2>4. QED
      BY <1>4, <1>5, <1>6, <2>3 DEF LinesIInv, Flow
  <1>10. CASE o # c /\ read_buf # <<>>
    <2>1. o \in Descriptors \ {c}
      BY <1>8, <1>10 DEF FlowFor
    <2>2. Pos(o) + Len(read_buf) + Len(arrived[o]) = Len(sent[o]) /\ Pos(o) + Len(arrived[o]) = Len(sent[o]) /\ Pos(o) \in Nat
      BY <1>1, <1>7, <1>8, <1>10, <2>1 DEF FlowFor
    <2>3. PICK p \in Nat, b \in Nat, m \in Nat, l \in Nat :
             p = Pos(o) /\ b = Len(read_buf) /\ m = Len(arrived[o]) /\ l = Len(sent[o])
      BY <1>2, <2>1, <2>2
    <2>4. p + b + m = l /\ p + m = l
      BY ONLY <2>2, <2>3
    <2>5. b = 0
      BY ONLY <2>4, p \in Nat, b \in Nat, m \in Nat, l \in Nat
    <2>6. QED
      BY <1>2, <1>10, <2>3, <2>5, EmptySeq
  <1>11. QED
    BY <1>9, <1>10

------------------------------------------------------------------------------
(* LineReader: a step of a call *)

Unended(p) ==
    /\ reader = "Readn" => Len(p) < MaxLen
    /\ reader = "Readline" => Len(p) < MaxLen - 1 /\ \A k \in 1 .. Len(p) : p[k] # "LF"
    /\ reader = "get_line" => \A k \in 1 .. Len(p) : p[k] = "a"

(* The stream is cut nowhere in what the call has consumed so far. *)
LEMMA NotCut ==
  ASSUME L!LineConstants, LinesIInv, NEW c \in Descriptors, call = c, NEW f, f = L!Consumed(c)
  PROVE  \A m \in 1 .. Len(piece) : ~CutsAt(c, f, m)
  <1>1. /\ MaxLen \in Nat \ {0, 1} /\ Len(piece) \in Nat /\ "none" \notin Descriptors
    BY LinesTypes
  <1>2. ASSUME NEW m \in 1 .. Len(piece) PROVE ~CutsAt(c, f, m)
    <2>1. /\ piece[m] = sent[c][f + m]
          /\ reader = "Readn" => Len(piece) < MaxLen
          /\ reader = "Readline" => Len(piece) < MaxLen - 1 /\ piece[m] # "LF"
          /\ reader = "get_line" => piece[m] = "a"
      BY <1>1 DEF LinesIInv, InPiece
    <2>2. (Len(piece) < MaxLen => m # MaxLen) /\ (Len(piece) < MaxLen - 1 => m # MaxLen - 1)
      BY ONLY <1>1, m \in 1 .. Len(piece)
    <2>3. QED
      BY ONLY <2>1, <2>2 DEF CutsAt
  <1>3. QED
    BY <1>2

(* The characters that have arrived follow those that have been read. *)
LEMMA ComesNext ==
  ASSUME L!LineConstants, LinesIInv, NEW c \in Descriptors, call = c, NEW f, f = L!Consumed(c)
  PROVE  /\ f + Len(piece) + Len(read_buf) + Len(arrived[c]) = Len(sent[c])
         /\ \A k \in 1 .. Len(read_buf) : read_buf[k] = sent[c][f + Len(piece) + k]
         /\ \A k \in 1 .. Len(arrived[c]) : arrived[c][k] = sent[c][f + Len(piece) + Len(read_buf) + k]
         /\ \A k \in 1 .. Len(piece) : piece[k] = sent[c][f + k]
         /\ f \in Nat
  <1>1. /\ Len(piece) \in Nat /\ Len(read_buf) \in Nat /\ "none" \notin Descriptors
        /\ \A e \in Descriptors : Len(sent[e]) \in Nat /\ Len(arrived[e]) \in Nat
    BY LinesTypes
  <1>2. /\ FlowFor(c) /\ f \in Nat /\ Pos(c) = f + Len(piece)
        /\ Pos(c) + Len(read_buf) + Len(arrived[c]) = Len(sent[c])
    BY InStream
  <1>3. f + Len(piece) + Len(read_buf) + Len(arrived[c]) = Len(sent[c])
    BY ONLY <1>2
  <1>4. \A k \in 1 .. Len(read_buf) : read_buf[k] = sent[c][f + Len(piece) + k]
    <2>1. \A k \in 1 .. Len(read_buf) : read_buf[k] = sent[c][Pos(c) + k]
      BY <1>1, <1>2 DEF FlowFor
    <2>2. QED
      BY ONLY <1>2, <2>1
  <1>5. \A k \in 1 .. Len(arrived[c]) : arrived[c][k] = sent[c][f + Len(piece) + Len(read_buf) + k]
    <2>1. \A k \in 1 .. Len(arrived[c]) : arrived[c][k] = sent[c][Len(sent[c]) - Len(arrived[c]) + k]
      BY DEF LinesIInv, Arrived
    <2>2. PICK l \in Nat, m \in Nat, b \in Nat, q \in Nat :
             l = Len(sent[c]) /\ m = Len(arrived[c]) /\ b = Len(read_buf) /\ q = Len(piece)
      <3>1. Len(sent[c]) \in Nat /\ Len(arrived[c]) \in Nat
        BY <1>1
      <3>2. QED
        BY ONLY <1>1, <3>1
    <2>3. l - m = f + q + b
      <3>1. f \in Nat /\ f + q + b + m = l
        BY <1>2, <1>3, <2>2
      <3>2. QED
        BY ONLY <3>1, l \in Nat, m \in Nat, b \in Nat, q \in Nat
    <2>4. \A k \in 1 .. m : arrived[c][k] = sent[c][(l - m) + k]
      BY ONLY <2>1, <2>2
    <2>5. \A k \in 1 .. m : arrived[c][k] = sent[c][(f + q + b) + k]
      BY ONLY <2>3, <2>4
    <2>6. QED
      BY ONLY <2>2, <2>5
  <1>6. \A k \in 1 .. Len(piece) : piece[k] = sent[c][f + k]
    BY <1>1 DEF LinesIInv, InPiece
  <1>7. QED
    BY <1>2, <1>3, <1>4, <1>5, <1>6

(* Between the stream and what the call of c has consumed, p from the      *)
(* place f on, nothing is lost.                                            *)
Moved(c, f, p) ==
    /\ UNCHANGED <<reader, sent, ended>>
    /\ read_buf' \in Seq(L!Char) /\ Len(read_buf') <= BufSize /\ (reader # "Readline" => read_buf' = <<>>)
    /\ arrived' \in [Descriptors -> Seq(L!Char)] /\ \A d \in Descriptors \ {c} : arrived'[d] = arrived[d]
    /\ f + Len(p) + Len(read_buf') + Len(arrived'[c]) = Len(sent[c])
    /\ \A k \in 1 .. Len(p) : p[k] = sent[c][f + k]
    /\ \A k \in 1 .. Len(read_buf') : read_buf'[k] = sent[c][f + Len(p) + k]
    /\ \A k \in 1 .. Len(arrived'[c]) : arrived'[c][k] = sent[c][f + Len(p) + Len(read_buf') + k]

LEMMA MovedArrived ==
  ASSUME L!LineConstants, LinesIInv, NEW c \in Descriptors, NEW f \in Nat, NEW p \in Seq(L!Char), Moved(c, f, p)
  PROVE  Arrived'
  <1>1. /\ sent' = sent /\ arrived' \in [Descriptors -> Seq(L!Char)] /\ read_buf' \in Seq(L!Char)
        /\ \A d \in Descriptors \ {c} : arrived'[d] = arrived[d]
        /\ f + Len(p) + Len(read_buf') + Len(arrived'[c]) = Len(sent[c])
        /\ \A k \in 1 .. Len(arrived'[c]) : arrived'[c][k] = sent[c][f + Len(p) + Len(read_buf') + k]
    BY DEF Moved
  <1>2. ASSUME NEW d \in Descriptors, d # c, NEW k \in 1 .. Len(arrived'[d])
        PROVE  arrived'[d][k] = sent'[d][Len(sent'[d]) - Len(arrived'[d]) + k]
    <2>1. \A i \in 1 .. Len(arrived[d]) : arrived[d][i] = sent[d][Len(sent[d]) - Len(arrived[d]) + i]
      BY DEF LinesIInv, Arrived
    <2>2. arrived'[d] = arrived[d] /\ sent' = sent
      BY <1>1, <1>2
    <2>3. QED
      BY ONLY <2>1, <2>2, k \in 1 .. Len(arrived'[d])
  <1>3. ASSUME NEW k \in 1 .. Len(arrived'[c])
        PROVE  arrived'[c][k] = sent'[c][Len(sent'[c]) - Len(arrived'[c]) + k]
    <2>1. PICK l \in Nat, m \in Nat, b \in Nat, q \in Nat :
             l = Len(sent[c]) /\ m = Len(arrived'[c]) /\ b = Len(read_buf') /\ q = Len(p)
      <3>1. Len(sent[c]) \in Nat
        BY LinesTypes
      <3>2. Len(arrived'[c]) \in Nat /\ Len(read_buf') \in Nat /\ Len(p) \in Nat
        BY <1>1, LenProperties
      <3>3. QED
        BY ONLY <3>1, <3>2
    <2>2. f + q + b + m = l
      BY <1>1, <2>1
    <2>3. f + q + b = l - m
      BY ONLY <2>2, f \in Nat, l \in Nat, m \in Nat, b \in Nat, q \in Nat
    <2>4. arrived'[c][k] = sent[c][(f + q + b) + k]
      BY <1>1, <2>1
    <2>5. QED
      BY <1>1, <2>1, <2>3, <2>4
  <1>4. QED
    BY <1>2, <1>3 DEF Arrived

LEMMA MovedTaken ==
  ASSUME L!LineConstants, NEW d, NEW f, NEW t, TakenAt(d, f, t), UNCHANGED <<reader, sent, ended>>
  PROVE  TakenAt(d, f, t)'
  BY DEF TakenAt, CutsAt

(* The position that the calls have reached, from what they have consumed. *)
LEMMA MovedFlow ==
  ASSUME L!LineConstants, LinesIInv, NEW c \in Descriptors, call = c, NEW f \in Nat, NEW p \in Seq(L!Char),
         Moved(c, f, p), Pos(c)' = f + Len(p), call' \in {c, "none"},
         \A d \in Descriptors \ {c} : Pos(d)' = Pos(d)
  PROVE  Flow'
  <1>1. FlowFor(c) /\ "none" \notin Descriptors
    BY InStream, LinesTypes
  <1>2. /\ sent' = sent
        /\ \A d \in Descriptors \ {c} : arrived'[d] = arrived[d]
        /\ f + Len(p) + Len(read_buf') + Len(arrived'[c]) = Len(sent[c])
        /\ \A k \in 1 .. Len(read_buf') : read_buf'[k] = sent[c][f + Len(p) + k]
    BY DEF Moved
  <1>3. ASSUME NEW d \in Descriptors
        PROVE  Pos(d)' + (IF d = c THEN Len(read_buf') ELSE 0) + Len(arrived'[d]) = Len(sent'[d])
    <2>1. CASE d = c
      BY <1>2, <2>1
    <2>2. CASE d # c
      <3>1. Pos(d) + (IF d = c THEN Len(read_buf) ELSE 0) + Len(arrived[d]) = Len(sent[d])
        BY <1>1 DEF FlowFor
      <3>2. Pos(d) + 0 + Len(arrived[d]) = Len(sent[d])
        BY ONLY <2>2, <3>1
      <3>3. Pos(d)' + 0 + Len(arrived'[d]) = Len(sent'[d])
        BY <1>2, <2>2, <3>2
      <3>4. QED
        BY ONLY <2>2, <3>3
    <2>3. QED
      BY <2>1, <2>2
  <1>4. \A k \in 1 .. Len(read_buf') : read_buf'[k] = sent'[c][Pos(c)' + k]
    BY <1>2
  <1>5. FlowFor(c)'
    BY <1>1, <1>3, <1>4 DEF FlowFor
  <1>6. QED
    BY <1>5 DEF Flow

(* The call goes on. *)
LEMMA CallGoesOn ==
  ASSUME L!LineConstants, LinesIInv, NEW c \in Descriptors, call = c, NEW f \in Nat, f = L!Consumed(c),
         NEW p \in Seq(L!Char), Moved(c, f, p), Unended(p),
         piece' = p, UNCHANGED <<call, pieces>>
  PROVE  LinesIInv'
  <1>1. "none" \notin Descriptors /\ reader' = reader /\ sent' = sent /\ ended' = ended
    BY LinesTypes DEF Moved
  <1>2. \A d \in Descriptors : L!Consumed(d)' = L!Consumed(d)
    BY DEF L!Consumed
  <1>3. Pos(c)' = f + Len(p)
    BY <1>2 DEF Pos
  <1>4. \A d \in Descriptors \ {c} : Pos(d)' = Pos(d)
    BY <1>2 DEF Pos
  <1>5. Flow'
    BY <1>3, <1>4, MovedFlow
  <1>6. Arrived'
    BY MovedArrived
  <1>7. AllTaken'
    <2>1. ASSUME NEW d \in Descriptors, NEW i \in DOMAIN pieces[d]
          PROVE  TakenAt(d, pieces[d][i].from, pieces[d][i].text)'
      <3>1. PICK g, t : g = pieces[d][i].from /\ t = pieces[d][i].text
        OBVIOUS
      <3>2. TakenAt(d, g, t)
        BY <3>1 DEF LinesIInv, AllTaken
      <3>3. TakenAt(d, g, t)'
        BY <1>1, <3>2, MovedTaken
      <3>4. QED
        BY <3>1, <3>3
    <2>2. QED
      BY <2>1 DEF AllTaken
  <1>8. L!TypeOK'
    BY <1>1 DEF LinesIInv, L!TypeOK, Moved
  <1>9. InPiece'
    <2>1. \A k \in 1 .. Len(p) : p[k] = sent[c][f + k]
      BY DEF Moved
    <2>2. reader # "Readline" => read_buf' = <<>>
      BY DEF Moved
    <2>3. L!Consumed(c)' = f
      BY <1>2
    <2>4. QED
      BY <1>1, <2>1, <2>2, <2>3 DEF InPiece, Unended
  <1>10. QED
    BY <1>5, <1>6, <1>7, <1>8, <1>9 DEF LinesIInv

(* The call returns: what it has consumed is one more piece. *)
LEMMA Returns ==
  ASSUME L!LineConstants, LinesIInv, NEW c \in Descriptors, call = c, NEW f \in Nat, f = L!Consumed(c),
         NEW p \in Seq(L!Char), Moved(c, f, p), TakenAt(c, f, p), L!Return(p)
  PROVE  LinesIInv'
  <1>1. /\ "none" \notin Descriptors /\ reader' = reader /\ sent' = sent /\ ended' = ended
        /\ piece' = <<>> /\ call' = "none"
        /\ pieces \in [Descriptors -> Seq(Record)]
        /\ MaxLen \in Nat \ {0, 1}
    BY LinesTypes DEF Moved, L!Return
  <1>2. PICK r : r = [from |-> f, text |-> p]
    OBVIOUS
  <1>3. r \in Record /\ r.from = f /\ r.text = p
    BY ONLY <1>2, f \in Nat, p \in Seq(L!Char) DEF Record
  <1>4. PICK s : s = Append(pieces[c], r)
    OBVIOUS
  <1>5. pieces' = [pieces EXCEPT ![c] = s]
    BY <1>2, <1>4 DEF L!Return
  <1>6. /\ s \in Seq(Record) /\ Len(s) = Len(pieces[c]) + 1 /\ s[Len(pieces[c]) + 1] = r
        /\ \A i \in 1 .. Len(pieces[c]) : s[i] = pieces[c][i]
        /\ Len(pieces[c]) \in Nat
    <2>1. pieces[c] \in Seq(Record)
      BY <1>1
    <2>2. QED
      BY ONLY <1>3, <1>4, <2>1, AppendProperties, LenProperties
  <1>7. /\ pieces' \in [Descriptors -> Seq(Record)] /\ pieces'[c] = s
        /\ \A d \in Descriptors \ {c} : pieces'[d] = pieces[d]
    BY ONLY <1>1, <1>5, <1>6, c \in Descriptors
  <1>8. s # <<>> /\ L!Last(s) = r
    <2>1. s # <<>>
      BY <1>6, EmptySeq
    <2>2. QED
      BY <1>6, <2>1 DEF L!Last
  <1>9. L!Consumed(c)' = f + Len(p)
    BY <1>3, <1>7, <1>8 DEF L!Consumed
  <1>10. \A d \in Descriptors \ {c} : L!Consumed(d)' = L!Consumed(d)
    BY <1>7 DEF L!Consumed
  <1>11. Pos(c)' = f + Len(p)
    <2>1. Len(p) \in Nat
      BY LenProperties
    <2>2. Pos(c)' = f + Len(p) + 0
      BY <1>1, <1>9 DEF Pos
    <2>3. QED
      BY ONLY <2>1, <2>2, f \in Nat
  <1>12. \A d \in Descriptors \ {c} : Pos(d)' = Pos(d)
    BY <1>1, <1>10 DEF Pos
  <1>13. Flow'
    BY <1>1, <1>11, <1>12, MovedFlow
  <1>14. Arrived'
    BY MovedArrived
  <1>15. AllTaken'
    <2>1. ASSUME NEW d \in Descriptors, NEW i \in DOMAIN pieces'[d]
          PROVE  TakenAt(d, pieces[d][i].from, pieces[d][i].text)'
      <3>1. PICK g, t : g = pieces'[d][i].from /\ t = pieces'[d][i].text
        OBVIOUS
      <3>2. TakenAt(d, g, t)
        <4>1. CASE d # c
          BY <1>7, <3>1, <4>1 DEF LinesIInv, AllTaken
        <4>2. CASE d = c /\ i \in 1 .. Len(pieces[c])
          <5>1. pieces'[d][i] = pieces[c][i] /\ i \in DOMAIN pieces[c]
            <6>1. pieces[c] \in Seq(Record)
              BY <1>1
            <6>2. DOMAIN pieces[c] = 1 .. Len(pieces[c])
              BY ONLY <6>1, LenProperties
            <6>3. QED
              BY <1>6, <1>7, <4>2, <6>2
          <5>2. QED
            BY <3>1, <4>2, <5>1 DEF LinesIInv, AllTaken
        <4>3. CASE d = c /\ i \notin 1 .. Len(pieces[c])
          <5>1. i \in 1 .. Len(s)
            <6>1. DOMAIN s = 1 .. Len(s)
              BY ONLY <1>6, LenProperties
            <6>2. QED
              BY <1>7, <4>3, <6>1
          <5>2. i = Len(pieces[c]) + 1
            BY ONLY <1>6, <4>3, <5>1
          <5>3. QED
            BY <1>3, <1>6, <1>7, <3>1, <4>3, <5>2
        <4>4. QED
          BY <4>1, <4>2, <4>3
      <3>3. TakenAt(d, g, t)'
        BY <1>1, <3>2, MovedTaken
      <3>4. QED
        BY <3>1, <3>3
    <2>2. QED
      BY <2>1 DEF AllTaken
  <1>16. L!TypeOK'
    <2>1. <<>> \in Seq(L!Char)
      BY EmptySeq
    <2>2. QED
      BY <1>1, <1>7, <2>1 DEF LinesIInv, L!TypeOK, Moved, Record
  <1>17. InPiece'
    <2>1. Len(<<>>) = 0
      BY EmptySeq
    <2>2. \A k \in 1 .. Len(<<>>) : FALSE
      BY ONLY <2>1
    <2>3. reader # "Readline" => read_buf' = <<>>
      BY DEF Moved
    <2>4. Len(<<>>) < MaxLen /\ Len(<<>>) < MaxLen - 1
      BY ONLY <1>1, <2>1
    <2>5. QED
      BY <1>1, <2>2, <2>3, <2>4 DEF InPiece
  <1>18. QED
    BY <1>13, <1>14, <1>15, <1>16, <1>17 DEF LinesIInv

------------------------------------------------------------------------------
(* LineReader: the functions *)

LEMMA ArrivedCut ==
  ASSUME L!LineConstants, LinesIInv, NEW c \in Descriptors, NEW n \in Nat, n <= Len(arrived[c]),
         arrived' = [arrived EXCEPT ![c] = SubSeq(@, n + 1, Len(@))]
  PROVE  /\ arrived' \in [Descriptors -> Seq(L!Char)]
         /\ \A d \in Descriptors \ {c} : arrived'[d] = arrived[d]
         /\ n + Len(arrived'[c]) = Len(arrived[c])
         /\ \A k \in 1 .. Len(arrived'[c]) : arrived'[c][k] = arrived[c][n + k]
  <1>1. arrived \in [Descriptors -> Seq(L!Char)]
    BY LinesTypes
  <1>2. PICK a \in Seq(L!Char) : a = arrived[c]
    BY <1>1
  <1>3. PICK l \in Nat : l = Len(a)
    BY LenProperties
  <1>4. PICK m \in Nat : m = l - n
    <2>1. l - n \in Nat
      BY <1>2, <1>3
    <2>2. QED
      BY <2>1
  <1>5. PICK b : b = SubSeq(a, n + 1, l)
    OBVIOUS
  <1>6. b \in Seq(L!Char) /\ Len(b) = m /\ \A k \in 1 .. m : b[k] = a[n + k]
    <2>1. l = n + m /\ l <= Len(a)
      BY <1>3, <1>4
    <2>2. QED
      BY ONLY <1>5, <2>1, a \in Seq(L!Char), n \in Nat, m \in Nat, SliceIs
  <1>7. arrived' = [arrived EXCEPT ![c] = b]
    BY <1>2, <1>3, <1>5
  <1>8. /\ arrived' \in [Descriptors -> Seq(L!Char)] /\ arrived'[c] = b
        /\ \A d \in Descriptors \ {c} : arrived'[d] = arrived[d]
    BY ONLY <1>1, <1>6, <1>7, c \in Descriptors
  <1>9. QED
    BY <1>2, <1>3, <1>4, <1>6, <1>8

(* read() and recv() go on where the call is. *)
LEMMA RecvMoves ==
  ASSUME L!LineConstants, LinesIInv, NEW c \in Descriptors, call = c, NEW f \in Nat, f = L!Consumed(c),
         reader # "Readline", UNCHANGED <<reader, sent, ended, read_buf>>,
         NEW n \in Nat, n <= Len(arrived[c]), arrived' = [arrived EXCEPT ![c] = SubSeq(@, n + 1, Len(@))],
         NEW p \in Seq(L!Char), Len(p) = Len(piece) + n,
         \A k \in 1 .. Len(piece) : p[k] = piece[k],
         \A k \in 1 .. n : p[Len(piece) + k] = arrived[c][k]
  PROVE  Moved(c, f, p)
  <1>1. read_buf = <<>> /\ Len(read_buf) = 0 /\ read_buf \in Seq(L!Char) /\ Len(read_buf) <= BufSize
    <2>1. read_buf = <<>>
      BY DEF LinesIInv, InPiece
    <2>2. QED
      BY <2>1, EmptySeq DEF LinesIInv, L!TypeOK
  <1>2. /\ arrived' \in [Descriptors -> Seq(L!Char)]
        /\ \A d \in Descriptors \ {c} : arrived'[d] = arrived[d]
        /\ n + Len(arrived'[c]) = Len(arrived[c])
        /\ \A k \in 1 .. Len(arrived'[c]) : arrived'[c][k] = arrived[c][n + k]
    BY ArrivedCut
  <1>3. PICK q \in Nat, m \in Nat, r \in Nat : q = Len(piece) /\ m = Len(arrived[c]) /\ r = Len(arrived'[c])
    <2>1. Len(piece) \in Nat /\ Len(arrived[c]) \in Nat
      BY LinesTypes
    <2>2. Len(arrived'[c]) \in Nat
      BY <1>2, LenProperties
    <2>3. QED
      BY ONLY <2>1, <2>2
  <1>4. /\ f + q + 0 + m = Len(sent[c])
        /\ \A k \in 1 .. m : arrived[c][k] = sent[c][f + q + 0 + k]
        /\ \A k \in 1 .. q : piece[k] = sent[c][f + k]
    BY <1>1, <1>3, ComesNext
  <1>5. f + (q + n) + 0 + r = Len(sent[c]) /\ n + r = m
    <2>1. n + r = m
      BY <1>2, <1>3
    <2>2. f + q + 0 + m = f + (q + n) + 0 + r
      BY ONLY <2>1, f \in Nat, q \in Nat, n \in Nat, r \in Nat
    <2>3. QED
      BY ONLY <1>4, <2>1, <2>2
  <1>6. \A k \in 1 .. q + n : p[k] = sent[c][f + k]
    <2>1. ASSUME NEW k \in 1 .. q + n, k > q PROVE p[k] = sent[c][f + k]
      <3>1. PICK j \in 1 .. n : k = q + j
        <4>1. k - q \in 1 .. n /\ k = q + (k - q)
          BY ONLY <2>1, q \in Nat, n \in Nat
        <4>2. QED
          BY ONLY <4>1
      <3>2. j \in 1 .. m /\ f + k = f + q + 0 + j
        BY ONLY <1>5, <3>1, f \in Nat, q \in Nat, n \in Nat, m \in Nat, r \in Nat, j \in 1 .. n
      <3>3. p[q + j] = arrived[c][j]
        BY ONLY <1>3, <3>1, j \in 1 .. n, \A i \in 1 .. n : p[Len(piece) + i] = arrived[c][i]
      <3>4. arrived[c][j] = sent[c][f + k]
        BY ONLY <1>4, <3>2
      <3>5. QED
        BY ONLY <3>1, <3>3, <3>4
    <2>2. ASSUME NEW k \in 1 .. q + n, k <= q PROVE p[k] = sent[c][f + k]
      <3>1. k \in 1 .. q
        BY <2>2
      <3>2. QED
        BY <1>3, <1>4, <3>1
    <2>3. QED
      BY <2>1, <2>2
  <1>7. \A k \in 1 .. r : arrived'[c][k] = sent[c][f + (q + n) + 0 + k]
    <2>1. ASSUME NEW k \in 1 .. r PROVE arrived'[c][k] = sent[c][f + (q + n) + 0 + k]
      <3>1. n + k \in 1 .. m /\ f + q + 0 + (n + k) = f + (q + n) + 0 + k
        BY ONLY <1>5, f \in Nat, q \in Nat, n \in Nat, m \in Nat, r \in Nat, k \in 1 .. r
      <3>2. arrived'[c][k] = arrived[c][n + k]
        BY ONLY <1>2, <1>3, k \in 1 .. r
      <3>3. arrived[c][n + k] = sent[c][f + (q + n) + 0 + k]
        BY ONLY <1>4, <3>1
      <3>4. QED
        BY ONLY <3>2, <3>3
    <2>2. QED
      BY <2>1
  <1>8. Len(p) = q + n
    BY <1>3
  <1>9. \A k \in 1 .. Len(read_buf') : FALSE
    BY <1>1
  <1>10. f + Len(p) + Len(read_buf') + Len(arrived'[c]) = Len(sent[c])
    BY ONLY <1>1, <1>3, <1>5, <1>8, read_buf' = read_buf
  <1>11. \A k \in 1 .. Len(p) : p[k] = sent[c][f + k]
    BY <1>6, <1>8
  <1>12. \A k \in 1 .. Len(arrived'[c]) : arrived'[c][k] = sent[c][f + Len(p) + Len(read_buf') + k]
    BY <1>1, <1>3, <1>7, <1>8
  <1>13. QED
    BY <1>1, <1>2, <1>9, <1>10, <1>11, <1>12 DEF Moved

(* read() fills the empty read_buf. *)
LEMMA RefillKeeps == ASSUME L!LineConstants, LinesIInv, L!Refill PROVE LinesIInv'
  <1>1. call \in Descriptors
    BY DEF LinesIInv, L!TypeOK, L!Refill
  <1>2. PICK c \in Descriptors : c = call
    BY <1>1
  <1>3. PICK f \in Nat : f = L!Consumed(c)
    BY ConsumedIs
  <1>4. PICK n \in 1 .. BufSize : /\ n <= Len(arrived[c])
                                  /\ read_buf' = SubSeq(arrived[c], 1, n)
                                  /\ arrived' = [arrived EXCEPT ![c] = SubSeq(@, n + 1, Len(@))]
    BY <1>2 DEF L!Refill
  <1>5. reader = "Readline" /\ read_buf = <<>> /\ UNCHANGED <<reader, sent, ended, call, piece, pieces>>
    BY DEF L!Refill
  <1>6. /\ BufSize \in Nat /\ n \in Nat /\ piece \in Seq(L!Char) /\ arrived[c] \in Seq(L!Char)
        /\ Len(sent[c]) \in Nat
    BY LinesTypes
  <1>7. /\ arrived' \in [Descriptors -> Seq(L!Char)]
        /\ \A d \in Descriptors \ {c} : arrived'[d] = arrived[d]
        /\ n + Len(arrived'[c]) = Len(arrived[c])
        /\ \A k \in 1 .. Len(arrived'[c]) : arrived'[c][k] = arrived[c][n + k]
    BY <1>4, <1>6, ArrivedCut
  <1>8. read_buf' \in Seq(L!Char) /\ Len(read_buf') = n /\ \A k \in 1 .. n : read_buf'[k] = arrived[c][k]
    <2>1. PICK a \in Seq(L!Char) : a = arrived[c]
      BY <1>6
    <2>2. n <= Len(a) /\ n = 0 + n /\ read_buf' = SubSeq(a, 0 + 1, n)
      BY <1>4, <2>1
    <2>3. /\ SubSeq(a, 0 + 1, n) \in Seq(L!Char) /\ Len(SubSeq(a, 0 + 1, n)) = n
          /\ \A k \in 1 .. n : SubSeq(a, 0 + 1, n)[k] = a[0 + k]
      BY ONLY <1>6, <2>2, a \in Seq(L!Char), SliceIs
    <2>4. QED
      BY <2>1, <2>2, <2>3
  <1>9. PICK q \in Nat, m \in Nat, r \in Nat : q = Len(piece) /\ m = Len(arrived[c]) /\ r = Len(arrived'[c])
    <2>1. Len(piece) \in Nat /\ Len(arrived[c]) \in Nat
      BY LinesTypes
    <2>2. Len(arrived'[c]) \in Nat
      BY <1>7, LenProperties
    <2>3. QED
      BY ONLY <2>1, <2>2
  <1>10. /\ f + q + m = Len(sent[c])
         /\ \A k \in 1 .. m : arrived[c][k] = sent[c][f + q + k]
         /\ \A k \in 1 .. q : piece[k] = sent[c][f + k]
    <2>1. Len(read_buf) = 0
      BY <1>5
    <2>2. /\ f + q + 0 + m = Len(sent[c])
          /\ \A k \in 1 .. m : arrived[c][k] = sent[c][f + q + 0 + k]
          /\ \A k \in 1 .. q : piece[k] = sent[c][f + k]
      <3>1. call = c
        BY <1>2
      <3>2. /\ f + Len(piece) + Len(read_buf) + Len(arrived[c]) = Len(sent[c])
            /\ \A k \in 1 .. Len(arrived[c]) : arrived[c][k] = sent[c][f + Len(piece) + Len(read_buf) + k]
            /\ \A k \in 1 .. Len(piece) : piece[k] = sent[c][f + k]
        BY <1>3, <3>1, ComesNext
      <3>3. QED
        BY ONLY <1>9, <2>1, <3>2, Zenon
    <2>3. f + q + 0 = f + q
      OBVIOUS
    <2>4. f + q + m = Len(sent[c])
      BY ONLY <2>2, <2>3, Zenon
    <2>5. \A k \in 1 .. m : arrived[c][k] = sent[c][f + q + k]
      BY ONLY <2>2, <2>3
    <2>6. QED
      BY ONLY <2>2, <2>4, <2>5
  <1>11. n + r = m
    BY <1>7, <1>9
  <1>12. f + q + n + r = Len(sent[c])
    BY <1>10, <1>11
  <1>13. \A k \in 1 .. n : read_buf'[k] = sent[c][f + q + k]
    <2>1. \A k \in 1 .. n : k \in 1 .. m
      BY <1>4, <1>9
    <2>2. QED
      BY ONLY <1>8, <1>10, <2>1
  <1>14. \A k \in 1 .. r : arrived'[c][k] = sent[c][f + q + n + k]
    <2>1. ASSUME NEW k \in 1 .. r PROVE arrived'[c][k] = sent[c][f + q + n + k]
      <3>1. n + k \in 1 .. m /\ f + q + (n + k) = f + q + n + k
        BY <1>11
      <3>2. QED
        BY <1>7, <1>9, <1>10, <3>1
    <2>2. QED
      BY <2>1
  <1>15. Moved(c, f, piece)
    BY <1>5, <1>7, <1>8, <1>9, <1>10, <1>12, <1>13, <1>14 DEF Moved
  <1>16. Unended(piece)
    BY DEF LinesIInv, InPiece, Unended
  <1>17. QED
    BY <1>2, <1>3, <1>5, <1>6, <1>15, <1>16, CallGoesOn

LEMMA MovedWithin ==
  ASSUME L!LineConstants, LinesIInv, NEW c \in Descriptors, NEW f \in Nat, NEW p \in Seq(L!Char), Moved(c, f, p)
  PROVE  f + Len(p) <= Len(sent[c])
  <1>1. PICK n \in Nat, b \in Nat, r \in Nat, l \in Nat :
           n = Len(p) /\ b = Len(read_buf') /\ r = Len(arrived'[c]) /\ l = Len(sent[c])
    <2>1. read_buf' \in Seq(L!Char) /\ arrived' \in [Descriptors -> Seq(L!Char)]
      BY DEF Moved
    <2>2. Len(p) \in Nat /\ Len(read_buf') \in Nat /\ Len(arrived'[c]) \in Nat
      BY <2>1, LenProperties
    <2>3. Len(sent[c]) \in Nat
      BY LinesTypes
    <2>4. QED
      BY ONLY <2>2, <2>3
  <1>2. f + Len(p) + Len(read_buf') + Len(arrived'[c]) = Len(sent[c])
    BY DEF Moved
  <1>3. f + n + b + r = l
    BY ONLY <1>1, <1>2
  <1>4. f + n <= l
    BY ONLY <1>3, f \in Nat, n \in Nat, b \in Nat, r \in Nat, l \in Nat
  <1>5. QED
    BY ONLY <1>1, <1>4

(* A piece of a call that has read on by one character ends there. *)
LEMMA OneMore ==
  ASSUME L!LineConstants, LinesIInv, NEW c \in Descriptors, call = c, NEW f \in Nat, f = L!Consumed(c),
         NEW p \in Seq(L!Char), Len(p) = Len(piece) + 1, Moved(c, f, p),
         CutsAt(c, f, Len(p)) \/ (ended[c] /\ f + Len(p) = Len(sent[c]))
  PROVE  TakenAt(c, f, p)
  <1>1. PICK q \in Nat : q = Len(piece)
    BY LinesTypes
  <1>2. PICK n \in Nat : n = Len(p)
    BY LenProperties
  <1>3. n = q + 1
    BY <1>1, <1>2
  <1>4. \A m \in 1 .. n - 1 : ~CutsAt(c, f, m)
    <2>1. \A m \in 1 .. q : ~CutsAt(c, f, m)
      BY <1>1, NotCut
    <2>2. n - 1 = q
      BY <1>3
    <2>3. QED
      BY ONLY <2>1, <2>2
  <1>5. f + n <= Len(sent[c]) /\ \A k \in 1 .. n : p[k] = sent[c][f + k]
    BY <1>2, MovedWithin DEF Moved
  <1>6. n > 0
    BY <1>3
  <1>7. QED
    BY <1>2, <1>4, <1>5, <1>6 DEF TakenAt

(* The stream ends with the piece. *)
LEMMA EndsKeep ==
  ASSUME L!LineConstants, LinesIInv, NEW c \in Descriptors, call = c, NEW f \in Nat, f = L!Consumed(c),
         arrived[c] = <<>>, read_buf = <<>>, ended[c], Moved(c, f, piece), L!Return(piece)
  PROVE  LinesIInv'
  <1>1. PICK q \in Nat : q = Len(piece)
    BY LinesTypes
  <1>2. Len(arrived[c]) = 0 /\ Len(read_buf) = 0
    BY EmptySeq
  <1>3. f + q + 0 + 0 = Len(sent[c]) /\ \A k \in 1 .. q : piece[k] = sent[c][f + k]
    <2>1. /\ f + Len(piece) + Len(read_buf) + Len(arrived[c]) = Len(sent[c])
          /\ \A k \in 1 .. Len(piece) : piece[k] = sent[c][f + k]
      BY ONLY L!LineConstants, LinesIInv, c \in Descriptors, call = c, f = L!Consumed(c), ComesNext
    <2>2. QED
      BY ONLY <1>1, <1>2, <2>1, Zenon
  <1>4. f + q = Len(sent[c])
    BY <1>3
  <1>5. \A m \in 1 .. q - 1 : ~CutsAt(c, f, m)
    <2>1. \A m \in 1 .. q : ~CutsAt(c, f, m)
      BY <1>1, NotCut
    <2>2. \A m \in 1 .. q - 1 : m \in 1 .. q
      BY ONLY q \in Nat
    <2>3. QED
      BY ONLY <2>1, <2>2
  <1>6. f + q <= Len(sent[c])
    BY ONLY <1>4, f \in Nat, q \in Nat
  <1>7. TakenAt(c, f, piece)
    BY <1>1, <1>3, <1>4, <1>5, <1>6 DEF TakenAt
  <1>8. piece \in Seq(L!Char)
    BY LinesTypes
  <1>9. QED
    BY <1>7, <1>8, Returns

LEMMA ReadlineEndsKeeps == ASSUME L!LineConstants, LinesIInv, L!ReadlineEnds \/ L!ReadEnd PROVE LinesIInv'
  <1>1. /\ call # "none" /\ arrived[call] = <<>> /\ ended[call] /\ L!Return(piece)
        /\ UNCHANGED <<reader, sent, arrived, ended, read_buf>>
    BY DEF L!ReadlineEnds, L!ReadEnd
  <1>2. read_buf = <<>>
    BY DEF L!ReadlineEnds, L!ReadEnd, LinesIInv, InPiece
  <1>3. PICK c \in Descriptors : c = call
    BY <1>1 DEF LinesIInv, L!TypeOK
  <1>4. PICK f \in Nat : f = L!Consumed(c)
    BY ConsumedIs
  <1>5. /\ f + Len(piece) + Len(read_buf) + Len(arrived[c]) = Len(sent[c])
        /\ \A k \in 1 .. Len(read_buf) : read_buf[k] = sent[c][f + Len(piece) + k]
        /\ \A k \in 1 .. Len(arrived[c]) : arrived[c][k] = sent[c][f + Len(piece) + Len(read_buf) + k]
        /\ \A k \in 1 .. Len(piece) : piece[k] = sent[c][f + k]
    <2>1. call = c
      BY <1>3
    <2>2. QED
      BY <1>4, <2>1, ComesNext
  <1>6. /\ arrived \in [Descriptors -> Seq(L!Char)] /\ read_buf \in Seq(L!Char) /\ Len(read_buf) <= BufSize
    BY DEF LinesIInv, L!TypeOK
  <1>7. Moved(c, f, piece)
    BY <1>1, <1>2, <1>5, <1>6 DEF Moved
  <1>8. QED
    BY <1>1, <1>2, <1>3, <1>4, <1>7, EndsKeep

(* my_read() gives the next character of read_buf. *)
LEMMA my_readMoves ==
  ASSUME L!LineConstants, LinesIInv, NEW c \in Descriptors, call = c, NEW f \in Nat, f = L!Consumed(c),
         L!my_read, NEW h \in L!Char, h = Head(read_buf), NEW p \in Seq(L!Char), p = Append(piece, h)
  PROVE  Moved(c, f, p) /\ Len(p) = Len(piece) + 1 /\ p[Len(p)] = h /\ sent[c][f + Len(p)] = h
  <1>1. reader = "Readline" /\ read_buf # <<>> /\ read_buf' = Tail(read_buf) /\ UNCHANGED <<reader, sent, arrived, ended>>
    BY DEF L!my_read
  <1>2. read_buf \in Seq(L!Char) /\ piece \in Seq(L!Char) /\ Len(piece) \in Nat /\ Len(read_buf) \in Nat
    BY LinesTypes
  <1>3. /\ Len(read_buf) \in Nat \ {0} /\ h = read_buf[1]
        /\ read_buf' \in Seq(L!Char) /\ Len(read_buf') = Len(read_buf) - 1
        /\ \A k \in 1 .. Len(read_buf) - 1 : read_buf'[k] = read_buf[k + 1]
    <2>1. Len(read_buf) # 0
      BY <1>1, <1>2, EmptySeq
    <2>2. /\ Head(read_buf) = read_buf[1] /\ Tail(read_buf) \in Seq(L!Char)
          /\ Len(Tail(read_buf)) = Len(read_buf) - 1
          /\ \A k \in 1 .. Len(read_buf) - 1 : Tail(read_buf)[k] = read_buf[k + 1]
      BY ONLY <1>1, <1>2, <2>1, HeadTailProperties
    <2>3. QED
      BY <1>1, <1>2, <2>1, <2>2
  <1>4. /\ Len(p) = Len(piece) + 1 /\ p[Len(piece) + 1] = h
        /\ \A k \in 1 .. Len(piece) : p[k] = piece[k]
    BY ONLY <1>2, h \in L!Char, p = Append(piece, h), AppendProperties
  <1>5. PICK q \in Nat, b \in Nat, m \in Nat, r \in Nat :
           q = Len(piece) /\ b = Len(read_buf) /\ m = Len(arrived[c]) /\ r = Len(read_buf')
    <2>1. Len(arrived[c]) \in Nat
      BY LinesTypes
    <2>2. Len(read_buf') \in Nat
      BY <1>3, LenProperties
    <2>3. QED
      BY ONLY <1>2, <2>1, <2>2
  <1>6. b \in Nat \ {0} /\ r = b - 1 /\ b = r + 1
    <2>1. b # 0 /\ r = b - 1
      BY ONLY <1>3, <1>5
    <2>2. QED
      BY ONLY <2>1, b \in Nat
  <1>7. /\ f + q + b + m = Len(sent[c])
        /\ \A k \in 1 .. b : read_buf[k] = sent[c][f + q + k]
        /\ \A k \in 1 .. m : arrived[c][k] = sent[c][f + q + b + k]
        /\ \A k \in 1 .. q : piece[k] = sent[c][f + k]
    <2>1. /\ f + Len(piece) + Len(read_buf) + Len(arrived[c]) = Len(sent[c])
          /\ \A k \in 1 .. Len(read_buf) : read_buf[k] = sent[c][f + Len(piece) + k]
          /\ \A k \in 1 .. Len(arrived[c]) : arrived[c][k] = sent[c][f + Len(piece) + Len(read_buf) + k]
          /\ \A k \in 1 .. Len(piece) : piece[k] = sent[c][f + k]
      BY ComesNext
    <2>2. QED
      BY ONLY <1>5, <2>1, Zenon
  <1>8. PICK n \in Nat : n = q + 1
    OBVIOUS
  <1>9. Len(p) = n
    BY ONLY <1>4, <1>5, <1>8
  <1>10. f + n + r + m = Len(sent[c])
    <2>1. f + q + b + m = f + n + r + m
      BY ONLY <1>6, <1>8, f \in Nat, q \in Nat, r \in Nat, m \in Nat
    <2>2. QED
      BY ONLY <1>7, <2>1
  <1>11. sent[c][f + n] = h
    <2>1. 1 \in 1 .. b /\ f + q + 1 = f + n
      BY ONLY <1>6, <1>8, f \in Nat, q \in Nat
    <2>2. QED
      BY ONLY <1>3, <1>7, <2>1
  <1>12. \A k \in 1 .. n : p[k] = sent[c][f + k]
    <2>1. ASSUME NEW k \in 1 .. n PROVE p[k] = sent[c][f + k]
      <3>1. k = n \/ k \in 1 .. q
        BY ONLY <1>8, k \in 1 .. n, q \in Nat
      <3>2. CASE k = n
        BY ONLY <1>4, <1>5, <1>8, <1>11, <3>2
      <3>3. CASE k \in 1 .. q
        BY ONLY <1>4, <1>5, <1>7, <3>3
      <3>4. QED
        BY <3>1, <3>2, <3>3
    <2>2. QED
      BY <2>1
  <1>13. \A k \in 1 .. r : read_buf'[k] = sent[c][f + n + k]
    <2>1. ASSUME NEW k \in 1 .. r PROVE read_buf'[k] = sent[c][f + n + k]
      <3>1. k + 1 \in 1 .. b /\ f + q + (k + 1) = f + n + k
        BY ONLY <1>6, <1>8, k \in 1 .. r, f \in Nat, q \in Nat, r \in Nat
      <3>2. read_buf'[k] = read_buf[k + 1]
        BY ONLY <1>3, <1>5, k \in 1 .. r
      <3>3. QED
        BY ONLY <1>7, <3>1, <3>2
    <2>2. QED
      BY <2>1
  <1>14. \A k \in 1 .. m : arrived'[c][k] = sent[c][f + n + r + k]
    <2>1. f + n + r = f + q + b
      BY ONLY <1>6, <1>8, f \in Nat, q \in Nat, r \in Nat
    <2>2. QED
      BY ONLY <1>1, <1>7, <2>1
  <1>15. arrived' \in [Descriptors -> Seq(L!Char)] /\ Len(read_buf') <= BufSize
    <2>1. BufSize \in Nat /\ Len(read_buf) <= BufSize /\ arrived \in [Descriptors -> Seq(L!Char)]
      BY LinesTypes DEF LinesIInv, L!TypeOK
    <2>2. b <= BufSize
      BY ONLY <1>5, <2>1
    <2>3. r <= BufSize
      BY ONLY <1>6, <2>1, <2>2, r \in Nat
    <2>4. QED
      BY ONLY <1>1, <1>5, <2>1, <2>3
  <1>16. Len(arrived'[c]) = m
    BY <1>1, <1>5
  <1>17. Moved(c, f, p)
    BY <1>1, <1>3, <1>5, <1>9, <1>10, <1>12, <1>13, <1>14, <1>15, <1>16 DEF Moved
  <1>18. QED
    BY ONLY <1>4, <1>5, <1>8, <1>9, <1>11, <1>17

LEMMA my_readKeeps == ASSUME L!LineConstants, LinesIInv, L!my_read PROVE LinesIInv'
  <1>1. PICK c \in Descriptors : c = call
    BY DEF L!my_read, LinesIInv, L!TypeOK
  <1>2. PICK f \in Nat : f = L!Consumed(c)
    BY ConsumedIs
  <1>3. PICK h \in L!Char : h = Head(read_buf)
    <2>1. read_buf \in Seq(L!Char) /\ read_buf # <<>>
      BY LinesTypes DEF L!my_read
    <2>2. Head(read_buf) \in L!Char
      BY ONLY <2>1, HeadTailProperties, EmptySeq
    <2>3. QED
      BY <2>2
  <1>4. PICK p \in Seq(L!Char) : p = Append(piece, h)
    <2>1. piece \in Seq(L!Char)
      BY LinesTypes
    <2>2. Append(piece, h) \in Seq(L!Char)
      BY ONLY <2>1, h \in L!Char, AppendProperties
    <2>3. QED
      BY <2>2
  <1>5. Moved(c, f, p) /\ Len(p) = Len(piece) + 1 /\ p[Len(p)] = h /\ sent[c][f + Len(p)] = h
    <2>1. call = c
      BY <1>1
    <2>2. Moved(c, f, p) /\ Len(p) = Len(piece) + 1
      BY <1>2, <1>3, <1>4, <2>1, my_readMoves
    <2>3. p[Len(p)] = h
      BY <1>2, <1>3, <1>4, <2>1, my_readMoves
    <2>4. piece \in Seq(L!Char)
      BY LinesTypes
    <2>5. Len(p) \in 1 .. Len(p)
      BY ONLY <2>2, <2>4, LenProperties
    <2>6. sent[c][f + Len(p)] = h
      BY <2>2, <2>3, <2>5 DEF Moved
    <2>7. QED
      BY <2>2, <2>3, <2>6
  <1>6. reader = "Readline"
    BY DEF L!my_read
  <1>7. CASE h = "LF" \/ Len(p) = MaxLen - 1
    <2>1. L!Return(p)
      BY <1>3, <1>4, <1>7 DEF L!my_read
    <2>2. CutsAt(c, f, Len(p))
      BY <1>5, <1>6, <1>7 DEF CutsAt
    <2>3. call = c
      BY <1>1
    <2>4. TakenAt(c, f, p)
      BY <1>2, <1>5, <2>2, <2>3, OneMore
    <2>5. QED
      BY <1>2, <1>5, <2>1, <2>3, <2>4, Returns
  <1>8. CASE ~(h = "LF" \/ Len(p) = MaxLen - 1)
    <2>1. piece' = p /\ UNCHANGED <<call, pieces>>
      BY <1>3, <1>4, <1>8 DEF L!my_read
    <2>2. Unended(p)
      <3>1. piece \in Seq(L!Char) /\ Len(piece) \in Nat /\ MaxLen \in Nat
        BY LinesTypes
      <3>2. /\ Len(p) = Len(piece) + 1 /\ p[Len(piece) + 1] = h
            /\ \A k \in 1 .. Len(piece) : p[k] = piece[k]
        BY ONLY <1>4, <3>1, h \in L!Char, AppendProperties
      <3>3. Len(piece) < MaxLen - 1 /\ \A k \in 1 .. Len(piece) : piece[k] # "LF"
        BY <1>6 DEF LinesIInv, InPiece
      <3>4. Len(p) < MaxLen - 1
        BY ONLY <1>8, <3>1, <3>2, <3>3
      <3>5. \A k \in 1 .. Len(p) : p[k] # "LF"
        BY ONLY <1>8, <3>1, <3>2, <3>3
      <3>6. QED
        BY <1>6, <3>4, <3>5 DEF Unended
    <2>3. QED
      BY <1>1, <1>2, <1>5, <2>1, <2>2, CallGoesOn
  <1>9. QED
    BY <1>7, <1>8

(* recv() gives get_line() one character. *)
LEMMA GetMoves ==
  ASSUME L!LineConstants, LinesIInv, NEW c \in Descriptors, call = c, NEW f \in Nat, f = L!Consumed(c),
         L!Recv(1), NEW h \in L!Char, h = arrived[c][1], NEW p \in Seq(L!Char), p = Append(piece, h)
  PROVE  Moved(c, f, p) /\ Len(p) = Len(piece) + 1 /\ sent[c][f + Len(p)] = h
  <1>1. /\ reader = "get_line" /\ 1 <= Len(arrived[c])
        /\ arrived' = [arrived EXCEPT ![c] = SubSeq(@, 1 + 1, Len(@))]
        /\ UNCHANGED <<reader, sent, ended, read_buf>>
    BY DEF L!Recv
  <1>2. piece \in Seq(L!Char) /\ Len(piece) \in Nat /\ Len(arrived[c]) \in Nat
    BY LinesTypes
  <1>3. /\ Len(p) = Len(piece) + 1 /\ p[Len(piece) + 1] = h
        /\ \A k \in 1 .. Len(piece) : p[k] = piece[k]
    BY ONLY <1>2, h \in L!Char, p = Append(piece, h), AppendProperties
  <1>4. \A k \in 1 .. 1 : p[Len(piece) + k] = arrived[c][k]
    BY ONLY <1>2, <1>3, h = arrived[c][1]
  <1>5. reader # "Readline" /\ 1 \in Nat
    BY <1>1
  <1>6. Moved(c, f, p)
    BY <1>1, <1>3, <1>4, <1>5, RecvMoves
  <1>7. Len(p) \in 1 .. Len(p)
    BY ONLY <1>2, <1>3
  <1>8. p[Len(p)] = sent[c][f + Len(p)]
    BY <1>6, <1>7 DEF Moved
  <1>9. p[Len(p)] = h
    BY ONLY <1>3
  <1>10. QED
    BY ONLY <1>3, <1>6, <1>8, <1>9

LEMMA GetCharKeeps == ASSUME L!LineConstants, LinesIInv, L!GetChar PROVE LinesIInv'
  <1>1. PICK c \in Descriptors : c = call
    BY DEF L!GetChar, L!Recv, LinesIInv, L!TypeOK
  <1>2. PICK f \in Nat : f = L!Consumed(c)
    BY ConsumedIs
  <1>3. /\ "a" \in L!Char /\ call = c /\ "a" = arrived[c][1]
        /\ L!Recv(1) /\ reader = "get_line"
        /\ piece \in Seq(L!Char) /\ Len(piece) \in Nat
    BY <1>1, LinesTypes DEF L!GetChar, L!Char, L!Recv
  <1>4. PICK h \in L!Char : h = "a"
    BY <1>3
  <1>5. PICK p \in Seq(L!Char) : p = Append(piece, h)
    <2>1. Append(piece, h) \in Seq(L!Char)
      BY ONLY <1>3, h \in L!Char, AppendProperties
    <2>2. QED
      BY <2>1
  <1>6. Moved(c, f, p) /\ Len(p) = Len(piece) + 1
    <2>1. h = arrived[c][1] /\ call = c
      BY <1>3, <1>4
    <2>2. QED
      BY <1>2, <1>3, <1>5, <2>1, GetMoves
  <1>7. piece' = p /\ UNCHANGED <<call, pieces>> /\ reader = "get_line"
    BY <1>4, <1>5 DEF L!GetChar, L!Recv
  <1>8. Unended(p)
    <2>1. p[Len(piece) + 1] = "a" /\ \A k \in 1 .. Len(piece) : p[k] = piece[k]
      BY ONLY <1>3, <1>4, <1>5, AppendProperties
    <2>2. \A k \in 1 .. Len(piece) : piece[k] = "a"
      BY <1>7 DEF LinesIInv, InPiece
    <2>3. \A k \in 1 .. Len(p) : p[k] = "a"
      BY ONLY <1>3, <1>6, <2>1, <2>2
    <2>4. QED
      BY <1>7, <2>3 DEF Unended
  <1>9. QED
    BY <1>2, <1>3, <1>6, <1>7, <1>8, CallGoesOn

LEMMA GetLFKeeps == ASSUME L!LineConstants, LinesIInv, L!GetLF PROVE LinesIInv'
  <1>1. PICK c \in Descriptors : c = call
    BY DEF L!GetLF, L!Recv, LinesIInv, L!TypeOK
  <1>2. PICK f \in Nat : f = L!Consumed(c)
    BY ConsumedIs
  <1>3. /\ "LF" \in L!Char /\ call = c /\ "LF" = arrived[c][1]
        /\ L!Recv(1) /\ reader = "get_line"
        /\ piece \in Seq(L!Char) /\ reader = "get_line"
    BY <1>1, LinesTypes DEF L!GetLF, L!Char, L!Recv
  <1>4. PICK h \in L!Char : h = "LF"
    BY <1>3
  <1>5. PICK p \in Seq(L!Char) : p = Append(piece, h)
    <2>1. Append(piece, h) \in Seq(L!Char)
      BY ONLY <1>3, h \in L!Char, AppendProperties
    <2>2. QED
      BY <2>1
  <1>6. Moved(c, f, p) /\ Len(p) = Len(piece) + 1 /\ sent[c][f + Len(p)] = h
    <2>1. h = arrived[c][1] /\ call = c
      BY <1>3, <1>4
    <2>2. Moved(c, f, p) /\ Len(p) = Len(piece) + 1
      BY <1>2, <1>3, <1>5, <2>1, GetMoves
    <2>3. sent[c][f + Len(p)] = h
      BY <1>2, <1>3, <1>5, <2>1, GetMoves
    <2>4. QED
      BY <2>2, <2>3
  <1>7. L!Return(p)
    BY <1>4, <1>5 DEF L!GetLF
  <1>8. CutsAt(c, f, Len(p))
    BY <1>3, <1>4, <1>6 DEF CutsAt
  <1>9. TakenAt(c, f, p)
    BY <1>2, <1>3, <1>6, <1>8, OneMore
  <1>10. QED
    BY <1>2, <1>3, <1>6, <1>7, <1>9, Returns

LEMMA GetEndKeeps == ASSUME L!LineConstants, LinesIInv, L!GetEnd PROVE LinesIInv'
  <1>1. PICK c \in Descriptors : c = call
    BY DEF L!GetEnd, L!Recv, LinesIInv, L!TypeOK
  <1>2. PICK f \in Nat : f = L!Consumed(c)
    BY ConsumedIs
  <1>3. /\ call = c /\ reader = "get_line" /\ 0 <= Len(arrived[c])
        /\ arrived' = [arrived EXCEPT ![c] = SubSeq(@, 0 + 1, Len(@))]
        /\ UNCHANGED <<reader, sent, ended, read_buf>>
        /\ arrived[c] = <<>> /\ ended[c] /\ L!Return(piece)
    BY <1>1 DEF L!GetEnd, L!Recv
  <1>4. piece \in Seq(L!Char) /\ Len(piece) \in Nat /\ 0 \in Nat
    BY LinesTypes
  <1>5. Len(piece) = Len(piece) + 0 /\ reader # "Readline" /\ \A k \in 1 .. 0 : FALSE
    BY ONLY <1>3, <1>4
  <1>6. Moved(c, f, piece)
    <2>1. \A k \in 1 .. 0 : piece[Len(piece) + k] = arrived[c][k]
      BY ONLY <1>5
    <2>2. QED
      BY <1>2, <1>3, <1>4, <1>5, <2>1, RecvMoves
  <1>7. read_buf = <<>>
    BY <1>3 DEF LinesIInv, InPiece
  <1>8. QED
    BY <1>2, <1>3, <1>6, <1>7, EndsKeep

(* The characters that get_line() and Readn() find are those that follow.  *)
LEMMA NextArrived ==
  ASSUME L!LineConstants, LinesIInv, NEW c \in Descriptors, call = c, NEW f \in Nat, f = L!Consumed(c),
         reader # "Readline"
  PROVE  /\ f + Len(piece) + Len(arrived[c]) = Len(sent[c])
         /\ \A k \in 1 .. Len(arrived[c]) : arrived[c][k] = sent[c][f + Len(piece) + k]
  <1>1. read_buf = <<>>
    BY DEF LinesIInv, InPiece
  <1>2. Len(read_buf) = 0
    BY <1>1
  <1>3. /\ f + Len(piece) + Len(read_buf) + Len(arrived[c]) = Len(sent[c])
        /\ \A k \in 1 .. Len(arrived[c]) : arrived[c][k] = sent[c][f + Len(piece) + Len(read_buf) + k]
    BY ComesNext
  <1>4. PICK q \in Nat : q = Len(piece)
    BY LinesTypes
  <1>5. f + q + 0 = f + q
    OBVIOUS
  <1>6. f + Len(piece) + Len(read_buf) = f + Len(piece)
    BY ONLY <1>2, <1>4, <1>5, Zenon
  <1>7. QED
    BY ONLY <1>3, <1>6, Zenon

(* A CR that LF does not follow. *)
LEMMA GetCRAlone ==
  ASSUME L!LineConstants, LinesIInv, L!Recv(1), arrived[call][1] = "CR",
         IF Len(arrived[call]) = 1 THEN ended[call] ELSE arrived[call][2] # "LF",
         L!Return(Append(piece, "CR"))
  PROVE  LinesIInv'
  <1>1. PICK c \in Descriptors : c = call
    BY DEF L!Recv, LinesIInv, L!TypeOK
  <1>2. PICK f \in Nat : f = L!Consumed(c)
    BY ConsumedIs
  <1>3. /\ "CR" \in L!Char /\ call = c /\ "CR" = arrived[c][1] /\ piece \in Seq(L!Char) /\ reader = "get_line"
        /\ 1 <= Len(arrived[c])
    BY <1>1, LinesTypes DEF L!Char, L!Recv
  <1>4. PICK h \in L!Char : h = "CR"
    BY <1>3
  <1>5. PICK p \in Seq(L!Char) : p = Append(piece, h)
    <2>1. Append(piece, h) \in Seq(L!Char)
      BY ONLY <1>3, h \in L!Char, AppendProperties
    <2>2. QED
      BY <2>1
  <1>6. Moved(c, f, p) /\ Len(p) = Len(piece) + 1 /\ sent[c][f + Len(p)] = h
    <2>1. h = arrived[c][1] /\ call = c
      BY <1>3, <1>4
    <2>2. Moved(c, f, p)
      BY <1>2, <1>3, <1>5, <2>1, GetMoves
    <2>3. Len(p) = Len(piece) + 1
      BY ONLY <1>3, <1>5, AppendProperties
    <2>4. sent[c][f + Len(p)] = h
      <3>1. Len(p) \in 1 .. Len(p) /\ p[Len(p)] = h
        BY ONLY <1>3, <1>5, h \in L!Char, AppendProperties, LenProperties
      <3>2. QED
        BY <2>2, <3>1 DEF Moved
    <2>5. QED
      BY <2>2, <2>3, <2>4
  <1>7. L!Return(p)
    BY <1>4, <1>5
  <1>8. PICK q \in Nat, m \in Nat : q = Len(piece) /\ m = Len(arrived[c])
    <2>1. Len(piece) \in Nat /\ Len(arrived[c]) \in Nat
      BY LinesTypes
    <2>2. QED
      BY ONLY <2>1
  <1>9. f + q + m = Len(sent[c]) /\ \A k \in 1 .. m : arrived[c][k] = sent[c][f + q + k]
    <2>1. reader # "Readline"
      BY <1>3
    <2>2. /\ f + Len(piece) + Len(arrived[c]) = Len(sent[c])
          /\ \A k \in 1 .. Len(arrived[c]) : arrived[c][k] = sent[c][f + Len(piece) + k]
      BY <1>2, <1>3, <2>1, NextArrived
    <2>3. QED
      BY ONLY <1>8, <2>2, Zenon
  <1>10. PICK n \in Nat : n = q + 1
    OBVIOUS
  <1>11. Len(p) = n
    BY ONLY <1>6, <1>8, <1>10
  <1>12. CutsAt(c, f, n) \/ (ended[c] /\ f + n = Len(sent[c]))
    <2>1. CASE m = 1
      <3>1. f + n = f + q + m
        BY ONLY <1>10, <2>1, f \in Nat, q \in Nat
      <3>2. ended[c]
        BY <1>1, <1>8, <2>1
      <3>3. QED
        BY <1>9, <3>1, <3>2
    <2>2. CASE m # 1
      <3>1. 1 <= m
        BY <1>3, <1>8
      <3>2. 2 \in 1 .. m /\ f + n + 1 = f + q + 2 /\ f + n < f + q + m
        BY ONLY <1>10, <2>2, <3>1, f \in Nat, q \in Nat, m \in Nat
      <3>3. arrived[c][2] = sent[c][f + n + 1] /\ f + n < Len(sent[c])
        BY ONLY <1>9, <3>2
      <3>4. arrived[c][2] # "LF"
        BY <1>1, <1>8, <2>2
      <3>5. sent[c][f + n] = "CR"
        BY ONLY <1>4, <1>6, <1>11
      <3>6. QED
        BY <1>3, <3>3, <3>4, <3>5 DEF CutsAt
    <2>3. QED
      BY <2>1, <2>2
  <1>13. CutsAt(c, f, Len(p)) \/ (ended[c] /\ f + Len(p) = Len(sent[c]))
    BY ONLY <1>11, <1>12
  <1>14. TakenAt(c, f, p)
    BY <1>2, <1>3, <1>6, <1>13, OneMore
  <1>15. QED
    BY <1>2, <1>3, <1>6, <1>7, <1>14, Returns

(* CR and LF: one end of a line. *)
LEMMA GetCRLF ==
  ASSUME L!LineConstants, LinesIInv, L!Recv(2), SubSeq(arrived[call], 1, 2) = <<"CR", "LF">>,
         L!Return(piece \o <<"CR", "LF">>)
  PROVE  LinesIInv'
  <1>1. PICK c \in Descriptors : c = call
    BY DEF L!Recv, LinesIInv, L!TypeOK
  <1>2. PICK f \in Nat : f = L!Consumed(c)
    BY ConsumedIs
  <1>3. /\ call = c /\ reader = "get_line" /\ reader # "Readline" /\ 2 \in Nat /\ 2 <= Len(arrived[c])
        /\ arrived' = [arrived EXCEPT ![c] = SubSeq(@, 2 + 1, Len(@))]
        /\ UNCHANGED <<reader, sent, ended, read_buf>>
    BY <1>1 DEF L!Recv
  <1>4. PICK e \in Seq(L!Char) : e = <<"CR", "LF">>
    <2>1. "CR" \in L!Char /\ "LF" \in L!Char
      BY DEF L!Char
    <2>2. <<"CR", "LF">> \in Seq(L!Char)
      BY ONLY <2>1
    <2>3. QED
      BY <2>2
  <1>5. Len(e) = 2 /\ e[1] = "CR" /\ e[2] = "LF"
    BY ONLY <1>4
  <1>6. PICK a \in Seq(L!Char) : a = arrived[c]
    BY LinesTypes
  <1>7. PICK q \in Nat : q = Len(piece)
    BY LinesTypes
  <1>8. a[1] = "CR" /\ a[2] = "LF"
    <2>1. 2 = 0 + 2 /\ 2 <= Len(a) /\ 0 \in Nat /\ 2 \in Nat
      BY <1>3, <1>6
    <2>2. \A k \in 1 .. 2 : SubSeq(a, 0 + 1, 2)[k] = a[0 + k]
      BY ONLY <2>1, a \in Seq(L!Char), SliceIs
    <2>3. SubSeq(a, 0 + 1, 2) = e
      BY <1>1, <1>4, <1>6
    <2>4. \A k \in 1 .. 2 : e[k] = a[k]
      BY ONLY <2>2, <2>3
    <2>5. QED
      BY ONLY <1>5, <2>4
  <1>9. PICK p \in Seq(L!Char) : p = piece \o e
    <2>1. piece \in Seq(L!Char)
      BY LinesTypes
    <2>2. piece \o e \in Seq(L!Char)
      BY ONLY <2>1, e \in Seq(L!Char), ConcatProperties
    <2>3. QED
      BY <2>2
  <1>10. /\ Len(p) = q + 2 /\ p[q + 1] = "CR" /\ p[q + 2] = "LF"
         /\ \A k \in 1 .. q : p[k] = piece[k]
    <2>1. piece \in Seq(L!Char)
      BY LinesTypes
    <2>2. Len(p) = q + 2 /\ \A k \in 1 .. q + 2 : p[k] = IF k <= q THEN piece[k] ELSE e[k - q]
      <3>1. /\ Len(p) = Len(piece) + Len(e)
            /\ \A k \in 1 .. Len(piece) + Len(e) : p[k] = IF k <= Len(piece) THEN piece[k] ELSE e[k - Len(piece)]
        BY ONLY <1>9, <2>1, e \in Seq(L!Char), ConcatProperties
      <3>2. QED
        BY ONLY <1>5, <1>7, <3>1
    <2>3. /\ q + 1 \in 1 .. q + 2 /\ q + 2 \in 1 .. q + 2 /\ q + 1 - q = 1 /\ q + 2 - q = 2
          /\ ~(q + 1 <= q) /\ ~(q + 2 <= q)
      BY ONLY q \in Nat
    <2>4. p[q + 1] = e[1] /\ p[q + 2] = e[2]
      BY ONLY <2>2, <2>3
    <2>5. \A k \in 1 .. q : p[k] = piece[k]
      BY ONLY <2>2, q \in Nat
    <2>6. QED
      BY ONLY <1>5, <2>2, <2>4, <2>5
  <1>11. Moved(c, f, p)
    <2>1. Len(p) = Len(piece) + 2 /\ \A k \in 1 .. Len(piece) : p[k] = piece[k]
      BY ONLY <1>7, <1>10
    <2>2. \A k \in 1 .. 2 : p[Len(piece) + k] = arrived[c][k]
      BY ONLY <1>6, <1>7, <1>8, <1>10
    <2>3. QED
      BY <1>2, <1>3, <2>1, <2>2, RecvMoves
  <1>12. \A k \in 1 .. q + 2 : p[k] = sent[c][f + k]
    BY <1>10, <1>11 DEF Moved
  <1>13. sent[c][f + (q + 1)] = "CR" /\ sent[c][f + (q + 2)] = "LF"
    BY ONLY <1>10, <1>12, q \in Nat
  <1>14. \A m \in 1 .. q + 2 - 1 : ~CutsAt(c, f, m)
    <2>1. \A m \in 1 .. q : ~CutsAt(c, f, m)
      <3>1. call = c
        BY <1>3
      <3>2. \A m \in 1 .. Len(piece) : ~CutsAt(c, f, m)
        BY <1>2, <3>1, NotCut
      <3>3. QED
        BY ONLY <1>7, <3>2
    <2>2. f + (q + 1) + 1 = f + (q + 2)
      BY ONLY f \in Nat, q \in Nat
    <2>3. ~CutsAt(c, f, q + 1)
      BY ONLY <1>3, <1>13, <2>2 DEF CutsAt
    <2>4. \A m \in 1 .. q + 2 - 1 : m \in 1 .. q \/ m = q + 1
      BY ONLY q \in Nat
    <2>5. QED
      BY ONLY <2>1, <2>3, <2>4
  <1>15. TakenAt(c, f, p)
    <2>1. CutsAt(c, f, q + 2)
      BY ONLY <1>3, <1>13 DEF CutsAt
    <2>2. f + (q + 2) <= Len(sent[c])
      BY <1>10, <1>11, MovedWithin
    <2>3. PICK n \in Nat : n = q + 2
      OBVIOUS
    <2>4. n > 0
      BY <2>3
    <2>5. Len(p) = n /\ CutsAt(c, f, n) /\ f + n <= Len(sent[c])
      BY ONLY <1>10, <2>1, <2>2, <2>3
    <2>6. (\A k \in 1 .. n : p[k] = sent[c][f + k]) /\ \A m \in 1 .. n - 1 : ~CutsAt(c, f, m)
      BY ONLY <1>12, <1>14, <2>3
    <2>7. QED
      BY ONLY <2>4, <2>5, <2>6 DEF TakenAt
  <1>16. L!Return(p)
    BY <1>4, <1>9
  <1>17. QED
    BY <1>2, <1>3, <1>11, <1>15, <1>16, Returns

LEMMA get_lineKeeps == ASSUME L!LineConstants, LinesIInv, L!get_line PROVE LinesIInv'
  <1>1. CASE L!GetChar
    BY <1>1, GetCharKeeps
  <1>2. CASE L!GetLF
    BY <1>2, GetLFKeeps
  <1>3. CASE L!GetCR
    BY <1>3, GetCRLF, GetCRAlone DEF L!GetCR
  <1>4. CASE L!GetEnd
    BY <1>4, GetEndKeeps
  <1>5. QED
    BY <1>1, <1>2, <1>3, <1>4 DEF L!get_line

LEMMA ReadSomeKeeps == ASSUME L!LineConstants, LinesIInv, L!ReadSome PROVE LinesIInv'
  <1>1. PICK c \in Descriptors : c = call
    BY DEF L!ReadSome, LinesIInv, L!TypeOK
  <1>2. PICK f \in Nat : f = L!Consumed(c)
    BY ConsumedIs
  <1>3. PICK q \in Nat : q = Len(piece)
    BY LinesTypes
  <1>4. MaxLen \in Nat
    BY LinesTypes
  <1>5. PICK k \in 1 .. MaxLen - q :
           /\ k <= Len(arrived[c])
           /\ arrived' = [arrived EXCEPT ![c] = SubSeq(@, k + 1, Len(@))]
           /\ LET t == piece \o SubSeq(arrived[c], 1, k)
              IN  IF Len(t) = MaxLen THEN L!Return(t) ELSE piece' = t /\ UNCHANGED <<call, pieces>>
    BY <1>1, <1>3 DEF L!ReadSome
  <1>6. k \in Nat /\ q + k <= MaxLen
    BY <1>4
  <1>7. call = c /\ reader = "Readn" /\ reader # "Readline" /\ UNCHANGED <<reader, sent, ended, read_buf>>
    BY <1>1 DEF L!ReadSome
  <1>8. PICK a \in Seq(L!Char) : a = arrived[c]
    BY LinesTypes
  <1>9. PICK e : e = SubSeq(a, 1, k)
    OBVIOUS
  <1>10. e \in Seq(L!Char) /\ Len(e) = k /\ \A j \in 1 .. k : e[j] = a[j]
    <2>1. k = 0 + k /\ k <= Len(a) /\ 0 \in Nat /\ k \in Nat
      BY <1>5, <1>6, <1>8
    <2>2. /\ SubSeq(a, 0 + 1, k) \in Seq(L!Char) /\ Len(SubSeq(a, 0 + 1, k)) = k
          /\ \A j \in 1 .. k : SubSeq(a, 0 + 1, k)[j] = a[0 + j]
      BY ONLY <2>1, a \in Seq(L!Char), SliceIs
    <2>3. QED
      BY ONLY <1>9, <2>2
  <1>11. PICK p \in Seq(L!Char) : p = piece \o e
    <2>1. piece \in Seq(L!Char)
      BY LinesTypes
    <2>2. piece \o e \in Seq(L!Char)
      BY ONLY <1>10, <2>1, ConcatProperties
    <2>3. QED
      BY <2>2
  <1>12. /\ Len(p) = q + k /\ \A j \in 1 .. q : p[j] = piece[j]
         /\ \A j \in 1 .. k : p[q + j] = a[j]
    <2>1. piece \in Seq(L!Char)
      BY LinesTypes
    <2>2. Len(p) = q + k /\ \A j \in 1 .. q + k : p[j] = IF j <= q THEN piece[j] ELSE e[j - q]
      <3>1. /\ Len(p) = Len(piece) + Len(e)
            /\ \A j \in 1 .. Len(piece) + Len(e) : p[j] = IF j <= Len(piece) THEN piece[j] ELSE e[j - Len(piece)]
        BY ONLY <1>10, <1>11, <2>1, ConcatProperties
      <3>2. QED
        BY ONLY <1>3, <1>10, <3>1
    <2>3. \A j \in 1 .. q : p[j] = piece[j]
      BY ONLY <1>6, <2>2, q \in Nat
    <2>4. ASSUME NEW j \in 1 .. k PROVE p[q + j] = a[j]
      <3>1. q + j \in 1 .. q + k /\ ~(q + j <= q) /\ q + j - q = j
        BY ONLY <1>6, q \in Nat, j \in 1 .. k
      <3>2. QED
        BY ONLY <1>10, <2>2, <3>1, j \in 1 .. k
    <2>5. QED
      BY <2>2, <2>3, <2>4
  <1>13. Moved(c, f, p)
    <2>1. Len(p) = Len(piece) + k /\ \A j \in 1 .. Len(piece) : p[j] = piece[j]
      BY ONLY <1>3, <1>12
    <2>2. \A j \in 1 .. k : p[Len(piece) + j] = arrived[c][j]
      BY ONLY <1>3, <1>8, <1>12
    <2>3. QED
      BY <1>2, <1>5, <1>6, <1>7, <2>1, <2>2, RecvMoves
  <1>14. IF Len(p) = MaxLen THEN L!Return(p) ELSE piece' = p /\ UNCHANGED <<call, pieces>>
    BY <1>5, <1>8, <1>9, <1>11
  <1>15. CASE Len(p) = MaxLen
    <2>1. \A m \in 1 .. MaxLen - 1 : ~CutsAt(c, f, m)
      BY <1>4, <1>7 DEF CutsAt
    <2>2. CutsAt(c, f, MaxLen) /\ MaxLen > 0
      BY <1>7, LinesTypes DEF CutsAt
    <2>3. f + Len(p) <= Len(sent[c]) /\ \A j \in 1 .. Len(p) : p[j] = sent[c][f + j]
      BY <1>13, MovedWithin DEF Moved
    <2>4. TakenAt(c, f, p)
      BY ONLY <1>15, <2>1, <2>2, <2>3 DEF TakenAt
    <2>5. QED
      BY <1>2, <1>7, <1>13, <1>14, <1>15, <2>4, Returns
  <1>16. CASE Len(p) # MaxLen
    <2>1. Len(p) < MaxLen
      BY ONLY <1>4, <1>6, <1>12, <1>16, q \in Nat
    <2>2. Unended(p)
      BY <1>7, <2>1 DEF Unended
    <2>3. QED
      BY <1>2, <1>7, <1>13, <1>14, <1>16, <2>2, CallGoesOn
  <1>17. QED
    BY <1>15, <1>16

------------------------------------------------------------------------------
(* LineReader: the invariant, and what follows from it *)

LEMMA LinesStep ==
  ASSUME L!LineConstants, Drains, LinesIInv, L!Next \/ UNCHANGED ofLines
  PROVE  LinesIInv'
  <1>1. ASSUME NEW d \in Descriptors, L!Call(d) PROVE LinesIInv'
    BY <1>1, CallKeeps
  <1>2. ASSUME NEW d \in Descriptors, L!End(d) PROVE LinesIInv'
    BY <1>2, EndKeeps
  <1>3. ASSUME NEW d \in Descriptors, NEW c \in L!Char, L!Send(d, c) PROVE LinesIInv'
    BY <1>3, LineSendKeeps
  <1>4. CASE L!Readline
    BY <1>4, RefillKeeps, my_readKeeps, ReadlineEndsKeeps DEF L!Readline
  <1>5. CASE L!Readn
    BY <1>5, ReadSomeKeeps, ReadlineEndsKeeps DEF L!Readn
  <1>6. CASE L!get_line
    BY <1>6, get_lineKeeps
  <1>7. CASE UNCHANGED ofLines
    <2>1. ended \in [Descriptors -> BOOLEAN]
      BY DEF LinesIInv, L!TypeOK
    <2>2. QED
      BY <1>7, <2>1, LineQuiet DEF ofLines
  <1>8. QED
    BY <1>1, <1>2, <1>3, <1>4, <1>5, <1>6, <1>7 DEF L!Next

LEMMA LinesInductive == ASSUME Drains PROVE MCSpec => []LinesIInv
  <1>1. MCInit => LinesIInv
    BY AnswerAssumption, LinesInit DEF MCInit
  <1>2. LinesIInv /\ [MCNext]_allVars => LinesIInv'
    <2>1. [MCNext]_allVars => L!Next \/ UNCHANGED ofLines
      BY DEF MCNext, Early, Writing, Line, Start, allVars
    <2>2. QED
      BY <2>1, AnswerAssumption, LinesStep
  <1>3. QED
    BY <1>1, <1>2, PTL DEF MCSpec

(* What a call has consumed is the first piece of what was left of its     *)
(* stream, whatever has been sent since.                                   *)
LEMMA FirstPieceIs ==
  ASSUME L!LineConstants, LinesIInv, NEW d \in Descriptors, NEW f \in Nat, NEW t \in Seq(L!Char), TakenAt(d, f, t)
  PROVE  t = L!FirstPiece(SubSeq(sent[d], f + 1, Len(sent[d])))
  <1>1. PICK n \in Nat : n = Len(t)
    BY LenProperties
  <1>2. PICK l \in Nat : l = Len(sent[d])
    BY LinesTypes
  <1>3. PICK w \in Seq(L!Char) : w = sent[d]
    BY LinesTypes
  <1>4. /\ f + n <= l /\ \A k \in 1 .. n : t[k] = w[f + k]
        /\ \A m \in 1 .. n - 1 : ~CutsAt(d, f, m)
        /\ (n > 0 /\ CutsAt(d, f, n)) \/ (ended[d] /\ f + n = l)
    BY <1>1, <1>2, <1>3 DEF TakenAt
  <1>5. PICK z \in Nat : z = l - f
    <2>1. l - f \in Nat
      BY <1>4
    <2>2. QED
      BY <2>1
  <1>6. PICK s : s = SubSeq(w, f + 1, l)
    OBVIOUS
  <1>7. s \in Seq(L!Char) /\ Len(s) = z /\ \A k \in 1 .. z : s[k] = w[f + k]
    <2>1. l = f + z /\ l <= Len(w)
      BY <1>2, <1>3, <1>5
    <2>2. QED
      BY ONLY <1>6, <2>1, w \in Seq(L!Char), f \in Nat, z \in Nat, SliceIs
  <1>8. n <= z /\ (f + n = l => n = z)
    BY <1>4, <1>5
  <1>9. t = L!FirstPiece(s)
    <2>1. CASE s = <<>>
      <3>1. z = 0
        BY <1>7, <2>1
      <3>2. t = <<>>
        BY <1>1, <1>8, <3>1, EmptySeq
      <3>3. QED
        BY <2>1, <3>2 DEF L!FirstPiece
    <2>2. CASE s # <<>>
      <3>1. z > 0
        BY <1>7, <2>2, EmptySeq
      <3>2. n \in 1 .. z
        BY <1>4, <1>5, <1>8, <3>1
      <3>3. \A m \in 1 .. z : m < n => ~L!Ends(s, m)
        <4>1. ASSUME NEW m \in 1 .. z, m < n PROVE ~L!Ends(s, m)
          <5>1. ~CutsAt(d, f, m) /\ m + 1 \in 1 .. z /\ m # z /\ f + m < l
            BY <1>4, <1>5, <1>8, <4>1
          <5>2. s[m] = sent[d][f + m] /\ s[m + 1] = sent[d][f + m + 1]
            <6>1. f + (m + 1) = f + m + 1
              OBVIOUS
            <6>2. QED
              BY ONLY <1>3, <1>7, <5>1, <6>1, m \in 1 .. z
          <5>3. QED
            BY ONLY <1>2, <1>7, <5>1, <5>2 DEF CutsAt, L!Ends
        <4>2. QED
          BY <4>1
      <3>4. L!Ends(s, n)
        <4>1. CASE n = z
          BY <1>7, <4>1 DEF L!Ends
        <4>2. CASE n # z
          <5>1. CutsAt(d, f, n) /\ n + 1 \in 1 .. z
            BY <1>4, <1>5, <1>8, <3>2, <4>2
          <5>2. s[n] = sent[d][f + n] /\ s[n + 1] = sent[d][f + n + 1]
            <6>1. f + (n + 1) = f + n + 1
              OBVIOUS
            <6>2. QED
              BY ONLY <1>3, <1>7, <3>2, <5>1, <6>1
          <5>3. QED
            BY ONLY <5>1, <5>2 DEF CutsAt, L!Ends
        <4>3. QED
          BY <4>1, <4>2
      <3>5. PICK x : x = CHOOSE m \in 1 .. Len(s) : L!Ends(s, m) /\ \A j \in 1 .. m - 1 : ~L!Ends(s, j)
        OBVIOUS
      <3>6. x \in 1 .. z /\ L!Ends(s, x) /\ \A j \in 1 .. x - 1 : ~L!Ends(s, j)
        <4>1. \A j \in 1 .. n - 1 : j \in 1 .. z /\ j < n
          BY ONLY <3>2, n \in Nat, z \in Nat
        <4>2. \A j \in 1 .. n - 1 : ~L!Ends(s, j)
          BY ONLY <3>3, <4>1
        <4>3. \E m \in 1 .. Len(s) : L!Ends(s, m) /\ \A j \in 1 .. m - 1 : ~L!Ends(s, j)
          BY ONLY <1>7, <3>2, <3>4, <4>2
        <4>4. x \in 1 .. Len(s) /\ L!Ends(s, x) /\ \A j \in 1 .. x - 1 : ~L!Ends(s, j)
          BY ONLY <3>5, <4>3, Zenon
        <4>5. QED
          BY ONLY <1>7, <4>4
      <3>7. x = n
        <4>1. ~(x < n)
          BY ONLY <3>3, <3>6
        <4>2. ~(n < x)
          <5>1. ASSUME n < x PROVE n \in 1 .. x - 1
            BY ONLY <3>2, <3>6, <5>1, n \in Nat, z \in Nat
          <5>2. QED
            BY ONLY <3>4, <3>6, <5>1
        <4>3. QED
          BY ONLY <3>2, <3>6, <4>1, <4>2, n \in Nat, z \in Nat
      <3>8. L!FirstPiece(s) = SubSeq(s, 1, n)
        BY ONLY <2>2, <3>5, <3>7, Zenon DEF L!FirstPiece
      <3>9. SubSeq(s, 1, n) \in Seq(L!Char) /\ Len(SubSeq(s, 1, n)) = n /\ \A k \in 1 .. n : SubSeq(s, 1, n)[k] = s[k]
        <4>1. n = 0 + n /\ n <= Len(s) /\ 0 \in Nat
          BY <1>7, <1>8
        <4>2. /\ SubSeq(s, 0 + 1, n) \in Seq(L!Char) /\ Len(SubSeq(s, 0 + 1, n)) = n
              /\ \A k \in 1 .. n : SubSeq(s, 0 + 1, n)[k] = s[0 + k]
          BY ONLY <1>7, <4>1, n \in Nat, SliceIs
        <4>3. QED
          BY ONLY <4>2
      <3>10. \A k \in 1 .. n : t[k] = SubSeq(s, 1, n)[k]
        <4>1. \A k \in 1 .. n : k \in 1 .. z
          BY ONLY <1>8, n \in Nat, z \in Nat
        <4>2. QED
          BY ONLY <1>4, <1>7, <3>9, <4>1
      <3>11. t = SubSeq(s, 1, n)
        BY ONLY <1>1, <3>9, <3>10, t \in Seq(L!Char), SeqEqual
      <3>12. QED
        BY ONLY <3>8, <3>11
    <2>3. QED
      BY <2>1, <2>2
  <1>10. QED
    BY <1>2, <1>3, <1>6, <1>9

(* Whatever the sizes of the static buffer and of the calls, and however   *)
(* read() and recv() cut the streams, every call of Readline(), Readn() or *)
(* get_line() consumes the next piece of its own descriptor, if a caller   *)
(* turns to another one only when the static buffer is empty.              *)
THEOREM LinesInOrder == ASSUME Drains PROVE MCSpec => []LinesAsSent
  <1>1. ASSUME LinesIInv PROVE LinesAsSent
    <2>1. ASSUME NEW d \in Descriptors, NEW i \in DOMAIN pieces[d]
          PROVE  pieces[d][i].text = L!FirstPiece(SubSeq(sent[d], pieces[d][i].from + 1, Len(sent[d])))
      <3>1. PICK r \in Record : r = pieces[d][i]
        <4>1. pieces[d] \in Seq(Record)
          BY <1>1, AnswerAssumption, LinesTypes
        <4>2. QED
          BY ONLY <4>1, i \in DOMAIN pieces[d], ElementOfSeq, LenProperties
      <3>2. PICK f \in Nat : f = r.from
        BY DEF Record
      <3>3. PICK t \in Seq(L!Char) : t = r.text
        BY DEF Record
      <3>4. TakenAt(d, f, t)
        BY <1>1, <3>1, <3>2, <3>3 DEF LinesIInv, AllTaken
      <3>5. t = L!FirstPiece(SubSeq(sent[d], f + 1, Len(sent[d])))
        BY <1>1, <3>4, AnswerAssumption, FirstPieceIs
      <3>6. QED
        BY <3>1, <3>2, <3>3, <3>5
    <2>2. QED
      BY <2>1 DEF LinesAsSent, L!LinesAsSent
  <1>2. QED
    BY <1>1, LinesInductive, PTL

------------------------------------------------------------------------------
LEMMA OnlyOne == ASSUME NEW s, NEW str, NEW i
                 PROVE  (CHOOSE next \in {ReadOn(t, str, i) : t \in {s}} : TRUE) = ReadOn(s, str, i)
  OBVIOUS

(* The values of a function that reads str as parse_request_head() does.   *)
Reading(f, a, str, n) ==
    /\ f = [i \in 0 .. n |-> IF i = 0 THEN a ELSE CHOOSE next \in {ReadOn(s, str, i) : s \in {f[i - 1]}} : TRUE]

LEMMA ReadingIs ==
  ASSUME NEW a, NEW str, NEW n \in Nat, NEW f, Reading(f, a, str, n)
  PROVE  /\ f[0] = a
         /\ \A i \in 1 .. n : f[i] = ReadOn(f[i - 1], str, i)
  <1>1. f[0] = a
    BY DEF Reading
  <1>2. ASSUME NEW i \in 1 .. n PROVE f[i] = ReadOn(f[i - 1], str, i)
    <2>1. f[i] = CHOOSE next \in {ReadOn(s, str, i) : s \in {f[i - 1]}} : TRUE
      BY DEF Reading
    <2>2. QED
      BY <2>1, OnlyOne
  <1>3. QED
    BY <1>1, <1>2

LEMMA ReadingExists ==
  ASSUME NEW a, NEW str
  PROVE  \A n \in Nat : \E f : Reading(f, a, str, n)
  <1> DEFINE T == {n \in Nat : \E f : Reading(f, a, str, n)}
  <1>1. 0 \in T
    <2> DEFINE f == [i \in 0 .. 0 |-> a]
    <2>1. Reading(f, a, str, 0)
      BY DEF Reading
    <2>2. QED
      BY <2>1
  <1>2. ASSUME NEW n \in T PROVE n + 1 \in T
    <2>1. PICK f : Reading(f, a, str, n)
      OBVIOUS
    <2> DEFINE g == [i \in 0 .. n + 1 |-> IF i <= n THEN f[i] ELSE ReadOn(f[n], str, n + 1)]
    <2>2. n \in Nat
      OBVIOUS
    <2>3. f[0] = a /\ \A i \in 1 .. n : f[i] = ReadOn(f[i - 1], str, i)
      BY <2>1, <2>2, ReadingIs
    <2>4. /\ g[0] = a
          /\ \A i \in 1 .. n + 1 : g[i] = ReadOn(g[i - 1], str, i)
      <3>1. g[0] = a
        BY <2>2, <2>3
      <3>2. ASSUME NEW i \in 1 .. n PROVE g[i] = ReadOn(g[i - 1], str, i)
        <4>1. i \in 0 .. n + 1 /\ i - 1 \in 0 .. n + 1 /\ i <= n /\ i - 1 <= n
          BY <2>2
        <4>2. g[i] = f[i] /\ g[i - 1] = f[i - 1]
          BY <4>1
        <4>3. QED
          BY <2>3, <4>2
      <3>3. g[n + 1] = ReadOn(g[n], str, n + 1)
        BY <2>2
      <3> HIDE DEF g
      <3>4. ASSUME NEW i \in 1 .. n + 1 PROVE g[i] = ReadOn(g[i - 1], str, i)
        <4>1. CASE i = n + 1
          <5>1. i - 1 = n
            BY <4>1, <2>2
          <5>2. QED
            BY <3>3, <4>1, <5>1
        <4>2. CASE i # n + 1
          BY <4>2, <2>2, <3>2
        <4>3. QED
          BY <4>1, <4>2
      <3>5. QED
        BY <3>1, <3>4
    <2>5. g = [i \in 0 .. n + 1 |-> g[i]]
      OBVIOUS
    <2> HIDE DEF g
    <2>6. \A i \in 1 .. n + 1 : g[i] = CHOOSE next \in {ReadOn(s, str, i) : s \in {g[i - 1]}} : TRUE
      BY <2>4, OnlyOne
    <2>7. \A i \in 0 .. n + 1 :
             g[i] = IF i = 0 THEN a ELSE CHOOSE next \in {ReadOn(s, str, i) : s \in {g[i - 1]}} : TRUE
      <3> TAKE i \in 0 .. n + 1
      <3>1. CASE i = 0
        BY <3>1, <2>4
      <3>2. CASE i # 0
        <4>1. i \in 1 .. n + 1
          BY <3>2, <2>2
        <4>2. QED
          BY <4>1, <3>2, <2>6
      <3>3. QED
        BY <3>1, <3>2
    <2>9. Reading(g, a, str, n + 1)
      BY ONLY <2>5, <2>7 DEF Reading
    <2>8. QED
      BY <2>2, <2>9
  <1> HIDE DEF T
  <1>3. T = Nat
    BY <1>1, <1>2, SetInduction DEF T
  <1>4. QED
    BY <1>3 DEF T

(* parse_request_head() reads the characters one after the other. *)
LEMMA ScannedIs ==
  ASSUME NEW q, Len(q.content) \in Nat
  PROVE  \E f : /\ f[0] = Scan(q)
                /\ \A i \in 1 .. Len(q.content) : f[i] = ReadOn(f[i - 1], q.content, i)
                /\ Scanned(q) = f[Len(q.content)]
  <1> DEFINE scan == CHOOSE f : Reading(f, Scan(q), q.content, Len(q.content))
  <1>1. Reading(scan, Scan(q), q.content, Len(q.content))
    BY ReadingExists
  <1>2. Scanned(q) = scan[Len(q.content)]
    BY Zenon DEF Scanned, Reading
  <1> HIDE DEF scan
  <1>3. scan[0] = Scan(q) /\ \A i \in 1 .. Len(q.content) : scan[i] = ReadOn(scan[i - 1], q.content, i)
    <2> DEFINE a == Scan(q)
    <2> DEFINE str == q.content
    <2>1. PICK n \in Nat : n = Len(str)
      OBVIOUS
    <2>2. Reading(scan, a, str, n)
      BY <1>1, <2>1
    <2> HIDE DEF a, str
    <2>3. scan[0] = a /\ \A i \in 1 .. n : scan[i] = ReadOn(scan[i - 1], str, i)
      BY ONLY <2>2, n \in Nat, ReadingIs
    <2>4. QED
      BY <2>1, <2>3 DEF a, str
  <1>4. QED
    BY ONLY <1>2, <1>3

------------------------------------------------------------------------------
(* Sequences that are written out, and their concatenation *)

(* A line, headers and the end of a head. *)
Parts(Els, a, b, c, d, m) ==
    /\ a \in Seq(Els) /\ b \in Seq(Els) /\ c \in Seq(Els) /\ d \in Seq(Els) /\ m \in Nat
    /\ Len(a) = 3 /\ Len(b) = m /\ Len(c) = 4 /\ Len(d) = 4

LaidOut(Els, h, a, b, c, d, m) ==
    /\ h \in Seq(Els) /\ Len(h) = m + 11
    /\ h[1] = a[1] /\ h[2] = a[2] /\ h[3] = a[3]
    /\ \A i \in 1 .. m : h[3 + i] = b[i]
    /\ h[m + 4] = c[1] /\ h[m + 5] = c[2] /\ h[m + 6] = c[3] /\ h[m + 7] = c[4]
    /\ h[m + 8] = d[1] /\ h[m + 9] = d[2] /\ h[m + 10] = d[3] /\ h[m + 11] = d[4]

LEMMA Joined ==
  ASSUME NEW Els, NEW a, NEW b, NEW c, NEW d, NEW m, Parts(Els, a, b, c, d, m),
         NEW h, h = Concat(Concat(Concat(a, b), c), d)
  PROVE  LaidOut(Els, h, a, b, c, d, m)
  <1> USE DEF Parts
  <1>1. PICK ab : ab = Concat(a, b)
    OBVIOUS
  <1>2. PICK abc : abc = Concat(ab, c)
    OBVIOUS
  <1>3. ab \in Seq(Els) /\ Len(ab) = m + 3 /\ \A j \in 1 .. m + 3 : ab[j] = IF j <= 3 THEN a[j] ELSE b[j - 3]
    <2>1. /\ ab \in Seq(Els) /\ Len(ab) = Len(a) + Len(b)
          /\ \A j \in 1 .. Len(a) + Len(b) : ab[j] = IF j <= Len(a) THEN a[j] ELSE b[j - Len(a)]
      BY ONLY <1>1, Parts(Els, a, b, c, d, m), JoinIs DEF Parts
    <2>2. QED
      BY <2>1
  <1>4. abc \in Seq(Els) /\ Len(abc) = m + 7 /\ \A j \in 1 .. m + 7 : abc[j] = IF j <= m + 3 THEN ab[j] ELSE c[j - (m + 3)]
    <2>1. /\ abc \in Seq(Els) /\ Len(abc) = Len(ab) + Len(c)
          /\ \A j \in 1 .. Len(ab) + Len(c) : abc[j] = IF j <= Len(ab) THEN ab[j] ELSE c[j - Len(ab)]
      BY ONLY <1>2, <1>3, Parts(Els, a, b, c, d, m), JoinIs DEF Parts
    <2>2. QED
      BY <2>1, <1>3
  <1>5. h \in Seq(Els) /\ Len(h) = m + 11 /\ \A j \in 1 .. m + 11 : h[j] = IF j <= m + 7 THEN abc[j] ELSE d[j - (m + 7)]
    <2>0. h = Concat(abc, d) /\ abc \in Seq(Els) /\ d \in Seq(Els)
      BY <1>1, <1>2, <1>4
    <2>1. /\ h \in Seq(Els) /\ Len(h) = Len(abc) + Len(d)
          /\ \A j \in 1 .. Len(abc) + Len(d) : h[j] = IF j <= Len(abc) THEN abc[j] ELSE d[j - Len(abc)]
      BY ONLY <2>0, JoinIs
    <2>2. QED
      BY <2>1, <1>4
  <1>6. h[1] = a[1] /\ h[2] = a[2] /\ h[3] = a[3]
    <2>1. \A j \in 1 .. 3 : j \in 1 .. m + 3 /\ j \in 1 .. m + 7 /\ j \in 1 .. m + 11 /\ j <= m + 3 /\ j <= m + 7 /\ j <= 3
      OBVIOUS
    <2>2. \A j \in 1 .. 3 : h[j] = a[j]
      BY ONLY <2>1, <1>3, <1>4, <1>5
    <2>3. QED
      BY <2>2
  <1>7. ASSUME NEW i \in 1 .. m PROVE h[3 + i] = b[i]
    <2>1. (3 + i) - 3 = i
      OBVIOUS
    <2>2. QED
      BY <2>1, <1>3, <1>4, <1>5
  <1>8. h[m + 4] = c[1] /\ h[m + 5] = c[2] /\ h[m + 6] = c[3] /\ h[m + 7] = c[4]
    <2>1. ASSUME NEW i \in 1 .. 4 PROVE h[m + (3 + i)] = c[i]
      <3>1. /\ m + (3 + i) \in 1 .. m + 7 /\ m + (3 + i) \in 1 .. m + 11 /\ ~(m + (3 + i) <= m + 3)
            /\ (m + (3 + i)) - (m + 3) = i
        OBVIOUS
      <3>2. QED
        BY ONLY <3>1, <1>4, <1>5
    <2>2. h[m + (3 + 1)] = c[1] /\ h[m + (3 + 2)] = c[2] /\ h[m + (3 + 3)] = c[3] /\ h[m + (3 + 4)] = c[4]
      BY <2>1
    <2>3. QED
      BY ONLY <2>2
  <1>9. h[m + 8] = d[1] /\ h[m + 9] = d[2] /\ h[m + 10] = d[3] /\ h[m + 11] = d[4]
    BY ONLY Parts(Els, a, b, c, d, m), <1>5 DEF Parts
  <1>10. QED
    BY <1>5, <1>6, <1>7, <1>8, <1>9 DEF LaidOut

------------------------------------------------------------------------------
(* The text of a request *)

Text(r) == HeadOf(r) \o BodyOf(r)

(* Where its last header begins. *)
Shift(r) == IF Method(r) = "POST" THEN 6 ELSE 0

LEMMA RequestIs ==
  ASSUME NEW r \in Requests
  PROVE  /\ r.line \in DOMAIN Lines /\ r.line \in Char /\ r.line # CR /\ r.keep_alive \in BOOLEAN
         /\ Lines[r.line].size \in Nat
         /\ r.length \in Nat /\ r.length <= Len(Payload) /\ r.length \in DOMAIN Decimal
         /\ Decimal[r.length] \in Char
         /\ Payload \in Seq(Char) /\ Len(Payload) \in Nat
  <1>1. /\ r.line \in DOMAIN Lines /\ r.line # CR /\ r.keep_alive \in BOOLEAN
        /\ r.length \in 0 .. Len(Payload) /\ r.length \in DOMAIN Decimal
    BY HandlerAssumption
  <1>2. Payload \in Seq(STRING) /\ Len(Payload) \in Nat /\ DOMAIN Payload = 1 .. Len(Payload)
    BY HandlerAssumption, LenProperties
  <1>3. Payload \in Seq(ToSet(Payload))
    <2>1. \A i \in 1 .. Len(Payload) : Payload[i] \in ToSet(Payload)
      BY <1>2 DEF ToSet
    <2>2. QED
      BY <1>2, <2>1, Retyped
  <1>4. Payload \in Seq(Char)
    BY <1>3, RetypedUp DEF Char
  <1>5. r.line \in Char /\ Decimal[r.length] \in Char
    BY <1>1 DEF Char
  <1>6. Lines[r.line].size \in Nat
    BY <1>1, HandlerAssumption
  <1>7. QED
    BY <1>1, <1>2, <1>4, <1>5, <1>6

(* What the model itself puts into a head. *)
LEMMA Chars ==
  /\ CR \in Char /\ LF \in Char /\ Colon \in Char /\ Space \in Char
  /\ "Content-length" \in Char /\ "Connection" \in Char /\ "keep-alive" \in Char
  /\ "Host" \in Char /\ "server" \in Char
  BY DEF Char

LEMMA BodyIs ==
  ASSUME NEW r \in Requests
  PROVE  BodyOf(r) \in Seq(Char) /\ Len(BodyOf(r)) = r.length
  <1>1. Payload \in Seq(Char) /\ r.length \in 0 .. Len(Payload)
    BY RequestIs
  <1>2. QED
    BY <1>1, CutIs DEF BodyOf

LEMMA HeadIs ==
  ASSUME NEW r \in Requests
  PROVE  /\ HeadOf(r) \in Seq(Char) /\ Len(HeadOf(r)) = Shift(r) + 11
         /\ HeadOf(r)[1] = r.line /\ HeadOf(r)[2] = CR /\ HeadOf(r)[3] = LF
         /\ Method(r) = "POST" =>
              /\ HeadOf(r)[4] = "Content-length" /\ HeadOf(r)[5] = Colon /\ HeadOf(r)[6] = Space
              /\ HeadOf(r)[7] = Decimal[r.length] /\ HeadOf(r)[8] = CR /\ HeadOf(r)[9] = LF
         /\ HeadOf(r)[Shift(r) + 4] = (IF r.keep_alive THEN "Connection" ELSE "Host")
         /\ HeadOf(r)[Shift(r) + 5] = Colon /\ HeadOf(r)[Shift(r) + 6] = Space
         /\ HeadOf(r)[Shift(r) + 7] = (IF r.keep_alive THEN "keep-alive" ELSE "server")
         /\ HeadOf(r)[Shift(r) + 8] = CR /\ HeadOf(r)[Shift(r) + 9] = LF
         /\ HeadOf(r)[Shift(r) + 10] = CR /\ HeadOf(r)[Shift(r) + 11] = LF
  <1> DEFINE a == <<r.line, CR, LF>>
  <1> DEFINE b == IF Method(r) = "POST" THEN <<"Content-length", Colon, Space, Decimal[r.length], CR, LF>> ELSE <<>>
  <1> DEFINE c == IF r.keep_alive THEN <<"Connection", Colon, Space, "keep-alive">>
                                  ELSE <<"Host", Colon, Space, "server">>
  <1> DEFINE d == <<CR, LF, CR, LF>>
  <1>1. a \in Seq(Char) /\ Len(a) = 3 /\ a[1] = r.line /\ a[2] = CR /\ a[3] = LF
    <2>1. r.line \in Char /\ CR \in Char /\ LF \in Char
      BY RequestIs, Chars
    <2>2. QED
      BY ONLY <2>1, ThreeAre
  <1>2. /\ b \in Seq(Char) /\ Len(b) = Shift(r)
        /\ Method(r) = "POST" => /\ b[1] = "Content-length" /\ b[2] = Colon /\ b[3] = Space
                                /\ b[4] = Decimal[r.length] /\ b[5] = CR /\ b[6] = LF
    <2>1. /\ Decimal[r.length] \in Char /\ "Content-length" \in Char /\ Colon \in Char /\ Space \in Char
          /\ CR \in Char /\ LF \in Char
      BY RequestIs, Chars
    <2>2. CASE Method(r) = "POST"
      <3>1. b = <<"Content-length", Colon, Space, Decimal[r.length], CR, LF>> /\ Shift(r) = 6
        BY <2>2 DEF Shift
      <3> HIDE DEF b
      <3>2. QED
        BY ONLY <2>1, <3>1, SixAre
    <2>3. CASE Method(r) # "POST"
      BY <2>3 DEF Shift
    <2>4. QED
      BY <2>2, <2>3
  <1>3. /\ c \in Seq(Char) /\ Len(c) = 4
        /\ c[1] = (IF r.keep_alive THEN "Connection" ELSE "Host") /\ c[2] = Colon /\ c[3] = Space
        /\ c[4] = (IF r.keep_alive THEN "keep-alive" ELSE "server")
    <2>1. PICK x \in Char : x = IF r.keep_alive THEN "Connection" ELSE "Host"
      BY Chars
    <2>2. PICK y \in Char : y = IF r.keep_alive THEN "keep-alive" ELSE "server"
      BY Chars
    <2>3. c = <<x, Colon, Space, y>>
      BY <2>1, <2>2
    <2>4. Colon \in Char /\ Space \in Char
      BY Chars
    <2> HIDE DEF c
    <2>5. c \in Seq(Char) /\ Len(c) = 4 /\ c[1] = x /\ c[2] = Colon /\ c[3] = Space /\ c[4] = y
      BY ONLY <2>3, <2>4, x \in Char, y \in Char, FourAre
    <2>6. QED
      BY ONLY <2>1, <2>2, <2>5
  <1>4. d \in Seq(Char) /\ Len(d) = 4 /\ d[1] = CR /\ d[2] = LF /\ d[3] = CR /\ d[4] = LF
    <2>1. CR \in Char /\ LF \in Char
      BY Chars
    <2>2. QED
      BY ONLY <2>1, FourAre
  <1>5. HeadOf(r) = Concat(Concat(Concat(a, b), c), d)
    BY Zenon DEF HeadOf, Concat
  <1>6. PICK m \in Nat : m = Shift(r) /\ (Method(r) = "POST" => m = 6)
    BY DEF Shift
  <1> HIDE DEF a, b, c, d
  <1>7. PICK h : h = HeadOf(r)
    OBVIOUS
  <1>8. /\ h \in Seq(Char) /\ Len(h) = m + 11
        /\ h[1] = a[1] /\ h[2] = a[2] /\ h[3] = a[3]
        /\ \A i \in 1 .. m : h[3 + i] = b[i]
        /\ h[m + 4] = c[1] /\ h[m + 5] = c[2] /\ h[m + 6] = c[3] /\ h[m + 7] = c[4]
        /\ h[m + 8] = d[1] /\ h[m + 9] = d[2] /\ h[m + 10] = d[3] /\ h[m + 11] = d[4]
    <2>1. h = Concat(Concat(Concat(a, b), c), d)
      BY <1>5, <1>7
    <2>2. Parts(Char, a, b, c, d, m)
      BY <1>1, <1>2, <1>3, <1>4, <1>6 DEF Parts
    <2>3. LaidOut(Char, h, a, b, c, d, m)
      BY ONLY <2>1, <2>2, Joined
    <2>4. QED
      BY ONLY <2>3 DEF LaidOut
  <1>9. Method(r) = "POST" => /\ h[4] = b[1] /\ h[5] = b[2] /\ h[6] = b[3]
                             /\ h[7] = b[4] /\ h[8] = b[5] /\ h[9] = b[6]
    <2> SUFFICES ASSUME Method(r) = "POST" PROVE /\ h[3 + 1] = b[1] /\ h[3 + 2] = b[2] /\ h[3 + 3] = b[3]
                                                /\ h[3 + 4] = b[4] /\ h[3 + 5] = b[5] /\ h[3 + 6] = b[6]
      OBVIOUS
    <2>1. m = 6
      BY <1>6
    <2>2. QED
      BY ONLY <2>1, <1>8
  <1>10. QED
    BY ONLY <1>1, <1>2, <1>3, <1>4, <1>6, <1>7, <1>8, <1>9

(* The text is the head and then the body. *)
LEMMA TextIs ==
  ASSUME NEW r \in Requests
  PROVE  /\ Text(r) \in Seq(Char) /\ Len(Text(r)) = Len(HeadOf(r)) + r.length
         /\ Len(HeadOf(r)) \in Nat /\ Len(HeadOf(r)) >= 11
         /\ \A i \in 1 .. Len(HeadOf(r)) : Text(r)[i] = HeadOf(r)[i]
         /\ SubSeq(Text(r), Len(HeadOf(r)) + 1, Len(Text(r))) = BodyOf(r)
  <1>1. PICK n \in Nat : n = Len(HeadOf(r)) /\ n >= 11
    <2>1. Shift(r) + 11 \in Nat /\ Shift(r) + 11 >= 11
      BY DEF Shift
    <2>2. QED
      BY <2>1, HeadIs
  <1>2. HeadOf(r) \in Seq(Char) /\ BodyOf(r) \in Seq(Char) /\ Len(BodyOf(r)) = r.length /\ r.length \in Nat
    BY HeadIs, BodyIs, RequestIs
  <1>3. /\ Text(r) \in Seq(Char) /\ Len(Text(r)) = n + r.length
        /\ \A i \in 1 .. n : Text(r)[i] = HeadOf(r)[i]
        /\ \A i \in 1 .. r.length : Text(r)[n + i] = BodyOf(r)[i]
    <2>1. Text(r) = Concat(HeadOf(r), BodyOf(r))
      BY DEF Text, Concat
    <2>2. PICK u : u = Text(r)
      OBVIOUS
    <2>3. PICK h \in Seq(Char), b \in Seq(Char) : h = HeadOf(r) /\ b = BodyOf(r)
      BY <1>2
    <2>4. u = Concat(h, b)
      BY <2>1, <2>2, <2>3
    <2>5. /\ u \in Seq(Char) /\ Len(u) = Len(h) + Len(b)
          /\ \A j \in 1 .. Len(h) + Len(b) : u[j] = IF j <= Len(h) THEN h[j] ELSE b[j - Len(h)]
      BY ONLY <2>4, JoinIs, h \in Seq(Char), b \in Seq(Char)
    <2>6. /\ u \in Seq(Char) /\ Len(u) = n + r.length
          /\ \A j \in 1 .. n + r.length : u[j] = IF j <= n THEN h[j] ELSE b[j - n]
      BY <1>1, <1>2, <2>3, <2>5
    <2>7. ASSUME NEW i \in 1 .. n PROVE u[i] = h[i]
      <3>1. i \in 1 .. n + r.length /\ i <= n
        BY <1>2
      <3>2. QED
        BY ONLY <2>6, <3>1
    <2>8. ASSUME NEW i \in 1 .. r.length PROVE u[n + i] = b[i]
      <3>1. n + i \in 1 .. n + r.length /\ ~(n + i <= n) /\ (n + i) - n = i
        BY <1>2
      <3>2. QED
        BY <2>6, <3>1
    <2>9. QED
      BY <2>2, <2>3, <2>6, <2>7, <2>8
  <1>4. SubSeq(Text(r), n + 1, Len(Text(r))) = BodyOf(r)
    <2>1. PICK s : s = SubSeq(Text(r), n + 1, Len(Text(r)))
      OBVIOUS
    <2>2. /\ s \in Seq(Char) /\ Len(s) = r.length
          /\ \A i \in 1 .. r.length : s[i] = Text(r)[n + i]
      <3>1. n \in 0 .. Len(Text(r)) /\ Len(Text(r)) - n = r.length
        BY <1>2, <1>3
      <3>2. QED
        BY <1>3, <2>1, <3>1, CutIs
    <2>3. s = BodyOf(r)
      BY <1>2, <1>3, <2>2, SeqEqual
    <2>4. QED
      BY <2>1, <2>3
  <1>5. QED
    BY <1>1, <1>3, <1>4

------------------------------------------------------------------------------
(* The state machine of parse_request_head(), one character at a time *)

At(h, hs, l, b, c, d, e) ==
    [h |-> h, headers |-> hs, line |-> l, notFinish |-> TRUE,
     key_start |-> b, key_end |-> c, value_start |-> d, value_end |-> e]

InBodyAt(hs, l, b, c, d, e) ==
    [h |-> "h_end_LF", headers |-> hs, line |-> l, notFinish |-> FALSE,
     key_start |-> b, key_end |-> c, value_start |-> d, value_end |-> e]

LEMMA StartSkips ==
  ASSUME NEW str, NEW i, NEW hs, NEW l, NEW b, NEW c, NEW d, NEW e, str[i] \in {CR, LF},
         NEW s, s = At("h_start", hs, l, b, c, d, e), NEW t, t = ReadOn(s, str, i)
  PROVE  t = At("h_start", hs, l, b, c, d, e)
  BY DEF ReadOn, Advance, At, InBodyAt, CR, LF, Colon, Space

LEMMA StartKey ==
  ASSUME NEW str, NEW i, NEW hs, NEW l, NEW b, NEW c, NEW d, NEW e, str[i] \notin {CR, LF},
         NEW s, s = At("h_start", hs, l, b, c, d, e), NEW t, t = ReadOn(s, str, i)
  PROVE  t = At("h_key", hs, i, i, c, d, e)
  BY DEF ReadOn, Advance, At, InBodyAt, CR, LF, Colon, Space

LEMMA KeyEnds ==
  ASSUME NEW str, NEW i, NEW hs, NEW l, NEW b, NEW c, NEW d, NEW e, str[i] = Colon,
         NEW s, s = At("h_key", hs, l, b, c, d, e), NEW t, t = ReadOn(s, str, i)
  PROVE  t = At("h_colon", hs, l, b, i, d, e)
  BY DEF ReadOn, Advance, At, InBodyAt, CR, LF, Colon, Space

LEMMA ColonSpace ==
  ASSUME NEW str, NEW i, NEW hs, NEW l, NEW b, NEW c, NEW d, NEW e, str[i] = Space,
         NEW s, s = At("h_colon", hs, l, b, c, d, e), NEW t, t = ReadOn(s, str, i)
  PROVE  t = At("h_spaces_after_colon", hs, l, b, c, d, e)
  BY DEF ReadOn, Advance, At, InBodyAt, CR, LF, Colon, Space

LEMMA ValueBegins ==
  ASSUME NEW str, NEW i, NEW hs, NEW l, NEW b, NEW c, NEW d, NEW e,
         NEW s, s = At("h_spaces_after_colon", hs, l, b, c, d, e), NEW t, t = ReadOn(s, str, i)
  PROVE  t = At("h_value", hs, l, b, c, i, e)
  BY DEF ReadOn, Advance, At, InBodyAt, CR, LF, Colon, Space

LEMMA ValueEnds ==
  ASSUME NEW str, NEW i, NEW hs, NEW l, NEW b, NEW c, NEW d, NEW e, str[i] = CR,
         NEW s, s = At("h_value", hs, l, b, c, d, e), NEW t, t = ReadOn(s, str, i)
  PROVE  t = At("h_CR", hs, l, b, c, d, i)
  BY DEF ReadOn, Advance, At, InBodyAt, CR, LF, Colon, Space

LEMMA HeaderEnds ==
  ASSUME NEW str, NEW i, NEW hs, NEW l, NEW b, NEW c, NEW d, NEW e, str[i] = LF,
         NEW s, s = At("h_CR", hs, l, b, c, d, e), NEW t, t = ReadOn(s, str, i)
  PROVE  t = At("h_LF", SetHeader(hs, Slice(str, b, c), Slice(str, d, e)), i, b, c, d, e)
  BY DEF ReadOn, Advance, At, InBodyAt, CR, LF, Colon, Space

LEMMA EndBegins ==
  ASSUME NEW str, NEW i, NEW hs, NEW l, NEW b, NEW c, NEW d, NEW e, str[i] = CR,
         NEW s, s = At("h_LF", hs, l, b, c, d, e), NEW t, t = ReadOn(s, str, i)
  PROVE  t = At("h_end_CR", hs, l, b, c, d, e)
  BY DEF ReadOn, Advance, At, InBodyAt, CR, LF, Colon, Space

LEMMA NextKey ==
  ASSUME NEW str, NEW i, NEW hs, NEW l, NEW b, NEW c, NEW d, NEW e, str[i] # CR,
         NEW s, s = At("h_LF", hs, l, b, c, d, e), NEW t, t = ReadOn(s, str, i)
  PROVE  t = At("h_key", hs, l, i, c, d, e)
  BY DEF ReadOn, Advance, At, InBodyAt, CR, LF, Colon, Space

LEMMA HeadEnds ==
  ASSUME NEW str, NEW i, NEW hs, NEW l, NEW b, NEW c, NEW d, NEW e, str[i] = LF,
         NEW s, s = At("h_end_CR", hs, l, b, c, d, e), NEW t, t = ReadOn(s, str, i)
  PROVE  t = At("h_end_LF", hs, l, b, c, d, e)
  BY DEF ReadOn, Advance, At, InBodyAt, CR, LF, Colon, Space

LEMMA BodyBegins ==
  ASSUME NEW str, NEW i, NEW hs, NEW l, NEW b, NEW c, NEW d, NEW e,
         NEW s, s = At("h_end_LF", hs, l, b, c, d, e), NEW t, t = ReadOn(s, str, i)
  PROVE  t = InBodyAt(hs, i, b, c, d, e)
  BY DEF ReadOn, Advance, At, InBodyAt, CR, LF, Colon, Space

LEMMA BodySkipped ==
  ASSUME NEW str, NEW i, NEW hs, NEW l, NEW b, NEW c, NEW d, NEW e,
         NEW s, s = InBodyAt(hs, l, b, c, d, e), NEW t, t = ReadOn(s, str, i)
  PROVE  t = InBodyAt(hs, l, b, c, d, e)
  BY DEF ReadOn, Advance, At, InBodyAt, CR, LF, Colon, Space

------------------------------------------------------------------------------
(* What parse_request_head() makes of a head *)

(* f[i] is the state after i characters of str, of n. *)
Trace(f, str, n) == \A i \in 1 .. n : f[i] = ReadOn(f[i - 1], str, i)

LEMMA NextInTrace ==
  ASSUME NEW f, NEW str, NEW n \in Nat, Trace(f, str, n), NEW i \in Nat, NEW j, j = i + 1, j <= n
  PROVE  f[j] = ReadOn(f[i], str, j)
  <1>1. j \in 1 .. n /\ j - 1 = i
    OBVIOUS
  <1>2. QED
    BY <1>1 DEF Trace

LEMMA SliceOfOne ==
  ASSUME NEW Els, NEW str \in Seq(Els), NEW i \in 1 .. Len(str), NEW j, j = i + 1
  PROVE  Slice(str, i, j) = <<str[i]>>
  <1>1. PICK n \in Nat : n = Len(str)
    BY LenProperties
  <1>2. i \in Nat /\ i # 0 /\ j - 1 = i /\ i \in 1 .. n
    BY <1>1
  <1>3. Slice(str, i, j) = SubSeq(str, i, i)
    BY <1>2 DEF Slice
  <1>4. PICK u : u = SubSeq(str, i, i)
    OBVIOUS
  <1>5. u \in Seq(Els) /\ Len(u) = 1 /\ u[1] = str[i]
    <2>1. PICK m \in Nat : m + 1 = i
      BY <1>2
    <2>2. m \in 0 .. n /\ i = m + 1 /\ i <= n
      BY <1>2, <2>1
    <2>3. /\ SubSeq(str, m + 1, i) \in Seq(Els) /\ Len(SubSeq(str, m + 1, i)) = 1
          /\ \A k \in 1 .. 1 : SubSeq(str, m + 1, i)[k] = str[m + k]
      BY <1>1, <2>2, SliceIs
    <2>4. QED
      BY <1>4, <2>2, <2>3
  <1>6. str[i] \in Els
    BY <1>1, <1>2, ElementOfSeq
  <1>7. <<str[i]>> \in Seq(Els) /\ Len(<<str[i]>>) = 1 /\ <<str[i]>>[1] = str[i]
    BY <1>6
  <1>8. PICK v : v = <<str[i]>>
    OBVIOUS
  <1>9. u = v
    BY <1>5, <1>7, <1>8, SeqEqual
  <1>10. QED
    BY <1>3, <1>4, <1>8, <1>9

(* One header, "key: value", and its line end. *)
IsHeader(str, o) ==
    /\ str[o + 1] \notin {CR, LF} /\ str[o + 2] = Colon /\ str[o + 3] = Space
    /\ str[o + 5] = CR /\ str[o + 6] = LF

LEMMA OneHeader ==
  ASSUME NEW Els, NEW str \in Seq(Els), NEW n \in Nat, n = Len(str), NEW o \in Nat, o + 6 <= n,
         NEW f, Trace(f, str, n), IsHeader(str, o),
         NEW st \in {"h_start", "h_LF"}, NEW hs, NEW l, NEW b, NEW c, NEW d, NEW e,
         f[o] = At(st, hs, l, b, c, d, e)
  PROVE  f[o + 6] = At("h_LF", SetHeader(hs, <<str[o + 1]>>, <<str[o + 4]>>), o + 6,
                       o + 1, o + 2, o + 4, o + 5)
  <1>1. PICK o1 \in Nat, o2 \in Nat, o3 \in Nat, o4 \in Nat, o5 \in Nat, o6 \in Nat :
           o1 = o + 1 /\ o2 = o + 2 /\ o3 = o + 3 /\ o4 = o + 4 /\ o5 = o + 5 /\ o6 = o + 6
    OBVIOUS
  <1>2. f[o1] = ReadOn(f[o], str, o1) /\ f[o2] = ReadOn(f[o1], str, o2) /\ f[o3] = ReadOn(f[o2], str, o3)
    <2>1. o2 = o1 + 1 /\ o3 = o2 + 1 /\ o1 <= n /\ o2 <= n /\ o3 <= n
      BY <1>1
    <2>2. QED
      BY <1>1, <2>1, NextInTrace
  <1>3. f[o4] = ReadOn(f[o3], str, o4) /\ f[o5] = ReadOn(f[o4], str, o5) /\ f[o6] = ReadOn(f[o5], str, o6)
    <2>1. o4 = o3 + 1 /\ o5 = o4 + 1 /\ o6 = o5 + 1 /\ o4 <= n /\ o5 <= n /\ o6 <= n
      BY <1>1
    <2>2. QED
      BY <1>1, <2>1, NextInTrace
  <1>4. str[o1] \notin {CR, LF} /\ str[o2] = Colon /\ str[o3] = Space /\ str[o5] = CR /\ str[o6] = LF
    BY <1>1 DEF IsHeader
  <1>5. PICK l1 : f[o1] = At("h_key", hs, l1, o1, c, d, e)
    <2>2. CASE st = "h_start"
      <3>1. f[o] = At("h_start", hs, l, b, c, d, e)
        BY <2>2
      <3>2. QED
        BY ONLY <1>2, <1>4, <3>1, StartKey
    <2>3. CASE st = "h_LF"
      <3>1. str[o1] # CR
        BY <1>4
      <3>2. f[o] = At("h_LF", hs, l, b, c, d, e)
        BY <2>3
      <3>3. QED
        BY ONLY <1>2, <3>1, <3>2, NextKey
    <2>4. QED
      BY <2>2, <2>3
  <1>6. f[o2] = At("h_colon", hs, l1, o1, o2, d, e)
    BY ONLY <1>2, <1>4, <1>5, KeyEnds
  <1>7. f[o3] = At("h_spaces_after_colon", hs, l1, o1, o2, d, e)
    BY ONLY <1>2, <1>4, <1>6, ColonSpace
  <1>8. f[o4] = At("h_value", hs, l1, o1, o2, o4, e)
    BY ONLY <1>3, <1>7, ValueBegins
  <1>9. f[o5] = At("h_CR", hs, l1, o1, o2, o4, o5)
    BY ONLY <1>3, <1>4, <1>8, ValueEnds
  <1>10. f[o6] = At("h_LF", SetHeader(hs, Slice(str, o1, o2), Slice(str, o4, o5)), o6, o1, o2, o4, o5)
    BY ONLY <1>3, <1>4, <1>9, HeaderEnds
  <1>11. Slice(str, o1, o2) = <<str[o1]>> /\ Slice(str, o4, o5) = <<str[o4]>>
    <2>1. o1 \in 1 .. Len(str) /\ o4 \in 1 .. Len(str) /\ o2 = o1 + 1 /\ o5 = o4 + 1
      BY <1>1
    <2>2. QED
      BY ONLY str \in Seq(Els), <2>1, SliceOfOne
  <1>12. f[o6] = At("h_LF", SetHeader(hs, <<str[o1]>>, <<str[o4]>>), o6, o1, o2, o4, o5)
    BY ONLY <1>10, <1>11
  <1>13. QED
    BY ONLY <1>1, <1>12

(* The empty line, and the body, of which nothing is read. *)
LEMMA EmptyLine ==
  ASSUME NEW str, NEW n \in Nat, NEW o \in Nat, o + 2 <= n,
         NEW f, Trace(f, str, n), str[o + 1] = CR, str[o + 2] = LF,
         NEW hs, NEW l, NEW b, NEW c, NEW d, NEW e, f[o] = At("h_LF", hs, l, b, c, d, e)
  PROVE  \/ n = o + 2 /\ f[n] = At("h_end_LF", hs, l, b, c, d, e)
         \/ n > o + 2 /\ f[n] = InBodyAt(hs, o + 3, b, c, d, e)
  <1>1. PICK o1 \in Nat, o2 \in Nat, o3 \in Nat : o1 = o + 1 /\ o2 = o + 2 /\ o3 = o + 3
    OBVIOUS
  <1>2. f[o1] = ReadOn(f[o], str, o1) /\ f[o2] = ReadOn(f[o1], str, o2)
    <2>1. o2 = o1 + 1 /\ o1 <= n /\ o2 <= n
      BY <1>1
    <2>2. QED
      BY <1>1, <2>1, NextInTrace
  <1>3. str[o1] = CR /\ str[o2] = LF
    BY <1>1
  <1>4. f[o1] = At("h_end_CR", hs, l, b, c, d, e)
    BY <1>2, <1>3, EndBegins
  <1>5. f[o2] = At("h_end_LF", hs, l, b, c, d, e)
    BY <1>2, <1>3, <1>4, HeadEnds
  <1>6. CASE n = o2
    BY <1>1, <1>5, <1>6
  <1>7. CASE n # o2
    <2>1. PICK last : last = InBodyAt(hs, o3, b, c, d, e)
      OBVIOUS
    <2> DEFINE T0 == {k \in Nat : o3 + k <= n => f[o3 + k] = last}
    <2>2. 0 \in T0
      <3>1. o3 <= n /\ o3 = o2 + 1 /\ o3 + 0 = o3
        BY <1>1, <1>7
      <3>2. f[o3] = ReadOn(f[o2], str, o3)
        BY <3>1, NextInTrace
      <3>3. f[o3] = last
        BY <1>5, <2>1, <3>2, BodyBegins
      <3>4. QED
        BY <3>1, <3>3
    <2>3. ASSUME NEW k \in T0 PROVE k + 1 \in T0
      <3>1. SUFFICES ASSUME o3 + (k + 1) <= n PROVE f[o3 + (k + 1)] = last
        OBVIOUS
      <3>2. PICK i \in Nat, j \in Nat : i = o3 + k /\ j = o3 + (k + 1)
        OBVIOUS
      <3>3. i <= n /\ j = i + 1 /\ j <= n
        BY <3>1, <3>2
      <3>4. f[i] = last
        BY <3>2, <3>3
      <3>5. f[j] = ReadOn(f[i], str, j)
        BY <3>3, NextInTrace
      <3>6. f[j] = last
        BY <2>1, <3>4, <3>5, BodySkipped
      <3>7. QED
        BY <3>2, <3>6
    <2> HIDE DEF T0
    <2>4. T0 = Nat
      <3>1. T0 \subseteq Nat
        BY DEF T0
      <3>2. QED
        BY <2>2, <2>3, <3>1, SetInduction
    <2>5. PICK k \in Nat : o3 + k = n
      <3>1. n - o3 \in Nat /\ o3 + (n - o3) = n
        BY <1>1, <1>7
      <3>2. QED
        BY <3>1
    <2>6. f[n] = last
      <3>1. k \in T0
        BY <2>4
      <3>2. o3 + k <= n => f[o3 + k] = last
        BY <3>1 DEF T0
      <3>3. QED
        BY <2>5, <3>2
    <2>7. QED
      BY <1>1, <1>7, <2>1, <2>6
  <1>8. QED
    BY <1>6, <1>7

------------------------------------------------------------------------------
(* The fields of a request *)

Fields(q) ==
    q = [content |-> q.content, state |-> q.state, h_state |-> q.h_state, method |-> q.method,
         file_name |-> q.file_name, headers |-> q.headers, keep_alive |-> q.keep_alive,
         readTimes |-> q.readTimes, flag |-> q.flag]

(* The file that a request asks for, and the fields that say what it asks: *)
(* a parser that cannot tell the file leaves its name empty.               *)
Wanted(r) == IF Lines[r.line].url = "root" THEN "index.html" ELSE Lines[r.line].file

Asks(q, r) == q.method = Method(r) /\ q.file_name \in {NoName, Wanted(r)}

(* The headers say what the request says. *)
GoodHeaders(hs, r) ==
    /\ Method(r) = "POST" => ContentLength \in DOMAIN hs /\ hs[ContentLength] = <<Decimal[r.length]>>
    /\ (Connection \in DOMAIN hs /\ hs[Connection] = <<"keep-alive">>) <=> r.keep_alive

LEMMA NamesDiffer ==
  /\ ContentLength # Connection /\ <<"Host">> # Connection /\ <<"Host">> # ContentLength
  /\ <<"server">> # <<"keep-alive">>
  <1>1. \A x, y : <<x>> = <<y>> => x = y
    OBVIOUS
  <1>2. QED
    BY <1>1 DEF ContentLength, Connection

(* The last header of a request. *)
LastHeader(r, key, val) ==
    IF r.keep_alive THEN key = Connection /\ val = <<"keep-alive">> ELSE key = <<"Host">> /\ val = <<"server">>

NoHeaders(hs) == DOMAIN hs = {}

LEMMA HeadersOfGet ==
  ASSUME NEW r \in Requests, Method(r) # "POST", NEW hs, NoHeaders(hs), NEW key, NEW val, LastHeader(r, key, val),
         NEW new, new = SetHeader(hs, key, val)
  PROVE  GoodHeaders(new, r)
  <1>1. DOMAIN new = {key} /\ new[key] = val
    <2>1. DOMAIN new = DOMAIN hs \cup {key} /\ new[key] = val
      BY ONLY new = SetHeader(hs, key, val) DEF SetHeader
    <2>2. QED
      BY <2>1 DEF NoHeaders
  <1>2. QED
    BY <1>1, NamesDiffer, RequestIs DEF GoodHeaders, LastHeader

LEMMA HeadersOfPost ==
  ASSUME NEW r \in Requests, NEW hs, NoHeaders(hs), NEW key, NEW val, LastHeader(r, key, val),
         NEW len, len = <<Decimal[r.length]>>,
         NEW mid, mid = SetHeader(hs, ContentLength, len), NEW new, new = SetHeader(mid, key, val)
  PROVE  GoodHeaders(new, r)
  <1>1. DOMAIN mid = {ContentLength} /\ mid[ContentLength] = len
    <2>1. DOMAIN mid = DOMAIN hs \cup {ContentLength} /\ mid[ContentLength] = len
      BY ONLY mid = SetHeader(hs, ContentLength, len) DEF SetHeader
    <2>2. QED
      BY <2>1 DEF NoHeaders
  <1>2. key # ContentLength
    BY NamesDiffer, RequestIs DEF LastHeader
  <1>3. DOMAIN new = {ContentLength, key} /\ new[key] = val /\ new[ContentLength] = len
    <2>1. /\ DOMAIN new = DOMAIN mid \cup {key} /\ new[key] = val
          /\ \A k \in DOMAIN mid : k # key => new[k] = mid[k]
      BY ONLY new = SetHeader(mid, key, val) DEF SetHeader
    <2>2. QED
      BY <1>1, <1>2, <2>1
  <1>4. QED
    BY <1>2, <1>3, NamesDiffer, RequestIs DEF GoodHeaders, LastHeader

(* The locals at the end of a call, when the head is complete. *)
LEMMA HeadScanned ==
  ASSUME NEW r \in Requests, NEW k \in Nat, k <= Len(Text(r)), k >= Len(HeadOf(r)),
         NEW q, q.content = SubSeq(Text(r), 3, k), q.h_state = "h_start", NoHeaders(q.headers),
         NEW end, end = Scanned(q)
  PROVE  /\ end.h = "h_end_LF" /\ GoodHeaders(end.headers, r)
         /\ k > Len(HeadOf(r)) => end.line = Len(HeadOf(r)) - 1
  <1>1. PICK m \in Nat : m = Shift(r) /\ (IF Method(r) = "POST" THEN m = 6 ELSE m = 0)
    BY DEF Shift
  <1>2. PICK h : h = HeadOf(r)
    OBVIOUS
  <1>3. PICK t : t = Text(r)
    OBVIOUS
  <1>4. t \in Seq(Char) /\ Len(h) = m + 11 /\ \A i \in 1 .. m + 11 : t[i] = h[i]
    BY <1>1, <1>2, <1>3, HeadIs, TextIs
  <1>5. PICK n \in Nat : k = 2 + n /\ n >= m + 9
    <2>1. k - 2 \in Nat /\ k = 2 + (k - 2) /\ k - 2 >= m + 9
      BY <1>2, <1>4
    <2>2. QED
      BY <2>1
  <1>6. PICK str : str = q.content
    OBVIOUS
  <1>7. str \in Seq(Char) /\ Len(str) = n /\ \A i \in 1 .. n : str[i] = t[2 + i]
    <2>1. str = SubSeq(t, 2 + 1, k) /\ k <= Len(t)
      BY <1>3, <1>6
    <2>2. QED
      BY ONLY <2>1, <1>4, <1>5, n \in Nat, k \in Nat, SliceIs
  <1>8. ASSUME NEW i \in 1 .. m + 9 PROVE str[i] = h[2 + i]
    <2>1. i \in 1 .. n /\ 2 + i \in 1 .. m + 11
      BY <1>5
    <2>2. QED
      BY ONLY <2>1, <1>7, <1>4
  <1>9. PICK f : f[0] = Scan(q) /\ Trace(f, str, n) /\ end = f[n]
    BY <1>6, <1>7, ScannedIs DEF Trace
  <1>10. str[1] = LF
    <2>1. str[1] = h[2 + 1]
      BY <1>8
    <2>2. QED
      BY <1>2, <2>1, HeadIs
  <1>11. f[1] = At("h_start", q.headers, 1, 0, 0, 0, 0)
    <2>1. f[0] = At("h_start", q.headers, 1, 0, 0, 0, 0)
      BY <1>9 DEF Scan, At
    <2>2. f[1] = ReadOn(f[0], str, 1)
      <3>1. 0 \in Nat /\ 1 = 0 + 1 /\ 1 <= n
        BY <1>5
      <3>2. QED
        BY ONLY <3>1, n \in Nat, <1>9, NextInTrace
    <2>3. QED
      BY ONLY <1>10, <2>1, <2>2, StartSkips
  <1>12. PICK key, val : /\ LastHeader(r, key, val) /\ key = <<h[m + 4]>> /\ val = <<h[m + 7]>>
    <2>1. h[m + 4] = (IF r.keep_alive THEN "Connection" ELSE "Host")
      BY <1>1, <1>2, HeadIs
    <2>2. h[m + 7] = (IF r.keep_alive THEN "keep-alive" ELSE "server")
      BY <1>1, <1>2, HeadIs
    <2>3. LastHeader(r, <<h[m + 4]>>, <<h[m + 7]>>)
      BY <2>1, <2>2 DEF LastHeader, Connection
    <2>4. QED
      BY <2>3
  <1>13. IsHeader(str, m + 1) /\ str[m + 2] = h[m + 4] /\ str[m + 5] = h[m + 7]
    <2>1. /\ h[m + 4] \notin {CR, LF} /\ h[m + 5] = Colon /\ h[m + 6] = Space
          /\ h[m + 8] = CR /\ h[m + 9] = LF
      BY <1>1, <1>2, HeadIs DEF CR, LF
    <2>2. /\ str[m + 2] = h[m + 4] /\ str[m + 3] = h[m + 5] /\ str[m + 4] = h[m + 6]
          /\ str[m + 5] = h[m + 7] /\ str[m + 6] = h[m + 8] /\ str[m + 7] = h[m + 9]
      <3>1. ASSUME NEW i \in 2 .. 7 PROVE str[m + i] = h[m + (2 + i)]
        <4>1. m + i \in 1 .. m + 9 /\ 2 + (m + i) = m + (2 + i)
          OBVIOUS
        <4>2. QED
          BY ONLY <4>1, <1>8
      <3>2. /\ str[m + 2] = h[m + (2 + 2)] /\ str[m + 3] = h[m + (2 + 3)] /\ str[m + 4] = h[m + (2 + 4)]
            /\ str[m + 5] = h[m + (2 + 5)] /\ str[m + 6] = h[m + (2 + 6)] /\ str[m + 7] = h[m + (2 + 7)]
        BY <3>1
      <3>3. QED
        BY ONLY <3>2
    <2>3. /\ (m + 1) + 1 = m + 2 /\ (m + 1) + 2 = m + 3 /\ (m + 1) + 3 = m + 4
          /\ (m + 1) + 5 = m + 6 /\ (m + 1) + 6 = m + 7
      OBVIOUS
    <2>4. QED
      BY ONLY <2>1, <2>2, <2>3 DEF IsHeader
  <1>14. PICK o \in Nat : o = m + 7 /\ o + 2 <= n
    BY <1>5
  <1>15. PICK hs, b, c, d, e : f[o] = At("h_LF", hs, o, b, c, d, e) /\ GoodHeaders(hs, r)
    <2>1. PICK p \in Nat : p = m + 1 /\ p + 6 = o /\ p + 6 <= n /\ p + 1 = m + 2 /\ p + 4 = m + 5
      BY <1>14
    <2>2. <<str[p + 1]>> = key /\ <<str[p + 4]>> = val
      BY <1>12, <1>13, <2>1
    <2>3. ASSUME NEW st \in {"h_start", "h_LF"}, NEW hs, NEW l, NEW b, NEW c, NEW d, NEW e,
                 f[p] = At(st, hs, l, b, c, d, e)
          PROVE  f[o] = At("h_LF", SetHeader(hs, key, val), o, p + 1, p + 2, p + 4, p + 5)
      <3>1. f[p + 6] = At("h_LF", SetHeader(hs, <<str[p + 1]>>, <<str[p + 4]>>), p + 6,
                          p + 1, p + 2, p + 4, p + 5)
        <4>1. IsHeader(str, p)
          BY <1>13, <2>1
        <4>2. n = Len(str) /\ str \in Seq(Char) /\ p + 6 <= n
          BY <1>7, <2>1
        <4>3. QED
          BY ONLY <4>1, <4>2, <1>9, <2>3, p \in Nat, n \in Nat, st \in {"h_start", "h_LF"}, OneHeader
      <3>2. QED
        BY ONLY <2>1, <2>2, <3>1
    <2>4. CASE Method(r) = "POST"
      <3>1. m = 6 /\ p = 7
        BY <1>1, <2>1, <2>4
      <3>2. h[4] = "Content-length" /\ h[5] = Colon /\ h[6] = Space /\ h[7] = Decimal[r.length] /\ h[8] = CR /\ h[9] = LF
        BY <1>2, <2>4, HeadIs
      <3>3. /\ str[2] = h[4] /\ str[3] = h[5] /\ str[4] = h[6]
            /\ str[5] = h[7] /\ str[6] = h[8] /\ str[7] = h[9]
        <4>1. /\ str[2] = h[2 + 2] /\ str[3] = h[2 + 3] /\ str[4] = h[2 + 4]
              /\ str[5] = h[2 + 5] /\ str[6] = h[2 + 6] /\ str[7] = h[2 + 7]
          BY <1>8, <3>1
        <4>2. QED
          BY ONLY <4>1
      <3>4. PICK x \in Nat : x = 1
        OBVIOUS
      <3>5. IsHeader(str, x) /\ <<str[x + 1]>> = ContentLength /\ <<str[x + 4]>> = <<Decimal[r.length]>>
        BY <3>2, <3>3, <3>4 DEF IsHeader, ContentLength, CR, LF
      <3>6. x + 6 = p /\ x + 6 <= n
        BY <3>1, <3>4, <2>1
      <3>7. PICK mid : mid = SetHeader(q.headers, ContentLength, <<Decimal[r.length]>>)
        OBVIOUS
      <3>8. f[p] = At("h_LF", mid, p, x + 1, x + 2, x + 4, x + 5)
        <4>1. f[x] = At("h_start", q.headers, 1, 0, 0, 0, 0)
          BY <1>11, <3>4
        <4>2. n = Len(str) /\ str \in Seq(Char)
          BY <1>7
        <4>3. f[x + 6] = At("h_LF", SetHeader(q.headers, <<str[x + 1]>>, <<str[x + 4]>>), x + 6,
                            x + 1, x + 2, x + 4, x + 5)
          BY ONLY <4>1, <4>2, <3>5, <3>6, <1>9, x \in Nat, n \in Nat, OneHeader, SMTT(20)
        <4>4. QED
          BY ONLY <4>3, <3>5, <3>6, <3>7
      <3>9. f[o] = At("h_LF", SetHeader(mid, key, val), o, p + 1, p + 2, p + 4, p + 5)
        BY ONLY <2>3, <3>8
      <3>10. GoodHeaders(SetHeader(mid, key, val), r)
        <4>2. PICK len, new : len = <<Decimal[r.length]>> /\ new = SetHeader(mid, key, val)
          OBVIOUS
        <4>3. mid = SetHeader(q.headers, ContentLength, len) /\ LastHeader(r, key, val) /\ NoHeaders(q.headers)
          BY <1>12, <3>7, <4>2
        <4>4. GoodHeaders(new, r)
          BY ONLY <4>2, <4>3, r \in Requests, HeadersOfPost
        <4>5. QED
          BY <4>2, <4>4
      <3>11. QED
        BY <3>9, <3>10
    <2>5. CASE Method(r) # "POST"
      <3>1. p = 1
        BY <1>1, <2>1, <2>5
      <3>2. f[p] = At("h_start", q.headers, 1, 0, 0, 0, 0)
        BY <3>1, <1>11
      <3>3. f[o] = At("h_LF", SetHeader(q.headers, key, val), o, p + 1, p + 2, p + 4, p + 5)
        BY ONLY <2>3, <3>2
      <3>4. GoodHeaders(SetHeader(q.headers, key, val), r)
        <4>2. PICK new : new = SetHeader(q.headers, key, val)
          OBVIOUS
        <4>3. LastHeader(r, key, val) /\ NoHeaders(q.headers)
          BY <1>12
        <4>4. GoodHeaders(new, r)
          BY ONLY <4>2, <4>3, <2>5, r \in Requests, HeadersOfGet
        <4>5. QED
          BY <4>2, <4>4
      <3>5. QED
        BY <3>3, <3>4
    <2>6. QED
      BY <2>4, <2>5
  <1>16. str[o + 1] = CR /\ str[o + 2] = LF
    <2>1. o + 1 \in 1 .. m + 9 /\ o + 2 \in 1 .. m + 9 /\ 2 + (o + 1) = m + 10 /\ 2 + (o + 2) = m + 11
      BY <1>14
    <2>2. str[o + 1] = h[m + 10] /\ str[o + 2] = h[m + 11]
      BY ONLY <1>8, <2>1
    <2>3. QED
      BY <1>1, <1>2, <2>2, HeadIs
  <1>17. \/ n = o + 2 /\ f[n] = At("h_end_LF", hs, o, b, c, d, e)
         \/ n > o + 2 /\ f[n] = InBodyAt(hs, o + 3, b, c, d, e)
    BY ONLY <1>14, <1>9, <1>15, <1>16, o \in Nat, n \in Nat, EmptyLine
  <1>18. Len(HeadOf(r)) = o + 4
    BY <1>2, <1>4, <1>14
  <1>19. end.h = "h_end_LF" /\ end.headers = hs /\ (n > o + 2 => end.line = o + 3)
    BY <1>9, <1>17 DEF At, InBodyAt
  <1>20. k > o + 4 => n > o + 2
    BY <1>5
  <1>21. QED
    BY <1>15, <1>18, <1>19, <1>20

------------------------------------------------------------------------------
(* Where a request is: of request r, k characters have been read *)

AtLine(q, r, k) ==
    /\ q.state = "STATE_PARSE_URI" /\ q.content = SubSeq(Text(r), 1, k)
    /\ q.h_state = "h_start" /\ NoHeaders(q.headers) /\ q.keep_alive = FALSE
    /\ q.file_name = NoName

AtHead(q, r, k) ==
    /\ q.state = "STATE_PARSE_HEADERS" /\ k >= 2 /\ q.content = SubSeq(Text(r), 3, k)
    /\ q.h_state = "h_start" /\ NoHeaders(q.headers) /\ q.keep_alive = FALSE
    /\ Asks(q, r)

AtBody(q, r, k) ==
    /\ q.state = "STATE_RECV_BODY" /\ k > Len(HeadOf(r))
    /\ q.content = SubSeq(Text(r), Len(HeadOf(r)) + 1, k)
    /\ q.h_state = "h_end_LF" /\ GoodHeaders(q.headers, r) /\ q.keep_alive = FALSE
    /\ Asks(q, r) /\ Method(r) = "POST"

(* All of it. *)
Done(q, r) ==
    /\ q.state = "STATE_ANALYSIS" /\ q.flag = "ok" /\ Asks(q, r)
    /\ GoodHeaders(q.headers, r) /\ q.keep_alive = FALSE
    /\ Method(r) = "POST" => q.content = BodyOf(r)

(* Where there has been no harmful cut: once anything of its headers has   *)
(* come, the head is complete, and the body has begun if there is one.     *)
LEMMA Places ==
  ASSUME Orderly, NEW r \in Requests, NEW k \in Nat, k <= Len(Text(r)), MayCut(r, k), k > 3
  PROVE  /\ k >= Len(HeadOf(r)) /\ (Method(r) = "POST" => k > Len(HeadOf(r)))
         /\ (Method(r) # "POST" => k = Len(Text(r)))
  <1>1. PICK n \in Nat : n = Len(HeadOf(r)) /\ Len(Text(r)) = n + r.length /\ n >= 11
    BY TextIs
  <1>2. r.length \in Nat /\ (Method(r) = "POST" <=> r.length > 0)
    BY RequestIs DEF Orderly
  <1>3. PICK x : x = r.line
    OBVIOUS
  <1>4. Len(<<x, CR, LF>>) = 3
    OBVIOUS
  <1>5. k > n \/ k = n + r.length
    BY <1>1, <1>2, <1>3, <1>4 DEF MayCut
  <1>6. QED
    BY <1>1, <1>2, <1>5

------------------------------------------------------------------------------
(* The request line *)

LEMMA FirstCR ==
  ASSUME NEW str, Len(str) \in Nat, DOMAIN str = 1 .. Len(str), Len(str) >= 2, str[1] # CR, str[2] = CR
  PROVE  CR \in ToSet(str) /\ SelectInSeq(str, LAMBDA ch : ch = CR) = 2
  <1> DEFINE Found == {i \in 1 .. Len(str) : str[i] = CR}
  <1>1. 2 \in Found /\ \A i \in Found : 2 <= i
    <2>1. \A i \in 1 .. Len(str) : i = 1 \/ 2 <= i
      OBVIOUS
    <2>2. QED
      BY <2>1
  <1>2. Found \subseteq Nat
    OBVIOUS
  <1> HIDE DEF Found
  <1>3. Min(Found) = 2
    <2>1. \A x \in Found : (\A y \in Found : x =< y) => x = 2
      BY <1>1, <1>2
    <2>2. QED
      BY <1>1, <2>1 DEF Min
  <1>4. SelectInSeq(str, LAMBDA ch : ch = CR) = IF Found # {} THEN Min(Found) ELSE 0
    BY DEF SelectInSeq, Found
  <1>5. CR \in ToSet(str)
    BY DEF ToSet
  <1>6. QED
    BY <1>1, <1>3, <1>4, <1>5

LEMMA NoCR ==
  ASSUME NEW r \in Requests, NEW k \in Nat, k < 2, NEW str, str = SubSeq(Text(r), 1, k)
  PROVE  str \in Seq(Char) /\ CR \notin ToSet(str)
  <1>1. PICK t \in Seq(Char) : t = Text(r) /\ Len(t) >= 11
    BY TextIs, RequestIs
  <1>2. str \in Seq(Char) /\ Len(str) = k /\ \A i \in 1 .. k : str[i] = t[i]
    <2>1. k \in 0 .. Len(t)
      BY <1>1, LenProperties
    <2>2. str = SubSeq(t, 1, k)
      BY <1>1
    <2>3. QED
      BY ONLY <2>1, <2>2, t \in Seq(Char), CutIs
  <1>3. t[1] # CR
    <2>1. 1 \in 1 .. Len(HeadOf(r))
      BY TextIs
    <2>2. t[1] = r.line
      BY <1>1, <2>1, TextIs, HeadIs
    <2>3. QED
      BY <2>2, RequestIs
  <1>4. DOMAIN str = 1 .. k
    BY <1>2, LenProperties
  <1>5. \A i \in 1 .. k : i = 1
    OBVIOUS
  <1>6. QED
    BY <1>2, <1>3, <1>4, <1>5 DEF ToSet

(* A line that has come: its CR, what is before it and what is behind it.  *)
LEMMA LineIs ==
  ASSUME NEW r \in Requests, NEW k \in Nat, k >= 2, k <= Len(Text(r)), NEW str, str = SubSeq(Text(r), 1, k)
  PROVE  /\ CR \in ToSet(str) /\ SelectInSeq(str, LAMBDA ch : ch = CR) = 2
         /\ SubSeq(str, 1, 1) = <<r.line>> /\ SubSeq(str, 3, Len(str)) = SubSeq(Text(r), 3, k)
  <1>1. PICK t \in Seq(Char) : t = Text(r)
    BY TextIs
  <1>2. Len(t) \in Nat /\ k <= Len(t) /\ k \in 0 .. Len(t)
    BY <1>1, LenProperties
  <1>3. str \in Seq(Char) /\ Len(str) = k /\ \A i \in 1 .. k : str[i] = t[i]
    <2>1. str = SubSeq(t, 1, k)
      BY <1>1
    <2>2. QED
      BY ONLY <2>1, <1>2, t \in Seq(Char), CutIs
  <1>4. DOMAIN str = 1 .. Len(str)
    BY <1>3, LenProperties
  <1>5. t[1] = r.line /\ t[2] = CR
    <2>1. 1 \in 1 .. Len(HeadOf(r)) /\ 2 \in 1 .. Len(HeadOf(r))
      BY TextIs
    <2>2. QED
      BY <1>1, <2>1, TextIs, HeadIs
  <1>6. str[1] = r.line /\ str[2] = CR
    <2>1. 1 \in 1 .. k /\ 2 \in 1 .. k
      OBVIOUS
    <2>2. QED
      BY ONLY <1>3, <1>5, <2>1
  <1>7. CR \in ToSet(str) /\ SelectInSeq(str, LAMBDA ch : ch = CR) = 2
    <2>1. str[1] # CR
      BY <1>6, RequestIs
    <2>2. QED
      BY <1>3, <1>4, <1>6, <2>1, FirstCR
  <1>8. SubSeq(str, 1, 1) = <<r.line>>
    <2>1. PICK u : u = SubSeq(str, 1, 1)
      OBVIOUS
    <2>2. u \in Seq(Char) /\ Len(u) = 1 /\ u[1] = str[1]
      <3>1. 1 \in 0 .. Len(str)
        BY <1>3
      <3>2. u \in Seq(Char) /\ Len(u) = 1 /\ \A i \in 1 .. 1 : u[i] = str[i]
        BY ONLY <2>1, <3>1, <1>3, CutIs
      <3>3. QED
        BY <3>2
    <2>3. PICK x \in Char : x = r.line
      BY RequestIs
    <2>4. PICK v : v = <<x>>
      OBVIOUS
    <2>5. v \in Seq(Char) /\ Len(v) = 1 /\ v[1] = x
      BY <2>4
    <2>6. u = v
      BY <1>6, <2>2, <2>3, <2>5, SeqEqual
    <2>7. QED
      BY <2>1, <2>3, <2>4, <2>6
  <1>9. SubSeq(str, 3, Len(str)) = SubSeq(Text(r), 3, k)
    <2>1. PICK n \in Nat : k = 2 + n
      <3>1. k - 2 \in Nat /\ k = 2 + (k - 2)
        OBVIOUS
      <3>2. QED
        BY <3>1
    <2>2. PICK z \in Nat, two \in Nat : z = 0 /\ two = 2
      OBVIOUS
    <2>3. z + two + n <= Len(t) /\ str = SubSeq(t, z + 1, z + two + n)
      BY <1>1, <1>2, <2>1, <2>2
    <2>4. SubSeq(str, two + 1, two + n) = SubSeq(t, (z + two) + 1, z + two + n)
      BY ONLY <2>3, z \in Nat, two \in Nat, n \in Nat, t \in Seq(Char), SliceOfSlice
    <2>5. two + 1 = 3 /\ two + n = Len(str) /\ (z + two) + 1 = 3 /\ z + two + n = k
      BY <1>3, <2>1, <2>2
    <2>6. QED
      BY <1>1, <2>4, <2>5
  <1>10. QED
    BY <1>7, <1>8, <1>9

(* A parser that finds the line incomplete, or wrong, changes the flag. *)
LEMMA Flagged ==
  ASSUME NEW q, Fields(q), NEW v, NEW p, p = [q EXCEPT !.flag = v]
  PROVE  /\ Fields(p) /\ p.flag = v
         /\ p.content = q.content /\ p.state = q.state /\ p.h_state = q.h_state /\ p.method = q.method
         /\ p.file_name = q.file_name
         /\ p.headers = q.headers /\ p.keep_alive = q.keep_alive /\ p.readTimes = q.readTimes
  BY DEF Fields

(* What becomes of the first k characters of r: the line is incomplete,    *)
(* it is among Known and taken, or it is refused.            *)
LineResult(q, p, r, k, Known) ==
    /\ Fields(p) /\ p.readTimes = q.readTimes
    /\ k < 2 => p.flag = "again" /\ AtLine(p, r, k)
    /\ k >= 2 /\ r.line \in Known => p.flag = "ok" /\ AtHead(p, r, k)
    /\ k >= 2 /\ r.line \notin Known => p.flag = "error"

LEMMA Unread ==
  ASSUME NEW r, NEW k \in Nat, k < 2, NEW Known, NEW q, Fields(q), AtLine(q, r, k), NEW p, p = [q EXCEPT !.flag = "again"]
  PROVE  LineResult(q, p, r, k, Known)
  <1>1. /\ Fields(p) /\ p.flag = "again"
        /\ p.content = q.content /\ p.state = q.state /\ p.h_state = q.h_state
        /\ p.file_name = q.file_name /\ p.headers = q.headers /\ p.keep_alive = q.keep_alive
        /\ p.readTimes = q.readTimes
    BY ONLY p = [q EXCEPT !.flag = "again"], Fields(q), Flagged
  <1>2. QED
    BY <1>1 DEF LineResult, AtLine

(* The lines that parse_request_line() takes. *)
Good == {word \in DOMAIN Lines : Accepts(Lines[word])}

LEMMA LineRead ==
  ASSUME NEW r \in Requests, NEW k \in Nat, k <= Len(Text(r)),
         NEW q, Fields(q), AtLine(q, r, k), q.flag = "ok", NEW p, p = ParseLine(q)
  PROVE  LineResult(q, p, r, k, Good)
  <1>1. PICK str : str = q.content /\ str = SubSeq(Text(r), 1, k)
    BY DEF AtLine
  <1>2. p = parse_request_line(q)
    BY DEF ParseLine, InState, AtLine
  <1>3. CASE k < 2
    <2>1. CR \notin ToSet(q.content)
      BY <1>1, <1>3, NoCR
    <2>2. p = [q EXCEPT !.flag = "again"]
      BY <1>2, <2>1 DEF parse_request_line
    <2>3. LineResult(q, p, r, k, Good)
      BY ONLY <1>3, <2>2, k \in Nat, Fields(q), AtLine(q, r, k), Unread
    <2>4. QED
      BY <2>3
  <1>4. CASE k >= 2
    <2>1. /\ CR \in ToSet(str) /\ SelectInSeq(str, LAMBDA ch : ch = CR) = 2
          /\ SubSeq(str, 1, 1) = <<r.line>> /\ SubSeq(str, 3, Len(str)) = SubSeq(Text(r), 3, k)
      BY <1>1, <1>4, LineIs
    <2>2. p = IF \E word \in DOMAIN Lines : <<r.line>> = <<word>> /\ Accepts(Lines[word])
              THEN [q EXCEPT !.content = SubSeq(Text(r), 3, k), !.method = Lines[<<r.line>>[1]].method,
                             !.file_name = NameOf(Lines[<<r.line>>[1]], @),
                             !.state = "STATE_PARSE_HEADERS", !.flag = "ok"]
              ELSE [q EXCEPT !.flag = "error"]
      <3>1. 2 - 1 = 1 /\ 2 + 1 = 3
        OBVIOUS
      <3>2. /\ CR \in ToSet(q.content) /\ SelectInSeq(q.content, LAMBDA ch : ch = CR) = 2
            /\ SubSeq(q.content, 1, 2 - 1) = <<r.line>>
            /\ SubSeq(q.content, 2 + 1, Len(q.content)) = SubSeq(Text(r), 3, k)
        BY <1>1, <2>1, <3>1
      <3>3. QED
        BY ONLY <1>2, <3>2, Zenon DEF parse_request_line
    <2>3. \A word : <<r.line>> = <<word>> <=> word = r.line
      OBVIOUS
    <2>4. <<r.line>>[1] = r.line /\ r.line \in DOMAIN Lines
      BY RequestIs
    <2>5. CASE r.line \in Good
      <3>1. PICK n : n = NameOf(Lines[r.line], q.file_name)
        OBVIOUS
      <3>2. p = [q EXCEPT !.content = SubSeq(Text(r), 3, k), !.method = Method(r), !.file_name = n,
                          !.state = "STATE_PARSE_HEADERS", !.flag = "ok"]
        <4>1. \E word \in DOMAIN Lines : <<r.line>> = <<word>> /\ Accepts(Lines[word])
          BY ONLY <2>5, Zenon DEF Good
        <4>2. p = [q EXCEPT !.content = SubSeq(Text(r), 3, k), !.method = Lines[<<r.line>>[1]].method,
                            !.file_name = NameOf(Lines[<<r.line>>[1]], q.file_name),
                            !.state = "STATE_PARSE_HEADERS", !.flag = "ok"]
          BY ONLY <2>2, <4>1
        <4>3. QED
          BY ONLY <2>4, <3>1, <4>2 DEF Method
      <3>3. n \in {NoName, Wanted(r)}
        <4>1. q.file_name = NoName
          BY DEF AtLine
        <4>2. n = IF Lines[r.line].url = "root" THEN "index.html"
                  ELSE IF Lines[r.line].url = "query" THEN Lines[r.line].file ELSE NoName
          BY ONLY <3>1, <4>1 DEF NameOf
        <4>3. QED
          BY ONLY <4>2 DEF Wanted
      <3>4. /\ Fields(p) /\ p.flag = "ok" /\ p.content = SubSeq(Text(r), 3, k) /\ p.method = Method(r)
            /\ p.file_name = n /\ p.state = "STATE_PARSE_HEADERS" /\ p.h_state = q.h_state
            /\ p.headers = q.headers /\ p.keep_alive = q.keep_alive /\ p.readTimes = q.readTimes
        BY ONLY <3>2, Fields(q) DEF Fields
      <3>5. QED
        BY <1>4, <2>5, <3>3, <3>4 DEF LineResult, AtLine, AtHead, Asks
    <2>6. CASE r.line \notin Good
      <3>1. p = [q EXCEPT !.flag = "error"]
        <4>1. ~ \E word \in DOMAIN Lines : <<r.line>> = <<word>> /\ Accepts(Lines[word])
          BY ONLY <2>3, <2>4, <2>6, Zenon DEF Good
        <4>2. QED
          BY ONLY <2>2, <4>1, Zenon
      <3>2. Fields(p) /\ p.flag = "error" /\ p.readTimes = q.readTimes
        BY ONLY <3>1, Fields(q), Flagged
      <3>3. QED
        BY <1>4, <2>6, <3>2 DEF LineResult
    <2>7. QED
      BY <2>5, <2>6
  <1>5. QED
    BY <1>3, <1>4

(* The lines that parse_uri() takes. *)
EarlyGood == {word \in DOMAIN Lines : EarlyAccepts(Lines[word])}

LEMMA EarlyLineRead ==
  ASSUME NEW r \in Requests, NEW k \in Nat, k <= Len(Text(r)),
         NEW q, Fields(q), AtLine(q, r, k), q.flag = "ok", NEW p, p = parse_uri(q)
  PROVE  LineResult(q, p, r, k, EarlyGood)
  <1>1. PICK str : str = q.content /\ str = SubSeq(Text(r), 1, k)
    BY DEF AtLine
  <1>2. InState(q, "STATE_PARSE_URI")
    BY DEF InState, AtLine
  <1>3. CASE k < 2
    <2>1. CR \notin ToSet(q.content)
      BY <1>1, <1>3, NoCR
    <2>2. p = [q EXCEPT !.flag = "again"]
      BY <1>2, <2>1 DEF parse_uri
    <2>3. LineResult(q, p, r, k, EarlyGood)
      BY ONLY <1>3, <2>2, k \in Nat, Fields(q), AtLine(q, r, k), Unread
    <2>4. QED
      BY <2>3
  <1>4. CASE k >= 2
    <2>1. /\ CR \in ToSet(str) /\ SelectInSeq(str, LAMBDA ch : ch = CR) = 2
          /\ SubSeq(str, 1, 1) = <<r.line>> /\ SubSeq(str, 3, Len(str)) = SubSeq(Text(r), 3, k)
      BY <1>1, <1>4, LineIs
    <2>2. p = IF \E word \in DOMAIN Lines : <<r.line>> = <<word>> /\ EarlyAccepts(Lines[word])
              THEN [q EXCEPT !.content = SubSeq(Text(r), 3, k), !.method = Lines[<<r.line>>[1]].method,
                             !.file_name = IF Lines[<<r.line>>[1]].url = "root" THEN "index.html"
                                           ELSE Lines[<<r.line>>[1]].file,
                             !.state = "STATE_PARSE_HEADERS"]
              ELSE [q EXCEPT !.flag = "error"]
      <3>1. 2 - 1 = 1 /\ 2 + 1 = 3
        OBVIOUS
      <3>2. /\ CR \in ToSet(q.content) /\ SelectInSeq(q.content, LAMBDA ch : ch = CR) = 2
            /\ SubSeq(q.content, 1, 2 - 1) = <<r.line>>
            /\ SubSeq(q.content, 2 + 1, Len(q.content)) = SubSeq(Text(r), 3, k)
        BY <1>1, <2>1, <3>1
      <3>3. QED
        BY ONLY <1>2, <3>2, p = parse_uri(q), Zenon DEF parse_uri
    <2>3. \A word : <<r.line>> = <<word>> <=> word = r.line
      OBVIOUS
    <2>4. <<r.line>>[1] = r.line /\ r.line \in DOMAIN Lines
      BY RequestIs
    <2>5. CASE r.line \in EarlyGood
      <3>1. p = [q EXCEPT !.content = SubSeq(Text(r), 3, k), !.method = Method(r), !.file_name = Wanted(r),
                          !.state = "STATE_PARSE_HEADERS"]
        <4>1. \E word \in DOMAIN Lines : <<r.line>> = <<word>> /\ EarlyAccepts(Lines[word])
          BY ONLY <2>5, Zenon DEF EarlyGood
        <4>2. p = [q EXCEPT !.content = SubSeq(Text(r), 3, k), !.method = Lines[<<r.line>>[1]].method,
                            !.file_name = IF Lines[<<r.line>>[1]].url = "root" THEN "index.html"
                                          ELSE Lines[<<r.line>>[1]].file,
                            !.state = "STATE_PARSE_HEADERS"]
          BY ONLY <2>2, <4>1
        <4>3. QED
          BY ONLY <2>4, <4>2 DEF Method, Wanted
      <3>2. p = [q EXCEPT !.content = SubSeq(Text(r), 3, k), !.method = Method(r), !.file_name = Wanted(r),
                          !.state = "STATE_PARSE_HEADERS", !.flag = "ok"]
        BY ONLY <3>1, Fields(q), q.flag = "ok" DEF Fields
      <3>3. /\ Fields(p) /\ p.flag = "ok" /\ p.content = SubSeq(Text(r), 3, k) /\ p.method = Method(r)
            /\ p.file_name = Wanted(r) /\ p.state = "STATE_PARSE_HEADERS" /\ p.h_state = q.h_state
            /\ p.headers = q.headers /\ p.keep_alive = q.keep_alive /\ p.readTimes = q.readTimes
        BY ONLY <3>2, Fields(q) DEF Fields
      <3>4. QED
        BY <1>4, <2>5, <3>3 DEF LineResult, AtLine, AtHead, Asks
    <2>6. CASE r.line \notin EarlyGood
      <3>1. p = [q EXCEPT !.flag = "error"]
        <4>1. ~ \E word \in DOMAIN Lines : <<r.line>> = <<word>> /\ EarlyAccepts(Lines[word])
          BY ONLY <2>3, <2>4, <2>6, Zenon DEF EarlyGood
        <4>2. QED
          BY ONLY <2>2, <4>1, Zenon
      <3>2. Fields(p) /\ p.flag = "error" /\ p.readTimes = q.readTimes
        BY ONLY <3>1, Fields(q), Flagged
      <3>3. QED
        BY <1>4, <2>6, <3>2 DEF LineResult
    <2>7. QED
      BY <2>5, <2>6
  <1>5. QED
    BY <1>3, <1>4

------------------------------------------------------------------------------
(* The head *)

(* Of the head, only the LF of the request line may have come. *)
LEMMA NoHeadScanned ==
  ASSUME NEW r \in Requests, NEW k \in Nat, k >= 2, k <= 3,
         NEW q, q.content = SubSeq(Text(r), 3, k), q.h_state = "h_start", NEW end, end = Scanned(q)
  PROVE  /\ end.h = "h_start" /\ end.headers = q.headers /\ end.line = 1
         /\ SubSeq(q.content, end.line, Len(q.content)) = q.content
  <1>1. PICK t \in Seq(Char) : t = Text(r) /\ Len(t) >= 11 /\ t[3] = LF
    <2>1. PICK n \in Nat : n = Len(HeadOf(r)) /\ n >= 11
      BY TextIs
    <2>2. Text(r) \in Seq(Char) /\ Len(Text(r)) = n + r.length /\ r.length \in Nat
      BY <2>1, TextIs, RequestIs
    <2>3. Text(r)[3] = LF
      <3>1. 3 \in 1 .. Len(HeadOf(r))
        BY <2>1
      <3>2. Text(r)[3] = HeadOf(r)[3]
        BY <3>1, TextIs
      <3>3. QED
        BY <3>2, HeadIs
    <2>4. QED
      BY <2>1, <2>2, <2>3
  <1>2. PICK n \in Nat : k = 2 + n /\ n <= 1
    <2>1. k - 2 \in Nat /\ k = 2 + (k - 2) /\ k - 2 <= 1
      OBVIOUS
    <2>2. QED
      BY <2>1
  <1>3. PICK str : str = q.content
    OBVIOUS
  <1>4. str \in Seq(Char) /\ Len(str) = n /\ \A i \in 1 .. n : str[i] = t[2 + i]
    <2>1. str = SubSeq(t, 2 + 1, k) /\ k <= Len(t)
      BY <1>1, <1>3
    <2>2. QED
      BY ONLY <2>1, <1>2, t \in Seq(Char), n \in Nat, k \in Nat, SliceIs
  <1>5. PICK f : f[0] = Scan(q) /\ Trace(f, str, n) /\ end = f[n]
    BY <1>3, <1>4, ScannedIs DEF Trace
  <1>6. f[0] = At("h_start", q.headers, 1, 0, 0, 0, 0)
    BY <1>5 DEF Scan, At
  <1>7. n = 1 => f[1] = At("h_start", q.headers, 1, 0, 0, 0, 0)
    <2> SUFFICES ASSUME n = 1 PROVE f[1] = At("h_start", q.headers, 1, 0, 0, 0, 0)
      OBVIOUS
    <2>1. str[1] \in {CR, LF}
      <3>1. 1 \in 1 .. n /\ 2 + 1 = 3
        OBVIOUS
      <3>2. str[1] = t[2 + 1]
        BY ONLY <3>1, <1>4
      <3>3. QED
        BY <1>1, <3>1, <3>2
    <2>2. f[1] = ReadOn(f[0], str, 1)
      <3>1. 0 \in Nat /\ 1 = 0 + 1 /\ 1 <= n
        OBVIOUS
      <3>2. QED
        BY ONLY <3>1, n \in Nat, <1>5, NextInTrace
    <2>3. QED
      BY ONLY <1>6, <2>1, <2>2, StartSkips
  <1>8. f[n] = At("h_start", q.headers, 1, 0, 0, 0, 0)
    BY <1>2, <1>6, <1>7
  <1>9. SubSeq(str, 1, Len(str)) = str
    <2>1. Len(str) \in 0 .. Len(str)
      BY <1>4
    <2>2. PICK u : u = SubSeq(str, 1, Len(str))
      OBVIOUS
    <2>3. u \in Seq(Char) /\ Len(u) = Len(str) /\ \A i \in 1 .. Len(str) : u[i] = str[i]
      BY ONLY <1>4, <2>1, <2>2, CutIs
    <2>4. u = str
      BY ONLY <1>4, <2>3, SeqEqual
    <2>5. QED
      BY <2>2, <2>4
  <1>10. end.h = "h_start" /\ end.headers = q.headers /\ end.line = 1
    BY <1>5, <1>8 DEF At
  <1>11. QED
    BY <1>3, <1>9, <1>10

(* What the end of the scan makes of the request. *)
LEMMA HeadTaken ==
  ASSUME NEW q, Fields(q), NEW end, end = Scanned(q), NEW p, p = parse_request_head(q)
  PROVE  /\ Fields(p) /\ p.content = SubSeq(q.content, end.line, Len(q.content))
         /\ p.h_state = end.h /\ p.headers = end.headers
         /\ end.h = "h_end_LF" => p.flag = "ok"
         /\ end.h = "h_start" => p.flag = "again"
         /\ p.state = q.state /\ p.method = q.method /\ p.file_name = q.file_name /\ p.keep_alive = q.keep_alive
         /\ p.readTimes = q.readTimes
  <1>1. p = [q EXCEPT !.content = SubSeq(@, end.line, Len(@)), !.h_state = end.h, !.headers = end.headers,
                      !.flag = CASE end.h = "error" -> "error" [] end.h = "h_end_LF" -> "ok" [] OTHER -> "again"]
    BY DEF parse_request_head
  <1>2. QED
    BY ONLY <1>1, Fields(q) DEF Fields

HeadResult(q, p, r, k) ==
    /\ Fields(p) /\ p.readTimes = q.readTimes
    /\ k <= 3 => p.flag = "again" /\ AtHead(p, r, k)
    /\ k > 3 /\ Method(r) = "POST" => p.flag = "ok" /\ AtBody(p, r, k)
    /\ k > 3 /\ Method(r) # "POST" => Done(p, r)

LEMMA HeadReadIs ==
  ASSUME NEW r \in Requests, NEW k \in Nat, k <= Len(Text(r)),
         k > 3 => k >= Len(HeadOf(r)) /\ (Method(r) = "POST" => k > Len(HeadOf(r))),
         NEW q, Fields(q), AtHead(q, r, k), q.flag = "ok", NEW p, p = ParseHead(q)
  PROVE  HeadResult(q, p, r, k)
  <1>1. PICK o : o = parse_request_head(q)
    OBVIOUS
  <1>2. PICK end : end = Scanned(q)
    OBVIOUS
  <1>3. p = IF o.flag # "ok" THEN o
            ELSE [o EXCEPT !.state = IF o.method = "POST" THEN "STATE_RECV_BODY" ELSE "STATE_ANALYSIS"]
    BY <1>1 DEF ParseHead, InState, AtHead
  <1>4. /\ Fields(o) /\ o.content = SubSeq(q.content, end.line, Len(q.content))
        /\ o.h_state = end.h /\ o.headers = end.headers
        /\ end.h = "h_end_LF" => o.flag = "ok"
        /\ end.h = "h_start" => o.flag = "again"
        /\ o.state = q.state /\ o.method = q.method /\ o.file_name = q.file_name /\ o.keep_alive = q.keep_alive
        /\ o.readTimes = q.readTimes
    BY ONLY <1>1, <1>2, Fields(q), HeadTaken
  <1>5. k >= 2 /\ q.content = SubSeq(Text(r), 3, k) /\ q.h_state = "h_start" /\ NoHeaders(q.headers)
        /\ q.keep_alive = FALSE /\ Asks(q, r)
    BY DEF AtHead
  <1>6. CASE k <= 3
    <2>1. /\ end.h = "h_start" /\ end.headers = q.headers
          /\ SubSeq(q.content, end.line, Len(q.content)) = q.content
      BY ONLY <1>2, <1>5, <1>6, r \in Requests, k \in Nat, NoHeadScanned
    <2>2. p = o
      BY <1>3, <1>4, <2>1
    <2>3. p.h_state = q.h_state /\ p.headers = q.headers /\ p.content = q.content /\ p.flag = "again"
      BY <1>4, <1>5, <2>1, <2>2
    <2>4. AtHead(p, r, k)
      BY <1>4, <2>2, <2>3, AtHead(q, r, k) DEF AtHead, Asks
    <2>5. QED
      BY <1>4, <1>6, <2>2, <2>3, <2>4 DEF HeadResult
  <1>7. CASE k > 3
    <2>1. k >= Len(HeadOf(r)) /\ (Method(r) = "POST" => k > Len(HeadOf(r)))
      BY <1>7
    <2>2. /\ end.h = "h_end_LF" /\ GoodHeaders(end.headers, r)
          /\ k > Len(HeadOf(r)) => end.line = Len(HeadOf(r)) - 1
      BY ONLY <1>2, <1>5, <2>1, k <= Len(Text(r)), r \in Requests, k \in Nat, HeadScanned
    <2>3. p = [o EXCEPT !.state = IF Method(r) = "POST" THEN "STATE_RECV_BODY" ELSE "STATE_ANALYSIS"]
      BY <1>3, <1>4, <1>5, <2>2 DEF Asks
    <2>4. /\ Fields(p) /\ p.state = (IF Method(r) = "POST" THEN "STATE_RECV_BODY" ELSE "STATE_ANALYSIS")
          /\ p.content = o.content /\ p.h_state = o.h_state /\ p.method = o.method
          /\ p.file_name = o.file_name
          /\ p.headers = o.headers /\ p.keep_alive = o.keep_alive /\ p.readTimes = o.readTimes
          /\ p.flag = o.flag
      BY ONLY <2>3, <1>4 DEF Fields
    <2>5. CASE Method(r) = "POST"
      <3>1. SubSeq(q.content, end.line, Len(q.content)) = SubSeq(Text(r), Len(HeadOf(r)) + 1, k)
        <4>1. PICK t \in Seq(Char) : t = Text(r)
          BY TextIs
        <4>2. PICK two \in Nat, m \in Nat, n \in Nat : two = 2 /\ two + m = Len(HeadOf(r)) /\ two + m + n = k
          <5>1. PICK hl \in Nat : hl = Len(HeadOf(r)) /\ hl >= 11
            BY TextIs
          <5>2. hl - 2 \in Nat /\ k - hl \in Nat /\ 2 + (hl - 2) = hl /\ 2 + (hl - 2) + (k - hl) = k
            BY <2>1, <5>1
          <5>3. QED
            BY <5>1, <5>2
        <4>3. two + 1 = 3
          BY <4>2
        <4>4. q.content = SubSeq(t, two + 1, two + m + n) /\ two + m + n <= Len(t)
          BY <1>5, <4>1, <4>2, <4>3
        <4>5. SubSeq(q.content, m + 1, m + n) = SubSeq(t, (two + m) + 1, two + m + n)
          BY ONLY <4>4, two \in Nat, m \in Nat, n \in Nat, t \in Seq(Char), SliceOfSlice
        <4>6. Len(q.content) = m + n
          <5>1. PICK mn \in Nat : mn = m + n
            OBVIOUS
          <5>2. two + m + n = two + mn
            BY <5>1
          <5>3. Len(SubSeq(t, two + 1, two + m + n)) = mn
            BY ONLY <4>4, <5>2, two \in Nat, mn \in Nat, t \in Seq(Char), SliceIs
          <5>4. QED
            BY <4>4, <5>1, <5>3
        <4>7. end.line = m + 1
          <5>1. end.line = Len(HeadOf(r)) - 1
            BY <2>1, <2>2, <2>5
          <5>2. QED
            BY <4>2, <5>1
        <4>8. QED
          BY <4>1, <4>2, <4>5, <4>6, <4>7
      <3>2. AtBody(p, r, k)
        BY <1>4, <1>5, <2>1, <2>2, <2>4, <2>5, <3>1 DEF AtBody, Asks
      <3>3. QED
        BY <1>4, <1>7, <2>2, <2>4, <2>5, <3>2 DEF HeadResult
    <2>6. CASE Method(r) # "POST"
      <3>1. Done(p, r)
        BY <1>4, <1>5, <2>2, <2>4, <2>6 DEF Done, Asks
      <3>2. QED
        BY <1>4, <1>7, <2>4, <2>6, <3>1 DEF HeadResult
    <2>7. QED
      BY <2>5, <2>6
  <1>8. QED
    BY <1>6, <1>7

------------------------------------------------------------------------------
(* The body *)

LEMMA LengthIs ==
  ASSUME NEW r \in Requests, NEW str, str = <<Decimal[r.length]>>
  PROVE  stoi(str) = r.length
  <1>1. r.length \in DOMAIN Decimal
    BY RequestIs
  <1>2. \A n \in DOMAIN Decimal : <<Decimal[n]>> = str => n = r.length
    <2>1. \A x, y : <<x>> = <<y>> => x = y
      OBVIOUS
    <2>2. QED
      BY <1>1, <2>1, HandlerAssumption
  <1>3. QED
    BY <1>1, <1>2 DEF stoi

BodyResult(q, p, r, k) ==
    /\ Fields(p) /\ p.readTimes = q.readTimes
    /\ k < Len(Text(r)) => p.flag = "again" /\ AtBody(p, r, k)
    /\ k = Len(Text(r)) => Done(p, r)

LEMMA BodyReadIs ==
  ASSUME NEW r \in Requests, NEW k \in Nat, k <= Len(Text(r)),
         NEW q, Fields(q), AtBody(q, r, k), q.flag = "ok", NEW p, p = RecvBody(q)
  PROVE  BodyResult(q, p, r, k)
  <1>1. /\ q.state = "STATE_RECV_BODY" /\ k > Len(HeadOf(r)) /\ Method(r) = "POST" /\ Asks(q, r)
        /\ q.content = SubSeq(Text(r), Len(HeadOf(r)) + 1, k)
        /\ GoodHeaders(q.headers, r) /\ q.keep_alive = FALSE
    BY DEF AtBody
  <1>2. ContentLength \in DOMAIN q.headers /\ stoi(q.headers[ContentLength]) = r.length
    BY <1>1, LengthIs DEF GoodHeaders
  <1>3. p = IF Len(q.content) < r.length THEN [q EXCEPT !.flag = "again"] ELSE [q EXCEPT !.state = "STATE_ANALYSIS"]
    BY <1>1, <1>2 DEF RecvBody, InState
  <1>4. Len(q.content) < r.length <=> k < Len(Text(r))
    <2>1. PICK t \in Seq(Char) : t = Text(r)
      BY TextIs
    <2>2. PICK h \in Nat : h = Len(HeadOf(r)) /\ Len(t) = h + r.length
      BY <2>1, TextIs
    <2>3. PICK m \in Nat : k = h + m
      <3>1. k - h \in Nat /\ k = h + (k - h)
        BY <1>1, <2>2
      <3>2. QED
        BY <3>1
    <2>4. k <= Len(t) /\ q.content = SubSeq(t, h + 1, k)
      BY <1>1, <2>1, <2>2
    <2>5. Len(SubSeq(t, h + 1, k)) = m
      BY ONLY <2>3, <2>4, h \in Nat, m \in Nat, k \in Nat, t \in Seq(Char), SliceIs
    <2>6. r.length \in Nat
      BY RequestIs
    <2>7. QED
      BY <2>1, <2>2, <2>3, <2>4, <2>5, <2>6
  <1>5. CASE k < Len(Text(r))
    <2>1. p = [q EXCEPT !.flag = "again"]
      BY <1>3, <1>4, <1>5
    <2>2. /\ Fields(p) /\ p.flag = "again"
          /\ p.content = q.content /\ p.state = q.state /\ p.h_state = q.h_state /\ p.method = q.method
         /\ p.file_name = q.file_name
          /\ p.headers = q.headers /\ p.keep_alive = q.keep_alive /\ p.readTimes = q.readTimes
      BY ONLY <2>1, Fields(q), Flagged
    <2>3. AtBody(p, r, k)
      BY ONLY <2>2, AtBody(q, r, k) DEF AtBody, Asks
    <2>4. QED
      BY <1>5, <2>2, <2>3 DEF BodyResult
  <1>6. CASE k = Len(Text(r))
    <2>1. ~(k < Len(Text(r)))
      BY <1>6
    <2>2. p = [q EXCEPT !.state = "STATE_ANALYSIS"]
      BY <1>3, <1>4, <2>1
    <2>3. /\ Fields(p) /\ p.flag = q.flag /\ p.state = "STATE_ANALYSIS"
          /\ p.content = q.content /\ p.method = q.method
         /\ p.file_name = q.file_name
          /\ p.headers = q.headers /\ p.keep_alive = q.keep_alive /\ p.readTimes = q.readTimes
      BY ONLY <2>2, Fields(q) DEF Fields
    <2>4. p.content = BodyOf(r)
      BY <1>1, <1>6, <2>3, TextIs
    <2>5. Done(p, r)
      BY <1>1, <2>3, <2>4 DEF Done, Asks
    <2>6. QED
      BY <2>1, <2>3, <2>5 DEF BodyResult
  <1>7. k < Len(Text(r)) \/ k = Len(Text(r))
    BY <1>5, <1>6, TextIs, RequestIs
  <1>8. QED
    BY <1>5, <1>6, <1>7

------------------------------------------------------------------------------
(* All of a call *)

(* What a request is between two calls that have read k characters of r. *)
Held(q, r, k) ==
    \/ k < 2 /\ AtLine(q, r, k)
    \/ k <= 3 /\ AtHead(q, r, k)
    \/ k < Len(Text(r)) /\ AtBody(q, r, k)

(* What a call makes of q, which has k characters of r. *)
Outcome(q, p, r, k, Known) ==
    /\ Fields(p) /\ p.readTimes = q.readTimes
    /\ \/ p.flag = "again" /\ Held(p, r, k)
       \/ p.flag = "error" /\ r.line \notin Known
       \/ Done(p, r) /\ k = Len(Text(r))

LEMMA AfterHead ==
  ASSUME Orderly, NEW r \in Requests, NEW k \in Nat, k <= Len(Text(r)), MayCut(r, k), NEW Known,
         NEW q, Fields(q), AtHead(q, r, k), q.flag = "ok", NEW p, p = RecvBody(ParseHead(q))
  PROVE  Outcome(q, p, r, k, Known)
  <1>1. PICK o : o = ParseHead(q)
    OBVIOUS
  <1>2. k > 3 => /\ k >= Len(HeadOf(r)) /\ (Method(r) = "POST" => k > Len(HeadOf(r)))
                 /\ (Method(r) # "POST" => k = Len(Text(r)))
    BY Places
  <1>3. HeadResult(q, o, r, k)
    BY ONLY <1>1, <1>2, r \in Requests, k \in Nat, k <= Len(Text(r)), Fields(q), AtHead(q, r, k), q.flag = "ok",
            HeadReadIs
  <1>4. p = RecvBody(o)
    BY <1>1
  <1>5. CASE k <= 3
    <2>1. Fields(o) /\ o.readTimes = q.readTimes /\ o.flag = "again" /\ AtHead(o, r, k)
      BY <1>3, <1>5 DEF HeadResult
    <2>2. p = o
      BY <1>4, <2>1 DEF RecvBody, InState
    <2>3. QED
      BY <1>5, <2>1, <2>2 DEF Outcome, Held
  <1>6. CASE k > 3 /\ Method(r) # "POST"
    <2>1. Fields(o) /\ o.readTimes = q.readTimes /\ Done(o, r)
      BY <1>3, <1>6 DEF HeadResult
    <2>2. p = o
      BY <1>4, <2>1 DEF RecvBody, InState, Done
    <2>3. QED
      BY <1>2, <1>6, <2>1, <2>2 DEF Outcome
  <1>7. CASE k > 3 /\ Method(r) = "POST"
    <2>1. Fields(o) /\ o.readTimes = q.readTimes /\ o.flag = "ok" /\ AtBody(o, r, k)
      BY <1>3, <1>7 DEF HeadResult
    <2>2. BodyResult(o, p, r, k)
      BY ONLY <1>4, <2>1, r \in Requests, k \in Nat, k <= Len(Text(r)), BodyReadIs
    <2>3. k < Len(Text(r)) \/ k = Len(Text(r))
      BY TextIs, RequestIs
    <2>4. QED
      BY <2>1, <2>2, <2>3 DEF BodyResult, Outcome, Held
  <1>8. QED
    BY <1>5, <1>6, <1>7

LEMMA AfterBody ==
  ASSUME NEW r \in Requests, NEW k \in Nat, k <= Len(Text(r)), NEW Known,
         NEW q, Fields(q), AtBody(q, r, k), q.flag = "ok", NEW p, p = RecvBody(ParseHead(q))
  PROVE  Outcome(q, p, r, k, Known)
  <1>1. ParseHead(q) = q
    BY DEF ParseHead, InState, AtBody
  <1>2. BodyResult(q, p, r, k)
    BY ONLY <1>1, p = RecvBody(ParseHead(q)), r \in Requests, k \in Nat, k <= Len(Text(r)), Fields(q),
            AtBody(q, r, k), q.flag = "ok", BodyReadIs
  <1>3. k < Len(Text(r)) \/ k = Len(Text(r))
    BY TextIs, RequestIs
  <1>4. QED
    BY <1>2, <1>3 DEF BodyResult, Outcome, Held

(* In the state of the line, it is one of the two parsers of it that has   *)
(* made l of q; in the others neither does anything.                       *)
LEMMA AfterLine ==
  ASSUME Orderly, NEW r \in Requests, NEW k \in Nat, k <= Len(Text(r)), MayCut(r, k), NEW Known,
         NEW q, NEW l, LineResult(q, l, r, k, Known), NEW p, p = RecvBody(ParseHead(l))
  PROVE  Outcome(q, p, r, k, Known)
  <1>1. Fields(l) /\ l.readTimes = q.readTimes
    BY DEF LineResult
  <1>2. CASE k < 2
    <2>1. l.flag = "again" /\ AtLine(l, r, k)
      BY <1>2 DEF LineResult
    <2>2. p = l
      BY <2>1 DEF ParseHead, RecvBody, InState
    <2>3. QED
      BY <1>1, <1>2, <2>1, <2>2 DEF Outcome, Held
  <1>3. CASE k >= 2 /\ r.line \in Known
    <2>1. l.flag = "ok" /\ AtHead(l, r, k)
      BY <1>3 DEF LineResult
    <2>2. Outcome(l, p, r, k, Known)
      BY ONLY <1>1, <2>1, Orderly, r \in Requests, k \in Nat, k <= Len(Text(r)), MayCut(r, k),
              p = RecvBody(ParseHead(l)), AfterHead
    <2>3. QED
      BY <1>1, <2>2 DEF Outcome
  <1>4. CASE k >= 2 /\ r.line \notin Known
    <2>1. l.flag = "error"
      BY <1>4 DEF LineResult
    <2>2. p = l
      BY <2>1 DEF ParseHead, RecvBody, InState
    <2>3. QED
      BY <1>1, <1>4, <2>1, <2>2 DEF Outcome
  <1>5. QED
    BY <1>2, <1>3, <1>4

(* Before the call, but with what it has read. *)
Ready(q, r, k) ==
    /\ Fields(q) /\ q.flag = "ok"
    /\ AtLine(q, r, k) \/ AtHead(q, r, k) \/ AtBody(q, r, k)

LEMMA Handled ==
  ASSUME Orderly, NEW r \in Requests, NEW k \in Nat, k <= Len(Text(r)), MayCut(r, k), NEW q, Ready(q, r, k),
         NEW p, p = RecvBody(ParseHead(ParseLine(q)))
  PROVE  Outcome(q, p, r, k, Good)
  <1>1. PICK l : l = ParseLine(q)
    OBVIOUS
  <1>2. Fields(q) /\ q.flag = "ok" /\ p = RecvBody(ParseHead(l))
    BY <1>1 DEF Ready
  <1>3. CASE AtLine(q, r, k)
    <2>1. LineResult(q, l, r, k, Good)
      BY ONLY <1>1, <1>2, <1>3, r \in Requests, k \in Nat, k <= Len(Text(r)), LineRead
    <2>2. QED
      BY ONLY <1>2, <2>1, Orderly, r \in Requests, k \in Nat, k <= Len(Text(r)), MayCut(r, k), AfterLine
  <1>4. CASE AtHead(q, r, k)
    <2>1. l = q
      BY <1>1, <1>4 DEF ParseLine, InState, AtHead
    <2>2. QED
      BY ONLY <1>2, <1>4, <2>1, Orderly, r \in Requests, k \in Nat, k <= Len(Text(r)), MayCut(r, k), AfterHead
  <1>5. CASE AtBody(q, r, k)
    <2>1. l = q
      BY <1>1, <1>5 DEF ParseLine, InState, AtBody
    <2>2. QED
      BY ONLY <1>2, <1>5, <2>1, r \in Requests, k \in Nat, k <= Len(Text(r)), AfterBody
  <1>6. QED
    BY <1>3, <1>4, <1>5 DEF Ready

LEMMA EarlyHandled ==
  ASSUME Orderly, NEW r \in Requests, NEW k \in Nat, k <= Len(Text(r)), MayCut(r, k), NEW q, Ready(q, r, k),
         NEW p, p = RecvBody(parse_headers(parse_uri(q)))
  PROVE  Outcome(q, p, r, k, EarlyGood)
  <1>1. PICK l : l = parse_uri(q)
    OBVIOUS
  <1>2. Fields(q) /\ q.flag = "ok" /\ p = RecvBody(ParseHead(l))
    BY <1>1 DEF Ready, parse_headers
  <1>3. CASE AtLine(q, r, k)
    <2>1. LineResult(q, l, r, k, EarlyGood)
      BY ONLY <1>1, <1>2, <1>3, r \in Requests, k \in Nat, k <= Len(Text(r)), EarlyLineRead
    <2>2. QED
      BY ONLY <1>2, <2>1, Orderly, r \in Requests, k \in Nat, k <= Len(Text(r)), MayCut(r, k), AfterLine
  <1>4. CASE AtHead(q, r, k)
    <2>1. l = q
      BY <1>1, <1>4 DEF parse_uri, InState, AtHead
    <2>2. QED
      BY ONLY <1>2, <1>4, <2>1, Orderly, r \in Requests, k \in Nat, k <= Len(Text(r)), MayCut(r, k), AfterHead
  <1>5. CASE AtBody(q, r, k)
    <2>1. l = q
      BY <1>1, <1>5 DEF parse_uri, InState, AtBody
    <2>2. QED
      BY ONLY <1>2, <1>5, <2>1, r \in Requests, k \in Nat, k <= Len(Text(r)), AfterBody
  <1>6. QED
    BY <1>3, <1>4, <1>5 DEF Ready

(* What a request that is complete is answered. *)
AnswerFor(r) ==
    [method     |-> Method(r),
     file       |-> IF Method(r) = "POST" THEN NoName ELSE Wanted(r),
     content    |-> IF Method(r) = "POST" THEN BodyOf(r) ELSE <<>>,
     keep_alive |-> r.keep_alive]

Answers ==
    [method : {Method(r) : r \in Requests}, file : {NoName} \cup {Wanted(r) : r \in Requests},
     content : Seq(Char), keep_alive : BOOLEAN]

LEMMA AnswerIs ==
  ASSUME NEW r \in Requests, NEW p, Done(p, r), ~NoFile(p)
  PROVE  /\ AnswerTo(p) = AnswerFor(r)
         /\ AnswerFor(r) \in Answers
         /\ AnswerFor(r).keep_alive = r.keep_alive
  <1>1. p.method = Method(r) /\ p.file_name \in {NoName, Wanted(r)} /\ p.keep_alive = FALSE
        /\ (Method(r) = "POST" => p.content = BodyOf(r))
        /\ ((Connection \in DOMAIN p.headers /\ p.headers[Connection] = <<"keep-alive">>) <=> r.keep_alive)
    BY DEF Done, GoodHeaders, Asks
  <1>2. r.keep_alive \in BOOLEAN /\ BodyOf(r) \in Seq(Char) /\ <<>> \in Seq(Char)
    BY RequestIs, BodyIs, EmptySeq
  <1>3. PICK b \in BOOLEAN : b = AnswerTo(p).keep_alive
    BY <1>1 DEF AnswerTo
  <1>4. b = r.keep_alive
    BY <1>1, <1>2, <1>3 DEF AnswerTo
  <1>5. PICK x : x = IF Method(r) = "POST" THEN NoName ELSE Wanted(r)
    OBVIOUS
  <1>6. x = IF p.method = "POST" THEN NoName ELSE p.file_name
    BY <1>1, <1>5 DEF NoFile
  <1>7. AnswerTo(p) = AnswerFor(r)
    <2>1. PICK c : c = IF Method(r) = "POST" THEN BodyOf(r) ELSE <<>>
      OBVIOUS
    <2>2. c = IF p.method = "POST" THEN p.content ELSE <<>>
      BY ONLY <1>1, <2>1
    <2>3. AnswerTo(p) = [method |-> Method(r), file |-> x, content |-> c, keep_alive |-> b]
      BY ONLY <1>1, <1>3, <1>6, <2>2 DEF AnswerTo
    <2>4. AnswerFor(r) = [method |-> Method(r), file |-> x, content |-> c, keep_alive |-> b]
      BY ONLY <1>4, <1>5, <2>1 DEF AnswerFor
    <2>5. QED
      BY ONLY <2>3, <2>4
  <1>8. AnswerFor(r) \in Answers
    <2>1. PICK c \in Seq(Char) : c = IF Method(r) = "POST" THEN BodyOf(r) ELSE <<>>
      BY <1>2
    <2>2. x \in {NoName} \cup {Wanted(o) : o \in Requests} /\ Method(r) \in {Method(o) : o \in Requests}
      BY <1>5
    <2>3. AnswerFor(r) = [method |-> Method(r), file |-> x, content |-> c, keep_alive |-> r.keep_alive]
      BY ONLY <1>5, <2>1 DEF AnswerFor
    <2>4. QED
      BY ONLY <1>2, <2>2, <2>3, c \in Seq(Char) DEF Answers
  <1>9. QED
    BY <1>7, <1>8 DEF AnswerFor

------------------------------------------------------------------------------
(* A request under way *)

(* Of r, a characters have arrived, and k have been read, into q: w is     *)
(* what the network still has, s what the socket has.                      *)
Flight(q, r, w, s, a, k) ==
    /\ a <= Len(Text(r)) /\ k <= a /\ MayCut(r, a)
    /\ w = SubSeq(Text(r), a + 1, Len(Text(r))) /\ s = SubSeq(Text(r), k + 1, a)
    /\ Fields(q) /\ Held(q, r, k)

(* q with x behind its content, as a call begins. *)
Loaded(q, old, x) ==
    /\ Fields(q) /\ q.flag = "ok" /\ q.content = Concat(old.content, x)
    /\ q.state = old.state /\ q.h_state = old.h_state /\ q.method = old.method
    /\ q.file_name = old.file_name
    /\ q.headers = old.headers /\ q.keep_alive = old.keep_alive

LEMMA MoreRead ==
  ASSUME NEW r \in Requests, NEW k \in Nat, NEW e \in Nat, k <= e, e <= Len(Text(r)),
         NEW old, Held(old, r, k), NEW q, Loaded(q, old, SubSeq(Text(r), k + 1, e))
  PROVE  Ready(q, r, e)
  <1>1. PICK t \in Seq(Char) : t = Text(r)
    BY TextIs
  <1>2. k <= e /\ e <= Len(t) /\ q.content = Concat(old.content, SubSeq(t, k + 1, e))
    BY <1>1 DEF Loaded
  <1>3. CASE AtLine(old, r, k)
    <2>1. PICK z \in Nat : z = 0
      OBVIOUS
    <2>2. z + 1 = 1 /\ z <= k
      BY <2>1
    <2>3. old.content = SubSeq(t, z + 1, k)
      BY <1>1, <1>3, <2>2 DEF AtLine
    <2>4. q.content = SubSeq(t, z + 1, e)
      <3>1. z <= k
        BY <2>2
      <3>2. Concat(SubSeq(t, z + 1, k), SubSeq(t, k + 1, e)) = SubSeq(t, z + 1, e)
        BY ONLY <1>2, <3>1, z \in Nat, k \in Nat, e \in Nat, t \in Seq(Char), SlicesJoin
      <3>3. QED
        BY ONLY <1>2, <2>3, <3>2
    <2>5. AtLine(q, r, e)
      BY <1>1, <1>3, <2>2, <2>4 DEF AtLine, Loaded
    <2>6. QED
      BY <2>5 DEF Ready, Loaded
  <1>4. CASE AtHead(old, r, k)
    <2>1. PICK z \in Nat : z = 2
      OBVIOUS
    <2>2. z + 1 = 3 /\ z <= k /\ e >= 2
      BY <1>4, <2>1 DEF AtHead
    <2>3. old.content = SubSeq(t, z + 1, k)
      BY <1>1, <1>4, <2>2 DEF AtHead
    <2>4. q.content = SubSeq(t, z + 1, e)
      <3>1. z <= k
        BY <2>2
      <3>2. Concat(SubSeq(t, z + 1, k), SubSeq(t, k + 1, e)) = SubSeq(t, z + 1, e)
        BY ONLY <1>2, <3>1, z \in Nat, k \in Nat, e \in Nat, t \in Seq(Char), SlicesJoin
      <3>3. QED
        BY ONLY <1>2, <2>3, <3>2
    <2>5. AtHead(q, r, e)
      BY <1>1, <1>4, <2>2, <2>4 DEF AtHead, Loaded, Asks
    <2>6. QED
      BY <2>5 DEF Ready, Loaded
  <1>5. CASE AtBody(old, r, k)
    <2>1. PICK z \in Nat : z = Len(HeadOf(r))
      BY TextIs
    <2>2. z <= k /\ e > z
      BY <1>5, <2>1 DEF AtBody
    <2>3. old.content = SubSeq(t, z + 1, k)
      BY <1>1, <1>5, <2>1 DEF AtBody
    <2>4. q.content = SubSeq(t, z + 1, e)
      <3>1. z <= k
        BY <2>2
      <3>2. Concat(SubSeq(t, z + 1, k), SubSeq(t, k + 1, e)) = SubSeq(t, z + 1, e)
        BY ONLY <1>2, <3>1, z \in Nat, k \in Nat, e \in Nat, t \in Seq(Char), SlicesJoin
      <3>3. QED
        BY ONLY <1>2, <2>3, <3>2
    <2>5. AtBody(q, r, e)
      BY <1>1, <1>5, <2>1, <2>2, <2>4 DEF AtBody, Loaded, Asks
    <2>6. QED
      BY <2>5 DEF Ready, Loaded
  <1>6. QED
    BY <1>3, <1>4, <1>5 DEF Held

(* What a call reads, and what it leaves in the socket. *)
LEMMA CallIs ==
  ASSUME Orderly, NEW r \in Requests, NEW a \in Nat, NEW k \in Nat, NEW q, NEW w, Flight(q, r, w, socket, a, k)
  PROVE  \E e \in Nat : /\ k <= e /\ e <= a /\ e <= Len(Text(r)) /\ MayCut(r, e)
                        /\ SubSeq(socket, 1, Reads) = SubSeq(Text(r), k + 1, e)
                        /\ SubSeq(socket, Reads + 1, Len(socket)) = SubSeq(Text(r), e + 1, a)
  <1>1. PICK t \in Seq(Char) : t = Text(r)
    BY TextIs
  <1>2. a <= Len(t) /\ k <= a /\ MayCut(r, a) /\ socket = SubSeq(t, k + 1, a)
    BY <1>1 DEF Flight
  <1>3. Len(socket) = a - k
    <2>1. PICK l \in Nat : a = k + l
      <3>1. a - k \in Nat /\ a = k + (a - k)
        BY <1>2
      <3>2. QED
        BY <3>1
    <2>2. Len(SubSeq(t, k + 1, a)) = l
      BY ONLY <1>2, <2>1, t \in Seq(Char), a \in Nat, k \in Nat, l \in Nat, SliceIs
    <2>3. QED
      BY <1>2, <2>1, <2>2
  <1>4. PICK m \in Nat : m = Reads /\ (m = a - k \/ (m < a - k /\ m = MAX_BUFF))
    <2>1. PICK l \in Nat : l = a - k
      <3>1. a - k \in Nat
        BY <1>2
      <3>2. QED
        BY <3>1
    <2>2. PICK mb \in Nat : mb = MAX_BUFF
      BY HandlerAssumption
    <2>3. PICK m \in Nat : m = IF l < mb THEN l ELSE mb
      OBVIOUS
    <2>4. m = Reads
      BY ONLY <1>3, <2>1, <2>2, <2>3 DEF Reads
    <2>5. m = l \/ (m < l /\ m = mb)
      BY <2>3
    <2>6. QED
      BY <2>1, <2>2, <2>4, <2>5
  <1>5. PICK n \in Nat : n = a - k - m
    <2>1. a - k - m \in Nat
      BY <1>2, <1>4
    <2>2. QED
      BY <2>1
  <1>6. a = k + m + n
    BY <1>5
  <1>7. socket = SubSeq(t, k + 1, k + m + n) /\ k + m + n <= Len(t)
    BY <1>2, <1>6
  <1>8. Len(socket) = m + n /\ SubSeq(socket, 1, m) = SubSeq(t, k + 1, k + m)
    BY ONLY <1>7, t \in Seq(Char), k \in Nat, m \in Nat, n \in Nat, FrontOfSlice
  <1>9. SubSeq(socket, m + 1, m + n) = SubSeq(t, (k + m) + 1, k + m + n)
    BY ONLY <1>7, t \in Seq(Char), k \in Nat, m \in Nat, n \in Nat, SliceOfSlice
  <1>10. MayCut(r, k + m)
    <2>1. CASE m = a - k
      <3>1. k + m = a
        BY <2>1
      <3>2. QED
        BY <1>2, <3>1
    <2>2. CASE m = MAX_BUFF
      <3>1. PICK h \in Nat : h = Len(HeadOf(r)) /\ h < MAX_BUFF
        BY TextIs DEF Orderly
      <3>2. k + m > h
        BY <2>2, <3>1
      <3>3. QED
        BY <3>1, <3>2 DEF MayCut
    <2>3. QED
      BY <1>4, <2>1, <2>2
  <1>11. PICK e \in Nat : e = k + m
    OBVIOUS
  <1>12. k <= e /\ e <= a
    BY <1>6, <1>11
  <1>13. e <= Len(t)
    BY <1>2, <1>12, LenProperties
  <1>14. SubSeq(socket, 1, Reads) = SubSeq(t, k + 1, e)
    BY <1>4, <1>8, <1>11
  <1>15. SubSeq(socket, Reads + 1, Len(socket)) = SubSeq(t, e + 1, a)
    BY <1>4, <1>6, <1>8, <1>9, <1>11
  <1>16. QED
    BY <1>1, <1>10, <1>11, <1>12, <1>13, <1>14, <1>15

LEMMA NothingLeft == ASSUME NEW r \in Requests, NEW l, l = Len(Text(r)) PROVE SubSeq(Text(r), l + 1, l) = <<>>
  <1>1. PICK t \in Seq(Char) : t = Text(r)
    BY TextIs
  <1>2. Len(t) \in 0 .. Len(t) /\ Len(t) - Len(t) = 0
    BY <1>1, LenProperties
  <1>3. PICK u : u = SubSeq(t, Len(t) + 1, Len(t))
    OBVIOUS
  <1>4. u \in Seq(Char) /\ Len(u) = Len(t) - Len(t)
    BY ONLY <1>2, <1>3, t \in Seq(Char), CutIs
  <1>5. u = <<>>
    BY <1>2, <1>4, EmptySeq
  <1>6. QED
    BY <1>1, <1>3, <1>5

(* The result of a call: part of a request, a refusal or a whole request,  *)
(* of which then nothing is left.                                          *)
CallResult(p, q, r, w, s, Known) ==
    /\ Fields(p) /\ p.readTimes = q.readTimes
    /\ \/ p.flag = "again" /\ \E a, k \in Nat : Flight(p, r, w, s, a, k)
       \/ p.flag = "error" /\ r.line \notin Known
       \/ Done(p, r) /\ w = <<>> /\ s = <<>>

LEMMA CallEnds ==
  ASSUME NEW r \in Requests, NEW a \in Nat, NEW k \in Nat, NEW e \in Nat, k <= e, e <= a,
         NEW old, NEW w, Flight(old, r, w, socket, a, k), NEW s, s = SubSeq(Text(r), e + 1, a),
         NEW q, NEW p, NEW Known, Outcome(q, p, r, e, Known)
  PROVE  CallResult(p, q, r, w, s, Known)
  <1>1. Fields(p) /\ p.readTimes = q.readTimes
    BY DEF Outcome
  <1>2. CASE p.flag = "again" /\ Held(p, r, e)
    <2>1. Flight(p, r, w, s, a, e)
      BY <1>1, <1>2 DEF Flight
    <2>2. QED
      BY <1>1, <1>2, <2>1 DEF CallResult
  <1>3. CASE p.flag = "error" /\ r.line \notin Known
    BY <1>1, <1>3 DEF CallResult
  <1>4. CASE Done(p, r) /\ e = Len(Text(r))
    <2>1. a = e
      BY <1>4 DEF Flight
    <2>2. w = <<>> /\ s = <<>>
      BY <1>4, <2>1, NothingLeft DEF Flight
    <2>3. QED
      BY <1>1, <1>4, <2>2 DEF CallResult
  <1>5. QED
    BY <1>2, <1>3, <1>4 DEF Outcome

LEMMA CallHandled ==
  ASSUME Orderly, NEW r \in Requests, NEW a \in Nat, NEW k \in Nat, Flight(req, r, wire, socket, a, k),
         NEW q, Loaded(q, req, SubSeq(socket, 1, Reads)), NEW p, p = RecvBody(ParseHead(ParseLine(q))),
         NEW s, s = SubSeq(socket, Reads + 1, Len(socket))
  PROVE  CallResult(p, q, r, wire, s, Good)
  <1>1. PICK e \in Nat : /\ k <= e /\ e <= a /\ e <= Len(Text(r)) /\ MayCut(r, e)
                         /\ SubSeq(socket, 1, Reads) = SubSeq(Text(r), k + 1, e)
                         /\ SubSeq(socket, Reads + 1, Len(socket)) = SubSeq(Text(r), e + 1, a)
    BY CallIs
  <1>2. Ready(q, r, e)
    <2>1. Held(req, r, k) /\ Loaded(q, req, SubSeq(Text(r), k + 1, e))
      BY <1>1 DEF Flight
    <2>2. QED
      BY ONLY <1>1, <2>1, r \in Requests, k \in Nat, e \in Nat, MoreRead
  <1>3. Outcome(q, p, r, e, Good)
    BY ONLY <1>1, <1>2, Orderly, r \in Requests, e \in Nat, p = RecvBody(ParseHead(ParseLine(q))), Handled
  <1>4. s = SubSeq(Text(r), e + 1, a)
    BY <1>1
  <1>5. QED
    BY ONLY <1>1, <1>3, <1>4, r \in Requests, a \in Nat, k \in Nat, e \in Nat,
            Flight(req, r, wire, socket, a, k), CallEnds

LEMMA EarlyCallHandled ==
  ASSUME Orderly, NEW r \in Requests, NEW a \in Nat, NEW k \in Nat, Flight(req, r, wire, socket, a, k),
         NEW q, Loaded(q, req, SubSeq(socket, 1, Reads)), NEW p, p = RecvBody(parse_headers(parse_uri(q))),
         NEW s, s = SubSeq(socket, Reads + 1, Len(socket))
  PROVE  CallResult(p, q, r, wire, s, EarlyGood)
  <1>1. PICK e \in Nat : /\ k <= e /\ e <= a /\ e <= Len(Text(r)) /\ MayCut(r, e)
                         /\ SubSeq(socket, 1, Reads) = SubSeq(Text(r), k + 1, e)
                         /\ SubSeq(socket, Reads + 1, Len(socket)) = SubSeq(Text(r), e + 1, a)
    BY CallIs
  <1>2. Ready(q, r, e)
    <2>1. Held(req, r, k) /\ Loaded(q, req, SubSeq(Text(r), k + 1, e))
      BY <1>1 DEF Flight
    <2>2. QED
      BY ONLY <1>1, <2>1, r \in Requests, k \in Nat, e \in Nat, MoreRead
  <1>3. Outcome(q, p, r, e, EarlyGood)
    BY ONLY <1>1, <1>2, Orderly, r \in Requests, e \in Nat, p = RecvBody(parse_headers(parse_uri(q))), EarlyHandled
  <1>4. s = SubSeq(Text(r), e + 1, a)
    BY <1>1
  <1>5. QED
    BY ONLY <1>1, <1>3, <1>4, r \in Requests, a \in Nat, k \in Nat, e \in Nat,
            Flight(req, r, wire, socket, a, k), CallEnds

------------------------------------------------------------------------------
(* The invariant *)

(* A request between two requests of the client. *)
Fresh(q) ==
    /\ Fields(q) /\ q.content = <<>> /\ q.state = "STATE_PARSE_URI" /\ q.h_state = "h_start"
    /\ NoHeaders(q.headers) /\ q.keep_alive = FALSE /\ q.file_name = NoName

Idle == Len(asked) = Len(answers) /\ wire = <<>> /\ socket = <<>> /\ Fresh(req)

Busy ==
    /\ Len(asked) = Len(answers) + 1
    /\ \E a, k \in Nat : Flight(req, Last(asked), wire, socket, a, k)

ReqTyped(q) ==
    /\ q.content \in Seq(Char)
    /\ q.state \in {"STATE_PARSE_URI", "STATE_PARSE_HEADERS", "STATE_RECV_BODY"}
    /\ q.h_state \in {"h_start", "h_key", "h_colon", "h_spaces_after_colon", "h_value",
                      "h_CR", "h_LF", "h_end_CR", "h_end_LF"}

(* The state of the connection, but for the request, and the answers.      *)
Around ==
    /\ asked \in Seq(Requests) /\ Len(asked) <= MaxRequests
    /\ wire \in Seq(Char) /\ socket \in Seq(Char)
    /\ eof \in BOOLEAN /\ open \in BOOLEAN
    /\ errno \in [Workers -> {"0", "EAGAIN", "other"}]

(* TypeOK, but for `whole`. *)
Typing ==
    /\ Around /\ ReqTyped(req) /\ req.readTimes \in 0 .. MAX_READ_TIMES + 1
    /\ Len(answers) <= Len(asked)

(* AnsweredAsSent, for a network that has done no harm. *)
AllAnswered == \A i \in DOMAIN answers : answers[i] = AnswerFor(asked[i])

(* Every answer so far is the right one, and as long as the connection is  *)
(* open the server knows where it is: nothing of an old request is left    *)
(* when a new one is made, and every character of that is on the wire, in  *)
(* the socket, or has been taken as what it is.                            *)
Conversation ==
    /\ Typing /\ Fields(req) /\ answers \in Seq(Answers) /\ AllAnswered
    /\ open => Idle \/ Busy

LEMMA HeldTyped ==
  ASSUME NEW r \in Requests, NEW k \in Nat, k <= Len(Text(r)), NEW q, Held(q, r, k)
  PROVE  ReqTyped(q)
  <1>1. PICK t \in Seq(Char) : t = Text(r)
    BY TextIs
  <1>2. \A b \in Nat : b <= k => SubSeq(t, b + 1, k) \in Seq(Char)
    <2> TAKE b \in Nat
    <2> HAVE b <= k
    <2>1. PICK m \in Nat : k = b + m
      <3>1. k - b \in Nat /\ k = b + (k - b)
        OBVIOUS
      <3>2. QED
        BY <3>1
    <2>2. k <= Len(t)
      BY <1>1
    <2>3. QED
      BY ONLY <2>1, <2>2, t \in Seq(Char), b \in Nat, m \in Nat, k \in Nat, SliceIs
  <1>3. CASE AtLine(q, r, k)
    <2>1. 0 \in Nat /\ 0 <= k /\ 0 + 1 = 1
      OBVIOUS
    <2>2. QED
      BY <1>1, <1>2, <1>3, <2>1 DEF AtLine, ReqTyped
  <1>4. CASE AtHead(q, r, k)
    <2>1. 2 \in Nat /\ 2 + 1 = 3
      OBVIOUS
    <2>2. QED
      BY <1>1, <1>2, <1>4, <2>1 DEF AtHead, ReqTyped
  <1>5. CASE AtBody(q, r, k)
    <2>1. PICK h \in Nat : h = Len(HeadOf(r))
      BY TextIs
    <2>2. h <= k
      BY <1>5, <2>1 DEF AtBody
    <2>3. q.content \in Seq(Char)
      BY <1>1, <1>2, <1>5, <2>1, <2>2 DEF AtBody
    <2>4. QED
      BY <1>5, <2>3 DEF AtBody, ReqTyped
  <1>6. QED
    BY <1>3, <1>4, <1>5 DEF Held

(* What reset() leaves of a request whose method is m. *)
Blank(m) == [content |-> <<>>, state |-> "STATE_PARSE_URI", h_state |-> "h_start", method |-> m,
             file_name |-> NoName, headers |-> <<>>, keep_alive |-> FALSE, readTimes |-> 0, flag |-> "ok"]

LEMMA NewIsBlank == NewRequest = Blank("NOT_DEFINED")
  BY Zenon DEF NewRequest, Blank

LEMMA ResetIsBlank == ASSUME NEW m, NEW q, q = [NewRequest EXCEPT !.method = m] PROVE q = Blank(m)
  <1>1. q = [content |-> <<>>, state |-> "STATE_PARSE_URI", h_state |-> "h_start", method |-> m,
             file_name |-> NoName, headers |-> <<>>, keep_alive |-> FALSE, readTimes |-> 0, flag |-> "ok"]
    BY DEF NewRequest
  <1>2. QED
    BY <1>1 DEF Blank

LEMMA NewIsFresh ==
  ASSUME NEW m, NEW q, q = Blank(m)
  PROVE  Fresh(q) /\ ReqTyped(q) /\ q.readTimes = 0
  <1>1. q = [content |-> <<>>, state |-> "STATE_PARSE_URI", h_state |-> "h_start", method |-> m,
             file_name |-> NoName, headers |-> <<>>, keep_alive |-> FALSE, readTimes |-> 0, flag |-> "ok"]
    BY DEF Blank
  <1>2. DOMAIN <<>> = {}
    OBVIOUS
  <1>3. <<>> \in Seq(Char)
    BY EmptySeq
  <1>4. PICK e : e = <<>>
    OBVIOUS
  <1>5. q = [content |-> e, state |-> "STATE_PARSE_URI", h_state |-> "h_start", method |-> m,
             file_name |-> NoName, headers |-> e, keep_alive |-> FALSE, readTimes |-> 0, flag |-> "ok"]
    BY <1>1, <1>4
  <1>6. Fields(q)
    BY ONLY <1>5 DEF Fields
  <1>7. /\ q.content = e /\ q.state = "STATE_PARSE_URI" /\ q.h_state = "h_start"
        /\ q.file_name = NoName /\ q.headers = e /\ q.keep_alive = FALSE /\ q.readTimes = 0
    BY ONLY <1>5
  <1>8. QED
    BY <1>2, <1>3, <1>4, <1>6, <1>7 DEF Fresh, NoHeaders, ReqTyped

LEMMA TypeIs ==
  Typing <=> Around /\ ReqTyped(req) /\ req.readTimes \in 0 .. MAX_READ_TIMES + 1 /\ Len(answers) <= Len(asked)
  BY DEF Typing
LEMMA TypeWillBe ==
  Typing' <=> Around' /\ ReqTyped(req') /\ req'.readTimes \in 0 .. MAX_READ_TIMES + 1 /\ Len(answers') <= Len(asked')
  BY DEF Typing, ReqTyped

(* What is on its way is text. *)
LEMMA FlightTyped ==
  ASSUME NEW r \in Requests, NEW q, NEW w, NEW s, NEW a \in Nat, NEW k \in Nat, Flight(q, r, w, s, a, k)
  PROVE  w \in Seq(Char) /\ s \in Seq(Char) /\ ReqTyped(q) /\ Fields(q)
  <1>1. PICK t \in Seq(Char) : t = Text(r)
    BY TextIs
  <1>2. PICK l \in Nat : l = Len(t)
    BY LenProperties
  <1>3. a <= l /\ k <= a /\ w = SubSeq(t, a + 1, l) /\ s = SubSeq(t, k + 1, a)
    BY <1>1, <1>2 DEF Flight
  <1>4. w \in Seq(Char)
    <2>1. a \in 0 .. Len(t)
      BY <1>2, <1>3
    <2>2. QED
      BY <1>2, <1>3, <2>1, CutIs
  <1>5. s \in Seq(Char)
    <2>1. PICK m \in Nat : a = k + m
      <3>1. a - k \in Nat /\ a = k + (a - k)
        BY <1>3
      <3>2. QED
        BY <3>1
    <2>2. a <= Len(t)
      BY <1>2, <1>3
    <2>3. QED
      BY ONLY <1>3, <2>1, <2>2, t \in Seq(Char), a \in Nat, k \in Nat, m \in Nat, SliceIs
  <1>6. k <= Len(Text(r))
    BY <1>1, <1>2, <1>3
  <1>7. QED
    BY <1>4, <1>5, <1>6, HeldTyped DEF Flight

(* A step that asks and answers nothing. *)
LEMMA Rebuilt ==
  ASSUME Conversation, UNCHANGED <<asked, answers>>, Around', Fields(req'), ReqTyped(req'),
         req'.readTimes \in 0 .. MAX_READ_TIMES + 1, open' => Idle' \/ Busy'
  PROVE  Conversation'
  <1>1. Typing'
    <2>1. Len(answers) <= Len(asked)
      BY TypeIs DEF Conversation
    <2>2. Len(answers') <= Len(asked')
      BY <2>1
    <2>3. QED
      BY <2>2, TypeWillBe
  <1>2. AllAnswered'
    BY DEF Conversation, AllAnswered
  <1>3. answers' \in Seq(Answers)
    BY DEF Conversation
  <1>4. QED
    BY <1>1, <1>2, <1>3 DEF Conversation

(* A step that is not about requests. *)
LEMMA Aside ==
  ASSUME Conversation, UNCHANGED <<asked, wire, socket, req, answers>>, eof' \in BOOLEAN,
         errno' \in [Workers -> {"0", "EAGAIN", "other"}], open' = FALSE \/ open' = open
  PROVE  Conversation'
  <1>1. Around /\ ReqTyped(req) /\ req.readTimes \in 0 .. MAX_READ_TIMES + 1 /\ Fields(req)
    BY TypeIs DEF Conversation
  <1>2. Around'
    BY <1>1 DEF Around
  <1>3. ASSUME open' PROVE Idle' \/ Busy'
    <2>1. Idle \/ Busy
      BY <1>3 DEF Conversation
    <2>2. Idle => Idle'
      BY DEF Idle
    <2>3. Busy => Busy'
      BY DEF Busy
    <2>4. QED
      BY <2>1, <2>2, <2>3
  <1>4. QED
    BY <1>1, <1>2, <1>3, Rebuilt

LEMMA BeginsWell ==
  ASSUME Init
  PROVE  Conversation
  <1>1. req = Blank("NOT_DEFINED")
    BY NewIsBlank DEF Init
  <1>2. Fresh(req) /\ ReqTyped(req) /\ req.readTimes = 0
    BY <1>1, NewIsFresh
  <1>3. <<>> \in Seq(Requests) /\ <<>> \in Seq(Char) /\ <<>> \in Seq(Answers) /\ Len(<<>>) = 0
    BY EmptySeq
  <1>4. FirstErrno \in {"0", "EAGAIN", "other"} /\ MaxRequests \in Nat /\ MAX_READ_TIMES \in Nat
    BY HandlerAssumption
  <1>5. asked = <<>> /\ answers = <<>> /\ wire = <<>> /\ socket = <<>> /\ eof = FALSE /\ open = TRUE
        /\ errno = [x \in Workers |-> FirstErrno]
    BY DEF Init
  <1>6. Around
    <2>1. errno \in [Workers -> {"0", "EAGAIN", "other"}]
      BY <1>4, <1>5
    <2>2. /\ asked \in Seq(Requests) /\ wire \in Seq(Char) /\ socket \in Seq(Char)
          /\ eof \in BOOLEAN /\ open \in BOOLEAN
      BY <1>3, <1>5
    <2>3. Len(asked) <= MaxRequests
      BY <1>3, <1>4, <1>5
    <2>4. QED
      BY <2>1, <2>2, <2>3 DEF Around
  <1>7. Typing
    BY <1>2, <1>3, <1>4, <1>5, <1>6, TypeIs
  <1>8. Idle
    BY <1>2, <1>5 DEF Idle
  <1>9. AllAnswered
    <2>1. DOMAIN <<>> = {}
      OBVIOUS
    <2>2. QED
      BY <1>5, <2>1 DEF AllAnswered
  <1>10. answers \in Seq(Answers)
    BY <1>3, <1>5
  <1>11. QED
    BY <1>2, <1>7, <1>8, <1>9, <1>10 DEF Conversation, Fresh

(* A request is made. *)
LEMMA AskKeeps ==
  ASSUME Conversation, NEW r \in Requests, Ask(r)
  PROVE  Conversation'
  <1>1. /\ open /\ Len(asked) = Len(answers) /\ Len(asked) < MaxRequests
        /\ asked' = Append(asked, r) /\ wire' = Text(r)
        /\ UNCHANGED <<socket, eof, open, req, answers, errno>>
    BY DEF Ask, Text
  <1>2. Around /\ ReqTyped(req) /\ req.readTimes \in 0 .. MAX_READ_TIMES + 1 /\ Fields(req)
    BY TypeIs DEF Conversation
  <1>3. PICK n \in Nat : n = Len(asked) /\ n = Len(answers)
    BY <1>1, <1>2, LenProperties DEF Around
  <1>4. /\ asked' \in Seq(Requests) /\ Len(asked') = n + 1 /\ asked'[n + 1] = r
        /\ \A i \in 1 .. n : asked'[i] = asked[i]
    BY <1>1, <1>2, <1>3, AppendProperties DEF Around
  <1>5. socket = <<>> /\ Fresh(req)
    <2>1. ~Busy
      BY <1>3 DEF Busy
    <2>2. QED
      BY <1>1, <2>1 DEF Conversation, Idle
  <1>6. Flight(req', r, wire', socket', 0, 0)
    <2>1. PICK t \in Seq(Char) : t = Text(r)
      BY TextIs
    <2>2. PICK l \in Nat : l = Len(t)
      BY LenProperties
    <2>3. wire' = SubSeq(t, 0 + 1, l)
      <3>1. SubSeq(t, 1, l) = t
        <4>1. l \in 0 .. Len(t)
          BY <2>2
        <4>2. PICK u : u = SubSeq(t, 1, l)
          OBVIOUS
        <4>3. u \in Seq(Char) /\ Len(u) = l /\ \A i \in 1 .. l : u[i] = t[i]
          BY ONLY <4>1, <4>2, t \in Seq(Char), CutIs
        <4>4. u = t
          BY ONLY <2>2, <4>3, t \in Seq(Char), SeqEqual
        <4>5. QED
          BY <4>2, <4>4
      <3>2. QED
        BY <1>1, <2>1, <3>1
    <2>4. SubSeq(t, 1, 0) = <<>>
      <3>1. 0 \in 0 .. Len(t)
        BY <2>2
      <3>2. SubSeq(t, 1, 0) \in Seq(Char) /\ Len(SubSeq(t, 1, 0)) = 0
        BY ONLY <3>1, t \in Seq(Char), CutIs
      <3>3. QED
        BY <3>2, EmptySeq
    <2>5. socket' = SubSeq(t, 0 + 1, 0)
      BY <1>1, <1>5, <2>4
    <2>6. MayCut(r, 0)
      <3>1. PICK x : x = r.line
        OBVIOUS
      <3>2. Len(<<x, CR, LF>>) = 3
        OBVIOUS
      <3>3. QED
        BY <3>1, <3>2 DEF MayCut
    <2>7. AtLine(req, r, 0)
      BY <1>5, <2>1, <2>4 DEF AtLine, Fresh
    <2>8. Held(req, r, 0)
      BY <2>7 DEF Held
    <2>9. QED
      BY <1>1, <1>2, <2>1, <2>2, <2>3, <2>5, <2>6, <2>8 DEF Flight
  <1>7. Busy'
    <2>1. Last(asked') = r
      BY <1>4 DEF Last
    <2>2. Len(asked') = Len(answers') + 1
      BY <1>1, <1>3, <1>4
    <2>3. 0 \in Nat
      OBVIOUS
    <2>4. QED
      BY <1>6, <2>1, <2>2, <2>3 DEF Busy
  <1>8. Around'
    <2>1. Text(r) \in Seq(Char)
      BY TextIs
    <2>2. Len(asked') <= MaxRequests
      BY <1>1, <1>3, <1>4, HandlerAssumption
    <2>3. QED
      BY <1>1, <1>2, <1>4, <2>1, <2>2 DEF Around
  <1>9. Typing'
    <2>1. Len(answers') <= Len(asked') /\ req' = req
      BY <1>1, <1>3, <1>4
    <2>2. QED
      BY <1>2, <1>8, <2>1, TypeWillBe
  <1>10. AllAnswered'
    <2>1. DOMAIN answers = 1 .. n
      BY <1>3, LenProperties DEF Conversation
    <2>2. QED
      BY <1>1, <1>4, <2>1 DEF Conversation, AllAnswered
  <1>11. QED
    BY <1>1, <1>2, <1>7, <1>9, <1>10 DEF Conversation

(* The network brings n more characters, and does no harm. *)
LEMMA DeliverKeeps ==
  ASSUME Conversation, NEW n \in 1 .. Len(wire), Deliver(n), whole'
  PROVE  Conversation'
  <1>1. Around /\ ReqTyped(req) /\ req.readTimes \in 0 .. MAX_READ_TIMES + 1 /\ Fields(req)
    BY TypeIs DEF Conversation
  <1>2. PICK r : r = Last(asked)
    OBVIOUS
  <1>3. /\ open /\ MayCut(r, Len(HeadOf(r)) + r.length - Len(wire) + n)
        /\ socket' = Concat(socket, SubSeq(wire, 1, n)) /\ wire' = SubSeq(wire, n + 1, Len(wire))
        /\ UNCHANGED <<asked, eof, open, req, answers, errno>>
    BY <1>2 DEF Deliver, Concat
  <1>4. Busy
    <2>1. Len(<<>>) = 0
      OBVIOUS
    <2>2. wire # <<>>
      BY <2>1
    <2>3. ~Idle
      BY <2>2 DEF Idle
    <2>4. QED
      BY <1>3, <2>3 DEF Conversation
  <1>5. PICK a \in Nat, k \in Nat : Flight(req, r, wire, socket, a, k)
    BY <1>2, <1>4 DEF Busy
  <1>6. r \in Requests
    <2>1. Len(asked) \in Nat /\ Len(answers) \in Nat /\ DOMAIN asked = 1 .. Len(asked)
      BY <1>1, LenProperties DEF Around, Conversation
    <2>2. Len(asked) \in 1 .. Len(asked)
      BY <1>4, <2>1 DEF Busy
    <2>3. asked[Len(asked)] \in Requests
      BY <1>1, <2>2, ElementOfSeq DEF Around
    <2>4. QED
      BY <1>2, <2>3 DEF Last
  <1>7. PICK t \in Seq(Char) : t = Text(r)
    BY <1>6, TextIs
  <1>8. PICK l \in Nat : l = Len(t) /\ l = Len(HeadOf(r)) + r.length
    BY <1>6, <1>7, TextIs, RequestIs
  <1>9. a <= l /\ k <= a /\ wire = SubSeq(t, a + 1, l) /\ socket = SubSeq(t, k + 1, a) /\ Held(req, r, k)
    BY <1>5, <1>7, <1>8 DEF Flight
  <1>10. Len(wire) = l - a
    <2>1. a \in 0 .. Len(t)
      BY <1>8, <1>9
    <2>2. Len(SubSeq(t, a + 1, Len(t))) = Len(t) - a
      BY ONLY <2>1, t \in Seq(Char), CutIs
    <2>3. QED
      BY <1>8, <1>9, <2>2
  <1>11. PICK m \in Nat : l = a + n + m
    <2>1. l - a \in Nat
      BY <1>9
    <2>2. l - a - n \in Nat
      BY <1>10, <2>1
    <2>3. PICK m \in Nat : m = l - a - n
      BY <2>2
    <2>4. l = a + n + m
      BY <2>1, <2>2, <2>3, <1>10
    <2>5. QED
      BY <2>4
  <1>12. PICK c \in Nat : c = a + n /\ c <= l
    BY <1>11
  <1>13. n \in Nat /\ wire = SubSeq(t, a + 1, a + n + m) /\ a + n + m <= Len(t)
    <2>1. n \in Nat
      BY ONLY <1>9, <1>10, a \in Nat, l \in Nat, n \in 1 .. Len(wire)
    <2>2. wire = SubSeq(t, a + 1, a + n + m)
      BY ONLY <1>9, <1>11
    <2>3. l <= l
      OBVIOUS
    <2>4. a + n + m <= Len(t)
      BY ONLY <1>8, <1>11, <2>3
    <2>5. QED
      BY <2>1, <2>2, <2>4
  <1>14. Len(wire) = n + m /\ SubSeq(wire, 1, n) = SubSeq(t, a + 1, a + n)
    BY ONLY <1>13, t \in Seq(Char), a \in Nat, n \in Nat, m \in Nat, FrontOfSlice
  <1>15. SubSeq(wire, n + 1, n + m) = SubSeq(t, (a + n) + 1, a + n + m)
    BY ONLY <1>13, t \in Seq(Char), a \in Nat, n \in Nat, m \in Nat, SliceOfSlice
  <1>16. wire' = SubSeq(t, c + 1, l)
    BY <1>3, <1>11, <1>12, <1>14, <1>15
  <1>17. socket' = SubSeq(t, k + 1, c)
    <2>1. socket' = Concat(SubSeq(t, k + 1, a), SubSeq(t, a + 1, c))
      BY <1>3, <1>9, <1>12, <1>14
    <2>2. k <= a /\ a <= c /\ c <= Len(t)
      BY <1>8, <1>9, <1>12
    <2>3. Concat(SubSeq(t, k + 1, a), SubSeq(t, a + 1, c)) = SubSeq(t, k + 1, c)
      BY ONLY <2>2, k \in Nat, a \in Nat, c \in Nat, t \in Seq(Char), SlicesJoin
    <2>4. QED
      BY <2>1, <2>3
  <1>18. MayCut(r, c)
    <2>1. Len(HeadOf(r)) + r.length - Len(wire) + n = c
      <3>1. PICK h \in Nat, b \in Nat, x \in Nat : h = Len(HeadOf(r)) /\ b = r.length /\ x = Len(wire)
        <4>1. Len(wire) \in Nat
          BY <1>9, <1>10
        <4>2. QED
          BY <1>6, <4>1, TextIs, RequestIs
      <3>2. l = h + b /\ x = l - a
        BY ONLY <1>8, <1>10, <3>1
      <3>3. h + b - x + n = c
        BY <1>12, <1>13, <3>2
      <3>4. QED
        BY ONLY <3>1, <3>3
    <2>2. QED
      BY <1>3, <2>1
  <1>19. Flight(req', r, wire', socket', c, k)
    <2>1. c <= Len(Text(r)) /\ k <= c
      BY <1>7, <1>8, <1>9, <1>12, <1>13
    <2>2. wire' = SubSeq(Text(r), c + 1, Len(Text(r))) /\ socket' = SubSeq(Text(r), k + 1, c)
      BY <1>7, <1>8, <1>16, <1>17
    <2>3. req' = req
      BY <1>3
    <2>4. QED
      BY ONLY <1>1, <1>9, <1>18, <2>1, <2>2, <2>3 DEF Flight
  <1>20. Busy'
    <2>1. Last(asked') = r /\ Len(asked') = Len(answers') + 1
      BY <1>2, <1>3, <1>4 DEF Busy
    <2>2. QED
      BY <1>19, <2>1 DEF Busy
  <1>21. Around'
    <2>1. wire' \in Seq(Char) /\ socket' \in Seq(Char)
      BY <1>6, <1>19, FlightTyped
    <2>2. QED
      BY <1>1, <1>3, <2>1 DEF Around
  <1>22. Fields(req') /\ ReqTyped(req') /\ req'.readTimes \in 0 .. MAX_READ_TIMES + 1
    BY <1>1, <1>3
  <1>23. QED
    BY <1>3, <1>20, <1>21, <1>22, Rebuilt

(* The connection is ended: what is left in the socket is not read. *)
LEMMA Ended ==
  ASSUME Conversation, UNCHANGED <<asked, wire, req, answers>>, socket' \in Seq(Char), eof' \in BOOLEAN,
         errno' \in [Workers -> {"0", "EAGAIN", "other"}], open' = FALSE
  PROVE  Conversation'
  <1>1. Around /\ ReqTyped(req) /\ req.readTimes \in 0 .. MAX_READ_TIMES + 1 /\ Fields(req)
    BY TypeIs DEF Conversation
  <1>2. Around'
    BY <1>1 DEF Around
  <1>3. QED
    BY <1>1, <1>2, Rebuilt

LEMMA LastRequestIs ==
  ASSUME Conversation, Busy
  PROVE  /\ Last(asked) \in Requests /\ Last(asked) = asked[Len(asked)]
         /\ Len(asked) \in Nat /\ Len(answers) \in Nat /\ DOMAIN answers = 1 .. Len(answers)
  <1>1. asked \in Seq(Requests) /\ answers \in Seq(Answers)
    BY TypeIs DEF Conversation, Around
  <1>2. Len(asked) \in Nat /\ Len(answers) \in Nat /\ DOMAIN answers = 1 .. Len(answers)
    BY <1>1, LenProperties
  <1>3. Len(asked) \in 1 .. Len(asked)
    BY <1>2 DEF Busy
  <1>4. asked[Len(asked)] \in Requests
    BY <1>1, <1>3, ElementOfSeq
  <1>5. QED
    BY <1>2, <1>4 DEF Last

(* Only the count of reads has changed. *)
LEMMA SameRequest ==
  ASSUME Conversation, UNCHANGED <<asked, wire, socket, eof, open, answers, errno>>, Fields(req'),
         req'.readTimes \in 0 .. MAX_READ_TIMES + 1, req'.content = req.content, req'.state = req.state,
         req'.h_state = req.h_state, req'.method = req.method, req'.file_name = req.file_name, req'.headers = req.headers,
         req'.keep_alive = req.keep_alive
  PROVE  Conversation'
  <1>1. Around /\ ReqTyped(req)
    BY TypeIs DEF Conversation
  <1>2. Around' /\ ReqTyped(req')
    BY <1>1 DEF Around, ReqTyped
  <1>3. Idle => Idle'
    BY DEF Idle, Fresh
  <1>4. ASSUME Busy PROVE Busy'
    <2>1. PICK a \in Nat, k \in Nat : Flight(req, Last(asked), wire, socket, a, k)
      BY <1>4 DEF Busy
    <2>2. Held(req, Last(asked), k) => Held(req', Last(asked), k)
      BY DEF Held, AtLine, AtHead, AtBody, Asks
    <2>3. Flight(req', Last(asked), wire, socket, a, k)
      BY <2>1, <2>2 DEF Flight
    <2>4. Len(asked') = Len(answers') + 1
      BY <1>4 DEF Busy
    <2>5. Flight(req', Last(asked'), wire', socket', a, k)
      BY <2>3
    <2>6. QED
      BY <2>4, <2>5 DEF Busy
  <1>5. QED
    BY <1>2, <1>3, <1>4, Rebuilt DEF Conversation

(* A call that has found a part of the request. *)
LEMMA PartKept ==
  ASSUME Conversation, Busy, NEW r \in Requests, r = Last(asked), NEW a \in Nat, NEW k \in Nat,
         Flight(req', r, wire, socket', a, k), UNCHANGED <<asked, wire, eof, answers>>,
         open' \in BOOLEAN, errno' \in [Workers -> {"0", "EAGAIN", "other"}],
         req'.readTimes \in 0 .. MAX_READ_TIMES + 1
  PROVE  Conversation'
  <1>1. Around
    BY TypeIs DEF Conversation
  <1>2. socket' \in Seq(Char) /\ ReqTyped(req') /\ Fields(req')
    BY FlightTyped
  <1>3. Around'
    BY <1>1, <1>2 DEF Around
  <1>4. Busy'
    <2>1. Flight(req', r, wire', socket', a, k) /\ Last(asked') = r /\ Len(asked') = Len(answers') + 1
      BY DEF Busy
    <2>2. QED
      BY <2>1 DEF Busy
  <1>5. QED
    BY <1>2, <1>3, <1>4, Rebuilt

(* A call that has found all of it. *)
LEMMA AnswerKept ==
  ASSUME Conversation, Busy, NEW p, Done(p, Last(asked)), ~NoFile(p), wire = <<>>, UNCHANGED <<asked, wire, eof>>,
         socket' = <<>>, answers' = Append(answers, AnswerTo(p)),
         open' \in BOOLEAN, errno' \in [Workers -> {"0", "EAGAIN", "other"}],
         \/ req' = [NewRequest EXCEPT !.method = p.method]
         \/ req' = req /\ open' = FALSE
  PROVE  Conversation'
  <1>1. PICK r \in Requests : r = Last(asked) /\ r = asked[Len(asked)]
    BY LastRequestIs
  <1>2. PICK n \in Nat : n = Len(answers) /\ Len(asked) = n + 1 /\ DOMAIN answers = 1 .. n
    BY LastRequestIs DEF Busy
  <1>3. PICK x : x = AnswerTo(p)
    OBVIOUS
  <1>4. x = AnswerFor(r) /\ x \in Answers
    BY <1>1, <1>3, AnswerIs
  <1>5. /\ answers' \in Seq(Answers) /\ Len(answers') = n + 1 /\ DOMAIN answers' = 1 .. n + 1
        /\ answers'[n + 1] = x /\ \A i \in 1 .. n : answers'[i] = answers[i]
    <2>1. answers \in Seq(Answers)
      BY DEF Conversation
    <2>2. answers' = Append(answers, x)
      BY <1>3
    <2>3. QED
      BY ONLY <1>2, <1>4, <2>1, <2>2, AppendProperties, LenProperties
  <1>6. AllAnswered'
    <2>1. ASSUME NEW i \in 1 .. n + 1 PROVE answers'[i] = AnswerFor(asked[i])
      <3>1. CASE i \in 1 .. n
        <4>1. answers[i] = AnswerFor(asked[i])
          BY <1>2, <3>1 DEF Conversation, AllAnswered
        <4>2. QED
          BY ONLY <1>5, <3>1, <4>1
      <3>2. CASE i = n + 1
        <4>1. asked[i] = r
          BY ONLY <1>1, <1>2, <3>2
        <4>2. answers'[i] = x
          BY ONLY <1>5, <3>2
        <4>3. QED
          BY ONLY <1>4, <4>1, <4>2
      <3>3. i \in 1 .. n \/ i = n + 1
        BY ONLY i \in 1 .. n + 1, n \in Nat
      <3>4. QED
        BY ONLY <3>1, <3>2, <3>3
    <2>2. QED
      BY <1>5, <2>1 DEF AllAnswered
  <1>7. Around /\ ReqTyped(req) /\ req.readTimes \in 0 .. MAX_READ_TIMES + 1 /\ Fields(req)
    BY TypeIs DEF Conversation
  <1>8. Around'
    BY <1>7, EmptySeq DEF Around
  <1>9. Len(answers') <= Len(asked')
    BY <1>2, <1>5
  <1>10. CASE req' = [NewRequest EXCEPT !.method = p.method]
    <2>1. Fresh(req') /\ ReqTyped(req') /\ req'.readTimes = 0
      BY <1>10, ResetIsBlank, NewIsFresh
    <2>2. req'.readTimes \in 0 .. MAX_READ_TIMES + 1
      BY <2>1, HandlerAssumption
    <2>3. Idle'
      BY <1>2, <1>5, <2>1 DEF Idle
    <2>4. Typing'
      BY <1>8, <1>9, <2>1, <2>2, TypeWillBe
    <2>5. Fields(req')
      BY <2>1 DEF Fresh
    <2>6. QED
      BY <1>5, <1>6, <2>3, <2>4, <2>5 DEF Conversation
  <1>11. CASE req' = req /\ open' = FALSE
    <2>1. Typing'
      BY <1>7, <1>8, <1>9, <1>11, TypeWillBe
    <2>2. QED
      BY <1>5, <1>6, <1>7, <1>11, <2>1 DEF Conversation
  <1>12. QED
    BY <1>10, <1>11

(* What is left in the socket, and errno. *)
LEMMA LeftIs ==
  ASSUME Conversation
  PROVE  SubSeq(socket, Reads + 1, Len(socket)) \in Seq(Char)
  <1>1. PICK s \in Seq(Char) : s = socket
    BY TypeIs DEF Conversation, Around
  <1>2. Reads \in 0 .. Len(s)
    BY <1>1, LenProperties, HandlerAssumption DEF Reads
  <1>3. QED
    BY ONLY <1>1, <1>2, CutIs

LEMMA ErrnoTyped ==
  ASSUME Conversation, NEW x, NEW e \in {"0", "EAGAIN", "other"}, errno' \in {errno, [errno EXCEPT ![x] = e]}
  PROVE  errno' \in [Workers -> {"0", "EAGAIN", "other"}]
  <1>1. errno \in [Workers -> {"0", "EAGAIN", "other"}]
    BY TypeIs DEF Conversation, Around
  <1>2. QED
    BY <1>1

------------------------------------------------------------------------------
(* The steps of RequestHandler *)

LEMMA ReadnIs ==
  ASSUME Conversation, NEW w \in Workers, Readn(w)
  PROVE  /\ Busy /\ open = TRUE /\ UNCHANGED <<asked, wire, eof>>
         /\ socket' = SubSeq(socket, Reads + 1, Len(socket)) /\ socket' \in Seq(Char)
         /\ errno' \in [Workers -> {"0", "EAGAIN", "other"}]
  <1>1. /\ open /\ socket # <<>> /\ UNCHANGED <<asked, wire, eof>>
        /\ socket' = SubSeq(socket, Reads + 1, Len(socket))
        /\ errno' \in {errno, [errno EXCEPT ![w] = "EAGAIN"]}
    BY DEF Readn, client
  <1>2. errno' \in [Workers -> {"0", "EAGAIN", "other"}]
    BY <1>1, ErrnoTyped
  <1>3. Busy
    BY <1>1 DEF Conversation, Idle
  <1>4. open \in BOOLEAN
    BY TypeIs DEF Conversation, Around
  <1>5. QED
    BY <1>1, <1>2, <1>3, <1>4, LeftIs

LEMMA ReceivedIs ==
  ASSUME Orderly, Conversation, NEW w \in Workers, Readn(w), NEW p \in Received
  PROVE  CallResult(p, req, Last(asked), wire, socket', Good)
  <1>1. Busy /\ socket' = SubSeq(socket, Reads + 1, Len(socket))
    BY ReadnIs
  <1>2. PICK r \in Requests : r = Last(asked)
    BY <1>1, LastRequestIs
  <1>3. PICK a \in Nat, k \in Nat : Flight(req, r, wire, socket, a, k)
    BY <1>1, <1>2 DEF Busy
  <1>4. PICK x : x = SubSeq(socket, 1, Reads)
    OBVIOUS
  <1>5. PICK q : q = [req EXCEPT !.content = @ \o x, !.flag = "ok"]
    OBVIOUS
  <1>6. p = RecvBody(ParseHead(ParseLine(q)))
    BY <1>4, <1>5 DEF Received
  <1>7. Loaded(q, req, x) /\ q.readTimes = req.readTimes
    <2>1. Fields(req)
      BY DEF Conversation
    <2>2. q = [req EXCEPT !.content = Concat(req.content, x), !.flag = "ok"]
      BY <1>5 DEF Concat
    <2>3. QED
      BY ONLY <2>1, <2>2 DEF Fields, Loaded
  <1>8. CallResult(p, q, r, wire, socket', Good)
    BY ONLY <1>1, <1>3, <1>4, <1>6, <1>7, Orderly, r \in Requests, a \in Nat, k \in Nat, CallHandled
  <1>9. QED
    BY <1>2, <1>7, <1>8 DEF CallResult

(* A line that parse_request_line() does not take may be refused. *)
LEMMA BadIsRefusable == ASSUME NEW r \in Requests, r.line \notin Good PROVE Refusable(r)
  <1>1. PICK line : line = Lines[r.line]
    OBVIOUS
  <1>2. line.size \in Nat /\ ~Accepts(line)
    BY <1>1, RequestIs DEF Good
  <1>3. line.method \notin {"GET", "POST"} \/ line.version \notin {"1.0", "1.1"} \/ line.url = "bare" \/ line.size > 4
    BY <1>2 DEF Accepts, Methods, Versions, HttpLength
  <1>4. QED
    BY <1>1, <1>3 DEF Refusable

LEMMA HandleKeeps ==
  ASSUME Orderly, Conversation, NEW w \in Workers, HandlePart(w) \/ HandleError(w) \/ HandleAnswer(w) \/ AnalysisFails(w)
  PROVE  Conversation' /\ (HandleError(w) => Refusable(Last(asked)))
  <1>1. Readn(w)
    BY DEF HandlePart, HandleError, HandleAnswer, AnalysisFails
  <1>2. /\ Busy /\ open = TRUE /\ UNCHANGED <<asked, wire, eof>> /\ socket' \in Seq(Char)
        /\ errno' \in [Workers -> {"0", "EAGAIN", "other"}]
    BY <1>1, ReadnIs
  <1>3. PICK r \in Requests : r = Last(asked)
    BY <1>2, LastRequestIs
  <1>4. \A p \in Received : CallResult(p, req, r, wire, socket', Good)
    BY <1>1, <1>3, ReceivedIs
  <1>5. Around /\ req.readTimes \in 0 .. MAX_READ_TIMES + 1
    BY TypeIs DEF Conversation
  <1>6. HandleError(w) => Refusable(r)
    <2> SUFFICES ASSUME HandleError(w) PROVE Refusable(r)
      OBVIOUS
    <2>1. PICK p \in Received : p.flag = "error"
      BY DEF HandleError
    <2>2. r.line \notin Good
      BY <1>4, <2>1 DEF CallResult, Done
    <2>3. QED
      BY <2>2, BadIsRefusable
  <1>7. CASE HandlePart(w)
    <2>1. PICK p \in Received : p.flag = "again" /\ req' = p
      BY <1>7 DEF HandlePart
    <2>2. UNCHANGED <<open, answers>>
      BY <1>7 DEF HandlePart
    <2>3. PICK a \in Nat, k \in Nat : Flight(req', r, wire, socket', a, k)
      BY <1>4, <2>1 DEF CallResult, Done
    <2>4. req'.readTimes \in 0 .. MAX_READ_TIMES + 1
      BY <1>4, <1>5, <2>1 DEF CallResult
    <2>5. open' \in BOOLEAN
      BY <1>2, <2>2
    <2>6. Conversation'
      BY ONLY <1>2, <1>3, <2>2, <2>3, <2>4, <2>5, Conversation, PartKept
    <2>7. QED
      BY <1>3, <1>6, <2>6
  <1>8. CASE HandleError(w) \/ AnalysisFails(w)
    <2>1. open' = FALSE /\ UNCHANGED <<req, answers>>
      BY <1>8 DEF HandleError, AnalysisFails
    <2>2. eof' \in BOOLEAN
      BY <1>2, <1>5 DEF Around
    <2>3. Conversation'
      BY <1>2, <2>1, <2>2, Ended
    <2>4. QED
      BY <1>3, <1>6, <2>3
  <1>9. CASE HandleAnswer(w)
    <2>1. PICK p \in Received : /\ InState(p, "STATE_ANALYSIS") /\ ~NoFile(p) /\ answers' = Append(answers, AnswerTo(p))
                                /\ IF AnswerTo(p).keep_alive THEN req' = reset(p) /\ UNCHANGED open
                                   ELSE open' = FALSE /\ UNCHANGED req
      BY <1>9 DEF HandleAnswer
    <2>2. Done(p, r) /\ wire = <<>> /\ socket' = <<>>
      BY <1>4, <2>1 DEF CallResult, InState
    <2>3. \/ req' = [NewRequest EXCEPT !.method = p.method]
          \/ req' = req /\ open' = FALSE
      BY <2>1 DEF reset
    <2>4. open' \in BOOLEAN
      BY <1>2, <2>1
    <2>5. Done(p, Last(asked)) /\ ~NoFile(p) /\ answers' = Append(answers, AnswerTo(p))
      BY <1>3, <2>1, <2>2
    <2>6. Conversation'
      BY ONLY <1>2, <2>2, <2>3, <2>4, <2>5, Conversation, AnswerKept
    <2>7. QED
      BY <1>3, <1>6, <2>6
  <1>10. QED
    BY <1>7, <1>8, <1>9

LEMMA NothingKeeps ==
  ASSUME Conversation, NEW w \in Workers, HandleNothing(w)
  PROVE  Conversation'
  <1>1. /\ open /\ UNCHANGED <<asked, wire, socket, eof, answers, errno>>
        /\ \/ UNCHANGED req /\ (open' = FALSE \/ open' = open)
           \/ /\ req.readTimes <= MAX_READ_TIMES /\ req' = [req EXCEPT !.readTimes = @ + 1] /\ open' = open
    <2>1. errno[w] \in {"0", "EAGAIN", "other"}
      BY TypeIs DEF Conversation, Around
    <2>2. req.readTimes > MAX_READ_TIMES \/ req.readTimes <= MAX_READ_TIMES
      BY TypeIs, HandlerAssumption DEF Conversation
    <2>3. CASE errno[w] = "EAGAIN"
      BY <2>2, <2>3 DEF HandleNothing, client
    <2>4. CASE errno[w] = "other"
      BY <2>4 DEF HandleNothing, client
    <2>5. CASE errno[w] = "0"
      BY <2>5 DEF HandleNothing, client
    <2>6. QED
      BY <2>1, <2>3, <2>4, <2>5
  <1>2. Around /\ ReqTyped(req) /\ req.readTimes \in 0 .. MAX_READ_TIMES + 1 /\ Fields(req)
    BY TypeIs DEF Conversation
  <1>3. CASE UNCHANGED req
    BY <1>1, <1>2, <1>3, Aside DEF Around
  <1>4. CASE req.readTimes <= MAX_READ_TIMES /\ req' = [req EXCEPT !.readTimes = @ + 1] /\ open' = open
    <2>1. PICK n : n = req.readTimes + 1
      OBVIOUS
    <2>2. n \in 0 .. MAX_READ_TIMES + 1
      BY <1>2, <1>4, <2>1, HandlerAssumption
    <2>3. req' = [req EXCEPT !.readTimes = n]
      BY <1>4, <2>1
    <2>4. /\ Fields(req') /\ req'.readTimes = n
          /\ req'.content = req.content /\ req'.state = req.state /\ req'.h_state = req.h_state
          /\ req'.method = req.method /\ req'.file_name = req.file_name /\ req'.headers = req.headers /\ req'.keep_alive = req.keep_alive
      BY ONLY <1>2, <2>3 DEF Fields
    <2>5. QED
      BY <1>1, <1>2, <1>4, <2>2, <2>4, SameRequest
  <1>5. QED
    BY <1>1, <1>3, <1>4

LEMMA HangupKeeps == ASSUME Conversation, Hangup PROVE Conversation'
  <1>1. UNCHANGED <<asked, wire, socket, open, req, answers, errno>> /\ eof' = TRUE
    BY DEF Hangup, client
  <1>2. errno \in [Workers -> {"0", "EAGAIN", "other"}]
    BY TypeIs DEF Conversation, Around
  <1>3. QED
    BY <1>1, <1>2, Aside

LEMMA OtherKeeps == ASSUME Conversation, NEW w \in Workers, OtherWork(w) PROVE Conversation'
  <1>1. UNCHANGED <<asked, wire, socket, eof, open, req, answers>>
    BY DEF OtherWork, client
  <1>2. errno' \in [Workers -> {"0", "EAGAIN", "other"}]
    BY ErrnoTyped DEF OtherWork
  <1>3. eof \in BOOLEAN
    BY TypeIs DEF Conversation, Around
  <1>4. QED
    BY <1>1, <1>2, <1>3, Aside

LEMMA NextKeeps ==
  ASSUME Orderly, Conversation, [Next]_vars, whole'
  PROVE  Conversation'
  <1>1. eof \in BOOLEAN /\ errno \in [Workers -> {"0", "EAGAIN", "other"}]
    BY TypeIs DEF Conversation, Around
  <1>2. ASSUME ClientStep PROVE Conversation'
    BY <1>2, AskKeeps, HangupKeeps DEF ClientStep
  <1>3. ASSUME NetworkStep PROVE Conversation'
    BY <1>3, DeliverKeeps DEF NetworkStep
  <1>4. ASSUME Reclaim PROVE Conversation'
    <2>1. UNCHANGED <<asked, wire, socket, eof, req, answers, errno>> /\ open' = FALSE
      BY <1>4 DEF Reclaim, client
    <2>2. QED
      BY <1>1, <2>1, Aside
  <1>5. ASSUME NEW w \in Workers, handleRequest(w) PROVE Conversation'
    <2>1. CASE HandlePart(w) \/ HandleError(w) \/ HandleAnswer(w) \/ AnalysisFails(w)
      BY <2>1, HandleKeeps
    <2>2. CASE HandleNothing(w)
      BY <2>2, NothingKeeps
    <2>3. CASE ReadFails(w)
      <3>1. UNCHANGED <<asked, wire, socket, eof, req, answers>> /\ open' = FALSE /\ errno' = [errno EXCEPT ![w] = "other"]
        BY <2>3 DEF ReadFails, client
      <3>2. errno' \in [Workers -> {"0", "EAGAIN", "other"}]
        BY <3>1, ErrnoTyped
      <3>3. QED
        BY <1>1, <3>1, <3>2, Aside
    <2>4. QED
      BY <1>5, <2>1, <2>2, <2>3 DEF handleRequest, Handle
  <1>6. ASSUME NEW w \in Workers, OtherWork(w) PROVE Conversation'
    BY <1>6, OtherKeeps
  <1>7. ASSUME UNCHANGED vars PROVE Conversation'
    <2>1. UNCHANGED <<asked, wire, socket, eof, open, req, answers, errno>>
      BY <1>7 DEF vars, client
    <2>2. QED
      BY <1>1, <2>1, Aside
  <1>8. QED
    BY <1>2, <1>3, <1>4, <1>5, <1>6, <1>7 DEF Next

(* Only the network does harm, none if it may not, and none is undone. *)
LEMMA CutIsRemembered ==
  ASSUME NetworkStep
  PROVE  (whole' => whole) /\ (whole = TRUE /\ ~AnyCut => whole' = TRUE)
  <1>1. PICK n : Deliver(n)
    BY DEF NetworkStep
  <1>2. PICK harmless : (AnyCut \/ harmless) /\ whole' = (whole /\ harmless)
    BY <1>1, Zenon DEF Deliver
  <1>3. QED
    BY <1>2, Zenon

LEMMA CutsAreDelivered ==
  ASSUME [Next]_vars
  PROVE  NetworkStep \/ UNCHANGED whole
  <1>1. CASE ClientStep \/ Reclaim \/ UNCHANGED vars
    BY <1>1 DEF ClientStep, Hangup, Ask, Reclaim, client, vars
  <1>2. CASE \E w \in Workers : handleRequest(w) \/ OtherWork(w)
    BY <1>2 DEF handleRequest, Handle, HandlePart, HandleError, HandleAnswer, AnalysisFails, HandleNothing,
                ReadFails, OtherWork, Readn, client
  <1>3. CASE NetworkStep
    BY <1>3
  <1>4. QED
    BY <1>1, <1>2, <1>3 DEF Next

LEMMA HarmStays ==
  ASSUME [Next]_vars
  PROVE  (whole' => whole) /\ (whole = TRUE /\ ~AnyCut => whole' = TRUE)
  <1>1. CASE NetworkStep
    BY <1>1, CutIsRemembered
  <1>2. CASE UNCHANGED whole
    BY <1>2, Zenon
  <1>3. NetworkStep \/ UNCHANGED whole
    BY CutsAreDelivered
  <1>4. QED
    BY <1>1, <1>2, <1>3, Zenon

LEMMA AlwaysConversing == ASSUME Orderly PROVE Spec => [](whole => Conversation)
  <1>1. Init => (whole => Conversation)
    BY BeginsWell
  <1>2. (whole => Conversation) /\ [Next]_vars => (whole => Conversation)'
    BY HarmStays, NextKeeps
  <1>3. QED
    BY <1>1, <1>2, PTL DEF Spec

(* AnsweredAsSent is about these answers. *)
LEMMA AsSent == ASSUME whole => Conversation PROVE AnsweredAsSent
  <1>1. SUFFICES ASSUME whole, NEW i \in DOMAIN answers PROVE answers[i] = AnswerFor(asked[i])
    BY DEF AnsweredAsSent, AnswerFor, Wanted, Method
  <1>2. QED
    BY <1>1 DEF Conversation, AllAnswered

(* If the network cuts requests only where it does no harm, the variables  *)
(* have their types: the parsers never leave the request in a state that   *)
(* does not exist, and no read is counted beyond the limit.                *)
THEOREM Typed == ASSUME Orderly, ~AnyCut PROVE Spec => []TypeOK
  <1>1. Init => whole = TRUE /\ Conversation
    BY BeginsWell DEF Init
  <1>2. whole = TRUE /\ Conversation /\ [Next]_vars => (whole = TRUE /\ Conversation)'
    <2>1. SUFFICES ASSUME whole = TRUE, Conversation, [Next]_vars
                   PROVE  whole' = TRUE /\ Conversation'
      OBVIOUS
    <2>2. whole' = TRUE
      BY <2>1, HarmStays
    <2>3. QED
      BY <2>1, <2>2, NextKeeps
  <1>3. whole = TRUE /\ Conversation => TypeOK
    BY DEF Conversation, Typing, Around, ReqTyped, TypeOK
  <1>4. QED
    BY <1>1, <1>2, <1>3, PTL DEF Spec

(* Every request is answered with what it asked for, in its turn, whoever  *)
(* reads it, and however many there have been before it on the connection: *)
(* as long as no cut has fallen among the headers of a request or exactly  *)
(* between its head and its body, where the code goes wrong.  The network  *)
(* may cut anywhere.                                                       *)
THEOREM Answered == ASSUME Orderly PROVE Spec => []AnsweredAsSent
  <1>1. (whole => Conversation) => AnsweredAsSent
    BY AsSent
  <1>2. QED
    BY <1>1, AlwaysConversing, PTL

(* A request that is refused before any harmful cut is one that the parser *)
(* takes from no one: its method or version is unknown, its URL has no '/' *)
(* or has more than four characters.                                       *)
THEOREM Refused == ASSUME Orderly PROVE Spec => RefusesOnlyBad
  <1>1. (whole => Conversation) /\ [Next]_vars
           => [(\E w \in Workers : HandleError(w)) /\ whole => Refusable(Last(asked))]_vars
    <2>1. ASSUME whole => Conversation, NEW w \in Workers, HandleError(w), whole PROVE Refusable(Last(asked))
      BY <2>1, HandleKeeps
    <2>2. QED
      BY <2>1
  <1>2. QED
    BY <1>1, AlwaysConversing, PTL DEF Spec, RefusesOnlyBad

------------------------------------------------------------------------------
(* The early version: EarlyRequest *)

Placed ==
    /\ phase \in {"backlog", "armed", "queued", "loop", "deleted", "lost"}
    /\ by \in Workers /\ is_error \in BOOLEAN
    /\ open <=> phase # "deleted"

EarlyConversation == Conversation /\ Placed

LEMMA EarlyTypeIs == whole = TRUE /\ EarlyConversation => EarlyTypeOK
  BY DEF EarlyConversation, Conversation, Placed, EarlyTypeOK, Typing, Around, ReqTyped, TypeOK

(* readn() *)
LEMMA EarlyReadIs ==
  ASSUME EarlyConversation, readn
  PROVE  /\ open = TRUE /\ UNCHANGED <<asked, wire, eof>> /\ by' = by
         /\ socket' = SubSeq(socket, Reads + 1, Len(socket)) /\ socket' \in Seq(Char)
         /\ errno' \in [Workers -> {"0", "EAGAIN", "other"}]
  <1>1. /\ phase = "loop" /\ UNCHANGED <<asked, wire, eof>> /\ by' = by
        /\ socket' = SubSeq(socket, Reads + 1, Len(socket))
        /\ errno' \in {errno, [errno EXCEPT ![by] = "EAGAIN"]}
    BY DEF readn, client
  <1>2. Conversation
    BY DEF EarlyConversation
  <1>3. errno' \in [Workers -> {"0", "EAGAIN", "other"}]
    BY <1>1, <1>2, ErrnoTyped
  <1>4. open \in BOOLEAN
    BY <1>2, TypeIs DEF Conversation, Around
  <1>5. open = TRUE
    BY <1>1, <1>4 DEF EarlyConversation, Placed
  <1>6. QED
    BY <1>1, <1>2, <1>3, <1>5, LeftIs

(* What is given to the parsers. *)
LEMMA RoundIs ==
  ASSUME EarlyConversation, NEW p \in Round
  PROVE  \E q : /\ Loaded(q, req, SubSeq(socket, 1, Reads)) /\ q.readTimes \in 0 .. MAX_READ_TIMES + 1
                /\ p = RecvBody(parse_headers(parse_uri(q)))
  <1>1. Fields(req) /\ req.readTimes \in 0 .. MAX_READ_TIMES + 1
    BY TypeIs DEF EarlyConversation, Conversation
  <1>2. PICK x : x = SubSeq(socket, 1, Reads)
    OBVIOUS
  <1>3. PICK n : n = IF Again /\ ~TooOften THEN req.readTimes + 1 ELSE req.readTimes
    OBVIOUS
  <1>4. n \in 0 .. MAX_READ_TIMES + 1
    <2>1. CASE Again /\ ~TooOften
      <3>1. n = req.readTimes + 1 /\ ~(req.readTimes > MAX_READ_TIMES)
        BY <1>3, <2>1 DEF TooOften
      <3>2. QED
        BY <1>1, <3>1, HandlerAssumption
    <2>2. CASE ~(Again /\ ~TooOften)
      BY <1>1, <1>3, <2>2
    <2>3. QED
      BY <2>1, <2>2
  <1>5. PICK q : q = [req EXCEPT !.content = @ \o x, !.flag = "ok",
                                 !.readTimes = IF Again /\ ~TooOften THEN @ + 1 ELSE @]
    OBVIOUS
  <1>6. p = RecvBody(parse_headers(parse_uri(q)))
    BY <1>2, <1>5 DEF Round
  <1>7. q = [req EXCEPT !.content = Concat(req.content, x), !.flag = "ok", !.readTimes = n]
    BY <1>3, <1>5 DEF Concat
  <1>8. Loaded(q, req, x) /\ q.readTimes = n
    BY ONLY <1>1, <1>7 DEF Fields, Loaded
  <1>9. QED
    BY <1>2, <1>4, <1>6, <1>8

(* Between two requests a round finds nothing. *)
LEMMA IdleRound ==
  ASSUME EarlyConversation, Idle, readn, NEW p \in Round
  PROVE  /\ Fresh(p) /\ p.flag = "again" /\ p.readTimes \in 0 .. MAX_READ_TIMES + 1
         /\ wire' = <<>> /\ socket' = <<>>
  <1>1. PICK q : /\ Loaded(q, req, SubSeq(socket, 1, Reads)) /\ q.readTimes \in 0 .. MAX_READ_TIMES + 1
                 /\ p = RecvBody(parse_headers(parse_uri(q)))
    BY RoundIs
  <1>2. PICK e \in Seq(Char) : e = <<>>
    BY EmptySeq
  <1>3. socket = e /\ req.content = e /\ wire = e /\ Fresh(req) /\ Len(e) = 0 /\ DOMAIN e = {}
    BY <1>2, EmptySeq DEF Idle, Fresh
  <1>4. Reads = 0
    BY <1>3, HandlerAssumption DEF Reads
  <1>5. SubSeq(e, 1, 0) = e /\ SubSeq(e, 0 + 1, Len(e)) = e
    <2>1. 0 \in 0 .. Len(e)
      BY <1>3
    <2>2. /\ SubSeq(e, 1, 0) \in Seq(Char) /\ Len(SubSeq(e, 1, 0)) = 0
          /\ SubSeq(e, 0 + 1, Len(e)) \in Seq(Char) /\ Len(SubSeq(e, 0 + 1, Len(e))) = Len(e) - 0
      BY ONLY <2>1, e \in Seq(Char), CutIs
    <2>3. QED
      BY <1>2, <1>3, <2>2, EmptySeq
  <1>6. Concat(e, e) = e
    <2>1. PICK u : u = Concat(e, e)
      OBVIOUS
    <2>2. u \in Seq(Char) /\ Len(u) = Len(e) + Len(e)
      BY ONLY <2>1, e \in Seq(Char), JoinIs
    <2>3. QED
      BY <1>2, <1>3, <2>1, <2>2, EmptySeq
  <1>7. Fresh(q) /\ q.flag = "ok" /\ q.content = e
    <2>1. q.content = Concat(e, SubSeq(e, 1, 0))
      BY <1>1, <1>3, <1>4 DEF Loaded
    <2>2. q.content = e
      BY <1>5, <1>6, <2>1
    <2>3. QED
      BY <1>1, <1>2, <1>3, <2>2 DEF Loaded, Fresh
  <1>8. parse_uri(q) = [q EXCEPT !.flag = "again"]
    <2>1. CR \notin ToSet(q.content)
      BY <1>3, <1>7 DEF ToSet
    <2>2. InState(q, "STATE_PARSE_URI")
      BY <1>7 DEF Fresh, InState
    <2>3. QED
      BY ONLY <2>1, <2>2, Zenon DEF parse_uri
  <1>9. PICK l : l = [q EXCEPT !.flag = "again"]
    OBVIOUS
  <1>10. /\ Fields(l) /\ l.flag = "again"
         /\ l.content = q.content /\ l.state = q.state /\ l.h_state = q.h_state /\ l.method = q.method
         /\ l.file_name = q.file_name /\ l.headers = q.headers /\ l.keep_alive = q.keep_alive /\ l.readTimes = q.readTimes
    <2>1. Fields(q)
      BY <1>7 DEF Fresh
    <2>2. QED
      BY ONLY <1>9, <2>1 DEF Fields
  <1>11. p = l
    BY <1>1, <1>8, <1>9, <1>10 DEF parse_headers, ParseHead, RecvBody, InState
  <1>12. socket' = <<>> /\ wire' = <<>>
    <2>1. socket' = SubSeq(socket, Reads + 1, Len(socket)) /\ wire' = wire
      BY EarlyReadIs
    <2>2. QED
      BY <1>2, <1>3, <1>4, <1>5, <2>1
  <1>13. QED
    BY <1>1, <1>7, <1>10, <1>11, <1>12 DEF Fresh

LEMMA BusyRound ==
  ASSUME Orderly, EarlyConversation, Busy, readn, NEW p \in Round
  PROVE  \E q : CallResult(p, q, Last(asked), wire, socket', EarlyGood) /\ q.readTimes \in 0 .. MAX_READ_TIMES + 1
  <1>1. PICK q : /\ Loaded(q, req, SubSeq(socket, 1, Reads)) /\ q.readTimes \in 0 .. MAX_READ_TIMES + 1
                 /\ p = RecvBody(parse_headers(parse_uri(q)))
    BY RoundIs
  <1>2. PICK r \in Requests : r = Last(asked)
    BY LastRequestIs DEF EarlyConversation
  <1>3. PICK a \in Nat, k \in Nat : Flight(req, r, wire, socket, a, k)
    BY <1>2 DEF Busy
  <1>4. socket' = SubSeq(socket, Reads + 1, Len(socket))
    BY EarlyReadIs
  <1>5. CallResult(p, q, r, wire, socket', EarlyGood)
    BY ONLY <1>1, <1>3, <1>4, Orderly, r \in Requests, a \in Nat, k \in Nat, EarlyCallHandled
  <1>6. QED
    BY <1>1, <1>2, <1>5

(* A round that finds no error and no whole request. *)
LEMMA RoundKept ==
  ASSUME Orderly, EarlyConversation, readn, NEW p \in Round, p.flag = "again", req' = p,
         answers' = answers, open' \in BOOLEAN
  PROVE  Conversation'
  <1>1. /\ open = TRUE /\ UNCHANGED <<asked, wire, eof>>
        /\ socket' \in Seq(Char) /\ errno' \in [Workers -> {"0", "EAGAIN", "other"}]
    BY EarlyReadIs
  <1>2. Conversation /\ (Idle \/ Busy)
    BY <1>1 DEF EarlyConversation, Conversation
  <1>3. CASE Idle
    <2>1. Fresh(req') /\ req'.readTimes \in 0 .. MAX_READ_TIMES + 1 /\ wire' = <<>> /\ socket' = <<>>
      BY <1>3, IdleRound
    <2>2. Idle'
      BY <1>1, <1>3, <2>1 DEF Idle
    <2>3. Fields(req') /\ ReqTyped(req')
      BY <2>1, EmptySeq DEF Fresh, ReqTyped
    <2>4. Around
      BY <1>2, TypeIs DEF Conversation
    <2>5. Around'
      BY <1>1, <2>4 DEF Around
    <2>6. QED
      BY <1>1, <1>2, <2>1, <2>2, <2>3, <2>5, Rebuilt
  <1>4. CASE Busy
    <2>1. PICK r \in Requests : r = Last(asked)
      BY <1>2, <1>4, LastRequestIs
    <2>2. PICK q : CallResult(p, q, r, wire, socket', EarlyGood) /\ q.readTimes \in 0 .. MAX_READ_TIMES + 1
      BY <1>4, <2>1, BusyRound
    <2>3. PICK a \in Nat, k \in Nat : Flight(req', r, wire, socket', a, k)
      BY <2>2 DEF CallResult, Done
    <2>4. req'.readTimes \in 0 .. MAX_READ_TIMES + 1
      BY <2>2 DEF CallResult
    <2>5. QED
      BY ONLY <1>1, <1>2, <1>4, <2>1, <2>3, <2>4, answers' = answers, open' \in BOOLEAN, PartKept
  <1>5. QED
    BY <1>2, <1>3, <1>4

LEMMA RoundAnswers ==
  ASSUME Orderly, EarlyConversation, readn, NEW p \in Round, InState(p, "STATE_ANALYSIS"), ~NoFile(p),
         answers' = Append(answers, AnswerTo(p)), open' \in BOOLEAN,
         \/ req' = [NewRequest EXCEPT !.method = p.method]
         \/ req' = req /\ open' = FALSE
  PROVE  Conversation'
  <1>1. /\ open = TRUE /\ UNCHANGED <<asked, wire, eof>>
        /\ socket' \in Seq(Char) /\ errno' \in [Workers -> {"0", "EAGAIN", "other"}]
    BY EarlyReadIs
  <1>2. Conversation /\ (Idle \/ Busy)
    BY <1>1 DEF EarlyConversation, Conversation
  <1>3. Busy
    BY <1>2, IdleRound DEF InState
  <1>4. PICK q : CallResult(p, q, Last(asked), wire, socket', EarlyGood)
    BY <1>3, BusyRound
  <1>5. Done(p, Last(asked)) /\ wire = <<>> /\ socket' = <<>>
    BY <1>4 DEF CallResult, InState
  <1>6. QED
    BY <1>1, <1>2, <1>3, <1>5, AnswerKept

LEMMA CallKept ==
  ASSUME Orderly, EarlyConversation, handle_request
  PROVE  EarlyConversation'
  <1>1. Conversation /\ Placed
    BY DEF EarlyConversation
  <1>2. eof \in BOOLEAN /\ Around
    BY <1>1, TypeIs DEF Conversation, Around
  <1>3. CASE RoundFails \/ Refuse \/ AnswerFails
    <2>1. readn /\ UNCHANGED <<req, answers>> /\ phase' = "deleted" /\ open' = FALSE /\ is_error' \in BOOLEAN
      BY <1>1, <1>3 DEF RoundFails, Refuse, AnswerFails, RoundReads, count, Delete, Placed
    <2>2. /\ UNCHANGED <<asked, wire, eof>> /\ by' = by
          /\ socket' \in Seq(Char) /\ errno' \in [Workers -> {"0", "EAGAIN", "other"}]
      BY <2>1, EarlyReadIs
    <2>3. Conversation'
      BY <1>1, <1>2, <2>1, <2>2, Ended
    <2>4. Placed'
      BY <1>1, <2>1, <2>2 DEF Placed
    <2>5. QED
      BY <2>3, <2>4 DEF EarlyConversation
  <1>4. CASE EarlyReadFails
    <2>1. /\ UNCHANGED <<asked, wire, socket, eof, req, answers, by, is_error>> /\ phase' = "deleted" /\ open' = FALSE
          /\ errno' = [errno EXCEPT ![by] = "other"]
      BY <1>4 DEF EarlyReadFails, Delete, client
    <2>2. errno' \in [Workers -> {"0", "EAGAIN", "other"}]
      BY <1>1, <2>1, ErrnoTyped
    <2>3. Conversation'
      BY <1>1, <1>2, <2>1, <2>2, Aside
    <2>4. Placed'
      BY <1>1, <2>1 DEF Placed
    <2>5. QED
      BY <2>3, <2>4 DEF EarlyConversation
  <1>5. ASSUME readn, is_error' \in BOOLEAN,
               \/ open' = open /\ (phase' = phase \/ phase' = "armed")
               \/ phase' = "deleted" /\ open' = FALSE
        PROVE  Placed' /\ open' \in BOOLEAN
    <2>1. open = TRUE /\ by' = by /\ phase = "loop"
      BY <1>5, EarlyReadIs DEF readn
    <2>2. QED
      BY <1>1, <1>5, <2>1 DEF Placed
  <1>6. CASE Continue
    <2>1. readn /\ is_error' \in BOOLEAN /\ UNCHANGED <<answers, phase, open>>
      BY <1>1, <1>6 DEF Continue, RoundReads, count, Placed
    <2>2. Placed' /\ open' \in BOOLEAN
      BY <1>5, <2>1
    <2>3. PICK p \in Round : p.flag = "again" /\ req' = p
      BY <1>6 DEF Continue, InBody
    <2>4. Conversation'
      BY <2>1, <2>2, <2>3, RoundKept
    <2>5. QED
      BY <2>2, <2>4 DEF EarlyConversation
  <1>7. CASE Break
    <2>1. readn /\ is_error' \in BOOLEAN /\ answers' = answers
      BY <1>1, <1>7 DEF Break, RoundReads, count, Placed
    <2>2. \/ open' = open /\ phase' = "armed"
          \/ phase' = "deleted" /\ open' = FALSE
      BY <1>7 DEF Break, EpollMod, Delete
    <2>3. Placed' /\ open' \in BOOLEAN
      BY <1>5, <2>1, <2>2
    <2>4. PICK p \in Round : p.flag = "again" /\ req' = p
      BY <1>7 DEF Break
    <2>5. Conversation'
      BY <2>1, <2>3, <2>4, RoundKept
    <2>6. QED
      BY <2>3, <2>5 DEF EarlyConversation
  <1>8. CASE Answer
    <2>1. readn /\ is_error' \in BOOLEAN
      BY <1>1, <1>8 DEF Answer, RoundReads, count, Placed
    <2>2. PICK p \in Round : /\ InState(p, "STATE_ANALYSIS") /\ ~NoFile(p) /\ answers' = Append(answers, AnswerTo(p))
                             /\ IF AnswerTo(p).keep_alive /\ ~is_error' THEN req' = Reset(p) /\ EpollMod
                                ELSE UNCHANGED req /\ Delete
      BY <1>8 DEF Answer
    <2>3. /\ \/ open' = open /\ phase' = "armed"
             \/ phase' = "deleted" /\ open' = FALSE
          /\ \/ req' = [NewRequest EXCEPT !.method = p.method]
             \/ req' = req /\ open' = FALSE
      <3>1. CASE AnswerTo(p).keep_alive /\ ~is_error'
        <4>1. req' = Reset(p) /\ EpollMod
          BY <2>2, <3>1
        <4>2. QED
          BY <4>1 DEF EpollMod, Delete, Reset
      <3>2. CASE ~(AnswerTo(p).keep_alive /\ ~is_error')
        <4>1. UNCHANGED req /\ Delete
          BY <2>2, <3>2
        <4>2. QED
          BY <4>1 DEF Delete
      <3>3. QED
        BY <3>1, <3>2
    <2>4. Placed' /\ open' \in BOOLEAN
      BY <1>5, <2>1, <2>3
    <2>5. Conversation'
      BY <2>1, <2>2, <2>3, <2>4, RoundAnswers
    <2>6. QED
      BY <2>4, <2>5 DEF EarlyConversation
  <1>9. QED
    BY <1>3, <1>4, <1>6, <1>7, <1>8 DEF handle_request, OneRound

(* A step that leaves the conversation alone. *)
LEMMA OnlyPlace ==
  ASSUME EarlyConversation, UNCHANGED <<asked, wire, socket, eof, req, answers, errno>>, Placed',
         open' = FALSE \/ open' = open
  PROVE  EarlyConversation'
  <1>1. Conversation
    BY DEF EarlyConversation
  <1>2. eof \in BOOLEAN /\ errno \in [Workers -> {"0", "EAGAIN", "other"}]
    BY <1>1, TypeIs DEF Conversation, Around
  <1>3. Conversation'
    BY <1>1, <1>2, Aside
  <1>4. QED
    BY <1>3 DEF EarlyConversation

LEMMA EarlyNextKeeps ==
  ASSUME Orderly, EarlyConversation, EarlyNext \/ UNCHANGED EarlyVars, whole'
  PROVE  EarlyConversation'
  <1>1. Conversation /\ Placed
    BY DEF EarlyConversation
  <1>2. CASE accept_connection \/ AcceptLoses \/ HandleEvent \/ PoolRefuses
    <2>1. /\ UNCHANGED <<asked, wire, socket, eof, open, req, answers, errno, by, is_error>>
          /\ phase \in {"backlog", "armed"} /\ phase' \in {"armed", "lost", "queued"}
      BY <1>2 DEF accept_connection, AcceptLoses, HandleEvent, PoolRefuses, vars, client
    <2>2. Placed'
      BY <1>1, <2>1 DEF Placed
    <2>3. QED
      BY <2>1, <2>2, OnlyPlace
  <1>3. CASE HandleErrorEvent \/ handle_expired_event
    <2>1. /\ UNCHANGED <<asked, wire, socket, eof, req, answers, errno, by, is_error>>
          /\ phase' = "deleted" /\ open' = FALSE
      BY <1>3 DEF HandleErrorEvent, handle_expired_event, MainDeletes, Delete, client
    <2>2. Placed'
      BY <1>1, <2>1 DEF Placed
    <2>3. UNCHANGED <<asked, wire, socket, eof, req, answers, errno>> /\ open' = FALSE
      BY <2>1
    <2>4. QED
      BY <1>1, <2>2, <2>3, OnlyPlace, Zenon DEF EarlyConversation
  <1>4. ASSUME NEW w \in Workers, my_handler(w) PROVE EarlyConversation'
    <2>1. /\ UNCHANGED <<asked, wire, socket, eof, open, req, answers, errno>>
          /\ phase = "queued" /\ phase' = "loop" /\ by' = w /\ is_error' = FALSE
      BY <1>4 DEF my_handler, vars, client
    <2>2. Placed'
      BY <1>1, <2>1 DEF Placed
    <2>3. QED
      BY <2>1, <2>2, OnlyPlace
  <1>5. ASSUME NEW w \in Workers, OtherWork(w), UNCHANGED place PROVE EarlyConversation'
    <2>1. Conversation' /\ open' = open
      BY <1>1, <1>5, OtherKeeps DEF OtherWork
    <2>2. Placed'
      BY <1>1, <1>5, <2>1 DEF Placed, place
    <2>3. QED
      BY <2>1, <2>2 DEF EarlyConversation
  <1>6. ASSUME ClientStep \/ NetworkStep, UNCHANGED place PROVE EarlyConversation'
    <2>1. Conversation'
      BY <1>1, <1>6, AskKeeps, HangupKeeps, DeliverKeeps DEF ClientStep, NetworkStep
    <2>2. open' = open
      BY <1>6 DEF ClientStep, NetworkStep, Ask, Hangup, Deliver
    <2>3. Placed'
      BY <1>1, <1>6, <2>2 DEF Placed, place
    <2>4. QED
      BY <2>1, <2>3 DEF EarlyConversation
  <1>7. CASE UNCHANGED EarlyVars
    <2>1. UNCHANGED <<asked, wire, socket, eof, open, req, answers, errno, phase, by, is_error>>
      BY <1>7 DEF EarlyVars, vars, client, place
    <2>2. Placed'
      BY <1>1, <2>1 DEF Placed
    <2>3. QED
      BY <2>1, <2>2, OnlyPlace
  <1>8. QED
    BY <1>2, <1>3, <1>4, <1>5, <1>6, <1>7, CallKept DEF EarlyNext

LEMMA EarlyHarmStays ==
  ASSUME EarlyNext \/ UNCHANGED EarlyVars
  PROVE  (whole' => whole) /\ (whole = TRUE /\ ~AnyCut => whole' = TRUE)
  <1>1. ASSUME \/ accept_connection \/ AcceptLoses \/ HandleEvent \/ PoolRefuses
               \/ HandleErrorEvent \/ handle_expired_event \/ UNCHANGED EarlyVars
        PROVE  UNCHANGED whole
    BY <1>1 DEF accept_connection, AcceptLoses, HandleEvent, PoolRefuses, HandleErrorEvent, handle_expired_event,
                MainDeletes, EarlyVars, vars, client
  <1>2. ASSUME handle_request PROVE UNCHANGED whole
    BY <1>2 DEF handle_request, OneRound, RoundFails, Continue, Break, Refuse, Answer, AnswerFails, EarlyReadFails,
                RoundReads, readn, client
  <1>3. ASSUME NEW w \in Workers, my_handler(w) \/ OtherWork(w) PROVE UNCHANGED whole
    BY <1>3 DEF my_handler, OtherWork, vars, client
  <1>4. ASSUME ClientStep PROVE UNCHANGED whole
    BY <1>4 DEF ClientStep, Hangup, Ask, client
  <1>5. NetworkStep \/ UNCHANGED whole
    BY <1>1, <1>2, <1>3, <1>4 DEF EarlyNext
  <1>6. CASE NetworkStep
    BY <1>6, CutIsRemembered
  <1>7. CASE UNCHANGED whole
    BY <1>7, Zenon
  <1>8. QED
    BY <1>5, <1>6, <1>7

LEMMA EarlyBeginsWell == ASSUME EarlyInit PROVE EarlyConversation
  <1>1. Conversation
    BY BeginsWell DEF EarlyInit
  <1>2. open = TRUE
    BY DEF EarlyInit, Init
  <1>3. Placed
    BY <1>2 DEF EarlyInit, Placed
  <1>4. QED
    BY <1>1, <1>3 DEF EarlyConversation

------------------------------------------------------------------------------
(* The models together *)

LEMMA EarlySteps == ASSUME [MCNext]_allVars PROVE EarlyNext \/ UNCHANGED EarlyVars
  BY DEF MCNext, Early, Writing, Line, Start, allVars

(* The early version answers every request with what it asked for as well, *)
(* although a worker keeps a request for many rounds and main's thread     *)
(* takes it back when the body is late: again as long as no cut has fallen *)
(* among the headers of a request or exactly between its head and its body.*)
THEOREM EarlyAnswered == ASSUME Orderly PROVE MCSpec => []AnsweredAsSent
  <1>1. MCInit => (whole => EarlyConversation)
    BY EarlyBeginsWell DEF MCInit
  <1>2. (whole => EarlyConversation) /\ [MCNext]_allVars => (whole => EarlyConversation)'
    BY EarlySteps, EarlyHarmStays, EarlyNextKeeps
  <1>3. (whole => EarlyConversation) => AnsweredAsSent
    BY AsSent DEF EarlyConversation
  <1>4. QED
    BY <1>1, <1>2, <1>3, PTL DEF MCSpec

(* Where the network does no harm, both hold in every state. *)
LEMMA EarlyInductive == ASSUME Orderly, ~AnyCut PROVE MCSpec => [](whole = TRUE /\ EarlyConversation)
  <1>1. MCInit => whole = TRUE /\ EarlyConversation
    BY EarlyBeginsWell DEF MCInit, EarlyInit, Init
  <1>2. whole = TRUE /\ EarlyConversation /\ [MCNext]_allVars => (whole = TRUE /\ EarlyConversation)'
    <2>1. SUFFICES ASSUME whole = TRUE, EarlyConversation, [MCNext]_allVars
                   PROVE  whole' = TRUE /\ EarlyConversation'
      OBVIOUS
    <2>2. EarlyNext \/ UNCHANGED EarlyVars
      BY <2>1, EarlySteps
    <2>3. whole' = TRUE
      BY <2>1, <2>2, EarlyHarmStays
    <2>4. QED
      BY <2>1, <2>2, <2>3, EarlyNextKeeps
  <1>3. QED
    BY <1>1, <1>2, PTL DEF MCSpec

(* Startup: an edge is a client that main() has yet to hear of. *)
StartIInv == S!TypeOK /\ (edge => S!Waiting > 0)

(* One step of main(), or a client that connects. *)
LEMMA StartKeeps == ASSUME S!StartConstants, StartIInv, S!Next \/ UNCHANGED ofStart PROVE StartIInv'
  <1> USE DEF StartIInv, S!StartConstants, S!TypeOK, S!Calls, S!Waiting, S!ofListener, S!ofClients
  <1>1. CASE S!Connect
    BY <1>1 DEF S!Connect
  <1>2. CASE S!epoll_init \/ S!create
    BY <1>2 DEF S!epoll_init, S!create
  <1>3. CASE S!socket_bind_listen
    BY <1>3 DEF S!socket_bind_listen, S!BindStep
  <1>4. CASE S!setSocketNonBlocking
    BY <1>4 DEF S!setSocketNonBlocking
  <1>5. CASE S!epoll_add
    BY <1>5 DEF S!epoll_add
  <1>6. CASE S!EpollAddFails \/ S!GiveUp
    BY <1>6 DEF S!EpollAddFails, S!GiveUp
  <1>7. CASE S!acceptConnection
    <2>1. /\ edge' = FALSE /\ UNCHANGED <<events, at, port, threads, listener, blocking, registered, connected>>
          /\ \/ accepted' = accepted + 1 /\ missed' = missed
             \/ missed' = missed + 1 /\ accepted' = accepted
      BY <1>7, Zenon DEF S!acceptConnection
    <2>2. connected - accepted - missed > 0
      BY <1>7 DEF S!acceptConnection
    <2>3. accepted' \in 0 .. connected /\ missed' \in 0 .. connected - accepted'
      BY ONLY <2>1, <2>2, S!TypeOK
    <2>4. QED
      BY <2>1, <2>3
  <1>8. CASE UNCHANGED ofStart
    BY <1>8 DEF ofStart
  <1>9. QED
    BY <1>1, <1>2, <1>3, <1>4, <1>5, <1>6, <1>7, <1>8 DEF S!Next, S!main

LEMMA StartInductive == MCSpec => []StartIInv
  <1>1. ASSUME MCInit PROVE StartIInv
    <2>1. /\ events \in {"usable", "invalid"} /\ at = "epoll_init" /\ port \in Ports /\ threads = 0 /\ listener = "none"
          /\ blocking \in BOOLEAN /\ registered \in BOOLEAN /\ edge = FALSE /\ connected = 0 /\ accepted = 0 /\ missed = 0
      BY <1>1, Zenon DEF MCInit, S!Init
    <2>2. /\ threads \in 0 .. PoolThreads /\ connected \in 0 .. MaxClients /\ accepted \in 0 .. connected
          /\ missed \in 0 .. connected - accepted
      BY <2>1, AnswerAssumption DEF S!StartConstants
    <2>3. QED
      BY <2>1, <2>2 DEF StartIInv, S!TypeOK, S!Calls
  <1>2. StartIInv /\ [MCNext]_allVars => StartIInv'
    <2>1. [MCNext]_allVars => S!Next \/ UNCHANGED ofStart
      BY DEF MCNext, Early, Writing, Line, Start, allVars
    <2>2. QED
      BY <2>1, AnswerAssumption, StartKeeps
  <1>3. QED
    BY <1>1, <1>2, PTL DEF MCSpec

(* The variables of all the models have their types: in the early version  *)
(* a connection is open until its request is deleted, and main() never     *)
(* accepts more connections than there are.                                *)
THEOREM AnswerTyped == ASSUME Orderly, ~AnyCut, Drains PROVE MCSpec => []AnswerTypeOK
  <1>1. (whole = TRUE /\ EarlyConversation) /\ ResponseIInv /\ LinesIInv /\ StartIInv => AnswerTypeOK
    BY EarlyTypeIs DEF ResponseIInv, LinesIInv, StartIInv, AnswerTypeOK
  <1>2. QED
    BY <1>1, EarlyInductive, ResponseInductive, LinesInductive, StartInductive, PTL
==============================================================================
