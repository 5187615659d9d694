--------------------------- MODULE EpollLoop_proof ---------------------------
(* Theorems about EpollLoop for any number of clients and of slots, any    *)
(* text, and any sizes and times: the table g_events and the epoll         *)
(* instance agree.                                                         *)
EXTENDS EpollLoop, SequenceLemmas, TLAPS

------------------------------------------------------------------------------
(* The inductive invariant *)

WaitsOnce == \A i, j \in DOMAIN backlog : backlog[i] = backlog[j] => i = j

Met == \A c \in Clients : Waits(c) => peer[c] # "none"

(* What SlotsConsistent says while the server is alive. *)
Table ==
    /\ \A s \in Slots : In(s) <=> Registrations(s) # {} \/ s \in deaf
    /\ \A s \in deaf : Registrations(s) = {}
    /\ \A q, r \in tree : q[1] = r[1] \/ q[2] = r[2] => q = r
    /\ \A r \in tree :
          /\ r[1] = fd[r[2]] /\ fds[r[1]] = 1
          /\ r[3] = "EPOLLIN" <=> call_back[r[2]] = "receive_data"

(* A client that has a slot has been accepted, and is not waiting to be.   *)
Registered == \A r \in tree : peer[r[1]] # "none" /\ ~Waits(r[1])

(* The call-backs left in a round are of registered slots: a slot that is  *)
(* given up, or given to a new client, has none left.                      *)
Round ==
    /\ process \in {"start", "wait"} => touched = {}
    /\ \A s \in touched \cap Slots : Registrations(s) # {}

IInv ==
    /\ TypeOK /\ WaitsOnce /\ Met
    /\ process # "dead" => Table /\ Registered /\ Round

LEMMA Sizes == LoopConstants => Len(Text) \in Nat /\ OPEN_MAX \in Nat \ {0} /\ Timeout \in Nat /\ 0 \notin Slots
  BY EchoAssumption, LenProperties DEF LoopConstants, Slots

LEMMA InitIInv == ASSUME LoopConstants, Init PROVE IInv
  <1>1. /\ peer = [c \in Clients |-> "none"] /\ backlog = <<>>
        /\ sent = [c \in Clients |-> 0] /\ read = [c \in Clients |-> 0]
        /\ out = [c \in Clients |-> <<>>] /\ got = [c \in Clients |-> <<>>]
        /\ taken = [c \in Clients |-> 0] /\ fds = [c \in Clients |-> 0]
    BY DEF Init, NetInit
  <1>2. /\ fd = [s \in Slots |-> NoClient] /\ status = [s \in Slots |-> "NOT_IN_EPOLL_TREE"]
        /\ call_back = [s \in Slots |-> "receive_data"] /\ data = [s \in Slots |-> <<>>]
        /\ idle = [s \in Slots |-> 0] /\ tree = {} /\ touched = {} /\ check_pos = 1 /\ process = "start"
        /\ deaf = {} /\ blocking = {}
    BY DEF Init, Off
  <1>3. <<>> \in Seq(Char) /\ <<>> \in Seq(Clients)
    BY EmptySeq
  <1>4. NetTypeOK
    BY <1>1, <1>3, Sizes DEF NetTypeOK, Peers
  <1>5. TypeOK
    BY <1>2, <1>3, <1>4, Sizes DEF TypeOK, Slots
  <1>6. DOMAIN backlog = {}
    BY <1>1
  <1>7. QED
    BY <1>2, <1>5, <1>6 DEF IInv, WaitsOnce, Met, Table, Registered, Round, Waits, In, Registrations

(* What connect() and accept() do to the clients that wait. *)
LEMMA BacklogAppended ==
  ASSUME backlog \in Seq(Clients), WaitsOnce, NEW c \in Clients, ~Waits(c), backlog' = Append(backlog, c)
  PROVE  /\ backlog' \in Seq(Clients) /\ WaitsOnce'
         /\ \A d : Waits(d)' <=> Waits(d) \/ d = c
  <1>1. Once(backlog) /\ ~Within(backlog, c)
    BY DEF WaitsOnce, Waits, Once, Within
  <1>2. /\ Longer(backlog, c) \in Seq(Clients) /\ Once(Longer(backlog, c))
        /\ \A d : Within(Longer(backlog, c), d) <=> Within(backlog, d) \/ d = c
    BY <1>1, AppendOnce
  <1>3. backlog' = Longer(backlog, c)
    BY DEF Longer
  <1>4. backlog' \in Seq(Clients) /\ Once(backlog') /\ \A d : Within(backlog', d) <=> Within(backlog, d) \/ d = c
    BY ONLY <1>2, <1>3
  <1>5. QED
    BY ONLY <1>4 DEF WaitsOnce, Waits, Once, Within

LEMMA BacklogTaken ==
  ASSUME backlog \in Seq(Clients), WaitsOnce, backlog # <<>>, backlog' = Tail(backlog)
  PROVE  /\ backlog' \in Seq(Clients) /\ WaitsOnce'
         /\ Head(backlog) \in Clients /\ Waits(Head(backlog))
         /\ \A d : Waits(d)' <=> Waits(d) /\ d # Head(backlog)
  <1>1. Once(backlog)
    BY DEF WaitsOnce, Once
  <1>2. /\ backlog' \in Seq(Clients) /\ Head(backlog) \in Clients
        /\ Once(backlog') /\ Within(backlog, Head(backlog))
        /\ \A d : Within(backlog', d) <=> Within(backlog, d) /\ d # Head(backlog)
    BY <1>1, TailOnce
  <1>3. QED
    BY ONLY <1>2 DEF WaitsOnce, Waits, Once, Within

------------------------------------------------------------------------------
(* The client *)

(* A step that leaves the server alone and changes no more of the sockets  *)
(* than what has been sent, received or said about a client's end.         *)
LEMMA ClientKeeps ==
  ASSUME IInv, NetTypeOK', UNCHANGED <<backlog, fds, own>>,
         \A c \in Clients : peer'[c] = "none" <=> peer[c] = "none"
  PROVE  IInv'
  <1>1. UNCHANGED <<fd, status, call_back, data, deaf, blocking, idle, tree, touched, check_pos, process>>
    BY DEF own, table
  <1>2. TypeOK'
    BY <1>1 DEF IInv, TypeOK
  <1>3. WaitsOnce' /\ Met'
    BY DEF IInv, WaitsOnce, Met, Waits
  <1>4. \A r \in tree : r[1] \in Clients
    BY DEF IInv, TypeOK
  <1>5. ASSUME process # "dead" PROVE Table' /\ Registered' /\ Round'
    <2>1. Table /\ Registered /\ Round
      BY <1>5 DEF IInv
    <2>2. Table'
      BY <1>1, <2>1 DEF Table, In, Registrations
    <2>3. Registered'
      BY <1>1, <1>4, <2>1 DEF Registered, Waits
    <2>4. Round'
      BY <1>1, <2>1 DEF Round, Registrations
    <2>5. QED
      BY <2>2, <2>3, <2>4
  <1>6. QED
    BY <1>1, <1>2, <1>3, <1>5 DEF IInv

LEMMA ConnectIInv ==
  ASSUME IInv, process # "dead", NEW c \in Clients, Connect(c), UNCHANGED own
  PROVE  IInv'
  <1>1. /\ peer[c] = "none" /\ peer' = [peer EXCEPT ![c] = "open"] /\ backlog' = Append(backlog, c)
        /\ UNCHANGED <<sent, read, out, got, taken, fds>>
        /\ UNCHANGED <<fd, status, call_back, data, deaf, blocking, idle, tree, touched, check_pos, process>>
    BY DEF Connect, own, table
  <1>2. ~Waits(c)
    BY <1>1 DEF IInv, Met
  <1>3. backlog' \in Seq(Clients) /\ WaitsOnce' /\ \A d : Waits(d)' <=> Waits(d) \/ d = c
    BY <1>1, <1>2, BacklogAppended DEF IInv, TypeOK, NetTypeOK
  <1>4. /\ peer' \in [Clients -> Peers] /\ peer'[c] = "open"
        /\ \A d \in Clients \ {c} : peer'[d] = peer[d]
    BY <1>1 DEF IInv, TypeOK, NetTypeOK, Peers
  <1>5. TypeOK'
    BY <1>1, <1>3, <1>4 DEF IInv, TypeOK, NetTypeOK
  <1>6. Met'
    BY <1>3, <1>4 DEF IInv, Met
  <1>7. Table' /\ Round'
    BY <1>1 DEF IInv, Table, Round, In, Registrations
  <1>8. Registered'
    <2>1. \A r \in tree : r[1] \in Clients /\ r[1] # c
      BY <1>1 DEF IInv, TypeOK, Registered
    <2>2. QED
      BY <1>1, <1>3, <1>4, <2>1 DEF IInv, Registered
  <1>9. QED
    BY <1>1, <1>3, <1>5, <1>6, <1>7, <1>8 DEF IInv

LEMMA SendIInv ==
  ASSUME LoopConstants, IInv, NEW c \in Clients, Send(c), UNCHANGED own
  PROVE  IInv'
  <1>1. /\ sent[c] < Len(Text) /\ sent' = [sent EXCEPT ![c] = @ + 1]
        /\ UNCHANGED <<peer, backlog, read, out, got, taken, fds>>
    BY DEF Send
  <1>2. sent' \in [Clients -> 0 .. Len(Text)]
    <2>1. sent \in [Clients -> 0 .. Len(Text)]
      BY DEF IInv, TypeOK, NetTypeOK
    <2>2. Len(Text) \in Nat
      BY Sizes
    <2>3. QED
      BY ONLY <1>1, <2>1, <2>2, c \in Clients
  <1>3. NetTypeOK'
    BY <1>1, <1>2 DEF IInv, TypeOK, NetTypeOK
  <1>4. QED
    BY <1>1, <1>3, ClientKeeps

LEMMA LeaveIInv ==
  ASSUME IInv, NEW c \in Clients, Leave(c), UNCHANGED own
  PROVE  IInv'
  <1>1. UNCHANGED <<backlog, sent, read, out, got, taken, fds>>
    BY DEF Leave
  <1>2. /\ peer[c] # "none"
        /\ \E p \in {"eof", "closed", "reset", "broken"} : peer' = [peer EXCEPT ![c] = p]
    BY DEF Leave
  <1>3. peer' \in [Clients -> Peers] /\ \A d \in Clients : peer'[d] = "none" <=> peer[d] = "none"
    <2>1. peer \in [Clients -> Peers]
      BY DEF IInv, TypeOK, NetTypeOK
    <2>2. QED
      BY ONLY <1>2, <2>1, c \in Clients DEF Peers
  <1>4. NetTypeOK'
    BY <1>1, <1>3 DEF IInv, TypeOK, NetTypeOK
  <1>5. QED
    BY <1>1, <1>3, <1>4, ClientKeeps

LEMMA ReceiveIInv ==
  ASSUME IInv, NEW c \in Clients, Receive(c), UNCHANGED own
  PROVE  IInv'
  <1>1. /\ taken' = [taken EXCEPT ![c] = Len(got[c])]
        /\ UNCHANGED <<peer, backlog, sent, read, out, got, fds>>
    BY DEF Receive
  <1>2. Len(got[c]) \in Nat
    BY LenProperties DEF IInv, TypeOK, NetTypeOK
  <1>3. NetTypeOK'
    BY <1>1, <1>2 DEF IInv, TypeOK, NetTypeOK
  <1>4. QED
    BY <1>1, <1>3, ClientKeeps

------------------------------------------------------------------------------
(* The loop *)

(* The table, and the clients that wait, stay as they are. *)
LEMMA TickIInv ==
  ASSUME LoopConstants, IInv, Tick
  PROVE  IInv'
  <1>1. /\ idle' = [s \in Slots |-> IF In(s) /\ idle[s] < Timeout THEN idle[s] + 1 ELSE idle[s]]
        /\ UNCHANGED <<net, table, tree, touched, check_pos, process>>
    BY DEF Tick
  <1>2. idle' \in [Slots -> 0 .. Timeout]
    BY <1>1, Sizes DEF IInv, TypeOK
  <1>3. TypeOK'
    BY <1>1, <1>2 DEF IInv, TypeOK, NetTypeOK, net, table
  <1>4. QED
    BY <1>1, <1>3 DEF IInv, WaitsOnce, Met, Table, Registered, Round, Waits, In, Registrations, net, table

LEMMA DeathIInv ==
  ASSUME IInv, process' = "dead", Drop(Clients),
         UNCHANGED <<peer, backlog, sent, read, out, got, taken, table, idle, tree, touched, check_pos>>
  PROVE  IInv'
  <1>1. fds' = [c \in Clients |-> IF fds[c] > 0 THEN fds[c] - 1 ELSE fds[c]]
    BY DEF Drop
  <1>2. fds' \in [Clients -> 0 .. 2]
    BY <1>1 DEF IInv, TypeOK, NetTypeOK
  <1>3. TypeOK'
    BY <1>2 DEF IInv, TypeOK, NetTypeOK, table
  <1>4. QED
    BY <1>3 DEF IInv, WaitsOnce, Met, Waits

LEMMA EpollWaitIInv ==
  ASSUME LoopConstants, IInv, EpollWait
  PROVE  IInv'
  <1>1. /\ check_pos' = ((check_pos - 1 + Checks) % OPEN_MAX) + 1
        /\ touched' = {r[2] : r \in {q \in tree : Ready(q)}} \cup (IF backlog # <<>> THEN {0} \ deaf ELSE {})
        /\ process' = IF touched' = {} THEN "wait" ELSE "events"
        /\ process # "dead"
        /\ UNCHANGED <<net, table, idle, tree>>
    BY DEF EpollWait
  <1>2. check_pos' \in Slots
    <2>1. check_pos - 1 + Checks \in Int /\ OPEN_MAX \in Nat \ {0}
      BY DEF IInv, TypeOK, Slots, LoopConstants
    <2>2. QED
      BY <1>1, <2>1 DEF Slots
  <1>3. \A s \in touched' : s = 0 \/ \E r \in tree : s = r[2]
    BY <1>1
  <1>4. \A r \in tree : r[2] \in Slots
    BY DEF IInv, TypeOK
  <1>5. Slots \subseteq 0 .. OPEN_MAX /\ 0 \in 0 .. OPEN_MAX /\ 0 \notin Slots
    BY Sizes DEF Slots
  <1>6. touched' \subseteq 0 .. OPEN_MAX
    BY <1>3, <1>4, <1>5
  <1>7. TypeOK'
    BY <1>1, <1>2, <1>6 DEF IInv, TypeOK, NetTypeOK, net, table
  <1>8. WaitsOnce' /\ Met' /\ Table' /\ Registered'
    BY <1>1 DEF IInv, WaitsOnce, Met, Table, Registered, Waits, In, Registrations, net, table
  <1>9. \A s \in touched' \cap Slots : Registrations(s) # {}
    BY <1>3, <1>5 DEF Registrations
  <1>10. Round'
    BY <1>1, <1>9 DEF Round, Registrations
  <1>11. QED
    BY <1>7, <1>8, <1>10 DEF IInv

(* The slot whose call-back runs: its descriptor is open, its own and      *)
(* nobody else's.                                                          *)
LEMMA OwnerOf ==
  ASSUME IInv, process = "events", NEW s \in Slots, s \in touched
  PROVE  /\ In(s) /\ fd[s] \in Clients /\ fds[fd[s]] = 1
         /\ peer[fd[s]] # "none" /\ ~Waits(fd[s])
         /\ \A r \in tree : r[1] = fd[s] <=> r[2] = s
  <1>1. Registrations(s) # {} /\ In(s)
    BY DEF IInv, Round, Table
  <1>2. PICK q \in tree : q[2] = s
    BY <1>1 DEF Registrations
  <1>3. q[1] = fd[s] /\ q[1] \in Clients /\ fds[q[1]] = 1
    BY <1>2 DEF IInv, Table, TypeOK
  <1>4. \A r \in tree : r[1] = fd[s] \/ r[2] = s => r = q
    BY <1>2, <1>3 DEF IInv, Table
  <1>5. QED
    BY <1>1, <1>2, <1>3, <1>4 DEF IInv, Registered

------------------------------------------------------------------------------
(* event_add() and event_remove() *)

(* A slot that is registered for a client who has no other slot: the table *)
(* still agrees with the epoll instance.                                   *)
LEMMA AddKeeps ==
  ASSUME LoopConstants, IInv, process = "events",
         NEW s \in Slots, NEW c \in Clients, NEW event \in {"EPOLLIN", "EPOLLOUT"},
         event_add(c, s, event), NEW t \in 0 .. OPEN_MAX, Touch(t), s \notin touched',
         \A r \in tree : r[1] = c => r[2] = s,
         fds'[c] = 1, \A d \in Clients \ {c} : fds'[d] = fds[d],
         peer'[c] # "none", \A d \in Clients : peer[d] # "none" => peer'[d] # "none",
         ~Waits(c)', \A d \in Clients : Waits(d)' => Waits(d)
  PROVE  /\ fd' \in [Slots -> Clients \cup {NoClient}]
         /\ status' \in [Slots -> {"IN_EPOLL_TREE", "NOT_IN_EPOLL_TREE"}]
         /\ call_back' \in [Slots -> {"receive_data", "send_data"}]
         /\ idle' \in [Slots -> 0 .. Timeout]
         /\ tree' \in SUBSET (Clients \X Slots \X {"EPOLLIN", "EPOLLOUT"})
         /\ deaf' \in SUBSET (0 .. OPEN_MAX)
         /\ touched' \in SUBSET (0 .. OPEN_MAX) /\ check_pos' \in Slots
         /\ process' \in {"wait", "events"}
         /\ Table' /\ Registered' /\ Round'
  <1>1. /\ fd \in [Slots -> Clients \cup {NoClient}]
        /\ status \in [Slots -> {"IN_EPOLL_TREE", "NOT_IN_EPOLL_TREE"}]
        /\ call_back \in [Slots -> {"receive_data", "send_data"}]
        /\ idle \in [Slots -> 0 .. Timeout]
        /\ tree \in SUBSET (Clients \X Slots \X {"EPOLLIN", "EPOLLOUT"})
        /\ deaf \in SUBSET (0 .. OPEN_MAX)
        /\ touched \in SUBSET (0 .. OPEN_MAX) /\ check_pos \in Slots
    BY DEF IInv, TypeOK
  <1>2. /\ \/ tree' = (tree \ Registrations(s)) \cup {<<c, s, event>>} /\ deaf' = deaf \ {s}
           \/ tree' = tree \ Registrations(s) /\ deaf' = deaf \cup {s}
        /\ fd' = [fd EXCEPT ![s] = c]
        /\ call_back' = [call_back EXCEPT ![s] = IF event = "EPOLLIN" THEN "receive_data" ELSE "send_data"]
        /\ idle' = [idle EXCEPT ![s] = 0]
        /\ status' = [status EXCEPT ![s] = "IN_EPOLL_TREE"]
    BY DEF event_add, event_set, epoll_ctl
  <1>3. /\ touched' \subseteq touched /\ (process' = IF touched' = {} THEN "wait" ELSE "events")
        /\ check_pos' = check_pos
    BY DEF Touch
  <1>4. PICK added \in BOOLEAN :
          /\ \A r : r \in tree' <=> (r \in tree /\ r[2] # s) \/ (added /\ r = <<c, s, event>>)
          /\ \A q : q \in deaf' <=> (q \in deaf /\ q # s) \/ (~added /\ q = s)
    <2>1. \A r : r \in tree \ Registrations(s) <=> r \in tree /\ r[2] # s
      BY DEF Registrations
    <2>2. CASE tree' = (tree \ Registrations(s)) \cup {<<c, s, event>>} /\ deaf' = deaf \ {s}
      BY ONLY <2>1, <2>2, TRUE \in BOOLEAN
    <2>3. CASE tree' = tree \ Registrations(s) /\ deaf' = deaf \cup {s}
      BY ONLY <2>1, <2>3, FALSE \in BOOLEAN
    <2>4. QED
      BY <1>2, <2>2, <2>3
  <1>5. fd' \in [Slots -> Clients \cup {NoClient}] /\ fd'[s] = c /\ \A q \in Slots \ {s} : fd'[q] = fd[q]
    BY <1>1, <1>2
  <1>6. /\ status' \in [Slots -> {"IN_EPOLL_TREE", "NOT_IN_EPOLL_TREE"}]
        /\ In(s)' /\ \A q \in Slots \ {s} : In(q)' <=> In(q)
    BY <1>1, <1>2 DEF In
  <1>7. /\ call_back' \in [Slots -> {"receive_data", "send_data"}]
        /\ event = "EPOLLIN" <=> call_back'[s] = "receive_data"
        /\ \A q \in Slots \ {s} : call_back'[q] = call_back[q]
    BY <1>1, <1>2
  <1>8. idle' \in [Slots -> 0 .. Timeout]
    BY <1>1, <1>2, Sizes
  <1>9. tree' \in SUBSET (Clients \X Slots \X {"EPOLLIN", "EPOLLOUT"})
    BY <1>1, <1>4
  <1>10. \A r \in tree : r[1] \in Clients /\ r[2] \in Slots
    BY <1>1
  <1>11. Table /\ Registered /\ Round
    BY DEF IInv
  <1>12. ASSUME NEW q \in Slots PROVE In(q)' <=> Registrations(q)' # {} \/ q \in deaf'
    <2>1. Registrations(q)' # {} <=> \E r \in tree' : r[2] = q
      BY DEF Registrations
    <2>2. In(q) <=> (\E r \in tree : r[2] = q) \/ q \in deaf
      BY <1>11 DEF Table, Registrations
    <2>3. CASE q = s
      <3>1. <<c, s, event>>[2] = s
        OBVIOUS
      <3>2. (\E r \in tree' : r[2] = q) \/ q \in deaf'
        BY ONLY <1>4, <2>3, <3>1
      <3>3. QED
        BY <1>6, <2>1, <2>3, <3>2
    <2>4. CASE q # s
      <3>1. <<c, s, event>>[2] = s
        OBVIOUS
      <3>2. ((\E r \in tree' : r[2] = q) <=> (\E r \in tree : r[2] = q)) /\ (q \in deaf' <=> q \in deaf)
        BY ONLY <1>4, <2>4, <3>1
      <3>3. QED
        BY <1>6, <2>1, <2>2, <2>4, <3>2
    <2>5. QED
      BY <2>3, <2>4
  <1>13. ASSUME NEW q \in tree', NEW r \in tree', q[1] = r[1] \/ q[2] = r[2] PROVE q = r
    BY <1>4, <1>11, <1>13 DEF Table
  <1>14. ASSUME NEW r \in tree'
         PROVE  /\ r[1] = fd'[r[2]] /\ fds'[r[1]] = 1
                /\ r[3] = "EPOLLIN" <=> call_back'[r[2]] = "receive_data"
    <2>1. CASE r = <<c, s, event>>
      BY <1>5, <1>7, <2>1
    <2>2. CASE r \in tree /\ r[2] # s
      <3>1. r[1] \in Clients \ {c} /\ r[2] \in Slots \ {s}
        BY <1>10, <2>2
      <3>2. /\ r[1] = fd[r[2]] /\ fds[r[1]] = 1
            /\ r[3] = "EPOLLIN" <=> call_back[r[2]] = "receive_data"
        BY <1>11, <2>2 DEF Table
      <3>3. QED
        BY <1>5, <1>7, <3>1, <3>2
    <2>3. QED
      BY <1>4, <2>1, <2>2
  <1>15. Table'
    <2>1. ASSUME NEW q \in deaf', NEW r \in tree' PROVE r[2] # q
      <3>1. \A u \in tree : \A v \in deaf : u[2] # v
        BY <1>11 DEF Table, Registrations
      <3>2. <<c, s, event>>[2] = s
        OBVIOUS
      <3>3. QED
        BY ONLY <1>4, <3>1, <3>2, q \in deaf', r \in tree'
    <2>2. \A q \in deaf' : Registrations(q)' = {}
      BY <2>1 DEF Registrations
    <2>3. QED
      BY <1>12, <1>13, <1>14, <2>2 DEF Table
  <1>16. Registered'
    BY <1>4, <1>10, <1>11 DEF Registered
  <1>17. Round'
    <2>1. ASSUME NEW q \in touched' \cap Slots PROVE Registrations(q)' # {}
      <3>1. q # s /\ q \in touched \cap Slots
        BY <1>3
      <3>2. PICK r \in tree : r[2] = q
        BY <1>11, <3>1 DEF Round, Registrations
      <3>3. r \in tree'
        BY <1>4, <3>1, <3>2
      <3>4. QED
        BY <3>2, <3>3 DEF Registrations
    <2>2. QED
      BY <1>3, <2>1 DEF Round
  <1>18. deaf' \in SUBSET (0 .. OPEN_MAX)
    <2>1. s \in 0 .. OPEN_MAX
      BY Sizes DEF Slots
    <2>2. QED
      BY <1>1, <1>4, <2>1
  <1>19. QED
    BY <1>1, <1>3, <1>18, <1>5, <1>6, <1>7, <1>8, <1>9, <1>15, <1>16, <1>17

(* A slot that is given up. *)
LEMMA RemoveKeeps ==
  ASSUME LoopConstants, IInv, process = "events", NEW s \in Slots, s \in touched,
         event_remove(s), Touch(s), UNCHANGED <<fd, call_back, deaf>>,
         \A d \in Clients \ {fd[s]} : fds'[d] = fds[d],
         \A d \in Clients : peer[d] # "none" => peer'[d] # "none",
         UNCHANGED backlog
  PROVE  /\ status' \in [Slots -> {"IN_EPOLL_TREE", "NOT_IN_EPOLL_TREE"}]
         /\ idle' \in [Slots -> 0 .. Timeout]
         /\ tree' \in SUBSET (Clients \X Slots \X {"EPOLLIN", "EPOLLOUT"})
         /\ deaf' \in SUBSET (0 .. OPEN_MAX)
         /\ touched' \in SUBSET (0 .. OPEN_MAX) /\ check_pos' \in Slots
         /\ process' \in {"wait", "events"}
         /\ Table' /\ Registered' /\ Round'
  <1>1. /\ status \in [Slots -> {"IN_EPOLL_TREE", "NOT_IN_EPOLL_TREE"}]
        /\ idle \in [Slots -> 0 .. Timeout]
        /\ tree \in SUBSET (Clients \X Slots \X {"EPOLLIN", "EPOLLOUT"})
        /\ deaf \in SUBSET (0 .. OPEN_MAX)
        /\ touched \in SUBSET (0 .. OPEN_MAX) /\ check_pos \in Slots
    BY DEF IInv, TypeOK
  <1>2. /\ tree' = tree \ Registrations(s)
        /\ status' = [status EXCEPT ![s] = "NOT_IN_EPOLL_TREE"]
        /\ idle' = [idle EXCEPT ![s] = 0]
    BY DEF event_remove
  <1>3. /\ touched' = touched \ {s} /\ (process' = IF touched' = {} THEN "wait" ELSE "events")
        /\ check_pos' = check_pos
    BY DEF Touch
  <1>4. \A r : r \in tree' <=> r \in tree /\ r[2] # s
    BY <1>2 DEF Registrations
  <1>5. /\ status' \in [Slots -> {"IN_EPOLL_TREE", "NOT_IN_EPOLL_TREE"}]
        /\ ~In(s)' /\ \A q \in Slots \ {s} : In(q)' <=> In(q)
    BY <1>1, <1>2 DEF In
  <1>6. idle' \in [Slots -> 0 .. Timeout]
    BY <1>1, <1>2, Sizes
  <1>7. Table /\ Registered /\ Round
    BY DEF IInv
  <1>8. ASSUME NEW r \in tree' PROVE r \in tree /\ r[1] \in Clients \ {fd[s]} /\ r[2] # s
    <2>1. r \in tree /\ r[2] # s /\ r[1] \in Clients
      BY <1>1, <1>4
    <2>2. r[1] # fd[s]
      BY <2>1, OwnerOf
    <2>3. QED
      BY <2>1, <2>2
  <1>9. ASSUME NEW q \in Slots PROVE In(q)' <=> Registrations(q)' # {} \/ q \in deaf'
    <2>1. s \notin deaf
      BY <1>7 DEF Round, Table
    <2>2. deaf' = deaf
      OBVIOUS
    <2>3. QED
      BY <1>4, <1>5, <1>7, <2>1, <2>2 DEF Table, Registrations
  <1>10. Table'
    <2>1. \A q \in deaf' : Registrations(q)' = {}
      BY <1>4, <1>7 DEF Table, Registrations
    <2>2. QED
      BY <1>7, <1>8, <1>9, <2>1 DEF Table
  <1>11. Registered'
    BY <1>7, <1>8 DEF Registered, Waits
  <1>12. Round'
    <2>1. ASSUME NEW q \in touched' \cap Slots PROVE Registrations(q)' # {}
      <3>1. PICK r \in tree : r[2] = q
        BY <1>3, <1>7 DEF Round, Registrations
      <3>2. r \in tree'
        BY <1>3, <1>4, <3>1
      <3>3. QED
        BY <3>1, <3>2 DEF Registrations
    <2>2. QED
      BY <1>3, <2>1 DEF Round
  <1>13. QED
    BY <1>1, <1>3, <1>4, <1>5, <1>6, <1>10, <1>11, <1>12

------------------------------------------------------------------------------
(* The call-backs *)

LEMMA AcceptIInv ==
  ASSUME LoopConstants, IInv, accept_connection
  PROVE  IInv'
  <1>1. PICK c \in Clients, s \in FreeSlots :
          /\ accept(c) /\ event_add(c, s, "EPOLLIN")
          /\ blocking' \in {blocking, blocking \cup {c}}
    BY DEF accept_connection
  <1>2. /\ Touch(0) /\ process = "events"
        /\ UNCHANGED <<peer, sent, read, out, got, taken, data>>
    BY DEF accept_connection, Touch
  <1>3. s \in Slots /\ ~In(s)
    BY DEF FreeSlots
  <1>4. /\ backlog # <<>> /\ c = Head(backlog) /\ backlog' = Tail(backlog)
        /\ fds' = [fds EXCEPT ![c] = 1]
    BY <1>1 DEF accept
  <1>5. backlog' \in Seq(Clients) /\ WaitsOnce' /\ Waits(c) /\ \A d : Waits(d)' <=> Waits(d) /\ d # c
    BY <1>4, BacklogTaken DEF IInv, TypeOK, NetTypeOK
  <1>6. fds' \in [Clients -> 0 .. 2] /\ fds'[c] = 1 /\ \A d \in Clients \ {c} : fds'[d] = fds[d]
    <2>1. fds \in [Clients -> 0 .. 2]
      BY DEF IInv, TypeOK, NetTypeOK
    <2>2. fds' = [fds EXCEPT ![c] = 1]
      BY <1>4
    <2>3. QED
      BY ONLY <2>1, <2>2, c \in Clients
  <1>7. peer[c] # "none" /\ \A r \in tree : r[1] # c
    BY <1>2, <1>5 DEF IInv, Met, Registered
  <1>8. /\ fd' \in [Slots -> Clients \cup {NoClient}]
        /\ status' \in [Slots -> {"IN_EPOLL_TREE", "NOT_IN_EPOLL_TREE"}]
        /\ call_back' \in [Slots -> {"receive_data", "send_data"}]
        /\ idle' \in [Slots -> 0 .. Timeout]
        /\ tree' \in SUBSET (Clients \X Slots \X {"EPOLLIN", "EPOLLOUT"})
        /\ deaf' \in SUBSET (0 .. OPEN_MAX)
        /\ touched' \in SUBSET (0 .. OPEN_MAX) /\ check_pos' \in Slots
        /\ process' \in {"wait", "events"}
        /\ Table' /\ Registered' /\ Round'
    <2>1. 0 \in 0 .. OPEN_MAX
      BY Sizes
    <2>2. peer'[c] # "none" /\ (\A d \in Clients : peer[d] # "none" => peer'[d] # "none")
      BY <1>2, <1>7
    <2>3. ~Waits(c)' /\ \A d \in Clients : Waits(d)' => Waits(d)
      BY <1>5
    <2>4. \A r \in tree : r[1] = c => r[2] = s
      BY <1>7
    <2>5. fds'[c] = 1 /\ \A d \in Clients \ {c} : fds'[d] = fds[d]
      BY <1>6
    <2>6. event_add(c, s, "EPOLLIN") /\ Touch(0) /\ process = "events" /\ s \in Slots
      BY <1>1, <1>2, <1>3
    <2>8. s \notin touched'
      <3>1. s \in touched => In(s)
        BY <1>2, <1>3 DEF IInv, Round, Table
      <3>2. QED
        BY <1>2, <1>3, <3>1 DEF Touch
    <2>7. QED
      BY ONLY LoopConstants, IInv, <2>1, <2>2, <2>3, <2>4, <2>5, <2>6, <2>8, c \in Clients, AddKeeps
  <1>9. TypeOK'
    BY <1>1, <1>2, <1>5, <1>6, <1>8 DEF IInv, TypeOK, NetTypeOK
  <1>10. Met'
    BY <1>2, <1>5 DEF IInv, Met
  <1>11. QED
    BY <1>5, <1>8, <1>9, <1>10 DEF IInv

LEMMA AcceptFailsIInv ==
  ASSUME IInv, AcceptFails
  PROVE  IInv'
  <1>1. /\ touched' \subseteq touched /\ check_pos' = check_pos /\ process = "events"
        /\ process' = IF touched' = {} THEN "wait" ELSE "events"
        /\ UNCHANGED <<peer, backlog, sent, read, out, got, taken, fds>>
        /\ UNCHANGED <<fd, status, call_back, data, deaf, blocking, idle, tree>>
    BY DEF AcceptFails, Touch, net, table
  <1>2. TypeOK'
    BY <1>1 DEF IInv, TypeOK, NetTypeOK
  <1>3. WaitsOnce' /\ Met'
    BY <1>1 DEF IInv, WaitsOnce, Met, Waits
  <1>4. Table' /\ Registered'
    BY <1>1 DEF IInv, Table, Registered, Waits, In, Registrations
  <1>5. Round'
    BY <1>1 DEF IInv, Round, Registrations
  <1>6. QED
    BY <1>2, <1>3, <1>4, <1>5 DEF IInv

(* The listening socket is registered, or not. *)
LEMMA ListenIInv ==
  ASSUME LoopConstants, IInv, ListenAdd
  PROVE  IInv'
  <1>1. /\ process = "start" /\ process' = "wait" /\ (deaf' = deaf \ {0} \/ deaf' = deaf \cup {0})
        /\ tree' = (tree \ Registrations(0)) \cup {} \/ tree' = tree \ Registrations(0)
        /\ UNCHANGED <<peer, backlog, sent, read, out, got, taken, fds>>
        /\ UNCHANGED <<fd, status, call_back, data, blocking, idle, touched, check_pos>>
    BY DEF ListenAdd, epoll_ctl, net
  <1>2. 0 \notin Slots /\ 0 \in 0 .. OPEN_MAX
    BY Sizes DEF Slots
  <1>3. \A r \in tree : r[2] # 0
    BY <1>2 DEF IInv, TypeOK
  <1>4. tree' = tree /\ Registrations(0) = {}
    BY <1>1, <1>3 DEF Registrations
  <1>5. TypeOK'
    BY <1>1, <1>2, <1>4 DEF IInv, TypeOK, NetTypeOK
  <1>6. WaitsOnce' /\ Met'
    BY <1>1 DEF IInv, WaitsOnce, Met, Waits
  <1>7. Table /\ Registered /\ Round
    BY <1>1 DEF IInv
  <1>8. \A s \in Slots : s \in deaf' <=> s \in deaf
    BY <1>1, <1>2
  <1>9. Table'
    BY <1>1, <1>4, <1>7, <1>8 DEF Table, In, Registrations
  <1>10. Registered' /\ Round'
    BY <1>1, <1>4, <1>7 DEF Registered, Round, Waits, Registrations
  <1>11. QED
    BY <1>5, <1>6, <1>9, <1>10 DEF IInv

LEMMA LeakIInv ==
  ASSUME IInv, AcceptLeaks
  PROVE  IInv'
  <1>1. PICK c \in Clients : accept(c)
    BY DEF AcceptLeaks
  <1>2. /\ process = "events" /\ touched' \subseteq touched /\ check_pos' = check_pos
        /\ process' = IF touched' = {} THEN "wait" ELSE "events"
        /\ UNCHANGED <<peer, sent, read, out, got, taken, fd, status, call_back, data, deaf, blocking, idle, tree>>
    BY DEF AcceptLeaks, Touch, table
  <1>3. /\ backlog # <<>> /\ c = Head(backlog) /\ backlog' = Tail(backlog)
        /\ fds' = [fds EXCEPT ![c] = 1]
    BY <1>1 DEF accept
  <1>4. backlog' \in Seq(Clients) /\ WaitsOnce' /\ Waits(c) /\ \A d : Waits(d)' <=> Waits(d) /\ d # c
    BY <1>3, BacklogTaken DEF IInv, TypeOK, NetTypeOK
  <1>5. fds' \in [Clients -> 0 .. 2] /\ fds'[c] = 1 /\ \A d \in Clients \ {c} : fds'[d] = fds[d]
    <2>1. fds \in [Clients -> 0 .. 2]
      BY DEF IInv, TypeOK, NetTypeOK
    <2>2. fds' = [fds EXCEPT ![c] = 1]
      BY <1>3
    <2>3. QED
      BY ONLY <2>1, <2>2, c \in Clients
  <1>6. TypeOK'
    BY <1>2, <1>4, <1>5 DEF IInv, TypeOK, NetTypeOK
  <1>7. Met'
    BY <1>2, <1>4 DEF IInv, Met
  <1>8. Table /\ Registered /\ Round /\ \A r \in tree : r[1] \in Clients
    BY <1>2 DEF IInv, TypeOK
  <1>9. Table'
    BY <1>2, <1>5, <1>8 DEF Table, In, Registrations
  <1>10. Registered' /\ Round'
    BY <1>2, <1>4, <1>8 DEF Registered, Round, Registrations
  <1>11. QED
    BY <1>4, <1>6, <1>7, <1>9, <1>10 DEF IInv

(* What read() and send() pass on is text. *)
LEMMA CutOfSeq ==
  ASSUME NEW S, NEW t \in Seq(S), NEW m \in Nat \ {0}, NEW n \in Int, n <= Len(t)
  PROVE  SubSeq(t, m, n) \in Seq(S)
  <1>1. Len(t) \in Nat /\ \A i \in 1 .. Len(t) : t[i] \in S
    BY ElementOfSeq, LenProperties
  <1>2. \A i \in m .. n : t[i] \in S
    BY <1>1
  <1>3. QED
    BY <1>2, SubSeqProperties

LEMMA ReceiveDataIInv ==
  ASSUME LoopConstants, IInv, NEW s \in Slots, receive_data(s)
  PROVE  IInv'
  <1>0. Touch(s) /\ process = "events" /\ s \in touched
    BY DEF receive_data, Touch
  <1>. PICK c \in Clients : c = fd[s]
    BY <1>0, OwnerOf
  <1>1. /\ Touch(s) /\ process = "events" /\ s \in touched /\ event_add(c, s, "EPOLLOUT")
        /\ UNCHANGED <<peer, backlog, sent, out, got, taken, fds, blocking>> /\ s \notin touched'
    BY DEF receive_data, readData, Touch
  <1>2. /\ read[c] < sent[c] /\ read' = [read EXCEPT ![c] = Upto(c)]
        /\ data' = [data EXCEPT ![s] = SubSeq(Text, read[c] + 1, Upto(c))]
    BY DEF receive_data, readData
  <1>3. /\ In(s) /\ c \in Clients /\ fds[c] = 1
        /\ peer[c] # "none" /\ ~Waits(c)
        /\ \A r \in tree : r[1] = c <=> r[2] = s
    BY <1>1, OwnerOf
  <1>4. read \in [Clients -> 0 .. Len(Text)] /\ sent \in [Clients -> 0 .. Len(Text)] /\ BUFSIZE \in Nat \ {0}
    BY EchoAssumption DEF IInv, TypeOK, NetTypeOK
  <1>5. Upto(c) \in 0 .. Len(Text) /\ read[c] + 1 \in Nat \ {0} /\ Upto(c) \in Int
    <2>1. Len(Text) \in Nat
      BY Sizes
    <2>2. read[c] \in 0 .. Len(Text) /\ sent[c] \in 0 .. Len(Text)
      BY ONLY <1>4, c \in Clients
    <2>3. QED
      BY ONLY <1>4, <2>1, <2>2 DEF Upto, Least
  <1>6. read' \in [Clients -> 0 .. Len(Text)]
    BY <1>2, <1>4, <1>5
  <1>7. data' \in [Slots -> Seq(Char)]
    <2>1. Text \in Seq(Char)
      <3>1. Text \in Seq(DOMAIN Upper) /\ DOMAIN Upper \subseteq Char
        BY EchoAssumption DEF Char
      <3>2. QED
        BY ONLY <3>1
    <2>2. Upto(c) <= Len(Text)
      BY <1>5, Sizes
    <2>3. SubSeq(Text, read[c] + 1, Upto(c)) \in Seq(Char)
      BY ONLY <1>5, <2>1, <2>2, CutOfSeq
    <2>4. data \in [Slots -> Seq(Char)]
      BY DEF IInv, TypeOK
    <2>5. QED
      BY <1>2, <2>3, <2>4
  <1>8. /\ fd' \in [Slots -> Clients \cup {NoClient}]
        /\ status' \in [Slots -> {"IN_EPOLL_TREE", "NOT_IN_EPOLL_TREE"}]
        /\ call_back' \in [Slots -> {"receive_data", "send_data"}]
        /\ idle' \in [Slots -> 0 .. Timeout]
        /\ tree' \in SUBSET (Clients \X Slots \X {"EPOLLIN", "EPOLLOUT"})
        /\ deaf' \in SUBSET (0 .. OPEN_MAX)
        /\ touched' \in SUBSET (0 .. OPEN_MAX) /\ check_pos' \in Slots
        /\ process' \in {"wait", "events"}
        /\ Table' /\ Registered' /\ Round'
    <2>1. s \in 0 .. OPEN_MAX
      BY Sizes DEF Slots
    <2>2. peer'[c] # "none" /\ (\A d \in Clients : peer[d] # "none" => peer'[d] # "none")
      BY <1>1, <1>3
    <2>3. ~Waits(c)' /\ \A d \in Clients : Waits(d)' => Waits(d)
      BY <1>1, <1>3 DEF Waits
    <2>4. \A r \in tree : r[1] = c => r[2] = s
      BY <1>3
    <2>5. fds'[c] = 1 /\ \A d \in Clients \ {c} : fds'[d] = fds[d]
      BY <1>1, <1>3
    <2>6. QED
      BY ONLY LoopConstants, IInv, <1>1, <2>1, <2>2, <2>3, <2>4, <2>5, c \in Clients, s \in Slots, AddKeeps
  <1>9. TypeOK'
    BY <1>1, <1>6, <1>7, <1>8 DEF IInv, TypeOK, NetTypeOK
  <1>10. WaitsOnce' /\ Met'
    BY <1>1 DEF IInv, WaitsOnce, Met, Waits
  <1>11. QED
    BY <1>8, <1>9, <1>10 DEF IInv

LEMMA WritesText ==
  ASSUME IInv, NEW c \in Clients, NEW t \in Seq(Char), NEW n \in Int, n <= Len(t),
         got' = [got EXCEPT ![c] = @ \o SubSeq(t, 1, n)]
  PROVE  got' \in [Clients -> Seq(Char)]
  <1>1. got \in [Clients -> Seq(Char)]
    BY DEF IInv, TypeOK, NetTypeOK
  <1>2. 1 \in Nat \ {0} /\ got[c] \in Seq(Char)
    BY <1>1
  <1>3. PICK u \in Seq(Char) : u = SubSeq(t, 1, n)
    BY <1>2, CutOfSeq
  <1>4. PICK v \in Seq(Char) : v = got[c] \o u
    BY ONLY <1>2, u \in Seq(Char), ConcatIs
  <1>5. got' = [got EXCEPT ![c] = v]
    BY <1>3, <1>4
  <1>6. QED
    BY ONLY <1>1, <1>5, v \in Seq(Char), c \in Clients

(* How much of t there is room for. *)
LEMMA RoomFor ==
  ASSUME IInv, NEW c \in Clients, NEW t \in Seq(Char)
  PROVE  LET n == Least(Len(t), Room - (Len(got[c]) - taken[c]))
         IN  n \in Int /\ n <= Len(t) /\ Len(t) \in Nat /\ (n > 0 => n + 1 \in Nat \ {0})
  <1>1. got[c] \in Seq(Char) /\ taken[c] \in Nat /\ Room \in Nat \ {0}
    BY EchoAssumption DEF IInv, TypeOK, NetTypeOK
  <1>2. Len(t) \in Nat /\ Len(got[c]) \in Nat
    BY <1>1, LenProperties
  <1>3. QED
    BY <1>1, <1>2 DEF Least

(* send() has returned, and the slot waits for input again. *)
LEMMA SentIInv ==
  ASSUME LoopConstants, IInv, NEW s \in Slots, NEW c \in Clients, c = fd[s],
         Touch(s), event_add(c, s, "EPOLLIN"),
         UNCHANGED <<peer, backlog, sent, read, taken, fds, blocking>>,
         out' \in [Clients -> Seq(Char)], got' \in [Clients -> Seq(Char)], data' \in [Slots -> Seq(Char)]
  PROVE  IInv'
  <1>1. Touch(s) /\ process = "events" /\ s \in touched /\ s \notin touched' /\ event_add(c, s, "EPOLLIN")
    BY DEF Touch
  <1>3. /\ In(s) /\ c \in Clients /\ fds[c] = 1
        /\ peer[c] # "none" /\ ~Waits(c)
        /\ \A r \in tree : r[1] = c <=> r[2] = s
    BY <1>1, OwnerOf
  <1>7. /\ fd' \in [Slots -> Clients \cup {NoClient}]
        /\ status' \in [Slots -> {"IN_EPOLL_TREE", "NOT_IN_EPOLL_TREE"}]
        /\ call_back' \in [Slots -> {"receive_data", "send_data"}]
        /\ idle' \in [Slots -> 0 .. Timeout]
        /\ tree' \in SUBSET (Clients \X Slots \X {"EPOLLIN", "EPOLLOUT"})
        /\ deaf' \in SUBSET (0 .. OPEN_MAX)
        /\ touched' \in SUBSET (0 .. OPEN_MAX) /\ check_pos' \in Slots
        /\ process' \in {"wait", "events"}
        /\ Table' /\ Registered' /\ Round'
    <2>1. s \in 0 .. OPEN_MAX
      BY Sizes DEF Slots
    <2>2. peer'[c] # "none" /\ (\A d \in Clients : peer[d] # "none" => peer'[d] # "none")
      BY <1>3
    <2>3. ~Waits(c)' /\ \A d \in Clients : Waits(d)' => Waits(d)
      BY <1>3 DEF Waits
    <2>4. \A r \in tree : r[1] = c => r[2] = s
      BY <1>3
    <2>5. fds'[c] = 1 /\ \A d \in Clients \ {c} : fds'[d] = fds[d]
      BY <1>3
    <2>6. QED
      BY ONLY LoopConstants, IInv, <1>1, <2>1, <2>2, <2>3, <2>4, <2>5, c \in Clients, s \in Slots, AddKeeps
  <1>8. TypeOK'
    BY <1>7 DEF IInv, TypeOK, NetTypeOK
  <1>9. WaitsOnce' /\ Met'
    BY DEF IInv, WaitsOnce, Met, Waits
  <1>10. QED
    BY <1>7, <1>8, <1>9 DEF IInv

LEMMA SendDataIInv ==
  ASSUME LoopConstants, IInv, NEW s \in Slots, send_data(s)
  PROVE  IInv'
  <1>0. Touch(s) /\ process = "events" /\ s \in touched
    BY DEF send_data, Touch
  <1>. PICK c \in Clients : c = fd[s]
    BY <1>0, OwnerOf
  <1>1. /\ event_add(c, s, "EPOLLIN") /\ UNCHANGED <<peer, backlog, sent, read, out, taken, fds, blocking>>
        /\ data' = [data EXCEPT ![s] = <<>>]
    BY ONLY send_data(s), c = fd[s] DEF send_data
  <1>2. got' = [got EXCEPT ![c] = @ \o SubSeq(data[s], 1, Fits(s))] \/ got' = got
    BY DEF send_data
  <1>3. /\ got \in [Clients -> Seq(Char)] /\ out \in [Clients -> Seq(Char)]
        /\ data \in [Slots -> Seq(Char)] /\ data[s] \in Seq(Char)
    BY DEF IInv, TypeOK, NetTypeOK
  <1>4. Fits(s) \in Int /\ Fits(s) <= Len(data[s])
    BY <1>3, RoomFor DEF Fits
  <1>5. got' \in [Clients -> Seq(Char)]
    BY <1>2, <1>3, <1>4, WritesText
  <1>6. data' \in [Slots -> Seq(Char)] /\ out' \in [Clients -> Seq(Char)]
    BY <1>1, <1>3, EmptySeq
  <1>7. QED
    BY <1>0, <1>1, <1>5, <1>6, SentIInv

LEMMA SendReturnsIInv ==
  ASSUME LoopConstants, IInv, NEW s \in Slots, SendReturns(s)
  PROVE  IInv'
  <1>0. Touch(s) /\ process = "events" /\ s \in touched
    BY DEF SendReturns, Touch
  <1>. PICK c \in Clients : c = fd[s]
    BY <1>0, OwnerOf
  <1>1. /\ event_add(c, s, "EPOLLIN") /\ UNCHANGED <<peer, backlog, sent, read, got, taken, fds, data, blocking>>
        /\ out' = [out EXCEPT ![c] = <<>>]
    BY ONLY SendReturns(s), c = fd[s] DEF SendReturns
  <1>2. /\ got' \in [Clients -> Seq(Char)] /\ data' \in [Slots -> Seq(Char)]
        /\ out' \in [Clients -> Seq(Char)]
    BY <1>1, EmptySeq DEF IInv, TypeOK, NetTypeOK
  <1>3. QED
    BY <1>0, <1>1, <1>2, SentIInv

(* While send() waits, only what is written, and to be written, changes.   *)
LEMMA WritingIInv ==
  ASSUME IInv, UNCHANGED <<peer, backlog, sent, read, taken, fds, fd, status, call_back, deaf,
                           blocking, idle, tree, touched, check_pos, process>>,
         out' \in [Clients -> Seq(Char)], got' \in [Clients -> Seq(Char)], data' \in [Slots -> Seq(Char)]
  PROVE  IInv'
  <1>1. TypeOK'
    BY DEF IInv, TypeOK, NetTypeOK
  <1>2. WaitsOnce' /\ Met'
    BY DEF IInv, WaitsOnce, Met, Waits
  <1>3. QED
    BY <1>1, <1>2 DEF IInv, Table, Registered, Round, Waits, In, Registrations

LEMMA SendBlocksIInv ==
  ASSUME LoopConstants, IInv, NEW s \in Slots, SendBlocks(s)
  PROVE  IInv'
  <1>0. process = "events" /\ s \in touched
    BY DEF SendBlocks
  <1>. PICK c \in Clients : c = fd[s]
    BY <1>0, OwnerOf
  <1>1. /\ Fits(s) \in 1 .. Len(data[s]) - 1
        /\ got' = [got EXCEPT ![c] = @ \o SubSeq(data[s], 1, Fits(s))]
        /\ out' = [out EXCEPT ![c] = SubSeq(data[s], Fits(s) + 1, Len(data[s]))]
        /\ data' = [data EXCEPT ![s] = <<>>]
        /\ UNCHANGED <<peer, backlog, sent, read, taken, fds, fd, status, call_back, deaf,
                       blocking, idle, tree, touched, check_pos, process>>
    BY ONLY SendBlocks(s), c = fd[s] DEF SendBlocks
  <1>3. /\ out \in [Clients -> Seq(Char)] /\ data \in [Slots -> Seq(Char)] /\ data[s] \in Seq(Char)
    BY DEF IInv, TypeOK, NetTypeOK
  <1>4. /\ Fits(s) \in Int /\ Fits(s) <= Len(data[s]) /\ Len(data[s]) \in Nat
        /\ Fits(s) + 1 \in Nat \ {0} /\ Len(data[s]) \in Int /\ Len(data[s]) <= Len(data[s])
    BY <1>1, <1>3, RoomFor DEF Fits
  <1>5. got' \in [Clients -> Seq(Char)]
    BY <1>1, <1>3, <1>4, WritesText
  <1>6. SubSeq(data[s], Fits(s) + 1, Len(data[s])) \in Seq(Char)
    BY ONLY <1>3, <1>4, CutOfSeq
  <1>7. data' \in [Slots -> Seq(Char)] /\ out' \in [Clients -> Seq(Char)]
    BY <1>1, <1>3, <1>6, EmptySeq
  <1>8. QED
    BY <1>1, <1>5, <1>7, WritingIInv

LEMMA SendGoesOnIInv ==
  ASSUME LoopConstants, IInv, NEW s \in Slots, SendGoesOn(s)
  PROVE  IInv'
  <1>0. process = "events" /\ s \in touched
    BY DEF SendGoesOn, Sending
  <1>. PICK c \in Clients : c = fd[s]
    BY <1>0, OwnerOf
  <1> DEFINE n == Least(Len(out[c]), Room - (Len(got[c]) - taken[c]))
  <1>1. /\ n > 0
        /\ got' = [got EXCEPT ![c] = @ \o SubSeq(out[c], 1, n)]
        /\ out' = [out EXCEPT ![c] = SubSeq(@, n + 1, Len(@))]
        /\ UNCHANGED <<peer, backlog, sent, read, taken, fds, fd, status, call_back, data, deaf,
                       blocking, idle, tree, touched, check_pos, process>>
    BY DEF SendGoesOn, writeSome, own, table
  <1>2. out \in [Clients -> Seq(Char)] /\ out[c] \in Seq(Char) /\ data \in [Slots -> Seq(Char)]
    BY DEF IInv, TypeOK, NetTypeOK
  <1>3. n \in Int /\ n <= Len(out[c]) /\ Len(out[c]) \in Nat /\ n + 1 \in Nat \ {0}
    BY <1>1, <1>2, RoomFor
  <1> HIDE DEF n
  <1>4. got' \in [Clients -> Seq(Char)]
    BY <1>1, <1>2, <1>3, WritesText
  <1>5. SubSeq(out[c], n + 1, Len(out[c])) \in Seq(Char)
    BY <1>2, <1>3, CutOfSeq
  <1>6. out' \in [Clients -> Seq(Char)]
    BY ONLY <1>1, <1>2, <1>5, c \in Clients
  <1>7. QED
    BY <1>1, <1>2, <1>4, <1>6, WritingIInv

(* The two call-backs that give their slot up. *)
LEMMA FailsIInv ==
  ASSUME LoopConstants, IInv, NEW s \in Slots, ReceiveFails(s) \/ SendFails(s)
  PROVE  IInv'
  <1> DEFINE c == fd[s]
  <1>1. /\ Touch(s) /\ process = "events" /\ s \in touched /\ event_remove(s)
        /\ UNCHANGED <<backlog, sent, read, out, got, taken, fd, call_back, data, deaf, blocking>>
    BY DEF ReceiveFails, SendFails, readEnd, readError, Touch
  <1>2. peer' = peer \/ (peer[c] = "reset" /\ peer' = [peer EXCEPT ![c] = "broken"])
    BY DEF ReceiveFails, SendFails, readEnd, readError
  <1>3. fds' = fds \/ fds' = [fds EXCEPT ![c] = @ - 1]
    BY DEF ReceiveFails, SendFails, close
  <1>4. c \in Clients /\ fds[c] = 1
    BY <1>1, OwnerOf
  <1> HIDE DEF c
  <1>5. fds \in [Clients -> 0 .. 2] /\ peer \in [Clients -> Peers]
    BY DEF IInv, TypeOK, NetTypeOK
  <1>6. fds' \in [Clients -> 0 .. 2] /\ \A d \in Clients \ {c} : fds'[d] = fds[d]
    BY ONLY <1>3, <1>4, <1>5
  <1>7. peer' \in [Clients -> Peers] /\ (\A d \in Clients : peer[d] # "none" => peer'[d] # "none")
    BY <1>2, <1>4, <1>5 DEF Peers
  <1>8. /\ status' \in [Slots -> {"IN_EPOLL_TREE", "NOT_IN_EPOLL_TREE"}]
        /\ idle' \in [Slots -> 0 .. Timeout]
        /\ tree' \in SUBSET (Clients \X Slots \X {"EPOLLIN", "EPOLLOUT"})
        /\ deaf' \in SUBSET (0 .. OPEN_MAX)
        /\ touched' \in SUBSET (0 .. OPEN_MAX) /\ check_pos' \in Slots
        /\ process' \in {"wait", "events"}
        /\ Table' /\ Registered' /\ Round'
    <2>1. \A d \in Clients \ {fd[s]} : fds'[d] = fds[d]
      BY <1>6 DEF c
    <2>2. UNCHANGED <<fd, call_back, deaf>> /\ UNCHANGED backlog
      BY <1>1
    <2>3. QED
      BY ONLY LoopConstants, IInv, <1>1, <1>7, <2>1, <2>2, s \in Slots, RemoveKeeps
  <1>9. TypeOK'
    BY <1>1, <1>6, <1>7, <1>8 DEF IInv, TypeOK, NetTypeOK
  <1>10. WaitsOnce' /\ Met'
    BY <1>1, <1>7 DEF IInv, WaitsOnce, Met, Waits
  <1>11. QED
    BY <1>8, <1>9, <1>10 DEF IInv

------------------------------------------------------------------------------
LEMMA StepIInv == ASSUME LoopConstants, IInv, [Next]_vars PROVE IInv'
  <1>1. CASE EpollWait
    BY <1>1, EpollWaitIInv
  <1>2. CASE accept_connection
    BY <1>2, AcceptIInv
  <1>3. CASE AcceptLeaks
    BY <1>3, LeakIInv
  <1>4. CASE TimeoutExits
    BY <1>4, DeathIInv DEF TimeoutExits
  <1>5. ASSUME NEW s \in Slots, CallBack(s) PROVE IInv'
    <2>1. CASE receive_data(s)
      BY <2>1, ReceiveDataIInv
    <2>2. CASE send_data(s)
      BY <2>2, SendDataIInv
    <2>3. CASE ReceiveFails(s) \/ SendFails(s)
      BY <2>3, FailsIInv
    <2>4. CASE Killed(s)
      BY <2>4, DeathIInv DEF Killed
    <2>5. CASE SendBlocks(s)
      BY <2>5, SendBlocksIInv
    <2>6. CASE SendGoesOn(s)
      BY <2>6, SendGoesOnIInv
    <2>7. CASE SendReturns(s)
      BY <2>7, SendReturnsIInv
    <2>8. QED
      BY <1>5, <2>1, <2>2, <2>3, <2>4, <2>5, <2>6, <2>7 DEF CallBack
  <1>6. CASE Tick
    BY <1>6, TickIInv
  <1>7. ASSUME NEW c \in Clients, ClientStep(c), process # "dead", UNCHANGED own PROVE IInv'
    BY <1>7, ConnectIInv, SendIInv, LeaveIInv, ReceiveIInv DEF ClientStep
  <1>8. CASE UNCHANGED vars
    <2>1. UNCHANGED <<net, table, idle, tree, touched, check_pos, process>>
      BY <1>8 DEF vars, own
    <2>2. TypeOK'
      BY <2>1 DEF IInv, TypeOK, NetTypeOK, net, table
    <2>3. WaitsOnce' /\ Met' /\ (process # "dead" => Table' /\ Registered' /\ Round') /\ process' = process
      BY <2>1 DEF IInv, WaitsOnce, Met, Table, Registered, Round, Waits, In, Registrations, net, table
    <2>4. QED
      BY <2>2, <2>3 DEF IInv
  <1>9. CASE AcceptFails
    BY <1>9, AcceptFailsIInv
  <1>10. CASE ListenAdd
    BY <1>10, ListenIInv
  <1>11. QED
    BY <1>1, <1>2, <1>3, <1>4, <1>5, <1>6, <1>7, <1>8, <1>9, <1>10 DEF Next, Loop

LEMMA Inductive == ASSUME LoopConstants PROVE Spec => []IInv
  <1>1. Init => IInv
    BY InitIInv
  <1>2. IInv /\ [Next]_vars => IInv'
    BY StepIInv
  <1>3. QED
    BY <1>1, <1>2, PTL DEF Spec

(* Every variable of the loop and of the connections keeps its type, and   *)
(* the table never names a slot or a client that does not exist.           *)
THEOREM TypeCorrect == ASSUME LoopConstants PROVE Spec => []TypeOK
  <1>1. IInv => TypeOK
    BY DEF IInv
  <1>2. QED
    BY <1>1, Inductive, PTL

(* The table g_events and the epoll instance agree, whatever calls fail: a *)
(* slot is marked as in the tree exactly if it has a registration there,   *)
(* for the descriptor and the event that its call-back is about, or if     *)
(* epoll_ctl() failed to register it (and event_add() marked it anyway);   *)
(* no descriptor is registered twice or after it has been closed.          *)
THEOREM TableConsistent == ASSUME LoopConstants PROVE Spec => []SlotsConsistent
  <1>1. IInv => SlotsConsistent
    BY DEF IInv, TypeOK, Table, SlotsConsistent
  <1>2. QED
    BY <1>1, Inductive, PTL
==============================================================================
