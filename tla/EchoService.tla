------------------------------ MODULE EchoService ------------------------------
(***************************************************************************)
(* What an echo server promises each of its clients: the characters it has *)
(* sent come back in capitals, in order, none missing and none made up;    *)
(* and the server ends the connection of a client only when that client    *)
(* has finished and been answered in full, or has gone, or when the server *)
(* itself comes down.                                                      *)
(***************************************************************************)
EXTENDS Integers, Sequences

CONSTANTS
    Clients,
    Text,       \* what a client sends, character by character
    Upper       \* toupper(), a function on characters

VARIABLES
    said,       \* how many characters each client has sent
    heard,      \* what it has been answered
    standing,   \* each client: "talking", "finished" (it still listens), "gone"
    over,       \* the server has ended its connection
    crashed     \* the server has come down

vars == <<said, heard, standing, over, crashed>>

Answer(n) == [i \in 1 .. n |-> Upper[Text[i]]]

Init ==
    /\ said = [c \in Clients |-> 0]
    /\ heard = [c \in Clients |-> <<>>]
    /\ standing = [c \in Clients |-> "talking"]
    /\ over = [c \in Clients |-> FALSE]
    /\ crashed = FALSE

Say(c) ==
    /\ said[c] < Len(Text)
    /\ said' = [said EXCEPT ![c] = @ + 1]
    /\ UNCHANGED <<heard, standing, over, crashed>>

Leave(c) ==
    /\ \/ standing[c] = "talking" /\ standing' = [standing EXCEPT ![c] = "finished"]
       \/ standing[c] # "gone" /\ standing' = [standing EXCEPT ![c] = "gone"]
    /\ UNCHANGED <<said, heard, over, crashed>>

(* Some of what has been sent and not answered yet is answered. *)
Reply(c) ==
    /\ ~over[c]
    /\ \E n \in Len(heard[c]) + 1 .. said[c] : heard' = [heard EXCEPT ![c] = Answer(n)]
    /\ UNCHANGED <<said, standing, over, crashed>>

End(c) ==
    /\ standing[c] = "finished" => heard[c] = Answer(said[c])
    /\ standing[c] # "talking"
    /\ over' = [over EXCEPT ![c] = TRUE]
    /\ UNCHANGED <<said, heard, standing, crashed>>

(* Connections may end with the server; some process may hold on to them. *)
Crash ==
    /\ crashed' = TRUE
    /\ \E C \in SUBSET Clients : over' = [c \in Clients |-> over[c] \/ c \in C]
    /\ UNCHANGED <<said, heard, standing>>

Next == Crash \/ \E c \in Clients : Say(c) \/ Leave(c) \/ Reply(c) \/ End(c)

Spec == Init /\ [][Next]_vars
==============================================================================
