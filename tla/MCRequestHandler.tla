--------------------------- MODULE MCRequestHandler ---------------------------
(* Constants of the TLC runs of RequestHandler. *)
EXTENDS RequestHandler, TLC

CONSTANTS w1, w2

Line(method, url, size, file, version) ==
    [method |-> method, url |-> url, size |-> size, file |-> file, version |-> version]

RequestLines ==
    "GET /"     :> Line("GET", "root", 1, "/", "1.1") @@
    "GET /a?b"  :> Line("GET", "query", 4, "/a", "1.1") @@
    "GET /a"    :> Line("GET", "plain", 2, "/a", "1.0") @@
    "GET /a?bc" :> Line("GET", "query", 5, "/a", "1.1") @@
    "GET a"     :> Line("GET", "bare", 1, "a", "1.1") @@
    "GET / 2.0" :> Line("GET", "root", 1, "/", "2.0") @@
    "PUT /"     :> Line("PUT", "root", 1, "/", "1.1") @@
    "POST /"    :> Line("POST", "root", 1, "/", "1.1")

Get(line, keep) == [line |-> line, length |-> 0, keep_alive |-> keep]
Post(n, keep)   == [line |-> "POST /", length |-> n, keep_alive |-> keep]

TwoWorkers == {w1, w2}
GoodRequests == {Get("GET /", TRUE), Get("GET /a?b", FALSE), Post(1, TRUE), Post(3, FALSE)}
AllRequests ==
    GoodRequests \cup {Get(line, TRUE) : line \in {"GET /a", "GET /a?bc", "GET a", "GET / 2.0", "PUT /"}}
Digit == [n \in 0 .. 9 |-> ToString(n)]
ThreeB == <<"b1", "b2", "b3">>
AllFaults == {"read", "analysis", "reclaim"}
NoFaults == {}

(* What the theorems suppose is so in the runs. *)
ASSUME AsTheoremsSuppose == Orderly
==============================================================================
