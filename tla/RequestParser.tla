---------------------------- MODULE RequestParser ----------------------------
(***************************************************************************)
(* parse_request_line() and parse_request_head() of struct requestData     *)
(* (src/src/requestData.cpp), as functions of the fields they work on.     *)
(*                                                                         *)
(* Input is a sequence of characters, of which the parsers tell apart CR,  *)
(* LF, colon and space; any other element stands for a non-empty run of    *)
(* other characters.  A request line is one element, whose parts `Lines`   *)
(* gives; the version is HTTP/ and at least three characters, and URLs in  *)
(* which GET or POST occurs are left out.  Values of more than 255         *)
(* characters, which are refused, do not occur.                            *)
(*                                                                         *)
(* Positions count from 1 where the code counts from 0, so that the code's *)
(* -1, "not found yet", is 0 here.                                         *)
(***************************************************************************)
EXTENDS Integers, SequencesExt

CONSTANT Lines  \* the parts of request lines, a function: `method`; `url`, which is "root" for /, or
                \* has a '?' ("query"), or has none ("plain"), or not even a '/' ("bare"); `size`, the
                \* characters of the URL; `file`, what it has before the '?', in the early version
                \* behind its '/'; `version`, the three characters behind HTTP/

CR == "CR"
LF == "LF"
Colon == ":"
Space == " "
NoName == ""
Methods == {"GET", "POST"}
Versions == {"1.0", "1.1"}

(* The fields of requestData that the parsers work on.  `flag` is what     *)
(* they return: "ok", "again" or "error".                                  *)
NewRequest == [content |-> <<>>, state |-> "STATE_PARSE_URI", h_state |-> "h_start",
               method |-> "NOT_DEFINED", file_name |-> NoName, headers |-> <<>>, keep_alive |-> FALSE,
               readTimes |-> 0, flag |-> "ok"]

------------------------------------------------------------------------------
(* Where '/' is in "HTTP/1.1".  The search for it begins at `pos`, which   *)
(* still is where the URL ended, although the URL has been cut off: behind *)
(* a URL of more characters than this, '/' is not found.                   *)
HttpLength == 4

(* The checks of method, URL and version. *)
Accepts(l) == l.method \in Methods /\ l.url # "bare" /\ l.size <= HttpLength /\ l.version \in Versions

(* A URL without '?' leaves the file's name as it was. *)
NameOf(l, name) == CASE l.url = "root" -> "index.html" [] l.url = "query" -> l.file [] OTHER -> name

(* The search starts at now_read_pos, which is always 0. *)
parse_request_line(q) ==
    IF CR \notin ToSet(q.content) THEN [q EXCEPT !.flag = "again"]
    ELSE LET pos  == SelectInSeq(q.content, LAMBDA ch : ch = CR)
             line == SubSeq(q.content, 1, pos - 1)
         IN  IF \E word \in DOMAIN Lines : line = <<word>> /\ Accepts(Lines[word])
             THEN [q EXCEPT !.content = SubSeq(@, pos + 1, Len(@)), !.method = Lines[line[1]].method,
                            !.file_name = NameOf(Lines[line[1]], @),
                            !.state = "STATE_PARSE_HEADERS", !.flag = "ok"]
             ELSE [q EXCEPT !.flag = "error"]

------------------------------------------------------------------------------
(* std::string(str.begin() + from, str.begin() + to).  From 0 it reads the *)
(* character before the string, which is undefined; whatever is there, the *)
(* result starts with a character that is not the content's.               *)
Slice(str, from, to) ==
    IF from = 0 /\ to > 0 THEN <<"junk">> \o SubSeq(str, 1, to - 1) ELSE SubSeq(str, from, to - 1)

(* The locals of parse_request_head(), reset on every call, and h_state    *)
(* and headers, which are not.                                             *)
Scan(q) == [h |-> q.h_state, headers |-> q.headers, line |-> 1, notFinish |-> TRUE,
            key_start |-> 0, key_end |-> 0, value_start |-> 0, value_end |-> 0]

(* headers[key] = value *)
SetHeader(headers, key, value) ==
    [k \in DOMAIN headers \cup {key} |-> IF k = key THEN value ELSE headers[k]]

Fail(s) == [s EXCEPT !.h = "error", !.notFinish = FALSE]

Advance(s, str, i) ==
    LET ch == str[i] IN
    CASE s.h = "h_start" ->
            IF ch \in {CR, LF} THEN s ELSE [s EXCEPT !.h = "h_key", !.key_start = i, !.line = i]
      [] s.h = "h_key" ->
            IF ch = Colon THEN [s EXCEPT !.h = "h_colon", !.key_end = i]
            ELSE IF ch \in {CR, LF} THEN Fail(s) ELSE s
      [] s.h = "h_colon" -> IF ch = Space THEN [s EXCEPT !.h = "h_spaces_after_colon"] ELSE Fail(s)
      [] s.h = "h_spaces_after_colon" -> [s EXCEPT !.h = "h_value", !.value_start = i]
      [] s.h = "h_value" -> IF ch = CR THEN [s EXCEPT !.h = "h_CR", !.value_end = i] ELSE s
      [] s.h = "h_CR" ->
            IF ch # LF THEN Fail(s)
            ELSE LET key   == Slice(str, s.key_start, s.key_end)
                     value == Slice(str, s.value_start, s.value_end)
                 IN  [s EXCEPT !.h = "h_LF", !.line = i, !.headers = SetHeader(@, key, value)]
      [] s.h = "h_LF" ->
            IF ch = CR THEN [s EXCEPT !.h = "h_end_CR"] ELSE [s EXCEPT !.h = "h_key", !.key_start = i]
      [] s.h = "h_end_CR" -> IF ch = LF THEN [s EXCEPT !.h = "h_end_LF"] ELSE Fail(s)
      [] s.h = "h_end_LF" -> [s EXCEPT !.notFinish = FALSE, !.line = i]

(* Reads on until the first character of the body. *)
ReadOn(s, str, i) == IF s.notFinish THEN Advance(s, str, i) ELSE s

(* The CHOOSE is from one element; with it TLC evaluates scan[i - 1] once. *)
Scanned(q) ==
    LET scan[i \in 0 .. Len(q.content)] ==
            IF i = 0 THEN Scan(q) ELSE CHOOSE next \in {ReadOn(s, q.content, i) : s \in {scan[i - 1]}} : TRUE
    IN  scan[Len(q.content)]

(* What is kept of the content begins with the last line read (`line` is   *)
(* now_read_line_begin).                                                   *)
parse_request_head(q) ==
    LET end == Scanned(q)
    IN  [q EXCEPT !.content = SubSeq(@, end.line, Len(@)),
                  !.h_state = end.h,
                  !.headers = end.headers,
                  !.flag = CASE end.h = "error" -> "error" [] end.h = "h_end_LF" -> "ok" [] OTHER -> "again"]
==============================================================================
