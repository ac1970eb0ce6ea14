------------------------------ MODULE HttpText ------------------------------
(* Requests and responses of the web server as sequences of symbols, each  *)
(* one piece of text that no other piece can be mistaken for, and what     *)
(* getline and the parser make of them.                                    *)
EXTENDS Integers, Sequences, SequencesExt

NoLength  == -1   \* no Content-Length field
BadLength == -2   \* one that stoull or the allocation of the buffer rejects

(* A request is what it asks for ("home", "number", "huge" for a number    *)
(* out of the range of int64_t, "other", or "malformed" for a line without *)
(* version), its version, whether it has a Host, and its Content-Length.   *)
Ask(target, version, host, length) ==
  [target |-> target, version |-> version, host |-> host, length |-> length]

Requests == [target : {"home", "number", "huge", "other", "malformed"},
             version : {"HTTP/1.0", "HTTP/1.1"}, host : BOOLEAN,
             length : Nat \cup {NoLength, BadLength}]

EndOfLine == <<"\r", "\n">>

(* The text of a field is cut by ":" and, in the value of Host, has another *)
RequestText(r) ==
  (IF r.target = "malformed" THEN <<"method", "uri">> ELSE <<"method", "uri", r.version>>)
  \o EndOfLine
  \o (IF r.host THEN <<"Host:", ":port">> \o EndOfLine ELSE << >>)
  \o (IF r.length = NoLength THEN << >> ELSE <<"Content-Length:", "digits">> \o EndOfLine)
  \o EndOfLine
  \o [i \in 1 .. IF r.length > 0 THEN r.length ELSE 0 |-> "byte"]

HasColon(line) == Contains(line, "Host:") \/ Contains(line, ":port")
                  \/ Contains(line, "Content-Length:")

(* getline on a buffer that is not empty: up to '\n', or all of it *)
LineEnd(buffer)   == IF Contains(buffer, "\n") THEN SelectInSeq(buffer, LAMBDA x : x = "\n")
                                              ELSE Len(buffer) + 1
Line(buffer)      == SubSeq(buffer, 1, LineEnd(buffer) - 1)
AfterLine(buffer) == SubSeq(buffer, LineEnd(buffer) + 1, Len(buffer))

(* Without the '\r' that ends it, if any *)
Chomp(line) == IF line # << >> /\ Last(line) = "\r" THEN Front(line) ELSE line

(* The words of a line: operator>> skips the '\r', which only ends a line *)
Words(line) == Chomp(line)

(* What the server sends for a request *)
Status(target)   == IF target = "other" THEN 404 ELSE 200
Response(target) == <<[status |-> Status(target)], [field |-> "Server, Content-type"],
                      [field |-> "Content-Length"], [page |-> target]>>
=============================================================================
