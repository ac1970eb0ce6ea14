---------------------------- MODULE MCWebServer ----------------------------
(* Instances of WebServer for TLC: two clients; requests with and without  *)
(* version 1.1, a field whose value may be cut in two, a body, a length    *)
(* that is refused, and a line that is.                                    *)
EXTENDS WebServer, TLC
CONSTANTS c1, c2

MCClients  == {c1, c2}
Home    == Ask("home", "HTTP/1.1", TRUE, NoLength)
Post    == Ask("other", "HTTP/1.0", FALSE, 2)
Short   == Ask("malformed", "HTTP/1.0", FALSE, NoLength)
Empty   == Ask("number", "HTTP/1.0", FALSE, 0)
Huge    == Ask("huge", "HTTP/1.1", FALSE, NoLength)
Refused == Ask("home", "HTTP/1.1", FALSE, BadLength)

MCDemands == {c1 :> pair[1] @@ c2 :> pair[2] :
                pair \in {<<Home, Short>>, <<Post, Short>>, <<Empty, Refused>>, <<Huge, Short>>}}
=============================================================================
