-------------------------- MODULE MCHttpResponse ---------------------------
\* Instance of HttpResponse: every kind of request that reaches a branch of the
\* handlers, over every combination of the three nodes, and the expected status as
\* one table over the request and the files.
EXTENDS HttpResponse

\* A file of up to PageBuffer, one that is longer, one that is longer than an int.
File(n) == [kind |-> "file", readable |-> TRUE, size |-> n]
Unreadable == [kind |-> "file", readable |-> FALSE, size |-> 1]
Directory(r) == [kind |-> "dir", readable |-> r, size |-> 1]
MCNodesAt ==
  [p \in Paths |->
     CASE p = "target" -> {Absent, Unreadable, Directory(TRUE), Directory(FALSE)} \cup {File(n) : n \in {0, 2, 5}}
       [] p = "index" -> {Absent, Unreadable, File(2), Directory(TRUE)}
       [] p = "page" -> {Absent, Unreadable, Directory(TRUE), File(1), File(3)}]

Base == [method |-> "GET", allowed |-> {"GET", "POST", "DELETE"}, early |-> 0, slash |-> FALSE,
         default |-> FALSE, autoIndex |-> FALSE, redirect |-> 0, upload |-> FALSE,
         script |-> FALSE, cgi |-> FALSE, body |-> "none", close |-> FALSE]
MCRequests ==
  {[Base EXCEPT !.close = c, !.allowed = a] : c \in BOOLEAN, a \in {{"GET"}, {"POST"}}}
  \cup {[Base EXCEPT !.early = 400, !.close = c] : c \in BOOLEAN}
  \cup {[Base EXCEPT !.slash = TRUE, !.default = d, !.autoIndex = i, !.redirect = r] :
          d \in BOOLEAN, i \in BOOLEAN, r \in {0, 302}}
  \cup {[Base EXCEPT !.method = "POST", !.body = b, !.script = s, !.allowed = a] :
          b \in {"length", "chunked"}, s \in BOOLEAN, a \in {{"POST"}, {"GET"}}}
  \cup {[Base EXCEPT !.method = "DELETE", !.allowed = a, !.upload = u, !.slash = s] :
          a \in {{"DELETE"}, {"GET"}}, u \in BOOLEAN, s \in BOOLEAN}
  \cup {[Base EXCEPT !.script = TRUE, !.cgi = TRUE, !.method = m, !.allowed = {"GET"}] : m \in {"GET", "DELETE"}}

\* The statuses a request may be answered with when the files stay as they are: the
\* first rule that applies.  A failing system call may turn some into 500.
ExpectedStatus ==
  LET perms == checkFilePerms("target")
      disallowed == q.method \notin q.allowed
      asked ==
        CASE q.early # 0 -> q.early
          [] q.early = 0 /\ q.body # "none" /\ disallowed -> 405
          [] OTHER -> perms
      directory ==
        CASE ~q.slash -> 301
          [] q.slash /\ q.redirect # 0 -> q.redirect
          [] q.slash /\ q.redirect = 0 /\ q.default /\ checkFilePerms("index") = 200 -> 200
          [] q.slash /\ q.redirect = 0 /\ q.autoIndex -> 200
          [] OTHER -> IF q.default THEN checkFilePerms("index") ELSE 200
  IN  CASE asked >= 400 -> {asked}
        [] asked < 400 /\ q.cgi -> ScriptStatuses \cup {500}
        [] asked < 400 /\ ~q.cgi /\ disallowed -> {405}
        [] OTHER -> CASE q.method = "POST" -> {201}
                      [] q.method = "GET" -> {IF isDirectory("target") THEN directory ELSE 200}
                      [] OTHER -> IF isDirectory("target") \/ ~q.upload THEN {403} ELSE {204}

\* Undisturbed, a request is answered with the status its path, its route and its
\* method call for, through three checks of the path and two error tables, or with
\* 500 after a system call failed or the configured error page is missing; and 201,
\* whatever changes, only with a stored body.
StatusIsExpected ==
  /\ CreatedMeansStored
  /\ Undisturbed /\ resp.from # "deleted"
       => resp.status \in ExpectedStatus \cup (IF resp.from = "page" THEN {500} ELSE {})
=============================================================================
