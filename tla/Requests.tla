------------------------------- MODULE Requests -------------------------------
(***************************************************************************)
(* A task of one of the four services from a request to the line in its    *)
(* access log: the place in which a request leaves its user's id for the   *)
(* line, the threads that serve one request after the other, and the file  *)
(* they all write to.                                                      *)
(*                                                                         *)
(* The C service has one thread, mongoose's loop, and one such place; in   *)
(* C++ it is a thread_local of Crow's threads.  In JavaScript and Python   *)
(* it is a field of the request, and a thread here is one of the requests  *)
(* served at a time.                                                       *)
(*                                                                         *)
(* A line is attributed when it is written, so it is looked at then and    *)
(* not kept; the file holds the numbers of the lines.  The files of        *)
(* JavaScript and Python belong to libraries and are left out.             *)
(***************************************************************************)
EXTENDS Routes, Session, AccessLog

CONSTANTS
  Threads, EventLoop,  \* the threads; the one of them the C service has
  Users, NoUser,
  Clients,             \* requests of Routes, with the user the cookie was issued to
  Nothing              \* what an idle thread serves

ASSUME RequestsAssumption ==
  /\ EventLoop \in Threads
  /\ NoUser \notin Users
  /\ Clients \subseteq [r : Requests, user : Users \cup {NoUser}]
  /\ Nothing \notin Clients
  /\ \A q \in Clients : q.r.session = "none" <=> q.user = NoUser

VARIABLES
  service,   \* which of Langs this is
  pc,        \* pc[t]: what thread t does
  cur,       \* cur[t]: the request it does it for
  user       \* last_user_id, g_current_user_id, req.user, request.state.user

vars == <<service, pc, cur, user, logVars>>

Scans == service \in {"c", "cpp"}   \* no library for cookies, tokens and log files

Runs(t) == service # "c" \/ t = EventLoop

\* A request finds its user's place empty; but Crow answers what matches no route
\* without the middleware's before_handle, which is what empties it.
Resets(q) == service = "cpp" => Routed(q.r)

Receive(t, q) ==
  /\ Runs(t)
  /\ pc[t] = "idle"
  /\ pc' = [pc EXCEPT ![t] = "handle"]
  /\ cur' = [cur EXCEPT ![t] = q]
  /\ user' = [user EXCEPT ![t] = IF Resets(q) THEN NoUser ELSE @]
  /\ UNCHANGED <<service, logVars>>

\* handle_request verifies the session once for all paths behind it, in C++ each
\* route that needs it calls extract_user; elsewhere a middleware does, for login and
\* logout as well, in Python before the key is looked at.
Verifies(r) ==
  CASE service = "c" -> ~NoKey(r) /\ r.route \notin {"health", "login", "logout"}
    [] service = "cpp" -> ~NoKey(r) /\ Routed(r) /\ r.route \in {"me", "data", "item"}
    [] service = "js" -> IF At(r, "health") THEN ~Routed(r) ELSE ~NoKey(r)
    [] service = "python" -> TRUE

\* Python's log middleware is inside its key gate.
Logged(r) == service = "python" /\ NoKey(r) => At(r, "health")

\* The handler runs and answers; if the session was verified its user is noted.
Noted(t) == IF Verifies(cur[t].r) /\ cur[t].user # NoUser THEN cur[t].user ELSE user[t]

Answered(t) ==
  /\ pc[t] = "handle"
  /\ pc' = [pc EXCEPT ![t] = IF Logged(cur[t].r) THEN "log" ELSE "idle"]
  /\ cur' = [cur EXCEPT ![t] = IF Logged(cur[t].r) THEN @ ELSE Nothing]
  /\ UNCHANGED <<service, logVars>>

\* Mutant: one place for all threads.
HandleShared(t) == Answered(t) /\ user' = [s \in Threads |-> Noted(t)]

Handle(t) == Answered(t) /\ user' = [user EXCEPT ![t] = Noted(t)]

\* Mutant: the thread goes back to its loop with the request still at hand.
LogKeeping(t) ==
  /\ pc[t] = "log"
  /\ IF Scans THEN Write ELSE UNCHANGED logVars
  /\ pc' = [pc EXCEPT ![t] = "idle"]
  /\ UNCHANGED <<service, cur, user>>

\* log_access, after_handle, morgan, access_log_middleware.
Log(t) ==
  /\ pc[t] = "log"
  /\ IF Scans THEN Write ELSE UNCHANGED logVars
  /\ pc' = [pc EXCEPT ![t] = "idle"]
  /\ cur' = [cur EXCEPT ![t] = Nothing]
  /\ UNCHANGED <<service, user>>

Init == /\ LogInit
        /\ service \in Langs
        /\ pc = [t \in Threads |-> "idle"]
        /\ cur = [t \in Threads |-> Nothing]
        /\ user = [t \in Threads |-> NoUser]

\* The task is killed and another one takes its place.
Restart == /\ LogRestart
           /\ pc' = [t \in Threads |-> "idle"]
           /\ cur' = [t \in Threads |-> Nothing]
           /\ user' = [t \in Threads |-> NoUser]
           /\ UNCHANGED service

Next == \/ \E t \in Threads : \/ \E q \in Clients : Receive(t, q)
                              \/ Handle(t)
                              \/ Log(t)
        \/ Restart

Spec == Init /\ [][Next]_vars

-----------------------------------------------------------------------------
TypeOK == /\ service \in Langs
          /\ pc \in [Threads -> {"idle", "handle", "log"}]
          /\ cur \in [Threads -> Clients \cup {Nothing}]
          /\ user \in [Threads -> Users \cup {NoUser}]
          /\ \A t \in Threads : pc[t] = "idle" <=> cur[t] = Nothing
          /\ LogTypeOK

\* Let through by the session's gate, whatever the answer then was.
Admitted(r) == r.route \in {"me", "data", "item"} /\ Answer(service, r) # 401

\* The line of a request with a route names its own user if a session let it in, and
\* nobody else ever, whoever else is served meanwhile or was served by the thread
\* before (ev_handler, AccessLogMiddleware, morgan's token, access_log_middleware).
OwnLine ==
  \A t \in Threads :
    pc[t] = "log" /\ Routed(cur[t].r) =>
      /\ user[t] \in {NoUser, cur[t].user}
      /\ Admitted(cur[t].r) => user[t] = cur[t].user

\* main.cpp:89, "reset per request", and main.c:77: no line names a user who did not
\* make the request.
OwnUser == \A t \in Threads : pc[t] = "log" => user[t] \in {NoUser, cur[t].user}

\* README.md:8, "identical contract": four dispatchers with their checks in four
\* orders, four JSON parsers and four ways to limit and type a body give one answer to
\* every request with a route, whatever is wrong with it, exactly but for what the
\* service's Departs lists (handle_request, main, createApp, create_app).
IdenticalContract == service \notin Diverging

\* Whatever the method, the path and the body: no service serves data without the
\* key and a session, or creates a row without the role; one whose statement fails or
\* whose Postgres is down does not say that a row is missing or a password wrong; and
\* while statements succeed a 5xx is answered to Refused inputs alone (the gates,
\* handle_one, the handlers' 503 and 500).
GatesHold == service \notin Breaking

\* What a service's own base64url decodes is what it encoded, at every length and
\* across the overflow of buf, and no character outside the alphabet gets through
\* (b64url_encode, b64url_decode).
RoundTrip == Scans => Garbled = {}

\* In every well-formed header a service's own scan finds the value of the first
\* cookie that is named session, and no part of another cookie (cookie_get_session).
CookieFound == Scans => Misread = {}

\* A service's own scan of the roles lets in those who have a wanted role, and nobody
\* for a role whose name only contains one (roles_contains_any).
RolesRead == Scans => Misjudged = {}
=============================================================================
