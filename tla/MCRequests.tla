------------------------------ MODULE MCRequests ------------------------------
(* Requests on small instances; the users are interchangeable. *)
EXTENDS Requests, TLC

List == [key |-> "right", route |-> "data", method |-> "GET", session |-> "reader",
         size |-> "small", type |-> "json", body |-> "complete", id |-> "int4",
         pg |-> "up", found |-> TRUE]

\* Let through, refused the key, outside the session, without a route.
Kinds == {List,
          [List EXCEPT !.key = "wrong"],
          [List EXCEPT !.route = "logout", !.method = "POST"],
          [List EXCEPT !.route = "unknown"]}

MCClients ==
  {[r |-> IF u = NoUser THEN [k EXCEPT !.session = "none"] ELSE k, user |-> u]
     : k \in Kinds, u \in Users \cup {NoUser}}

Symmetry == Permutations(Users)
=============================================================================
