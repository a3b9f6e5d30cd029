-------------------------------- MODULE Routes --------------------------------
(***************************************************************************)
(* What each of the four services answers: the checks of its dispatcher,   *)
(* of the routes behind it and of their handlers, in the order in which    *)
(* the code makes them.  API_KEY and JWT_SECRET are set, as they are in    *)
(* production; nothing is cached; requests for another service's prefix    *)
(* are left out, since the load balancer sends none.                       *)
(*                                                                         *)
(* A request is a record of what the checks look at.  A service's answer   *)
(* is the status of the first check that applies.                          *)
(***************************************************************************)
EXTENDS Integers, Sequences

Langs == {"c", "cpp", "js", "python"}

\* What an id in a path is: a positive int4, int8 exact in a double, int8, or beyond;
\* zero; a positive integer with leading zeros or blanks; anything else.
IdKinds == {"int4", "safe", "int8", "huge", "zero", "padded", "word"}

\* What the body of a create or a login is.  Where a kind is about a text, it is the
\* one that goes into a statement: content, email.
Bodies == {
  "complete",    \* an object with the fields required
  "malformed",   \* no JSON in any reading
  "incomplete",  \* an object or a list without a field, or with an empty one
  "scalar",      \* a string, a number, null
  "trailing",    \* text after the root, or a comma after the last field
  "nan",         \* NaN for a number
  "control",     \* a raw control character in a string
  "invalid",     \* bytes in a string that are no UTF-8
  "escaped",     \* an escape of / or of a character above 0xff
  "latin",       \* one escape from 0x80 to 0xff
  "pair",        \* the escapes of a surrogate pair
  "surrogate",   \* the escape of one surrogate
  "nul",         \* an escaped NUL inside the text
  "nulFirst",    \* an escaped NUL before it
  "blank",       \* nothing but blanks
  "spaced"}      \* blanks around the text

Sent(routes, sizes, types, bodies, ids) ==
  [key : {"none", "wrong", "right"},         \* X-API-Key
   route : routes,
   method : {"GET", "POST", "PUT"},
   session : {"none", "reader", "writer"},   \* what the cookie verifies to
   size : sizes, type : types, body : bodies, id : ids,
   pg : {"up", "failing", "down"},           \* failing: reached, but no statement succeeds
   found : BOOLEAN]   \* the row exists; the user exists and the password is right

\* Bodies are of interest where a handler reads one, ids where a path has one.  Sizes
\* are of the body, MAX_BODY_BYTES > 8192; types are Content-Types.
Requests ==
  Sent({"health", "logout", "me", "unknown"}, {"small"}, {"json"}, {"complete"}, {"int4"})
    \cup Sent({"login", "data"}, {"small", "over8k", "overmax"}, {"json", "other", "none"},
              Bodies, {"int4"})
    \cup Sent({"item"}, {"small"}, {"json"}, {"complete"}, IdKinds)

\* The method of a route; /data has two.
Methods(route) == CASE route \in {"health", "me", "item"} -> {"GET"}
                    [] route \in {"login", "logout"}      -> {"POST"}
                    [] route = "data"                     -> {"GET", "POST"}
                    [] OTHER                              -> {}

Routed(r) == r.method \in Methods(r.route)

\* checks is a sequence of <<condition, status>>.
First(checks) ==
  checks[CHOOSE i \in DOMAIN checks :
           checks[i][1] /\ \A j \in 1..(i - 1) : ~checks[j][1]][2]

-----------------------------------------------------------------------------
(* Ids: which ones a service takes, and which its query can compare to the *)
(* int4 column of the table.                                               *)

\* No leading zeros, digits only, at most LONG_MAX.
CIds == {"int4", "safe", "int8"}

CppIds == {"int4", "safe", "int8"}

\* A regular expression without leading zeros, then isSafeInteger.
JsIds == {"int4", "safe"}

\* strip(), isdigit(), int().
PyIds == {"int4", "safe", "int8", "huge", "padded"}

\* `$1::bigint` compares any id C takes; psycopg sends the type the number needs; C++
\* and JavaScript leave it to Postgres, which reads the parameter as int4.
Wide == {"safe", "int8", "huge"}

\* The row is read: without one 404.  The service takes `ids`, the statement fails for
\* those `refused`, and a failed statement is answered with `code`.
Fetch(r, ids, refused, code) ==
  <<<<r.id \notin ids, 400>>,
    <<r.pg = "down", 503>>,
    <<r.pg = "failing" \/ r.id \in refused, code>>,
    <<r.id \in Wide \/ ~r.found, 404>>,
    <<TRUE, 200>>>>

\* DB_INTERNAL where the connection is still good.
COne(r) == First(Fetch(r, CIds, {}, 500))

\* Any error is taken for an outage.
CppOne(r) == First(Fetch(r, CppIds, Wide, 503))

JsOne(r) == First(Fetch(r, JsIds, Wide, 503))

PyOne(r) == First(Fetch(r, PyIds, {}, 503))

\* The list.
Listed(r, code) == IF r.pg = "up" THEN 200 ELSE IF r.pg = "down" THEN 503 ELSE code

-----------------------------------------------------------------------------
(* Bodies: which ones a service's parser and its test of the fields reject, *)
(* and whose text makes the statement fail.                                 *)

\* mg_json_get stops at the end of the root; mg_json_unescape knows one byte, and
\* strlen sees nothing of a text after a NUL.
CRejects == {"malformed", "incomplete", "scalar", "nan", "escaped", "pair", "surrogate",
             "nulFirst"}
CRefused == {"latin", "invalid"}

\* Crow takes any bytes, and writes each surrogate as a character of its own; libpq
\* takes the text to end at the NUL.
CppRejects == {"malformed", "incomplete", "trailing", "nan"}
CppRefused == {"invalid", "pair", "surrogate"}

\* JSON.parse, after decoding that replaces what is no UTF-8, as node-postgres does
\* for a surrogate.
JsRejects == {"malformed", "incomplete", "scalar", "trailing", "nan", "control"}
JsRefused == {"nul", "nulFirst"}

\* json.loads; psycopg encodes no surrogate and takes no NUL.
PyRejects == {"malformed", "incomplete", "scalar", "trailing", "control", "invalid"}
PyRefused == {"nul", "nulFirst", "surrogate"}

CCreate(r) == First(<<<<r.size = "overmax", 413>>,
                      <<r.body \in CRejects, 400>>,
                      <<r.pg = "down", 503>>,
                      <<r.pg = "failing" \/ r.body \in CRefused, 500>>,
                      <<TRUE, 201>>>>)

\* json.has throws at a root that holds nothing, and Crow answers the exception.
CppCreate(r) == First(<<<<r.size = "overmax", 413>>,
                        <<r.body \in CppRejects, 400>>,
                        <<r.body = "scalar", 500>>,
                        <<r.pg # "up" \/ r.body \in CppRefused, 503>>,
                        <<TRUE, 201>>>>)

\* express.raw reads what has a type, and limits its size; JSON.parse and
\* validateContent do the rest.
JsCreate(r) == First(<<<<r.type = "none", 400>>,
                       <<r.size = "overmax", 413>>,
                       <<r.body \in JsRejects, 400>>,
                       <<r.pg # "up" \/ r.body \in JsRefused, 503>>,
                       <<TRUE, 201>>>>)

\* Mutant: the body is parsed before its size is looked at.
PyCreateParsedFirst(r) == First(<<<<r.body \in PyRejects, 400>>,
                                  <<r.size = "overmax", 413>>,
                                  <<r.pg # "up" \/ r.body \in PyRefused, 503>>,
                                  <<TRUE, 201>>>>)

\* The Content-Length, then the bytes read, are compared with the limit.
PyCreate(r) == First(<<<<r.size = "overmax", 413>>,
                       <<r.body \in PyRejects, 400>>,
                       <<r.pg # "up" \/ r.body \in PyRefused, 503>>,
                       <<TRUE, 201>>>>)

\* No user's email has blanks around it.
CLogin(r) == First(<<<<r.size = "overmax", 413>>,
                     <<r.body \in CRejects, 400>>,
                     <<r.pg = "down", 503>>,
                     <<r.pg = "failing" \/ r.body \in CRefused, 500>>,
                     <<r.body \in {"blank", "spaced"} \/ ~r.found, 401>>,
                     <<TRUE, 200>>>>)

\* A text that begins with a NUL is not empty here, and then is.
CppLogin(r) == First(<<<<r.size = "overmax", 413>>,
                       <<r.body \in CppRejects, 400>>,
                       <<r.body = "scalar", 500>>,
                       <<r.pg # "up" \/ r.body \in CppRefused, 503>>,
                       <<r.body \in {"blank", "spaced", "nulFirst"} \/ ~r.found, 401>>,
                       <<TRUE, 200>>>>)

\* express.json reads application/json, up to 8192 bytes of it; the email is trimmed.
JsLogin(r) == First(<<<<r.type # "json", 400>>,
                      <<r.size # "small", 413>>,
                      <<r.body \in JsRejects \cup {"blank"}, 400>>,
                      <<r.pg # "up" \/ r.body \in JsRefused, 503>>,
                      <<~r.found, 401>>,
                      <<TRUE, 200>>>>)

\* request.json takes any number of bytes; the email is stripped.
PyLogin(r) == First(<<<<r.body \in PyRejects \cup {"blank"}, 400>>,
                      <<r.pg # "up" \/ r.body \in PyRefused, 503>>,
                      <<~r.found, 401>>,
                      <<TRUE, 200>>>>)

-----------------------------------------------------------------------------
(* The dispatchers. *)

NoKey(r) == r.key # "right"
NoSession(r) == r.session = "none"
NoRole(r) == r.method = "POST" /\ r.session # "writer"
At(r, route) == r.route = route

\* /health and the key first; then the routes, method by method.
CAnswer(r) == First(<<
  <<At(r, "health"), IF r.method = "GET" THEN 200 ELSE 405>>,
  <<NoKey(r), 401>>,
  <<r.route \in {"login", "logout"} /\ ~Routed(r), 405>>,
  <<At(r, "login"), CLogin(r)>>,
  <<At(r, "logout"), 204>>,
  <<NoSession(r), 401>>,
  <<At(r, "unknown"), 404>>,
  <<~Routed(r), 405>>,
  <<At(r, "me"), 200>>,
  <<At(r, "item"), COne(r)>>,
  <<r.method = "GET", Listed(r, 500)>>,
  <<NoRole(r), 403>>,
  <<TRUE, CCreate(r)>>>>)

\* Mutant: the item route forgets extract_user.
CppAnswerOpenItem(r) == First(<<
  <<~Routed(r), 404>>,
  <<At(r, "health"), 200>>,
  <<NoKey(r), 401>>,
  <<At(r, "login"), CppLogin(r)>>,
  <<At(r, "logout"), 204>>,
  <<At(r, "item"), CppOne(r)>>,
  <<NoSession(r), 401>>,
  <<At(r, "me"), 200>>,
  <<r.method = "GET", Listed(r, 503)>>,
  <<NoRole(r), 403>>,
  <<TRUE, CppCreate(r)>>>>)

\* Crow matches the method with the path; whatever has no route goes to the
\* catch-all, before any key is looked at.
CppAnswer(r) == First(<<
  <<~Routed(r), 404>>,
  <<At(r, "health"), 200>>,
  <<NoKey(r), 401>>,
  <<At(r, "login"), CppLogin(r)>>,
  <<At(r, "logout"), 204>>,
  <<NoSession(r), 401>>,
  <<At(r, "me"), 200>>,
  <<At(r, "item"), CppOne(r)>>,
  <<r.method = "GET", Listed(r, 503)>>,
  <<NoRole(r), 403>>,
  <<TRUE, CppCreate(r)>>>>)

\* The gate is for paths under the prefix; Express answers 404 where no route is.
JsAnswer(r) == First(<<
  <<At(r, "health"), IF Routed(r) THEN 200 ELSE 404>>,
  <<NoKey(r), 401>>,
  <<~Routed(r), 404>>,
  <<At(r, "login"), JsLogin(r)>>,
  <<At(r, "logout"), 204>>,
  <<NoSession(r), 401>>,
  <<NoRole(r), 403>>,
  <<At(r, "me"), 200>>,
  <<At(r, "item"), JsOne(r)>>,
  <<r.method = "GET", Listed(r, 503)>>,
  <<TRUE, JsCreate(r)>>>>)

\* The same gate as a middleware; FastAPI tells a wrong method from a wrong path.
PyAnswer(r) == First(<<
  <<~At(r, "health") /\ NoKey(r), 401>>,
  <<At(r, "unknown"), 404>>,
  <<~Routed(r), 405>>,
  <<At(r, "health"), 200>>,
  <<At(r, "login"), PyLogin(r)>>,
  <<At(r, "logout"), 204>>,
  <<NoSession(r), 401>>,
  <<NoRole(r), 403>>,
  <<At(r, "me"), 200>>,
  <<At(r, "item"), PyOne(r)>>,
  <<r.method = "GET", Listed(r, 503)>>,
  <<TRUE, PyCreate(r)>>>>)

Answer(lang, r) == CASE lang = "c" -> CAnswer(r)
                     [] lang = "cpp" -> CppAnswer(r)
                     [] lang = "js" -> JsAnswer(r)
                     [] lang = "python" -> PyAnswer(r)

-----------------------------------------------------------------------------
(* What the services have in common, and where each departs from it.       *)

\* No JSON text, or no field in it.
Faulty == {"malformed", "incomplete", "scalar", "trailing", "nan", "control", "invalid"}

\* A text Postgres cannot store: nothing says what it should be answered.
Unstorable == {"surrogate", "nul", "nulFirst"}

Positive == {"int4", "safe", "int8", "huge"}

\* Past the gates of a route that reads a body.
Posts(r) == /\ r.key = "right" /\ r.method = "POST"
            /\ At(r, "login") \/ (At(r, "data") /\ r.session = "writer")

\* ... and the body is not too large.
Fits(r) == Posts(r) /\ r.size # "overmax"

\* Past the gates of a route that reads rows.
Gets(r) == /\ r.key = "right" /\ r.method = "GET" /\ r.session # "none"
            /\ r.route \in {"data", "item"}

\* The statuses are README.md:87-133's, a JSON text is RFC 8259's, and a statement that
\* fails counts as Postgres being down, as in three of the four.  The README says
\* nothing of requests with several faults: the order is what the four share,
\* and a malformed body without a session is 401 although chaos_test.sh:60-71 waits
\* for 400.  No answer is set for requests without a route, or with Unstorable text.
Contract(r) == First(<<
  <<At(r, "health"), 200>>,
  <<NoKey(r), 401>>,
  <<At(r, "logout"), 204>>,
  <<~At(r, "login") /\ NoSession(r), 401>>,
  <<At(r, "me"), 200>>,
  <<~At(r, "login") /\ NoRole(r), 403>>,
  <<r.method = "POST" /\ r.size = "overmax", 413>>,
  <<r.method = "POST" /\ r.body \in Faulty, 400>>,
  <<At(r, "item") /\ r.id \notin Positive, 400>>,
  <<r.pg # "up", 503>>,
  <<At(r, "login"), IF r.found /\ r.body \notin {"blank", "spaced"} THEN 200 ELSE 401>>,
  <<At(r, "item") /\ (r.id \in Wide \/ ~r.found), 404>>,
  <<TRUE, IF r.method = "POST" THEN 201 ELSE 200>>>>)

Stated(r) == Routed(r) /\ ~(Fits(r) /\ r.body \in Unstorable)

\* 500 for a failed statement; a parser that stops early, lets control characters and
\* bytes through and knows few escapes; ids up to LONG_MAX.
CDeparts(r) ==
  \/ /\ r.pg = "failing"
     /\ \/ Fits(r) /\ r.body \notin Faulty
        \/ Gets(r) /\ r.id \in Positive
  \/ Fits(r) /\ r.body \in {"trailing", "control", "invalid", "escaped", "pair"}
  \/ Fits(r) /\ r.body = "latin" /\ r.pg = "up"
  \/ Gets(r) /\ r.id = "huge"

\* 500 for a scalar; a parser that lets control characters and bytes through and
\* takes a pair apart; an id wider than the column is 503.
CppDeparts(r) ==
  \/ Fits(r) /\ r.body \in {"scalar", "control", "invalid"}
  \/ Fits(r) /\ r.body = "pair" /\ r.pg = "up"
  \/ Gets(r) /\ r.id = "huge"
  \/ Gets(r) /\ r.id \in {"safe", "int8"} /\ r.pg = "up"

\* What the body parser of Express reads; the rest is an empty body.
Parsed(r) == IF At(r, "login") THEN r.type = "json" ELSE r.type # "none"

\* A body is read by its type, a login up to 8192 bytes; bytes that are no UTF-8 are
\* replaced; blanks are trimmed; ids up to 2^53.
JsDeparts(r) ==
  \/ Posts(r) /\ ~Parsed(r) /\ (r.size = "overmax" \/ r.body \notin Faulty)
  \/ Posts(r) /\ Parsed(r) /\ At(r, "login") /\ r.size = "over8k"
  \/ Fits(r) /\ Parsed(r) /\ r.body = "invalid"
  \/ /\ Fits(r) /\ At(r, "login")
     /\ r.body = "blank" \/ (r.body = "spaced" /\ r.pg = "up" /\ r.found /\ Parsed(r))
  \/ Gets(r) /\ r.id \in {"int8", "huge"}
  \/ Gets(r) /\ r.id = "safe" /\ r.pg = "up"

\* NaN is a number; a login may have any size; blanks are trimmed, from ids as well.
PyDeparts(r) ==
  \/ Fits(r) /\ r.body = "nan"
  \/ Posts(r) /\ At(r, "login") /\ r.size = "overmax"
  \/ /\ Fits(r) /\ At(r, "login")
     /\ r.body = "blank" \/ (r.body = "spaced" /\ r.pg = "up" /\ r.found)
  \/ Gets(r) /\ r.id = "padded"

Departs(lang, r) == CASE lang = "c" -> CDeparts(r)
                      [] lang = "cpp" -> CppDeparts(r)
                      [] lang = "js" -> JsDeparts(r)
                      [] lang = "python" -> PyDeparts(r)

\* The services that answer some request otherwise and are not said to, or the reverse.
Diverging ==
  {lang \in Langs :
     \E r \in Requests : Stated(r) /\ (Answer(lang, r) = Contract(r) <=> Departs(lang, r))}

\* Inputs whose statement fails, or that a parser throws at.
Refused(lang, r) ==
  CASE lang = "c" -> r.body \in CRefused
    [] lang = "cpp" -> r.body \in CppRefused \cup {"scalar"} \/ r.id \in Wide
    [] lang = "js" -> r.body \in JsRefused \/ r.id \in Wide
    [] lang = "python" -> r.body \in PyRefused

\* What an answer must not be: data or a session without the key, data without a
\* session, a row without the role; a word about rows or credentials from a database
\* that gave none; an outage that is none.
Breaks(lang, r) ==
  LET status == Answer(lang, r) IN
    \/ /\ status \in {200, 201}
       /\ ~At(r, "health")
       /\ r.key # "right" \/ (r.session = "none" /\ r.route \in {"me", "data", "item"})
    \/ status = 201 /\ r.session # "writer"
    \/ /\ r.pg # "up" /\ r.key = "right" /\ Routed(r)
       /\ \/ r.route \in {"data", "item"} /\ status \in {200, 201, 404}
          \/ At(r, "login") /\ status \in {200, 401}
    \/ status \in {500, 503} /\ r.pg = "up" /\ ~Refused(lang, r)

Breaking == {lang \in Langs : \E r \in Requests : Breaks(lang, r)}
=============================================================================
