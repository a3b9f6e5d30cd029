----------------------------- MODULE RequestsProofs -----------------------------
(***************************************************************************)
(* Requests, for any number of threads, users, backups and lines to a      *)
(* file: the answers of the four dispatchers and what they have in common, *)
(* base64url of any bytes, the Cookie header of any jar and the text of    *)
(* any roles, the number and the order of the lines in the files, and      *)
(* whose user a line names.                                                *)
(***************************************************************************)
EXTENDS Requests, TLAPS, FiniteSetTheorems, FunctionTheorems,
        SequenceTheorems, WellFoundedInduction

(***************************************************************************)
(* The dispatchers.                                                        *)
(***************************************************************************)

LEMMA LeastOf ==
  ASSUME NEW S, S \subseteq Nat, S # {}
  PROVE  \E m \in S : \A n \in S : m <= n
  <1> DEFINE R == OpToRel(<, Nat)
  <1>1. \A a, b \in Nat : <<a, b>> \in R <=> a < b
    BY DEF OpToRel
  <1>2. IsWellFoundedOn(R, Nat)
    BY NatLessThanWellFounded
  <1> HIDE DEF R
  <1>3. \E x \in S : \A y \in S : ~ (<<y, x>> \in R)
    BY <1>2, WFMin
  <1>4. PICK x \in S : \A y \in S : ~ (<<y, x>> \in R)
    BY <1>3
  <1>5. \A y \in S : ~(y < x) /\ y \in Nat /\ x \in Nat
    BY <1>1, <1>4
  <1> QED
    BY <1>5

\* First takes a check that applies, and none before it does.
LEMMA FirstOf ==
  ASSUME NEW checks, NEW n \in Nat, DOMAIN checks = 1 .. n, NEW m \in 1 .. n, checks[m][1]
  PROVE  \E i \in 1 .. n : /\ checks[i][1] /\ \A j \in 1 .. (i - 1) : ~checks[j][1]
                           /\ First(checks) = checks[i][2]
  <1> DEFINE S == {i \in 1 .. n : checks[i][1]}
  <1>1. PICK i \in S : \A j \in S : i <= j
    <2>1. S \subseteq Nat /\ m \in S
      OBVIOUS
    <2> HIDE DEF S
    <2> QED
      BY <2>1, LeastOf
  <1>2. i \in 1 .. n /\ checks[i][1]
    BY <1>1
  <1>3. \A j \in 1 .. (i - 1) : j \in 1 .. n /\ ~(i <= j)
    BY <1>2
  <1>4. \A j \in 1 .. (i - 1) : ~checks[j][1]
    <2> SUFFICES ASSUME NEW j \in 1 .. (i - 1), checks[j][1] PROVE FALSE
      OBVIOUS
    <2>1. j \in S
      BY <1>3
    <2> QED
      BY <2>1, <1>1, <1>3, Zenon
  <1> DEFINE Is(k) == checks[k][1] /\ \A j \in 1 .. (k - 1) : ~checks[j][1]
             k0 == CHOOSE k \in DOMAIN checks : Is(k)
  <1>5. k0 \in 1 .. n /\ Is(k0)
    BY <1>2, <1>4
  <1>6. First(checks) = checks[k0][2]
    BY DEF First
  <1> QED
    BY <1>5, <1>6

(***************************************************************************)
(* First of 4, 5, 6, 11, 12 and 13 checks, the last of which always        *)
(* applies.                                                                *)
(***************************************************************************)

Chain4(c) ==
  IF c[1][1] THEN c[1][2] ELSE IF c[2][1] THEN c[2][2]
  ELSE IF c[3][1] THEN c[3][2] ELSE c[4][2]

LEMMA FirstOf4 ==
  ASSUME NEW c, DOMAIN c = 1 .. 4, c[4][1]
  PROVE  First(c) = Chain4(c)
  <1>1. ASSUME NEW n, n = 4
        PROVE  \E i \in 1 .. n : /\ c[i][1] /\ \A j \in 1 .. (i - 1) : ~c[j][1]
                                /\ First(c) = c[i][2]
    <2>1. n \in Nat /\ n \in 1 .. n /\ DOMAIN c = 1 .. n /\ c[n][1]
      BY <1>1
    <2> QED
      BY <2>1, FirstOf, Zenon
  <1>2. PICK i \in 1 .. 4 :
          c[i][1] /\ (\A j \in 1 .. (i - 1) : ~c[j][1]) /\ First(c) = c[i][2]
    BY <1>1
  <1> QED
    BY <1>2 DEF Chain4

Chain5(c) ==
  IF c[1][1] THEN c[1][2] ELSE IF c[2][1] THEN c[2][2]
  ELSE IF c[3][1] THEN c[3][2] ELSE IF c[4][1] THEN c[4][2] ELSE c[5][2]

LEMMA FirstOf5 ==
  ASSUME NEW c, DOMAIN c = 1 .. 5, c[5][1]
  PROVE  First(c) = Chain5(c)
  <1>1. ASSUME NEW n, n = 5
        PROVE  \E i \in 1 .. n : /\ c[i][1] /\ \A j \in 1 .. (i - 1) : ~c[j][1]
                                /\ First(c) = c[i][2]
    <2>1. n \in Nat /\ n \in 1 .. n /\ DOMAIN c = 1 .. n /\ c[n][1]
      BY <1>1
    <2> QED
      BY <2>1, FirstOf, Zenon
  <1>2. PICK i \in 1 .. 5 :
          c[i][1] /\ (\A j \in 1 .. (i - 1) : ~c[j][1]) /\ First(c) = c[i][2]
    BY <1>1
  <1> QED
    BY <1>2 DEF Chain5

Chain6(c) ==
  IF c[1][1] THEN c[1][2] ELSE IF c[2][1] THEN c[2][2]
  ELSE IF c[3][1] THEN c[3][2] ELSE IF c[4][1] THEN c[4][2]
  ELSE IF c[5][1] THEN c[5][2] ELSE c[6][2]

LEMMA FirstOf6 ==
  ASSUME NEW c, DOMAIN c = 1 .. 6, c[6][1]
  PROVE  First(c) = Chain6(c)
  <1>1. ASSUME NEW n, n = 6
        PROVE  \E i \in 1 .. n : /\ c[i][1] /\ \A j \in 1 .. (i - 1) : ~c[j][1]
                                /\ First(c) = c[i][2]
    <2>1. n \in Nat /\ n \in 1 .. n /\ DOMAIN c = 1 .. n /\ c[n][1]
      BY <1>1
    <2> QED
      BY <2>1, FirstOf, Zenon
  <1>2. PICK i \in 1 .. 6 :
          c[i][1] /\ (\A j \in 1 .. (i - 1) : ~c[j][1]) /\ First(c) = c[i][2]
    BY <1>1
  <1> QED
    BY <1>2 DEF Chain6

Chain11(c) ==
  IF c[1][1] THEN c[1][2] ELSE IF c[2][1] THEN c[2][2]
  ELSE IF c[3][1] THEN c[3][2] ELSE IF c[4][1] THEN c[4][2]
  ELSE IF c[5][1] THEN c[5][2] ELSE IF c[6][1] THEN c[6][2]
  ELSE IF c[7][1] THEN c[7][2] ELSE IF c[8][1] THEN c[8][2]
  ELSE IF c[9][1] THEN c[9][2] ELSE IF c[10][1] THEN c[10][2] ELSE c[11][2]

LEMMA FirstOf11 ==
  ASSUME NEW c, DOMAIN c = 1 .. 11, c[11][1]
  PROVE  First(c) = Chain11(c)
  <1>1. ASSUME NEW n, n = 11
        PROVE  \E i \in 1 .. n : /\ c[i][1] /\ \A j \in 1 .. (i - 1) : ~c[j][1]
                                /\ First(c) = c[i][2]
    <2>1. n \in Nat /\ n \in 1 .. n /\ DOMAIN c = 1 .. n /\ c[n][1]
      BY <1>1
    <2> QED
      BY <2>1, FirstOf, Zenon
  <1>2. PICK i \in 1 .. 11 :
          c[i][1] /\ (\A j \in 1 .. (i - 1) : ~c[j][1]) /\ First(c) = c[i][2]
    BY <1>1
  <1> QED
    BY <1>2 DEF Chain11

Chain12(c) ==
  IF c[1][1] THEN c[1][2] ELSE IF c[2][1] THEN c[2][2]
  ELSE IF c[3][1] THEN c[3][2] ELSE IF c[4][1] THEN c[4][2]
  ELSE IF c[5][1] THEN c[5][2] ELSE IF c[6][1] THEN c[6][2]
  ELSE IF c[7][1] THEN c[7][2] ELSE IF c[8][1] THEN c[8][2]
  ELSE IF c[9][1] THEN c[9][2] ELSE IF c[10][1] THEN c[10][2]
  ELSE IF c[11][1] THEN c[11][2] ELSE c[12][2]

LEMMA FirstOf12 ==
  ASSUME NEW c, DOMAIN c = 1 .. 12, c[12][1]
  PROVE  First(c) = Chain12(c)
  <1>1. ASSUME NEW n, n = 12
        PROVE  \E i \in 1 .. n : /\ c[i][1] /\ \A j \in 1 .. (i - 1) : ~c[j][1]
                                /\ First(c) = c[i][2]
    <2>1. n \in Nat /\ n \in 1 .. n /\ DOMAIN c = 1 .. n /\ c[n][1]
      BY <1>1
    <2> QED
      BY <2>1, FirstOf, Zenon
  <1>2. PICK i \in 1 .. 12 :
          c[i][1] /\ (\A j \in 1 .. (i - 1) : ~c[j][1]) /\ First(c) = c[i][2]
    BY <1>1
  <1> QED
    BY <1>2 DEF Chain12

Chain13(c) ==
  IF c[1][1] THEN c[1][2] ELSE IF c[2][1] THEN c[2][2]
  ELSE IF c[3][1] THEN c[3][2] ELSE IF c[4][1] THEN c[4][2]
  ELSE IF c[5][1] THEN c[5][2] ELSE IF c[6][1] THEN c[6][2]
  ELSE IF c[7][1] THEN c[7][2] ELSE IF c[8][1] THEN c[8][2]
  ELSE IF c[9][1] THEN c[9][2] ELSE IF c[10][1] THEN c[10][2]
  ELSE IF c[11][1] THEN c[11][2] ELSE IF c[12][1] THEN c[12][2] ELSE c[13][2]

LEMMA FirstOf13 ==
  ASSUME NEW c, DOMAIN c = 1 .. 13, c[13][1]
  PROVE  First(c) = Chain13(c)
  <1>1. ASSUME NEW n, n = 13
        PROVE  \E i \in 1 .. n : /\ c[i][1] /\ \A j \in 1 .. (i - 1) : ~c[j][1]
                                /\ First(c) = c[i][2]
    <2>1. n \in Nat /\ n \in 1 .. n /\ DOMAIN c = 1 .. n /\ c[n][1]
      BY <1>1
    <2> QED
      BY <2>1, FirstOf, Zenon
  <1>2. PICK i \in 1 .. 13 :
          c[i][1] /\ (\A j \in 1 .. (i - 1) : ~c[j][1]) /\ First(c) = c[i][2]
    BY <1>1
  <1> QED
    BY <1>2 DEF Chain13

(***************************************************************************)
(* The handlers and the dispatchers, written out.                          *)
(***************************************************************************)

LEMMA Fetched ==
  ASSUME NEW r \in Requests, NEW ids, NEW refused, NEW code \in {500, 503}
  PROVE  First(Fetch(r, ids, refused, code)) =
           IF r.id \notin ids THEN 400
           ELSE IF r.pg = "down" THEN 503
           ELSE IF r.pg = "failing" \/ r.id \in refused THEN code
           ELSE IF r.id \in Wide \/ ~r.found THEN 404
           ELSE 200
  <1> DEFINE c == <<
        <<r.id \notin ids, 400>>,
        <<r.pg = "down", 503>>,
        <<r.pg = "failing" \/ r.id \in refused, code>>,
        <<r.id \in Wide \/ ~r.found, 404>>,
        <<TRUE, 200>>>>
  <1>1. DOMAIN c = 1 .. 5
    OBVIOUS
  <1>2. /\ (c[1][1] <=> r.id \notin ids) /\ c[1][2] = 400
        /\ (c[2][1] <=> r.pg = "down") /\ c[2][2] = 503
        /\ (c[3][1] <=> (r.pg = "failing" \/ r.id \in refused)) /\ c[3][2] = code
        /\ (c[4][1] <=> (r.id \in Wide \/ ~r.found)) /\ c[4][2] = 404
        /\ (c[5][1] <=> TRUE) /\ c[5][2] = 200
    OBVIOUS
  <1>3. First(Fetch(r, ids, refused, code)) = First(c)
    BY DEF Fetch
  <1> HIDE DEF c
  <1>4. c[5][1]
    BY <1>2
  <1>5. First(c) = Chain5(c)
    BY <1>1, <1>4, FirstOf5, Zenon
  <1> QED
    BY <1>2, <1>3, <1>5 DEF Chain5

LEMMA CCreated ==
  ASSUME NEW r \in Requests
  PROVE  CCreate(r) =
           IF r.size = "overmax" THEN 413
           ELSE IF r.body \in CRejects THEN 400
           ELSE IF r.pg = "down" THEN 503
           ELSE IF r.pg = "failing" \/ r.body \in CRefused THEN 500
           ELSE 201
  <1> DEFINE c == <<
        <<r.size = "overmax", 413>>,
        <<r.body \in CRejects, 400>>,
        <<r.pg = "down", 503>>,
        <<r.pg = "failing" \/ r.body \in CRefused, 500>>,
        <<TRUE, 201>>>>
  <1>1. DOMAIN c = 1 .. 5
    OBVIOUS
  <1>2. /\ (c[1][1] <=> r.size = "overmax") /\ c[1][2] = 413
        /\ (c[2][1] <=> r.body \in CRejects) /\ c[2][2] = 400
        /\ (c[3][1] <=> r.pg = "down") /\ c[3][2] = 503
        /\ (c[4][1] <=> (r.pg = "failing" \/ r.body \in CRefused)) /\ c[4][2] = 500
        /\ (c[5][1] <=> TRUE) /\ c[5][2] = 201
    OBVIOUS
  <1>3. CCreate(r) = First(c)
    BY DEF CCreate
  <1> HIDE DEF c
  <1>4. c[5][1]
    BY <1>2
  <1>5. First(c) = Chain5(c)
    BY <1>1, <1>4, FirstOf5, Zenon
  <1> QED
    BY <1>2, <1>3, <1>5 DEF Chain5

LEMMA CppCreated ==
  ASSUME NEW r \in Requests
  PROVE  CppCreate(r) =
           IF r.size = "overmax" THEN 413
           ELSE IF r.body \in CppRejects THEN 400
           ELSE IF r.body = "scalar" THEN 500
           ELSE IF r.pg # "up" \/ r.body \in CppRefused THEN 503
           ELSE 201
  <1> DEFINE c == <<
        <<r.size = "overmax", 413>>,
        <<r.body \in CppRejects, 400>>,
        <<r.body = "scalar", 500>>,
        <<r.pg # "up" \/ r.body \in CppRefused, 503>>,
        <<TRUE, 201>>>>
  <1>1. DOMAIN c = 1 .. 5
    OBVIOUS
  <1>2. /\ (c[1][1] <=> r.size = "overmax") /\ c[1][2] = 413
        /\ (c[2][1] <=> r.body \in CppRejects) /\ c[2][2] = 400
        /\ (c[3][1] <=> r.body = "scalar") /\ c[3][2] = 500
        /\ (c[4][1] <=> (r.pg # "up" \/ r.body \in CppRefused)) /\ c[4][2] = 503
        /\ (c[5][1] <=> TRUE) /\ c[5][2] = 201
    OBVIOUS
  <1>3. CppCreate(r) = First(c)
    BY DEF CppCreate
  <1> HIDE DEF c
  <1>4. c[5][1]
    BY <1>2
  <1>5. First(c) = Chain5(c)
    BY <1>1, <1>4, FirstOf5, Zenon
  <1> QED
    BY <1>2, <1>3, <1>5 DEF Chain5

LEMMA JsCreated ==
  ASSUME NEW r \in Requests
  PROVE  JsCreate(r) =
           IF r.type = "none" THEN 400
           ELSE IF r.size = "overmax" THEN 413
           ELSE IF r.body \in JsRejects THEN 400
           ELSE IF r.pg # "up" \/ r.body \in JsRefused THEN 503
           ELSE 201
  <1> DEFINE c == <<
        <<r.type = "none", 400>>,
        <<r.size = "overmax", 413>>,
        <<r.body \in JsRejects, 400>>,
        <<r.pg # "up" \/ r.body \in JsRefused, 503>>,
        <<TRUE, 201>>>>
  <1>1. DOMAIN c = 1 .. 5
    OBVIOUS
  <1>2. /\ (c[1][1] <=> r.type = "none") /\ c[1][2] = 400
        /\ (c[2][1] <=> r.size = "overmax") /\ c[2][2] = 413
        /\ (c[3][1] <=> r.body \in JsRejects) /\ c[3][2] = 400
        /\ (c[4][1] <=> (r.pg # "up" \/ r.body \in JsRefused)) /\ c[4][2] = 503
        /\ (c[5][1] <=> TRUE) /\ c[5][2] = 201
    OBVIOUS
  <1>3. JsCreate(r) = First(c)
    BY DEF JsCreate
  <1> HIDE DEF c
  <1>4. c[5][1]
    BY <1>2
  <1>5. First(c) = Chain5(c)
    BY <1>1, <1>4, FirstOf5, Zenon
  <1> QED
    BY <1>2, <1>3, <1>5 DEF Chain5

LEMMA PyCreated ==
  ASSUME NEW r \in Requests
  PROVE  PyCreate(r) =
           IF r.size = "overmax" THEN 413
           ELSE IF r.body \in PyRejects THEN 400
           ELSE IF r.pg # "up" \/ r.body \in PyRefused THEN 503
           ELSE 201
  <1> DEFINE c == <<
        <<r.size = "overmax", 413>>,
        <<r.body \in PyRejects, 400>>,
        <<r.pg # "up" \/ r.body \in PyRefused, 503>>,
        <<TRUE, 201>>>>
  <1>1. DOMAIN c = 1 .. 4
    OBVIOUS
  <1>2. /\ (c[1][1] <=> r.size = "overmax") /\ c[1][2] = 413
        /\ (c[2][1] <=> r.body \in PyRejects) /\ c[2][2] = 400
        /\ (c[3][1] <=> (r.pg # "up" \/ r.body \in PyRefused)) /\ c[3][2] = 503
        /\ (c[4][1] <=> TRUE) /\ c[4][2] = 201
    OBVIOUS
  <1>3. PyCreate(r) = First(c)
    BY DEF PyCreate
  <1> HIDE DEF c
  <1>4. c[4][1]
    BY <1>2
  <1>5. First(c) = Chain4(c)
    BY <1>1, <1>4, FirstOf4, Zenon
  <1> QED
    BY <1>2, <1>3, <1>5 DEF Chain4

LEMMA CLoggedIn ==
  ASSUME NEW r \in Requests
  PROVE  CLogin(r) =
           IF r.size = "overmax" THEN 413
           ELSE IF r.body \in CRejects THEN 400
           ELSE IF r.pg = "down" THEN 503
           ELSE IF r.pg = "failing" \/ r.body \in CRefused THEN 500
           ELSE IF r.body \in {"blank", "spaced"} \/ ~r.found THEN 401
           ELSE 200
  <1> DEFINE c == <<
        <<r.size = "overmax", 413>>,
        <<r.body \in CRejects, 400>>,
        <<r.pg = "down", 503>>,
        <<r.pg = "failing" \/ r.body \in CRefused, 500>>,
        <<r.body \in {"blank", "spaced"} \/ ~r.found, 401>>,
        <<TRUE, 200>>>>
  <1>1. DOMAIN c = 1 .. 6
    OBVIOUS
  <1>2. /\ (c[1][1] <=> r.size = "overmax") /\ c[1][2] = 413
        /\ (c[2][1] <=> r.body \in CRejects) /\ c[2][2] = 400
        /\ (c[3][1] <=> r.pg = "down") /\ c[3][2] = 503
        /\ (c[4][1] <=> (r.pg = "failing" \/ r.body \in CRefused)) /\ c[4][2] = 500
        /\ (c[5][1] <=> (r.body \in {"blank", "spaced"} \/ ~r.found)) /\ c[5][2] = 401
        /\ (c[6][1] <=> TRUE) /\ c[6][2] = 200
    OBVIOUS
  <1>3. CLogin(r) = First(c)
    BY DEF CLogin
  <1> HIDE DEF c
  <1>4. c[6][1]
    BY <1>2
  <1>5. First(c) = Chain6(c)
    BY <1>1, <1>4, FirstOf6, Zenon
  <1> QED
    BY <1>2, <1>3, <1>5 DEF Chain6

LEMMA CppLoggedIn ==
  ASSUME NEW r \in Requests
  PROVE  CppLogin(r) =
           IF r.size = "overmax" THEN 413
           ELSE IF r.body \in CppRejects THEN 400
           ELSE IF r.body = "scalar" THEN 500
           ELSE IF r.pg # "up" \/ r.body \in CppRefused THEN 503
           ELSE IF r.body \in {"blank", "spaced", "nulFirst"} \/ ~r.found THEN 401
           ELSE 200
  <1> DEFINE c == <<
        <<r.size = "overmax", 413>>,
        <<r.body \in CppRejects, 400>>,
        <<r.body = "scalar", 500>>,
        <<r.pg # "up" \/ r.body \in CppRefused, 503>>,
        <<r.body \in {"blank", "spaced", "nulFirst"} \/ ~r.found, 401>>,
        <<TRUE, 200>>>>
  <1>1. DOMAIN c = 1 .. 6
    OBVIOUS
  <1>2. /\ (c[1][1] <=> r.size = "overmax") /\ c[1][2] = 413
        /\ (c[2][1] <=> r.body \in CppRejects) /\ c[2][2] = 400
        /\ (c[3][1] <=> r.body = "scalar") /\ c[3][2] = 500
        /\ (c[4][1] <=> (r.pg # "up" \/ r.body \in CppRefused)) /\ c[4][2] = 503
        /\ (c[5][1] <=> (r.body \in {"blank", "spaced", "nulFirst"} \/ ~r.found)) /\ c[5][2] = 401
        /\ (c[6][1] <=> TRUE) /\ c[6][2] = 200
    OBVIOUS
  <1>3. CppLogin(r) = First(c)
    BY DEF CppLogin
  <1> HIDE DEF c
  <1>4. c[6][1]
    BY <1>2
  <1>5. First(c) = Chain6(c)
    BY <1>1, <1>4, FirstOf6, Zenon
  <1> QED
    BY <1>2, <1>3, <1>5 DEF Chain6

LEMMA JsLoggedIn ==
  ASSUME NEW r \in Requests
  PROVE  JsLogin(r) =
           IF r.type # "json" THEN 400
           ELSE IF r.size # "small" THEN 413
           ELSE IF r.body \in JsRejects \cup {"blank"} THEN 400
           ELSE IF r.pg # "up" \/ r.body \in JsRefused THEN 503
           ELSE IF ~r.found THEN 401
           ELSE 200
  <1> DEFINE c == <<
        <<r.type # "json", 400>>,
        <<r.size # "small", 413>>,
        <<r.body \in JsRejects \cup {"blank"}, 400>>,
        <<r.pg # "up" \/ r.body \in JsRefused, 503>>,
        <<~r.found, 401>>,
        <<TRUE, 200>>>>
  <1>1. DOMAIN c = 1 .. 6
    OBVIOUS
  <1>2. /\ (c[1][1] <=> r.type # "json") /\ c[1][2] = 400
        /\ (c[2][1] <=> r.size # "small") /\ c[2][2] = 413
        /\ (c[3][1] <=> r.body \in JsRejects \cup {"blank"}) /\ c[3][2] = 400
        /\ (c[4][1] <=> (r.pg # "up" \/ r.body \in JsRefused)) /\ c[4][2] = 503
        /\ (c[5][1] <=> ~r.found) /\ c[5][2] = 401
        /\ (c[6][1] <=> TRUE) /\ c[6][2] = 200
    OBVIOUS
  <1>3. JsLogin(r) = First(c)
    BY DEF JsLogin
  <1> HIDE DEF c
  <1>4. c[6][1]
    BY <1>2
  <1>5. First(c) = Chain6(c)
    BY <1>1, <1>4, FirstOf6, Zenon
  <1> QED
    BY <1>2, <1>3, <1>5 DEF Chain6

LEMMA PyLoggedIn ==
  ASSUME NEW r \in Requests
  PROVE  PyLogin(r) =
           IF r.body \in PyRejects \cup {"blank"} THEN 400
           ELSE IF r.pg # "up" \/ r.body \in PyRefused THEN 503
           ELSE IF ~r.found THEN 401
           ELSE 200
  <1> DEFINE c == <<
        <<r.body \in PyRejects \cup {"blank"}, 400>>,
        <<r.pg # "up" \/ r.body \in PyRefused, 503>>,
        <<~r.found, 401>>,
        <<TRUE, 200>>>>
  <1>1. DOMAIN c = 1 .. 4
    OBVIOUS
  <1>2. /\ (c[1][1] <=> r.body \in PyRejects \cup {"blank"}) /\ c[1][2] = 400
        /\ (c[2][1] <=> (r.pg # "up" \/ r.body \in PyRefused)) /\ c[2][2] = 503
        /\ (c[3][1] <=> ~r.found) /\ c[3][2] = 401
        /\ (c[4][1] <=> TRUE) /\ c[4][2] = 200
    OBVIOUS
  <1>3. PyLogin(r) = First(c)
    BY DEF PyLogin
  <1> HIDE DEF c
  <1>4. c[4][1]
    BY <1>2
  <1>5. First(c) = Chain4(c)
    BY <1>1, <1>4, FirstOf4, Zenon
  <1> QED
    BY <1>2, <1>3, <1>5 DEF Chain4

LEMMA CAnswers ==
  ASSUME NEW r \in Requests
  PROVE  CAnswer(r) =
           IF At(r, "health") THEN (IF r.method = "GET" THEN 200 ELSE 405)
           ELSE IF NoKey(r) THEN 401
           ELSE IF r.route \in {"login", "logout"} /\ ~Routed(r) THEN 405
           ELSE IF At(r, "login") THEN CLogin(r)
           ELSE IF At(r, "logout") THEN 204
           ELSE IF NoSession(r) THEN 401
           ELSE IF At(r, "unknown") THEN 404
           ELSE IF ~Routed(r) THEN 405
           ELSE IF At(r, "me") THEN 200
           ELSE IF At(r, "item") THEN COne(r)
           ELSE IF r.method = "GET" THEN Listed(r, 500)
           ELSE IF NoRole(r) THEN 403
           ELSE CCreate(r)
  <1> DEFINE c == <<
        <<At(r, "health"), (IF r.method = "GET" THEN 200 ELSE 405)>>,
        <<NoKey(r), 401>>,
        <<r.route \in {"login", "logout"} /\ ~Routed(r), 405>>,
        <<At(r, "login"), CLogin(r)>>,
        <<At(r, "logout"), 204>>,
        <<NoSession(r), 401>>,
        <<At(r, "unknown"), 404>>,
        <<~Routed(r), 405>>,
        <<At(r, "me"), 200>>,
        <<At(r, "item"), COne(r)>>,
        <<r.method = "GET", Listed(r, 500)>>,
        <<NoRole(r), 403>>,
        <<TRUE, CCreate(r)>>>>
  <1>1. DOMAIN c = 1 .. 13
    OBVIOUS
  <1>2. /\ (c[1][1] <=> At(r, "health")) /\ c[1][2] = (IF r.method = "GET" THEN 200 ELSE 405)
        /\ (c[2][1] <=> NoKey(r)) /\ c[2][2] = 401
        /\ (c[3][1] <=> (r.route \in {"login", "logout"} /\ ~Routed(r))) /\ c[3][2] = 405
        /\ (c[4][1] <=> At(r, "login")) /\ c[4][2] = CLogin(r)
        /\ (c[5][1] <=> At(r, "logout")) /\ c[5][2] = 204
        /\ (c[6][1] <=> NoSession(r)) /\ c[6][2] = 401
        /\ (c[7][1] <=> At(r, "unknown")) /\ c[7][2] = 404
        /\ (c[8][1] <=> ~Routed(r)) /\ c[8][2] = 405
        /\ (c[9][1] <=> At(r, "me")) /\ c[9][2] = 200
        /\ (c[10][1] <=> At(r, "item")) /\ c[10][2] = COne(r)
        /\ (c[11][1] <=> r.method = "GET") /\ c[11][2] = Listed(r, 500)
        /\ (c[12][1] <=> NoRole(r)) /\ c[12][2] = 403
        /\ (c[13][1] <=> TRUE) /\ c[13][2] = CCreate(r)
    OBVIOUS
  <1>3. CAnswer(r) = First(c)
    BY DEF CAnswer
  <1> HIDE DEF c
  <1>4. c[13][1]
    BY <1>2
  <1>5. First(c) = Chain13(c)
    BY <1>1, <1>4, FirstOf13, Zenon
  <1> QED
    BY <1>2, <1>3, <1>5 DEF Chain13

LEMMA CppAnswers ==
  ASSUME NEW r \in Requests
  PROVE  CppAnswer(r) =
           IF ~Routed(r) THEN 404
           ELSE IF At(r, "health") THEN 200
           ELSE IF NoKey(r) THEN 401
           ELSE IF At(r, "login") THEN CppLogin(r)
           ELSE IF At(r, "logout") THEN 204
           ELSE IF NoSession(r) THEN 401
           ELSE IF At(r, "me") THEN 200
           ELSE IF At(r, "item") THEN CppOne(r)
           ELSE IF r.method = "GET" THEN Listed(r, 503)
           ELSE IF NoRole(r) THEN 403
           ELSE CppCreate(r)
  <1> DEFINE c == <<
        <<~Routed(r), 404>>,
        <<At(r, "health"), 200>>,
        <<NoKey(r), 401>>,
        <<At(r, "login"), CppLogin(r)>>,
        <<At(r, "logout"), 204>>,
        <<NoSession(r), 401>>,
        <<At(r, "me"), 200>>,
        <<At(r, "item"), CppOne(r)>>,
        <<r.method = "GET", Listed(r, 503)>>,
        <<NoRole(r), 403>>,
        <<TRUE, CppCreate(r)>>>>
  <1>1. DOMAIN c = 1 .. 11
    OBVIOUS
  <1>2. /\ (c[1][1] <=> ~Routed(r)) /\ c[1][2] = 404
        /\ (c[2][1] <=> At(r, "health")) /\ c[2][2] = 200
        /\ (c[3][1] <=> NoKey(r)) /\ c[3][2] = 401
        /\ (c[4][1] <=> At(r, "login")) /\ c[4][2] = CppLogin(r)
        /\ (c[5][1] <=> At(r, "logout")) /\ c[5][2] = 204
        /\ (c[6][1] <=> NoSession(r)) /\ c[6][2] = 401
        /\ (c[7][1] <=> At(r, "me")) /\ c[7][2] = 200
        /\ (c[8][1] <=> At(r, "item")) /\ c[8][2] = CppOne(r)
        /\ (c[9][1] <=> r.method = "GET") /\ c[9][2] = Listed(r, 503)
        /\ (c[10][1] <=> NoRole(r)) /\ c[10][2] = 403
        /\ (c[11][1] <=> TRUE) /\ c[11][2] = CppCreate(r)
    OBVIOUS
  <1>3. CppAnswer(r) = First(c)
    BY DEF CppAnswer
  <1> HIDE DEF c
  <1>4. c[11][1]
    BY <1>2
  <1>5. First(c) = Chain11(c)
    BY <1>1, <1>4, FirstOf11, Zenon
  <1> QED
    BY <1>2, <1>3, <1>5 DEF Chain11

LEMMA JsAnswers ==
  ASSUME NEW r \in Requests
  PROVE  JsAnswer(r) =
           IF At(r, "health") THEN (IF Routed(r) THEN 200 ELSE 404)
           ELSE IF NoKey(r) THEN 401
           ELSE IF ~Routed(r) THEN 404
           ELSE IF At(r, "login") THEN JsLogin(r)
           ELSE IF At(r, "logout") THEN 204
           ELSE IF NoSession(r) THEN 401
           ELSE IF NoRole(r) THEN 403
           ELSE IF At(r, "me") THEN 200
           ELSE IF At(r, "item") THEN JsOne(r)
           ELSE IF r.method = "GET" THEN Listed(r, 503)
           ELSE JsCreate(r)
  <1> DEFINE c == <<
        <<At(r, "health"), (IF Routed(r) THEN 200 ELSE 404)>>,
        <<NoKey(r), 401>>,
        <<~Routed(r), 404>>,
        <<At(r, "login"), JsLogin(r)>>,
        <<At(r, "logout"), 204>>,
        <<NoSession(r), 401>>,
        <<NoRole(r), 403>>,
        <<At(r, "me"), 200>>,
        <<At(r, "item"), JsOne(r)>>,
        <<r.method = "GET", Listed(r, 503)>>,
        <<TRUE, JsCreate(r)>>>>
  <1>1. DOMAIN c = 1 .. 11
    OBVIOUS
  <1>2. /\ (c[1][1] <=> At(r, "health")) /\ c[1][2] = (IF Routed(r) THEN 200 ELSE 404)
        /\ (c[2][1] <=> NoKey(r)) /\ c[2][2] = 401
        /\ (c[3][1] <=> ~Routed(r)) /\ c[3][2] = 404
        /\ (c[4][1] <=> At(r, "login")) /\ c[4][2] = JsLogin(r)
        /\ (c[5][1] <=> At(r, "logout")) /\ c[5][2] = 204
        /\ (c[6][1] <=> NoSession(r)) /\ c[6][2] = 401
        /\ (c[7][1] <=> NoRole(r)) /\ c[7][2] = 403
        /\ (c[8][1] <=> At(r, "me")) /\ c[8][2] = 200
        /\ (c[9][1] <=> At(r, "item")) /\ c[9][2] = JsOne(r)
        /\ (c[10][1] <=> r.method = "GET") /\ c[10][2] = Listed(r, 503)
        /\ (c[11][1] <=> TRUE) /\ c[11][2] = JsCreate(r)
    OBVIOUS
  <1>3. JsAnswer(r) = First(c)
    BY DEF JsAnswer
  <1> HIDE DEF c
  <1>4. c[11][1]
    BY <1>2
  <1>5. First(c) = Chain11(c)
    BY <1>1, <1>4, FirstOf11, Zenon
  <1> QED
    BY <1>2, <1>3, <1>5 DEF Chain11

LEMMA PyAnswers ==
  ASSUME NEW r \in Requests
  PROVE  PyAnswer(r) =
           IF ~At(r, "health") /\ NoKey(r) THEN 401
           ELSE IF At(r, "unknown") THEN 404
           ELSE IF ~Routed(r) THEN 405
           ELSE IF At(r, "health") THEN 200
           ELSE IF At(r, "login") THEN PyLogin(r)
           ELSE IF At(r, "logout") THEN 204
           ELSE IF NoSession(r) THEN 401
           ELSE IF NoRole(r) THEN 403
           ELSE IF At(r, "me") THEN 200
           ELSE IF At(r, "item") THEN PyOne(r)
           ELSE IF r.method = "GET" THEN Listed(r, 503)
           ELSE PyCreate(r)
  <1> DEFINE c == <<
        <<~At(r, "health") /\ NoKey(r), 401>>,
        <<At(r, "unknown"), 404>>,
        <<~Routed(r), 405>>,
        <<At(r, "health"), 200>>,
        <<At(r, "login"), PyLogin(r)>>,
        <<At(r, "logout"), 204>>,
        <<NoSession(r), 401>>,
        <<NoRole(r), 403>>,
        <<At(r, "me"), 200>>,
        <<At(r, "item"), PyOne(r)>>,
        <<r.method = "GET", Listed(r, 503)>>,
        <<TRUE, PyCreate(r)>>>>
  <1>1. DOMAIN c = 1 .. 12
    OBVIOUS
  <1>2. /\ (c[1][1] <=> (~At(r, "health") /\ NoKey(r))) /\ c[1][2] = 401
        /\ (c[2][1] <=> At(r, "unknown")) /\ c[2][2] = 404
        /\ (c[3][1] <=> ~Routed(r)) /\ c[3][2] = 405
        /\ (c[4][1] <=> At(r, "health")) /\ c[4][2] = 200
        /\ (c[5][1] <=> At(r, "login")) /\ c[5][2] = PyLogin(r)
        /\ (c[6][1] <=> At(r, "logout")) /\ c[6][2] = 204
        /\ (c[7][1] <=> NoSession(r)) /\ c[7][2] = 401
        /\ (c[8][1] <=> NoRole(r)) /\ c[8][2] = 403
        /\ (c[9][1] <=> At(r, "me")) /\ c[9][2] = 200
        /\ (c[10][1] <=> At(r, "item")) /\ c[10][2] = PyOne(r)
        /\ (c[11][1] <=> r.method = "GET") /\ c[11][2] = Listed(r, 503)
        /\ (c[12][1] <=> TRUE) /\ c[12][2] = PyCreate(r)
    OBVIOUS
  <1>3. PyAnswer(r) = First(c)
    BY DEF PyAnswer
  <1> HIDE DEF c
  <1>4. c[12][1]
    BY <1>2
  <1>5. First(c) = Chain12(c)
    BY <1>1, <1>4, FirstOf12, Zenon
  <1> QED
    BY <1>2, <1>3, <1>5 DEF Chain12

LEMMA Contracts ==
  ASSUME NEW r \in Requests
  PROVE  Contract(r) =
           IF At(r, "health") THEN 200
           ELSE IF NoKey(r) THEN 401
           ELSE IF At(r, "logout") THEN 204
           ELSE IF ~At(r, "login") /\ NoSession(r) THEN 401
           ELSE IF At(r, "me") THEN 200
           ELSE IF ~At(r, "login") /\ NoRole(r) THEN 403
           ELSE IF r.method = "POST" /\ r.size = "overmax" THEN 413
           ELSE IF r.method = "POST" /\ r.body \in Faulty THEN 400
           ELSE IF At(r, "item") /\ r.id \notin Positive THEN 400
           ELSE IF r.pg # "up" THEN 503
           ELSE IF At(r, "login") THEN (IF r.found /\ r.body \notin {"blank", "spaced"} THEN 200 ELSE 401)
           ELSE IF At(r, "item") /\ (r.id \in Wide \/ ~r.found) THEN 404
           ELSE (IF r.method = "POST" THEN 201 ELSE 200)
  <1> DEFINE c == <<
        <<At(r, "health"), 200>>,
        <<NoKey(r), 401>>,
        <<At(r, "logout"), 204>>,
        <<~At(r, "login") /\ NoSession(r), 401>>,
        <<At(r, "me"), 200>>,
        <<~At(r, "login") /\ NoRole(r), 403>>,
        <<r.method = "POST" /\ r.size = "overmax", 413>>,
        <<r.method = "POST" /\ r.body \in Faulty, 400>>,
        <<At(r, "item") /\ r.id \notin Positive, 400>>,
        <<r.pg # "up", 503>>,
        <<At(r, "login"), (IF r.found /\ r.body \notin {"blank", "spaced"} THEN 200 ELSE 401)>>,
        <<At(r, "item") /\ (r.id \in Wide \/ ~r.found), 404>>,
        <<TRUE, (IF r.method = "POST" THEN 201 ELSE 200)>>>>
  <1>1. DOMAIN c = 1 .. 13
    OBVIOUS
  <1>2. /\ (c[1][1] <=> At(r, "health")) /\ c[1][2] = 200
        /\ (c[2][1] <=> NoKey(r)) /\ c[2][2] = 401
        /\ (c[3][1] <=> At(r, "logout")) /\ c[3][2] = 204
        /\ (c[4][1] <=> (~At(r, "login") /\ NoSession(r))) /\ c[4][2] = 401
        /\ (c[5][1] <=> At(r, "me")) /\ c[5][2] = 200
        /\ (c[6][1] <=> (~At(r, "login") /\ NoRole(r))) /\ c[6][2] = 403
        /\ (c[7][1] <=> (r.method = "POST" /\ r.size = "overmax")) /\ c[7][2] = 413
        /\ (c[8][1] <=> (r.method = "POST" /\ r.body \in Faulty)) /\ c[8][2] = 400
        /\ (c[9][1] <=> (At(r, "item") /\ r.id \notin Positive)) /\ c[9][2] = 400
        /\ (c[10][1] <=> r.pg # "up") /\ c[10][2] = 503
        /\ (c[11][1] <=> At(r, "login")) /\ c[11][2] = (IF r.found /\ r.body \notin {"blank", "spaced"} THEN 200 ELSE 401)
        /\ (c[12][1] <=> (At(r, "item") /\ (r.id \in Wide \/ ~r.found))) /\ c[12][2] = 404
        /\ (c[13][1] <=> TRUE) /\ c[13][2] = (IF r.method = "POST" THEN 201 ELSE 200)
    OBVIOUS
  <1>3. Contract(r) = First(c)
    BY DEF Contract
  <1> HIDE DEF c
  <1>4. c[13][1]
    BY <1>2
  <1>5. First(c) = Chain13(c)
    BY <1>1, <1>4, FirstOf13, Zenon
  <1> QED
    BY <1>2, <1>3, <1>5 DEF Chain13

LEMMA RequestTyped ==
  ASSUME NEW r \in Requests
  PROVE  /\ r.key \in {"none", "wrong", "right"}
         /\ r.route \in {"health", "login", "logout", "me", "data", "item", "unknown"}
         /\ r.method \in {"GET", "POST", "PUT"}
         /\ r.session \in {"none", "reader", "writer"}
         /\ r.size \in {"small", "over8k", "overmax"}
         /\ r.type \in {"json", "other", "none"}
         /\ r.body \in Bodies /\ r.id \in IdKinds
         /\ r.pg \in {"up", "failing", "down"} /\ r.found \in BOOLEAN
         /\ r.route \notin {"login", "data"} => r.body = "complete" /\ r.size = "small"
         /\ r.route # "item" => r.id = "int4"
         /\ Routed(r) <=> \/ r.method = "GET" /\ r.route \in {"health", "me", "item", "data"}
                          \/ r.method = "POST" /\ r.route \in {"login", "logout", "data"}
  <1>1. /\ r.route \in {"health", "login", "logout", "me", "data", "item", "unknown"}
        /\ r.method \in {"GET", "POST", "PUT"}
    BY DEF Requests, Sent
  <1>2. Routed(r) <=> \/ r.method = "GET" /\ r.route \in {"health", "me", "item", "data"}
                      \/ r.method = "POST" /\ r.route \in {"login", "logout", "data"}
    BY <1>1 DEF Routed, Methods
  <1> QED
    BY <1>1, <1>2 DEF Requests, Sent, Bodies, IdKinds

\* What Fetch comes to.
Row(r, ids, refused, code) ==
  IF r.id \notin ids THEN 400 ELSE IF r.pg = "down" THEN 503
  ELSE IF r.pg = "failing" \/ r.id \in refused THEN code
  ELSE IF r.id \in Wide \/ ~r.found THEN 404 ELSE 200

LEMMA ReadOne ==
  ASSUME NEW r \in Requests
  PROVE  /\ COne(r) = Row(r, CIds, {}, 500) /\ CppOne(r) = Row(r, CppIds, Wide, 503)
         /\ JsOne(r) = Row(r, JsIds, Wide, 503) /\ PyOne(r) = Row(r, PyIds, {}, 503)
  BY Fetched DEF Row, COne, CppOne, JsOne, PyOne

(***************************************************************************)
(* Each service departs from the contract where it is said to and nowhere  *)
(* else, and nothing breaks the gates.                                     *)
(***************************************************************************)

LEMMA CDepartsAsSaid ==
  ASSUME NEW r \in Requests, Stated(r)
  PROVE  CAnswer(r) # Contract(r) <=> CDeparts(r)
  BY CAnswers, Contracts, CLoggedIn, CCreated, ReadOne, RequestTyped
     DEF Stated, At, CIds, Wide, Listed, NoRole, NoKey, NoSession, Row, Positive, Fits,
         Posts, Gets, CDeparts, CRejects, CRefused, Faulty, Unstorable,
         Bodies, IdKinds

LEMMA CppDepartsAsSaid ==
  ASSUME NEW r \in Requests, Stated(r)
  PROVE  CppAnswer(r) # Contract(r) <=> CppDeparts(r)
  BY CppAnswers, Contracts, CppLoggedIn, CppCreated, ReadOne, RequestTyped
     DEF Stated, At, CppIds, Wide, Listed, NoRole, NoKey, NoSession, Row, Positive, Fits,
         Posts, Gets, CppDeparts, CppRejects, CppRefused, Faulty, Unstorable,
         Bodies, IdKinds

LEMMA JsDepartsAsSaid ==
  ASSUME NEW r \in Requests, Stated(r)
  PROVE  JsAnswer(r) # Contract(r) <=> JsDeparts(r)
  BY JsAnswers, Contracts, JsLoggedIn, JsCreated, ReadOne, RequestTyped
     DEF Stated, At, JsIds, Wide, Listed, NoRole, NoKey, NoSession, Row, Positive, Fits,
         Posts, Gets, JsDeparts, Parsed, JsRejects, JsRefused, Faulty, Unstorable,
         Bodies, IdKinds

LEMMA PyDepartsAsSaid ==
  ASSUME NEW r \in Requests, Stated(r)
  PROVE  PyAnswer(r) # Contract(r) <=> PyDeparts(r)
  BY PyAnswers, Contracts, PyLoggedIn, PyCreated, ReadOne, RequestTyped
     DEF Stated, At, PyIds, Wide, Listed, NoRole, NoKey, NoSession, Row, Positive, Fits,
         Posts, Gets, PyDeparts, PyRejects, PyRefused, Faulty, Unstorable,
         Bodies, IdKinds

LEMMA NoneDiverges == Diverging = {}
  BY CDepartsAsSaid, CppDepartsAsSaid, JsDepartsAsSaid, PyDepartsAsSaid
     DEF Diverging, Langs, Answer, Departs

LEMMA CHolds ==
  ASSUME NEW r \in Requests
  PROVE  ~Breaks("c", r)
  BY CAnswers, CLoggedIn, CCreated, ReadOne, RequestTyped
     DEF Breaks, Answer, Refused, At, CIds, Wide, Listed, NoRole, Row, NoKey, NoSession,
         CRefused

LEMMA CppHolds ==
  ASSUME NEW r \in Requests
  PROVE  ~Breaks("cpp", r)
  BY CppAnswers, CppLoggedIn, CppCreated, ReadOne, RequestTyped
     DEF Breaks, Answer, Refused, At, CppIds, Wide, Listed, NoRole, Row, NoKey, NoSession,
         CppRefused

LEMMA JsHolds ==
  ASSUME NEW r \in Requests
  PROVE  ~Breaks("js", r)
  BY JsAnswers, JsLoggedIn, JsCreated, ReadOne, RequestTyped
     DEF Breaks, Answer, Refused, At, JsIds, Wide, Listed, NoRole, Row, NoKey, NoSession,
         JsRefused

LEMMA PyHolds ==
  ASSUME NEW r \in Requests
  PROVE  ~Breaks("python", r)
  BY PyAnswers, PyLoggedIn, PyCreated, ReadOne, RequestTyped
     DEF Breaks, Answer, Refused, At, PyIds, Wide, Listed, NoRole, Row, NoKey, NoSession,
         PyRefused

LEMMA NoneBreaks == Breaking = {}
  BY CHolds, CppHolds, JsHolds, PyHolds DEF Breaking, Langs

\* The routes behind the session's gate.
Gated == {"me", "data", "item"}

\* Who is let in by the session's gate was verified: in each service the key is asked
\* for before anything that could let a request in.
LEMMA AdmittedIsVerified ==
  ASSUME NEW r \in Requests, service \in Langs, Routed(r), Admitted(r)
  PROVE  Verifies(r)
  <1>1. r.route \in Gated /\ Answer(service, r) # 401
    BY DEF Admitted, Gated
  <1>2. CASE service = "c"
    BY <1>1, <1>2, CAnswers DEF Answer, Verifies, Gated, At
  <1>3. CASE service = "cpp"
    BY <1>1, <1>3, CppAnswers DEF Answer, Verifies, Gated, At
  <1>4. CASE service = "js"
    BY <1>1, <1>4, JsAnswers DEF Answer, Verifies, Gated, At
  <1>5. CASE service = "python"
    BY <1>5 DEF Verifies
  <1> QED
    BY <1>2, <1>3, <1>4, <1>5 DEF Langs

(***************************************************************************)
(* Loops.  No induction theorem of the library can be used (they take an   *)
(* operator), so an induction is the least counterexample of a set, and    *)
(* what a loop has come to is a function of the number of its steps.       *)
(***************************************************************************)

\* Induction: a set of numbers that holds 0, and with each the next up to n, has all.
LEMMA Reaches ==
  ASSUME NEW n \in Nat, NEW S, 0 \in S, \A i \in 0 .. (n - 1) : i \in S => i + 1 \in S
  PROVE  0 .. n \subseteq S
  <1> DEFINE T == (0 .. n) \ S
  <1> SUFFICES ASSUME T # {} PROVE FALSE
    BY Zenon
  <1>0. T \subseteq Nat
    OBVIOUS
  <1>1. PICK m \in T : \A k \in T : m <= k
    <2> HIDE DEF T
    <2> QED
      BY <1>0, LeastOf
  <1>2. m # 0 /\ m - 1 \in 0 .. (n - 1) /\ ~(m <= m - 1)
    BY <1>1
  <1>3. m - 1 \in S
    BY <1>1, <1>2
  <1>4. (m - 1) + 1 = m
    BY <1>2
  <1> QED
    BY <1>1, <1>2, <1>3, <1>4

\* f holds what a loop has come to after each number of steps.
Counts(f, n, start, step) ==
  f = [i \in 0 .. n |-> IF i = 0 THEN start ELSE step[<<i, f[i - 1]>>]]

LEMMA LoopExists ==
  ASSUME NEW n \in Nat, NEW start, NEW step
  PROVE  \E f : Counts(f, n, start, step)
  <1> DEFINE Comes(k, f) ==
               f = [i \in 0 .. k |-> IF i = 0 THEN start ELSE step[<<i, f[i - 1]>>]]
             S == {k \in 0 .. n : \E f : Comes(k, f)}
  <1>1. 0 \in S
    <2> DEFINE f == [i \in 0 .. 0 |-> start]
    <2>1. Comes(0, f)
      OBVIOUS
    <2>2. 0 \in 0 .. n
      OBVIOUS
    <2> QED
      BY <2>1, <2>2, Zenon
  <1>2. ASSUME NEW k \in 0 .. (n - 1), k \in S PROVE k + 1 \in S
    <2>1. PICK f : Comes(k, f)
      BY <1>2
    <2> DEFINE g == [i \in 0 .. (k + 1) |->
                       IF i = k + 1 THEN step[<<i, f[k]>>] ELSE f[i]]
    <2>2. ASSUME NEW i \in 0 .. (k + 1)
          PROVE  g[i] = IF i = 0 THEN start ELSE step[<<i, g[i - 1]>>]
      <3>1. CASE i = k + 1
        BY <3>1
      <3>2. CASE i # k + 1
        <4>1. i \in 0 .. k /\ (i # 0 => i - 1 \in 0 .. k /\ i - 1 # k + 1)
          BY <3>2
        <4>2. f[i] = IF i = 0 THEN start ELSE step[<<i, f[i - 1]>>]
          BY <2>1, <4>1, Zenon
        <4>3. g[i] = f[i] /\ (i # 0 => g[i - 1] = f[i - 1])
          BY <3>2, <4>1
        <4> QED
          BY <4>2, <4>3, Zenon
      <3> QED
        BY <3>1, <3>2
    <2>3. Comes(k + 1, g)
      BY <2>2
    <2>4. k + 1 \in 0 .. n
      OBVIOUS
    <2> QED
      BY <2>3, <2>4, Zenon
  <1> HIDE DEF S
  <1>3. n \in S
    BY <1>1, <1>2, Reaches
  <1> QED
    BY <1>3, Zenon DEF S, Counts

(***************************************************************************)
(* base64url.                                                              *)
(***************************************************************************)
Scan == [out : Seq(0 .. 255), buf : 0 .. (2^24 - 1), bits : {0, 2, 4, 6}]

LEMMA ScanFields ==
  ASSUME NEW d \in Scan
  PROVE  d.buf \in 0 .. (2^24 - 1) /\ d.bits \in {0, 2, 4, 6} /\ d.out \in Seq(0 .. 255)
  BY DEF Scan

LEMMA ScanRecord ==
  ASSUME NEW out \in Seq(0 .. 255), NEW buf \in 0 .. (2^24 - 1), NEW bits \in {0, 2, 4, 6}
  PROVE  [out |-> out, buf |-> buf, bits |-> bits] \in Scan
  BY DEF Scan

\* How far a byte is from the end of buf when it is complete.
Unread(bits) == CASE bits = 2 -> 1 [] bits = 4 -> 4 [] bits = 6 -> 16

\* A character is taken in; from the second of each four on it completes a byte.
LEMMA ShiftedIs ==
  ASSUME NEW d \in Scan, NEW v \in 0 .. 63
  PROVE  LET b == (d.buf * 64 + v) % 2^24
         IN /\ d.bits = 0 => Shifted(d, v) = [out |-> d.out, buf |-> b, bits |-> 6]
            /\ d.bits # 0 => Shifted(d, v) = [out |-> Append(d.out, (b \div Unread(d.bits)) % 256),
                                              buf |-> b, bits |-> d.bits - 2]
            /\ Shifted(d, v) \in Scan
  <1> DEFINE b == (d.buf * 64 + v) % 2^24
             e == Shifted(d, v)
             byte == (b \div Unread(d.bits)) % 256
  <1>1. b \in 0 .. (2^24 - 1)
    BY ScanFields
  <1>2. CASE d.bits = 0
    <2>1. e = [out |-> d.out, buf |-> b, bits |-> 6]
      <3>1. d.bits + 6 < 8 /\ d.bits + 6 = 6
        BY <1>2
      <3> QED
        BY <3>1, Zenon DEF Shifted
    <2>2. d.out \in Seq(0 .. 255) /\ 6 \in {0, 2, 4, 6}
      BY ScanFields
    <2> HIDE DEF b
    <2>3. e \in Scan
      BY <1>1, <2>1, <2>2, ScanRecord, Zenon
    <2> QED
      BY <1>2, <2>1, <2>3, Zenon DEF b
  <1>3. CASE d.bits # 0
    <2>1. ~(d.bits + 6 < 8) /\ (d.bits + 6) - 8 = d.bits - 2 /\ d.bits - 2 \in {0, 2, 4, 6}
      BY <1>3, ScanFields
    <2>2. 2^((d.bits + 6) - 8) = Unread(d.bits) /\ Unread(d.bits) \in {1, 4, 16}
      <3>1. CASE d.bits = 2
        <4>1. (d.bits + 6) - 8 = 0 /\ 2^0 = 1
          BY <3>1
        <4> QED
          BY <3>1, <4>1 DEF Unread
      <3>2. CASE d.bits = 4
        <4>1. (d.bits + 6) - 8 = 2 /\ 2^2 = 4
          BY <3>2
        <4> QED
          BY <3>2, <4>1 DEF Unread
      <3>3. CASE d.bits = 6
        <4>1. (d.bits + 6) - 8 = 4 /\ 2^4 = 16
          BY <3>3
        <4> QED
          BY <3>3, <4>1 DEF Unread
      <3> QED
        BY <1>3, <3>1, <3>2, <3>3, ScanFields
    <2>3. e = [out |-> Append(d.out, byte), buf |-> b, bits |-> d.bits - 2]
      BY <2>1, <2>2, Zenon DEF Shifted
    <2>4. byte \in 0 .. 255
      <3> HIDE DEF b
      <3>1. b \div Unread(d.bits) \in Nat
        BY <1>1, <2>2
      <3> QED
        BY <3>1
    <2>5. Append(d.out, byte) \in Seq(0 .. 255)
      <3> HIDE DEF byte
      <3> QED
        BY <2>4, ScanFields, AppendProperties
    <2>6. e \in Scan
      <3> HIDE DEF b, byte
      <3> QED
        BY <1>1, <2>1, <2>3, <2>5, ScanRecord, Zenon
    <2> QED
      BY <1>3, <2>3, <2>6, Zenon
  <1> QED
    BY <1>2, <1>3, Zenon

LEMMA LoopIs ==
  ASSUME NEW chars \in Seq(0 .. 63)
  PROVE  /\ Loop(chars)[0] = [out |-> <<>>, buf |-> 0, bits |-> 0]
         /\ \A i \in 1 .. Len(chars) :
              Loop(chars)[i] = Shifted(Loop(chars)[i - 1], chars[i])
         /\ \A i \in 0 .. Len(chars) : Loop(chars)[i] \in Scan
  <1> DEFINE n == Len(chars)
             start == [out |-> <<>>, buf |-> 0, bits |-> 0]
             step == [p \in (1 .. n) \X Scan |-> Shifted(p[2], chars[p[1]])]
             Good(g) == g = [i \in 0 .. n |-> IF i = 0 THEN start
                                              ELSE Shifted(g[i - 1], chars[i])]
  <1>1. n \in Nat /\ \A i \in 1 .. n : chars[i] \in 0 .. 63
    BY LenProperties, ElementOfSeq
  <1>2. start \in Scan
    <2>1. <<>> \in Seq(0 .. 255) /\ 0 \in 0 .. (2^24 - 1)
      BY EmptySeq
    <2> QED
      BY <2>1, ScanRecord
  <1>3. ASSUME NEW i \in 1 .. n, NEW d \in Scan
        PROVE  step[<<i, d>>] = Shifted(d, chars[i]) /\ Shifted(d, chars[i]) \in Scan
    <2>1. chars[i] \in 0 .. 63
      BY <1>1
    <2>2. step[<<i, d>>] = Shifted(d, chars[i])
      OBVIOUS
    <2> QED
      BY <2>1, <2>2, ShiftedIs, Zenon
  <1>4. PICK f : Counts(f, n, start, step)
    <2> HIDE DEF n, step, start
    <2> QED
      BY <1>1, LoopExists, Zenon
  <1> HIDE DEF n, step, start
  <1>5. /\ 0 \in 0 .. n
        /\ \A i \in 1 .. n : i \in 0 .. n /\ i # 0 /\ i - 1 \in 0 .. n
        /\ \A i \in 0 .. n : i # 0 => i \in 1 .. n
        /\ \A i \in 0 .. (n - 1) : i + 1 \in 1 .. n /\ (i + 1) - 1 = i
    BY <1>1
  <1>6. f[0] = start /\ \A i \in 1 .. n : f[i] = step[<<i, f[i - 1]>>]
    BY <1>4, <1>5, Zenon DEF Counts
  <1>7. \A i \in 0 .. n : f[i] \in Scan
    <2> DEFINE S == {i \in 0 .. n : f[i] \in Scan}
    <2>1. 0 \in S
      BY <1>2, <1>5, <1>6
    <2>2. ASSUME NEW i \in 0 .. (n - 1), i \in S PROVE i + 1 \in S
      <3>1. f[i + 1] = step[<<i + 1, f[i]>>] /\ i + 1 \in 0 .. n
        BY <1>5, <1>6
      <3> QED
        BY <1>3, <1>5, <2>2, <3>1
    <2> HIDE DEF S
    <2>3. 0 .. n \subseteq S
      BY <1>1, <2>1, <2>2, Reaches
    <2> QED
      BY <2>3 DEF S
  <1>8. Good(f)
    <2>1. \A i \in 1 .. n : f[i] = Shifted(f[i - 1], chars[i])
      BY <1>3, <1>5, <1>6, <1>7
    <2>2. \A i \in 0 .. n : f[i] = IF i = 0 THEN start ELSE Shifted(f[i - 1], chars[i])
      BY <1>5, <1>6, <2>1, Zenon
    <2>3. f = [i \in 0 .. n |-> f[i]]
      BY <1>4 DEF Counts
    <2> QED
      BY <2>2, <2>3
  <1> DEFINE g == Loop(chars)
  <1>9. Good(g)
    <2>1. g = CHOOSE h : Good(h)
      BY DEF Loop, n, start
    <2> HIDE DEF Good, g
    <2> QED
      BY <1>8, <2>1, Zenon
  <1> HIDE DEF g
  <1>10. g[0] = start /\ \A i \in 1 .. n : g[i] = Shifted(g[i - 1], chars[i])
    BY <1>5, <1>9, Zenon
  <1>11. \A i \in 0 .. n : g[i] \in Scan
    <2> DEFINE S == {i \in 0 .. n : g[i] \in Scan}
    <2>1. 0 \in S
      BY <1>2, <1>5, <1>10
    <2>2. ASSUME NEW i \in 0 .. (n - 1), i \in S PROVE i + 1 \in S
      <3>1. g[i + 1] = Shifted(g[i], chars[i + 1]) /\ i + 1 \in 0 .. n
        BY <1>5, <1>10
      <3> QED
        BY <1>3, <1>5, <2>2, <3>1
    <2> HIDE DEF S
    <2>3. 0 .. n \subseteq S
      BY <1>1, <2>1, <2>2, Reaches
    <2> QED
      BY <2>3 DEF S
  <1> QED
    BY <1>10, <1>11 DEF g, n, start

Bytes == 0 .. 255

\* Character number r, from 0, of a group of three bytes.
Sextet(x, y, z, r) ==
  CASE r = 0 -> x \div 4
    [] r = 1 -> (x % 4) * 16 + y \div 16
    [] r = 2 -> (y % 16) * 4 + z \div 64
    [] r = 3 -> z % 64

Bits(x, y, z) == x * 2^16 + y * 2^8 + z
Cut(v, r) == (v \div 2^(18 - 6 * r)) % 64

LEMMA SextetIs ==
  ASSUME NEW x \in Bytes, NEW y \in Bytes, NEW z \in Bytes, NEW r \in 0 .. 3
  PROVE  /\ Cut(Bits(x, y, z), r) = Sextet(x, y, z, r)
         /\ Sextet(x, y, z, r) \in 0 .. 63
  <1> USE DEF Bytes
  <1>0. PICK v : v = x * 2^16 + y * 2^8 + z
    OBVIOUS
  <1>a. Cut(Bits(x, y, z), r) = (v \div 2^(18 - 6 * r)) % 64
    BY <1>0, Zenon DEF Cut, Bits
  <1> HIDE DEF Cut, Bits
  <1>1. CASE r = 0
    <2>1. 2^(18 - 6 * r) = 2^18
      BY <1>1
    <2>2. (v \div 2^18) % 64 = x \div 4 /\ x \div 4 \in 0 .. 63
      BY <1>0
    <2> QED
      BY <1>a, <1>1, <2>1, <2>2 DEF Sextet
  <1>2. CASE r = 1
    <2>1. 2^(18 - 6 * r) = 2^12
      BY <1>2
    <2>2. v \div 2^12 = x * 16 + y \div 16
      BY <1>0
    <2>3. (v \div 2^12) % 64 = (x % 4) * 16 + y \div 16 /\ (x % 4) * 16 + y \div 16 \in 0 .. 63
      BY <2>2
    <2> QED
      BY <1>a, <1>2, <2>1, <2>3 DEF Sextet
  <1>3. CASE r = 2
    <2>1. 2^(18 - 6 * r) = 2^6
      BY <1>3
    <2>2. (v \div 2^6) % 64 = (y % 16) * 4 + z \div 64 /\ (y % 16) * 4 + z \div 64 \in 0 .. 63
      BY <1>0
    <2> QED
      BY <1>a, <1>3, <2>1, <2>2 DEF Sextet
  <1>4. CASE r = 3
    <2>1. 2^(18 - 6 * r) = 2^0
      BY <1>4
    <2>2. (v \div 2^0) % 64 = z % 64 /\ z % 64 \in 0 .. 63
      BY <1>0
    <2> QED
      BY <1>a, <1>4, <2>1, <2>2 DEF Sextet
  <1> QED
    BY <1>1, <1>2, <1>3, <1>4

LEMMA ByteTyped ==
  ASSUME NEW bytes \in Seq(Bytes), NEW i
  PROVE  Byte(bytes, i) \in Bytes
  <1>1. i \in DOMAIN bytes => bytes[i] \in Bytes
    BY LenProperties, ElementOfSeq
  <1>2. 0 \in Bytes
    BY DEF Bytes
  <1> QED
    BY <1>1, <1>2, Zenon DEF Byte

\* Character number r after q groups.
Char(bytes, q, r) ==
  Sextet(Byte(bytes, 3 * q + 1), Byte(bytes, 3 * q + 2), Byte(bytes, 3 * q + 3), r)

LEMMA EncodeIs ==
  ASSUME NEW bytes \in Seq(Bytes)
  PROVE  /\ Encode(bytes) \in Seq(0 .. 63)
         /\ Len(Encode(bytes)) = (4 * Len(bytes) + 2) \div 3
         /\ \A q \in Nat, r \in 0 .. 3 :
              4 * q + r < Len(Encode(bytes)) =>
                Encode(bytes)[4 * q + r + 1] = Char(bytes, q, r)
         /\ \A q \in Nat, r \in 0 .. 3 : Char(bytes, q, r) \in 0 .. 63
  <1> DEFINE n == (4 * Len(bytes) + 2) \div 3
             c == Encode(bytes)
             Word(g) == Bits(Byte(bytes, g + 1), Byte(bytes, g + 2), Byte(bytes, g + 3))
             CharAt(i) == Cut(Word(3 * ((i - 1) \div 4)), (i - 1) % 4)
  <1>1. n \in Nat
    BY LenProperties
  <1>2. c = [i \in 1 .. n |-> CharAt(i)]
    BY DEF Encode, Cut, Bits
  <1>3. ASSUME NEW q \in Nat, NEW r \in 0 .. 3
        PROVE  CharAt(4 * q + r + 1) = Char(bytes, q, r) /\ Char(bytes, q, r) \in 0 .. 63
    <2>1. ((4 * q + r + 1) - 1) \div 4 = q /\ ((4 * q + r + 1) - 1) % 4 = r
      OBVIOUS
    <2>2. CharAt(4 * q + r + 1) = Cut(Word(3 * q), r)
      <3> HIDE DEF Word
      <3> QED
        BY <2>1, Zenon
    <2>3. /\ Byte(bytes, 3 * q + 1) \in Bytes
          /\ Byte(bytes, 3 * q + 2) \in Bytes
          /\ Byte(bytes, 3 * q + 3) \in Bytes
      BY ByteTyped
    <2>4. Cut(Word(3 * q), r) = Char(bytes, q, r) /\ Char(bytes, q, r) \in 0 .. 63
      BY <2>3, SextetIs, Zenon DEF Char
    <2> HIDE DEF Word, CharAt
    <2> QED
      BY <2>2, <2>4, Zenon
  <1> HIDE DEF c, n, CharAt
  <1>4. \A i \in 1 .. n : c[i] \in 0 .. 63
    <2> SUFFICES ASSUME NEW i \in 1 .. n PROVE c[i] \in 0 .. 63
      OBVIOUS
    <2> DEFINE q == (i - 1) \div 4
               r == (i - 1) % 4
    <2>1. q \in Nat /\ r \in 0 .. 3 /\ 4 * q + r + 1 = i
      BY <1>1
    <2> HIDE DEF q, r
    <2>2. c[i] = CharAt(i)
      BY <1>2
    <2> QED
      BY <1>3, <2>1, <2>2, Zenon
  <1>5. c \in Seq(0 .. 63) /\ Len(c) = n
    <2>1. c \in [1 .. n -> 0 .. 63]
      BY <1>2, <1>4
    <2> QED
      BY <1>1, <2>1
  <1>6. ASSUME NEW q \in Nat, NEW r \in 0 .. 3, 4 * q + r < Len(c)
        PROVE  c[4 * q + r + 1] = Char(bytes, q, r)
    <2>1. 4 * q + r + 1 \in 1 .. n
      BY <1>1, <1>5, <1>6
    <2>2. c[4 * q + r + 1] = CharAt(4 * q + r + 1)
      BY <1>2, <2>1
    <2> QED
      BY <1>3, <2>2, Zenon
  <1> QED
    BY <1>3, <1>5, <1>6 DEF c, n

\* What the loop has after r characters of the group after q groups: the bytes that
\* are complete, and at the end of buf the beginning of the next.
Reads(d, bytes, q, r) ==
  /\ d.bits = (CASE r = 0 -> 0 [] r = 1 -> 6 [] r = 2 -> 4 [] r = 3 -> 2)
  /\ Len(d.out) = 3 * q + (IF r = 0 THEN 0 ELSE r - 1)
  /\ \A k \in 1 .. Len(d.out) : d.out[k] = Byte(bytes, k)
  /\ r = 1 => d.buf % 64 = Byte(bytes, 3 * q + 1) \div 4
  /\ r = 2 => d.buf % 16 = Byte(bytes, 3 * q + 2) \div 16
  /\ r = 3 => d.buf % 4 = Byte(bytes, 3 * q + 3) \div 64

LEMMA FirstByte ==
  ASSUME NEW buf \in Nat, NEW x \in 0 .. 255, NEW n, n = (buf * 64 + x \div 4) % 2^24
  PROVE  n % 64 = x \div 4
  OBVIOUS

\* A byte that is complete is appended in its place.
LEMMA Appends ==
  ASSUME NEW out \in Seq(0 .. 255), NEW bytes, NEW m \in Nat, Len(out) = m,
         \A k \in 1 .. Len(out) : out[k] = Byte(bytes, k),
         NEW x \in 0 .. 255, x = Byte(bytes, m + 1)
  PROVE  /\ Len(Append(out, x)) = m + 1
         /\ \A k \in 1 .. Len(Append(out, x)) : Append(out, x)[k] = Byte(bytes, k)
  <1>1. /\ Len(Append(out, x)) = m + 1
        /\ \A k \in 1 .. m : Append(out, x)[k] = out[k]
        /\ Append(out, x)[m + 1] = x
    BY AppendProperties
  <1>2. \A k \in 1 .. m + 1 : k \in 1 .. m \/ k = m + 1
    OBVIOUS
  <1> QED
    BY <1>1, <1>2

LEMMA ReadsStep ==
  ASSUME NEW bytes \in Seq(Bytes), NEW q \in Nat, NEW r \in 0 .. 3, NEW d \in Scan,
         Reads(d, bytes, q, r)
  PROVE  LET e == Shifted(d, Char(bytes, q, r))
         IN IF r = 3 THEN Reads(e, bytes, q + 1, 0) ELSE Reads(e, bytes, q, r + 1)
  <1> DEFINE v == Char(bytes, q, r)
             e == Shifted(d, v)
             x == Byte(bytes, 3 * q + 1)
             y == Byte(bytes, 3 * q + 2)
             z == Byte(bytes, 3 * q + 3)
  <1>1. x \in 0 .. 255 /\ y \in 0 .. 255 /\ z \in 0 .. 255
    BY ByteTyped DEF Bytes
  <1>2. v = Sextet(x, y, z, r) /\ v \in 0 .. 63
    BY EncodeIs DEF Char
  <1>3. PICK b : b = (d.buf * 64 + v) % 2^24
    OBVIOUS
  <1>4. /\ d.bits = 0 => e = [out |-> d.out, buf |-> b, bits |-> 6]
        /\ d.bits # 0 => e = [out |-> Append(d.out, (b \div Unread(d.bits)) % 256),
                              buf |-> b, bits |-> d.bits - 2]
    <2> HIDE DEF v
    <2> QED
      BY <1>2, <1>3, ShiftedIs, ZenonT(60)
  <1>5. d.buf \in Nat /\ d.out \in Seq(0 .. 255)
    BY ScanFields
  <1>6. CASE r = 0
    <2>1. d.bits = 0 /\ Len(d.out) = 3 * q /\ v = x \div 4
      BY <1>2, <1>6 DEF Reads, Sextet
    <2>2. e.out = d.out /\ e.buf = b /\ e.bits = 6
      BY <1>4, <2>1
    <2>3. b % 64 = x \div 4
      <3> HIDE DEF x, v
      <3>1. b = (d.buf * 64 + x \div 4) % 2^24
        BY <1>3, <2>1, Zenon
      <3> QED
        BY <1>1, <1>5, <3>1, FirstByte, Zenon
    <2> HIDE DEF e
    <2>4. Reads(e, bytes, q, 1)
      BY <1>6, <2>1, <2>2, <2>3 DEF Reads
    <2> QED
      BY <1>6, <2>4 DEF e
  <1>7. CASE r = 1
    <2>1. /\ d.bits = 6 /\ Len(d.out) = 3 * q /\ v = (x % 4) * 16 + y \div 16
          /\ d.buf % 64 = x \div 4
      BY <1>2, <1>7 DEF Reads, Sextet
    <2>2. e.out = Append(d.out, (b \div 16) % 256) /\ e.buf = b /\ e.bits = 4
      BY <1>4, <2>1 DEF Unread
    <2>3. (b \div 16) % 256 = x /\ b % 16 = y \div 16
      <3> HIDE DEF x, y, v
      <3>1. b = (d.buf * 64 + ((x % 4) * 16 + y \div 16)) % 2^24
        BY <1>3, <2>1, Zenon
      <3>2. PICK m \in Nat, u \in 0 .. 255, w \in 0 .. 255 : m = d.buf /\ u = x /\ w = y
        BY <1>1, <1>5, Zenon
      <3>4. m % 64 = u \div 4 /\ b = (m * 64 + ((u % 4) * 16 + w \div 16)) % 2^24
        BY <2>1, <3>1, <3>2, Zenon
      <3>5. (b \div 16) % 256 = u /\ b % 16 = w \div 16
        BY ONLY <3>4
      <3> QED
        BY <3>2, <3>5, Zenon
    <2>4. /\ Len(Append(d.out, x)) = 3 * q + 1
          /\ \A k \in 1 .. Len(Append(d.out, x)) : Append(d.out, x)[k] = Byte(bytes, k)
      <3>1. \A k \in 1 .. Len(d.out) : d.out[k] = Byte(bytes, k)
        BY DEF Reads
      <3>2. x = Byte(bytes, 3 * q + 1) /\ 3 * q \in Nat
        OBVIOUS
      <3> HIDE DEF x
      <3> QED
        BY <1>1, <1>5, <2>1, <3>1, <3>2, Appends, ZenonT(60)
    <2> HIDE DEF e
    <2>5. Reads(e, bytes, q, 2)
      BY <1>7, <2>1, <2>2, <2>3, <2>4 DEF Reads
    <2> QED
      BY <1>7, <2>5 DEF e
  <1>8. CASE r = 2
    <2>1. /\ d.bits = 4 /\ Len(d.out) = 3 * q + 1 /\ v = (y % 16) * 4 + z \div 64
          /\ d.buf % 16 = y \div 16
      BY <1>2, <1>8 DEF Reads, Sextet
    <2>2. e.out = Append(d.out, (b \div 4) % 256) /\ e.buf = b /\ e.bits = 2
      BY <1>4, <2>1 DEF Unread
    <2>3. (b \div 4) % 256 = y /\ b % 4 = z \div 64
      <3> HIDE DEF y, z, v
      <3>1. b = (d.buf * 64 + ((y % 16) * 4 + z \div 64)) % 2^24
        BY <1>3, <2>1, Zenon
      <3>2. PICK m \in Nat, u \in 0 .. 255, w \in 0 .. 255 : m = d.buf /\ u = y /\ w = z
        BY <1>1, <1>5, Zenon
      <3>4. m % 16 = u \div 16 /\ b = (m * 64 + ((u % 16) * 4 + w \div 64)) % 2^24
        BY <2>1, <3>1, <3>2, Zenon
      <3>5. (b \div 4) % 256 = u /\ b % 4 = w \div 64
        BY ONLY <3>4
      <3> QED
        BY <3>2, <3>5, Zenon
    <2>4. /\ Len(Append(d.out, y)) = 3 * q + 2
          /\ \A k \in 1 .. Len(Append(d.out, y)) : Append(d.out, y)[k] = Byte(bytes, k)
      <3>1. \A k \in 1 .. Len(d.out) : d.out[k] = Byte(bytes, k)
        BY DEF Reads
      <3>2. 3 * q + 1 \in Nat /\ 3 * q + 1 + 1 = 3 * q + 2
        OBVIOUS
      <3>3. y = Byte(bytes, 3 * q + 1 + 1)
        BY <3>2, Zenon
      <3> HIDE DEF y
      <3>4. Len(Append(d.out, y)) = 3 * q + 1 + 1
            /\ \A k \in 1 .. Len(Append(d.out, y)) : Append(d.out, y)[k] = Byte(bytes, k)
        BY <1>1, <1>5, <2>1, <3>1, <3>2, <3>3, Appends, ZenonT(60)
      <3> QED
        BY <3>2, <3>4, Zenon
    <2> HIDE DEF e
    <2>5. Reads(e, bytes, q, 3)
      BY <1>8, <2>1, <2>2, <2>3, <2>4 DEF Reads
    <2> QED
      BY <1>8, <2>5 DEF e
  <1>9. CASE r = 3
    <2>1. /\ d.bits = 2 /\ Len(d.out) = 3 * q + 2 /\ v = z % 64
          /\ d.buf % 4 = z \div 64
      BY <1>2, <1>9 DEF Reads, Sextet
    <2>2. e.out = Append(d.out, (b \div 1) % 256) /\ e.buf = b /\ e.bits = 0
      BY <1>4, <2>1 DEF Unread
    <2>3. (b \div 1) % 256 = z
      <3> HIDE DEF z, v
      <3>1. b = (d.buf * 64 + (z % 64)) % 2^24
        BY <1>3, <2>1, Zenon
      <3>2. PICK m \in Nat, u \in 0 .. 255, w \in 0 .. 255 : m = d.buf /\ u = z /\ w = z
        BY <1>1, <1>5, Zenon
      <3>4. m % 4 = u \div 64 /\ b = (m * 64 + (u % 64)) % 2^24
        BY <2>1, <3>1, <3>2, Zenon
      <3>5. (b \div 1) % 256 = u
        BY ONLY <3>4
      <3> QED
        BY <3>2, <3>5, Zenon
    <2>4. /\ Len(Append(d.out, z)) = 3 * (q + 1)
          /\ \A k \in 1 .. Len(Append(d.out, z)) : Append(d.out, z)[k] = Byte(bytes, k)
      <3>1. \A k \in 1 .. Len(d.out) : d.out[k] = Byte(bytes, k)
        BY DEF Reads
      <3>2. 3 * q + 2 \in Nat /\ 3 * q + 2 + 1 = 3 * q + 3 /\ 3 * q + 3 = 3 * (q + 1)
        OBVIOUS
      <3>3. z = Byte(bytes, 3 * q + 2 + 1)
        BY <3>2, Zenon
      <3> HIDE DEF z
      <3>4. Len(Append(d.out, z)) = 3 * q + 2 + 1
            /\ \A k \in 1 .. Len(Append(d.out, z)) : Append(d.out, z)[k] = Byte(bytes, k)
        BY <1>1, <1>5, <2>1, <3>1, <3>2, <3>3, Appends, ZenonT(60)
      <3> QED
        BY <3>2, <3>4, Zenon
    <2> HIDE DEF e
    <2>5. Reads(e, bytes, q + 1, 0)
      BY <1>9, <2>1, <2>2, <2>3, <2>4 DEF Reads
    <2> QED
      BY <1>9, <2>5 DEF e
  <1>10. r = 0 \/ r = 1 \/ r = 2 \/ r = 3
    OBVIOUS
  <1> QED
    BY <1>6, <1>7, <1>8, <1>9, <1>10

LEMMA LoopReads ==
  ASSUME NEW bytes \in Seq(Bytes), NEW c, c = Encode(bytes)
  PROVE  \A i \in 0 .. Len(c) : Reads(Loop(c)[i], bytes, i \div 4, i % 4)
  <1>1. c \in Seq(0 .. 63) /\ Len(c) \in Nat
    BY EncodeIs, LenProperties
  <1> DEFINE S == {i \in 0 .. Len(c) : Reads(Loop(c)[i], bytes, i \div 4, i % 4)}
  <1>2. 0 \in S
    <2>1. 0 \div 4 = 0 /\ 0 % 4 = 0 /\ 0 \in 0 .. Len(c)
      BY <1>1
    <2>2. Loop(c)[0] = [out |-> <<>>, buf |-> 0, bits |-> 0]
      BY <1>1, LoopIs
    <2>3. ASSUME NEW d, d = [out |-> <<>>, buf |-> 0, bits |-> 0]
          PROVE  Reads(d, bytes, 0, 0)
      BY <2>3 DEF Reads
    <2> QED
      BY <2>1, <2>2, <2>3, Zenon
  <1>3. ASSUME NEW i \in 0 .. (Len(c) - 1), i \in S PROVE i + 1 \in S
    <2> DEFINE q == i \div 4
               r == i % 4
    <2>1. /\ q \in Nat /\ r \in 0 .. 3 /\ i = 4 * q + r /\ i < Len(c)
          /\ i + 1 \in 1 .. Len(c) /\ i + 1 \in 0 .. Len(c) /\ (i + 1) - 1 = i
          /\ r = 3 => (i + 1) \div 4 = q + 1 /\ (i + 1) % 4 = 0
          /\ r # 3 => (i + 1) \div 4 = q /\ (i + 1) % 4 = r + 1
      BY <1>1, SMTT(60)
    <2>2. Reads(Loop(c)[i], bytes, q, r) /\ Loop(c)[i] \in Scan
      BY <1>1, <1>3, LoopIs, Zenon
    <2> HIDE DEF q, r, S
    <2>3. c[i + 1] = Char(bytes, q, r)
      BY <2>1, EncodeIs, Zenon
    <2>4. Loop(c)[i + 1] = Shifted(Loop(c)[i], c[i + 1])
      BY <1>1, <2>1, LoopIs, Zenon
    <2>5. Loop(c)[i + 1] = Shifted(Loop(c)[i], Char(bytes, q, r))
      BY <2>3, <2>4, Zenon
    <2>6. IF r = 3 THEN Reads(Loop(c)[i + 1], bytes, q + 1, 0)
                   ELSE Reads(Loop(c)[i + 1], bytes, q, r + 1)
      BY <2>1, <2>2, <2>5, ReadsStep, Zenon
    <2>7. Reads(Loop(c)[i + 1], bytes, (i + 1) \div 4, (i + 1) % 4)
      BY <2>1, <2>6, Zenon
    <2> QED
      BY <2>1, <2>7, Zenon DEF S
  <1> HIDE DEF S
  <1>4. 0 .. Len(c) \subseteq S
    BY <1>1, <1>2, <1>3, Reaches
  <1> QED
    BY <1>4, Zenon DEF S

\* What is encoded is decoded, whatever its length and wherever buf overflows.
THEOREM DecodeEncode == \A bytes \in Seq(Bytes) : Decode(Encode(bytes)) = bytes
  <1> SUFFICES ASSUME NEW bytes \in Seq(Bytes)
               PROVE  Decode(Encode(bytes)) = bytes
    OBVIOUS
  <1>1. PICK c : c = Encode(bytes)
    OBVIOUS
  <1>2. /\ c \in Seq(0 .. 63) /\ Len(c) \in Nat
        /\ Len(c) = (4 * Len(bytes) + 2) \div 3 /\ Len(bytes) \in Nat
    BY <1>1, EncodeIs, LenProperties
  <1>3. ~ \E i \in DOMAIN c : c[i] < 0
    <2>1. \A i \in DOMAIN c : c[i] \in 0 .. 63
      BY <1>2, LenProperties, ElementOfSeq
    <2>2. \A v \in 0 .. 63 : ~(v < 0)
      OBVIOUS
    <2> QED
      BY <2>1, <2>2, Zenon
  <1>4. PICK d : d = Loop(c)[Len(c)]
    OBVIOUS
  <1> DEFINE q == Len(c) \div 4
             r == Len(c) % 4
  <1>5. d \in Scan /\ Reads(d, bytes, q, r)
    <2>1. Len(c) \in 0 .. Len(c)
      BY <1>2
    <2> QED
      BY <1>1, <1>2, <1>4, <2>1, LoopIs, LoopReads, Zenon
  <1>6. 3 * q + (IF r = 0 THEN 0 ELSE r - 1) = Len(bytes)
    <2>1. PICK n \in Nat : n = Len(bytes)
      BY <1>2
    <2>2. Len(c) = (4 * n + 2) \div 3
      BY <1>2, <2>1, Zenon
    <2>3. /\ q = ((4 * n + 2) \div 3) \div 4
          /\ r = ((4 * n + 2) \div 3) % 4
      BY <2>2, Zenon
    <2> HIDE DEF q, r
    <2>4. 3 * q + (IF r = 0 THEN 0 ELSE r - 1) = n
      BY ONLY <2>3
    <2> QED
      BY <2>1, <2>4, Zenon
  <1> HIDE DEF q, r
  <1>7. Len(d.out) = Len(bytes) /\ \A k \in 1 .. Len(d.out) : d.out[k] = Byte(bytes, k)
    BY <1>5, <1>6 DEF Reads
  <1>8. \A k \in 1 .. Len(bytes) : Byte(bytes, k) = bytes[k]
    BY LenProperties, Zenon DEF Byte
  <1>9. d.out = bytes
    <2>1. d.out \in Seq(Bytes)
      BY <1>5, ScanFields DEF Bytes
    <2>2. \A k \in 1 .. Len(d.out) : d.out[k] = bytes[k]
      BY <1>7, <1>8, Zenon
    <2> QED
      BY <1>7, <2>1, <2>2, SeqEqual, Zenon
  <1>10. Decode(c) = d.out
    BY <1>3, <1>4, Zenon DEF Decode
  <1> QED
    BY <1>1, <1>9, <1>10, Zenon

LEMMA NoneGarbled == Garbled = {}
  <1> SUFFICES ASSUME NEW bytes \in Payloads
               PROVE  /\ Decode(Encode(bytes)) = bytes
                      /\ \A i \in DOMAIN Encode(bytes) :
                           Decode([Encode(bytes) EXCEPT ![i] = -1]) = <<-1>>
    BY Zenon DEF Garbled
  <1>1. bytes \in Seq(Bytes)
    <2>1. PICK m \in 0 .. 5 : bytes \in [1 .. m -> {0, 90, 165, 255}]
      BY Zenon DEF Payloads, BoundedSeq, SeqOf
    <2>2. {0, 90, 165, 255} \subseteq Bytes
      BY DEF Bytes
    <2> QED
      BY <2>1, <2>2
  <1>2. ASSUME NEW i \in DOMAIN Encode(bytes)
        PROVE  Decode([Encode(bytes) EXCEPT ![i] = -1]) = <<-1>>
    <2> DEFINE c == [Encode(bytes) EXCEPT ![i] = -1]
    <2>1. i \in DOMAIN c /\ c[i] = -1
      OBVIOUS
    <2>2. c[i] < 0
      BY <2>1
    <2> HIDE DEF c
    <2>3. Decode(c) = <<-1>>
      BY <2>1, <2>2, Zenon DEF Decode
    <2> QED
      BY <2>3 DEF c
  <1> QED
    BY <1>1, <1>2, DecodeEncode

(***************************************************************************)
(* Texts and their pieces.                                                 *)
(***************************************************************************)

\* The text of one word.
LEMMA One ==
  ASSUME NEW T, NEW x \in T, NEW s, s = <<x>>
  PROVE  s \in Seq(T) /\ Len(s) = 1 /\ s[1] = x
  OBVIOUS

\* Which word a text of one or two words begins with.
LEMMA Starts ==
  ASSUME NEW T, NEW x \in T, NEW y \in T, NEW s, s = <<x>> \/ s = <<x, y>>
  PROVE  Len(s) # 0 /\ s[1] = x
  <1>1. CASE s = <<x>>
    BY <1>1, One
  <1>2. CASE s = <<x, y>>
    <2>1. Len(<<x, y>>) = 2 /\ <<x, y>>[1] = x
      OBVIOUS
    <2> QED
      BY <1>2, <2>1
  <1> QED
    BY <1>1, <1>2

\* A text over some words is one over more, and holds only those it is over.
LEMMA Wider ==
  ASSUME NEW T, NEW U, T \subseteq U, NEW s \in Seq(T)
  PROVE  s \in Seq(U) /\ Len(s) \in Nat /\ \A x \in 1 .. Len(s) : s[x] \in T
  <1>1. Len(s) \in Nat /\ s \in [1 .. Len(s) -> T]
    BY LenProperties
  <1>2. s \in [1 .. Len(s) -> U]
    BY <1>1
  <1> QED
    BY <1>1, <1>2

\* How long two texts after each other are, and what stands where.
LEMMA Concat ==
  ASSUME NEW T, NEW s \in Seq(T), NEW t \in Seq(T), NEW u, u = s \o t
  PROVE  /\ u \in Seq(T) /\ Len(s) \in Nat /\ Len(t) \in Nat
         /\ Len(u) = Len(s) + Len(t)
         /\ \A x \in 1 .. Len(s) : u[x] = s[x]
         /\ \A x \in 1 .. Len(t) : u[Len(s) + x] = t[x]
  <1>1. Len(s) \in Nat /\ Len(t) \in Nat
    BY LenProperties
  <1>2. /\ u \in Seq(T)
        /\ Len(u) = Len(s) + Len(t)
        /\ \A x \in 1 .. Len(s) + Len(t) :
             u[x] = IF x <= Len(s) THEN s[x] ELSE t[x - Len(s)]
    BY ConcatProperties
  <1>3. \A x \in 1 .. Len(s) : x \in 1 .. Len(s) + Len(t) /\ x <= Len(s)
    BY <1>1
  <1>4. \A x \in 1 .. Len(t) : /\ Len(s) + x \in 1 .. Len(s) + Len(t)
                               /\ ~(Len(s) + x <= Len(s))
                               /\ (Len(s) + x) - Len(s) = x
    BY <1>1
  <1> QED
    BY <1>1, <1>2, <1>3, <1>4, Zenon

\* What stands where in four texts after each other.
LEMMA Joined ==
  ASSUME NEW T, NEW a \in Seq(T), NEW b \in Seq(T), NEW c \in Seq(T), NEW d \in Seq(T),
         NEW p, p = a \o b \o c \o d
  PROVE  /\ p \in Seq(T) /\ Len(p) = Len(a) + Len(b) + Len(c) + Len(d)
         /\ \A x \in 1 .. Len(a) : p[x] = a[x]
         /\ \A x \in 1 .. Len(b) : p[Len(a) + x] = b[x]
         /\ \A x \in 1 .. Len(c) : p[Len(a) + Len(b) + x] = c[x]
         /\ \A x \in 1 .. Len(d) : p[Len(a) + Len(b) + Len(c) + x] = d[x]
  <1>1. PICK u \in Seq(T) : u = a \o b
    BY ConcatProperties
  <1>2. PICK v \in Seq(T) : v = u \o c
    BY ConcatProperties
  <1>3. p = v \o d
    BY <1>1, <1>2, Zenon
  <1>4. /\ u \in Seq(T) /\ Len(a) \in Nat /\ Len(b) \in Nat /\ Len(u) = Len(a) + Len(b)
        /\ \A x \in 1 .. Len(a) : u[x] = a[x]
        /\ \A x \in 1 .. Len(b) : u[Len(a) + x] = b[x]
    BY <1>1, Concat
  <1>5. /\ v \in Seq(T) /\ Len(c) \in Nat /\ Len(v) = Len(u) + Len(c)
        /\ \A x \in 1 .. Len(u) : v[x] = u[x]
        /\ \A x \in 1 .. Len(c) : v[Len(u) + x] = c[x]
    BY <1>2, Concat
  <1>6. /\ p \in Seq(T) /\ Len(d) \in Nat /\ Len(p) = Len(v) + Len(d)
        /\ \A x \in 1 .. Len(v) : p[x] = v[x]
        /\ \A x \in 1 .. Len(d) : p[Len(v) + x] = d[x]
    BY <1>3, Concat
  <1>7. PICK la \in Nat, lb \in Nat, lc \in Nat, ld \in Nat :
          la = Len(a) /\ lb = Len(b) /\ lc = Len(c) /\ ld = Len(d)
    BY <1>4, <1>5, <1>6, Zenon
  <1>8. Len(u) = la + lb /\ Len(v) = la + lb + lc /\ Len(p) = la + lb + lc + ld
    BY <1>4, <1>5, <1>6, <1>7, Zenon
  <1>9. /\ \A x \in 1 .. la : x \in 1 .. la + lb /\ x \in 1 .. la + lb + lc
        /\ \A x \in 1 .. lb : la + x \in 1 .. la + lb /\ la + x \in 1 .. la + lb + lc
        /\ \A x \in 1 .. lc : la + lb + x \in 1 .. la + lb + lc
    OBVIOUS
  <1>10. \A x \in 1 .. la : p[x] = a[x]
    BY <1>4, <1>5, <1>6, <1>7, <1>8, <1>9, Zenon
  <1>11. \A x \in 1 .. lb : p[la + x] = b[x]
    BY <1>4, <1>5, <1>6, <1>7, <1>8, <1>9, Zenon
  <1>12. \A x \in 1 .. lc : p[la + lb + x] = c[x]
    BY <1>5, <1>6, <1>7, <1>8, <1>9, ZenonT(60)
  <1>13. \A x \in 1 .. ld : p[la + lb + lc + x] = d[x]
    BY <1>6, <1>7, <1>8, Zenon
  <1> QED
    BY <1>6, <1>7, <1>8, <1>10, <1>11, <1>12, <1>13, Zenon

\* Where the pieces of a text end, and what it holds up to there.
LEMMA Pieces ==
  ASSUME NEW T, NEW seqs \in Seq(Seq(T))
  PROVE  /\ FlattenSeq(seqs) \in Seq(T)
         /\ \E e \in [0 .. Len(seqs) -> Nat] :
              /\ e[0] = 0 /\ Len(FlattenSeq(seqs)) = e[Len(seqs)]
              /\ \A k \in 1 .. Len(seqs) :
                   /\ e[k] = e[k - 1] + Len(seqs[k])
                   /\ \A x \in 1 .. Len(seqs[k]) :
                        /\ e[k - 1] + x \in 1 .. Len(FlattenSeq(seqs))
                        /\ FlattenSeq(seqs)[e[k - 1] + x] = seqs[k][x]
  <1> DEFINE n == Len(seqs)
             step == [p \in (1 .. n) \X Seq(T) |-> p[2] \o seqs[p[1]]]
             Good(g) == g = [i \in 1 .. n |-> IF i = 1 THEN seqs[i] ELSE g[i - 1] \o seqs[i]]
  <1>1. n \in Nat /\ \A i \in 1 .. n : seqs[i] \in Seq(T) /\ Len(seqs[i]) \in Nat
    BY LenProperties, ElementOfSeq
  <1>2. ASSUME NEW i \in 1 .. n, NEW s \in Seq(T)
        PROVE  /\ step[<<i, s>>] = s \o seqs[i]
               /\ s \o seqs[i] \in Seq(T)
               /\ Len(s \o seqs[i]) = Len(s) + Len(seqs[i])
               /\ \A x \in 1 .. Len(s) : (s \o seqs[i])[x] = s[x]
               /\ \A x \in 1 .. Len(seqs[i]) : (s \o seqs[i])[Len(s) + x] = seqs[i][x]
               /\ Len(s) \in Nat
    <2>1. step[<<i, s>>] = s \o seqs[i]
      OBVIOUS
    <2>2. PICK t \in Seq(T) : t = seqs[i]
      BY <1>1, Zenon
    <2>3. PICK u : u = s \o t
      OBVIOUS
    <2>4. /\ u \in Seq(T) /\ Len(s) \in Nat
          /\ Len(u) = Len(s) + Len(t)
          /\ \A x \in 1 .. Len(s) : u[x] = s[x]
          /\ \A x \in 1 .. Len(t) : u[Len(s) + x] = t[x]
      BY <2>3, Concat
    <2> QED
      BY <2>1, <2>2, <2>3, <2>4, Zenon
  <1>3. PICK h : Counts(h, n, <<>>, step)
    <2> HIDE DEF n, step
    <2> QED
      BY <1>1, LoopExists, Zenon
  <1> HIDE DEF n, step
  <1>4. /\ 0 \in 0 .. n
        /\ \A i \in 1 .. n : i \in 0 .. n /\ i # 0 /\ i - 1 \in 0 .. n
                             /\ (i # 1 => i - 1 \in 1 .. n)
        /\ \A i \in 0 .. (n - 1) : i + 1 \in 1 .. n /\ (i + 1) - 1 = i
    BY <1>1
  <1>5. h[0] = <<>> /\ \A i \in 1 .. n : h[i] = step[<<i, h[i - 1]>>]
    BY <1>3, <1>4, Zenon DEF Counts
  <1>6. \A i \in 0 .. n : h[i] \in Seq(T)
    <2> DEFINE S == {i \in 0 .. n : h[i] \in Seq(T)}
    <2>1. 0 \in S
      BY <1>4, <1>5, EmptySeq
    <2>2. ASSUME NEW i \in 0 .. (n - 1), i \in S PROVE i + 1 \in S
      <3>1. i + 1 \in 1 .. n /\ (i + 1) - 1 = i /\ i + 1 \in 0 .. n /\ h[i] \in Seq(T)
        BY <1>4, <2>2, Zenon
      <3>2. h[i + 1] = step[<<i + 1, h[i]>>]
        BY <1>5, <3>1, Zenon
      <3>3. h[i + 1] \in Seq(T)
        <4>1. /\ step[<<i + 1, h[i]>>] = h[i] \o seqs[i + 1]
              /\ h[i] \o seqs[i + 1] \in Seq(T)
          BY <1>2, <3>1, Zenon
        <4>2. h[i + 1] = h[i] \o seqs[i + 1]
          BY <3>2, <4>1, Zenon
        <4> QED
          BY <4>1, <4>2, Zenon
      <3> QED
        BY <3>1, <3>3, Zenon
    <2> HIDE DEF S
    <2>3. 0 .. n \subseteq S
      BY <1>1, <2>1, <2>2, Reaches
    <2> QED
      BY <2>3 DEF S
  <1>7. \A i \in 1 .. n : h[i] = h[i - 1] \o seqs[i]
    BY <1>2, <1>4, <1>5, <1>6
  <1> DEFINE e == [k \in 0 .. n |-> Len(h[k])]
  <1>8. /\ e \in [0 .. n -> Nat] /\ e[0] = 0
        /\ \A k \in 1 .. n : e[k] = e[k - 1] + Len(seqs[k])
    <2>1. \A k \in 0 .. n : Len(h[k]) \in Nat /\ e[k] = Len(h[k])
      BY <1>6, LenProperties
    <2>2. Len(<<>>) = 0
      OBVIOUS
    <2>3. e \in [0 .. n -> Nat]
      BY <2>1
    <2> HIDE DEF e
    <2>4. \A k \in 1 .. n : Len(h[k]) = Len(h[k - 1]) + Len(seqs[k])
      BY <1>2, <1>4, <1>6, <1>7, ZenonT(60)
    <2>5. \A k \in 1 .. n : e[k] = Len(h[k]) /\ e[k - 1] = Len(h[k - 1])
      BY <1>4, <2>1, Zenon
    <2> QED
      BY <1>4, <1>5, <2>1, <2>2, <2>3, <2>4, <2>5, Zenon
  <1>9. \A m \in 0 .. n : \A k \in 1 .. m : \A x \in 1 .. Len(seqs[k]) :
          e[k - 1] + x \in 1 .. e[m] /\ h[m][e[k - 1] + x] = seqs[k][x]
    <2> DEFINE Holds(m) == \A k \in 1 .. m : \A x \in 1 .. Len(seqs[k]) :
                             e[k - 1] + x \in 1 .. e[m] /\ h[m][e[k - 1] + x] = seqs[k][x]
               S == {m \in 0 .. n : Holds(m)}
    <2>1. 0 \in S
      BY <1>4
    <2>2. ASSUME NEW m \in 0 .. (n - 1), m \in S PROVE m + 1 \in S
      <3>1. /\ m \in 0 .. n /\ m + 1 \in 1 .. n /\ (m + 1) - 1 = m /\ m + 1 \in 0 .. n
            /\ h[m + 1] = h[m] \o seqs[m + 1] /\ h[m] \in Seq(T)
        BY <1>4, <1>6, <1>7, Zenon
      <3>2. e[m] = Len(h[m]) /\ e[m] \in Nat /\ e[m + 1] = e[m] + Len(seqs[m + 1])
            /\ Len(seqs[m + 1]) \in Nat
        BY <1>1, <1>8, <3>1
      <3> HIDE DEF e
      <3>3. ASSUME NEW k \in 1 .. (m + 1), NEW x \in 1 .. Len(seqs[k])
            PROVE  e[k - 1] + x \in 1 .. e[m + 1] /\ h[m + 1][e[k - 1] + x] = seqs[k][x]
        <4>1. CASE k = m + 1
          <5>1. k - 1 = m
            BY <3>1, <4>1
          <5>0. x \in 1 .. Len(seqs[m + 1])
            BY <4>1, Zenon
          <5>2. e[m] + x \in 1 .. e[m + 1]
            <6>1. PICK a \in Nat, l \in Nat : a = e[m] /\ l = Len(seqs[m + 1])
              BY <3>2, Zenon
            <6>2. x \in 1 .. l /\ e[m + 1] = a + l
              BY <3>2, <5>0, <6>1, Zenon
            <6>3. a + x \in 1 .. a + l
              BY ONLY <6>2, a \in Nat, l \in Nat
            <6> QED
              BY <6>1, <6>2, <6>3, Zenon
          <5>3. h[m + 1][e[m] + x] = seqs[m + 1][x]
            <6>1. (h[m] \o seqs[m + 1])[Len(h[m]) + x] = seqs[m + 1][x]
              BY <1>2, <3>1, <5>0, Zenon
            <6> QED
              BY <3>1, <3>2, <6>1, Zenon
          <5> QED
            BY <4>1, <5>1, <5>2, <5>3, Zenon
        <4>2. CASE k # m + 1
          <5>1. k \in 1 .. m
            BY <4>2
          <5>2. e[k - 1] + x \in 1 .. e[m] /\ h[m][e[k - 1] + x] = seqs[k][x]
            BY <2>2, <5>1, Zenon
          <5>3. e[k - 1] + x \in 1 .. e[m + 1]
            <6>1. PICK a \in Nat, l \in Nat : a = e[m] /\ l = Len(seqs[m + 1])
              BY <3>2, Zenon
            <6>2. PICK y : y = e[k - 1] + x
              OBVIOUS
            <6>3. y \in 1 .. a /\ e[m + 1] = a + l
              BY <3>2, <5>2, <6>1, <6>2, Zenon
            <6>4. y \in 1 .. a + l
              BY ONLY <6>3, a \in Nat, l \in Nat
            <6> QED
              BY <6>2, <6>3, <6>4, Zenon
          <5>4. h[m + 1][e[k - 1] + x] = h[m][e[k - 1] + x]
            <6>1. e[k - 1] + x \in 1 .. Len(h[m])
              BY <3>2, <5>2, Zenon
            <6>2. (h[m] \o seqs[m + 1])[e[k - 1] + x] = h[m][e[k - 1] + x]
              BY <1>2, <3>1, <6>1, Zenon
            <6> QED
              BY <3>1, <6>2, Zenon
          <5> QED
            BY <5>2, <5>3, <5>4, Zenon
        <4> QED
          BY <4>1, <4>2
      <3> QED
        BY <3>1, <3>3, Zenon
    <2> HIDE DEF S, Holds
    <2>3. 0 .. n \subseteq S
      BY <1>1, <2>1, <2>2, Reaches
    <2> QED
      BY <2>3, Zenon DEF S, Holds
  <1>10. FlattenSeq(seqs) = h[n]
    <2>1. CASE n = 0
      <3>1. seqs = <<>>
        BY <2>1, EmptySeq DEF n
      <3>2. FlattenSeq(seqs) = seqs
        BY <2>1, Zenon DEF FlattenSeq, n
      <3> QED
        BY <1>5, <2>1, <3>1, <3>2, Zenon
    <2>2. CASE n # 0
      <3> DEFINE f == [i \in 1 .. n |-> h[i]]
      <3>1. 1 \in 1 .. n /\ n \in 1 .. n
        BY <1>1, <2>2
      <3>2. h[1] = seqs[1]
        <4>1. h[1] = h[0] \o seqs[1] /\ seqs[1] \in Seq(T)
          <5>1. 1 - 1 = 0
            OBVIOUS
          <5> QED
            BY <1>1, <1>7, <3>1, <5>1, Zenon
        <4> QED
          BY <1>5, <4>1, ConcatEmptySeq
      <3>3. \A i \in 1 .. n : f[i] = IF i = 1 THEN seqs[i] ELSE f[i - 1] \o seqs[i]
        <4> SUFFICES ASSUME NEW i \in 1 .. n
                     PROVE  f[i] = IF i = 1 THEN seqs[i] ELSE f[i - 1] \o seqs[i]
          OBVIOUS
        <4>1. f[i] = h[i] /\ (i # 1 => f[i - 1] = h[i - 1])
          BY <1>4
        <4> QED
          BY <1>7, <3>2, <4>1, Zenon
      <3>4. Good(f)
        BY <3>3
      <3> DEFINE g == CHOOSE g : Good(g)
      <3>5. Good(g)
        <4> HIDE DEF Good
        <4> QED
          BY <3>4, Zenon
      <3>6. FlattenSeq(seqs) = g[n]
        BY <2>2, Zenon DEF FlattenSeq, n
      <3> HIDE DEF g, f
      <3>7. \A i \in 1 .. n : g[i] = IF i = 1 THEN seqs[i] ELSE g[i - 1] \o seqs[i]
        BY <3>5, Zenon
      <3> DEFINE S == {i \in 0 .. n : i # 0 => g[i] = h[i]}
      <3>8. 0 \in S
        BY <1>4
      <3>9. ASSUME NEW i \in 0 .. (n - 1), i \in S PROVE i + 1 \in S
        <4>1. i + 1 \in 1 .. n /\ (i + 1) - 1 = i /\ i + 1 \in 0 .. n /\ (i + 1 = 1 <=> i = 0)
          BY <1>4
        <4>2. CASE i = 0
          <5>1. i + 1 = 1
            BY <4>1, <4>2, Zenon
          <5>2. g[i + 1] = h[i + 1]
            BY <3>2, <3>7, <4>1, <5>1, Zenon
          <5> QED
            BY <4>1, <5>2, Zenon
        <4>3. CASE i # 0
          <5>1. g[i] = h[i] /\ i + 1 # 1
            BY <3>9, <4>1, <4>3, Zenon
          <5>2. g[i + 1] = g[(i + 1) - 1] \o seqs[i + 1]
            BY <3>7, <4>1, <5>1, Zenon
          <5>3. g[i + 1] = h[i + 1]
            BY <1>7, <4>1, <5>1, <5>2, Zenon
          <5> QED
            BY <4>1, <5>3, Zenon
        <4> QED
          BY <4>2, <4>3, Zenon
      <3> HIDE DEF S
      <3>10. 0 .. n \subseteq S
        BY <1>1, <3>8, <3>9, Reaches
      <3> QED
        BY <2>2, <3>1, <3>6, <3>10 DEF S
    <2> QED
      BY <2>1, <2>2
  <1>11. n \in 0 .. n /\ e[n] = Len(h[n])
    BY <1>1
  <1> HIDE DEF e
  <1>12. /\ FlattenSeq(seqs) \in Seq(T) /\ Len(FlattenSeq(seqs)) = e[n]
         /\ \A k \in 1 .. n : \A x \in 1 .. Len(seqs[k]) :
              /\ e[k - 1] + x \in 1 .. Len(FlattenSeq(seqs))
              /\ FlattenSeq(seqs)[e[k - 1] + x] = seqs[k][x]
    BY <1>6, <1>9, <1>10, <1>11, Zenon
  <1> QED
    BY <1>8, <1>12, Zenon DEF n

\* A scan that goes forward, or stops, at each position.
Forward(n, stop, val, next, V) ==
  \A i \in 1 .. n : IF i \in stop THEN val[i] \in V ELSE next[i] \in (i + 1) .. n

\* What such a scan returns from each position.
Scanned(f, n, stop, val, next, V) ==
  /\ f \in [1 .. n -> V]
  /\ \A i \in 1 .. n : f[i] = IF i \in stop THEN val[i] ELSE f[next[i]]

\* A scan that goes forward until it stops comes to an end, from every position.
LEMMA DescentExists ==
  ASSUME NEW n \in Nat, NEW stop, NEW val, NEW next, NEW V, Forward(n, stop, val, next, V)
  PROVE  \E f : Scanned(f, n, stop, val, next, V)
  <1> DEFINE Ends(k, f) == /\ f \in [(n + 1 - k) .. n -> V]
                           /\ \A i \in (n + 1 - k) .. n :
                                f[i] = IF i \in stop THEN val[i] ELSE f[next[i]]
             S == {k \in 0 .. n : \E f : Ends(k, f)}
  <1>0. \A i \in 1 .. n : IF i \in stop THEN val[i] \in V ELSE next[i] \in (i + 1) .. n
    BY DEF Forward
  <1>1. 0 \in S
    <2> DEFINE f == [i \in (n + 1 - 0) .. n |-> val[i]]
    <2>1. (n + 1 - 0) .. n = {}
      OBVIOUS
    <2>2. Ends(0, f)
      BY <2>1
    <2>3. 0 \in 0 .. n
      OBVIOUS
    <2> QED
      BY <2>2, <2>3, Zenon
  <1>2. ASSUME NEW k \in 0 .. (n - 1), k \in S PROVE k + 1 \in S
    <2>1. PICK f : Ends(k, f)
      BY <1>2, Zenon
    <2> DEFINE a == n - k
               g == [i \in a .. n |-> IF i # a THEN f[i]
                                      ELSE IF a \in stop THEN val[a] ELSE f[next[a]]]
    <2>2. /\ a \in 1 .. n /\ n + 1 - k = a + 1 /\ n + 1 - (k + 1) = a
          /\ k + 1 \in 0 .. n
          /\ \A i \in a .. n : i # a => i \in (a + 1) .. n
          /\ \A i \in (a + 1) .. n : i \in a .. n /\ i # a /\ i \in 1 .. n
          /\ \A i \in (a + 1) .. n : \A j \in (i + 1) .. n : j \in (a + 1) .. n
      OBVIOUS
    <2>3. f \in [(a + 1) .. n -> V]
          /\ \A i \in (a + 1) .. n : f[i] = IF i \in stop THEN val[i] ELSE f[next[i]]
      BY <2>1, <2>2, Zenon
    <2> HIDE DEF a
    <2>4. \A i \in (a + 1) .. n : g[i] = f[i] /\ f[i] \in V
      BY <2>2, <2>3
    <2>5. a \in a .. n /\ g[a] = IF a \in stop THEN val[a] ELSE f[next[a]]
      BY <2>2
    <2> HIDE DEF g
    <2>6. g[a] \in V /\ g[a] = IF a \in stop THEN val[a] ELSE g[next[a]]
      BY <1>0, <2>2, <2>4, <2>5, Zenon
    <2>7. \A i \in (a + 1) .. n : g[i] = IF i \in stop THEN val[i] ELSE g[next[i]]
      <3> SUFFICES ASSUME NEW i \in (a + 1) .. n
                   PROVE  g[i] = IF i \in stop THEN val[i] ELSE g[next[i]]
        OBVIOUS
      <3>1. i \notin stop => next[i] \in (a + 1) .. n
        BY <1>0, <2>2, Zenon
      <3> QED
        BY <2>3, <2>4, <3>1, Zenon
    <2>8. \A i \in a .. n : g[i] \in V /\ g[i] = IF i \in stop THEN val[i] ELSE g[next[i]]
      BY <2>2, <2>4, <2>6, <2>7, Zenon
    <2>9. g \in [a .. n -> V]
      BY <2>8 DEF g
    <2>10. Ends(k + 1, g)
      BY <2>2, <2>8, <2>9, Zenon
    <2> QED
      BY <2>2, <2>10, Zenon
  <1> HIDE DEF S
  <1>3. n \in S
    <2>1. 0 .. n \subseteq S
      BY <1>1, <1>2, Reaches
    <2> QED
      BY <2>1
  <1>4. PICK f : Ends(n, f)
    BY <1>3, Zenon DEF S
  <1>5. n + 1 - n = 1
    OBVIOUS
  <1> QED
    BY <1>4, <1>5, Zenon DEF Scanned

\* If no step before the m-th changes what f has, the first has what the m-th has.
LEMMA Walk ==
  ASSUME NEW m \in Nat, NEW f, NEW o, \A k \in 1 .. m : f[o[k]] = f[o[k + 1]]
  PROVE  f[o[1]] = f[o[m + 1]]
  <1> DEFINE S == {k \in 0 .. m : f[o[1]] = f[o[k + 1]]}
  <1>1. 0 \in S
    <2>1. 0 + 1 = 1 /\ 0 \in 0 .. m
      OBVIOUS
    <2> QED
      BY <2>1, Zenon
  <1>2. ASSUME NEW k \in 0 .. (m - 1), k \in S PROVE k + 1 \in S
    <2>1. k + 1 \in 1 .. m /\ k + 1 \in 0 .. m
      OBVIOUS
    <2> QED
      BY <1>2, <2>1, Zenon
  <1> HIDE DEF S
  <1>3. 0 .. m \subseteq S /\ m \in 0 .. m
    BY <1>1, <1>2, Reaches
  <1> QED
    BY <1>3, Zenon DEF S

\* What Find and Skip return: the least number of a set, or the one after all.
LEMMA FirstIn ==
  ASSUME NEW n \in Nat, NEW i \in Nat, NEW found, found \subseteq i .. n, NEW v,
         v = IF found = {} THEN n + 1 ELSE CHOOSE j \in found : \A k \in found : j <= k
  PROVE  /\ v \in i .. n \/ v = n + 1
         /\ found # {} => v \in found /\ \A k \in found : v <= k
  <1>1. CASE found = {}
    BY <1>1, Zenon
  <1>2. CASE found # {}
    <2>1. found \subseteq Nat
      OBVIOUS
    <2>2. \E j \in found : \A k \in found : j <= k
      BY <1>2, <2>1, LeastOf
    <2>3. v = CHOOSE j \in found : \A k \in found : j <= k
      BY <1>2, Zenon
    <2>4. v \in found /\ \A k \in found : v <= k
      BY <2>2, <2>3, Zenon
    <2> QED
      BY <1>2, <2>4
  <1> QED
    BY <1>1, <1>2

\* Find returns a position not before the one it starts at, or the one after all.
LEMMA FindTyped ==
  ASSUME NEW T, NEW text \in Seq(T), NEW x, NEW i \in Nat
  PROVE  Find(text, x, i) \in i .. Len(text) \/ Find(text, x, i) = Len(text) + 1
  <1> DEFINE found == {k \in i .. Len(text) : text[k] = x}
  <1>1. Len(text) \in Nat /\ found \subseteq i .. Len(text)
    BY LenProperties
  <1>2. Find(text, x, i) = IF found = {} THEN Len(text) + 1
                          ELSE CHOOSE j \in found : \A k \in found : j <= k
    BY Zenon DEF Find
  <1> HIDE DEF found
  <1> QED
    BY <1>1, <1>2, FirstIn, Zenon

\* The first position of the word is the one Find returns.
LEMMA FindAt ==
  ASSUME NEW T, NEW text \in Seq(T), NEW x, NEW i \in Nat, NEW j \in i .. Len(text), text[j] = x,
         \A k \in i .. (j - 1) : text[k] # x
  PROVE  Find(text, x, i) = j
  <1> DEFINE found == {k \in i .. Len(text) : text[k] = x}
  <1>1. Len(text) \in Nat /\ found \subseteq i .. Len(text) /\ j \in found
    BY LenProperties
  <1>2. ASSUME NEW k \in found PROVE j <= k
    <2> SUFFICES ASSUME ~(j <= k) PROVE FALSE
      OBVIOUS
    <2>1. k \in i .. (j - 1)
      BY <1>1
    <2> QED
      BY <2>1, Zenon
  <1>3. Find(text, x, i) = IF found = {} THEN Len(text) + 1
                          ELSE CHOOSE l \in found : \A k \in found : l <= k
    BY Zenon DEF Find
  <1> HIDE DEF found
  <1>4. Find(text, x, i) \in found /\ \A k \in found : Find(text, x, i) <= k
    BY <1>1, <1>3, FirstIn, Zenon
  <1>5. PICK v : v = Find(text, x, i)
    OBVIOUS
  <1>6. v \in Nat /\ j \in Nat /\ v <= j /\ j <= v
    <2>1. v \in i .. Len(text) /\ v <= j /\ j <= v
      BY <1>1, <1>2, <1>4, <1>5, Zenon
    <2> QED
      BY ONLY <2>1, i \in Nat, j \in i .. Len(text)
  <1>7. v = j
    BY ONLY <1>6
  <1> QED
    BY <1>5, <1>7, Zenon

\* Skip returns a position not before the one it starts at, or the one after all.
LEMMA SkipTyped ==
  ASSUME NEW T, NEW text \in Seq(T), NEW i \in Nat
  PROVE  Skip(text, i) \in i .. Len(text) \/ Skip(text, i) = Len(text) + 1
  <1> DEFINE found == {k \in i .. Len(text) : text[k] \notin {" ", ";"}}
  <1>1. Len(text) \in Nat /\ found \subseteq i .. Len(text)
    BY LenProperties
  <1>2. Skip(text, i) = IF found = {} THEN Len(text) + 1
                          ELSE CHOOSE j \in found : \A k \in found : j <= k
    BY Zenon DEF Skip
  <1> HIDE DEF found
  <1> QED
    BY <1>1, <1>2, FirstIn, Zenon

\* The first position of no blank and no semicolon is the one Skip returns.
LEMMA SkipAt ==
  ASSUME NEW T, NEW text \in Seq(T), NEW i \in Nat, NEW j \in i .. Len(text), text[j] \notin {" ", ";"},
         \A k \in i .. (j - 1) : text[k] \in {" ", ";"}
  PROVE  Skip(text, i) = j
  <1> DEFINE found == {k \in i .. Len(text) : text[k] \notin {" ", ";"}}
  <1>1. Len(text) \in Nat /\ found \subseteq i .. Len(text) /\ j \in found
    BY LenProperties
  <1>2. \A k \in found : j <= k
    <2>1. \A k \in found : k \in i .. Len(text) /\ k \notin i .. (j - 1)
      BY Zenon
    <2>2. \A n \in Nat, a \in Nat : \A b \in a .. n, k \in a .. n : k \notin a .. (b - 1) => b <= k
      BY ONLY TRUE
    <2> HIDE DEF found
    <2> QED
      BY <1>1, <2>1, <2>2, Zenon
  <1>3. Skip(text, i) = IF found = {} THEN Len(text) + 1
                          ELSE CHOOSE l \in found : \A k \in found : l <= k
    BY Zenon DEF Skip
  <1> HIDE DEF found
  <1>4. Skip(text, i) \in found /\ \A k \in found : Skip(text, i) <= k
    BY <1>1, <1>3, FirstIn, Zenon
  <1>5. PICK v : v = Skip(text, i)
    OBVIOUS
  <1>6. v \in Nat /\ j \in Nat /\ v <= j /\ j <= v
    <2>1. v \in i .. Len(text) /\ v <= j /\ j <= v
      BY <1>1, <1>2, <1>4, <1>5, Zenon
    <2> QED
      BY ONLY <2>1, i \in Nat, j \in i .. Len(text)
  <1>7. v = j
    BY ONLY <1>6
  <1> QED
    BY <1>5, <1>7, Zenon

\* A word that is not in the text is not found.
LEMMA FindNone ==
  ASSUME NEW text, NEW x, NEW i, \A k \in i .. Len(text) : text[k] # x
  PROVE  Find(text, x, i) = Len(text) + 1
  <1>1. {k \in i .. Len(text) : text[k] = x} = {}
    BY Zenon
  <1> QED
    BY <1>1, Zenon DEF Find

\* A part of a text is what stands in its place.
LEMMA PartIs ==
  ASSUME NEW T, NEW text \in Seq(T), NEW part \in Seq(T), NEW a \in Nat,
         a + Len(part) <= Len(text),
         \A x \in 1 .. Len(part) : text[a + x] = part[x]
  PROVE  SubSeq(text, a + 1, a + Len(part)) = part
  <1>1. Len(part) \in Nat /\ Len(text) \in Nat
    BY LenProperties
  <1> DEFINE s == SubSeq(text, a + 1, a + Len(part))
  <1>2. a + 1 \in Int /\ a + Len(part) \in Int
        /\ \A i \in a + 1 .. a + Len(part) : text[i] \in T
    <2>1. \A i \in a + 1 .. a + Len(part) : i \in 1 .. Len(text)
      BY <1>1
    <2>2. \A i \in 1 .. Len(text) : text[i] \in T
      BY ElementOfSeq
    <2> QED
      BY <1>1, <2>1, <2>2
  <1>3. /\ s \in Seq(T) /\ Len(s) = IF a + 1 <= a + Len(part) THEN a + Len(part) - (a + 1) + 1 ELSE 0
        /\ \A x \in 1 .. a + Len(part) - (a + 1) + 1 : s[x] = text[a + 1 + x - 1]
    BY <1>2, SubSeqProperties
  <1>4. Len(s) = Len(part)
    <2> HIDE DEF s
    <2> QED
      BY <1>1, <1>3
  <1>5. \A x \in 1 .. Len(s) : s[x] = part[x]
    <2>1. \A x \in 1 .. Len(part) : x \in 1 .. a + Len(part) - (a + 1) + 1 /\ a + 1 + x - 1 = a + x
      BY <1>1
    <2> QED
      BY <1>3, <1>4, <2>1, Zenon
  <1> HIDE DEF s
  <1>6. s = part
    BY <1>3, <1>4, <1>5, SeqEqual, Zenon
  <1> QED
    BY <1>6 DEF s

(***************************************************************************)
(* The roles.                                                              *)
(***************************************************************************)
\* What the payload puts around and between the names.
Marks == {"quote", ",", "[", "]"}

\* A role with its separator and its quotes.
LEMMA QuotedIs ==
  ASSUME NEW A, NEW b \in Seq(A), Len(b) = 1, b[1] = "quote",
         NEW role \in Seq(A), NEW sep \in Seq(A), NEW p, p = sep \o b \o role \o b
  PROVE  /\ p \in Seq(A) /\ Len(p) = Len(sep) + Len(role) + 2
         /\ \A x \in 1 .. Len(sep) : p[x] = sep[x]
         /\ p[Len(sep) + 1] = "quote"
         /\ \A x \in 1 .. Len(role) : p[Len(sep) + 1 + x] = role[x]
         /\ p[Len(sep) + Len(role) + 2] = "quote"
  <1>4. /\ p \in Seq(A) /\ Len(p) = Len(sep) + Len(b) + Len(role) + Len(b)
        /\ \A x \in 1 .. Len(sep) : p[x] = sep[x]
        /\ \A x \in 1 .. Len(b) : p[Len(sep) + x] = b[x]
        /\ \A x \in 1 .. Len(role) : p[Len(sep) + Len(b) + x] = role[x]
        /\ \A x \in 1 .. Len(b) : p[Len(sep) + Len(b) + Len(role) + x] = b[x]
    BY ONLY sep \in Seq(A), role \in Seq(A), b \in Seq(A), p = sep \o b \o role \o b, Joined
  <1>5. PICK n \in Nat, l \in Nat : n = Len(role) /\ l = Len(sep)
    BY LenProperties, Zenon
  <1>6. 1 \in 1 .. 1 /\ l + 1 + n + 1 = l + n + 2
    BY ONLY l \in Nat, n \in Nat
  <1>7. /\ Len(p) = l + 1 + n + 1
        /\ p[l + 1] = "quote"
        /\ p[l + 1 + n + 1] = "quote"
        /\ \A x \in 1 .. n : p[l + 1 + x] = role[x]
    BY <1>4, <1>5, <1>6, Zenon
  <1> QED
    BY <1>4, <1>5, <1>6, <1>7, Zenon

\* o[k] is where the scan is before role number k: on the bracket, or the comma.
Written(text, roles, o) ==
  LET n == Len(roles)
  IN /\ o \in [1 .. n + 1 -> Nat] /\ o[1] = 1
     /\ \A k \in 1 .. n + 1 : o[k] \in 1 .. Len(text)
     /\ \A k \in 1 .. n : /\ o[k + 1] = o[k] + Len(roles[k]) + 3
                          /\ text[o[k]] # "quote"
                          /\ text[o[k] + 1] = "quote"
                          /\ \A x \in 1 .. Len(roles[k]) : text[o[k] + 1 + x] = roles[k][x]
                          /\ text[o[k] + 1 + Len(roles[k]) + 1] = "quote"
     /\ \A i \in o[n + 1] .. Len(text) : text[i] # "quote"

\* The text of the roles is so written.
LEMMA TextIs ==
  ASSUME NEW T, NEW roles \in Seq(Seq(T))
  PROVE  /\ Text(roles) \in Seq(T \cup Marks)
         /\ \E o : Written(Text(roles), roles, o)
  <1> DEFINE n == Len(roles)
             pieces == [i \in DOMAIN roles |->
                          (IF i = 1 THEN <<>> ELSE <<",">>) \o <<"quote">> \o roles[i] \o <<"quote">>]
             l(i) == IF i = 1 THEN 0 ELSE 1
  <1>0. PICK A : A = T \cup Marks
    OBVIOUS
  <1>1. /\ n \in Nat /\ DOMAIN roles = 1 .. n
        /\ \A i \in 1 .. n : roles[i] \in Seq(T) /\ Len(roles[i]) \in Nat
    BY LenProperties, ElementOfSeq
  <1>2. ASSUME NEW i \in 1 .. n
        PROVE  /\ pieces[i] \in Seq(A) /\ Len(pieces[i]) = l(i) + Len(roles[i]) + 2
               /\ i # 1 => pieces[i][1] = ","
               /\ pieces[i][l(i) + 1] = "quote"
               /\ \A x \in 1 .. Len(roles[i]) : pieces[i][l(i) + 1 + x] = roles[i][x]
               /\ pieces[i][l(i) + Len(roles[i]) + 2] = "quote"
    <2>1. PICK role \in Seq(A) : role = roles[i]
      <3>1. T \subseteq A
        BY <1>0, Zenon
      <3> QED
        BY <1>1, <3>1, Wider, Zenon
    <2>2. "quote" \in A /\ "," \in A
      BY <1>0, Zenon DEF Marks
    <2>3. PICK sep \in Seq(A) : sep = IF i = 1 THEN <<>> ELSE <<",">>
      BY <2>2, One, EmptySeq, Zenon
    <2>4. Len(sep) = l(i) /\ (i # 1 => Len(sep) = 1 /\ sep[1] = ",")
      <3>1. CASE i = 1
        <4>1. sep = <<>>
          BY <2>3, <3>1, Zenon
        <4> QED
          BY <3>1, <4>1, EmptySeq
      <3>2. CASE i # 1
        <4>1. sep = <<",">>
          BY <2>3, <3>2, Zenon
        <4> QED
          BY <2>2, <3>2, <4>1, One, Zenon
      <3> QED
        BY <3>1, <3>2, Zenon
    <2>5. PICK b \in Seq(A) : b = <<"quote">> /\ Len(b) = 1 /\ b[1] = "quote"
      BY <2>2, One, Zenon
    <2>a. PICK p : p = sep \o b \o role \o b
      BY Zenon
    <2>6. pieces[i] = p
      <3>1. i \in DOMAIN roles
        BY <1>1, Zenon
      <3> QED
        BY <2>1, <2>3, <2>5, <2>a, <3>1, Zenon
    <2>7. /\ p \in Seq(A) /\ Len(p) = Len(sep) + Len(role) + 2
          /\ \A x \in 1 .. Len(sep) : p[x] = sep[x]
          /\ p[Len(sep) + 1] = "quote"
          /\ \A x \in 1 .. Len(role) : p[Len(sep) + 1 + x] = role[x]
          /\ p[Len(sep) + Len(role) + 2] = "quote"
      BY ONLY b \in Seq(A), role \in Seq(A), sep \in Seq(A), <2>5, <2>a, QuotedIs
    <2>8. i # 1 => p[1] = ","
      <3>1. 1 \in 1 .. 1
        BY ONLY 1 \in Nat
      <3> QED
        BY <2>4, <2>7, <3>1, Zenon
    <2> HIDE DEF pieces, l
    <2> QED
      BY <2>1, <2>4, <2>6, <2>7, <2>8, Zenon
  <1>3. pieces \in Seq(Seq(A)) /\ Len(pieces) = n
    <2>1. DOMAIN pieces = 1 .. n
      BY <1>1
    <2>2. pieces = [i \in 1 .. n |-> pieces[i]]
      BY <1>1
    <2> HIDE DEF pieces
    <2>3. pieces \in [1 .. n -> Seq(A)]
      BY <1>2, <2>2, Zenon
    <2>4. \A m \in Nat : \A f \in [1 .. m -> Seq(A)] : f \in Seq(Seq(A)) /\ Len(f) = m
      OBVIOUS
    <2> QED
      BY <1>1, <2>3, <2>4, Zenon
  <1>4. PICK flat : flat = FlattenSeq(pieces)
    OBVIOUS
  <1> HIDE DEF pieces
  <1>5. flat \in Seq(A)
    BY <1>3, <1>4, Pieces
  <1>6. PICK e \in [0 .. n -> Nat] :
          /\ e[0] = 0 /\ Len(flat) = e[n]
          /\ \A k \in 1 .. n :
               /\ e[k] = e[k - 1] + Len(pieces[k])
               /\ \A x \in 1 .. Len(pieces[k]) :
                    e[k - 1] + x \in 1 .. Len(flat) /\ flat[e[k - 1] + x] = pieces[k][x]
    <2>1. \E e \in [0 .. Len(pieces) -> Nat] :
          /\ e[0] = 0 /\ Len(FlattenSeq(pieces)) = e[Len(pieces)]
          /\ \A k \in 1 .. Len(pieces) :
               /\ e[k] = e[k - 1] + Len(pieces[k])
               /\ \A x \in 1 .. Len(pieces[k]) :
                    /\ e[k - 1] + x \in 1 .. Len(FlattenSeq(pieces))
                    /\ FlattenSeq(pieces)[e[k - 1] + x] = pieces[k][x]
      BY <1>3, Pieces, Zenon
    <2>2. PICK m, f : m = Len(pieces) /\ f = FlattenSeq(pieces)
      OBVIOUS
    <2>3. \E e \in [0 .. m -> Nat] :
          /\ e[0] = 0 /\ Len(f) = e[m]
          /\ \A k \in 1 .. m :
               /\ e[k] = e[k - 1] + Len(pieces[k])
               /\ \A x \in 1 .. Len(pieces[k]) :
                    e[k - 1] + x \in 1 .. Len(f) /\ f[e[k - 1] + x] = pieces[k][x]
      BY ONLY <2>1, <2>2
    <2>4. m = n /\ f = flat
      BY <1>3, <1>4, <2>2, Zenon
    <2> QED
      BY ONLY <2>3, <2>4
  <1>7. PICK text : text = Text(roles)
    OBVIOUS
  <1>8. PICK N \in Nat : N = Len(flat)
    BY <1>5, LenProperties
  <1>9. /\ text \in Seq(A) /\ Len(text) = N + 2 /\ text[1] = "["
        /\ \A x \in 1 .. N : text[1 + x] = flat[x]
        /\ text[N + 2] = "]"
    <2>1. PICK a : a = <<"[">>
      OBVIOUS
    <2>2. PICK b : b = <<"]">>
      OBVIOUS
    <2>3. PICK z : z = <<>>
      OBVIOUS
    <2>4. /\ a \in Seq(A) /\ Len(a) = 1 /\ a[1] = "["
          /\ b \in Seq(A) /\ Len(b) = 1 /\ b[1] = "]"
      <3>1. "[" \in A /\ "]" \in A
        BY <1>0, Zenon DEF Marks
      <3> QED
        BY <2>1, <2>2, <3>1, One, Zenon
    <2>5. text = a \o flat \o b
      BY <1>4, <1>7, <2>1, <2>2, Zenon DEF Text, pieces
    <2>6. PICK u \in Seq(A) : u = a \o flat
      BY <1>5, <2>4, ConcatProperties
    <2>7. /\ Len(u) = 1 + N
          /\ \A x \in 1 .. 1 : u[x] = a[x]
          /\ \A x \in 1 .. N : u[1 + x] = flat[x]
      <3>1. /\ Len(u) = Len(a) + Len(flat)
            /\ \A x \in 1 .. Len(a) : u[x] = a[x]
            /\ \A x \in 1 .. Len(flat) : u[Len(a) + x] = flat[x]
        <4>1. PICK aa \in Seq(A), ff \in Seq(A) : aa = a /\ ff = flat
          BY <1>5, <2>4, Zenon
        <4>2. u = aa \o ff
          BY <2>6, <4>1, Zenon
        <4>3. /\ Len(u) = Len(aa) + Len(ff)
              /\ \A x \in 1 .. Len(aa) : u[x] = aa[x]
              /\ \A x \in 1 .. Len(ff) : u[Len(aa) + x] = ff[x]
          BY ONLY aa \in Seq(A), ff \in Seq(A), <4>2, Concat
        <4> QED
          BY <4>1, <4>3, Zenon
      <3> QED
        BY <1>8, <2>4, <3>1, Zenon
    <2>8. /\ text \in Seq(A) /\ Len(text) = 1 + N + 1
          /\ \A x \in 1 .. 1 + N : text[x] = u[x]
          /\ \A x \in 1 .. 1 : text[1 + N + x] = b[x]
      <3>1. text = u \o b
        BY <2>5, <2>6, Zenon
      <3>2. /\ text \in Seq(A) /\ Len(text) = Len(u) + Len(b)
            /\ \A x \in 1 .. Len(u) : text[x] = u[x]
            /\ \A x \in 1 .. Len(b) : text[Len(u) + x] = b[x]
        <4>1. PICK bb \in Seq(A) : bb = b
          BY <2>4, Zenon
        <4>2. text = u \o bb
          BY <3>1, <4>1, Zenon
        <4>3. /\ text \in Seq(A) /\ Len(text) = Len(u) + Len(bb)
              /\ \A x \in 1 .. Len(u) : text[x] = u[x]
              /\ \A x \in 1 .. Len(bb) : text[Len(u) + x] = bb[x]
          BY ONLY u \in Seq(A), bb \in Seq(A), <4>2, Concat
        <4> QED
          BY <4>1, <4>3, Zenon
      <3> QED
        BY <2>4, <2>7, <3>2, Zenon
    <2>9. /\ 1 \in 1 .. 1 /\ 1 \in 1 .. 1 + N /\ 1 + N + 1 = N + 2
          /\ \A x \in 1 .. N : 1 + x \in 1 .. 1 + N
      OBVIOUS
    <2> QED
      BY <2>4, <2>7, <2>8, <2>9, Zenon
  <1> DEFINE o == [k \in 1 .. n + 1 |-> IF k = 1 THEN 1 ELSE e[k - 1] + 2]
  <1>10. ASSUME NEW k \in 1 .. n
         PROVE  /\ o[k] = e[k - 1] + l(k) + 1 /\ o[k + 1] = e[k] + 2
                /\ e[k - 1] \in Nat /\ e[k] \in Nat
                /\ k + 1 \in 1 .. n + 1 /\ k \in 1 .. n + 1
    <2>1. /\ k \in 0 .. n /\ k - 1 \in 0 .. n /\ k + 1 \in 1 .. n + 1 /\ k \in 1 .. n + 1
          /\ k + 1 # 1 /\ (k + 1) - 1 = k /\ (k = 1 => k - 1 = 0)
      BY <1>1
    <2>2. PICK a \in Nat : a = e[k - 1]
      BY <1>6, <2>1
    <2>3. o[k + 1] = e[k] + 2
      BY <2>1, Zenon
    <2>4. e[k] \in Nat
      BY <1>6, <2>1
    <2>5. CASE k = 1
      <3>1. o[k] = 1 /\ a = 0 /\ l(k) = 0
        BY <1>6, <2>1, <2>2, <2>5, Zenon
      <3>2. 0 + 0 + 1 = 1
        OBVIOUS
      <3> HIDE DEF o, l
      <3> QED
        BY <2>1, <2>2, <2>3, <2>4, <3>1, <3>2, Zenon
    <2>6. CASE k # 1
      <3>1. o[k] = a + 2 /\ l(k) = 1
        BY <2>1, <2>2, <2>6, Zenon
      <3>2. a + 1 + 1 = a + 2
        OBVIOUS
      <3> HIDE DEF o, l
      <3> QED
        BY <2>1, <2>2, <2>3, <2>4, <3>1, <3>2, Zenon
    <2> QED
      BY <2>5, <2>6
  <1>11. ASSUME NEW k \in 1 .. n
         PROVE  /\ o[k] \in 1 .. Len(text) /\ o[k + 1] = o[k] + Len(roles[k]) + 3
                /\ text[o[k]] # "quote"
                /\ text[o[k] + 1] = "quote"
                /\ \A x \in 1 .. Len(roles[k]) : text[o[k] + 1 + x] = roles[k][x]
                /\ text[o[k] + 1 + Len(roles[k]) + 1] = "quote"
    <2>1. PICK a \in Nat, m \in 0 .. 1, L \in Nat, p \in {pieces[k]} :
            a = e[k - 1] /\ m = l(k) /\ L = Len(roles[k]) /\ p = pieces[k]
      <3>1. l(k) \in 0 .. 1
        OBVIOUS
      <3> QED
        BY <1>1, <1>10, <3>1, Zenon
    <2>2. /\ Len(p) = m + L + 2 /\ (k # 1 => p[1] = ",") /\ p[m + 1] = "quote"
          /\ \A x \in 1 .. L : p[m + 1 + x] = roles[k][x]
          /\ p[m + L + 2] = "quote"
      BY <1>2, <2>1, Zenon
    <2>3. \A x \in 1 .. m + L + 2 : a + x \in 1 .. N /\ flat[a + x] = p[x]
      BY <1>6, <1>8, <2>1, <2>2, Zenon
    <2>4. \A x \in 1 .. m + L + 2 : a + x \in 1 .. N /\ text[1 + (a + x)] = p[x]
      BY <1>9, <2>3, Zenon
    <2>5. o[k] = a + m + 1 /\ o[k + 1] = e[k] + 2 /\ e[k] = a + (m + L + 2)
      BY <1>6, <1>10, <2>1, <2>2, Zenon
    <2>6. /\ m + 1 \in 1 .. m + L + 2 /\ m + L + 2 \in 1 .. m + L + 2 /\ 1 \in 1 .. m + L + 2
          /\ 1 + (a + (m + 1)) = (a + m + 1) + 1
          /\ 1 + (a + (m + L + 2)) = (a + m + 1) + 1 + L + 1
          /\ a + (m + L + 2) + 2 = (a + m + 1) + L + 3
          /\ \A x \in 1 .. L : m + 1 + x \in 1 .. m + L + 2
                               /\ 1 + (a + (m + 1 + x)) = (a + m + 1) + 1 + x
      OBVIOUS
    <2>7. o[k] \in 1 .. Len(text)
      <3>1. a + (m + 1) \in 1 .. N
        BY <2>4, <2>6, Zenon
      <3>2. a + m + 1 \in 1 .. N + 2
        BY <3>1
      <3> QED
        BY <1>9, <2>5, <3>2, Zenon
    <2>8. text[o[k]] # "quote"
      <3>1. CASE k = 1
        <4>1. o[k] = 1
          BY <3>1, <1>1
        <4> QED
          BY <1>9, <4>1
      <3>2. CASE k # 1
        <4>1. m = 1
          BY <2>1, <3>2
        <4>2. 1 + (a + 1) = a + m + 1
          BY <4>1
        <4>3. text[a + m + 1] = ","
          BY <2>2, <2>4, <2>6, <3>2, <4>2, Zenon
        <4>4. text[o[k]] = ","
          BY <2>5, <4>3, Zenon
        <4> QED
          BY <4>4
      <3> QED
        BY <3>1, <3>2
    <2> HIDE DEF o
    <2>9. text[(a + m + 1) + 1] = "quote" /\ text[(a + m + 1) + 1 + L + 1] = "quote"
      BY <2>2, <2>4, <2>6, Zenon
    <2>10. \A x \in 1 .. L : text[(a + m + 1) + 1 + x] = roles[k][x]
      BY <2>2, <2>4, <2>6, ZenonT(60)
    <2>11. o[k + 1] = o[k] + L + 3
      BY <2>5, <2>6, Zenon
    <2> QED
      BY <2>1, <2>5, <2>7, <2>8, <2>9, <2>10, <2>11, Zenon
  <1>12. /\ o[n + 1] \in 1 .. Len(text)
         /\ \A i \in o[n + 1] .. Len(text) : text[i] # "quote"
    <2>1. CASE n = 0
      <3>1. N = 0
        BY <1>6, <1>8, <2>1, Zenon
      <3>2. o[n + 1] = 1
        BY <2>1
      <3>3. Len(text) = 2 /\ text[1] = "[" /\ text[2] = "]"
        <4>1. N + 2 = 2
          BY <3>1
        <4> QED
          BY <1>9, <4>1, Zenon
      <3> HIDE DEF o
      <3> QED
        BY <3>2, <3>3
    <2>2. CASE n # 0
      <3>1. n + 1 \in 1 .. n + 1 /\ n + 1 # 1 /\ (n + 1) - 1 = n
        BY <1>1, <2>2
      <3>2. o[n + 1] = N + 2
        BY <1>6, <1>8, <3>1, Zenon
      <3> HIDE DEF o
      <3>3. Len(text) = N + 2 /\ text[N + 2] = "]"
        BY <1>9
      <3>4. N + 2 \in 1 .. N + 2 /\ \A i \in (N + 2) .. (N + 2) : i = N + 2
        OBVIOUS
      <3> QED
        BY <3>2, <3>3, <3>4, Zenon
    <2> QED
      BY <2>1, <2>2
  <1>13. o \in [1 .. n + 1 -> Nat] /\ o[1] = 1
    <2>1. \A k \in 1 .. n + 1 : o[k] \in Nat
      <3> SUFFICES ASSUME NEW k \in 1 .. n + 1 PROVE o[k] \in Nat
        OBVIOUS
      <3>1. CASE k = 1
        BY <3>1
      <3>2. CASE k # 1
        <4>1. k - 1 \in 0 .. n
          BY <1>1, <3>2
        <4>2. e[k - 1] \in Nat
          BY <1>6, <4>1
        <4> QED
          BY <3>2, <4>2
      <3> QED
        BY <3>1, <3>2
    <2>2. 1 \in 1 .. n + 1
      BY <1>1
    <2> QED
      BY <2>1, <2>2
  <1>14. \A k \in 1 .. n + 1 : o[k] \in 1 .. Len(text)
    <2>1. \A k \in 1 .. n + 1 : k \in 1 .. n \/ k = n + 1
      BY <1>1
    <2> HIDE DEF o
    <2> QED
      BY <1>11, <1>12, <2>1, Zenon
  <1> HIDE DEF o
  <1>15. Written(text, roles, o)
    BY <1>11, <1>12, <1>13, <1>14, Zenon DEF Written
  <1> QED
    BY <1>0, <1>7, <1>9, <1>15, Zenon

\* The quotes the scan finds from a position, and whether what is between them is wanted.
Open(text, i) == Find(text, "quote", i)
Close(text, i) == Find(text, "quote", Open(text, i) + 1)
Hit(text, wanted, i) == SubSeq(text, Open(text, i) + 1, Close(text, i) - 1) \in wanted

\* The closing quote is after the position, unless there is none.
LEMMA CloseTyped ==
  ASSUME NEW A, NEW text \in Seq(A), NEW i \in 1 .. Len(text) + 1
  PROVE  Close(text, i) \in (i + 1) .. Len(text) \/ ~(Close(text, i) <= Len(text))
  <1>1. PICK n \in Nat : n = Len(text)
    BY LenProperties
  <1>2. PICK a : a = Open(text, i)
    OBVIOUS
  <1>3. i \in 1 .. n + 1 /\ i \in Nat
    BY <1>1
  <1>4. a \in i .. n \/ a = n + 1
    BY <1>1, <1>2, <1>3, FindTyped, Zenon DEF Open
  <1>5. a + 1 \in Nat
    BY <1>3, <1>4
  <1>6. PICK b : b = Close(text, i)
    OBVIOUS
  <1>7. b \in (a + 1) .. n \/ b = n + 1
    BY <1>1, <1>2, <1>5, <1>6, FindTyped, Zenon DEF Close
  <1>8. b \in (i + 1) .. n \/ ~(b <= n)
    BY ONLY n \in Nat, <1>3, <1>4, <1>7
  <1> QED
    BY <1>1, <1>6, <1>8, Zenon

\* The scan, from every position.
LEMMA ContainsIs ==
  ASSUME NEW A, NEW text \in Seq(A), NEW wanted
  PROVE  \E from :
           /\ ContainsAny(text, wanted) = from[1]
           /\ \A i \in 1 .. Len(text) + 1 :
                /\ from[i] \in BOOLEAN
                /\ from[i] <=> /\ Close(text, i) <= Len(text)
                               /\ Hit(text, wanted, i) \/ from[Close(text, i) + 1]
  <1> DEFINE N == Len(text) + 1
             Body(g, i) == LET open1  == Find(text, "quote", i)
                               close1 == Find(text, "quote", open1 + 1)
                           IN /\ close1 <= Len(text)
                              /\ SubSeq(text, open1 + 1, close1 - 1) \in wanted \/ g[close1 + 1]
             Good(g) == g = [i \in 1 .. (Len(text) + 1) |-> Body(g, i)]
             read == {i \in 1 .. N : Close(text, i) <= Len(text)}
             stop == {i \in 1 .. N : i \in read => Hit(text, wanted, i)}
             val == [i \in 1 .. N |-> IF i \in read THEN TRUE ELSE FALSE]
             next == [i \in 1 .. N |-> Close(text, i) + 1]
  <1>1. N \in Nat /\ Len(text) \in Nat
    BY LenProperties
  <1>2. ASSUME NEW i \in 1 .. N
        PROVE  /\ i \in read <=> Close(text, i) <= Len(text)
               /\ i \in stop <=> (i \in read => Hit(text, wanted, i))
               /\ val[i] <=> i \in read
               /\ val[i] \in BOOLEAN
               /\ next[i] = Close(text, i) + 1
    <2>1. i \in read <=> Close(text, i) <= Len(text)
      BY Zenon
    <2> HIDE DEF read
    <2>2. i \in stop <=> (i \in read => Hit(text, wanted, i))
      BY Zenon
    <2>3. val[i] = IF i \in read THEN TRUE ELSE FALSE
      BY Zenon
    <2>a. (val[i] <=> i \in read) /\ val[i] \in BOOLEAN
      BY <2>3, Zenon
    <2>4. next[i] = Close(text, i) + 1
      BY Zenon
    <2> QED
      BY <2>1, <2>2, <2>a, <2>4, Zenon
  <1> HIDE DEF stop, val, next, read
  <1>3. PICK V : V = BOOLEAN
    OBVIOUS
  <1>a. ASSUME NEW i \in 1 .. N
        PROVE  IF i \in stop THEN val[i] \in V ELSE next[i] \in (i + 1) .. N
    <2>1. CASE i \in stop
      BY <1>2, <1>3, <2>1, Zenon
    <2>2. CASE i \notin stop
      <3>1. Close(text, i) <= Len(text)
        BY <1>2, <2>2, Zenon
      <3>2. Close(text, i) \in (i + 1) .. Len(text)
        BY <3>1, CloseTyped, Zenon
      <3>3. PICK c : c = Close(text, i)
        OBVIOUS
      <3>4. c + 1 \in (i + 1) .. N
        <4>1. c \in (i + 1) .. Len(text) /\ i \in 1 .. Len(text) + 1
          BY <3>2, <3>3, Zenon
        <4>2. c + 1 \in (i + 1) .. (Len(text) + 1)
          BY ONLY <1>1, <4>1
        <4> QED
          BY <4>2, Zenon
      <3> QED
        BY <1>2, <2>2, <3>3, <3>4, Zenon
    <2> QED
      BY <2>1, <2>2, Zenon
  <1> HIDE DEF N
  <1>4. PICK f \in [1 .. N -> BOOLEAN] :
          \A i \in 1 .. N : f[i] = IF i \in stop THEN val[i] ELSE f[next[i]]
    <2>1. Forward(N, stop, val, next, V)
      BY <1>a, Zenon DEF Forward
    <2>2. PICK f : Scanned(f, N, stop, val, next, V)
      BY <1>1, <2>1, DescentExists, Zenon
    <2> QED
      BY <1>3, <2>2, Zenon DEF Scanned
  <1>5. ASSUME NEW i \in 1 .. N
        PROVE  f[i] = Body(f, i) /\ f[i] \in BOOLEAN
    <2>1. Body(f, i) = (Close(text, i) <= Len(text)
                        /\ (Hit(text, wanted, i) \/ f[Close(text, i) + 1]))
      BY Zenon DEF Close, Open, Hit
    <2>2. f[i] \in BOOLEAN
      BY <1>4
    <2> HIDE DEF Body
    <2>3. f[i] <=> /\ Close(text, i) <= Len(text)
                   /\ Hit(text, wanted, i) \/ f[Close(text, i) + 1]
      <3>1. CASE i \in stop
        BY <1>2, <1>4, <3>1, Zenon
      <3>2. CASE i \notin stop
        BY <1>2, <1>4, <3>2, Zenon
      <3> QED
        BY <3>1, <3>2
    <2> QED
      BY <2>1, <2>2, <2>3, Zenon
  <1>6. Good(f)
    <2>1. f = [i \in 1 .. N |-> f[i]]
      BY <1>4
    <2> HIDE DEF Body
    <2> QED
      BY <1>5, <2>1 DEF N
  <1> DEFINE from == CHOOSE g : Good(g)
  <1>7. Good(from)
    <2> HIDE DEF Good
    <2> QED
      BY <1>6, Zenon
  <1>8. ContainsAny(text, wanted) = from[1]
    BY Zenon DEF ContainsAny
  <1> HIDE DEF from
  <1>9. ASSUME NEW i \in 1 .. Len(text) + 1
        PROVE  /\ from[i] \in BOOLEAN
               /\ from[i] <=> /\ Close(text, i) <= Len(text)
                              /\ Hit(text, wanted, i) \/ from[Close(text, i) + 1]
    <2>1. from[i] = Body(from, i)
      <3> HIDE DEF Body
      <3> QED
        BY <1>7, Zenon
    <2> QED
      BY <2>1, Zenon DEF Close, Open, Hit
  <1> QED
    BY <1>8, <1>9, Zenon

\* From where role number k begins, it is the next that is read; from after the last,
\* none is.
LEMMA RoleIsRead ==
  ASSUME NEW T, "quote" \notin T, NEW roles \in Seq(Seq(T)), NEW wanted,
         NEW text \in Seq(T \cup Marks), NEW o, Written(text, roles, o),
         NEW k \in 1 .. Len(roles)
  PROVE  /\ Close(text, o[k]) <= Len(text) /\ Close(text, o[k]) + 1 = o[k + 1]
         /\ Hit(text, wanted, o[k]) <=> roles[k] \in wanted
  <1>1. PICK n \in Nat : n = Len(roles)
    BY LenProperties
  <1>2. PICK role \in Seq(T) : role = roles[k]
    BY ElementOfSeq
  <1>3. PICK L \in Nat, N \in Nat : L = Len(role) /\ N = Len(text)
    BY LenProperties
  <1>4. k \in 1 .. n + 1 /\ k + 1 \in 1 .. n + 1
    BY <1>1
  <1>5. PICK a \in Nat, b \in Nat : a = o[k] /\ b = o[k + 1]
    BY <1>1, <1>4, Zenon DEF Written
  <1>6. /\ a \in 1 .. N /\ b \in 1 .. N /\ b = a + L + 3
        /\ text[a] # "quote" /\ text[a + 1] = "quote"
        /\ \A x \in 1 .. L : text[a + 1 + x] = role[x]
        /\ text[a + 1 + L + 1] = "quote"
    <2>1. /\ o[k] \in 1 .. Len(text) /\ o[k + 1] \in 1 .. Len(text)
          /\ o[k + 1] = o[k] + Len(roles[k]) + 3
          /\ text[o[k]] # "quote" /\ text[o[k] + 1] = "quote"
          /\ \A x \in 1 .. Len(roles[k]) : text[o[k] + 1 + x] = roles[k][x]
          /\ text[o[k] + 1 + Len(roles[k]) + 1] = "quote"
      BY <1>1, <1>4, Zenon DEF Written
    <2> QED
      BY <1>2, <1>3, <1>5, <2>1, Zenon
  <1>7. Open(text, a) = a + 1
    <2>1. a + 1 \in a .. N /\ \A x \in a .. ((a + 1) - 1) : x = a
      BY <1>6
    <2>2. \A x \in a .. ((a + 1) - 1) : text[x] # "quote"
      BY <1>6, <2>1, Zenon
    <2> QED
      BY <1>3, <1>6, <2>1, <2>2, FindAt, Zenon DEF Open
  <1>8. Close(text, a) = a + 1 + L + 1
    <2>1. /\ a + 1 + L + 1 \in (a + 1 + 1) .. N /\ a + 1 + 1 \in Nat
          /\ \A x \in (a + 1 + 1) .. ((a + 1 + L + 1) - 1) :
               x - (a + 1) \in 1 .. L /\ a + 1 + (x - (a + 1)) = x
      BY <1>6
    <2>2. \A x \in 1 .. L : role[x] # "quote"
      BY <1>3, ElementOfSeq
    <2>3. ASSUME NEW x \in (a + 1 + 1) .. ((a + 1 + L + 1) - 1)
          PROVE  text[x] # "quote"
      <3>1. PICK y : y = x - (a + 1)
        OBVIOUS
      <3>2. y \in 1 .. L /\ a + 1 + y = x
        BY <2>1, <3>1, Zenon
      <3>3. text[a + 1 + y] = role[y] /\ role[y] # "quote"
        BY <1>6, <2>2, <3>2, Zenon
      <3> QED
        BY <3>2, <3>3, Zenon
    <2>4. Close(text, a) = Find(text, "quote", a + 1 + 1)
      BY <1>7, Zenon DEF Close
    <2>5. PICK i, j : i = a + 1 + 1 /\ j = a + 1 + L + 1
      BY Zenon
    <2>6. /\ i \in Nat /\ j \in i .. Len(text) /\ text[j] = "quote"
          /\ \A x \in i .. (j - 1) : text[x] # "quote"
      BY <1>3, <1>6, <2>1, <2>3, <2>5, Zenon
    <2>7. Find(text, "quote", i) = j
      BY <2>6, FindAt, Zenon
    <2> QED
      BY <2>4, <2>5, <2>7, Zenon
  <1>9. SubSeq(text, (a + 1) + 1, (a + 1) + L) = role
    <2>1. a + 1 \in Nat /\ (a + 1) + L <= N
      BY <1>6
    <2>2. T \subseteq T \cup Marks
      OBVIOUS
    <2>3. role \in Seq(T \cup Marks)
      BY <2>2, Wider, Zenon
    <2> QED
      BY <1>3, <1>6, <2>1, <2>3, PartIs, Zenon
  <1>10. /\ (a + 1 + L + 1) - 1 = (a + 1) + L /\ (a + 1 + L + 1) + 1 = b
         /\ a + 1 + L + 1 <= N
    BY <1>6
  <1>11. Hit(text, wanted, a) <=> role \in wanted
    BY <1>7, <1>8, <1>9, <1>10, Zenon DEF Hit
  <1> QED
    BY <1>2, <1>3, <1>5, <1>8, <1>10, <1>11, Zenon

\* A role is found if the payload lists it, and no part of a name is taken for one.
THEOREM RolesAreRead ==
  ASSUME NEW T, "quote" \notin T, NEW roles \in Seq(Seq(T)), NEW wanted
  PROVE  ContainsAny(Text(roles), wanted) = (ToSet(roles) \cap wanted # {})
  <1>2. PICK text \in Seq(T \cup Marks) : text = Text(roles)
    BY TextIs, Zenon
  <1>3. PICK o : Written(text, roles, o)
    BY <1>2, TextIs, Zenon
  <1>4. PICK from :
           /\ ContainsAny(text, wanted) = from[1]
           /\ \A i \in 1 .. Len(text) + 1 :
                /\ from[i] \in BOOLEAN
                /\ from[i] <=> /\ Close(text, i) <= Len(text)
                               /\ Hit(text, wanted, i) \/ from[Close(text, i) + 1]
    BY ContainsIs, Zenon
  <1>5. PICK n \in Nat, N \in Nat : n = Len(roles) /\ N = Len(text)
    BY LenProperties, Zenon
  <1>6. /\ o[1] = 1 /\ \A k \in 1 .. n + 1 : o[k] \in 1 .. N
        /\ \A i \in o[n + 1] .. N : text[i] # "quote"
    BY <1>3, <1>5, Zenon DEF Written
  <1>7. /\ \A i \in 1 .. N : i \in 1 .. N + 1
        /\ 1 \in 1 .. n + 1 /\ n + 1 \in 1 .. n + 1
        /\ \A k \in 1 .. n : k \in 1 .. n + 1 /\ k + 1 \in 1 .. n + 1
    BY ONLY n \in Nat, N \in Nat
  <1>8. \A k \in 1 .. n + 1 :
          /\ from[o[k]] \in BOOLEAN
          /\ from[o[k]] <=> /\ Close(text, o[k]) <= N
                            /\ Hit(text, wanted, o[k]) \/ from[Close(text, o[k]) + 1]
    BY <1>4, <1>5, <1>6, <1>7, Zenon
  <1>9. ASSUME NEW k \in 1 .. n
        PROVE  from[o[k]] <=> (roles[k] \in wanted \/ from[o[k + 1]])
    <2>1. /\ Close(text, o[k]) <= N /\ Close(text, o[k]) + 1 = o[k + 1]
          /\ Hit(text, wanted, o[k]) <=> roles[k] \in wanted
      <3>1. k \in 1 .. Len(roles)
        BY <1>5, Zenon
      <3>2. /\ Close(text, o[k]) <= Len(text) /\ Close(text, o[k]) + 1 = o[k + 1]
            /\ Hit(text, wanted, o[k]) <=> roles[k] \in wanted
        BY <1>3, <3>1, RoleIsRead, Zenon
      <3> QED
        BY <1>5, <3>2, Zenon
    <2>2. from[Close(text, o[k]) + 1] = from[o[k + 1]]
      BY <2>1, Zenon
    <2> QED
      BY <1>7, <1>8, <2>1, <2>2, Zenon
  <1>a. ASSUME NEW k \in 1 .. n, roles[k] \notin wanted
        PROVE  from[o[k]] = from[o[k + 1]]
    <2>1. PICK p \in BOOLEAN, q \in BOOLEAN : p = from[o[k]] /\ q = from[o[k + 1]]
      BY <1>7, <1>8, Zenon
    <2>2. p <=> q
      BY <1>9, <1>a, <2>1, Zenon
    <2>3. p = q
      BY ONLY p \in BOOLEAN, q \in BOOLEAN, <2>2
    <2> QED
      BY <2>1, <2>3, Zenon
  <1>10. ~from[o[n + 1]]
    <2>1. PICK i \in Nat : i = o[n + 1]
      BY <1>6, <1>7
    <2>2. Open(text, i) = N + 1
      BY <1>5, <1>6, <2>1, FindNone, Zenon DEF Open
    <2>3. \A j \in (N + 1) + 1 .. N : text[j] # "quote"
      <3>1. (N + 1) + 1 .. N = {}
        BY ONLY N \in Nat
      <3> QED
        BY <3>1, Zenon
    <2>4. Find(text, "quote", (N + 1) + 1) = N + 1
      BY <1>5, <2>3, FindNone, Zenon
    <2>5. Close(text, i) = N + 1
      BY <2>2, <2>4, Zenon DEF Close
    <2>6. ~(N + 1 <= N)
      BY ONLY N \in Nat
    <2> QED
      BY <1>7, <1>8, <2>1, <2>5, <2>6, Zenon
  <1>11. ContainsAny(text, wanted) = from[o[1]] /\ from[o[1]] \in BOOLEAN
    BY <1>4, <1>6, <1>7, <1>8, Zenon
  <1> DEFINE S == {k \in 1 .. n : roles[k] \in wanted}
  <1>12. ToSet(roles) \cap wanted # {} <=> S # {}
    <2>1. DOMAIN roles = 1 .. n
      BY <1>5, LenProperties
    <2> QED
      BY <2>1, Zenon DEF ToSet
  <1>13. CASE S = {}
    <2>1. \A k \in 1 .. n : from[o[k]] = from[o[k + 1]]
      <3> SUFFICES ASSUME NEW k \in 1 .. n PROVE from[o[k]] = from[o[k + 1]]
        OBVIOUS
      <3>1. roles[k] \notin wanted
        BY <1>13, Zenon
      <3> QED
        BY <1>a, <3>1, Zenon
    <2>2. from[o[1]] = from[o[n + 1]]
      BY <2>1, Walk, ZenonT(60)
    <2>3. ~from[o[1]]
      BY <1>10, <2>2, Zenon
    <2> QED
      BY <1>2, <1>11, <1>12, <1>13, <2>3, Zenon
  <1>14. CASE S # {}
    <2>1. PICK m \in S : \A k \in S : m <= k
      <3>1. S \subseteq Nat
        OBVIOUS
      <3> HIDE DEF S
      <3> QED
        BY <1>14, <3>1, LeastOf
    <2>2. m \in 1 .. n /\ roles[m] \in wanted
      BY <2>1, Zenon
    <2>3. /\ m - 1 \in Nat /\ (m - 1) + 1 = m
          /\ \A k \in 1 .. (m - 1) : k \in 1 .. n /\ ~(m <= k)
      BY ONLY n \in Nat, <2>2
    <2>4. \A k \in 1 .. (m - 1) : from[o[k]] = from[o[k + 1]]
      <3> SUFFICES ASSUME NEW k \in 1 .. (m - 1) PROVE from[o[k]] = from[o[k + 1]]
        OBVIOUS
      <3>1. k \in 1 .. n /\ roles[k] \notin wanted
        BY <2>1, <2>3, Zenon
      <3> QED
        BY <1>a, <3>1, Zenon
    <2>5. from[o[1]] = from[o[(m - 1) + 1]]
      <3>1. PICK j \in Nat : j = m - 1
        BY <2>3, Zenon
      <3>2. \A k \in 1 .. j : from[o[k]] = from[o[k + 1]]
        BY <2>4, <3>1, Zenon
      <3>3. from[o[1]] = from[o[j + 1]]
        BY ONLY j \in Nat, <3>2, Walk
      <3> QED
        BY <3>1, <3>3, Zenon
    <2>6. from[o[m]]
      BY <1>9, <2>2, Zenon
    <2>7. from[o[1]]
      BY <2>3, <2>5, <2>6, Zenon
    <2> QED
      BY <1>2, <1>11, <1>12, <1>14, <2>7, Zenon
  <1> QED
    BY <1>13, <1>14, Zenon

\* No list of the runs is misjudged.
LEMMA NoneMisjudged == Misjudged = {}
  <1> DEFINE T == {"writer", "admin", "reader", "ghost", "a", ","}
  <1>1. "quote" \notin T
    BY Zenon
  <1>2. ASSUME NEW roles \in RoleLists PROVE roles \in Seq(Seq(T))
    <2> DEFINE names == {<<"writer">>, <<"admin">>, <<"reader">>,
                         <<"ghost", "writer">>, <<"a", ",", "writer">>}
    <2>1. PICK m \in 0 .. 3 : roles \in [1 .. m -> names]
      BY Zenon DEF RoleLists, BoundedSeq, SeqOf
    <2>2. names \subseteq Seq(T)
      OBVIOUS
    <2> HIDE DEF names, T
    <2>3. PICK U : U = Seq(T)
      OBVIOUS
    <2>4. roles \in Seq(U)
      BY <2>1, <2>2, <2>3
    <2> QED
      BY <2>3, <2>4, Zenon
  <1> HIDE DEF T
  <1> QED
    BY <1>1, <1>2, RolesAreRead, Zenon DEF Misjudged

(***************************************************************************)
(* The Cookie header.                                                      *)
(***************************************************************************)
\* What the scan finds from a position: the equals sign, the semicolon after it, and what
\* is before and between the two.
Equals(header, i) == Find(header, "=", Skip(header, i))
Semicolon(header, i) == Find(header, ";", Equals(header, i) + 1)
NameAt(header, i) == SubSeq(header, Skip(header, i), Equals(header, i) - 1)
ValueAt(header, i) == SubSeq(header, Equals(header, i) + 1, Semicolon(header, i) - 1)

\* The semicolon is after the position, unless there is none.
LEMMA SemicolonTyped ==
  ASSUME NEW A, NEW header \in Seq(A), NEW i \in 1 .. Len(header) + 1
  PROVE  Semicolon(header, i) \in (i + 1) .. Len(header) \/ Semicolon(header, i) = Len(header) + 1
  <1>1. PICK n \in Nat : n = Len(header)
    BY LenProperties
  <1>2. PICK a, b, c : a = Skip(header, i) /\ b = Equals(header, i) /\ c = Semicolon(header, i)
    BY Zenon
  <1>3. i \in 1 .. n + 1 /\ i \in Nat
    BY <1>1
  <1>4. a \in i .. n \/ a = n + 1
    BY <1>1, <1>2, <1>3, SkipTyped, Zenon
  <1>5. a \in Nat /\ a >= i
    BY ONLY <1>3, <1>4, n \in Nat
  <1>6. b \in a .. n \/ b = n + 1
    <2>1. b = Find(header, "=", a)
      BY <1>2, Zenon DEF Equals
    <2>2. Find(header, "=", a) \in a .. Len(header) \/ Find(header, "=", a) = Len(header) + 1
      BY <1>5, FindTyped, Zenon
    <2> QED
      BY <1>1, <2>1, <2>2, Zenon
  <1>7. b \in Nat /\ b >= i /\ b + 1 \in Nat
    BY ONLY <1>3, <1>5, <1>6, n \in Nat
  <1>8. c \in (b + 1) .. n \/ c = n + 1
    <2>1. c = Find(header, ";", b + 1)
      BY <1>2, Zenon DEF Semicolon
    <2>2. Find(header, ";", b + 1) \in (b + 1) .. Len(header)
          \/ Find(header, ";", b + 1) = Len(header) + 1
      BY <1>7, FindTyped, Zenon
    <2> QED
      BY <1>1, <2>1, <2>2, Zenon
  <1>9. c \in (i + 1) .. n \/ c = n + 1
    BY ONLY n \in Nat, <1>3, <1>7, <1>8
  <1> QED
    BY <1>1, <1>2, <1>9, Zenon

\* The scan, from every position.
LEMMA SessionIs ==
  ASSUME NEW A, NEW header \in Seq(A)
  PROVE  \E from :
           /\ SessionOf(header) = from[1]
           /\ \A i \in 1 .. Len(header) + 1 :
                from[i] = IF Equals(header, i) > Len(header) THEN None
                          ELSE IF NameAt(header, i) = <<"session">> THEN ValueAt(header, i)
                          ELSE IF Semicolon(header, i) > Len(header) THEN None
                          ELSE from[Semicolon(header, i) + 1]
  <1> DEFINE N == Len(header) + 1
             Body(g, i) == LET p    == Skip(header, i)
                               eq   == Find(header, "=", p)
                               semi == Find(header, ";", eq + 1)
                           IN IF eq > Len(header) THEN None
                              ELSE IF SubSeq(header, p, eq - 1) = <<"session">>
                                   THEN SubSeq(header, eq + 1, semi - 1)
                              ELSE IF semi > Len(header) THEN None ELSE g[semi + 1]
             Read(g, i) == IF Equals(header, i) > Len(header) THEN None
                           ELSE IF NameAt(header, i) = <<"session">> THEN ValueAt(header, i)
                           ELSE IF Semicolon(header, i) > Len(header) THEN None
                           ELSE g[Semicolon(header, i) + 1]
             Good(g) == g = [i \in 1 .. (Len(header) + 1) |-> Body(g, i)]
             stop == {i \in 1 .. N : \/ Equals(header, i) > Len(header)
                                     \/ NameAt(header, i) = <<"session">>
                                     \/ Semicolon(header, i) > Len(header)}
             val == [i \in 1 .. N |-> IF Equals(header, i) > Len(header) THEN None
                                      ELSE IF NameAt(header, i) = <<"session">>
                                           THEN ValueAt(header, i) ELSE None]
             next == [i \in 1 .. N |-> Semicolon(header, i) + 1]
             V == {val[i] : i \in 1 .. N}
  <1>1. N \in Nat /\ Len(header) \in Nat
    BY LenProperties
  <1>2. ASSUME NEW i \in 1 .. N
        PROVE  /\ i \in stop <=> \/ Equals(header, i) > Len(header)
                                 \/ NameAt(header, i) = <<"session">>
                                 \/ Semicolon(header, i) > Len(header)
               /\ val[i] = IF Equals(header, i) > Len(header) THEN None
                           ELSE IF NameAt(header, i) = <<"session">>
                                THEN ValueAt(header, i) ELSE None
               /\ val[i] \in V
               /\ next[i] = Semicolon(header, i) + 1
    <2>1. i \in stop <=> \/ Equals(header, i) > Len(header)
                         \/ NameAt(header, i) = <<"session">>
                         \/ Semicolon(header, i) > Len(header)
      BY Zenon
    <2>2. val[i] = IF Equals(header, i) > Len(header) THEN None
                   ELSE IF NameAt(header, i) = <<"session">>
                        THEN ValueAt(header, i) ELSE None
      BY Zenon
    <2>3. val[i] \in V
      <3> HIDE DEF val
      <3> QED
        BY Zenon
    <2>4. next[i] = Semicolon(header, i) + 1
      BY Zenon
    <2> HIDE DEF stop, val, next, V
    <2> QED
      BY <2>1, <2>2, <2>3, <2>4, Zenon
  <1> HIDE DEF stop, val, next, V
  <1>3. ASSUME NEW i \in 1 .. N
        PROVE  IF i \in stop THEN val[i] \in V ELSE next[i] \in (i + 1) .. N
    <2>1. CASE i \in stop
      BY <1>2, <2>1, Zenon
    <2>2. CASE i \notin stop
      <3>1. PICK c : c = Semicolon(header, i)
        OBVIOUS
      <3>2. ~(c > Len(header))
        BY <1>2, <2>2, <3>1, Zenon
      <3>3. c \in (i + 1) .. Len(header) \/ c = Len(header) + 1
        BY <3>1, SemicolonTyped, Zenon
      <3>4. PICK n \in Nat : n = Len(header)
        BY <1>1
      <3>5. c \in (i + 1) .. n
        <4>1. ~(c > n) /\ (c \in (i + 1) .. n \/ c = n + 1)
          BY <3>2, <3>3, <3>4, Zenon
        <4>2. n + 1 > n
          BY ONLY n \in Nat
        <4> QED
          BY <4>1, <4>2, Zenon
      <3>6. i \in 1 .. n + 1
        BY <3>4, Zenon
      <3>7. c + 1 \in (i + 1) .. (n + 1)
        BY ONLY n \in Nat, <3>5, <3>6
      <3> QED
        BY <1>2, <2>2, <3>1, <3>4, <3>7, Zenon
    <2> QED
      BY <2>1, <2>2, Zenon
  <1> HIDE DEF N
  <1>4. PICK f : Scanned(f, N, stop, val, next, V)
    <2>1. Forward(N, stop, val, next, V)
      BY <1>3, Zenon DEF Forward
    <2> QED
      BY <1>1, <2>1, DescentExists, Zenon
  <1>5. ASSUME NEW i \in 1 .. N
        PROVE  f[i] = Body(f, i)
    <2>1. Body(f, i) = Read(f, i)
      BY Zenon DEF Equals, Semicolon, NameAt, ValueAt
    <2>2. f[i] = IF i \in stop THEN val[i] ELSE f[next[i]]
      BY <1>4, Zenon DEF Scanned
    <2> HIDE DEF Body
    <2>3. f[i] = Read(f, i)
      <3>1. CASE i \in stop
        BY <1>2, <2>2, <3>1, Zenon
      <3>2. CASE i \notin stop
        BY <1>2, <2>2, <3>2, Zenon
      <3> QED
        BY <3>1, <3>2, Zenon
    <2> HIDE DEF Read
    <2> QED
      BY <2>1, <2>3, Zenon
  <1>6. Good(f)
    <2>1. f = [i \in 1 .. N |-> f[i]]
      BY <1>4 DEF Scanned
    <2> HIDE DEF Body
    <2> QED
      BY <1>5, <2>1 DEF N
  <1> DEFINE from == CHOOSE g : Good(g)
  <1>7. Good(from)
    <2> HIDE DEF Good
    <2> QED
      BY <1>6, Zenon
  <1>8. SessionOf(header) = from[1]
    BY Zenon DEF SessionOf
  <1> HIDE DEF from
  <1>9. ASSUME NEW i \in 1 .. Len(header) + 1
        PROVE  from[i] = Read(from, i)
    <2>1. from[i] = Body(from, i)
      <3> HIDE DEF Body
      <3> QED
        BY <1>7, Zenon
    <2> QED
      BY <2>1, Zenon DEF Equals, Semicolon, NameAt, ValueAt
  <1> QED
    BY <1>8, <1>9, Zenon

\* o[k] is where the scan is before cookie number k, s[k] where that begins.
Baked(header, jar, o, s) ==
  LET n == Len(jar)
  IN /\ o[1] = 1
     /\ \A k \in 1 .. n :
          LET L == Len(jar[k].name)
              M == Len(jar[k].value)
          IN /\ o[k] \in Nat \ {0} /\ s[k] \in o[k] .. Len(header)
             /\ \A i \in o[k] .. (s[k] - 1) : header[i] \in {" ", ";"}
             /\ \A x \in 1 .. L : header[(s[k] - 1) + x] = jar[k].name[x]
             /\ header[s[k] + L] = "="
             /\ \A x \in 1 .. M : header[s[k] + L + x] = jar[k].value[x]
             /\ o[k + 1] = s[k] + L + M + 2
             /\ IF k = n THEN Len(header) = s[k] + L + M
                ELSE s[k] + L + M + 1 <= Len(header) /\ header[s[k] + L + M + 1] = ";"

\* The scan from there finds cookie number k, and goes on at the next or nowhere.
CookieAt(header, jar, o, k) ==
  /\ o[k] \in 1 .. Len(header) + 1
  /\ ~(Equals(header, o[k]) > Len(header))
  /\ NameAt(header, o[k]) = jar[k].name
  /\ ValueAt(header, o[k]) = jar[k].value
  /\ IF k = Len(jar) THEN Semicolon(header, o[k]) > Len(header)
     ELSE ~(Semicolon(header, o[k]) > Len(header)) /\ Semicolon(header, o[k]) + 1 = o[k + 1]

\* From where the scan is before a cookie, that is the next that is read.
LEMMA CookieIsRead ==
  ASSUME NEW A, NEW header \in Seq(A), NEW o, NEW s, NEW jar,
         Baked(header, jar, o, s),
         \A k \in 1 .. Len(jar) : jar[k].name \in Seq(A) /\ jar[k].value \in Seq(A),
         \A k \in 1 .. Len(jar) : \A x \in 1 .. Len(jar[k].name) :
           jar[k].name[x] \notin {"=", " ", ";"},
         \A k \in 1 .. Len(jar) : \A x \in 1 .. Len(jar[k].value) : jar[k].value[x] # ";"
  PROVE  \A k \in 1 .. Len(jar) : CookieAt(header, jar, o, k)
  <1> TAKE k \in 1 .. Len(jar)
  <1>0. PICK name \in Seq(A), value \in Seq(A) : 
          /\ name = jar[k].name /\ \A x \in 1 .. Len(name) : name[x] \notin {"=", " ", ";"}
          /\ value = jar[k].value /\ \A x \in 1 .. Len(value) : value[x] # ";"
    BY Zenon
  <1>1. PICK N \in Nat, L \in Nat, M \in Nat :
          N = Len(header) /\ L = Len(name) /\ M = Len(value)
    BY LenProperties, Zenon
  <1>2. /\ o[k] \in Nat \ {0} /\ s[k] \in o[k] .. N
        /\ \A i \in o[k] .. (s[k] - 1) : header[i] \in {" ", ";"}
        /\ \A x \in 1 .. L : header[(s[k] - 1) + x] = name[x]
        /\ header[s[k] + L] = "="
        /\ \A x \in 1 .. M : header[s[k] + L + x] = value[x]
        /\ o[k + 1] = s[k] + L + M + 2
        /\ k = Len(jar) => N = s[k] + L + M
        /\ k # Len(jar) => s[k] + L + M + 1 <= N /\ header[s[k] + L + M + 1] = ";"
    <2>1. LET l == Len(jar[k].name)
              m == Len(jar[k].value)
          IN /\ o[k] \in Nat \ {0} /\ s[k] \in o[k] .. Len(header)
             /\ \A i \in o[k] .. (s[k] - 1) : header[i] \in {" ", ";"}
             /\ \A x \in 1 .. l : header[(s[k] - 1) + x] = jar[k].name[x]
             /\ header[s[k] + l] = "="
             /\ \A x \in 1 .. m : header[s[k] + l + x] = jar[k].value[x]
             /\ o[k + 1] = s[k] + l + m + 2
             /\ k = Len(jar) => Len(header) = s[k] + l + m
             /\ k # Len(jar) => s[k] + l + m + 1 <= Len(header) /\ header[s[k] + l + m + 1] = ";"
      BY Zenon DEF Baked
    <2>2. Len(jar[k].name) = L /\ Len(jar[k].value) = M
      BY <1>0, <1>1, Zenon
    <2> QED
      BY <1>0, <1>1, <2>1, <2>2, Zenon
  <1>3. PICK a \in Nat \ {0} : a = o[k]
    BY <1>2, Zenon
  <1>4. PICK p \in Nat : p = s[k] /\ p \in a .. N
    <2>1. s[k] \in a .. N
      BY <1>2, <1>3, Zenon
    <2>2. \A x \in a .. N : x \in Nat
      BY ONLY a \in Nat \ {0}, N \in Nat
    <2> QED
      BY <2>1, <2>2, Zenon
  <1>5. /\ \A i \in a .. (p - 1) : header[i] \in {" ", ";"}
        /\ \A x \in 1 .. L : header[(p - 1) + x] = name[x]
        /\ header[p + L] = "="
        /\ \A x \in 1 .. M : header[p + L + x] = value[x]
        /\ o[k + 1] = p + L + M + 2
        /\ k = Len(jar) => N = p + L + M
        /\ k # Len(jar) => p + L + M + 1 <= N /\ header[p + L + M + 1] = ";"
    BY <1>2, <1>3, <1>4, Zenon
  <1>6. PICK b \in Nat, q \in Nat, r \in Nat : b = p - 1 /\ q = p + L /\ r = q + M + 1
    <2>1. p - 1 \in Nat /\ p + L \in Nat /\ (p + L) + M + 1 \in Nat
      <3>1. p \in a .. N
        BY <1>4, Zenon
      <3> QED
        BY ONLY <3>1, a \in Nat \ {0}, N \in Nat, p \in Nat, L \in Nat, M \in Nat
    <2> QED
      BY <2>1, Zenon
  <1>7. /\ p \in a .. N /\ a \in Nat
        /\ N = p + L + M \/ p + L + M + 1 <= N
        /\ b + 1 = p /\ b = p - 1 /\ q = p + L /\ r = q + M + 1
    <2>1. b + 1 = p /\ a \in Nat
      <3>1. b = p - 1
        BY <1>6, Zenon
      <3> QED
        BY ONLY <3>1, b \in Nat, p \in Nat, a \in Nat \ {0}
    <2> QED
      BY <1>4, <1>5, <1>6, <2>1, Zenon
  <1> DEFINE Places == /\ q \in p .. N /\ ~(q > N) /\ b + L <= N /\ b + L = q - 1
                       /\ q + M <= N /\ q + M = r - 1 /\ q + 1 \in Nat
                       /\ a \in 1 .. N + 1
                       /\ r + 1 = p + L + M + 2
                       /\ N = p + L + M => N = r - 1 /\ N + 1 = r /\ r > N
                       /\ p + L + M + 1 <= N => r \in q + 1 .. N /\ r = p + L + M + 1 /\ ~(r > N)
                       /\ L = 0 => p + L = p
                       /\ L # 0 => 1 \in 1 .. L
                       /\ \A i \in p .. (q - 1) : i - b \in 1 .. L /\ b + (i - b) = i
                       /\ \A i \in (q + 1) .. (r - 1) : i - q \in 1 .. M /\ q + (i - q) = i
  <1>8. Places
    BY ONLY <1>7, a \in Nat \ {0}, N \in Nat, p \in Nat, L \in Nat, M \in Nat,
            b \in Nat, q \in Nat, r \in Nat
  <1>9. /\ \A x \in 1 .. L : header[b + x] = name[x]
        /\ header[q] = "="
        /\ \A x \in 1 .. M : header[q + x] = value[x]
        /\ k # Len(jar) => header[r] = ";"
    BY <1>5, <1>7, <1>8, Zenon
  <1>10. Skip(header, a) = p
    <2>1. header[p] \notin {" ", ";"}
      <3>1. CASE L = 0
        <4>1. header[p] = "="
          BY <1>7, <1>8, <1>9, <3>1, Zenon
        <4> QED
          BY <4>1, Zenon
      <3>2. CASE L # 0
        <4>1. 1 \in 1 .. L
          BY <1>8, <3>2, Zenon
        <4>2. header[p] = name[1]
          BY <1>7, <1>9, <4>1, Zenon
        <4> QED
          BY <1>0, <1>1, <4>1, <4>2, Zenon
      <3> QED
        BY <3>1, <3>2, Zenon
    <2>2. p \in a .. Len(header) /\ a \in Nat
      BY <1>1, <1>7, Zenon
    <2>3. \A i \in a .. (p - 1) : header[i] \in {" ", ";"}
      BY <1>5, Zenon
    <2> QED
      BY <2>1, <2>2, <2>3, SkipAt, Zenon
  <1>11. Equals(header, a) = q
    <2>1. ASSUME NEW i \in p .. (q - 1) PROVE header[i] # "="
      <3>1. PICK x \in 1 .. L : b + x = i
        BY <1>8, Zenon
      <3>2. header[i] = name[x] /\ name[x] \notin {"=", " ", ";"}
        BY <1>0, <1>1, <1>9, <3>1, Zenon
      <3> QED
        BY <3>2, Zenon
    <2>2. Find(header, "=", p) = q
      <3>1. q \in p .. Len(header) /\ header[q] = "="
        BY <1>1, <1>8, <1>9, Zenon
      <3> QED
        BY <2>1, <3>1, FindAt, Zenon
    <2> QED
      BY <1>10, <2>2, Zenon DEF Equals
  <1>12. NameAt(header, a) = name
    <2>1. SubSeq(header, b + 1, b + L) = name
      <3>1. /\ b + Len(name) <= Len(header)
            /\ \A x \in 1 .. Len(name) : header[b + x] = name[x]
        BY <1>1, <1>8, <1>9, Zenon
      <3>2. SubSeq(header, b + 1, b + Len(name)) = name
        BY <3>1, PartIs, Zenon
      <3> QED
        BY <1>1, <3>2, Zenon
    <2>2. NameAt(header, a) = SubSeq(header, p, q - 1)
      BY <1>10, <1>11, Zenon DEF NameAt
    <2> QED
      BY <1>7, <1>8, <2>1, <2>2, Zenon
  <1>13. Semicolon(header, a) = r
    <2>1. ASSUME NEW i \in (q + 1) .. (r - 1) PROVE header[i] # ";"
      <3>1. PICK x \in 1 .. M : q + x = i
        BY <1>8, Zenon
      <3>2. header[i] = value[x] /\ value[x] # ";"
        BY <1>0, <1>1, <1>9, <3>1, Zenon
      <3> QED
        BY <3>2, Zenon
    <2>2. PICK i \in Nat : i = q + 1
      BY <1>8, Zenon
    <2>3. Find(header, ";", i) = r
      <3>1. CASE k = Len(jar)
        <4>1. N = r - 1 /\ N + 1 = r
          BY <1>5, <1>8, <3>1, Zenon
        <4>2. \A j \in i .. N : header[j] # ";"
          BY <2>1, <2>2, <4>1, Zenon
        <4>3. Find(header, ";", i) = N + 1
          BY <1>1, <4>2, FindNone, Zenon
        <4> QED
          BY <4>1, <4>3, Zenon
      <3>2. CASE k # Len(jar)
        <4>1. r \in i .. N /\ header[r] = ";"
          BY <1>5, <1>8, <1>9, <2>2, <3>2, Zenon
        <4>2. \A j \in i .. (r - 1) : header[j] # ";"
          BY <2>1, <2>2, Zenon
        <4> QED
          BY <1>1, <4>1, <4>2, FindAt, Zenon
      <3> QED
        BY <3>1, <3>2, Zenon
    <2> QED
      BY <1>11, <2>2, <2>3, Zenon DEF Semicolon
  <1>14. ValueAt(header, a) = value
    <2>1. SubSeq(header, q + 1, q + M) = value
      <3>1. /\ q + Len(value) <= Len(header)
            /\ \A x \in 1 .. Len(value) : header[q + x] = value[x]
        BY <1>1, <1>8, <1>9, Zenon
      <3>2. SubSeq(header, q + 1, q + Len(value)) = value
        BY <3>1, PartIs, Zenon
      <3> QED
        BY <1>1, <3>2, Zenon
    <2>2. ValueAt(header, a) = SubSeq(header, q + 1, r - 1)
      BY <1>11, <1>13, Zenon DEF ValueAt
    <2> QED
      BY <1>8, <2>1, <2>2, Zenon
  <1>15. IF k = Len(jar) THEN r > N ELSE ~(r > N) /\ r + 1 = o[k + 1]
    BY <1>5, <1>8, Zenon
  <1>16. a \in 1 .. N + 1 /\ ~(q > N)
    BY <1>8, Zenon
  <1> HIDE DEF Places
  <1> QED
    BY <1>0, <1>1, <1>3, <1>11, <1>12, <1>13, <1>14, <1>15, <1>16, Zenon DEF CookieAt

\* Cookies over a set of words.
Cookies(A) == [name : Seq(A), value : Seq(A)]

\* A cookie with its separator.
LEMMA PairIs ==
  ASSUME NEW A, NEW sp \in Seq(A), NEW name \in Seq(A), NEW value \in Seq(A),
         NEW b \in Seq(A), Len(b) = 1, b[1] = "=",
         NEW p, p = sp \o name \o b \o value
  PROVE  /\ p \in Seq(A) /\ Len(p) = Len(sp) + Len(name) + 1 + Len(value)
         /\ \A x \in 1 .. Len(sp) : p[x] = sp[x]
         /\ \A x \in 1 .. Len(name) : p[Len(sp) + x] = name[x]
         /\ p[Len(sp) + Len(name) + 1] = "="
         /\ \A x \in 1 .. Len(value) : p[Len(sp) + Len(name) + 1 + x] = value[x]
  <1>1. /\ p \in Seq(A) /\ Len(p) = Len(sp) + Len(name) + Len(b) + Len(value)
        /\ \A x \in 1 .. Len(sp) : p[x] = sp[x]
        /\ \A x \in 1 .. Len(name) : p[Len(sp) + x] = name[x]
        /\ \A x \in 1 .. Len(b) : p[Len(sp) + Len(name) + x] = b[x]
        /\ \A x \in 1 .. Len(value) : p[Len(sp) + Len(name) + Len(b) + x] = value[x]
    BY ONLY sp \in Seq(A), name \in Seq(A), b \in Seq(A), value \in Seq(A),
            p = sp \o name \o b \o value, Joined, SMTT(60)
  <1>2. 1 \in 1 .. 1
    BY ONLY TRUE
  <1> QED
    BY <1>1, <1>2, Zenon

\* The header is so written.
LEMMA HeaderIs ==
  ASSUME NEW A, "=" \in A, NEW jar \in Seq(Cookies(A)),
         NEW sep \in Seq(A), \A x \in 1 .. Len(sep) : sep[x] \in {" ", ";"},
         Len(sep) # 0, sep[1] = ";"
  PROVE  /\ Header(jar, sep) \in Seq(A)
         /\ Len(jar) = 0 => Len(Header(jar, sep)) = 0
         /\ \E o, s : Baked(Header(jar, sep), jar, o, s)
  <1> DEFINE n == Len(jar)
             pieces == [i \in DOMAIN jar |-> (IF i = 1 THEN <<>> ELSE sep)
                                             \o jar[i].name \o <<"=">> \o jar[i].value]
             l(i) == IF i = 1 THEN 0 ELSE Len(sep)
             L(i) == Len(jar[i].name)
             M(i) == Len(jar[i].value)
  <1>1. /\ n \in Nat /\ DOMAIN jar = 1 .. n
        /\ \A i \in 1 .. n : jar[i] \in Cookies(A)
    BY LenProperties, ElementOfSeq
  <1>2. ASSUME NEW i \in 1 .. n
        PROVE  jar[i].name \in Seq(A) /\ jar[i].value \in Seq(A)
    BY <1>1 DEF Cookies
  <1>3. ASSUME NEW i \in 1 .. n
        PROVE  /\ L(i) \in Nat /\ M(i) \in Nat /\ l(i) \in Nat
               /\ pieces[i] \in Seq(A) /\ Len(pieces[i]) = l(i) + L(i) + 1 + M(i)
               /\ i # 1 => \A x \in 1 .. l(i) : pieces[i][x] = sep[x]
               /\ \A x \in 1 .. L(i) : pieces[i][l(i) + x] = jar[i].name[x]
               /\ pieces[i][l(i) + L(i) + 1] = "="
               /\ \A x \in 1 .. M(i) : pieces[i][l(i) + L(i) + 1 + x] = jar[i].value[x]
    <2>1. PICK name \in Seq(A), value \in Seq(A) : name = jar[i].name /\ value = jar[i].value
      BY <1>2, Zenon
    <2>2. PICK sp \in Seq(A) : sp = IF i = 1 THEN <<>> ELSE sep
      BY EmptySeq, Zenon
    <2>3. Len(sp) = l(i) /\ (i # 1 => sp = sep)
      <3>1. CASE i = 1
        <4>1. sp = <<>>
          BY <2>2, <3>1, Zenon
        <4> QED
          BY <3>1, <4>1, EmptySeq
      <3>2. CASE i # 1
        BY <2>2, <3>2, Zenon
      <3> QED
        BY <3>1, <3>2, Zenon
    <2>4. PICK b \in Seq(A) : b = <<"=">> /\ Len(b) = 1 /\ b[1] = "="
      BY One, Zenon
    <2>5. PICK p : p = sp \o name \o b \o value
      BY Zenon
    <2>6. pieces[i] = p
      <3>1. i \in DOMAIN jar
        BY <1>1, Zenon
      <3> QED
        BY <2>1, <2>2, <2>4, <2>5, <3>1, Zenon
    <2>7. /\ p \in Seq(A) /\ Len(p) = Len(sp) + Len(name) + 1 + Len(value)
          /\ \A x \in 1 .. Len(sp) : p[x] = sp[x]
          /\ \A x \in 1 .. Len(name) : p[Len(sp) + x] = name[x]
          /\ p[Len(sp) + Len(name) + 1] = "="
          /\ \A x \in 1 .. Len(value) : p[Len(sp) + Len(name) + 1 + x] = value[x]
      BY ONLY sp \in Seq(A), name \in Seq(A), value \in Seq(A), b \in Seq(A), <2>4, <2>5, PairIs
    <2>8. Len(sp) \in Nat /\ Len(name) \in Nat /\ Len(value) \in Nat
      BY LenProperties, Zenon
    <2>9. L(i) = Len(name) /\ M(i) = Len(value)
      BY <2>1, Zenon
    <2> HIDE DEF pieces, l, L, M
    <2>10. i # 1 => \A x \in 1 .. l(i) : pieces[i][x] = sep[x]
      BY <2>3, <2>6, <2>7, Zenon
    <2> QED
      BY <2>1, <2>3, <2>6, <2>7, <2>8, <2>9, <2>10, Zenon
  <1>4. pieces \in Seq(Seq(A)) /\ Len(pieces) = n
    <2>1. DOMAIN pieces = 1 .. n
      BY <1>1
    <2>2. pieces = [i \in 1 .. n |-> pieces[i]]
      BY <1>1
    <2> HIDE DEF pieces, l, L, M
    <2>3. pieces \in [1 .. n -> Seq(A)]
      BY <1>3, <2>2, Zenon
    <2>4. \A m \in Nat : \A f \in [1 .. m -> Seq(A)] : f \in Seq(Seq(A)) /\ Len(f) = m
      BY ONLY TRUE
    <2> QED
      BY <1>1, <2>3, <2>4, Zenon
  <1>5. PICK header : header = FlattenSeq(pieces)
    OBVIOUS
  <1>6. header = Header(jar, sep)
    BY <1>5, Zenon DEF Header
  <1> HIDE DEF pieces
  <1>7. header \in Seq(A)
    BY <1>4, <1>5, Pieces
  <1>8. PICK e \in [0 .. n -> Nat] :
          /\ e[0] = 0 /\ Len(header) = e[n]
          /\ \A k \in 1 .. n :
               /\ e[k] = e[k - 1] + Len(pieces[k])
               /\ \A x \in 1 .. Len(pieces[k]) :
                    e[k - 1] + x \in 1 .. Len(header) /\ header[e[k - 1] + x] = pieces[k][x]
    <2>1. \E e \in [0 .. Len(pieces) -> Nat] :
          /\ e[0] = 0 /\ Len(FlattenSeq(pieces)) = e[Len(pieces)]
          /\ \A k \in 1 .. Len(pieces) :
               /\ e[k] = e[k - 1] + Len(pieces[k])
               /\ \A x \in 1 .. Len(pieces[k]) :
                    /\ e[k - 1] + x \in 1 .. Len(FlattenSeq(pieces))
                    /\ FlattenSeq(pieces)[e[k - 1] + x] = pieces[k][x]
      BY <1>4, Pieces, Zenon
    <2>2. PICK m, f : m = Len(pieces) /\ f = FlattenSeq(pieces)
      OBVIOUS
    <2>3. \E e \in [0 .. m -> Nat] :
          /\ e[0] = 0 /\ Len(f) = e[m]
          /\ \A k \in 1 .. m :
               /\ e[k] = e[k - 1] + Len(pieces[k])
               /\ \A x \in 1 .. Len(pieces[k]) :
                    e[k - 1] + x \in 1 .. Len(f) /\ f[e[k - 1] + x] = pieces[k][x]
      BY ONLY <2>1, <2>2
    <2>4. m = n /\ f = header
      BY <1>4, <1>5, <2>2, Zenon
    <2> QED
      BY ONLY <2>3, <2>4
  <1>9. PICK N \in Nat, S \in Nat : N = Len(header) /\ S = Len(sep)
    BY <1>7, LenProperties, Zenon
  <1>10. S # 0
    BY <1>9, Zenon
  <1> DEFINE o == [k \in 1 .. n + 1 |-> IF k = 1 THEN 1 ELSE e[k - 1] + 2]
             s == [k \in 1 .. n |-> e[k - 1] + l(k) + 1]
  <1>11. ASSUME NEW k \in 1 .. n
         PROVE  /\ e[k - 1] \in Nat /\ e[k] \in Nat
                /\ e[k] = e[k - 1] + Len(pieces[k])
                /\ k = 1 => o[k] = 1 /\ e[k - 1] = 0 /\ l(k) = 0
                /\ k # 1 => o[k] = e[k - 1] + 2 /\ l(k) = S
                /\ o[k + 1] = e[k] + 2
                /\ s[k] = e[k - 1] + l(k) + 1
    <2>1. /\ k - 1 \in 0 .. n /\ k \in 0 .. n /\ k + 1 \in 1 .. n + 1 /\ k \in 1 .. n + 1
          /\ k + 1 # 1 /\ (k + 1) - 1 = k /\ (k = 1 => k - 1 = 0)
      BY ONLY <1>1, k \in 1 .. n
    <2>2. e[k - 1] \in Nat /\ e[k] \in Nat
      BY ONLY <2>1, e \in [0 .. n -> Nat]
    <2>3. s[k] = e[k - 1] + l(k) + 1
      BY Zenon
    <2>4. k = 1 => o[k] = 1 /\ e[k - 1] = 0 /\ l(k) = 0
      BY <1>8, <2>1, Zenon
    <2>5. k # 1 => o[k] = e[k - 1] + 2 /\ l(k) = S
      BY <1>9, <2>1, Zenon
    <2>6. o[k + 1] = e[k] + 2
      BY <2>1, Zenon
    <2> HIDE DEF o, s, l
    <2> QED
      BY <1>8, <2>2, <2>3, <2>4, <2>5, <2>6, Zenon
  <1> HIDE DEF o, s, l, L, M
  <1>12. o[1] = 1
    <2>1. 1 \in 1 .. n + 1
      BY ONLY <1>1
    <2> QED
      BY <2>1, Zenon DEF o
  <1>13. ASSUME NEW k \in 1 .. n
         PROVE  /\ o[k] \in Nat \ {0} /\ s[k] \in o[k] .. N
                /\ \A i \in o[k] .. (s[k] - 1) : header[i] \in {" ", ";"}
                /\ \A x \in 1 .. L(k) : header[(s[k] - 1) + x] = jar[k].name[x]
                /\ header[s[k] + L(k)] = "="
                /\ \A x \in 1 .. M(k) : header[s[k] + L(k) + x] = jar[k].value[x]
                /\ o[k + 1] = s[k] + L(k) + M(k) + 2
                /\ IF k = n THEN N = s[k] + L(k) + M(k)
                   ELSE s[k] + L(k) + M(k) + 1 <= N /\ header[s[k] + L(k) + M(k) + 1] = ";"
    <2>1. PICK a \in Nat, m \in Nat, u \in Nat, w \in Nat, p \in {pieces[k]} :
            a = e[k - 1] /\ m = l(k) /\ u = L(k) /\ w = M(k) /\ p = pieces[k]
      BY <1>3, <1>11, Zenon
    <2>2. /\ Len(p) = m + u + 1 + w
          /\ k # 1 => \A x \in 1 .. m : p[x] = sep[x]
          /\ \A x \in 1 .. u : p[m + x] = jar[k].name[x]
          /\ p[m + u + 1] = "="
          /\ \A x \in 1 .. w : p[m + u + 1 + x] = jar[k].value[x]
      BY <1>3, <2>1, Zenon
    <2>3. \A x \in 1 .. m + u + 1 + w : a + x \in 1 .. N /\ header[a + x] = p[x]
      <3>1. \A x \in 1 .. Len(pieces[k]) :
              e[k - 1] + x \in 1 .. Len(header) /\ header[e[k - 1] + x] = pieces[k][x]
        BY <1>8, Zenon
      <3>2. Len(pieces[k]) = m + u + 1 + w
        BY <2>1, <2>2, Zenon
      <3> QED
        BY <1>9, <2>1, <3>1, <3>2, Zenon
    <2>4. PICK g, h : g = o[k] /\ h = s[k]
      BY Zenon
    <2>5. /\ k = 1 => g = 1 /\ a = 0 /\ m = 0
          /\ k # 1 => g = a + 2 /\ m = S
          /\ h = a + m + 1
          /\ o[k + 1] = (a + (m + u + 1 + w)) + 2
          /\ e[k] = a + (m + u + 1 + w)
      <3>1. Len(pieces[k]) = m + u + 1 + w
        BY <2>1, <2>2, Zenon
      <3>2. e[k] = a + (m + u + 1 + w)
        BY <1>11, <2>1, <3>1, Zenon
      <3>3. o[k + 1] = (a + (m + u + 1 + w)) + 2
        BY <1>11, <3>2, Zenon
      <3>4. h = a + m + 1
        BY <1>11, <2>1, <2>4, Zenon
      <3>5. k = 1 => g = 1 /\ a = 0 /\ m = 0
        BY <1>11, <2>1, <2>4, Zenon
      <3>6. k # 1 => g = a + 2 /\ m = S
        BY <1>11, <2>1, <2>4, Zenon
      <3> QED
        BY <3>2, <3>3, <3>4, <3>5, <3>6, Zenon
    <2>6. h = a + m + 1 /\ ((g = 1 /\ a = 0 /\ m = 0) \/ (g = a + 2 /\ m = S))
      BY <2>5, Zenon
    <2>7. a + (m + u + 1) \in 1 .. N
      <3>1. m + u + 1 \in 1 .. m + u + 1 + w
        BY ONLY m \in Nat, u \in Nat, w \in Nat
      <3> QED
        BY <2>3, <3>1, Zenon
    <2>8. /\ g \in Nat \ {0} /\ h \in g .. N
          /\ \A x \in 1 .. u : (h - 1) + x = a + (m + x) /\ m + x \in 1 .. m + u + 1 + w
          /\ h + u = a + (m + u + 1) /\ m + u + 1 \in 1 .. m + u + 1 + w
          /\ \A x \in 1 .. w : h + u + x = a + (m + u + 1 + x)
                               /\ m + u + 1 + x \in 1 .. m + u + 1 + w
          /\ a + (m + u + 1 + w) = h + u + w
          /\ (a + (m + u + 1 + w)) + 2 = h + u + w + 2
          /\ (a + (m + u + 1 + w)) + 1 = h + u + w + 1
      BY ONLY <2>6, <2>7, <1>10, a \in Nat, m \in Nat, u \in Nat, w \in Nat, S \in Nat, N \in Nat
    <2>9. ASSUME NEW i \in g .. (h - 1) PROVE header[i] \in {" ", ";"}
      <3>1. CASE k = 1
        <4>1. g = 1 /\ a = 0 /\ m = 0 /\ h = a + m + 1
          BY <2>5, <3>1, Zenon
        <4>2. g .. (h - 1) = {}
          BY ONLY <4>1
        <4> QED
          BY <4>2, Zenon
      <3>2. CASE k # 1
        <4>1. g = a + 2 /\ h = a + m + 1 /\ m = S
          BY <2>5, <3>2, Zenon
        <4>2. i - a \in 1 .. m /\ a + (i - a) = i /\ i - a \in 1 .. m + u + 1 + w
          BY ONLY <4>1, i \in g .. (h - 1), a \in Nat, m \in Nat, u \in Nat, w \in Nat
        <4>3. PICK x \in 1 .. m : a + x = i /\ x \in 1 .. m + u + 1 + w
          BY <4>2, Zenon
        <4>4. header[i] = sep[x]
          BY <2>2, <2>3, <3>2, <4>3, Zenon
        <4>5. sep[x] \in {" ", ";"}
          BY <1>9, <4>1, <4>3, Zenon
        <4> QED
          BY <4>4, <4>5, Zenon
      <3> QED
        BY <3>1, <3>2, Zenon
    <2>10. ASSUME NEW x \in 1 .. u PROVE header[(h - 1) + x] = jar[k].name[x]
      <3>1. m + x \in 1 .. m + u + 1 + w /\ (h - 1) + x = a + (m + x)
        BY <2>8, Zenon
      <3>2. header[a + (m + x)] = p[m + x] /\ p[m + x] = jar[k].name[x]
        BY <2>2, <2>3, <3>1, Zenon
      <3> QED
        BY <3>1, <3>2, Zenon
    <2>11. header[h + u] = "="
      BY <2>2, <2>3, <2>8, Zenon
    <2>12. ASSUME NEW x \in 1 .. w PROVE header[h + u + x] = jar[k].value[x]
      <3>1. m + u + 1 + x \in 1 .. m + u + 1 + w /\ h + u + x = a + (m + u + 1 + x)
        BY <2>8, Zenon
      <3>2. header[a + (m + u + 1 + x)] = p[m + u + 1 + x] /\ p[m + u + 1 + x] = jar[k].value[x]
        BY <2>2, <2>3, <3>1, Zenon
      <3> QED
        BY <3>1, <3>2, Zenon
    <2>13. k = n => N = h + u + w
      BY <1>8, <1>9, <2>5, <2>8, Zenon
    <2>14. ASSUME k # n PROVE h + u + w + 1 <= N /\ header[h + u + w + 1] = ";"
      <3>1. k + 1 \in 1 .. n /\ (k + 1) - 1 = k /\ k + 1 # 1
        <4>1. n \in Nat /\ k \in 1 .. n /\ k # n
          BY <1>1, <2>14, Zenon
        <4> QED
          BY ONLY <4>1
      <3>2. PICK c \in Nat : c = Len(pieces[k + 1]) /\ c >= S
        <4>1. PICK x \in Nat, y \in Nat : x = L(k + 1) /\ y = M(k + 1)
          BY <1>3, <3>1, Zenon
        <4>2. Len(pieces[k + 1]) = S + x + 1 + y
          BY <1>3, <1>11, <3>1, <4>1, Zenon
        <4>3. S + x + 1 + y \in Nat /\ S + x + 1 + y >= S
          BY ONLY S \in Nat, x \in Nat, y \in Nat
        <4> QED
          BY <4>2, <4>3, Zenon
      <3>3. 1 \in 1 .. c /\ 1 \in 1 .. S
        BY ONLY c \in Nat, S \in Nat, <3>2, <1>10
      <3>4. pieces[k + 1][1] = ";"
        <4>1. l(k + 1) = S
          BY <1>11, <3>1, Zenon
        <4>2. \A x \in 1 .. l(k + 1) : pieces[k + 1][x] = sep[x]
          BY <1>3, <3>1, Zenon
        <4> QED
          BY <3>3, <4>1, <4>2, Zenon
      <3>5. e[k] + 1 \in 1 .. N /\ header[e[k] + 1] = pieces[k + 1][1]
        <4>1. /\ e[(k + 1) - 1] + 1 \in 1 .. Len(header)
              /\ header[e[(k + 1) - 1] + 1] = pieces[k + 1][1]
          BY <1>8, <3>1, <3>2, <3>3, Zenon
        <4> QED
          BY <1>9, <3>1, <4>1, Zenon
      <3>6. e[k] + 1 = h + u + w + 1
        BY <2>5, <2>8, Zenon
      <3>7. \A x \in 1 .. N : x <= N
        BY ONLY N \in Nat
      <3> QED
        BY <3>4, <3>5, <3>6, <3>7, Zenon
    <2>15. o[k + 1] = h + u + w + 2
      BY <2>5, <2>8, Zenon
    <2> QED
      BY <2>1, <2>4, <2>8, <2>9, <2>10, <2>11, <2>12, <2>13, <2>14, <2>15, Zenon
  <1>14. Baked(header, jar, o, s)
    BY <1>9, <1>12, <1>13, Zenon DEF Baked, L, M
  <1>15. n = 0 => Len(header) = 0
    BY <1>8, Zenon
  <1> QED
    BY <1>6, <1>7, <1>14, <1>15, Zenon

\* The first cookie named session is found, wherever it is in the header, and no part
\* of a name or a value is taken for it.
THEOREM CookiesAreFound ==
  ASSUME NEW A, "=" \in A, NEW jar \in Seq(Cookies(A)),
         \A k \in 1 .. Len(jar) : \A x \in 1 .. Len(jar[k].name) :
           jar[k].name[x] \notin {"=", " ", ";"},
         \A k \in 1 .. Len(jar) : \A x \in 1 .. Len(jar[k].value) : jar[k].value[x] # ";",
         NEW sep \in Seq(A), \A x \in 1 .. Len(sep) : sep[x] \in {" ", ";"},
         Len(sep) # 0, sep[1] = ";"
  PROVE  SessionOf(Header(jar, sep)) = TokenIn(jar)
  <1>1. PICK header \in Seq(A) : header = Header(jar, sep)
    BY HeaderIs, Zenon
  <1>2. PICK o, s : Baked(header, jar, o, s)
    BY <1>1, HeaderIs, Zenon
  <1>3. PICK n \in Nat : n = Len(jar)
    BY LenProperties, Zenon
  <1>4. /\ DOMAIN jar = 1 .. n
        /\ \A k \in 1 .. n : jar[k] \in Cookies(A)
    BY ONLY <1>3, jar \in Seq(Cookies(A)), LenProperties, ElementOfSeq
  <1>5. \A k \in 1 .. n : jar[k].name \in Seq(A) /\ jar[k].value \in Seq(A)
    BY ONLY <1>4 DEF Cookies
  <1>6. PICK from :
          /\ SessionOf(header) = from[1]
          /\ \A i \in 1 .. Len(header) + 1 :
               from[i] = IF Equals(header, i) > Len(header) THEN None
                         ELSE IF NameAt(header, i) = <<"session">> THEN ValueAt(header, i)
                         ELSE IF Semicolon(header, i) > Len(header) THEN None
                         ELSE from[Semicolon(header, i) + 1]
    BY SessionIs, Zenon
  <1>7. ASSUME NEW k \in 1 .. n
        PROVE  /\ jar[k].name = <<"session">> => from[o[k]] = jar[k].value
               /\ jar[k].name # <<"session">> =>
                    from[o[k]] = IF k = n THEN None ELSE from[o[k + 1]]
    <2>1. k \in 1 .. Len(jar) /\ CookieAt(header, jar, o, k)
      <3>1. \A j \in 1 .. Len(jar) : jar[j].name \in Seq(A) /\ jar[j].value \in Seq(A)
        BY <1>3, <1>5, Zenon
      <3>2. \A j \in 1 .. Len(jar) : CookieAt(header, jar, o, j)
        BY <1>2, <3>1, CookieIsRead, Zenon
      <3> QED
        BY <1>3, <3>2, Zenon
    <2>2. /\ o[k] \in 1 .. Len(header) + 1
          /\ ~(Equals(header, o[k]) > Len(header))
          /\ NameAt(header, o[k]) = jar[k].name
          /\ ValueAt(header, o[k]) = jar[k].value
          /\ IF k = Len(jar) THEN Semicolon(header, o[k]) > Len(header)
             ELSE /\ ~(Semicolon(header, o[k]) > Len(header))
                  /\ Semicolon(header, o[k]) + 1 = o[k + 1]
      BY <2>1, Zenon DEF CookieAt
    <2>3. from[o[k]] = IF jar[k].name = <<"session">> THEN jar[k].value
                       ELSE IF Semicolon(header, o[k]) > Len(header) THEN None
                       ELSE from[Semicolon(header, o[k]) + 1]
      BY <1>6, <2>2, Zenon
    <2>4. CASE k = n
      <3>1. Semicolon(header, o[k]) > Len(header)
        BY <1>3, <2>2, <2>4, Zenon
      <3> QED
        BY <2>3, <2>4, <3>1, Zenon
    <2>5. CASE k # n
      <3>1. /\ ~(Semicolon(header, o[k]) > Len(header))
            /\ Semicolon(header, o[k]) + 1 = o[k + 1]
        BY <1>3, <2>2, <2>5, Zenon
      <3> QED
        BY <2>3, <2>5, <3>1, Zenon
    <2> QED
      BY <2>4, <2>5, Zenon
  <1>8. o[1] = 1
    BY <1>2, Zenon DEF Baked
  <1> DEFINE S == {k \in DOMAIN jar : jar[k].name = <<"session">>}
  <1>9. CASE n = 0
    <2>1. Len(header) = 0 /\ 1 \in Nat
      BY <1>1, <1>3, <1>9, HeaderIs, Zenon
    <2>2. Skip(header, 1) = 1
      <3>1. Skip(header, 1) \in 1 .. 0 \/ Skip(header, 1) = 0 + 1
        BY <2>1, SkipTyped, Zenon
      <3>2. 1 .. 0 = {} /\ 0 + 1 = 1
        BY ONLY TRUE
      <3> QED
        BY <3>1, <3>2, Zenon
    <2>3. Equals(header, 1) = 0 + 1
      <3>1. \A i \in 1 .. Len(header) : header[i] # "="
        <4>1. 1 .. 0 = {}
          BY ONLY TRUE
        <4> QED
          BY <2>1, <4>1, Zenon
      <3>2. Find(header, "=", 1) = Len(header) + 1
        BY <3>1, FindNone, Zenon
      <3> QED
        BY <2>1, <2>2, <3>2, Zenon DEF Equals
    <2>4. from[1] = None
      <3>1. 0 + 1 > 0 /\ 1 \in 1 .. 0 + 1
        BY ONLY TRUE
      <3> QED
        BY <1>6, <2>1, <2>3, <3>1, Zenon
    <2>5. S = {}
      <3>1. 1 .. n = {}
        BY ONLY <1>9
      <3> QED
        BY <1>4, <3>1, Zenon
    <2> QED
      BY <1>1, <1>6, <2>4, <2>5, Zenon DEF TokenIn
  <1>10. CASE n # 0 /\ S = {}
    <2>1. PICK j \in Nat : /\ j + 1 = n
                           /\ \A k \in 1 .. j : k \in 1 .. n /\ k # n
                           /\ n \in 1 .. n
      <3>1. n \in Nat /\ n # 0
        BY <1>10, Zenon
      <3>2. /\ n - 1 \in Nat /\ (n - 1) + 1 = n
            /\ \A k \in 1 .. (n - 1) : k \in 1 .. n /\ k # n
            /\ n \in 1 .. n
        BY ONLY <3>1
      <3> QED
        BY <3>2, Zenon
    <2>2. \A k \in 1 .. n : jar[k].name # <<"session">>
      BY <1>4, <1>10, Zenon
    <2>3. \A k \in 1 .. j : from[o[k]] = from[o[k + 1]]
      BY <1>7, <2>1, <2>2, Zenon
    <2>4. from[o[1]] = from[o[j + 1]]
      BY ONLY j \in Nat, <2>3, Walk
    <2>5. from[o[n]] = None
      BY <1>7, <2>1, <2>2, Zenon
    <2>6. from[1] = None
      BY <1>8, <2>1, <2>4, <2>5, Zenon
    <2> QED
      BY <1>1, <1>6, <1>10, <2>6, Zenon DEF TokenIn
  <1>11. CASE S # {}
    <2>1. PICK m \in S : \A k \in S : m <= k
      <3>1. S \subseteq Nat
        <4>1. \A k \in 1 .. n : k \in Nat
          BY ONLY n \in Nat
        <4> QED
          BY <1>4, <4>1, Zenon
      <3> HIDE DEF S
      <3> QED
        BY <1>11, <3>1, LeastOf, Zenon
    <2>2. m \in 1 .. n /\ jar[m].name = <<"session">>
      BY <1>4, <2>1, Zenon
    <2>3. PICK j \in Nat : /\ j + 1 = m
                           /\ \A k \in 1 .. j : k \in 1 .. n /\ k # n /\ ~(m <= k)
      <3>1. m \in 1 .. n
        BY <2>2, Zenon
      <3>2. /\ m - 1 \in Nat /\ (m - 1) + 1 = m
            /\ \A k \in 1 .. (m - 1) : k \in 1 .. n /\ k # n /\ ~(m <= k)
        BY ONLY n \in Nat, <3>1
      <3> QED
        BY <3>2, Zenon
    <2>4. \A k \in 1 .. j : jar[k].name # <<"session">>
      BY <1>4, <2>1, <2>3, Zenon
    <2>5. \A k \in 1 .. j : from[o[k]] = from[o[k + 1]]
      BY <1>7, <2>3, <2>4, Zenon
    <2>6. from[o[1]] = from[o[j + 1]]
      BY ONLY j \in Nat, <2>5, Walk
    <2>7. from[1] = jar[m].value
      BY <1>7, <1>8, <2>2, <2>3, <2>6, Zenon
    <2>8. (CHOOSE i \in S : \A k \in S : i <= k) = m
      <3>1. PICK c : c = CHOOSE i \in S : \A k \in S : i <= k
        BY Zenon
      <3>2. c \in S /\ c <= m /\ m <= c
        <4> HIDE DEF S
        <4> QED
          BY <2>1, <3>1, Zenon
      <3>3. c \in 1 .. n
        BY <1>4, <3>2, Zenon
      <3>4. c = m
        <4>1. c \in 1 .. n /\ m \in 1 .. n /\ c <= m /\ m <= c
          BY <2>2, <3>2, <3>3, Zenon
        <4> QED
          BY ONLY <4>1, n \in Nat
      <3> QED
        BY <3>1, <3>4, Zenon
    <2>9. TokenIn(jar) = jar[CHOOSE i \in S : \A k \in S : i <= k].value
      BY <1>11, Zenon DEF TokenIn
    <2> HIDE DEF S
    <2> QED
      BY <1>1, <1>6, <2>7, <2>8, <2>9, Zenon
  <1> QED
    BY <1>9, <1>10, <1>11, Zenon

\* No header of the runs is misread.
LEMMA NoneMisread == Misread = {}
  <1> DEFINE A == {"session", "theme", "my", "t", "=", ";", " "}
  <1>1. ASSUME NEW jar \in Jars
        PROVE  /\ jar \in Seq(Cookies(A))
               /\ \A k \in 1 .. Len(jar) : \A x \in 1 .. Len(jar[k].name) :
                    jar[k].name[x] \notin {"=", " ", ";"}
               /\ \A k \in 1 .. Len(jar) : \A x \in 1 .. Len(jar[k].value) :
                    jar[k].value[x] # ";"
    <2>1. PICK m \in 0 .. 3 : jar \in [1 .. m -> Pairs]
      BY Zenon DEF Jars, BoundedSeq, SeqOf
    <2>2. ASSUME NEW p \in Pairs
          PROVE  /\ p \in Cookies(A)
                 /\ \A x \in 1 .. Len(p.name) : p.name[x] \notin {"=", " ", ";"}
                 /\ \A x \in 1 .. Len(p.value) : p.value[x] # ";"
      <3>1. /\ p.name \in {<<"session">>, <<"theme">>, <<"my", "session">>}
            /\ p.value \in {<<>>, <<"t">>, <<"session", "=", "t">>}
            /\ p = [name |-> p.name, value |-> p.value]
        BY Zenon DEF Pairs
      <3>2. ASSUME NEW t \in {<<"session">>, <<"theme">>, <<"my", "session">>}
            PROVE  t \in Seq(A) /\ \A x \in 1 .. Len(t) : t[x] \notin {"=", " ", ";"}
        <4> DEFINE B == {"session", "theme", "my"}
        <4>1. {<<"session">>, <<"theme">>, <<"my", "session">>} \subseteq Seq(B)
          OBVIOUS
        <4>2. B \subseteq A /\ \A x \in B : x \notin {"=", " ", ";"}
          BY Zenon
        <4> HIDE DEF A, B
        <4> QED
          BY <4>1, <4>2, Wider, Zenon
      <3>3. ASSUME NEW t \in {<<>>, <<"t">>, <<"session", "=", "t">>}
            PROVE  t \in Seq(A) /\ \A x \in 1 .. Len(t) : t[x] # ";"
        <4> DEFINE B == {"t", "session", "="}
        <4>1. {<<>>, <<"t">>, <<"session", "=", "t">>} \subseteq Seq(B)
          OBVIOUS
        <4>2. B \subseteq A /\ \A x \in B : x # ";"
          BY Zenon
        <4> HIDE DEF A, B
        <4> QED
          BY <4>1, <4>2, Wider, Zenon
      <3> HIDE DEF A
      <3>4. p \in Cookies(A)
        BY <3>1, <3>2, <3>3, Zenon DEF Cookies
      <3> QED
        BY <3>1, <3>2, <3>3, <3>4, Zenon
    <2> HIDE DEF A
    <2>3. PICK C : C = Cookies(A)
      OBVIOUS
    <2>4. jar \in [1 .. m -> C]
      BY <2>1, <2>2, <2>3
    <2>5. \A b \in Nat : \A f \in [1 .. b -> C] : f \in Seq(C) /\ Len(f) = b
      BY ONLY TRUE
    <2>6. m \in Nat
      BY ONLY m \in 0 .. 3
    <2>7. jar \in Seq(C) /\ Len(jar) = m
      BY <2>4, <2>5, <2>6, Zenon
    <2>8. \A k \in 1 .. Len(jar) : jar[k] \in Pairs
      BY <2>1, <2>7, Zenon
    <2> QED
      BY <2>2, <2>3, <2>7, <2>8, Zenon
  <1>2. ASSUME NEW sep \in Separators
        PROVE  /\ sep \in Seq(A) /\ \A x \in 1 .. Len(sep) : sep[x] \in {" ", ";"}
               /\ Len(sep) # 0 /\ sep[1] = ";"
    <2> DEFINE B == {" ", ";"}
    <2>1. sep = <<";">> \/ sep = <<";", " ">>
      BY Zenon DEF Separators
    <2>2. {<<";", " ">>, <<";">>} \subseteq Seq(B)
      OBVIOUS
    <2>3. B \subseteq A /\ " " \in B /\ ";" \in B /\ \A x \in B : x \in {" ", ";"}
      BY Zenon
    <2> HIDE DEF A, B
    <2>4. sep \in Seq(A) /\ \A x \in 1 .. Len(sep) : sep[x] \in {" ", ";"}
      BY <2>2, <2>3, Wider, Zenon DEF Separators
    <2>5. Len(sep) # 0 /\ sep[1] = ";"
      BY <2>1, <2>3, Starts, Zenon
    <2> QED
      BY <2>4, <2>5, Zenon
  <1>3. "=" \in A
    BY Zenon
  <1> HIDE DEF A
  <1>4. ASSUME NEW jar \in Jars, NEW sep \in Separators
        PROVE  SessionOf(Header(jar, sep)) = TokenIn(jar)
    BY <1>1, <1>2, <1>3, CookiesAreFound, Zenon
  <1> QED
    BY <1>4, Zenon DEF Misread

(***************************************************************************)
(* The files: f holds lines up to number n, in order.                      *)
(***************************************************************************)
Ordered(f, n) ==
  \A i, j \in Files : \A x \in DOMAIN f[i], y \in DOMAIN f[j] :
    /\ f[i][x] <= n
    /\ i > j \/ (i = j /\ x < y) => f[i][x] < f[j][y]

Typed(f) == f \in [Files -> Seq(1 .. MaxWritten)]

\* A file that is moved on is emptied or replaced in the same rotation, so that
\* no two places hold one file, whichever renames fail.
LEMMA ShiftOrdered ==
  ASSUME Typed(file), Ordered(file, written), NEW failed
  PROVE  Typed(Shift(failed)) /\ Ordered(Shift(failed), written)
  <1> DEFINE f == Shift(failed)
  <1>1. \A i \in Files : \/ Moves(i, failed) /\ i - 1 \in Files /\ f[i] = file[i - 1]
                         \/ ~Moves(i, failed) /\ Moves(i + 1, failed) /\ f[i] = <<>>
                         \/ /\ ~Moves(i, failed) /\ ~Moves(i + 1, failed)
                            /\ f[i] = file[i]
    BY LogAssumption DEF Shift, Moves, Files
  <1>2. Typed(f)
    <2>1. ASSUME NEW i \in Files PROVE f[i] \in Seq(1 .. MaxWritten)
      <3>1. \A k \in Files : file[k] \in Seq(1 .. MaxWritten)
        BY DEF Typed
      <3>2. <<>> \in Seq(1 .. MaxWritten)
        OBVIOUS
      <3> HIDE DEF f
      <3> QED
        BY <1>1, <3>1, <3>2
    <2> QED
      BY <2>1 DEF Typed, Shift
  <1>3. ASSUME NEW i \in Files, NEW j \in Files, NEW x \in DOMAIN f[i], NEW y \in DOMAIN f[j]
        PROVE  /\ f[i][x] <= written
               /\ i > j \/ (i = j /\ x < y) => f[i][x] < f[j][y]
    <2> HIDE DEF f
    <2> DEFINE From(k) == IF Moves(k, failed) THEN k - 1 ELSE k
    <2>1. \A k \in Files : f[k] # <<>> => From(k) \in Files /\ f[k] = file[From(k)]
      BY <1>1
    <2>2. f[i] # <<>> /\ f[j] # <<>>
      OBVIOUS
    <2>3. ASSUME i > j PROVE From(i) > From(j)
      <3>1. CASE Moves(i, failed) /\ ~Moves(j, failed)
        <4>1. j # i - 1
          <5>1. SUFFICES ASSUME j = i - 1 PROVE FALSE
            OBVIOUS
          <5>2. j + 1 = i
            BY <5>1 DEF Files
          <5> QED
            BY <5>2, <3>1, <1>1, <2>2
        <4> QED
          BY <4>1, <3>1, <2>3 DEF Files
      <3> QED
        BY <3>1, <2>3 DEF Files
    <2> QED
      BY <2>1, <2>2, <2>3 DEF Ordered
  <1> QED
    BY <1>2, <1>3 DEF Ordered

LEMMA AppendOrdered ==
  ASSUME NEW f, Typed(f), Ordered(f, written), written \in 0 .. MaxWritten,
         written < MaxWritten, NEW opened \in BOOLEAN
  PROVE  Typed(Appended(f, opened)) /\ Ordered(Appended(f, opened), written + 1)
  <1>1. 0 \in Files /\ written + 1 \in 1 .. MaxWritten
    BY LogAssumption, LogBounds DEF Files
  <1>2. \A i \in Files : \A x \in DOMAIN f[i] : f[i][x] \in Nat
    <2> SUFFICES ASSUME NEW i \in Files, NEW x \in DOMAIN f[i] PROVE f[i][x] \in Nat
      OBVIOUS
    <2>1. f[i] \in Seq(1 .. MaxWritten)
      BY DEF Typed
    <2>2. f[i][x] \in 1 .. MaxWritten
      BY <2>1, LogBounds
    <2> QED
      BY <2>2
  <1> DEFINE g == Appended(f, opened)
  <1>3. CASE ~opened
    BY <1>1, <1>2, <1>3 DEF Appended, Ordered, Files
  <1>4. CASE opened
    <2>1. g = [f EXCEPT ![0] = Append(f[0], written + 1)]
      BY <1>4 DEF Appended
    <2>2. Typed(g)
      BY <2>1, <1>1 DEF Typed
    <2>3. \A i \in Files : i # 0 => g[i] = f[i]
      BY <2>1 DEF Typed
    <2>4. /\ DOMAIN g[0] = 1 .. Len(f[0]) + 1
          /\ \A x \in 1 .. Len(f[0]) : x \in DOMAIN f[0] /\ g[0][x] = f[0][x]
          /\ g[0][Len(f[0]) + 1] = written + 1
          /\ Len(f[0]) \in Nat
      BY <2>1, <1>1 DEF Typed
    <2>5. Ordered(g, written + 1)
      <3> HIDE DEF g
      <3> SUFFICES ASSUME NEW i \in Files, NEW j \in Files,
                          NEW x \in DOMAIN g[i], NEW y \in DOMAIN g[j]
                   PROVE  /\ g[i][x] <= written + 1
                          /\ i > j \/ (i = j /\ x < y) => g[i][x] < g[j][y]
        BY DEF Ordered
      <3>1. CASE i = 0 /\ x = Len(f[0]) + 1
        BY <3>1, <2>4, <1>1 DEF Files
      <3>2. (x \in DOMAIN f[i] /\ g[i][x] = f[i][x]) \/ (i = 0 /\ x = Len(f[0]) + 1)
        BY <2>3, <2>4
      <3>3. (y \in DOMAIN f[j] /\ g[j][y] = f[j][y]) \/ (j = 0 /\ y = Len(f[0]) + 1)
        BY <2>3, <2>4
      <3>4. CASE x \in DOMAIN f[i] /\ g[i][x] = f[i][x]
        <4>1. f[i][x] <= written /\ f[i][x] \in Nat
          BY <3>4, <1>2 DEF Ordered
        <4>2. CASE y \in DOMAIN f[j] /\ g[j][y] = f[j][y]
          BY <3>4, <4>1, <4>2, <1>1 DEF Ordered
        <4>3. CASE j = 0 /\ y = Len(f[0]) + 1
          BY <3>4, <4>1, <4>3, <2>4, <1>1
        <4> QED
          BY <4>2, <4>3, <3>3
      <3> QED
        BY <3>1, <3>2, <3>4
    <2> QED
      BY <2>2, <2>5
  <1> QED
    BY <1>3, <1>4

LEMMA WriteOrdered ==
  ASSUME LogTypeOK, Ordered(file, written), Write
  PROVE  LogTypeOK' /\ Ordered(file', written')
  <1>1. /\ Typed(file) /\ written \in 0 .. MaxWritten /\ written < MaxWritten
        /\ written' = written + 1 /\ written' \in 0 .. MaxWritten
    BY LogBounds DEF LogTypeOK, Typed, Write
  <1>2. CASE ~Due /\ file' = Appended(file, open) /\ UNCHANGED <<open, faults>>
    <2>1. Typed(file') /\ Ordered(file', written')
      BY <1>1, <1>2, AppendOrdered DEF LogTypeOK
    <2> QED
      BY <1>1, <1>2, <2>1 DEF LogTypeOK, Typed
  <1>3. ASSUME NEW failed \in SUBSET {i \in 1 .. Backups : file[i - 1] # <<>>},
               faults' = faults + Cardinality(failed), faults' <= MaxFaults,
               open' \in BOOLEAN, file' = Appended(Shift(failed), open')
        PROVE  LogTypeOK' /\ Ordered(file', written')
    <2>1. Typed(Shift(failed)) /\ Ordered(Shift(failed), written)
      BY <1>1, ShiftOrdered
    <2>2. Typed(file') /\ Ordered(file', written')
      <3> DEFINE f == Shift(failed)
      <3>1. Typed(f) /\ Ordered(f, written)
        BY <2>1
      <3> HIDE DEF f
      <3>2. Typed(Appended(f, open')) /\ Ordered(Appended(f, open'), written + 1)
        BY <1>1, <1>3, <3>1, AppendOrdered
      <3> QED
        BY <1>1, <1>3, <3>2 DEF f
    <2>3. faults' \in 0 .. MaxFaults
      <3>1. IsFiniteSet(1 .. Backups)
        BY LogAssumption, FS_Interval
      <3>2. Cardinality(failed) \in Nat
        BY <3>1, FS_Subset, FS_CardinalityType
      <3> QED
        BY <3>2, <1>3, LogBounds DEF LogTypeOK
    <2> QED
      BY <1>1, <1>3, <2>2, <2>3 DEF LogTypeOK, Typed
  <1> QED
    BY <1>2, <1>3 DEF Write

(***************************************************************************)
(* Counting lines.                                                         *)
(***************************************************************************)

LEMMA Distributes ==
  ASSUME NEW a \in Int, NEW b \in Int, NEW c \in Int
  PROVE  (a + b) * c = a * c + b * c
  OBVIOUS

\* The lines of the files in S.
Lines(f, S) == UNION {ToSet(f[i]) : i \in S}

Cap(n) == IF n < MaxLines THEN n ELSE MaxLines

\* The first lines of a file, as many as a full one has; and those of backups 1 to j.
Top(f, i) == {f[i][x] : x \in 1 .. Cap(Len(f[i]))}
Tops(f, I) == UNION {Top(f, i) : i \in I}

LEMMA FileLines ==
  ASSUME NEW f, Typed(f), NEW i \in Files
  PROVE  /\ Len(f[i]) \in Nat /\ DOMAIN f[i] = 1 .. Len(f[i])
         /\ \A x \in 1 .. Len(f[i]) : f[i][x] \in 1 .. MaxWritten
         /\ Cap(Len(f[i])) \in 0 .. Len(f[i]) /\ Cap(Len(f[i])) \in 0 .. MaxLines
         /\ Top(f, i) \subseteq ToSet(f[i]) /\ ToSet(f[i]) \subseteq 1 .. MaxWritten
  <1>1. f[i] \in Seq(1 .. MaxWritten)
    BY DEF Typed
  <1>2. Len(f[i]) \in Nat /\ DOMAIN f[i] = 1 .. Len(f[i])
    BY <1>1
  <1>3. \A x \in 1 .. Len(f[i]) : f[i][x] \in 1 .. MaxWritten
    BY <1>1, LogBounds
  <1>4. Cap(Len(f[i])) \in 0 .. Len(f[i]) /\ Cap(Len(f[i])) \in 0 .. MaxLines
    BY <1>2, LogAssumption DEF Cap
  <1>5. ToSet(f[i]) \subseteq 1 .. MaxWritten
    BY <1>2, <1>3 DEF ToSet
  <1>6. Top(f, i) \subseteq ToSet(f[i])
    BY <1>2, <1>4 DEF Top, ToSet
  <1> QED
    BY <1>2, <1>3, <1>4, <1>5, <1>6

LEMMA FiniteLines ==
  ASSUME NEW S \in SUBSET (1 .. MaxWritten)
  PROVE  IsFiniteSet(S) /\ Cardinality(S) \in Nat
  <1>1. IsFiniteSet(1 .. MaxWritten)
    BY LogBounds, FS_Interval
  <1>2. IsFiniteSet(S)
    BY <1>1, FS_Subset
  <1> QED
    BY <1>2, FS_CardinalityType

LEMMA LinesTyped ==
  ASSUME NEW f, Typed(f), NEW S \in SUBSET Files
  PROVE  /\ Lines(f, S) \subseteq 1 .. MaxWritten /\ Tops(f, S) \subseteq Lines(f, S)
         /\ IsFiniteSet(Lines(f, S)) /\ Cardinality(Lines(f, S)) \in Nat
         /\ IsFiniteSet(Tops(f, S)) /\ Cardinality(Tops(f, S)) \in Nat
  <1>1. Lines(f, S) \subseteq 1 .. MaxWritten
    BY FileLines DEF Lines
  <1>2. Tops(f, S) \subseteq Lines(f, S)
    BY FileLines DEF Lines, Tops
  <1> QED
    BY <1>1, <1>2, FiniteLines

\* The lines at the places 1..n of an ordered file are n.
LEMMA PlacesCount ==
  ASSUME NEW f, Typed(f), NEW m, Ordered(f, m), NEW i \in Files, NEW n \in 0 .. Len(f[i])
  PROVE  Cardinality({f[i][x] : x \in 1 .. n}) = n
  <1> DEFINE T == {f[i][x] : x \in 1 .. n}
             g == [x \in 1 .. n |-> f[i][x]]
  <1>1. n \in Nat /\ 1 .. n \subseteq DOMAIN f[i]
    BY FileLines
  <1>2. g \in [1 .. n -> T] /\ \A t \in T : \E x \in 1 .. n : g[x] = t
    OBVIOUS
  <1>3. ASSUME NEW x \in 1 .. n, NEW y \in 1 .. n, g[x] = g[y] PROVE x = y
    <2>1. f[i][x] = f[i][y] /\ x \in DOMAIN f[i] /\ y \in DOMAIN f[i]
      BY <1>1, <1>3
    <2>2. f[i][x] \in Nat
      BY <1>1, FileLines
    <2>3. ~(x < y) /\ ~(y < x)
      BY <2>1, <2>2 DEF Ordered
    <2> QED
      BY <2>3
  <1>4. g \in Injection(1 .. n, T) /\ g \in Surjection(1 .. n, T)
    BY <1>2, <1>3, Fun_IsInj, Fun_IsSurj
  <1>5. IsFiniteSet(1 .. n) /\ Cardinality(1 .. n) = n
    BY <1>1, FS_Interval
  <1> HIDE DEF T, g
  <1>6. Cardinality(T) = n
    BY <1>4, <1>5, FS_Surjection
  <1> QED
    BY <1>6 DEF T

LEMMA TopCount ==
  ASSUME NEW f, Typed(f), NEW m, Ordered(f, m), NEW i \in Files
  PROVE  Cardinality(Top(f, i)) = Cap(Len(f[i]))
  BY PlacesCount, FileLines DEF Top

\* No line is in two files.
LEMMA Apart ==
  ASSUME NEW f, Typed(f), NEW m, Ordered(f, m), NEW i \in Files, NEW j \in Files, i # j
  PROVE  ToSet(f[i]) \cap ToSet(f[j]) = {}
  <1> SUFFICES ASSUME NEW x \in DOMAIN f[i], NEW y \in DOMAIN f[j], f[i][x] = f[j][y]
               PROVE  FALSE
    BY DEF ToSet
  <1>1. f[i][x] \in Nat /\ f[j][y] \in Nat
    BY FileLines
  <1>2. i > j \/ j > i
    BY LogAssumption DEF Files
  <1> QED
    BY <1>1, <1>2 DEF Ordered

LEMMA Subadditive ==
  ASSUME NEW S, NEW T, IsFiniteSet(S), IsFiniteSet(T)
  PROVE  /\ IsFiniteSet(S \cup T) /\ Cardinality(S \cup T) <= Cardinality(S) + Cardinality(T)
         /\ S \cap T = {} => Cardinality(S \cup T) = Cardinality(S) + Cardinality(T)
  <1>1. IsFiniteSet(S \cap T) /\ Cardinality(S \cap T) \in Nat
    BY FS_Intersection, FS_CardinalityType
  <1>2. Cardinality(S) \in Nat /\ Cardinality(T) \in Nat
    BY FS_CardinalityType
  <1>3. S \cap T = {} => Cardinality(S \cap T) = 0
    BY FS_EmptySet
  <1> QED
    BY <1>1, <1>2, <1>3, FS_Union

\* The first lines of k files are at most k full files of them.
LEMMA TopsCount ==
  ASSUME NEW f, Typed(f), NEW I \in SUBSET Files, IsFiniteSet(I)
  PROVE  Cardinality(Tops(f, I)) <= Cardinality(I) * MaxLines
  <1> DEFINE P == {p \in I \X (1 .. MaxLines) : p[2] <= Len(f[p[1]])}
             T == Tops(f, I)
             g == [p \in P |-> f[p[1]][p[2]]]
  <1>1. \A p \in P : p[1] \in I /\ p[2] \in 1 .. Cap(Len(f[p[1]]))
    BY LogAssumption, FileLines DEF Cap
  <1>2. g \in [P -> T]
    BY <1>1 DEF Tops, Top
  <1>3. ASSUME NEW t \in T PROVE \E p \in P : g[p] = t
    <2>1. PICK i \in I : \E x \in 1 .. Cap(Len(f[i])) : t = f[i][x]
      BY DEF Tops, Top
    <2>4. PICK x \in 1 .. Cap(Len(f[i])) : t = f[i][x]
      BY <2>1
    <2>2. x \in 1 .. MaxLines /\ x <= Len(f[i])
      <3>1. /\ Len(f[i]) \in Nat /\ MaxLines \in Nat
            /\ Cap(Len(f[i])) \in 0 .. Len(f[i]) /\ Cap(Len(f[i])) \in 0 .. MaxLines
        BY FileLines, LogAssumption
      <3> QED
        BY <3>1
    <2>3. <<i, x>> \in P /\ g[<<i, x>>] = t
      BY <2>4, <2>2
    <2> QED
      BY <2>3
  <1>4. g \in Surjection(P, T)
    BY <1>2, <1>3, Fun_IsSurj
  <1>5. /\ IsFiniteSet(1 .. MaxLines) /\ Cardinality(1 .. MaxLines) = MaxLines
        /\ MaxLines \in Nat
    BY LogAssumption, FS_Interval
  <1>6. /\ IsFiniteSet(I \X (1 .. MaxLines))
        /\ Cardinality(I \X (1 .. MaxLines)) = Cardinality(I) * MaxLines
    BY <1>5, FS_Product
  <1>7. P \in SUBSET (I \X (1 .. MaxLines))
    OBVIOUS
  <1> HIDE DEF P, g, T
  <1>8. IsFiniteSet(P) /\ Cardinality(P) <= Cardinality(I) * MaxLines
    BY <1>6, <1>7, FS_Subset
  <1>9. IsFiniteSet(T) /\ Cardinality(T) <= Cardinality(P)
    BY <1>4, <1>8, FS_Surjection
  <1>10. Cardinality(T) \in Nat /\ Cardinality(P) \in Nat /\ Cardinality(I) \in Nat
    BY <1>8, <1>9, FS_CardinalityType
  <1>11. Cardinality(T) <= Cardinality(I) * MaxLines
    BY <1>5, <1>8, <1>9, <1>10
  <1> QED
    BY <1>11 DEF T

(***************************************************************************)
(* What a rotation and an append do to the files.                          *)
(***************************************************************************)

\* A file that does not move stays where it is unless another one takes its
\* place; the current file, once moved, leaves nothing behind.
LEMMA ShiftMoves ==
  ASSUME Typed(file), NEW failed
  PROVE  /\ \A i \in Files : \/ i - 1 \in Files /\ Moves(i, failed)
                                /\ Shift(failed)[i] = file[i - 1]
                             \/ ~Moves(i, failed) /\ Shift(failed)[i] = <<>>
                             \/ ~Moves(i, failed) /\ ~Moves(i + 1, failed)
                                /\ Shift(failed)[i] = file[i]
         /\ \A i \in Files : i + 1 \in Files /\ i + 1 \notin failed /\ file[i] # <<>> =>
                               Shift(failed)[i + 1] = file[i]
         /\ Shift(failed)[0] = IF 1 \notin failed THEN <<>> ELSE file[0]
  <1>1. 0 \in Files /\ ~Moves(0, failed) /\ \A i \in Files : i \in Nat
    BY LogAssumption DEF Files, Moves
  <1>2. \A i \in Files : Moves(i, failed) => i - 1 \in Files
    BY LogAssumption DEF Files, Moves
  <1>3. ASSUME NEW i \in Files, i + 1 \in Files, i + 1 \notin failed, file[i] # <<>>
        PROVE  Moves(i + 1, failed) /\ (i + 1) - 1 = i
    BY <1>3, LogAssumption DEF Files, Moves
  <1>4. Moves(1, failed) <=> 1 \notin failed /\ file[0] # <<>>
    BY LogAssumption DEF Moves
  <1>5. Shift(failed)[0] = IF 1 \notin failed THEN <<>> ELSE file[0]
    <2>1. Shift(failed)[0] = IF Moves(0 + 1, failed) THEN <<>> ELSE file[0]
      BY <1>1 DEF Shift
    <2>2. 0 + 1 = 1
      OBVIOUS
    <2> QED
      BY <2>1, <2>2, <1>4
  <1> QED
    BY <1>1, <1>2, <1>3, <1>5 DEF Shift

LEMMA AppendedFiles ==
  ASSUME NEW f, Typed(f), written \in 0 .. MaxWritten, written < MaxWritten
  PROVE  LET g == Appended(f, TRUE) IN
         /\ Typed(g)
         /\ \A i \in Files : i # 0 => g[i] = f[i]
         /\ Len(g[0]) = Len(f[0]) + 1 /\ g[0] # <<>>
         /\ ToSet(g[0]) = ToSet(f[0]) \cup {written + 1}
  <1> DEFINE g == Appended(f, TRUE)
  <1>1. 0 \in Files /\ written + 1 \in 1 .. MaxWritten
    BY LogAssumption, LogBounds DEF Files
  <1>2. g = [f EXCEPT ![0] = Append(f[0], written + 1)]
    BY DEF Appended
  <1>3. f[0] \in Seq(1 .. MaxWritten) /\ g[0] = Append(f[0], written + 1)
    BY <1>1, <1>2 DEF Typed
  <1>4. Typed(g) /\ \A i \in Files : i # 0 => g[i] = f[i]
    <2>1. f \in [Files -> Seq(1 .. MaxWritten)]
      BY DEF Typed
    <2>2. Append(f[0], written + 1) \in Seq(1 .. MaxWritten)
      BY <1>1, <1>3
    <2> DEFINE s == Append(f[0], written + 1)
    <2> HIDE DEF s
    <2>3. s \in Seq(1 .. MaxWritten) /\ g = [f EXCEPT ![0] = s]
      BY <2>2, <1>2 DEF s
    <2> HIDE DEF g
    <2> QED
      BY <2>1, <2>3 DEF Typed
  <1> HIDE DEF g
  <1>5. /\ Len(g[0]) = Len(f[0]) + 1 /\ DOMAIN g[0] = 1 .. Len(f[0]) + 1
        /\ DOMAIN f[0] = 1 .. Len(f[0]) /\ Len(f[0]) \in Nat /\ g[0] # <<>>
        /\ \A x \in 1 .. Len(f[0]) : g[0][x] = f[0][x]
        /\ g[0][Len(f[0]) + 1] = written + 1
    BY <1>1, <1>3
  <1>6. 1 .. Len(f[0]) + 1 = (1 .. Len(f[0])) \cup {Len(f[0]) + 1}
    BY <1>5
  <1>7. ToSet(g[0]) = ToSet(f[0]) \cup {written + 1}
    BY <1>5, <1>6, ZenonT(60) DEF ToSet
  <1> QED
    BY <1>4, <1>5, <1>7 DEF g

(***************************************************************************)
(* DiskBounded, file by file.                                              *)
(***************************************************************************)

Bounded(f, n) ==
  \A S \in SUBSET Files : Cardinality(Lines(f, S)) <= Cardinality(S) * MaxLines + n

LEMMA FilesFinite ==
  ASSUME NEW S \in SUBSET Files
  PROVE  IsFiniteSet(S) /\ Cardinality(S) \in Nat
  <1>1. IsFiniteSet(Files)
    BY LogAssumption, FS_Interval DEF Files
  <1>2. IsFiniteSet(S)
    BY <1>1, FS_Subset
  <1> QED
    BY <1>2, FS_CardinalityType

\* What is in some places after a rotation was in as many places before.
LEMMA ShiftBounded ==
  ASSUME Typed(file), Ordered(file, written), NEW failed, faults \in Nat, Bounded(file, faults)
  PROVE  Bounded(Shift(failed), faults)
  <1> DEFINE f == Shift(failed)
             From(i) == IF Moves(i, failed) THEN i - 1 ELSE i
  <1>1. Typed(f)
    BY ShiftOrdered
  <1> SUFFICES ASSUME NEW S \in SUBSET Files
               PROVE  Cardinality(Lines(f, S)) <= Cardinality(S) * MaxLines + faults
    BY DEF Bounded
  <1> DEFINE S1 == {i \in S : f[i] # <<>>}
             T == {From(i) : i \in S1}
             h == [i \in S1 |-> From(i)]
  <1>2. \A i \in S1 : From(i) \in Files /\ f[i] = file[From(i)]
    BY ShiftMoves
  <1>3. T \in SUBSET Files /\ S1 \in SUBSET S /\ S1 \in SUBSET Files
    BY <1>2
  <1>4. h \in Surjection(S1, T)
    <2>1. h \in [S1 -> T] /\ \A t \in T : \E s \in S1 : h[s] = t
      OBVIOUS
    <2> QED
      BY <2>1, Fun_IsSurj
  <1>5. Lines(f, S) \subseteq Lines(file, T)
    <2> SUFFICES ASSUME NEW i \in S, NEW x \in ToSet(f[i]) PROVE x \in Lines(file, T)
      BY DEF Lines
    <2>1. f[i] # <<>>
      BY DEF ToSet
    <2>2. From(i) \in T /\ f[i] = file[From(i)]
      BY <2>1, <1>2
    <2> HIDE DEF f, T, From
    <2> QED
      BY <2>2 DEF Lines
  <1> HIDE DEF f, S1, T, h, From
  <1>6. Cardinality(T) <= Cardinality(S1)
    BY <1>3, <1>4, FilesFinite, FS_Surjection
  <1>7. Cardinality(S1) <= Cardinality(S)
    BY <1>3, FilesFinite, FS_Subset
  <1>8. Cardinality(T) \in Nat /\ Cardinality(S1) \in Nat /\ Cardinality(S) \in Nat
    BY <1>3, FilesFinite
  <1>9. Cardinality(Lines(f, S)) <= Cardinality(Lines(file, T))
    BY <1>3, <1>5, LinesTyped, FS_Subset
  <1>10. Cardinality(Lines(file, T)) <= Cardinality(T) * MaxLines + faults
    BY <1>3 DEF Bounded
  <1>11. Cardinality(T) * MaxLines <= Cardinality(S) * MaxLines
    <2>1. ASSUME NEW a \in Nat, NEW b \in Nat, NEW c \in Nat, a <= b
          PROVE  a * c <= b * c
      BY <2>1
    <2> QED
      BY <1>6, <1>7, <1>8, <2>1, LogAssumption
  <1>12. /\ Cardinality(Lines(f, S)) \in Nat /\ Cardinality(Lines(file, T)) \in Nat
         /\ Cardinality(T) * MaxLines \in Nat /\ Cardinality(S) * MaxLines \in Nat
    BY <1>1, <1>3, <1>8, LinesTyped, LogAssumption
  <1> QED
    BY <1>9, <1>10, <1>11, <1>12 DEF f

LEMMA AddOne ==
  ASSUME NEW L, IsFiniteSet(L), NEW x
  PROVE  IsFiniteSet(L \cup {x}) /\ Cardinality(L \cup {x}) <= Cardinality(L) + 1
  <1>1. Cardinality(L) \in Nat
    BY FS_CardinalityType
  <1>2. CASE x \in L
    <2>1. L \cup {x} = L
      BY <1>2
    <2>2. Cardinality(L) <= Cardinality(L) + 1
      BY <1>1
    <2> QED
      BY <2>1, <2>2
  <1>3. CASE x \notin L
    BY <1>1, <1>3, FS_AddElement
  <1> QED
    BY <1>2, <1>3

LEMMA AppendBounded ==
  ASSUME NEW f, Typed(f), written \in 0 .. MaxWritten, written < MaxWritten,
         NEW n \in Nat, NEW m \in Nat, Bounded(f, n),
         \/ Len(f[0]) < MaxLines /\ m >= n
         \/ m >= n + 1
  PROVE  Bounded(Appended(f, TRUE), m)
  <1> DEFINE g == Appended(f, TRUE)
  <1>1. /\ Typed(g) /\ \A i \in Files : i # 0 => g[i] = f[i]
        /\ Len(g[0]) = Len(f[0]) + 1 /\ ToSet(g[0]) = ToSet(f[0]) \cup {written + 1}
    BY AppendedFiles
  <1> HIDE DEF g
  <1>2. ASSUME NEW S \in SUBSET Files
        PROVE  Cardinality(Lines(g, S)) <= Cardinality(S) * MaxLines + m
    <2> DEFINE R == S \ {0}
    <2>1. R \in SUBSET Files /\ 0 \in Files
      BY LogAssumption DEF Files
    <2>2. Lines(g, R) = Lines(f, R)
      BY <1>1 DEF Lines
    <2>3. /\ Cardinality(Lines(f, R)) <= Cardinality(R) * MaxLines + n
          /\ Cardinality(Lines(f, S)) <= Cardinality(S) * MaxLines + n
      BY <2>1 DEF Bounded
    <2>4. /\ Cardinality(S) \in Nat /\ Cardinality(R) \in Nat /\ MaxLines \in Nat
          /\ Cardinality(Lines(f, R)) \in Nat /\ Cardinality(Lines(f, S)) \in Nat
          /\ Cardinality(Lines(g, S)) \in Nat
          /\ IsFiniteSet(Lines(f, R)) /\ IsFiniteSet(Lines(f, S))
      BY <1>1, <2>1, FilesFinite, LinesTyped, LogAssumption
    <2>5. Cardinality(S) * MaxLines \in Nat /\ Cardinality(R) * MaxLines \in Nat
      BY <2>4
    <2>6. CASE 0 \notin S
      <3>1. R = S
        BY <2>6
      <3> HIDE DEF R
      <3> QED
        BY <3>1, <2>2, <2>3, <2>4, <2>5
    <2>7. CASE 0 \in S /\ Len(f[0]) < MaxLines /\ m >= n
      <3>1. Lines(g, S) = Lines(f, R) \cup ToSet(g[0])
        <4>1. S = R \cup {0}
          BY <2>7
        <4> HIDE DEF R
        <4> QED
          BY <4>1, <2>2 DEF Lines
      <3>2. IsFiniteSet(ToSet(g[0])) /\ Cardinality(ToSet(g[0])) <= Len(f[0]) + 1
        <4> DEFINE h == [x \in 1 .. Len(g[0]) |-> g[0][x]]
        <4>1. DOMAIN g[0] = 1 .. Len(g[0]) /\ Len(f[0]) \in Nat
          BY <1>1, <2>1, FileLines
        <4>2. h \in [1 .. Len(g[0]) -> ToSet(g[0])]
              /\ \A t \in ToSet(g[0]) : \E x \in 1 .. Len(g[0]) : h[x] = t
          BY <4>1 DEF ToSet
        <4>3. h \in Surjection(1 .. Len(g[0]), ToSet(g[0]))
          BY <4>2, Fun_IsSurj
        <4> HIDE DEF h
        <4>5. Len(g[0]) \in Int /\ 1 \in Int /\ ~(1 > Len(g[0]))
              /\ Len(g[0]) - 1 + 1 = Len(f[0]) + 1
          BY <1>1, <4>1
        <4>4. IsFiniteSet(1 .. Len(g[0])) /\ Cardinality(1 .. Len(g[0])) = Len(f[0]) + 1
          BY <4>5, FS_Interval
        <4> QED
          BY <4>3, <4>4, FS_Surjection
      <3>3. Cardinality(Lines(g, S)) <= Cardinality(Lines(f, R)) + Cardinality(ToSet(g[0]))
        BY <3>1, <3>2, <2>4, Subadditive
      <3>4. Cardinality(S) = Cardinality(R) + 1
        BY <2>7, <2>4, FilesFinite, FS_RemoveElement
      <3>5. Cardinality(S) * MaxLines = Cardinality(R) * MaxLines + MaxLines
        <4> HIDE DEF R
        <4> QED
          BY <3>4, <2>4, Distributes
      <3>6. Len(f[0]) \in Nat /\ Cardinality(ToSet(g[0])) \in Nat
        BY <2>1, <3>2, FileLines, FS_CardinalityType
      <3> DEFINE c == Cardinality(Lines(f, R))
                 d == Cardinality(Lines(g, S))
                 e == Cardinality(ToSet(g[0]))
                 a == Cardinality(R) * MaxLines
                 b == Cardinality(S) * MaxLines
                 k == Len(f[0])
      <3>7. /\ c \in Nat /\ d \in Nat /\ e \in Nat /\ a \in Nat /\ b \in Nat /\ k \in Nat
            /\ c <= a + n /\ e <= k + 1 /\ d <= c + e /\ b = a + MaxLines
            /\ k < MaxLines /\ m >= n /\ MaxLines \in Nat
        BY <2>3, <2>4, <2>5, <2>7, <3>2, <3>3, <3>5, <3>6
      <3>8. d <= b + m
        <4> HIDE DEF a, b, c, d, e, k
        <4> QED
          BY <3>7
      <3> QED
        BY <3>8
    <2>8. CASE 0 \in S /\ m >= n + 1
      <3>1. Lines(g, S) = Lines(f, S) \cup {written + 1}
        <4>1. S = R \cup {0}
          BY <2>8
        <4> HIDE DEF R
        <4> QED
          BY <4>1, <1>1, <2>2 DEF Lines
      <3>2. Cardinality(Lines(g, S)) <= Cardinality(Lines(f, S)) + 1
        BY <3>1, <2>4, AddOne
      <3> DEFINE c == Cardinality(Lines(f, S))
                 d == Cardinality(Lines(g, S))
                 b == Cardinality(S) * MaxLines
      <3>3. c \in Nat /\ d \in Nat /\ b \in Nat /\ c <= b + n /\ d <= c + 1 /\ m >= n + 1
        BY <2>3, <2>4, <2>5, <2>8, <3>2
      <3>4. d <= b + m
        <4> HIDE DEF b, c, d
        <4> QED
          BY <3>3
      <3> QED
        BY <3>4
    <2> QED
      BY <2>6, <2>7, <2>8
  <1> QED
    BY <1>2 DEF Bounded, g

(***************************************************************************)
(* NewestKept, backup by backup.                                           *)
(***************************************************************************)

\* Backups 1 to j hold, in the places a full file has, all that the current file
\* does not, or j full files of it, less a file for each of the n failures.
Kept(f, w, n) ==
  \A j \in Files : Cardinality(Tops(f, 1 .. j)) >=
                     Least(w - Cap(Len(f[0])), j * MaxLines) - n * MaxLines

\* What is newer than a line held is held.
UpClosed(f, w) == \A x \in Lines(f, Files) : x .. w \subseteq Lines(f, Files)

LEMMA AppendKept ==
  ASSUME NEW f, Typed(f), written \in 0 .. MaxWritten, written < MaxWritten,
         Len(f[0]) < MaxLines, NEW n, Kept(f, written, n)
  PROVE  Kept(Appended(f, TRUE), written + 1, n)
  <1> DEFINE g == Appended(f, TRUE)
  <1>1. /\ \A i \in Files : i # 0 => g[i] = f[i]
        /\ Len(g[0]) = Len(f[0]) + 1 /\ Len(f[0]) \in Nat
    <2>1. 0 \in Files
      BY LogAssumption DEF Files
    <2> QED
      BY <2>1, AppendedFiles, FileLines
  <1> HIDE DEF g
  <1>2. (written + 1) - Cap(Len(g[0])) = written - Cap(Len(f[0]))
    <2>1. ASSUME NEW k \in Nat, k < MaxLines PROVE Cap(k) = k /\ Cap(k + 1) = k + 1
      BY <2>1, LogAssumption DEF Cap
    <2>2. Cap(Len(f[0])) = Len(f[0]) /\ Cap(Len(g[0])) = Len(f[0]) + 1
      BY <1>1, <2>1
    <2> QED
      BY <1>1, <2>2, LogBounds
  <1>3. ASSUME NEW j \in Files PROVE Tops(g, 1 .. j) = Tops(f, 1 .. j)
    <2>1. \A i \in 1 .. j : i \in Files /\ i # 0
      BY LogAssumption DEF Files
    <2> QED
      BY <1>1, <2>1 DEF Tops, Top
  <1> QED
    BY <1>2, <1>3 DEF Kept, g

LEMMA AppendUpClosed ==
  ASSUME NEW f, Typed(f), written \in 0 .. MaxWritten, written < MaxWritten,
         UpClosed(f, written)
  PROVE  UpClosed(Appended(f, TRUE), written + 1)
  <1> DEFINE g == Appended(f, TRUE)
  <1>1. /\ \A i \in Files : i # 0 => g[i] = f[i]
        /\ ToSet(g[0]) = ToSet(f[0]) \cup {written + 1}
        /\ 0 \in Files
    <2>1. 0 \in Files
      BY LogAssumption DEF Files
    <2> QED
      BY <2>1, AppendedFiles
  <1> HIDE DEF g
  <1>2. Lines(g, Files) = Lines(f, Files) \cup {written + 1}
    BY <1>1 DEF Lines
  <1>3. \A x \in Lines(f, Files) : x \in Nat
    BY LinesTyped
  <1>4. ASSUME NEW x \in Lines(g, Files), NEW y \in x .. (written + 1)
        PROVE  y \in Lines(g, Files)
    <2>1. CASE y = written + 1
      BY <2>1, <1>2
    <2>2. CASE y # written + 1
      <3>1. x \in Lines(f, Files) /\ y \in x .. written
        BY <1>2, <1>3, <2>2
      <3> QED
        BY <3>1, <1>2 DEF UpClosed
    <2> QED
      BY <2>1, <2>2
  <1> QED
    BY <1>4 DEF UpClosed, g

\* A rotation without failures drops the last file, which is the oldest.
LEMMA ShiftUpClosed ==
  ASSUME Typed(file), Ordered(file, written), UpClosed(file, written), written \in Nat
  PROVE  UpClosed(Shift({}), written)
  <1> DEFINE f == Shift({})
  <1>1. /\ Backups \in Files /\ Backups \in Nat \ {0}
        /\ \A i \in Files : i \in Nat /\ i <= Backups
    BY LogAssumption DEF Files
  <1>2. \A i \in Files : /\ Moves(i, {}) => i - 1 \in Files /\ f[i] = file[i - 1]
                         /\ ~Moves(i, {}) => f[i] \in {<<>>, file[i]}
    BY ShiftMoves
  <1>3. \A i \in Files : i # Backups /\ file[i] # <<>> => i + 1 \in Files /\ f[i + 1] = file[i]
    BY <1>1, ShiftMoves DEF Files
  <1>4. ~Moves(Backups, {}) => f[Backups] = file[Backups]
    <2>1. ~Moves(Backups + 1, {})
      BY <1>1 DEF Moves
    <2> QED
      BY <1>1, <2>1 DEF Shift
  <1>5. \A i \in Files : i # Backups /\ file[i] # <<>> /\ ~Moves(i, {}) => f[i] = <<>>
    <2> SUFFICES ASSUME NEW i \in Files, i # Backups, file[i] # <<>>, ~Moves(i, {})
                 PROVE  f[i] = <<>>
      OBVIOUS
    <2>1. Moves(i + 1, {})
      <3>1. i \in Nat /\ i <= Backups
        BY <1>1
      <3>2. i + 1 \in 1 .. Backups /\ (i + 1) - 1 = i
        BY <1>1, <3>1
      <3> QED
        BY <3>2 DEF Moves
    <2> QED
      BY <2>1 DEF Shift
  <1> HIDE DEF f
  <1>6. ASSUME NEW x \in Lines(f, Files), NEW y \in x .. written
        PROVE  y \in Lines(f, Files)
    <2>1. PICK j \in Files : x \in ToSet(f[j])
      BY DEF Lines
    <2>2. f[j] # <<>>
      BY <2>1 DEF ToSet
    <2>3. PICK k \in Files : /\ x \in ToSet(file[k])
                             /\ k = Backups => ~Moves(Backups, {})
      <3>1. CASE Moves(j, {})
        <4>1. j - 1 \in Files /\ f[j] = file[j - 1] /\ j - 1 # Backups
          BY <3>1, <1>1, <1>2
        <4> QED
          BY <2>1, <4>1
      <3>2. CASE ~Moves(j, {})
        <4>1. f[j] = file[j]
          BY <1>2, <2>2, <3>2
        <4> QED
          BY <2>1, <3>2, <4>1
      <3> QED
        BY <3>1, <3>2
    <2>4. y \in Lines(file, Files)
      BY <2>3 DEF Lines, UpClosed
    <2>5. PICK i \in Files : y \in ToSet(file[i])
      BY <2>4 DEF Lines
    <2>6. CASE i # Backups
      <3>1. file[i] # <<>>
        BY <2>5 DEF ToSet
      <3> QED
        BY <1>3, <2>5, <2>6, <3>1 DEF Lines
    <2>7. CASE i = Backups /\ ~Moves(Backups, {})
      BY <1>1, <1>4, <2>5, <2>7 DEF Lines
    <2>8. CASE i = Backups /\ Moves(Backups, {})
      <3>1. i > k
        BY <1>1, <2>3, <2>8
      <3>2. PICK a \in DOMAIN file[i], b \in DOMAIN file[k] : file[i][a] = y /\ file[k][b] = x
        BY <2>3, <2>5 DEF ToSet
      <3>3. y < x
        BY <3>1, <3>2 DEF Ordered
      <3>4. x \in Nat
        <4>1. x \in 1 .. MaxWritten
          BY <2>3, FileLines
        <4> QED
          BY <4>1, LogBounds
      <3> QED
        BY <3>3, <3>4
    <2> QED
      BY <2>6, <2>7, <2>8
  <1> QED
    BY <1>6 DEF UpClosed, f

LEMMA RemoveOne ==
  ASSUME NEW S, IsFiniteSet(S), NEW x \in S
  PROVE  Cardinality(S) = Cardinality(S \ {x}) + 1
  <1>1. Cardinality(S) \in Nat /\ Cardinality(S \ {x}) = Cardinality(S) - 1
    BY FS_RemoveElement, FS_CardinalityType
  <1> QED
    BY <1>1

\* What a failed rename costs: the file it should have moved, at most.
LEMMA RotateKept ==
  ASSUME Typed(file), Ordered(file, written), Len(file[0]) >= MaxLines,
         written \in 0 .. MaxWritten, written < MaxWritten,
         faults \in Nat, Kept(file, written, faults), NEW failed \in SUBSET (1 .. Backups)
  PROVE  Kept(Appended(Shift(failed), TRUE), written + 1, faults + Cardinality(failed))
  <1> DEFINE g == Appended(Shift(failed), TRUE)
             c == Cardinality(failed)
  <1>1. /\ Typed(g) /\ g[0] # <<>> /\ \A i \in Files : i # 0 => g[i] = Shift(failed)[i]
        /\ Len(g[0]) = Len(Shift(failed)[0]) + 1
    <2> DEFINE f == Shift(failed)
    <2>1. Typed(f)
      BY ShiftOrdered
    <2> HIDE DEF f
    <2>2. LET h == Appended(f, TRUE) IN
            /\ Typed(h) /\ h[0] # <<>> /\ \A i \in Files : i # 0 => h[i] = f[i]
            /\ Len(h[0]) = Len(f[0]) + 1
      BY <2>1, AppendedFiles
    <2> QED
      BY <2>2 DEF f
  <1>2. IsFiniteSet(failed) /\ c \in Nat
    <2>1. IsFiniteSet(1 .. Backups)
      BY LogAssumption, FS_Interval
    <2> QED
      BY <2>1, FS_Subset, FS_CardinalityType
  <1>3. /\ 0 \in Files /\ MaxLines \in Nat \ {0} /\ written \in Nat
        /\ Cap(Len(file[0])) = MaxLines
        /\ Cap(Len(g[0])) \in 1 .. MaxLines
    <2>1. 0 \in Files /\ MaxLines \in Nat \ {0} /\ written \in Nat
      BY LogAssumption, LogBounds DEF Files
    <2>2. Len(file[0]) \in Nat /\ Len(g[0]) \in Nat /\ Len(Shift(failed)[0]) \in Nat
      BY <1>1, <2>1, ShiftOrdered, FileLines
    <2>4. ASSUME NEW k \in Nat, k >= 1 PROVE Cap(k) \in 1 .. MaxLines
      BY <2>1, <2>4 DEF Cap
    <2>5. ASSUME NEW k \in Nat, k >= MaxLines PROVE Cap(k) = MaxLines
      BY <2>1, <2>5 DEF Cap
    <2> HIDE DEF g
    <2>6. Len(g[0]) >= 1
      BY <1>1, <2>2
    <2> QED
      BY <2>1, <2>2, <2>4, <2>5, <2>6
  <1> HIDE DEF g
  <1>4. ASSUME NEW j \in Files
        PROVE  Cardinality(Tops(g, 1 .. j)) >=
                 Least((written + 1) - Cap(Len(g[0])), j * MaxLines) - (faults + c) * MaxLines
    <2> DEFINE A == Cardinality(Tops(g, 1 .. j))
               b == Cap(Len(g[0]))
    <2>1. 1 .. j \in SUBSET Files /\ j \in Nat
      BY LogAssumption DEF Files
    <2>2. A \in Nat
      BY <1>1, <2>1, LinesTyped
    <2>3. /\ faults * MaxLines \in Nat /\ c * MaxLines \in Nat
          /\ (faults + c) * MaxLines = faults * MaxLines + c * MaxLines
      BY <1>2, <1>3, Distributes
    <2>4. CASE j = 0
      <3>1. j * MaxLines = 0
        BY <2>4, <1>3
      <3> DEFINE u == (written + 1) - b
                 p == faults * MaxLines
                 q == c * MaxLines
      <3>2. u \in Int
        BY <1>3
      <3>3. Least(u, 0) <= 0 /\ Least(u, 0) \in Int
        <4> HIDE DEF u
        <4> QED
          BY <3>2 DEF Least
      <3> HIDE DEF A, u, p, q
      <3>4. A >= Least(u, 0) - (p + q)
        BY <3>3, <2>2, <2>3 DEF p, q
      <3> QED
        BY <3>1, <3>4, <2>3 DEF A, u, p, q
    <2>5. CASE j # 0
      <3> DEFINE k == j - 1
                 D == {i \in 0 .. k : i + 1 \in failed}
                 K == (0 .. k) \ D
                 T == Tops(file, 1 .. k)
      <3>1. /\ k \in Files /\ 0 .. k \in SUBSET Files /\ 1 .. k \in SUBSET Files
            /\ k \in Nat /\ j = k + 1
        BY <2>1, <2>5, LogAssumption DEF Files
      <3>2. Tops(file, K) \subseteq Tops(g, 1 .. j)
        <4>1. ASSUME NEW i \in K PROVE i + 1 \in 1 .. j /\ Top(file, i) \subseteq Top(g, i + 1)
          <5>1. i + 1 \in 1 .. j /\ i + 1 \notin failed /\ i \in Files
            BY <3>1
          <5>2. i + 1 \in Files /\ i + 1 # 0
            BY <5>1, <2>1
          <5>3. CASE file[i] # <<>>
            <6>1. g[i + 1] = file[i]
              BY <1>1, <5>1, <5>2, <5>3, ShiftMoves
            <6> QED
              BY <5>1, <6>1 DEF Top
          <5>4. CASE file[i] = <<>>
            <6>1. Cap(Len(file[i])) = 0
              BY <5>4, <1>3 DEF Cap
            <6> QED
              BY <5>1, <6>1 DEF Top
          <5> QED
            BY <5>3, <5>4
        <4> HIDE DEF K
        <4> QED
          BY <4>1 DEF Tops
      <3>3. IsFiniteSet(D) /\ Cardinality(D) <= c /\ Cardinality(D) \in Nat
        <4> DEFINE h == [i \in D |-> i + 1]
        <4>1. h \in Injection(D, failed)
          <5>1. h \in [D -> failed] /\ \A x, y \in D : h[x] = h[y] => x = y
            BY <3>1
          <5> QED
            BY <5>1, Fun_IsInj
        <4> HIDE DEF h, D
        <4> QED
          BY <4>1, <1>2, FS_Injection, FS_CardinalityType
      <3>4. /\ D \in SUBSET Files /\ K \in SUBSET Files /\ D \ {0} \in SUBSET Files
            /\ 0 .. k = K \cup D /\ 0 .. k = {0} \cup (1 .. k)
        BY <3>1
      <3>5. /\ Cardinality(T) \in Nat /\ IsFiniteSet(T)
            /\ Cardinality(T) >= Least(written - MaxLines, k * MaxLines) - faults * MaxLines
        BY <1>3, <3>1, LinesTyped DEF Kept
      <3>6. /\ IsFiniteSet(Tops(file, K)) /\ Cardinality(Tops(file, K)) \in Nat
            /\ Cardinality(Tops(file, K)) <= A
        BY <1>1, <2>1, <3>2, <3>4, LinesTyped, FS_Subset
      <3>7. IsFiniteSet(D \ {0}) /\ Cardinality(D \ {0}) \in Nat
        BY <3>4, FilesFinite
      <3>8. /\ Cardinality(Tops(file, D)) <= Cardinality(D) * MaxLines
            /\ Cardinality(Tops(file, D \ {0})) <= Cardinality(D \ {0}) * MaxLines
            /\ Cardinality(Tops(file, D)) \in Nat /\ IsFiniteSet(Tops(file, D))
            /\ Cardinality(Tops(file, D \ {0})) \in Nat
            /\ IsFiniteSet(Tops(file, D \ {0}))
        BY <3>3, <3>4, <3>7, LinesTyped, TopsCount
      <3>9. Cardinality(D) * MaxLines \in Nat /\ Cardinality(D) * MaxLines <= c * MaxLines
        <4>1. ASSUME NEW x \in Nat, NEW y \in Nat, NEW z \in Nat, x <= y
              PROVE  x * z \in Nat /\ x * z <= y * z
          BY <4>1
        <4> HIDE DEF D, c
        <4> QED
          BY <4>1, <1>2, <1>3, <3>3
      <3> HIDE DEF D, K, T, A
      <3>10. Cardinality(T) + MaxLines <= A + c * MaxLines
        <4>1. CASE 1 \notin failed
          <5>1. Tops(file, 0 .. k) = Top(file, 0) \cup T
            BY <3>4 DEF Tops, T
          <5>2. Top(file, 0) \cap T = {}
            <6>1. \A i \in 1 .. k : ToSet(file[0]) \cap ToSet(file[i]) = {}
              <7>1. \A i \in 1 .. k : i \in Files /\ 0 # i
                BY <3>1
              <7> QED
                BY <1>3, <7>1, Apart
            <6>2. \A i \in 0 .. k : Top(file, i) \subseteq ToSet(file[i])
              BY <3>1, FileLines
            <6> QED
              BY <6>1, <6>2, <3>4 DEF Tops, T
          <5>3. Cardinality(Top(file, 0)) = MaxLines /\ IsFiniteSet(Top(file, 0))
            <6>1. Top(file, 0) \in SUBSET (1 .. MaxWritten)
              BY <1>3, FileLines
            <6> QED
              BY <6>1, <1>3, TopCount, FiniteLines
          <5>4. Cardinality(Tops(file, 0 .. k)) = MaxLines + Cardinality(T)
            BY <3>5, <5>1, <5>2, <5>3, Subadditive
          <5>5. Tops(file, 0 .. k) = Tops(file, K) \cup Tops(file, D)
            BY <3>4 DEF Tops
          <5>6. Cardinality(Tops(file, 0 .. k)) <=
                  Cardinality(Tops(file, K)) + Cardinality(Tops(file, D))
            BY <3>6, <3>8, <5>5, Subadditive
          <5> DEFINE x1 == Cardinality(Tops(file, K))
                     x2 == Cardinality(Tops(file, D))
                     x3 == Cardinality(D) * MaxLines
                     x4 == c * MaxLines
                     x5 == Cardinality(T)
          <5>7. /\ x1 \in Nat /\ x2 \in Nat /\ x3 \in Nat /\ x4 \in Nat /\ x5 \in Nat
                /\ x1 <= A /\ x2 <= x3 /\ x3 <= x4 /\ MaxLines + x5 <= x1 + x2
            BY <2>3, <3>5, <3>6, <3>8, <3>9, <5>4, <5>6
          <5>8. x5 + MaxLines <= A + x4
            <6> HIDE DEF x1, x2, x3, x4, x5
            <6> QED
              BY <5>7, <1>3, <2>2
          <5> QED
            BY <5>8
        <4>2. CASE 1 \in failed
          <5>1. 0 \in D
            BY <3>1, <4>2 DEF D
          <5>2. Cardinality(D) = Cardinality(D \ {0}) + 1
            BY <3>3, <5>1, RemoveOne
          <5>3. Cardinality(D) * MaxLines = Cardinality(D \ {0}) * MaxLines + MaxLines
            BY <1>3, <3>7, <5>2, Distributes
          <5>4. 1 .. k \subseteq K \cup (D \ {0})
            BY <3>1, <3>4
          <5>5. T \subseteq Tops(file, K) \cup Tops(file, D \ {0})
            BY <5>4 DEF Tops, T
          <5>6. Cardinality(T) <= Cardinality(Tops(file, K)) + Cardinality(Tops(file, D \ {0}))
            <6> DEFINE U == Tops(file, K)
                       V == Tops(file, D \ {0})
            <6>1. IsFiniteSet(U) /\ IsFiniteSet(V) /\ T \in SUBSET (U \cup V)
              BY <3>6, <3>8, <5>5
            <6> HIDE DEF U, V
            <6>2. /\ IsFiniteSet(U \cup V)
                  /\ Cardinality(U \cup V) <= Cardinality(U) + Cardinality(V)
              BY <6>1, Subadditive
            <6>3. Cardinality(T) <= Cardinality(U \cup V)
              BY <6>1, <6>2, FS_Subset
            <6>4. /\ Cardinality(U) \in Nat /\ Cardinality(V) \in Nat
                  /\ Cardinality(U \cup V) \in Nat
              BY <6>1, <6>2, FS_CardinalityType
            <6>5. Cardinality(T) <= Cardinality(U) + Cardinality(V)
              BY <3>5, <6>2, <6>3, <6>4
            <6> QED
              BY <6>5 DEF U, V
          <5> DEFINE x1 == Cardinality(Tops(file, K))
                     x2 == Cardinality(Tops(file, D \ {0}))
                     x3 == Cardinality(D) * MaxLines
                     x4 == c * MaxLines
                     x5 == Cardinality(T)
                     x6 == Cardinality(D \ {0}) * MaxLines
          <5>7. /\ x1 \in Nat /\ x2 \in Nat /\ x3 \in Nat /\ x4 \in Nat /\ x5 \in Nat
                /\ x6 \in Nat /\ x1 <= A /\ x2 <= x6 /\ x3 <= x4 /\ x3 = x6 + MaxLines
                /\ x5 <= x1 + x2
            <6>1. x6 \in Nat
              <7>1. ASSUME NEW x \in Nat, NEW y \in Nat PROVE x * y \in Nat
                OBVIOUS
              <7> QED
                BY <1>3, <3>7, <7>1
            <6> QED
              BY <6>1, <2>3, <3>5, <3>6, <3>8, <3>9, <5>3, <5>6
          <5>8. x5 + MaxLines <= A + x4
            <6> HIDE DEF x1, x2, x3, x4, x5, x6
            <6> QED
              BY <5>7, <1>3, <2>2
          <5> QED
            BY <5>8
        <4> QED
          BY <4>1, <4>2
      <3>11. j * MaxLines = k * MaxLines + MaxLines /\ k * MaxLines \in Nat
        <4>1. ASSUME NEW x \in Nat, NEW y \in Nat
              PROVE  x * y \in Nat /\ (x + 1) * y = x * y + y
          OBVIOUS
        <4> HIDE DEF k
        <4> QED
          BY <1>3, <3>1, <4>1
      <3> DEFINE x1 == Cardinality(T)
                 x2 == c * MaxLines
                 x3 == faults * MaxLines
                 x4 == k * MaxLines
      <3>12. /\ x1 \in Nat /\ x2 \in Nat /\ x3 \in Nat /\ x4 \in Nat
             /\ x1 >= Least(written - MaxLines, x4) - x3 /\ x1 + MaxLines <= A + x2
        BY <2>3, <3>5, <3>10, <3>11
      <3>13. b \in 1 .. MaxLines
        BY <1>3
      <3>14. A >= Least((written + 1) - b, x4 + MaxLines) - (x3 + x2)
        <4> HIDE DEF x1, x2, x3, x4, b
        <4> QED
          BY <1>3, <2>2, <3>12, <3>13 DEF Least
      <3> QED
        BY <2>3, <3>11, <3>14 DEF A
    <2> QED
      BY <2>4, <2>5
  <1> QED
    BY <1>4 DEF Kept, g, c

\* What rotation keeps of the files, beside their order.
Rotated == /\ Bounded(file, faults)
           /\ open => /\ Kept(file, written, faults)
                      /\ faults = 0 => UpClosed(file, written)
                      /\ written > 0 => file[0] # <<>>

LEMMA EmptyRotated ==
  ASSUME NEW f, f = [i \in Files |-> <<>>]
  PROVE  Bounded(f, 0) /\ Kept(f, 0, 0) /\ UpClosed(f, 0)
  <1>1. \A i \in Files : f[i] = <<>> /\ Len(f[i]) = 0 /\ ToSet(f[i]) = {}
    BY DEF ToSet
  <1>2. 0 \in Files /\ MaxLines \in Nat \ {0} /\ Cap(0) = 0
    BY LogAssumption DEF Files, Cap
  <1>3. \A S \in SUBSET Files : Lines(f, S) = {}
    BY <1>1 DEF Lines
  <1>4. \A j \in Files : 1 .. j \in SUBSET Files /\ j \in Nat
    BY LogAssumption DEF Files
  <1>5. Typed(f)
    <2>1. <<>> \in Seq(1 .. MaxWritten)
      OBVIOUS
    <2> QED
      BY <2>1 DEF Typed
  <1>6. Bounded(f, 0)
    <2> SUFFICES ASSUME NEW S \in SUBSET Files
                 PROVE  0 <= Cardinality(S) * MaxLines + 0
      BY <1>3, FS_EmptySet DEF Bounded
    <2>1. Cardinality(S) \in Nat
      BY FilesFinite
    <2> QED
      BY <1>2, <2>1
  <1>7. Kept(f, 0, 0)
    <2> SUFFICES ASSUME NEW j \in Files
                 PROVE  Cardinality(Tops(f, 1 .. j)) >= Least(0 - 0, j * MaxLines) - 0 * MaxLines
      BY <1>1, <1>2 DEF Kept
    <2>1. Cardinality(Tops(f, 1 .. j)) \in Nat
      BY <1>4, <1>5, LinesTyped
    <2>2. j * MaxLines \in Nat /\ 0 * MaxLines = 0
      BY <1>2, <1>4
    <2>3. Least(0 - 0, j * MaxLines) <= 0 /\ Least(0 - 0, j * MaxLines) \in Int
      BY <2>2 DEF Least
    <2> QED
      BY <2>1, <2>2, <2>3
  <1>8. UpClosed(f, 0)
    BY <1>3 DEF UpClosed
  <1> QED
    BY <1>6, <1>7, <1>8

LEMMA WriteRotated ==
  ASSUME LogTypeOK, Ordered(file, written), Rotated, Write
  PROVE  Rotated'
  <1>1. /\ Typed(file) /\ written \in 0 .. MaxWritten /\ written < MaxWritten
        /\ written' = written + 1 /\ faults \in Nat /\ MaxLines \in Nat \ {0}
        /\ Len(file[0]) \in Nat /\ written \in Nat
    <2>1. 0 \in Files
      BY LogAssumption DEF Files
    <2>2. Typed(file) /\ written \in 0 .. MaxWritten /\ faults \in 0 .. MaxFaults
      BY DEF LogTypeOK, Typed
    <2> QED
      BY <2>1, <2>2, LogAssumption, LogBounds, FileLines DEF Write
  <1>2. CASE ~Due /\ file' = Appended(file, open) /\ UNCHANGED <<open, faults>>
    <2>1. CASE ~open
      BY <1>2, <2>1 DEF Rotated, Appended
    <2>2. CASE open
      <3>1. Len(file[0]) < MaxLines /\ file' = Appended(file, TRUE) /\ open' = TRUE
            /\ faults' = faults
        BY <1>1, <1>2, <2>2 DEF Due
      <3>2. Bounded(file', faults)
        <4>1. Bounded(file, faults) /\ faults >= faults
          BY <1>1 DEF Rotated
        <4> QED
          BY <1>1, <3>1, <4>1, AppendBounded
      <3>3. Kept(file', written', faults)
        BY <1>1, <2>2, <3>1, AppendKept DEF Rotated
      <3>4. faults = 0 => UpClosed(file', written')
        BY <1>1, <2>2, <3>1, AppendUpClosed DEF Rotated
      <3>5. file'[0] # <<>>
        BY <1>1, <3>1, AppendedFiles
      <3> QED
        BY <3>1, <3>2, <3>3, <3>4, <3>5 DEF Rotated
    <2> QED
      BY <2>1, <2>2
  <1>3. ASSUME NEW failed \in SUBSET {i \in 1 .. Backups : file[i - 1] # <<>>},
               Due, faults' = faults + Cardinality(failed),
               open' \in BOOLEAN, file' = Appended(Shift(failed), open')
        PROVE  Rotated'
    <2>1. open /\ Len(file[0]) >= MaxLines /\ file[0] # <<>> /\ Kept(file, written, faults)
          /\ Bounded(file, faults) /\ (faults = 0 => UpClosed(file, written))
      BY <1>1, <1>3 DEF Due, Rotated
    <2>2. IsFiniteSet(failed) /\ Cardinality(failed) \in Nat /\ failed \in SUBSET (1 .. Backups)
      <3>1. IsFiniteSet(1 .. Backups) /\ failed \in SUBSET (1 .. Backups)
        BY LogAssumption, FS_Interval
      <3> QED
        BY <3>1, FS_Subset, FS_CardinalityType
    <2> DEFINE f == Shift(failed)
    <2>3. Typed(f) /\ Bounded(f, faults)
      BY <1>1, <2>1, ShiftOrdered, ShiftBounded
    <2>4. Len(f[0]) < MaxLines \/ faults' >= faults + 1
      <3>1. CASE 1 \notin failed
        <4>1. Len(f[0]) = 0
          BY <3>1, <1>1, ShiftMoves
        <4> QED
          BY <4>1, <1>1
      <3>2. CASE 1 \in failed
        <4>1. Cardinality(failed) # 0
          BY <2>2, <3>2, FS_EmptySet
        <4> QED
          BY <4>1, <2>2, <1>1, <1>3
      <3> QED
        BY <3>1, <3>2
    <2>5. faults' \in Nat /\ faults' >= faults
      BY <1>1, <1>3, <2>2
    <2>6. CASE open' = FALSE
      <3>1. file' = f
        BY <1>3, <2>6 DEF Appended
      <3> HIDE DEF f
      <3>2. Bounded(f, faults')
        <4> SUFFICES ASSUME NEW S \in SUBSET Files
                     PROVE  Cardinality(Lines(f, S)) <= Cardinality(S) * MaxLines + faults'
          BY DEF Bounded
        <4> DEFINE a == Cardinality(Lines(f, S))
                   b == Cardinality(S) * MaxLines
        <4>1. a <= b + faults
          BY <2>3 DEF Bounded
        <4>2. a \in Nat /\ b \in Nat
          <5>1. ASSUME NEW x \in Nat, NEW y \in Nat PROVE x * y \in Nat
            OBVIOUS
          <5> QED
            BY <1>1, <2>3, <5>1, FilesFinite, LinesTyped
        <4>3. a <= b + faults'
          <5>1. ASSUME NEW x \in Nat, NEW y \in Nat, NEW p \in Nat, NEW q \in Nat,
                       x <= y + p, q >= p
                PROVE  x <= y + q
            BY <5>1
          <5> HIDE DEF a, b
          <5> QED
            BY <1>1, <2>5, <4>1, <4>2, <5>1
        <4> QED
          BY <4>3
      <3> QED
        BY <3>1, <3>2, <2>6 DEF Rotated
    <2>7. CASE open' = TRUE
      <3>1. file' = Appended(f, TRUE)
        BY <1>3, <2>7
      <3>2. Kept(Appended(f, TRUE), written + 1, faults + Cardinality(failed))
        BY <1>1, <2>1, <2>2, RotateKept
      <3>3. faults' = 0 => UpClosed(Appended(f, TRUE), written + 1)
        <4> SUFFICES ASSUME faults' = 0
                     PROVE  UpClosed(Appended(f, TRUE), written + 1)
          OBVIOUS
        <4>1. faults = 0 /\ failed = {}
          <5>1. faults = 0 /\ Cardinality(failed) = 0
            BY <1>1, <1>3, <2>2
          <5> QED
            BY <5>1, <2>2, FS_EmptySet
        <4>2. UpClosed(f, written)
          BY <4>1, <1>1, <2>1, ShiftUpClosed
        <4> HIDE DEF f
        <4> QED
          BY <4>2, <1>1, <2>3, AppendUpClosed
      <3> HIDE DEF f
      <3>4. Bounded(file', faults')
        BY <1>1, <2>3, <2>4, <2>5, <3>1, AppendBounded
      <3>5. file'[0] # <<>>
        BY <1>1, <2>3, <3>1, AppendedFiles
      <3> QED
        BY <1>1, <1>3, <2>7, <3>1, <3>2, <3>3, <3>4, <3>5 DEF Rotated
    <2> QED
      BY <1>3, <2>6, <2>7
  <1> QED
    BY <1>2, <1>3 DEF Write

LEMMA HeldBounded ==
  ASSUME Typed(file), faults \in Nat, Rotated
  PROVE  DiskBounded
  <1>1. Cardinality(Files) = Backups + 1
    BY LogAssumption, FS_Interval DEF Files
  <1>2. Held = Lines(file, Files) /\ Files \in SUBSET Files
    BY DEF Held, Lines
  <1> QED
    BY <1>1, <1>2 DEF DiskBounded, Rotated, Bounded

LEMMA HeldNewest ==
  ASSUME Typed(file), Ordered(file, written), written \in 0 .. MaxWritten, faults \in Nat, Rotated
  PROVE  NewestKept
  <1> SUFFICES ASSUME open
               PROVE  /\ Cardinality(Held) >= Least(written, Backups * MaxLines + 1)
                                                - faults * MaxLines
                      /\ faults = 0 => Held = (written - Cardinality(Held) + 1) .. written
    BY DEF NewestKept
  <1> DEFINE top == Top(file, 0)
             rest == Tops(file, 1 .. Backups)
             m == Cap(Len(file[0]))
  <1>1. /\ 0 \in Files /\ Backups \in Files /\ 1 .. Backups \in SUBSET Files
        /\ Files \in SUBSET Files /\ \A i \in 1 .. Backups : i \in Files /\ 0 # i
        /\ Backups \in Nat /\ MaxLines \in Nat \ {0} /\ written \in Nat
    BY LogAssumption, LogBounds DEF Files
  <1>2. Held = Lines(file, Files) /\ Held \subseteq 1 .. MaxWritten
        /\ IsFiniteSet(Held) /\ Cardinality(Held) \in Nat
    BY <1>1, LinesTyped DEF Held, Lines
  <1>3. /\ Cardinality(top) = m /\ IsFiniteSet(top) /\ m \in Nat
        /\ Cardinality(rest) \in Nat /\ IsFiniteSet(rest)
    <2>1. top \in SUBSET (1 .. MaxWritten) /\ m \in 0 .. MaxLines
      BY <1>1, FileLines
    <2>2. Cardinality(top) = m /\ IsFiniteSet(top)
      BY <2>1, <1>1, TopCount, FiniteLines
    <2> QED
      BY <2>1, <2>2, <1>1, LinesTyped
  <1>4. top \cap rest = {} /\ top \cup rest \in SUBSET Held
    <2>1. \A i \in Files : Top(file, i) \subseteq ToSet(file[i])
      BY FileLines
    <2>2. \A i \in 1 .. Backups : ToSet(file[0]) \cap ToSet(file[i]) = {}
      BY <1>1, Apart
    <2> QED
      BY <1>1, <2>1, <2>2 DEF Tops, Held
  <1>5. written > 0 => m >= 1
    <2>1. written > 0 => Len(file[0]) # 0 /\ Len(file[0]) \in Nat
      <3>1. file[0] \in Seq(1 .. MaxWritten)
        BY <1>1 DEF Typed
      <3> QED
        BY <3>1 DEF Rotated
    <2> QED
      BY <2>1, <1>1 DEF Cap
  <1>6. Cardinality(rest) >= Least(written - m, Backups * MaxLines) - faults * MaxLines
    BY <1>1 DEF Rotated, Kept
  <1>7. Cardinality(Held) >= m + Cardinality(rest)
    <2> HIDE DEF top, rest, m
    <2>1. IsFiniteSet(top \cup rest) /\ Cardinality(top \cup rest) = m + Cardinality(rest)
      BY <1>3, <1>4, Subadditive
    <2>2. Cardinality(top \cup rest) <= Cardinality(Held)
      BY <1>2, <1>4, FS_Subset
    <2> QED
      BY <1>2, <1>3, <2>1, <2>2
  <1>8. Cardinality(Held) >= Least(written, Backups * MaxLines + 1) - faults * MaxLines
    <2> DEFINE h == Cardinality(Held)
               r == Cardinality(rest)
               x == Backups * MaxLines
               y == faults * MaxLines
    <2>1. h \in Nat /\ r \in Nat /\ x \in Nat /\ y \in Nat
      <3>1. ASSUME NEW a \in Nat, NEW b \in Nat PROVE a * b \in Nat
        OBVIOUS
      <3> QED
        BY <1>1, <1>2, <1>3, <3>1
    <2>2. h >= m + r /\ r >= Least(written - m, x) - y
      BY <1>6, <1>7
    <2> HIDE DEF h, r, x, y, m
    <2>3. h >= Least(written, x + 1) - y
      BY <1>1, <1>3, <1>5, <2>1, <2>2 DEF Least
    <2> QED
      BY <2>3 DEF h, x, y
  <1>9. ASSUME faults = 0
        PROVE  Held = (written - Cardinality(Held) + 1) .. written
    <2> DEFINE n == Cardinality(Held)
               R == (written - n + 1) .. written
    <2>1. n \in Nat /\ \A x \in Held : x \in Nat /\ x >= 1 /\ x <= written /\ x .. written \subseteq Held
      <3>1. \A x \in Held : x \in Nat /\ x >= 1
        BY <1>2, LogBounds
      <3>2. \A x \in Held : x <= written
        BY DEF Held, ToSet, Ordered
      <3>3. \A x \in Held : x .. written \subseteq Held
        BY <1>2, <1>9 DEF Rotated, UpClosed
      <3> QED
        BY <1>2, <3>1, <3>2, <3>3
    <2>2. n <= written
      <3>1. Held \in SUBSET (1 .. written)
        BY <1>1, <2>1
      <3>2. IsFiniteSet(1 .. written) /\ Cardinality(1 .. written) = written
        BY <1>1, FS_Interval
      <3> QED
        BY <3>1, <3>2, FS_Subset
    <2>3. IsFiniteSet(R) /\ Cardinality(R) = n
      <3> DEFINE l == written - n + 1
      <3>1. n \in Nat /\ n <= written
        BY <2>1, <2>2
      <3>2. l \in Int /\ written \in Int /\ (IF l > written THEN 0 ELSE written - l + 1) = n
        <4> HIDE DEF n
        <4> QED
          BY <1>1, <3>1
      <3> HIDE DEF l
      <3>3. IsFiniteSet(l .. written) /\ Cardinality(l .. written) = n
        BY <3>2, FS_Interval
      <3> QED
        BY <3>3 DEF l
    <2>4. Held \in SUBSET R
      <3> SUFFICES ASSUME NEW x \in Held PROVE x >= written - n + 1
        BY <1>1, <2>1
      <3>1. x .. written \in SUBSET Held /\ x \in Nat /\ x <= written
        BY <2>1
      <3>2. IsFiniteSet(x .. written) /\ Cardinality(x .. written) = written - x + 1
        BY <1>1, <3>1, FS_Interval
      <3>3. Cardinality(x .. written) <= n
        BY <1>2, <3>1, FS_Subset
      <3> HIDE DEF n
      <3> QED
        BY <1>1, <2>1, <3>1, <3>2, <3>3
    <2> HIDE DEF R
    <2>5. Held = R
      BY <2>3, <2>4, FS_Subset
    <2> QED
      BY <2>5 DEF R
  <1> QED
    BY <1>8, <1>9

(***************************************************************************)
(* The invariant: until it is handled, a request that resets its user's    *)
(* place has that to itself, and finds it empty.                           *)
(***************************************************************************)
Own(t) == Resets(cur[t]) =>
            /\ pc[t] = "handle" => user[t] = NoUser
            /\ pc[t] = "log" =>
                 /\ user[t] \in {NoUser, cur[t].user}
                 /\ Routed(cur[t].r) /\ Admitted(cur[t].r) => user[t] = cur[t].user

IInv == /\ TypeOK
        /\ Ordered(file, written)
        /\ Rotated
        /\ \A t \in Threads : Own(t)

LEMMA InitIInv == Init => IInv
  <1> SUFFICES ASSUME Init PROVE IInv
    OBVIOUS
  <1>1. LogTypeOK /\ Ordered(file, written)
    BY LogAssumption, LogBounds DEF Init, LogInit, LogTypeOK, Ordered, Files
  <1>2. Rotated
    BY EmptyRotated DEF Init, LogInit, Rotated
  <1> QED
    BY <1>1, <1>2 DEF Init, IInv, TypeOK, Own

LEMMA ReceiveStep ==
  ASSUME IInv, NEW t \in Threads, NEW q \in Clients, Receive(t, q)
  PROVE  IInv'
  <1> USE DEF IInv, TypeOK
  <1>1. LogTypeOK' /\ Ordered(file, written)'
    BY DEF Receive, logVars, LogTypeOK, Ordered
  <1>4. Rotated'
    BY DEF Receive, logVars, Rotated
  <1>2. TypeOK'
    BY <1>1, RequestsAssumption DEF Receive
  <1>3. ASSUME NEW s \in Threads PROVE Own(s)'
    <2>1. CASE s = t
      BY <2>1 DEF Receive, Resets, Own
    <2>2. CASE s # t
      BY <2>2 DEF Receive, Resets, Own, Admitted
    <2> QED
      BY <2>1, <2>2
  <1> QED
    BY <1>1, <1>2, <1>3, <1>4

LEMMA HandleStep ==
  ASSUME IInv, NEW t \in Threads, Handle(t)
  PROVE  IInv'
  <1> USE DEF IInv, TypeOK
  <1>1. LogTypeOK' /\ Ordered(file, written)'
    BY DEF Handle, Answered, logVars, LogTypeOK, Ordered
  <1>5. Rotated'
    BY DEF Handle, Answered, logVars, Rotated
  <1>2. cur[t] \in Clients /\ cur[t].r \in Requests /\ cur[t].user \in Users \cup {NoUser}
    BY RequestsAssumption DEF Handle, Answered
  <1>3. TypeOK'
    BY <1>1, <1>2, RequestsAssumption DEF Handle, Answered, Noted
  <1>4. ASSUME NEW s \in Threads PROVE Own(s)'
    <2>1. CASE s # t
      BY <2>1 DEF Handle, Answered, Resets, Own, Admitted
    <2>2. CASE s = t
      <3>1. user[t]' = Noted(t) /\ pc[t] = "handle" /\ pc[t]' \in {"log", "idle"}
        BY DEF Handle, Answered
      <3>2. CASE ~Resets(cur[t]) \/ pc[t]' = "idle"
        <4>1. service' = service /\ (pc[t]' = "log" => cur[t]' = cur[t])
          BY DEF Handle, Answered
        <4> QED
          BY <2>2, <3>1, <3>2, <4>1 DEF Own, Resets
      <3>3. CASE Resets(cur[t]) /\ pc[t]' = "log"
        <4>1. cur[t]' = cur[t] /\ service' = service
          BY <3>3 DEF Handle, Answered
        <4>2. user[t] = NoUser
          BY <3>1, <3>3 DEF Own
        <4>3. Routed(cur[t].r) /\ Admitted(cur[t].r) => Verifies(cur[t].r)
          BY <1>2, AdmittedIsVerified
        <4>4. user[t]' \in {NoUser, cur[t].user}
              /\ (Routed(cur[t].r) /\ Admitted(cur[t].r) => user[t]' = cur[t].user)
          BY <3>1, <4>2, <4>3 DEF Noted
        <4> QED
          BY <2>2, <3>1, <3>3, <4>1, <4>4 DEF Own, Resets, Admitted
      <3> QED
        BY <3>1, <3>2, <3>3
    <2> QED
      BY <2>1, <2>2
  <1> QED
    BY <1>1, <1>3, <1>4, <1>5

LEMMA LogStep ==
  ASSUME IInv, NEW t \in Threads, Log(t)
  PROVE  IInv'
  <1> USE DEF IInv, TypeOK
  <1>1. LogTypeOK' /\ Ordered(file, written)' /\ Rotated'
    <2>1. CASE Write
      BY <2>1, WriteOrdered, WriteRotated
    <2>2. CASE UNCHANGED logVars
      BY <2>2 DEF logVars, LogTypeOK, Ordered, Rotated
    <2> QED
      BY <2>1, <2>2 DEF Log
  <1>2. TypeOK'
    BY <1>1, RequestsAssumption DEF Log
  <1>3. \A s \in Threads : Own(s)'
    BY DEF Log, Own, Resets, Admitted
  <1> QED
    BY <1>1, <1>2, <1>3

LEMMA RestartStep ==
  ASSUME IInv, Restart
  PROVE  IInv'
  <1> USE DEF IInv, TypeOK
  <1>1. LogTypeOK' /\ Ordered(file, written)'
    BY LogAssumption, LogBounds DEF Restart, LogRestart, LogTypeOK, Ordered, Files
  <1>2. TypeOK'
    BY <1>1 DEF Restart
  <1>3. \A s \in Threads : Own(s)'
    BY DEF Restart, Own
  <1>4. Rotated'
    <2>1. /\ file' = [i \in Files |-> <<>>]
          /\ written' = 0 /\ faults' = 0
      BY DEF Restart, LogRestart
    <2> QED
      BY <2>1, EmptyRotated DEF Rotated
  <1> QED
    BY <1>1, <1>2, <1>3, <1>4

LEMMA NextIInv == IInv /\ [Next]_vars => IInv'
  <1> SUFFICES ASSUME IInv, [Next]_vars PROVE IInv'
    OBVIOUS
  <1>1. CASE UNCHANGED vars
    BY <1>1 DEF vars, logVars, IInv, TypeOK, LogTypeOK, Ordered, Rotated,
              Own, Resets, Admitted
  <1>2. CASE Next
    BY <1>2, ReceiveStep, HandleStep, LogStep, RestartStep DEF Next
  <1> QED
    BY <1>1, <1>2

LEMMA InvariantHolds == Spec => []IInv
  BY InitIInv, NextIInv, PTL DEF Spec

-----------------------------------------------------------------------------
(***************************************************************************)
(* The theorems.                                                           *)
(***************************************************************************)

\* The threads, their requests, the users noted and the files keep their types.
THEOREM TypeCorrect == Spec => []TypeOK
  <1>1. IInv => TypeOK
    BY DEF IInv
  <1> QED
    BY <1>1, InvariantHolds, PTL

\* The log line of a request with a route names its user if a session let it in,
\* and never somebody else, in each of the four services.
THEOREM LinesNameTheirUser == Spec => []OwnLine
  <1>1. IInv => OwnLine
    BY DEF IInv, Own, Resets, OwnLine
  <1> QED
    BY <1>1, InvariantHolds, PTL

\* But for C++, no line names somebody else, with a route or without: what main.c:77
\* and main.cpp:89 say is true of the other three services.
THEOREM OthersResetForAll == Spec => [](service # "cpp" => OwnUser)
  <1>1. IInv => (service # "cpp" => OwnUser)
    BY DEF IInv, Own, Resets, OwnUser
  <1> QED
    BY <1>1, InvariantHolds, PTL

\* The backups and the file hold the lines in the order in which they were written,
\* for any number of backups and however many renames and opens fail.
THEOREM RotationKeepsOrder == Spec => []InOrder
  <1>1. IInv => InOrder
    BY DEF IInv, Ordered, InOrder
  <1> QED
    BY <1>1, InvariantHolds, PTL

\* The files never take more than their full size together and a line for each rename
\* that failed, whatever the sizes and wherever the failures come: a file is moved on
\* before it grows past the limit, and what is moved was within it.
THEOREM DiskStaysBounded == Spec => []DiskBounded
  <1>1. IInv => DiskBounded
    <2> SUFFICES ASSUME IInv PROVE DiskBounded
      OBVIOUS
    <2>1. Typed(file) /\ faults \in Nat /\ Rotated
      BY LogBounds DEF IInv, TypeOK, LogTypeOK, Typed
    <2> QED
      BY <2>1, HeldBounded
  <1> QED
    BY <1>1, InvariantHolds, PTL

\* While the log is open a failed rename costs one file of lines at most, and without
\* failures the files hold the newest lines, without a gap.
THEOREM NewestAreKept == Spec => []NewestKept
  <1>1. IInv => NewestKept
    <2> SUFFICES ASSUME IInv PROVE NewestKept
      OBVIOUS
    <2>1. /\ Typed(file) /\ Ordered(file, written) /\ written \in 0 .. MaxWritten
          /\ faults \in Nat /\ Rotated
      BY LogBounds DEF IInv, TypeOK, LogTypeOK, Typed
    <2> QED
      BY <2>1, HeldNewest
  <1> QED
    BY <1>1, InvariantHolds, PTL

\* On every request with a route a service's answer is the contract's exactly where its
\* Departs is false: the differences between the four are those listed, for every mix
\* of faults.  No state matters to it, so that it holds of every request of every run.
THEOREM ContractIsIdentical == Spec => []IdenticalContract
  <1>1. IdenticalContract
    BY NoneDiverges DEF IdenticalContract
  <1> QED
    BY <1>1, PTL

\* No request, well formed or not, gets data without the key and a session or creates a
\* row without the role; a statement that failed is never taken for a missing row or a
\* wrong password, and 5xx comes from Postgres or from an input listed in Refused.
THEOREM GatesAlwaysHold == Spec => []GatesHold
  <1>1. GatesHold
    BY NoneBreaks DEF GatesHold
  <1> QED
    BY <1>1, PTL

\* Every payload of the runs survives base64url, and a text with a character outside
\* the alphabet is refused; DecodeEncode says it of every sequence of bytes.
THEOREM RoundTripHolds == Spec => []RoundTrip
  <1>1. RoundTrip
    BY NoneGarbled DEF RoundTrip
  <1> QED
    BY <1>1, PTL

\* The value of the first session cookie is what is read from every header of the runs;
\* CookiesAreFound says it of every jar, over any names and values.
THEOREM CookiesHold == Spec => []CookieFound
  <1>1. CookieFound
    BY NoneMisread DEF CookieFound
  <1> QED
    BY <1>1, PTL

\* No payload of the runs is misjudged; RolesAreRead says it of every list of roles.
THEOREM RolesHold == Spec => []RolesRead
  <1>1. RolesRead
    BY NoneMisjudged DEF RolesRead
  <1> QED
    BY <1>1, PTL
=============================================================================
