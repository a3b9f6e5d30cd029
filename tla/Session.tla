-------------------------------- MODULE Session --------------------------------
(***************************************************************************)
(* How the C and C++ services, which have no library for it, take a        *)
(* session apart: the Cookie header, base64url, the roles in a payload.    *)
(* Both languages scan alike.  The services with libraries read the same   *)
(* cookies, so each scan is compared with what the text means.             *)
(*                                                                         *)
(* A character of base64url is its index in the alphabet, -1 if it has     *)
(* none.  In a header or a payload a symbol stands for a run of characters *)
(* no scan stops in.                                                       *)
(***************************************************************************)
EXTENDS Integers, Sequences, SequencesExt

\* memchr: the first x in text from i on, or the position after its end.
Find(text, x, i) ==
  LET found == {j \in i..Len(text) : text[j] = x}
  IN IF found = {} THEN Len(text) + 1 ELSE CHOOSE j \in found : \A k \in found : j <= k

-----------------------------------------------------------------------------
(* base64url *)

Byte(bytes, i) == IF i \in DOMAIN bytes THEN bytes[i] ELSE 0

\* Mutant: a last group of two bytes is written as one of one.
EncodeShort(bytes) ==
  [i \in 1..(4 * (Len(bytes) \div 3) + (IF Len(bytes) % 3 = 0 THEN 0 ELSE 2)) |->
     LET g == 3 * ((i - 1) \div 4)
         v == Byte(bytes, g + 1) * 2^16 + Byte(bytes, g + 2) * 2^8 + Byte(bytes, g + 3)
     IN (v \div 2^(18 - 6 * ((i - 1) % 4))) % 64]

\* Character number i is made of six of the 24 bits of its group of three bytes; no
\* character is made of padding only.
Encode(bytes) ==
  [i \in 1..((4 * Len(bytes) + 2) \div 3) |->
     LET g == 3 * ((i - 1) \div 4)
         v == Byte(bytes, g + 1) * 2^16 + Byte(bytes, g + 2) * 2^8 + Byte(bytes, g + 3)
     IN (v \div 2^(18 - 6 * ((i - 1) % 4))) % 64]

\* One character: buf is an int that is shifted and never masked, so that it overflows
\* at the sixth.  It is cut to 24 bits here; at most 12 of them are still to be read.
Shifted(d, v) ==
  LET buf  == (d.buf * 64 + v) % 2^24
      bits == d.bits + 6
  IN IF bits < 8 THEN [out |-> d.out, buf |-> buf, bits |-> bits]
     ELSE [out |-> Append(d.out, (buf \div 2^(bits - 8)) % 256),
           buf |-> buf, bits |-> bits - 8]

\* The loop's variables after each number of characters.
Loop(chars) ==
  LET after[i \in 0..Len(chars)] ==
        IF i = 0 THEN [out |-> <<>>, buf |-> 0, bits |-> 0]
        ELSE Shifted(after[i - 1], chars[i])
  IN after

\* b64url_decode: a character outside the alphabet ends the loop and the function.
Decode(chars) ==
  IF \E i \in DOMAIN chars : chars[i] < 0 THEN <<-1>> ELSE Loop(chars)[Len(chars)].out

Payloads == BoundedSeq({0, 90, 165, 255}, 5)

Garbled == {bytes \in Payloads :
              \/ Decode(Encode(bytes)) # bytes
              \/ \E i \in DOMAIN Encode(bytes) :
                   Decode([Encode(bytes) EXCEPT ![i] = -1]) # <<-1>>}

-----------------------------------------------------------------------------
(* The Cookie header *)

None == <<"none">>

Skip(header, i) ==
  LET left == {j \in i..Len(header) : header[j] \notin {" ", ";"}}
  IN IF left = {} THEN Len(header) + 1 ELSE CHOOSE j \in left : \A k \in left : j <= k

\* Mutant: the name is searched for anywhere in the header.
SessionAnywhere(header) ==
  LET p == Find(header, "session", 1)
  IN IF p > Len(header) THEN None
     ELSE SubSeq(header, p + 2, Find(header, ";", p) - 1)

\* cookie_get_session: name by name, from one semicolon to the next.
SessionOf(header) ==
  LET from[i \in 1..(Len(header) + 1)] ==
        LET p    == Skip(header, i)
            eq   == Find(header, "=", p)
            semi == Find(header, ";", eq + 1)
        IN IF eq > Len(header) THEN None
           ELSE IF SubSeq(header, p, eq - 1) = <<"session">>
                THEN SubSeq(header, eq + 1, semi - 1)
           ELSE IF semi > Len(header) THEN None ELSE from[semi + 1]
  IN from[1]

Pairs == [name : {<<"session">>, <<"theme">>, <<"my", "session">>},
          value : {<<>>, <<"t">>, <<"session", "=", "t">>}]

Jars == BoundedSeq(Pairs, 3)

Header(jar, sep) ==
  FlattenSeq([i \in DOMAIN jar |-> (IF i = 1 THEN <<>> ELSE sep)
                                   \o jar[i].name \o <<"=">> \o jar[i].value])

Separators == {<<";", " ">>, <<";">>}

\* The value of the first cookie that is named session.
TokenIn(jar) ==
  LET named == {i \in DOMAIN jar : jar[i].name = <<"session">>}
  IN IF named = {} THEN None ELSE jar[CHOOSE i \in named : \A j \in named : i <= j].value

Misread == {jar \in Jars :
              \E sep \in Separators : SessionOf(Header(jar, sep)) # TokenIn(jar)}

-----------------------------------------------------------------------------
(* The roles *)

\* Mutant: a role is searched for anywhere in the text.
ContainsAnywhere(text, wanted) ==
  \E i, j \in DOMAIN text : SubSeq(text, i, j) \in wanted

\* roles_contains_any: what is between a quote and the next one is a role.
ContainsAny(text, wanted) ==
  LET from[i \in 1..(Len(text) + 1)] ==
        LET open1  == Find(text, "quote", i)
            close1 == Find(text, "quote", open1 + 1)
        IN /\ close1 <= Len(text)
           /\ SubSeq(text, open1 + 1, close1 - 1) \in wanted \/ from[close1 + 1]
  IN from[1]

\* Names that contain a wanted one, or what separates names.
RoleLists == BoundedSeq({<<"writer">>, <<"admin">>, <<"reader">>,
                         <<"ghost", "writer">>, <<"a", ",", "writer">>}, 3)

Text(roles) ==
  <<"[">> \o FlattenSeq([i \in DOMAIN roles |->
              (IF i = 1 THEN <<>> ELSE <<",">>) \o <<"quote">> \o roles[i] \o <<"quote">>])
          \o <<"]">>

Wanted == {{<<"writer">>, <<"admin">>}, {<<"writer">>}}

Misjudged == {roles \in RoleLists :
                \E wanted \in Wanted :
                  ContainsAny(Text(roles), wanted) # (ToSet(roles) \cap wanted # {})}

=============================================================================
