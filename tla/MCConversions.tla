--------------------------- MODULE MCConversions ----------------------------
(* Conversions on small inputs.                                             *)
EXTENDS Conversions

Texts(chars, n) == UNION {[1..k -> chars] : k \in 0..n}

\* A function of all its arguments, in place of the rounds of Blowfish.
Toy(stream, salt, cost) ==
    [i \in 1..24 |-> IF i <= 12 THEN (stream[i] * 64 + cost) % 256 ELSE salt[i - 12]]

Salts == {[i \in 1..16 |-> 0], [i \in 1..16 |-> 255], [i \in 1..16 |-> (i * 37) % 256]}

Bodies ==
    [parses : {FALSE}, object : {FALSE}, id : {Absent}, code : {Absent}]
        \cup [parses : {TRUE}, object : BOOLEAN,
              id : {Absent, Field(TRUE, "other", <<>>)}
                     \cup {Field(TRUE, "integer", <<n>>) : n \in -12..12},
              code : {Absent, Field(TRUE, "other", <<>>)}
                     \cup {Field(TRUE, "string", t) : t \in {<<>>, <<"x">>}}]

\* Other cookies a browser may send along.
Others == {Pair(n, v) : n \in {<<"a">>, <<"a", "session_id">>, <<"session_id", "a">>},
                        v \in {<<>>, <<"v">>, <<"v", "=">>, <<"=", "session_id">>}}

AllChars ==
    Blank \cup {"x", "y", "a", "b", "v", "session_id", "=", ";", " "} \cup {HexDigit(n) : n \in 0..15}

Sessions == {Hex(s) : s \in Salts}

AllCalls ==
    [f : {"judge"}, ending : Endings, output : Texts({NewLine, "x"}, 1),
     expected : Texts({NewLine, "x"}, 1)]
        \cup [f : {"judge"}, ending : {[how |-> "exit", code |-> "zero"]},
              output : Texts(Blank \cup {"x", "y"}, 3), expected : Texts(Blank \cup {"x", "y"}, 2)]
        \cup [f : {"submit"}, body : Bodies, valid : BOOLEAN]
        \cup [f : {"verify"}, password : Texts({0, 1}, 6), other : Texts({0, 1}, 6),
              cost : {5}, salt : {[i \in 1..16 |-> 7 * i]}]
        \cup [f : {"verify"}, password : Texts({0, 3}, 2), other : Texts({0, 3}, 2),
              cost : {0, 4, 10, 31, 40}, salt : Salts]
        \cup [f : {"register"}, name : {0, 2, 3, 64, 65}, password : Texts({0, 1}, 6),
              confirm : {Absent} \cup {Field(TRUE, "string", p) : p \in [1..6 -> {1}]},
              cost : {10}, salt : Salts]
        \cup [f : {"cookie"}, before : {<<>>} \cup Others, after : {<<>>} \cup Others,
              session : {<<>>} \cup Sessions]
=============================================================================
