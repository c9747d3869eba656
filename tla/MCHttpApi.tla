------------------------------ MODULE MCHttpApi ------------------------------
(***************************************************************************)
(* HttpApi instantiated for TLC.                                           *)
(***************************************************************************)
EXTENDS HttpApi, TLC

\* Names of up to 5 characters, for UrlNormalize's own properties; MaxRunes,
\* NameMax and LabelMax are cut down so that they bite.
MCName == UNION {[1..n -> Char] : n \in 0..5}

MCHosts == [form : {"name"}, name : {<<>>, <<"alnum">>, <<"-", "alnum">>}]
               \cup [form : {"ipv6", "[ipv6]", "[other]"}, name : {<<>>}]

\* "https://a" with a query has 12 runes and no room for more escapes.
MCRawURL == [scheme : {"none", "http", "HTTP", "https", "ftp"}, slashes : BOOLEAN,
             user : BOOLEAN, host : MCHosts, port : {"none", "empty", "number", "junk"},
             embeds : BOOLEAN, garbled : BOOLEAN,
             runes : 1..8, unescaped : {0, 1}, fragment : {0, 2}]

MCSent ==
    LET sent == [scheme |-> "none", slashes |-> FALSE, user |-> FALSE,
                 host |-> [form |-> "name", name |-> <<"alnum">>], port |-> "none",
                 embeds |-> FALSE, garbled |-> FALSE,
                 runes |-> 1, unescaped |-> 1, fragment |-> 2]
    IN  {sent, [sent EXCEPT !.scheme = "ftp", !.slashes = TRUE]}

MCUrl == {NormalizeHTTP(raw) : raw \in MCSent}

MCSymmetry == Permutations(Proc) \cup Permutations(User)

=============================================================================
