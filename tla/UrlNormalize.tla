---------------------------- MODULE UrlNormalize ----------------------------
(***************************************************************************)
(* normalizeHTTP of the shortener service (internal/services/shortener/    *)
(* url.go): which URLs it accepts, and what it makes of them.              *)
(*                                                                         *)
(* A URL is the record of the pieces its text has from left to right; a    *)
(* name is the sequence of the kinds of its characters.  A definition      *)
(* named D_X is D with one plausible slip in it.                           *)
(***************************************************************************)
EXTENDS Integers, Sequences

CONSTANTS
    RawURL,    \* texts that clients send
    Name,      \* host names in them
    MaxRunes,  \* 2000
    NameMax,   \* 255
    LabelMax   \* 63

ASSUME LimitsAssumption == MaxRunes \in Nat /\ NameMax \in Nat /\ LabelMax \in Nat

Char == {"alnum", "-", ".", "other"}

ASSUME NameAssumption == Name \subseteq Seq(Char)

(***************************************************************************)
(* slashes: "://" stands behind the scheme, ":" alone otherwise;           *)
(* port: "empty" is a colon and nothing behind it; embeds: there is a      *)
(* "://" further behind, as in a query that holds a URL; runes counts what *)
(* stands between "://" and "#"; of the path's, unescaped ones are two     *)
(* bytes long and get escaped (a query stays as it is); fragment counts    *)
(* the runes from "#" on; garbled: there is a control character or half an *)
(* escape where url.Parse refuses one.                                     *)
(*                                                                         *)
(* In a host that is an IPv6 address without brackets the last group is    *)
(* the port, whatever its author meant; "ipv6" is one that is an address   *)
(* without that group as well.  What follows a lone ":" is no number.      *)
(***************************************************************************)
Host == [form : {"name"}, name : Name]
            \cup [form : {"ipv6", "[ipv6]", "[other]"}, name : {<<>>}]

URLText == [scheme : {"none", "http", "HTTP", "https", "ftp"}, slashes : BOOLEAN,
            user : BOOLEAN, host : Host, port : {"none", "empty", "number", "junk"},
            embeds : BOOLEAN, garbled : BOOLEAN,
            runes : Nat, unescaped : Nat, fragment : Nat]

ASSUME RawAssumption == RawURL \subseteq URLText

-----------------------------------------------------------------------------
IsValidFQDNLabel_AnyEnd(label) ==
    /\ Len(label) \in 1..LabelMax
    /\ \A i \in DOMAIN label : label[i] \in {"alnum", "-"}
    /\ label[1] # "-"

IsValidFQDNLabel(label) ==
    /\ Len(label) \in 1..LabelMax
    /\ \A i \in DOMAIN label : label[i] \in {"alnum", "-"}
    /\ label[1] # "-" /\ label[Len(label)] # "-"

\* strings.CutSuffix(s, ".")
WithoutFinalDot(s) ==
    IF s # <<>> /\ s[Len(s)] = "." THEN SubSeq(s, 1, Len(s) - 1) ELSE s

Cuts(s) == {0, Len(s) + 1} \cup {i \in DOMAIN s : s[i] = "."}

\* strings.Split(s, "."), as a set.
Labels(s) ==
    {SubSeq(s, c[1] + 1, c[2] - 1) :
        c \in {d \in Cuts(s) \X Cuts(s) :
                  d[1] < d[2] /\ \A k \in Cuts(s) : k <= d[1] \/ k >= d[2]}}

IsValidFQDN(s) ==
    /\ Len(s) <= NameMax
    /\ \A label \in Labels(WithoutFinalDot(s)) : IsValidFQDNLabel(label)

\* The host without ":" and the port.  IPv4 addresses pass as names.
HostIsValid(u) ==
    \/ u.host.form = "name" /\ IsValidFQDN(u.host.name)
    \/ u.host.form = "[ipv6]"
    \/ u.host.form = "ipv6" /\ u.port = "number"

UrlIsValid_AnyScheme(u) == u.slashes /\ ~u.user /\ HostIsValid(u)

\* urlIsValid; the parser has put the scheme into lower case.
UrlIsValid(u) ==
    /\ u.scheme \in {"http", "HTTP", "https"}
    /\ u.slashes
    /\ ~u.user
    /\ HostIsValid(u)

-----------------------------------------------------------------------------
SchemeRunes == [none |-> 0, http |-> 4, HTTP |-> 4, https |-> 5, ftp |-> 3]

\* utf8.RuneCountInString
Runes(u) == SchemeRunes[u.scheme] + (IF u.slashes THEN 3 ELSE 0)
                + u.runes + u.fragment

WithScheme_Always(u) ==
    [u EXCEPT !.scheme = "http", !.slashes = TRUE,
              !.port = IF u.scheme = "none" THEN @ ELSE "junk"]

\* "http://" in front, unless there is a "://" anywhere.  A scheme without
\* slashes becomes the host, and what follows it no port.
WithScheme(u) ==
    IF u.slashes \/ u.embeds THEN u
    ELSE [u EXCEPT !.scheme = "http", !.slashes = TRUE,
                   !.port = IF u.scheme = "none" THEN @ ELSE "junk"]

\* url.Parse fails on a port that is no number and on what it cannot read.
Accepts(raw) ==
    /\ Runes(raw) <= MaxRunes
    /\ ~raw.garbled
    /\ WithScheme(raw).port # "junk"
    /\ UrlIsValid(WithScheme(raw))

\* What is stored: u.String() escapes each of the path's unescaped runes.
NormalizeHTTP(raw) ==
    [WithScheme(raw) EXCEPT !.scheme = IF @ = "HTTP" THEN "http" ELSE @,
                            !.fragment = 0,
                            !.runes = @ + 5 * raw.unescaped,
                            !.unescaped = 0]

-----------------------------------------------------------------------------
(***************************************************************************)
(* Properties.  The two about all names and all texts mention no state:    *)
(* HttpApi states them of a server that has had no request yet.            *)
(***************************************************************************)

\* A domain name, said position by position: one final dot aside, letters,
\* digits and hyphens in runs of at most LabelMax, single dots between them,
\* no hyphen at either end of a run.
IsDomainName(s) ==
    LET t == WithoutFinalDot(s)
        In(i, chars) == i \in DOMAIN t /\ t[i] \in chars
    IN  /\ Len(s) <= NameMax
        /\ t # <<>>
        /\ \A i \in DOMAIN t :
              \/ t[i] = "alnum"
              \/ t[i] = "-" /\ In(i - 1, {"alnum", "-"}) /\ In(i + 1, {"alnum", "-"})
              \/ t[i] = "." /\ In(i - 1, {"alnum"}) /\ In(i + 1, {"alnum"})
        /\ \A i \in 1..(Len(t) - LabelMax) : \E j \in i..(i + LabelMax) : t[j] = "."

\* isValidFQDN splits, trims and counts its way to exactly the domain names,
\* the empty name, runs of dots and hyphens next to dots included.
FQDNIsDomainName == \A s \in Name : IsValidFQDN(s) <=> IsDomainName(s)

\* What a client reads in an answer it may send again: a stored URL is
\* accepted and stays as it is, unless "http://" and the escapes have made it
\* longer than a URL may be.
NormalizeIdempotent ==
    \A raw \in RawURL :
        Accepts(raw) /\ Runes(NormalizeHTTP(raw)) <= MaxRunes =>
            /\ Accepts(NormalizeHTTP(raw))
            /\ NormalizeHTTP(NormalizeHTTP(raw)) = NormalizeHTTP(raw)

=============================================================================
