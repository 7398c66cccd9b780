------------------------------- MODULE UrlCanon -------------------------------
(***************************************************************************)
(* The canonical form of a URL (app/policy/url_canon.py), by which two     *)
(* spellings of one page are recognised.  A URL is the record of the parts *)
(* that urlsplit finds in it: a missing part is "", the letters of scheme  *)
(* and host are lower case and upper says that some were not, path is      *)
(* without the slashes at its end ("" for the root) and slashes counts     *)
(* them, and query parameters, decoded, are numbered in the order of their *)
(* keys and values.                                                        *)
(*                                                                         *)
(* host is "" as well if there is no scheme but a "://" further on, since  *)
(* then none is supplied and urlsplit finds no host.  Hosts are names or   *)
(* IPv4 addresses: the brackets of an IPv6 address get lost.               *)
(***************************************************************************)
EXTENDS Integers, Sequences, SequencesExt

NoPort == -1

\* Texts; a missing one and the scheme that is supplied are named.
Text == STRING \cup {"", "https"}

Url == [scheme : Text, user : Text, password : Text,
        host : Text, upper : BOOLEAN, port : Nat \cup {NoPort},
        path : Text, slashes : Nat, query : Seq(Nat), fragment : Text]

DefaultPort == [http |-> 80, https |-> 443]

Scheme(url) == IF url.scheme = "" THEN "https" ELSE url.scheme

IsDefaultPort(scheme, port) ==
  scheme \in DOMAIN DefaultPort /\ port = DefaultPort[scheme]

Ascending(q) == \A i, j \in DOMAIN q : i < j => q[i] <= q[j]

\* The parameters, each as often as before, sorted.
InOrder(query) ==
  CHOOSE q \in [DOMAIN query -> Range(query)] : ToBag(q) = ToBag(query) /\ Ascending(q)

\* Seeded fault: an empty path stays empty.
SlashesIfAny(url) == IF url.path = "" /\ url.slashes > 0 THEN 1 ELSE 0

\* The root keeps one slash, or gets it; no other path keeps any.
Slashes(url) == IF url.path = "" THEN 1 ELSE 0

\* Seeded fault: the default ports are dropped from URLs of any scheme.
PortOfAnyScheme(url) ==
  IF \E scheme \in DOMAIN DefaultPort : IsDefaultPort(scheme, url.port) THEN NoPort
                                                                         ELSE url.port

Port(url) == IF IsDefaultPort(Scheme(url), url.port) THEN NoPort ELSE url.port

\* A password counts only with a user name.
CanonicalizeUrl(url) ==
  [scheme |-> Scheme(url), user |-> url.user,
   password |-> IF url.user = "" THEN "" ELSE url.password,
   host |-> url.host, upper |-> FALSE, port |-> Port(url),
   path |-> url.path, slashes |-> Slashes(url),
   query |-> InOrder(url.query), fragment |-> ""]

\* register_source answers 400 to a URL without a host.
ExtractDomain(url) == url.host

(***************************************************************************)
(* What the canonical form is for.                                         *)
(***************************************************************************)
\* Two URLs that reach the same page: one server, one login, one resource.
SamePage(u, v) ==
  LET Server(w) == <<Scheme(w), w.host,
                     IF w.port = NoPort /\ Scheme(w) \in DOMAIN DefaultPort
                       THEN DefaultPort[Scheme(w)] ELSE w.port>>
      Login(w) == IF w.user = "" THEN <<>> ELSE <<w.user, w.password>>
  IN  /\ Server(u) = Server(v)
      /\ Login(u) = Login(v)
      /\ u.path = v.path
      /\ ToBag(u.query) = ToBag(v.query)

\* q is p in another order.
Reordered(p, q) ==
  /\ DOMAIN q = DOMAIN p
  /\ \E f \in [DOMAIN p -> DOMAIN p] :
       /\ \A i \in DOMAIN p : \E j \in DOMAIN p : f[j] = i
       /\ \A i, j \in DOMAIN p : f[i] = f[j] => i = j
       /\ \A i \in DOMAIN p : q[i] = p[f[i]]

\* v is u with one part written in another way: the rules the module's
\* docstring lists, each by itself, and what it does to the user information.
Respelled(u, v) ==
  \/ \E upper \in BOOLEAN : v = [u EXCEPT !.upper = upper]
  \/ u.scheme = "" /\ v = [u EXCEPT !.scheme = "https"]
  \/ IsDefaultPort(Scheme(u), u.port) /\ v = [u EXCEPT !.port = NoPort]
  \/ v = [u EXCEPT !.fragment = ""]
  \/ v = [u EXCEPT !.query = v.query] /\ Reordered(u.query, v.query)
  \/ u.path # "" /\ v = [u EXCEPT !.slashes = 0]
  \/ u.path = "" /\ v = [u EXCEPT !.slashes = 1]
  \/ u.user = "" /\ v = [u EXCEPT !.password = ""]

\* v is got from u by respelling parts, one after the other and in either
\* direction: no set of URLs that respelling does not lead out of has u alone.
SpellingOf(u, v) ==
  \A S \in SUBSET Url :
    /\ u \in S
    /\ \A a \in S, b \in Url : Respelled(a, b) \/ Respelled(b, a) => b \in S
    => v \in S
===============================================================================
