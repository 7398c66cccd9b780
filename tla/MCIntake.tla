------------------------------- MODULE MCIntake -------------------------------
(***************************************************************************)
(* Instances of Intake and JobEnqueue for TLC.                             *)
(***************************************************************************)
EXTENDS Intake, UrlCanon

CONSTANTS x1, x2

\* The root page of a site, spelled in three ways, and one of another server.
Page1 == [scheme |-> "https", user |-> "", password |-> "", host |-> "host",
          upper |-> FALSE, port |-> NoPort, path |-> "", slashes |-> 0,
          query |-> <<1, 2>>, fragment |-> ""]
Slashed1 == [Page1 EXCEPT !.slashes = 1]
Spelled1 == [Page1 EXCEPT !.scheme = "", !.upper = TRUE, !.port = 443, !.slashes = 2,
                          !.query = <<2, 1>>, !.fragment = "top"]
Page2 == [Page1 EXCEPT !.port = 80]

MCUrls == {Page1, Slashed1, Spelled1, Page2}

\* The crawl-jobs route.
Singles == {<<u>> : u \in MCUrls}

\* Every kind of scheme, port and path, with and without user information.
Grid == {[scheme |-> scheme, user |-> login[1], password |-> login[2], host |-> "host",
          upper |-> FALSE, port |-> port, path |-> path[1], slashes |-> path[2],
          query |-> query, fragment |-> "top"] :
           scheme \in {"", "http", "https", "ftp"},
           login \in {<<"", "">>, <<"", "pw">>, <<"me", "pw">>},
           port \in {NoPort, 80, 443},
           path \in {<<"", 0>>, <<"", 1>>, <<"/charts", 0>>, <<"/charts", 2>>},
           query \in {<<>>, <<1, 2>>, <<2, 1>>, <<1, 1, 2>>}}

\* A canonical form is canonical, and a respelling reaches the page of its URL.
ASSUME CanonicalForms ==
  \A u \in Grid :
    /\ CanonicalizeUrl(CanonicalizeUrl(u)) = CanonicalizeUrl(u)
    /\ \A v \in Grid : Respelled(u, v) => SamePage(u, v)

SessionSymmetry == Permutations(Sessions)
===============================================================================
