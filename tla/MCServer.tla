----------------------------- MODULE MCServer -----------------------------
(* Small servers, requests and file systems for TLC: the short files of    *)
(* MCOptions and three larger ones are loaded, and what comes up is sent   *)
(* each of the requests.                                                   *)
EXTENDS Server, MCOptions

AD == <<"/", "a", "/">>

\* Realms and paths inside each other; users; every kind of handler.
Guarded == <<Stmt(<<"port", "8080">>), Block(<<"path", A, "EchoHandler">>, <<>>),
    Block(<<"realm", A>>, << <<"credentials", U, P>>, <<"credentials", U, U>>,
                             <<"credentials", <<58>>, U>>, <<"credentials", <<>>, U>> >>),
    Block(<<"realm", AB>>, << <<"credentials", P, P>>, <<"credentials", U, <<>> >> >>),
    Block(<<"path", AB, "EchoHandler">>, <<>>), Stmt(<<"default", "StatusHandler">>)>>
Documents == <<Block(<<"path", A, "StatusHandler">>, <<>>),
    Block(<<"path", A, "StaticHandler">>, <<Root, Md("true")>>),
    Block(<<"path", AD, "StaticHandler">>, << <<"root", <<"r", "/">> >> >>),
    Stmt(<<"port", "8080">>), Block(<<"default", "StaticHandler">>, <<>>)>>
Nested == <<Stmt(<<"threads", "4">>), Stmt(<<"port", "8080">>),
    Block(<<"path", A, "ProxyHandler">>,
          << <<"remote_host", "h">>, <<"remote_port", "4">> >>),
    Block(<<"path", AB, "DelayHandler">>, << <<"delay", "4">> >>)>>

SomeConfigs == Files \cup {Guarded, Documents, Nested}

-----------------------------------------------------------------------------

Line(key, value) == [key |-> key, value |-> value, colon |-> TRUE, bare |-> FALSE]
Bared(l) == [l EXCEPT !.bare = TRUE]
Junk == [Blank EXCEPT !.key = "junk"]
Auth(user, pass) == Line("Authorization", <<"Basic", Encode(user \o <<Colon>> \o pass)>>)

Host == Line("Host", <<"h">>)
Long == Line("Content-Length", <<"4">>)

\* The credentials of /a are those of Auth(U, U) and Auth(<<>>, U) and, in vain,
\* of <<58>>; those of /ab are Auth(P, P) and, with one more ':', Auth(U, <<>>).
\* <<46>> is a text that is not padded.
Credentials == <<
    Auth(U, U), Auth(U, P), Auth(P, P), Auth(U, U \o <<58>>), Auth(U, <<58>> \o U),
    Auth(<<58>>, U), Auth(<<>>, U), Auth(U, <<>>), Auth(U, <<58>>),
    Line("Authorization", <<"Basic">>), Line("Authorization", <<"Digest", <<46>> >>),
    Line("Authorization", <<"Basic", <<46>> >>),
    Line("Authorization", <<"Basic", <<>>, Encode(U \o <<58>> \o U)>>),
    Line("Authorization", <<"Basic", Front(Encode(U \o <<58>> \o U))>>)>>

LinesOf ==
    [k \in DOMAIN Credentials |-> <<Host, Credentials[k], Blank>>] \o
    << <<>>, <<Blank>>, <<Host>>, <<Host, Junk, Blank>>, <<Long, Host, Blank, Junk, Junk>>,
       <<Long, Bared(Blank), Junk, Junk, Blank>>, <<Bared(Host), Blank, Junk>>,
       <<Bared(Host), Long, Blank, Junk, Blank>>, <<Long, Line("Content-Length", <<"0">>), Bared(Host)>>,
       <<Long, Bared(Host), Blank, Host, Blank, Junk>>,
       <<Host, Bared(Long), Bared(Blank)>>, <<Junk>>, <<Host, Bared(Auth(U, U))>>,
       <<Bared(Auth(U, U)), Host>>,
       <<Auth(U, P), Auth(U, U), Blank>>, <<Auth(U, U), Auth(U, P), Blank>> >>

HeadOf(uri)  == [tokens |-> 3, uri |-> uri, http |-> TRUE, bare |-> FALSE]
Plain(uri) == [head |-> HeadOf(uri), lines |-> <<Host, Blank>>]

A_(x) == AD \o x
Uris == << <<"/">>, A_(<<"e", ".", "md">>), A_(<<"z", ".", "md">>), A_(<<"d">>),
           A_(<<"d", "/">>), A_(<<"e", ".", "md", ".">>), A_(<<"e", ".", "png">>), A_(<<"no">>), <<"/", "a", "e", ".", "md">>,
           <<"/", "a", "/", "/", "d">>, <<"/", "a", "e", ".", "md", "/">>, <<"/", "b">>,
           <<"/", "d">>, <<"/", "a", "d">>, AD, <<"/", "a", "z", ".", "md">>, <<>> >>

SomeRequests ==
    [k \in DOMAIN LinesOf |-> [head |-> HeadOf(A), lines |-> LinesOf[k]]] \o
    [k \in DOMAIN LinesOf |-> [head |-> HeadOf(AB), lines |-> LinesOf[k]]] \o
    [k \in DOMAIN Uris |-> Plain(Uris[k])] \o
    <<[head |-> [HeadOf(A) EXCEPT !.tokens = 2], lines |-> <<Blank>>],
      [head |-> [HeadOf(A) EXCEPT !.http = FALSE], lines |-> <<Blank>>],
      [head |-> [HeadOf(A) EXCEPT !.bare = TRUE], lines |-> <<>>],
      [head |-> [HeadOf(A) EXCEPT !.bare = TRUE], lines |-> <<Blank, Host, Blank>>]>>

In(x)  == << <<"r">> >> \o x
Index  == <<"index", ".", "html">>
Site1  == (In(<<>>) :> Directory) @@ (In(<<Index>>) :> "text")
          @@ (In(<< <<"e", ".", "md">> >>) :> "text") @@ (In(<< <<"z", ".", "md">> >>) :> "blank")
          @@ (In(<< <<"d">> >>) :> Directory) @@ (In(<< <<"d">>, Index>>) :> "text")
          @@ (In(<< <<"e", ".", "png">> >>) :> "text")
          @@ (In(<< <<"e", ".", "md", ".">> >>) :> "text") @@ (<< <<"d">> >> :> "text")
          @@ (<< <<"/">>, <<"d">> >> :> Directory)
Site2  == (In(<< <<"d">> >>) :> "text") @@ (In(<< <<"e", ".", "md">> >>) :> "")
          @@ (In(<<Index>>) :> Directory) @@ Site1
Site3  == In(<<>>) :> Directory

SomeSites == {Site1, Site2, Site3}

=============================================================================
