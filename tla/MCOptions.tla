----------------------------- MODULE MCOptions -----------------------------
(* Small files for TLC: every sequence of up to three of the statements. *)
EXTENDS Options

SomeNumbers == "8080" :> 8080 @@ "1023" :> 1023 @@ "65536" :> 65536 @@ "-1" :> -1
               @@ "0" :> 0 @@ "4" :> 4

A  == <<"/", "a">>
AB == <<"/", "a", "b">>
U  == <<117>>
P  == <<112, 113>>

Stmt(tokens) == [tokens |-> tokens, child |-> FALSE, block |-> <<>>]
Block(tokens, block) == [tokens |-> tokens, child |-> TRUE, block |-> block]

Root == <<"root", <<"r">> >>
Md(x) == <<"convert_markdown", x>>

Statements == {
    Stmt(<<"port", "8080">>), Stmt(<<"port", "1023">>), Stmt(<<"port", "lots">>),
    Stmt(<<"port", "-1">>), Stmt(<<"port", "8080", "x">>), Stmt(<<"port">>),
    Stmt(<<"threads", "4">>), Stmt(<<"threads", "0">>), Stmt(<<"threads", "few">>),
    Block(<<"path", A, "EchoHandler">>, <<>>), Stmt(<<"path", A, "EchoHandler">>),
    Block(<<"path", <<>>, "StatusHandler">>, <<>>), Stmt(<<"path", A>>), Block(<<"path", A, "NoHandler">>, <<>>),
    Block(<<"path", A, "StaticHandler">>, <<Root, Md("true")>>),
    Block(<<"path", AB, "StaticHandler">>, <<Md("no"), Root, Md("true")>>),
    Stmt(<<"path", A, "StaticHandler">>),
    Block(<<"path", AB, "DelayHandler">>, << <<"x">>, <<"delay", "4">> >>),
    Block(<<"path", AB, "DelayHandler">>, << <<"delay", "x">>, <<"y", "4">> >>),
    Block(<<"path", AB, "DelayHandler">>, << <<"y", "4">>, <<"delay", "x">> >>),
    Block(<<"path", AB, "ProxyHandler">>, << <<"remote_host", "h">> >>),
    Block(<<"path", AB, "ProxyHandler">>, << <<"remote_host", "h">>, <<"remote_port", "4">> >>),
    Block(<<"default", "StaticHandler">>, <<Root>>), Block(<<"default", "EchoHandler">>, <<>>),
    Stmt(<<"default">>),
    Block(<<"realm", A>>, << <<"credentials", U, P>>, <<"credentials", P, P>>,
                             <<"credentials", U, U>> >>),
    Block(<<"realm", A>>, << <<"user", U, P>> >>), Block(<<"realm", A>>, << <<"user", U>> >>),
    Stmt(<<"realm", A>>), Block(<<"realm">>, <<>>), Stmt(<<"listen", "8080">>)}

Files == UNION {[1..n -> Statements] : n \in 0..3}

=============================================================================
