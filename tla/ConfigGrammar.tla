---------------------------- MODULE ConfigGrammar ----------------------------
(***************************************************************************)
(* The configuration language, as a grammar over tokens, and what a parse  *)
(* of it must return.  It is compared with the parser on all short texts.  *)
(*     file      ::= statement+                                            *)
(*     statement ::= word+ ( ';' | '{' statement* '}' )                    *)
(***************************************************************************)
EXTENDS ConfigParser

RECURSIVE IsBlock(_, _, _)

\* Tokens i to j-1 are one statement, and a list of statements.
IsStatement(ts, i, j) ==
    \E m \in i+1..j-1 :
        /\ \A k \in i..m-1 : ts[k] = "NORMAL"
        /\ \/ ts[m] = "STATEMENT_END" /\ m = j - 1
           \/ ts[m] = "START_BLOCK" /\ ts[j-1] = "END_BLOCK" /\ m < j - 1
              /\ IsBlock(ts, m + 1, j - 1)

IsBlock(ts, i, j) ==
    i = j \/ \E k \in i+1..j : IsStatement(ts, i, k) /\ IsBlock(ts, k, j)

Valid(ts) == ts # <<>> /\ IsBlock(ts, 1, Len(ts) + 1)

\* NginxConfig::ToString, without the layout: the tokens that are written for a
\* statement and for a block, each word with its place.
RECURSIVE BlockToString(_, _, _)
StatementToString(bs, s) ==
    [k \in 1..Len(s.tokens) |-> <<"NORMAL", s.tokens[k]>>]
        \o IF s.child = 0 THEN << <<"STATEMENT_END", 0>> >>
           ELSE << <<"START_BLOCK", 0>> >> \o BlockToString(bs, s.child, 1)
                    \o << <<"END_BLOCK", 0>> >>
BlockToString(bs, b, i) ==
    IF i > Len(bs[b]) THEN <<>>
    ELSE StatementToString(bs, bs[b][i]) \o BlockToString(bs, b, i + 1)

Text == [k \in 1..Len(lexed) |-> <<lexed[k], IF lexed[k] = "NORMAL" THEN k ELSE 0>>]

\* Of the tokens that ParseToken returns, Parse accepts exactly the sentences
\* of the grammar.
AcceptsGrammar ==
    pc = "done" => (ret <=> Valid(lexed) /\ token_type = "EOF")

\* What ToString writes of an accepted text is the text: every word is in its
\* statement, in order, and every block hangs on the statement in front of it.
TreeIsText == pc = "done" /\ ret => BlockToString(blocks, 1, 1) = Text

\* "Returns true iff the input config file is valid" (config_parser.h), where
\* the text is all of the text, a word at its very end included.
TrueIffValid ==
    pc = "done" /\ token_type = "EOF" =>
        (ret <=> Valid(IF dropped THEN Append(lexed, "NORMAL") ELSE lexed))

=============================================================================
