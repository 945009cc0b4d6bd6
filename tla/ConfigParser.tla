----------------------------- MODULE ConfigParser -----------------------------
(***************************************************************************)
(* The configuration file parser (config_parser.cc).  ParseToken is a      *)
(* state machine over characters, with one character of look-ahead that is *)
(* put back (unget); Parse is a pushdown machine over the tokens, which    *)
(* decides with the type of the last token alone what may follow, and      *)
(* grows the tree of statements and blocks on a stack of open blocks.      *)
(*                                                                         *)
(* The text is read character by character and may end anywhere.  What a   *)
(* word is does not matter: a word is known by its place among the tokens. *)
(***************************************************************************)
EXTENDS ConfigText

CONSTANT MaxTokens   \* bound: tokens in a text

ASSUME ParserAssumption == MaxTokens \in Nat

\* Characters that ParseToken tells apart; "a" stands for all others, " " for
\* the tabulator too.
Space   == {" ", "\n", "\r"}
Special == {"{", "}", ";"}
Chars   == Space \cup Special \cup {"a", "#", "'", "\""}
NoChar  == "none"

\* What ends a word: not '\r', and not '#'.
EndsWord == {" ", "\n", ";", "{", "}", "\"", "'"}

TokenTypes == {"START", "NORMAL", "START_BLOCK", "END_BLOCK", "COMMENT",
               "STATEMENT_END", "EOF", "ERROR"}

TypeOf(c) == CASE c = "{" -> "START_BLOCK"
               [] c = "}" -> "END_BLOCK"
               [] c = ";" -> "STATEMENT_END"

VARIABLES
    pc,              \* opening the file, reading a token, looking at it, finished
    state,           \* ParseToken's state
    ahead,           \* the character put back, if any
    token_type, last_token_type,
    bracket_parity,
    config_stack,    \* open blocks, the innermost first
    blocks,          \* blocks[b]: the statements of block b; the file is block 1
    ret,             \* what Parse returned
    lexed,           \* history: the types of the tokens, comments left out
    dropped          \* history: was the text cut in the middle of a word?

lexer  == <<state, ahead, dropped>>
parser == <<last_token_type, bracket_parity, config_stack, blocks, ret>>
vars   == <<pc, token_type, lexed, lexer, parser>>

Init ==
    /\ pc = "open" /\ state = "INITIAL_WHITESPACE" /\ ahead = NoChar
    /\ token_type = "START" /\ last_token_type = "START"
    /\ bracket_parity = 0
    /\ config_stack = <<1>>
    /\ blocks = << <<>> >>
    /\ ret = FALSE
    /\ lexed = <<>> /\ dropped = FALSE

-----------------------------------------------------------------------------
(* Faulty variants of the steps, which the properties must tell apart *)

\* A block may be closed that was not opened.
CloseBlock_NoCheck ==
    /\ config_stack # <<>>
    /\ bracket_parity' = bracket_parity - 1
    /\ config_stack' = Tail(config_stack)
    /\ UNCHANGED <<blocks, ret>>

\* A semicolon may follow anything.
MayEnd_Always == TRUE

\* A block is closed in the count but not on the stack.
CloseBlock_NoPop ==
    /\ bracket_parity' = bracket_parity - 1
    /\ UNCHANGED <<config_stack, blocks, ret>>

\* `continue` after a block was opened: '{' does not become the last token.
Continue_Stale ==
    /\ pc' = "lex"
    /\ last_token_type' = IF token_type = "START_BLOCK" THEN last_token_type
                          ELSE token_type

\* A block needs a statement.
MayClose_NotEmpty == last_token_type \in {"STATEMENT_END", "END_BLOCK"}

\* A comment becomes the last token, as every other token does.
SkipComment_Last ==
    /\ token_type = "COMMENT"
    /\ pc' = "lex"
    /\ last_token_type' = token_type
    /\ UNCHANGED <<bracket_parity, config_stack, blocks, ret>>

\* A statement is begun without its first token.
NewStatement_Empty(v) == [tokens |-> <<>>, child |-> 0]

-----------------------------------------------------------------------------
(* ParseToken *)

\* The next character: the one put back, or one from the text.
Input(c) == IF ahead = NoChar THEN Len(lexed) < MaxTokens ELSE c = ahead

\* ParseToken returns.
Token(type) ==
    /\ token_type' = type
    /\ pc' = "parse"
    /\ state' = "INITIAL_WHITESPACE"

Stay(there) == state' = there /\ UNCHANGED <<pc, token_type, lexed>>

\* In front of a token.
Initial(c) ==
    /\ state = "INITIAL_WHITESPACE"
    /\ Input(c)
    /\ ahead' = NoChar
    /\ \/ c \in Special /\ Token(TypeOf(c)) /\ lexed' = Append(lexed, TypeOf(c))
       \/ c \in Space   /\ Stay("INITIAL_WHITESPACE")
       \/ c = "#"       /\ Stay("COMMENT")
       \/ c = "\""      /\ Stay("DOUBLE_QUOTE")
       \/ c = "'"       /\ Stay("SINGLE_QUOTE")
       \/ c = "a"       /\ Stay("NORMAL")
    /\ UNCHANGED <<parser, dropped>>

\* A quoted token ends with its quote, and only with it.
Quoted(c) ==
    /\ state \in {"SINGLE_QUOTE", "DOUBLE_QUOTE"}
    /\ Input(c)
    /\ ahead' = NoChar
    /\ IF c = IF state = "SINGLE_QUOTE" THEN "'" ELSE "\""
       THEN Token("NORMAL") /\ lexed' = Append(lexed, "NORMAL")
       ELSE Stay(state)
    /\ UNCHANGED <<parser, dropped>>

Comment(c) ==
    /\ state = "COMMENT"
    /\ Input(c)
    /\ ahead' = NoChar
    /\ IF c \in {"\n", "\r"} THEN Token("COMMENT") /\ UNCHANGED lexed ELSE Stay(state)
    /\ UNCHANGED <<parser, dropped>>

\* input->unget()
EndWord(c) == ahead' = c

Word(c) ==
    /\ state = "NORMAL"
    /\ Input(c)
    /\ IF c \in EndsWord
       THEN EndWord(c) /\ Token("NORMAL") /\ lexed' = Append(lexed, "NORMAL")
       ELSE ahead' = NoChar /\ Stay(state)
    /\ UNCHANGED <<parser, dropped>>

\* The text ends: an error in quotes, else the end of the file, also in the
\* middle of a word, which is lost.
EndOfText ==
    /\ ahead = NoChar
    /\ Token(IF state \in {"SINGLE_QUOTE", "DOUBLE_QUOTE"} THEN "ERROR" ELSE "EOF")
    /\ dropped' = (state = "NORMAL")
    /\ UNCHANGED <<parser, ahead, lexed>>

ParseToken == pc = "lex" /\ (EndOfText \/ \E c \in Chars :
                               Initial(c) \/ Quoted(c) \/ Comment(c) \/ Word(c))

-----------------------------------------------------------------------------
(* Parse *)

Top == Head(config_stack)

Return(value) ==
    /\ pc' = "done"
    /\ ret' = value
    /\ UNCHANGED <<last_token_type, bracket_parity, config_stack, blocks>>

Continue ==
    /\ pc' = "lex"
    /\ last_token_type' = token_type

\* A comment does not become the last token.
SkipComment ==
    /\ token_type = "COMMENT"
    /\ pc' = "lex"
    /\ UNCHANGED parser

\* statements_.emplace_back(new NginxConfigStatement), with its first token
NewStatement(v) == [tokens |-> <<v>>, child |-> 0]

\* A word begins a statement of the innermost block, or goes on with its last.
\* The test of last_token_type in front of it (173-187) always holds: a token
\* it leaves out, COMMENT, EOF or ERROR, never becomes the last one.
AddWord ==
    LET v == Len(lexed)  n == Len(blocks[Top]) IN
    /\ token_type = "NORMAL"
    /\ blocks' = IF last_token_type # "NORMAL"
                 THEN [blocks EXCEPT ![Top] = Append(@, NewStatement(v))]
                 ELSE [blocks EXCEPT ![Top][n].tokens = Append(@, v)]
    /\ Continue
    /\ UNCHANGED <<bracket_parity, config_stack, ret>>

MayEnd  == last_token_type = "NORMAL"
MayOpen == last_token_type = "NORMAL"
MayClose == last_token_type \in {"STATEMENT_END", "END_BLOCK", "START_BLOCK"}
MayStop  == last_token_type \in {"STATEMENT_END", "END_BLOCK"} /\ bracket_parity = 0

EndStatement ==
    /\ token_type = "STATEMENT_END"
    /\ MayEnd
    /\ Continue
    /\ UNCHANGED <<bracket_parity, config_stack, blocks, ret>>

\* A new block hangs on the last statement and becomes the innermost.
OpenBlock ==
    LET n == Len(blocks[Top])  new == Len(blocks) + 1 IN
    /\ token_type = "START_BLOCK"
    /\ MayOpen
    /\ bracket_parity' = bracket_parity + 1
    /\ blocks' = Append([blocks EXCEPT ![Top][n].child = new], <<>>)
    /\ config_stack' = <<new>> \o config_stack
    /\ Continue
    /\ UNCHANGED ret

CloseBlock ==
    /\ bracket_parity > 0
    /\ bracket_parity' = bracket_parity - 1
    /\ config_stack' = Tail(config_stack)
    /\ UNCHANGED <<blocks, ret>>

EndBlock ==
    /\ token_type = "END_BLOCK"
    /\ MayClose
    /\ CloseBlock
    /\ Continue

Accept ==
    /\ token_type = "EOF"
    /\ MayStop
    /\ Return(TRUE)

\* Every other combination of two tokens is an error.
Reject ==
    /\ \/ token_type = "ERROR"
       \/ token_type = "STATEMENT_END" /\ ~MayEnd
       \/ token_type = "START_BLOCK" /\ ~MayOpen
       \/ token_type = "END_BLOCK" /\ (~MayClose \/ bracket_parity = 0)
       \/ token_type = "EOF" /\ ~MayStop
    /\ Return(FALSE)

Parse ==
    /\ pc = "parse"
    /\ SkipComment \/ AddWord \/ EndStatement \/ OpenBlock \/ EndBlock \/ Accept \/ Reject
    /\ UNCHANGED <<lexer, token_type, lexed>>

\* Parse(file_name): the file may not be there.
Open ==
    /\ pc = "open"
    /\ pc' \in {"lex", "done"}
    /\ UNCHANGED <<lexer, parser, token_type, lexed>>

Next == Open \/ ParseToken \/ Parse

Spec == Init /\ [][Next]_vars

-----------------------------------------------------------------------------
(* Properties *)

TypeOK ==
    /\ pc \in {"open", "lex", "parse", "done"}
    /\ state \in {"INITIAL_WHITESPACE", "SINGLE_QUOTE", "DOUBLE_QUOTE", "COMMENT", "NORMAL"}
    /\ ahead \in Chars \cup {NoChar}
    /\ token_type \in TokenTypes /\ last_token_type \in TokenTypes
    /\ bracket_parity \in Nat
    /\ config_stack \in Seq(Nat)
    /\ blocks \in Seq(Seq([tokens : Seq(Nat), child : Nat]))
    /\ ret \in BOOLEAN /\ dropped \in BOOLEAN
    /\ lexed \in Seq(TokenTypes)

\* The count of open brackets is the height of the stack above the file's own block.
ParityIsDepth == Len(config_stack) = bracket_parity + 1

\* After a word the innermost block has a statement.
BackExists == last_token_type = "NORMAL" => blocks[Top] # <<>>

\* What the code takes without a test is there: the `<= 0` test on the count keeps
\* top() and pop() from an empty stack, and back(), called for a word or a '{' behind
\* a word, from an empty block (config_parser.cc:172-214).
NeverEmpty == ParityIsDepth /\ BackExists

\* A text is accepted if and only if it is read to its end and its tokens are a
\* file, wherever its comments are: the type of the last token and one count are
\* enough to tell (config_parser.cc:150-235).
AcceptsFiles == pc = "done" => (ret <=> token_type = "EOF" /\ IsFile(lexed))

\* The text is given up at a token only if no file begins with the tokens so far.
GivesUpInTime ==
    pc = "done" /\ token_type \in Words => ~Begun(lexed, Len(lexed))

\* The tree of an accepted text has every word of it, in the statement and the
\* block where it stands, and every block at the statement in front of it: the
\* stack is the blocks that are open, innermost first (config_parser.cc:172-214).
TreeIsPlaced == pc = "done" /\ ret => IsTree(lexed, blocks)

=============================================================================
