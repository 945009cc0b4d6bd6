------------------------------ MODULE ConfigText ------------------------------
(***************************************************************************)
(* A configuration file, told from its tokens alone and all at once: which *)
(* tokens stand next to each other, how many blocks are open at each of    *)
(* them, and in which block each word stands.  Nothing here goes through   *)
(* the text from its beginning, as the parser does.                        *)
(***************************************************************************)
EXTENDS Integers, Sequences, FiniteSets

Words == {"NORMAL", "STATEMENT_END", "START_BLOCK", "END_BLOCK"}

\* The tokens in front of place k and behind it, and what may come after a token.
Before(ts, k) == IF k = 1 THEN "START" ELSE ts[k - 1]
Behind(ts, k) == IF k = Len(ts) THEN "EOF" ELSE ts[k + 1]
After(type) ==
    CASE type = "START"  -> {"NORMAL"}
      [] type = "NORMAL" -> {"NORMAL", "STATEMENT_END", "START_BLOCK"}
      [] OTHER           -> {"NORMAL", "END_BLOCK"}

Count(ts, type, k) == Cardinality({i \in 1..k : ts[i] = type})

\* Blocks that are open behind place k.
OpenBlocks(ts, k) == Count(ts, "START_BLOCK", k) - Count(ts, "END_BLOCK", k)

\* The first n tokens may be the beginning of a file; the tokens are a file.
Begun(ts, n) ==
    \A k \in 1..n : ts[k] \in After(Before(ts, k)) /\ OpenBlocks(ts, k) >= 0

IsFile(ts) ==
    LET n == Len(ts) IN
    /\ Begun(ts, n)
    /\ Before(ts, n + 1) \in {"STATEMENT_END", "END_BLOCK"}
    /\ OpenBlocks(ts, n) = 0

-----------------------------------------------------------------------------

\* Blocks are numbered by the brackets that open them; the file is block 1.
BlockOf(ts, p) == 1 + Count(ts, "START_BLOCK", p)

\* The bracket at p is the i-th of those that are open behind place k.
Encloses(ts, i, p, k) ==
    /\ ts[p] = "START_BLOCK"
    /\ OpenBlocks(ts, p) = i
    /\ \A q \in p..k : OpenBlocks(ts, q) >= i

\* Block b is the innermost at place k.
StandsIn(ts, k, b) ==
    LET i == OpenBlocks(ts, k - 1) IN
    IF i = 0 THEN b = 1 ELSE \E p \in 1..k-1 : Encloses(ts, i, p, k - 1) /\ b = BlockOf(ts, p)

\* A statement of block b is all the words from one place to another, one at least
\* (Options reads the first of each without a test), and has the block of the bracket
\* behind them, if there is one.
IsStatementOf(ts, s, b) ==
    LET first == s.tokens[1]  last == s.tokens[Len(s.tokens)] IN
    /\ s.tokens # <<>>
    /\ \A j \in 1..Len(s.tokens) : s.tokens[j] = first + j - 1 /\ s.tokens[j] \in 1..Len(ts)
                                   /\ ts[s.tokens[j]] = "NORMAL"
    /\ Before(ts, first) # "NORMAL" /\ Behind(ts, last) # "NORMAL"
    /\ StandsIn(ts, first, b)
    /\ s.child = IF Behind(ts, last) = "START_BLOCK" THEN BlockOf(ts, last + 1) ELSE 0

EachIsPlaced(ts, blocks) ==
    \A b \in 1..Len(blocks) : \A i \in 1..Len(blocks[b]) : IsStatementOf(ts, blocks[b][i], b)

InOrder(blocks) ==
    \A b \in 1..Len(blocks) : \A i \in 2..Len(blocks[b]) :
        blocks[b][i-1].tokens[1] < blocks[b][i].tokens[1]

WordsAreThere(ts, blocks) ==
    \A k \in 1..Len(ts) : ts[k] = "NORMAL" =>
        \E b \in 1..Len(blocks) : \E i \in 1..Len(blocks[b]) :
            \E j \in 1..Len(blocks[b][i].tokens) : blocks[b][i].tokens[j] = k

\* The blocks have the statements of the text, in order, and no others.
IsTree(ts, blocks) ==
    /\ Len(blocks) = BlockOf(ts, Len(ts))
    /\ EachIsPlaced(ts, blocks)
    /\ InOrder(blocks)
    /\ WordsAreThere(ts, blocks)

=============================================================================
