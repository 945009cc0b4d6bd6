---------------------------- MODULE ConfigProofs ----------------------------
(***************************************************************************)
(* The invariants of ConfigParser, for texts of any length.  None of them  *)
(* is inductive alone: top() has something to give because the count of    *)
(* brackets is the height of the stack, and back() because a word was the  *)
(* last token and the innermost block is still the one it was put in.      *)
(* What is accepted is told from the last token and the count of brackets  *)
(* because they sum up all the tokens in front, and a word comes into the  *)
(* right statement because the stack is the brackets that are open.        *)
(***************************************************************************)
EXTENDS ConfigParser, FiniteSetTheorems, TLAPS

Statement == [tokens : Seq(Nat), child : Nat]
Block     == Seq(Statement)

\* What is on the stack are blocks of the tree.
StackIsBlocks == \A k \in 1..Len(config_stack) : config_stack[k] \in 1..Len(blocks)

\* No statement is without a token.
WholeBlock(block) == \A i \in 1..Len(block) : block[i].tokens # <<>>
WholeTree == \A b \in 1..Len(blocks) : WholeBlock(blocks[b])

ParserInv ==
    /\ TypeOK
    /\ ParityIsDepth
    /\ StackIsBlocks
    /\ last_token_type = "NORMAL" => Len(blocks[Top]) > 0
    /\ WholeTree

-----------------------------------------------------------------------------
(* Sequences *)

\* A place of a sequence of blocks may be given another block.
LEMMA Replaced ==
    ASSUME NEW S, NEW s \in Seq(S), NEW i \in 1..Len(s), NEW x \in S
    PROVE  LET t == [s EXCEPT ![i] = x] IN
           /\ t \in Seq(S) /\ Len(t) = Len(s)
           /\ \A j \in 1..Len(s) : t[j] = IF j = i THEN x ELSE s[j]
  OBVIOUS

\* A statement takes one more token.
LEMMA Grown ==
    ASSUME NEW s \in Statement, NEW v \in Nat
    PROVE  LET t == [s EXCEPT !.tokens = Append(@, v)] IN
           /\ t \in Statement /\ t.tokens = Append(s.tokens, v) /\ t.child = s.child
           /\ t.tokens # <<>>
  <1> DEFINE ts == Append(s.tokens, v)
  <1>1. s.tokens \in Seq(Nat) /\ s.child \in Nat
    BY DEF Statement
  <1>2. ts \in Seq(Nat) /\ ts # <<>>
    BY <1>1
  <1> HIDE DEF ts
  <1>3. [s EXCEPT !.tokens = ts] = [tokens |-> ts, child |-> s.child]
    <2>1. s = [tokens |-> s.tokens, child |-> s.child]
      BY DEF Statement
    <2>2. \A a, c : [[tokens |-> a, child |-> c] EXCEPT !.tokens = ts] = [tokens |-> ts, child |-> c]
      OBVIOUS
    <2> QED BY <2>1, <2>2
  <1>4. [tokens |-> ts, child |-> s.child] \in Statement
    BY <1>1, <1>2 DEF Statement
  <1> QED BY <1>2, <1>3, <1>4 DEF ts

\* A block on which a statement is put stays whole.
LEMMA Appended ==
    ASSUME NEW block \in Block, NEW s \in Statement, WholeBlock(block), s.tokens # <<>>
    PROVE  LET new == Append(block, s) IN
           /\ new \in Block /\ WholeBlock(new) /\ Len(new) = Len(block) + 1
  BY DEF WholeBlock, Block

-----------------------------------------------------------------------------

\* The file's own block is open from the beginning.
LEMMA InitParser == Init => ParserInv
  <1> SUFFICES ASSUME Init PROVE ParserInv
    OBVIOUS
  <1>1. config_stack = <<1>> /\ blocks = << <<>> >> /\ bracket_parity = 0
    BY DEF Init
  <1>2. /\ <<>> \in Block /\ config_stack \in Seq(Nat) /\ Len(config_stack) = 1
        /\ Len(blocks) = 1 /\ blocks[1] = <<>> /\ config_stack[1] = 1
    BY <1>1 DEF Block
  <1>3. blocks \in Seq(Block)
    BY <1>1, <1>2
  <1>4. TypeOK
    <2>1. blocks \in Seq(Seq([tokens : Seq(Nat), child : Nat]))
      BY <1>3 DEF Block, Statement
    <2>2. lexed \in Seq(TokenTypes) /\ "START" \in TokenTypes /\ bracket_parity \in Nat
      BY DEF Init, TokenTypes
    <2> QED BY <1>2, <2>1, <2>2 DEF Init, TypeOK
  <1>5. ParityIsDepth /\ StackIsBlocks /\ WholeTree
    BY <1>1, <1>2 DEF ParityIsDepth, StackIsBlocks, WholeTree, WholeBlock
  <1>6. last_token_type # "NORMAL"
    BY DEF Init
  <1> QED BY <1>4, <1>5, <1>6 DEF ParserInv

\* With the invariant there is an innermost block, and it is in the tree.
LEMMA Innermost ==
    ASSUME ParserInv
    PROVE  /\ Top \in 1..Len(blocks) /\ blocks[Top] \in Block
           /\ config_stack # <<>> /\ Len(config_stack) \in Nat
  <1>1. config_stack \in Seq(Nat) /\ blocks \in Seq(Block) /\ bracket_parity \in Nat
        /\ Len(config_stack) = bracket_parity + 1
    BY DEF ParserInv, TypeOK, ParityIsDepth, Block, Statement
  <1>2. Len(config_stack) \in Nat /\ Len(config_stack) > 0 /\ config_stack # <<>>
    BY <1>1
  <1>3. Top = config_stack[1] /\ 1 \in 1..Len(config_stack)
    BY <1>1, <1>2 DEF Top
  <1>4. Top \in 1..Len(blocks)
    BY <1>3 DEF ParserInv, StackIsBlocks
  <1> QED BY <1>1, <1>2, <1>4

\* Reading characters leaves the tree alone.
LEMMA TokenStep == ASSUME ParserInv, ParseToken PROVE ParserInv'
  <1>1. TypeOK /\ UNCHANGED parser
    BY DEF ParserInv, ParseToken, EndOfText, Initial, Quoted, Comment, Word
  <1>2. TypeOK'
    <2>1. /\ pc' \in {"open", "lex", "parse", "done"}
          /\ state' \in {"INITIAL_WHITESPACE", "SINGLE_QUOTE", "DOUBLE_QUOTE", "COMMENT", "NORMAL"}
          /\ ahead' \in Chars \cup {NoChar} /\ dropped' \in BOOLEAN
      BY <1>1 DEF TypeOK, ParseToken, EndOfText, Initial, Quoted, Comment, Word, Token, Stay,
                  EndWord
    <2>2. token_type' \in TokenTypes /\ lexed' \in Seq(TokenTypes)
      <3>1. \A c \in Special : TypeOf(c) \in TokenTypes
        BY DEF Special, TypeOf, TokenTypes
      <3>2. "NORMAL" \in TokenTypes /\ "COMMENT" \in TokenTypes /\ "EOF" \in TokenTypes
            /\ "ERROR" \in TokenTypes
        BY DEF TokenTypes
      <3>3. CASE EndOfText
        BY <3>2, <3>3, <1>1 DEF EndOfText, Token, TypeOK
      <3>4. ASSUME NEW c \in Chars, Initial(c) PROVE token_type' \in TokenTypes /\ lexed' \in Seq(TokenTypes)
        <4>1. CASE c \in Special /\ Token(TypeOf(c)) /\ lexed' = Append(lexed, TypeOf(c))
          <5>1. TypeOf(c) \in TokenTypes /\ token_type' = TypeOf(c) /\ lexed \in Seq(TokenTypes)
            BY <3>1, <4>1, <1>1 DEF Token, TypeOK
          <5> QED BY <4>1, <5>1
        <4>2. CASE UNCHANGED <<token_type, lexed>>
          BY <4>2, <1>1 DEF TypeOK
        <4> QED BY <3>4, <4>1, <4>2 DEF Initial, Stay
      <3>5. ASSUME NEW c \in Chars, Quoted(c) \/ Comment(c) \/ Word(c)
            PROVE  token_type' \in TokenTypes /\ lexed' \in Seq(TokenTypes)
        <4>1. /\ token_type' \in {token_type, "NORMAL", "COMMENT"}
              /\ lexed' = lexed \/ lexed' = Append(lexed, "NORMAL")
          BY <3>5 DEF Quoted, Comment, Word, Token, Stay
        <4>2. lexed \in Seq(TokenTypes) /\ token_type \in TokenTypes
          BY <1>1 DEF TypeOK
        <4>3. Append(lexed, "NORMAL") \in Seq(TokenTypes)
          BY <3>2, <4>2
        <4> QED BY <3>2, <4>1, <4>2, <4>3
      <3> QED BY <3>3, <3>4, <3>5 DEF ParseToken
    <2> QED BY <1>1, <2>1, <2>2 DEF TypeOK, parser
  <1> QED
    BY <1>1, <1>2 DEF ParserInv, parser, ParityIsDepth, StackIsBlocks, WholeTree, Top

-----------------------------------------------------------------------------
(* Tokens *)

\* What a token does to the variables of Parse alone.
LEMMA TypedStep ==
    ASSUME TypeOK, Parse, blocks' \in Seq(Block), config_stack' \in Seq(Nat),
           bracket_parity' \in Nat
    PROVE  TypeOK'
  BY DEF TypeOK, Parse, SkipComment, AddWord, EndStatement, OpenBlock, EndBlock, CloseBlock,
         Accept, Reject, Return, Continue, parser, lexer, Block, Statement

\* A word comes into a statement of the innermost block.
LEMMA WordStep == ASSUME ParserInv, Parse, AddWord PROVE ParserInv'
  <1> DEFINE v == Len(lexed)  n == Len(blocks[Top])
  <1>1. Top \in 1..Len(blocks) /\ blocks[Top] \in Block
    BY Innermost
  <1>2. /\ blocks \in Seq(Block) /\ v \in Nat /\ n \in Nat /\ WholeBlock(blocks[Top])
        /\ config_stack \in Seq(Nat) /\ bracket_parity \in Nat
    BY <1>1 DEF ParserInv, TypeOK, WholeTree, Block, Statement
  <1>3. PICK new \in Block : blocks' = [blocks EXCEPT ![Top] = new] /\ WholeBlock(new) /\ Len(new) > 0
    <2>1. CASE last_token_type # "NORMAL"
      <3>1. NewStatement(v) \in Statement /\ NewStatement(v).tokens # <<>>
        BY <1>2 DEF NewStatement, Statement
      <3>2. Append(blocks[Top], NewStatement(v)) \in Block
            /\ WholeBlock(Append(blocks[Top], NewStatement(v)))
            /\ Len(Append(blocks[Top], NewStatement(v))) > 0
        BY <1>1, <1>2, <3>1, Appended
      <3> QED BY <2>1, <3>2 DEF AddWord
    <2>2. CASE last_token_type = "NORMAL"
      <3> DEFINE old == blocks[Top][n]
                 s   == [old EXCEPT !.tokens = Append(@, v)]
                 b   == [blocks[Top] EXCEPT ![n] = s]
      <3>1. n \in 1..Len(blocks[Top])
        BY <2>2, <1>2 DEF ParserInv
      <3>2. old \in Statement
        BY <3>1, <1>1 DEF Block
      <3>3. s \in Statement /\ s.tokens # <<>>
        <4> HIDE DEF old
        <4> QED BY <3>2, <1>2, Grown
      <3>4. b \in Block /\ Len(b) = n /\ \A j \in 1..n : b[j] = IF j = n THEN s ELSE blocks[Top][j]
        BY <1>1, <3>1, <3>3, Replaced DEF Block
      <3>5. WholeBlock(b) /\ Len(b) > 0
        BY <3>1, <3>3, <3>4, <1>2 DEF WholeBlock
      <3>6. blocks' = [blocks EXCEPT ![Top] = b]
        BY <2>2 DEF AddWord
      <3> QED BY <3>4, <3>5, <3>6
    <2> QED BY <2>1, <2>2
  <1>4. /\ blocks' \in Seq(Block) /\ Len(blocks') = Len(blocks)
        /\ \A j \in 1..Len(blocks) : blocks'[j] = IF j = Top THEN new ELSE blocks[j]
    BY <1>1, <1>2, <1>3, Replaced
  <1>5. UNCHANGED <<config_stack, bracket_parity>>
    BY DEF AddWord
  <1>6. TypeOK'
    BY <1>2, <1>4, <1>5, TypedStep DEF ParserInv
  <1>7. WholeTree'
    BY <1>3, <1>4 DEF ParserInv, WholeTree
  <1>8. ParityIsDepth' /\ StackIsBlocks' /\ Top' = Top
    BY <1>4, <1>5 DEF ParserInv, ParityIsDepth, StackIsBlocks, Top
  <1>9. Len(blocks'[Top']) > 0
    BY <1>1, <1>3, <1>4, <1>8
  <1> QED BY <1>6, <1>7, <1>8, <1>9 DEF ParserInv

\* A block is hung on the last statement of the innermost one.
LEMMA OpenStep == ASSUME ParserInv, Parse, OpenBlock PROVE ParserInv'
  <1> DEFINE n == Len(blocks[Top])  new == Len(blocks) + 1
             s == [blocks[Top][n] EXCEPT !.child = new]
             b == [blocks[Top] EXCEPT ![n] = s]
             t == [blocks EXCEPT ![Top] = b]
  <1>1. Top \in 1..Len(blocks) /\ blocks[Top] \in Block
    BY Innermost
  <1>2. /\ blocks \in Seq(Block) /\ new \in Nat /\ n \in Nat /\ WholeBlock(blocks[Top])
        /\ config_stack \in Seq(Nat) /\ bracket_parity \in Nat
    BY <1>1 DEF ParserInv, TypeOK, WholeTree, Block, Statement
  <1>3. n \in 1..Len(blocks[Top])
    BY <1>2 DEF ParserInv, OpenBlock, MayOpen
  <1>4. blocks[Top][n] \in Statement /\ blocks[Top][n].tokens # <<>>
    BY <1>1, <1>2, <1>3 DEF Block, WholeBlock
  <1>5. s \in Statement /\ s.tokens # <<>>
    BY <1>2, <1>4 DEF Statement
  <1>6. b \in Block /\ Len(b) = n /\ \A j \in 1..n : b[j] = IF j = n THEN s ELSE blocks[Top][j]
    BY <1>1, <1>3, <1>5, Replaced DEF Block
  <1>7. WholeBlock(b)
    BY <1>2, <1>5, <1>6 DEF WholeBlock
  <1>8. /\ t \in Seq(Block) /\ Len(t) = Len(blocks)
        /\ \A j \in 1..Len(blocks) : t[j] = IF j = Top THEN b ELSE blocks[j]
    BY <1>1, <1>2, <1>6, Replaced
  <1>9. blocks' = Append(t, <<>>) /\ config_stack' = <<new>> \o config_stack
        /\ bracket_parity' = bracket_parity + 1 /\ last_token_type' # "NORMAL"
    BY DEF OpenBlock, Continue
  <1>10. /\ blocks' \in Seq(Block) /\ Len(blocks') = new
         /\ \A j \in 1..Len(blocks) : blocks'[j] = t[j]
         /\ blocks'[new] = <<>>
    <2>1. <<>> \in Block
      BY DEF Block
    <2> QED BY <1>2, <1>8, <1>9, <2>1
  <1>11. /\ config_stack' \in Seq(Nat) /\ Len(config_stack') = Len(config_stack) + 1
         /\ config_stack'[1] = new
         /\ \A k \in 1..Len(config_stack) : config_stack'[k + 1] = config_stack[k]
    BY <1>2, <1>9
  <1>12. TypeOK'
    BY <1>2, <1>9, <1>10, <1>11, TypedStep DEF ParserInv
  <1>13. ParityIsDepth'
    BY <1>2, <1>9, <1>11 DEF ParserInv, ParityIsDepth
  <1>14. StackIsBlocks'
    <2> SUFFICES ASSUME NEW k \in 1..Len(config_stack') PROVE config_stack'[k] \in 1..Len(blocks')
      BY DEF StackIsBlocks
    <2>1. CASE k = 1
      BY <2>1, <1>2, <1>10, <1>11
    <2>2. CASE k # 1
      <3> DEFINE m == k - 1
      <3>1. m \in 1..Len(config_stack) /\ k = m + 1
        BY <2>2, <1>2, <1>11
      <3>2. config_stack'[k] = config_stack[m]
        BY <3>1, <1>11
      <3> QED BY <3>1, <3>2, <1>2, <1>10 DEF ParserInv, StackIsBlocks
    <2> QED BY <2>1, <2>2
  <1>15. WholeTree'
    <2> SUFFICES ASSUME NEW j \in 1..Len(blocks') PROVE WholeBlock(blocks'[j])
      BY DEF WholeTree
    <2>1. CASE j = new
      BY <2>1, <1>10 DEF WholeBlock
    <2>2. CASE j # new
      <3>1. j \in 1..Len(blocks)
        BY <2>2, <1>2, <1>10
      <3> QED BY <3>1, <1>7, <1>8, <1>10 DEF ParserInv, WholeTree
    <2> QED BY <2>1, <2>2
  <1> QED BY <1>9, <1>12, <1>13, <1>14, <1>15 DEF ParserInv

\* A block is taken from the stack; the count says that it is not the file's.
LEMMA CloseStep == ASSUME ParserInv, Parse, EndBlock PROVE ParserInv'
  <1>1. /\ config_stack \in Seq(Nat) /\ config_stack # <<>> /\ blocks \in Seq(Block)
        /\ bracket_parity \in Nat /\ bracket_parity > 0
        /\ Len(config_stack) = bracket_parity + 1
    BY Innermost DEF ParserInv, TypeOK, ParityIsDepth, EndBlock, CloseBlock, Block, Statement
  <1>2. /\ config_stack' = Tail(config_stack) /\ bracket_parity' = bracket_parity - 1
        /\ blocks' = blocks /\ last_token_type' # "NORMAL"
    BY DEF EndBlock, CloseBlock, Continue
  <1>3. /\ config_stack' \in Seq(Nat) /\ Len(config_stack') = Len(config_stack) - 1
        /\ \A k \in 1..Len(config_stack') : config_stack'[k] = config_stack[k + 1]
    BY <1>1, <1>2
  <1>4. TypeOK'
    BY <1>1, <1>2, <1>3, TypedStep DEF ParserInv
  <1>5. ParityIsDepth'
    BY <1>1, <1>2, <1>3 DEF ParityIsDepth
  <1>6. StackIsBlocks'
    BY <1>1, <1>2, <1>3 DEF ParserInv, StackIsBlocks
  <1> QED BY <1>2, <1>4, <1>5, <1>6 DEF ParserInv, WholeTree

\* Every other token leaves the tree and the stack as they are.
LEMMA QuietStep ==
    ASSUME ParserInv, Parse, SkipComment \/ EndStatement \/ Accept \/ Reject
    PROVE  ParserInv'
  <1>1. /\ UNCHANGED <<bracket_parity, config_stack, blocks>>
        /\ last_token_type' = "NORMAL" => last_token_type = "NORMAL"
    BY DEF SkipComment, EndStatement, Accept, Reject, Return, Continue, parser
  <1>2. TypeOK'
    <2>1. blocks \in Seq(Block) /\ config_stack \in Seq(Nat) /\ bracket_parity \in Nat
      BY DEF ParserInv, TypeOK, Block, Statement
    <2> QED BY <1>1, <2>1, TypedStep DEF ParserInv
  <1> QED BY <1>1, <1>2 DEF ParserInv, ParityIsDepth, StackIsBlocks, WholeTree, Top

LEMMA NextParser == ParserInv /\ [Next]_vars => ParserInv'
  <1> SUFFICES ASSUME ParserInv, [Next]_vars PROVE ParserInv'
    OBVIOUS
  <1>1. CASE Open
    BY <1>1 DEF Open, parser, lexer, ParserInv, TypeOK, ParityIsDepth, StackIsBlocks,
                WholeTree, Top
  <1>2. CASE ParseToken
    BY <1>2, TokenStep
  <1>3. CASE Parse
    BY <1>3, WordStep, OpenStep, CloseStep, QuietStep DEF Parse
  <1>4. CASE UNCHANGED vars
    BY <1>4 DEF vars, parser, lexer, ParserInv, TypeOK, ParityIsDepth, StackIsBlocks,
                WholeTree, Top
  <1> QED BY <1>1, <1>2, <1>3, <1>4 DEF Next

LEMMA Invariant == Spec => []ParserInv
  BY InitParser, NextParser, PTL DEF Spec

-----------------------------------------------------------------------------
(* The text: what Parse knows of the tokens behind it, by the last one and *)
(* the count of open blocks, is all that the next token is judged by.      *)

\* The tokens that Parse has taken: all but the one it looks at.
Seen == IF pc = "parse" /\ token_type \in Words
        THEN [k \in 1..Len(lexed)-1 |-> lexed[k]] ELSE lexed

\* What is known of the tokens that were taken.
Known(ts) ==
    /\ Begun(ts, Len(ts))
    /\ last_token_type = Before(ts, Len(ts) + 1)
    /\ bracket_parity = OpenBlocks(ts, Len(ts))

TextInv ==
    /\ lexed \in Seq(Words)
    /\ pc = "parse" => token_type \in Words \cup {"COMMENT", "EOF", "ERROR"}
    /\ pc = "parse" /\ token_type \in Words =>
           Len(lexed) > 0 /\ lexed[Len(lexed)] = token_type
    /\ pc # "done" => Known(Seen)
    /\ pc = "open" => token_type = "START" /\ ~ret
    /\ AcceptsFiles /\ GivesUpInTime

\* One token more counts for its own type.
LEMMA CountNext ==
    ASSUME NEW ts, NEW type, NEW n \in Nat
    PROVE  /\ Count(ts, type, n) \in Nat
           /\ Count(ts, type, n + 1) = Count(ts, type, n) + IF ts[n + 1] = type THEN 1 ELSE 0
  <1> DEFINE S == {i \in 1..n : ts[i] = type}  T == {i \in 1..n+1 : ts[i] = type}
  <1>1. IsFiniteSet(S) /\ n + 1 \notin S
    <2>1. IsFiniteSet(1..n) /\ S \in SUBSET (1..n)
      BY FS_Interval
    <2> QED BY <2>1, FS_Subset
  <1>2. Count(ts, type, n) = Cardinality(S) /\ Count(ts, type, n + 1) = Cardinality(T)
    BY DEF Count
  <1>3. Cardinality(S) \in Nat
    <2> HIDE DEF S
    <2> QED BY <1>1, FS_CardinalityType
  <1>4. CASE ts[n + 1] = type
    <2>1. T = S \cup {n + 1}
      BY <1>4
    <2>2. Cardinality(T) = Cardinality(S) + 1
      <3> HIDE DEF S, T
      <3> QED BY <1>1, <2>1, FS_AddElement
    <2> HIDE DEF S, T
    <2> QED BY <1>2, <1>4, <1>3, <2>2
  <1>5. CASE ts[n + 1] # type
    <2>1. T = S
      BY <1>5
    <2> HIDE DEF S, T
    <2> QED BY <1>2, <1>5, <1>3, <2>1
  <1> QED BY <1>4, <1>5

LEMMA CountNone == ASSUME NEW ts, NEW type PROVE Count(ts, type, 0) = 0
  <1>1. {i \in 1..0 : ts[i] = type} = {}
    OBVIOUS
  <1> QED BY <1>1, FS_EmptySet DEF Count

\* Tokens that are read later do not change what is known of the first ones.
LEMMA SameBeginning ==
    ASSUME NEW ts \in Seq(Words), NEW type \in Words
    PROVE  LET n == Len(ts)  us == Append(ts, type) IN
           /\ n \in Nat /\ us \in Seq(Words) /\ Len(us) = n + 1 /\ us[n + 1] = type
           /\ \A k \in 1..n : us[k] = ts[k]
           /\ \A k \in 0..n : /\ \A t : Count(us, t, k) = Count(ts, t, k)
                              /\ OpenBlocks(us, k) = OpenBlocks(ts, k)
                              /\ BlockOf(us, k) = BlockOf(ts, k)
           /\ \A k \in 1..n+1 : Before(us, k) = Before(ts, k)
           /\ Begun(us, n) <=> Begun(ts, n)
  <1> DEFINE n == Len(ts)  us == Append(ts, type)
  <1>1. /\ n \in Nat /\ us \in Seq(Words) /\ Len(us) = n + 1 /\ us[n + 1] = type
        /\ \A i \in 1..n : us[i] = ts[i]
    OBVIOUS
  <1> HIDE DEF us, n
  <1>2. ASSUME NEW k \in 0..n, NEW t PROVE Count(us, t, k) = Count(ts, t, k)
    <2>1. {i \in 1..k : us[i] = t} = {i \in 1..k : ts[i] = t}
      BY <1>1
    <2> QED BY <2>1 DEF Count
  <1>3. ASSUME NEW k \in 0..n
        PROVE  OpenBlocks(us, k) = OpenBlocks(ts, k) /\ BlockOf(us, k) = BlockOf(ts, k)
    BY <1>2 DEF OpenBlocks, BlockOf
  <1>4. ASSUME NEW k \in 1..n+1 PROVE Before(us, k) = Before(ts, k)
    <2>1. k = 1 \/ k - 1 \in 1..n
      BY <1>1
    <2> QED BY <1>1, <2>1 DEF Before
  <1>5. Begun(us, n) <=> Begun(ts, n)
    <2>1. \A k \in 1..n : k \in 0..n /\ k \in 1..n+1
      BY <1>1
    <2> QED BY <1>1, <1>3, <1>4, <2>1 DEF Begun
  <1> QED BY <1>1, <1>2, <1>3, <1>4, <1>5 DEF n, us

\* What the next token changes in the counts.
LEMMA OneMore ==
    ASSUME NEW ts \in Seq(Words), NEW type \in Words
    PROVE  LET n == Len(ts)  us == Append(ts, type) IN
           /\ OpenBlocks(ts, n) \in Int /\ BlockOf(ts, n) \in Nat \ {0}
           /\ OpenBlocks(us, n + 1) = CASE type = "START_BLOCK" -> OpenBlocks(ts, n) + 1
                                        [] type = "END_BLOCK"   -> OpenBlocks(ts, n) - 1
                                        [] OTHER                -> OpenBlocks(ts, n)
           /\ BlockOf(us, n + 1) = BlockOf(ts, n) + IF type = "START_BLOCK" THEN 1 ELSE 0
  <1> DEFINE n == Len(ts)  us == Append(ts, type)
  <1>1. n \in Nat /\ n \in 0..n /\ us[n + 1] = type
    BY SameBeginning
  <1>2. \A t : Count(us, t, n) = Count(ts, t, n)
    BY <1>1, SameBeginning
  <1> HIDE DEF us, n
  <1>3. ASSUME NEW t
        PROVE  /\ Count(ts, t, n) \in Nat
               /\ Count(us, t, n + 1) = Count(ts, t, n) + IF type = t THEN 1 ELSE 0
    <2>1. Count(ts, t, n) \in Nat
      BY <1>1, CountNext
    <2>2. Count(us, t, n + 1) = Count(us, t, n) + IF us[n + 1] = t THEN 1 ELSE 0
      BY <1>1, CountNext
    <2> QED BY <1>1, <1>2, <2>1, <2>2
  <1>4. /\ Count(ts, "START_BLOCK", n) \in Nat /\ Count(ts, "END_BLOCK", n) \in Nat
        /\ Count(us, "START_BLOCK", n + 1) = Count(ts, "START_BLOCK", n)
                                             + IF type = "START_BLOCK" THEN 1 ELSE 0
        /\ Count(us, "END_BLOCK", n + 1) = Count(ts, "END_BLOCK", n)
                                           + IF type = "END_BLOCK" THEN 1 ELSE 0
    BY <1>3
  <1> QED BY <1>4 DEF OpenBlocks, BlockOf, n, us

\* A beginning goes on with a token that may follow and leaves no block closed
\* that was not opened, and with no other.
LEMMA GoesOn ==
    ASSUME NEW ts \in Seq(Words), NEW type \in Words, Begun(ts, Len(ts))
    PROVE  LET n == Len(ts)  us == Append(ts, type) IN
           Begun(us, n + 1) <=> type \in After(Before(ts, n + 1)) /\ OpenBlocks(us, n + 1) >= 0
  <1> DEFINE n == Len(ts)  us == Append(ts, type)
  <1>1. /\ n \in Nat /\ us[n + 1] = type /\ Before(us, n + 1) = Before(ts, n + 1)
        /\ Begun(us, n)
    BY SameBeginning, n + 1 \in 1..n+1
  <1> HIDE DEF us, n
  <1>2. 1..n+1 = (1..n) \cup {n + 1}
    BY <1>1
  <1> QED BY <1>1, <1>2 DEF Begun, n, us

-----------------------------------------------------------------------------

LEMMA InitText == Init => TextInv
  <1> SUFFICES ASSUME Init PROVE TextInv
    OBVIOUS
  <1>1. /\ pc = "open" /\ lexed = <<>> /\ token_type = "START" /\ ~ret
        /\ last_token_type = "START" /\ bracket_parity = 0
    BY DEF Init
  <1>2. lexed \in Seq(Words) /\ Len(lexed) = 0 /\ Seen = lexed
    BY <1>1 DEF Seen
  <1>3. Begun(lexed, 0) /\ Before(lexed, 1) = "START"
    BY DEF Begun, Before
  <1>4. OpenBlocks(lexed, 0) = 0
    BY CountNone DEF OpenBlocks
  <1>5. Known(Seen)
    BY <1>1, <1>2, <1>3, <1>4 DEF Known
  <1> QED BY <1>1, <1>2, <1>5 DEF TextInv, AcceptsFiles, GivesUpInTime

\* ParseToken returns a token that it puts behind the others, or none of them.
LEMMA TokenIsLexed ==
    ASSUME ParseToken
    PROVE  /\ pc = "lex" /\ UNCHANGED parser
           /\ \/ pc' = "lex" /\ UNCHANGED <<token_type, lexed>>
              \/ pc' = "parse" /\ token_type' \in {"COMMENT", "EOF", "ERROR"} /\ lexed' = lexed
              \/ pc' = "parse" /\ token_type' \in Words /\ lexed' = Append(lexed, token_type')
  <1>1. pc = "lex" /\ UNCHANGED parser
    BY DEF ParseToken, EndOfText, Initial, Quoted, Comment, Word
  <1>2. CASE EndOfText
    BY <1>1, <1>2 DEF EndOfText, Token
  <1>3. ASSUME NEW c \in Chars, Initial(c) PROVE
              \/ pc' = "lex" /\ UNCHANGED <<token_type, lexed>>
              \/ pc' = "parse" /\ token_type' \in Words /\ lexed' = Append(lexed, token_type')
    <2>1. \A d \in Special : TypeOf(d) \in Words
      BY DEF Special, TypeOf, Words
    <2>2. CASE c \in Special /\ Token(TypeOf(c)) /\ lexed' = Append(lexed, TypeOf(c))
      BY <2>1, <2>2 DEF Token
    <2>3. CASE UNCHANGED <<pc, token_type, lexed>>
      BY <1>1, <2>3
    <2> QED BY <1>3, <2>2, <2>3 DEF Initial, Stay
  <1>4. ASSUME NEW c \in Chars, Quoted(c) \/ Comment(c) \/ Word(c) PROVE
              \/ pc' = "lex" /\ UNCHANGED <<token_type, lexed>>
              \/ pc' = "parse" /\ token_type' \in {"COMMENT", "EOF", "ERROR"} /\ lexed' = lexed
              \/ pc' = "parse" /\ token_type' \in Words /\ lexed' = Append(lexed, token_type')
    BY <1>1, <1>4 DEF Quoted, Comment, Word, Token, Stay, Words
  <1> QED BY <1>1, <1>2, <1>3, <1>4 DEF ParseToken

\* ParseToken does not change what Parse has taken.
LEMMA SeenStays == ASSUME TextInv, ParseToken PROVE Seen = lexed /\ Seen' = Seen
  <1>1. pc = "lex" /\ Seen = lexed /\ lexed \in Seq(Words)
    BY TokenIsLexed DEF TextInv, Seen
  <1>2. CASE pc' = "lex" /\ UNCHANGED <<token_type, lexed>>
    BY <1>1, <1>2 DEF Seen
  <1>3. CASE pc' = "parse" /\ token_type' \in {"COMMENT", "EOF", "ERROR"} /\ lexed' = lexed
    BY <1>1, <1>3 DEF Seen, Words
  <1>4. CASE pc' = "parse" /\ token_type' \in Words /\ lexed' = Append(lexed, token_type')
    <2>1. /\ Len(lexed) \in Nat /\ Len(lexed') = Len(lexed) + 1
          /\ \A k \in 1..Len(lexed) : lexed'[k] = lexed[k]
      BY <1>1, <1>4
    <2>2. Seen' = [k \in 1..Len(lexed) |-> lexed[k]]
      BY <1>4, <2>1 DEF Seen
    <2>3. lexed = [k \in 1..Len(lexed) |-> lexed[k]]
      BY <1>1
    <2> QED BY <1>1, <2>2, <2>3
  <1> QED BY <1>1, <1>2, <1>3, <1>4, TokenIsLexed

LEMMA TokenText == ASSUME TextInv, ParseToken PROVE TextInv'
  <1>1. /\ pc = "lex" /\ Known(Seen) /\ lexed \in Seq(Words)
        /\ UNCHANGED <<last_token_type, bracket_parity, ret, Seen>>
    BY TokenIsLexed, SeenStays DEF TextInv, parser
  <1>2. Known(Seen)'
    BY <1>1 DEF Known
  <1>3. pc' \in {"lex", "parse"}
    BY TokenIsLexed
  <1>4. CASE pc' = "lex" /\ UNCHANGED <<token_type, lexed>>
    BY <1>1, <1>2, <1>4 DEF TextInv, AcceptsFiles, GivesUpInTime
  <1>5. CASE pc' = "parse" /\ token_type' \in {"COMMENT", "EOF", "ERROR"} /\ lexed' = lexed
    BY <1>1, <1>2, <1>5 DEF TextInv, AcceptsFiles, GivesUpInTime, Words
  <1>6. CASE pc' = "parse" /\ token_type' \in Words /\ lexed' = Append(lexed, token_type')
    <2>1. /\ lexed' \in Seq(Words) /\ Len(lexed') > 0 /\ lexed'[Len(lexed')] = token_type'
      BY <1>1, <1>6
    <2> QED BY <1>2, <1>6, <2>1 DEF TextInv, AcceptsFiles, GivesUpInTime
  <1> QED BY <1>4, <1>5, <1>6, TokenIsLexed

\* The token that Parse looks at is behind those that it has taken.
LEMMA LookedAt ==
    ASSUME TextInv, pc = "parse", token_type \in Words
    PROVE  /\ Seen \in Seq(Words) /\ lexed = Append(Seen, token_type)
           /\ Len(Seen) \in Nat /\ Len(lexed) = Len(Seen) + 1
  <1> DEFINE n == Len(lexed) - 1
  <1>1. /\ lexed \in Seq(Words) /\ n \in Nat /\ Len(lexed) = n + 1 /\ lexed[n + 1] = token_type
        /\ Seen = [k \in 1..n |-> lexed[k]]
    BY DEF TextInv, Seen
  <1>2. Seen \in Seq(Words) /\ Len(Seen) = n
    BY <1>1
  <1> HIDE DEF n
  <1>3. Append(Seen, token_type) = lexed
    BY <1>1, <1>2
  <1> QED BY <1>1, <1>2, <1>3

\* A token is judged by the last one and by the count as by all those before it.
LEMMA Judged ==
    ASSUME ParserInv, TextInv, pc = "parse", token_type \in Words
    PROVE  /\ Before(lexed, Len(lexed) + 1) = token_type
           /\ last_token_type \in Words \cup {"START"}
           /\ OpenBlocks(lexed, Len(lexed)) =
                  CASE token_type = "START_BLOCK" -> bracket_parity + 1
                    [] token_type = "END_BLOCK"   -> bracket_parity - 1
                    [] OTHER                      -> bracket_parity
           /\ Begun(lexed, Len(lexed)) <=> /\ token_type \in After(last_token_type)
                                           /\ token_type = "END_BLOCK" => bracket_parity > 0
  <1> DEFINE n == Len(Seen)
  <1>1. /\ Seen \in Seq(Words) /\ lexed = Append(Seen, token_type)
        /\ n \in Nat /\ Len(lexed) = n + 1
    BY LookedAt
  <1>2. /\ Begun(Seen, n) /\ last_token_type = Before(Seen, n + 1)
        /\ bracket_parity = OpenBlocks(Seen, n) /\ bracket_parity \in Nat
    BY DEF TextInv, Known, ParserInv, TypeOK
  <1>3. Before(lexed, n + 2) = token_type
    BY <1>1 DEF Before
  <1>4. last_token_type \in Words \cup {"START"}
    <2>1. CASE n = 0
      BY <1>2, <2>1 DEF Before
    <2>2. CASE n # 0
      <3>1. n \in 1..n /\ Before(Seen, n + 1) = Seen[n]
        BY <1>1, <2>2 DEF Before
      <3> QED BY <1>1, <1>2, <3>1
    <2> QED BY <2>1, <2>2
  <1>5. OpenBlocks(lexed, n + 1) = CASE token_type = "START_BLOCK" -> bracket_parity + 1
                                     [] token_type = "END_BLOCK"   -> bracket_parity - 1
                                     [] OTHER                      -> bracket_parity
    BY <1>1, <1>2, OneMore
  <1>6. Begun(lexed, n + 1) <=> /\ token_type \in After(last_token_type)
                                /\ OpenBlocks(lexed, n + 1) >= 0
    BY <1>1, <1>2, GoesOn
  <1> HIDE DEF n
  <1>7. OpenBlocks(lexed, n + 1) >= 0 <=> (token_type = "END_BLOCK" => bracket_parity > 0)
    BY <1>2, <1>5
  <1> QED BY <1>1, <1>3, <1>4, <1>5, <1>6, <1>7

\* Which token may follow which, as Parse tests it.
LEMMA Tested ==
    ASSUME last_token_type \in Words \cup {"START"}
    PROVE  /\ "NORMAL" \in After(last_token_type)
           /\ "STATEMENT_END" \in After(last_token_type) <=> MayEnd
           /\ "START_BLOCK" \in After(last_token_type) <=> MayOpen
           /\ "END_BLOCK" \in After(last_token_type) <=> MayClose
  <1>1. CASE last_token_type = "START"
    BY <1>1 DEF After, MayEnd, MayOpen, MayClose
  <1>2. CASE last_token_type = "NORMAL"
    BY <1>2 DEF After, MayEnd, MayOpen, MayClose
  <1>3. CASE last_token_type \in {"STATEMENT_END", "START_BLOCK", "END_BLOCK"}
    BY <1>3 DEF After, MayEnd, MayOpen, MayClose
  <1> QED BY <1>1, <1>2, <1>3 DEF Words

\* A token that goes on with the file becomes the last one.
LEMMA TakenText ==
    ASSUME ParserInv, TextInv, Parse, AddWord \/ EndStatement \/ OpenBlock \/ EndBlock
    PROVE  TextInv' /\ Seen' = lexed
  <1>1. pc = "parse" /\ token_type \in Words
    BY DEF Parse, AddWord, EndStatement, OpenBlock, EndBlock, Words
  <1>2. /\ pc' = "lex" /\ last_token_type' = token_type
        /\ UNCHANGED <<token_type, lexed, ret>>
    BY DEF Parse, AddWord, EndStatement, OpenBlock, EndBlock, CloseBlock, Continue
  <1>3. Seen' = lexed /\ Before(lexed, Len(lexed) + 1) = token_type
    BY <1>1, <1>2, Judged DEF Seen
  <1>4. Begun(lexed, Len(lexed)) /\ bracket_parity' = OpenBlocks(lexed, Len(lexed))
    <2>1. bracket_parity \in Nat
      BY DEF ParserInv, TypeOK
    <2>2. last_token_type \in Words \cup {"START"}
      BY <1>1, Judged
    <2>3. CASE AddWord
      BY <1>1, <2>2, <2>3, Judged, Tested DEF AddWord
    <2>4. CASE EndStatement
      BY <1>1, <2>2, <2>4, Judged, Tested DEF EndStatement
    <2>5. CASE OpenBlock
      BY <1>1, <2>2, <2>5, Judged, Tested DEF OpenBlock
    <2>6. CASE EndBlock
      BY <1>1, <2>1, <2>2, <2>6, Judged, Tested DEF EndBlock, CloseBlock
    <2> QED BY <2>3, <2>4, <2>5, <2>6
  <1>5. Known(Seen)'
    BY <1>2, <1>3, <1>4 DEF Known
  <1> QED BY <1>2, <1>3, <1>5 DEF TextInv, AcceptsFiles, GivesUpInTime

\* A token that no file can go on with is the last one that is looked at.
LEMMA RejectedText ==
    ASSUME ParserInv, TextInv, Parse, Reject, token_type \in Words
    PROVE  TextInv'
  <1>1. pc = "parse" /\ pc' = "done" /\ ret' = FALSE /\ UNCHANGED <<token_type, lexed>>
    BY DEF Parse, Reject, Return
  <1>2. last_token_type \in Words \cup {"START"} /\ bracket_parity \in Nat
    BY <1>1, Judged DEF ParserInv, TypeOK
  <1>3. ~ (/\ token_type \in After(last_token_type)
           /\ token_type = "END_BLOCK" => bracket_parity > 0)
    BY <1>2, Tested DEF Reject, Words
  <1>4. ~Begun(lexed, Len(lexed))
    BY <1>1, <1>3, Judged
  <1>5. token_type # "EOF"
    BY DEF Words
  <1> QED BY <1>1, <1>4, <1>5 DEF TextInv, AcceptsFiles, GivesUpInTime

\* The end of the text, an unclosed quote, or a comment.
LEMMA OtherText ==
    ASSUME ParserInv, TextInv, Parse, token_type \notin Words
    PROVE  TextInv'
  <1>1. /\ pc = "parse" /\ token_type \in {"COMMENT", "EOF", "ERROR"} /\ Seen = lexed
        /\ Known(lexed) /\ UNCHANGED <<token_type, lexed>>
    BY DEF Parse, TextInv, Seen
  <1>2. SkipComment \/ Accept \/ Reject
    BY DEF Parse, AddWord, EndStatement, OpenBlock, EndBlock, Words
  <1>3. CASE SkipComment
    <2>1. pc' = "lex" /\ Seen' = lexed /\ UNCHANGED <<last_token_type, bracket_parity, ret>>
      BY <1>1, <1>3 DEF SkipComment, parser, Seen
    <2> QED BY <1>1, <2>1 DEF TextInv, Known, AcceptsFiles, GivesUpInTime
  <1>4. IsFile(lexed) <=> MayStop
    BY <1>1 DEF IsFile, Known, MayStop
  <1>5. CASE Accept \/ Reject
    <2>1. /\ pc' = "done" /\ ret' = Accept
          /\ Accept <=> token_type = "EOF" /\ MayStop
      <3>1. CASE Accept
        BY <3>1 DEF Accept, Return
      <3>2. CASE Reject
        BY <3>2, <1>1 DEF Accept, Reject, Return
      <3> QED BY <1>5, <3>1, <3>2
    <2> QED BY <1>1, <1>4, <2>1 DEF TextInv, AcceptsFiles, GivesUpInTime, IsFile
  <1> QED BY <1>2, <1>3, <1>5

LEMMA NextText == ParserInv /\ TextInv /\ [Next]_vars => TextInv'
  <1> SUFFICES ASSUME ParserInv, TextInv, [Next]_vars PROVE TextInv'
    OBVIOUS
  <1>1. CASE Open
    <2>1. /\ pc = "open" /\ pc' \in {"lex", "done"} /\ token_type = "START" /\ ~ret
          /\ UNCHANGED <<token_type, lexed, last_token_type, bracket_parity, ret>>
      BY <1>1 DEF Open, parser, TextInv
    <2>2. Seen = lexed /\ Seen' = lexed /\ "START" \notin Words
      BY <2>1 DEF Seen, Words
    <2> QED BY <2>1, <2>2 DEF TextInv, Known, AcceptsFiles, GivesUpInTime
  <1>2. CASE ParseToken
    BY <1>2, TokenText
  <1>3. CASE Parse
    <2>1. CASE token_type \in Words
      <3>1. AddWord \/ EndStatement \/ OpenBlock \/ EndBlock \/ Reject
        BY <1>3, <2>1 DEF Parse, SkipComment, Accept, Words
      <3> QED BY <1>3, <2>1, <3>1, TakenText, RejectedText
    <2>2. CASE token_type \notin Words
      BY <1>3, <2>2, OtherText
    <2> QED BY <2>1, <2>2
  <1>4. CASE UNCHANGED vars
    <2>1. UNCHANGED <<pc, token_type, lexed, last_token_type, bracket_parity, ret>>
      BY <1>4 DEF vars, parser
    <2>2. Seen' = Seen
      BY <2>1 DEF Seen
    <2> QED BY <2>1, <2>2 DEF TextInv, Known, AcceptsFiles, GivesUpInTime
  <1> QED BY <1>1, <1>2, <1>3, <1>4 DEF Next

LEMMA TextInvariant == Spec => []TextInv
  <1>1. Init => ParserInv /\ TextInv
    BY InitParser, InitText
  <1>2. ParserInv /\ TextInv /\ [Next]_vars => (ParserInv /\ TextInv)'
    BY NextParser, NextText
  <1> QED BY <1>1, <1>2, PTL DEF Spec

-----------------------------------------------------------------------------
(* The tree: the stack is the blocks that are open, by the brackets that   *)
(* opened them, so the innermost is the one in which the next token stands. *)

LastOf(s) == s.tokens[Len(s.tokens)]

\* Above the file's own block the stack has the open brackets, one per depth.
StackIs(ts, stack, parity) ==
    /\ stack[Len(stack)] = 1
    /\ \A i \in 1..parity : \E p \in 1..Len(ts) :
           Encloses(ts, i, p, Len(ts)) /\ stack[parity + 1 - i] = BlockOf(ts, p)

\* The statement that a word goes on with: it ends with the last token, and no
\* other does.
LastIs(ts) ==
    /\ last_token_type = "NORMAL" => LastOf(blocks[Top][Len(blocks[Top])]) = Len(ts)
    /\ \A b \in 1..Len(blocks) : \A i \in 1..Len(blocks[b]) :
           LastOf(blocks[b][i]) = Len(ts) => b = Top /\ i = Len(blocks[Top])

TreeInv ==
    /\ pc # "done" => /\ IsTree(Seen, blocks)
                      /\ StackIs(Seen, config_stack, bracket_parity)
                      /\ LastIs(Seen)
    /\ pc = "open" => ~ret
    /\ TreeIsPlaced

\* The words of a statement are a run of places in the text.
LEMMA Places ==
    ASSUME NEW ts \in Seq(Words), NEW s \in Statement, s.tokens # <<>>, NEW b,
           IsStatementOf(ts, s, b)
    PROVE  /\ Len(s.tokens) \in Nat \ {0}
           /\ s.tokens[1] \in 1..Len(ts) /\ LastOf(s) \in 1..Len(ts)
           /\ LastOf(s) = s.tokens[1] + Len(s.tokens) - 1
           /\ ts[LastOf(s)] = "NORMAL"
  <1>1. Len(s.tokens) \in Nat \ {0} /\ 1 \in 1..Len(s.tokens) /\ Len(s.tokens) \in 1..Len(s.tokens)
    BY DEF Statement
  <1> QED BY <1>1 DEF IsStatementOf, LastOf

\* Tokens that are read later do not change where a place stands.
LEMMA StandsThere ==
    ASSUME NEW ts \in Seq(Words), NEW type \in Words, NEW k \in 1..Len(ts)+1, NEW b
    PROVE  StandsIn(Append(ts, type), k, b) <=> StandsIn(ts, k, b)
  <1> DEFINE n == Len(ts)  us == Append(ts, type)
  <1>1. /\ n \in Nat /\ \A i \in 1..n : us[i] = ts[i]
        /\ \A i \in 0..n : OpenBlocks(us, i) = OpenBlocks(ts, i) /\ BlockOf(us, i) = BlockOf(ts, i)
    BY SameBeginning
  <1> HIDE DEF us
  <1>2. ASSUME NEW i, NEW p \in 1..k-1
        PROVE  Encloses(us, i, p, k - 1) <=> Encloses(ts, i, p, k - 1)
    <2>1. p \in 1..n /\ p \in 0..n /\ \A q \in p..k-1 : q \in 0..n
      BY <1>1
    <2> QED BY <1>1, <2>1 DEF Encloses
  <1>3. k - 1 \in 0..n /\ \A p \in 1..k-1 : p \in 0..n
    BY <1>1
  <1>4. OpenBlocks(us, k - 1) = OpenBlocks(ts, k - 1)
    BY <1>1, <1>3
  <1>5. \A p \in 1..k-1 : BlockOf(us, p) = BlockOf(ts, p)
    BY <1>1, <1>3
  <1>6. StandsIn(us, k, b) <=> StandsIn(ts, k, b)
    BY <1>2, <1>4, <1>5 DEF StandsIn
  <1> QED BY <1>6 DEF us

\* A statement stays what it is when a token is read that does not go on with it.
LEMMA StatementStays ==
    ASSUME NEW ts \in Seq(Words), NEW type \in Words,
           NEW s \in Statement, s.tokens # <<>>, NEW b, IsStatementOf(ts, s, b),
           LastOf(s) # Len(ts) \/ type \in {"STATEMENT_END", "END_BLOCK"}
    PROVE  IsStatementOf(Append(ts, type), s, b)
  <1> DEFINE n == Len(ts)  us == Append(ts, type)  first == s.tokens[1]  last == LastOf(s)
  <1>1. /\ n \in Nat /\ us \in Seq(Words) /\ Len(us) = n + 1 /\ us[n + 1] = type
        /\ \A k \in 1..n : us[k] = ts[k]
        /\ \A k \in 0..n : BlockOf(us, k) = BlockOf(ts, k)
        /\ \A k \in 1..n+1 : Before(us, k) = Before(ts, k)
    BY SameBeginning
  <1>2. first \in 1..n /\ last \in 1..n
    BY Places
  <1>3. StandsIn(us, first, b) <=> StandsIn(ts, first, b)
    BY <1>1, <1>2, StandsThere
  <1> HIDE DEF us, n
  <1>4. /\ \A j \in 1..Len(s.tokens) : s.tokens[j] = first + j - 1 /\ s.tokens[j] \in 1..n
                                       /\ ts[s.tokens[j]] = "NORMAL"
        /\ Before(ts, first) # "NORMAL" /\ Behind(ts, last) # "NORMAL"
        /\ StandsIn(ts, first, b)
        /\ s.child = IF Behind(ts, last) = "START_BLOCK" THEN BlockOf(ts, last + 1) ELSE 0
    BY DEF IsStatementOf, LastOf, n
  <1>5. /\ \A j \in 1..Len(s.tokens) : s.tokens[j] = first + j - 1 /\ s.tokens[j] \in 1..n+1
                                       /\ us[s.tokens[j]] = "NORMAL"
    <2> HIDE DEF first, last
    <2> SUFFICES ASSUME NEW j \in 1..Len(s.tokens)
                 PROVE  /\ s.tokens[j] = first + j - 1 /\ s.tokens[j] \in 1..n+1
                        /\ us[s.tokens[j]] = "NORMAL"
      OBVIOUS
    <2>1. s.tokens[j] = first + j - 1 /\ s.tokens[j] \in 1..n /\ ts[s.tokens[j]] = "NORMAL"
      BY <1>4
    <2> QED BY <2>1, <1>1
  <1>6. Before(us, first) # "NORMAL" /\ StandsIn(us, first, b)
    BY <1>1, <1>2, <1>3, <1>4
  <1>7. /\ Behind(us, last) # "NORMAL"
        /\ s.child = IF Behind(us, last) = "START_BLOCK" THEN BlockOf(us, last + 1) ELSE 0
    <2>1. CASE last = n
      <3>1. Behind(ts, last) = "EOF" /\ Behind(us, last) = type
        BY <1>1, <2>1 DEF Behind, n
      <3> QED BY <1>4, <2>1, <3>1 DEF n
    <2>2. CASE last # n
      <3>1. last + 1 \in 1..n /\ last + 1 \in 0..n
        BY <1>1, <1>2, <2>2
      <3>2. Behind(ts, last) = ts[last + 1] /\ Behind(us, last) = ts[last + 1]
        BY <1>1, <1>2, <2>2, <3>1 DEF Behind, n
      <3> QED BY <1>1, <1>4, <3>1, <3>2
    <2> QED BY <2>1, <2>2
  <1>8. IsStatementOf(us, s, b)
    BY <1>1, <1>5, <1>6, <1>7 DEF IsStatementOf, LastOf
  <1> QED BY <1>8 DEF us

\* A word that begins a statement.
LEMMA StatementBegins ==
    ASSUME NEW ts \in Seq(Words), NEW s, s.tokens = <<Len(ts) + 1>>, s.child = 0, NEW b,
           Before(ts, Len(ts) + 1) # "NORMAL", StandsIn(ts, Len(ts) + 1, b)
    PROVE  IsStatementOf(Append(ts, "NORMAL"), s, b)
  <1> DEFINE n == Len(ts)  us == Append(ts, "NORMAL")
  <1>1. /\ n \in Nat /\ Len(us) = n + 1 /\ us[n + 1] = "NORMAL" /\ n + 1 \in 1..n+1
        /\ Before(us, n + 1) = Before(ts, n + 1)
    BY SameBeginning DEF Words
  <1>2. StandsIn(us, n + 1, b)
    BY <1>1, StandsThere DEF Words
  <1>3. Len(s.tokens) = 1 /\ s.tokens[1] = n + 1
    OBVIOUS
  <1>4. Behind(us, n + 1) = "EOF"
    BY <1>1 DEF Behind
  <1> HIDE DEF us, n
  <1>5. IsStatementOf(us, s, b)
    BY <1>1, <1>2, <1>3, <1>4 DEF IsStatementOf, n
  <1> QED BY <1>5 DEF us

\* A word that goes on with the statement in front of it.
LEMMA StatementGoesOn ==
    ASSUME NEW ts \in Seq(Words), NEW s \in Statement, s.tokens # <<>>, NEW b,
           IsStatementOf(ts, s, b), LastOf(s) = Len(ts),
           NEW t, t.tokens = Append(s.tokens, Len(ts) + 1), t.child = s.child
    PROVE  IsStatementOf(Append(ts, "NORMAL"), t, b)
  <1> DEFINE n == Len(ts)  us == Append(ts, "NORMAL")  m == Len(s.tokens)  first == s.tokens[1]
  <1>1. /\ n \in Nat /\ Len(us) = n + 1 /\ us[n + 1] = "NORMAL"
        /\ \A k \in 1..n : us[k] = ts[k]
        /\ \A k \in 1..n+1 : Before(us, k) = Before(ts, k)
    BY SameBeginning DEF Words
  <1>2. m \in Nat \ {0} /\ first \in 1..n /\ n = first + m - 1
    BY Places
  <1>3. StandsIn(us, first, b) <=> StandsIn(ts, first, b)
    <2>1. first \in 1..n+1 /\ "NORMAL" \in Words
      BY <1>1, <1>2 DEF Words
    <2> HIDE DEF first
    <2> QED BY <2>1, StandsThere
  <1>4. /\ Len(t.tokens) = m + 1 /\ t.tokens[m + 1] = n + 1
        /\ \A j \in 1..m : t.tokens[j] = s.tokens[j]
    BY <1>2 DEF Statement
  <1> HIDE DEF us
  <1>5. /\ \A j \in 1..m : s.tokens[j] = first + j - 1 /\ s.tokens[j] \in 1..n
                           /\ ts[s.tokens[j]] = "NORMAL"
        /\ Before(ts, first) # "NORMAL" /\ StandsIn(ts, first, b)
        /\ s.child = IF Behind(ts, n) = "START_BLOCK" THEN BlockOf(ts, n + 1) ELSE 0
    BY DEF IsStatementOf, LastOf
  <1>6. s.child = 0 /\ Behind(us, n + 1) = "EOF"
    BY <1>1, <1>5 DEF Behind
  <1> HIDE DEF n, m, first
  <1>7. t.tokens[1] = first
    BY <1>2, <1>4 DEF first
  <1>8. \A j \in 1..m+1 : t.tokens[j] = first + j - 1 /\ t.tokens[j] \in 1..n+1
                          /\ us[t.tokens[j]] = "NORMAL"
    <2> SUFFICES ASSUME NEW j \in 1..m+1
                 PROVE  t.tokens[j] = first + j - 1 /\ t.tokens[j] \in 1..n+1
                        /\ us[t.tokens[j]] = "NORMAL"
      OBVIOUS
    <2>1. CASE j = m + 1
      BY <2>1, <1>1, <1>2, <1>4
    <2>2. CASE j # m + 1
      <3>1. j \in 1..m
        BY <2>2, <1>2
      <3> QED BY <3>1, <1>1, <1>4, <1>5
    <2> QED BY <2>1, <2>2
  <1>9. Before(us, first) # "NORMAL" /\ StandsIn(us, first, b)
    BY <1>1, <1>2, <1>3, <1>5
  <1>10. t.tokens # <<>>
    BY <1>2, <1>4
  <1>11. IsStatementOf(us, t, b)
    BY <1>1, <1>4, <1>6, <1>7, <1>8, <1>9, <1>10 DEF IsStatementOf
  <1> QED BY <1>11 DEF us

\* A bracket behind a statement gives it its block.
LEMMA StatementOpens ==
    ASSUME NEW ts \in Seq(Words), NEW s \in Statement, s.tokens # <<>>, NEW b,
           IsStatementOf(ts, s, b), LastOf(s) = Len(ts),
           NEW t, t.tokens = s.tokens, t.child = BlockOf(ts, Len(ts)) + 1
    PROVE  IsStatementOf(Append(ts, "START_BLOCK"), t, b)
  <1> DEFINE n == Len(ts)  us == Append(ts, "START_BLOCK")  m == Len(s.tokens)  first == s.tokens[1]
  <1>1. /\ n \in Nat /\ Len(us) = n + 1 /\ us[n + 1] = "START_BLOCK"
        /\ \A k \in 1..n : us[k] = ts[k]
        /\ \A k \in 1..n+1 : Before(us, k) = Before(ts, k)
    BY SameBeginning DEF Words
  <1>2. m \in Nat \ {0} /\ first \in 1..n /\ n = s.tokens[m]
    BY Places DEF LastOf
  <1>3. StandsIn(us, first, b) <=> StandsIn(ts, first, b)
    <2>1. first \in 1..n+1 /\ "START_BLOCK" \in Words
      BY <1>1, <1>2 DEF Words
    <2> HIDE DEF first
    <2> QED BY <2>1, StandsThere
  <1>4. BlockOf(us, n + 1) = BlockOf(ts, n) + 1
    BY OneMore DEF Words
  <1> HIDE DEF us
  <1>5. /\ \A j \in 1..m : s.tokens[j] = first + j - 1 /\ s.tokens[j] \in 1..n
                           /\ ts[s.tokens[j]] = "NORMAL"
        /\ Before(ts, first) # "NORMAL" /\ StandsIn(ts, first, b)
    BY DEF IsStatementOf
  <1>6. Behind(us, n) = "START_BLOCK"
    BY <1>1 DEF Behind
  <1>7. \A j \in 1..m : s.tokens[j] = first + j - 1 /\ s.tokens[j] \in 1..n+1
                        /\ us[s.tokens[j]] = "NORMAL"
    BY <1>1, <1>5
  <1>8. Before(us, first) # "NORMAL" /\ StandsIn(us, first, b)
    BY <1>1, <1>2, <1>3, <1>5
  <1> HIDE DEF n, m, first
  <1>9. IsStatementOf(us, t, b)
    BY <1>1, <1>2, <1>4, <1>6, <1>7, <1>8 DEF IsStatementOf, m, first, n
  <1> QED BY <1>9 DEF us

-----------------------------------------------------------------------------

LEMMA InitTree == Init => TreeInv
  <1> SUFFICES ASSUME Init PROVE TreeInv
    OBVIOUS
  <1>1. /\ pc = "open" /\ lexed = <<>> /\ ~ret /\ last_token_type = "START"
        /\ bracket_parity = 0 /\ config_stack = <<1>> /\ blocks = << <<>> >>
    BY DEF Init
  <1>2. /\ Seen = <<>> /\ Len(Seen) = 0
        /\ Len(blocks) = 1 /\ blocks[1] = <<>> /\ Len(blocks[1]) = 0
        /\ Len(config_stack) = 1 /\ config_stack[1] = 1
    BY <1>1 DEF Seen
  <1>3. BlockOf(Seen, 0) = 1
    BY CountNone DEF BlockOf
  <1>4. EachIsPlaced(Seen, blocks) /\ InOrder(blocks) /\ WordsAreThere(Seen, blocks)
    BY <1>2 DEF EachIsPlaced, InOrder, WordsAreThere
  <1>5. IsTree(Seen, blocks)
    BY <1>2, <1>3, <1>4 DEF IsTree
  <1>6. StackIs(Seen, config_stack, bracket_parity) /\ LastIs(Seen)
    BY <1>1, <1>2 DEF StackIs, LastIs
  <1> QED BY <1>1, <1>5, <1>6 DEF TreeInv, TreeIsPlaced

\* Where the tree and the tokens that were taken stay, so does what is known of them.
LEMMA TreeStays ==
    ASSUME TreeInv, pc # "done", pc' # "done", pc' # "open", Seen' = Seen, UNCHANGED parser
    PROVE  TreeInv'
  <1>1. UNCHANGED <<last_token_type, bracket_parity, config_stack, blocks, Seen>>
    BY DEF parser
  <1>2. StackIs(Seen, config_stack, bracket_parity)' /\ LastIs(Seen)'
    BY <1>1 DEF TreeInv, StackIs, LastIs, Top
  <1>3. IsTree(Seen, blocks)'
    BY <1>1 DEF TreeInv
  <1> QED BY <1>2, <1>3 DEF TreeInv, TreeIsPlaced

\* Brackets that are open stay open unless the next token closes them.
LEMMA StaysOpen ==
    ASSUME NEW ts \in Seq(Words), NEW type \in Words, NEW i \in Nat, NEW p \in 1..Len(ts),
           Encloses(ts, i, p, Len(ts)), OpenBlocks(Append(ts, type), Len(ts) + 1) >= i
    PROVE  LET n == Len(ts)  us == Append(ts, type) IN
           Encloses(us, i, p, n + 1) /\ BlockOf(us, p) = BlockOf(ts, p) /\ p \in 1..Len(us)
  <1> DEFINE n == Len(ts)  us == Append(ts, type)
  <1>1. /\ n \in Nat /\ Len(us) = n + 1 /\ us[p] = ts[p] /\ p \in 0..n
        /\ \A k \in 0..n : OpenBlocks(us, k) = OpenBlocks(ts, k) /\ BlockOf(us, k) = BlockOf(ts, k)
    BY SameBeginning
  <1>2. OpenBlocks(us, n + 1) >= i
    OBVIOUS
  <1> HIDE DEF us
  <1>3. \A q \in p..n+1 : OpenBlocks(us, q) >= i
    <2> SUFFICES ASSUME NEW q \in p..n+1 PROVE OpenBlocks(us, q) >= i
      OBVIOUS
    <2>1. CASE q = n + 1
      BY <2>1, <1>2
    <2>2. CASE q # n + 1
      <3>1. q \in p..n /\ q \in 0..n
        BY <2>2, <1>1
      <3> QED BY <3>1, <1>1 DEF Encloses
    <2> QED BY <2>1, <2>2
  <1>4. Encloses(us, i, p, n + 1)
    BY <1>1, <1>3 DEF Encloses
  <1> QED BY <1>1, <1>4 DEF us

\* The innermost block is the one in which the next token stands.
LEMMA TopStands ==
    ASSUME ParserInv, NEW ts \in Seq(Words), StackIs(ts, config_stack, bracket_parity),
           bracket_parity = OpenBlocks(ts, Len(ts))
    PROVE  StandsIn(ts, Len(ts) + 1, Top)
  <1>1. /\ Len(ts) \in Nat /\ bracket_parity \in Nat /\ config_stack \in Seq(Nat)
        /\ Len(config_stack) = bracket_parity + 1
    BY DEF ParserInv, TypeOK, ParityIsDepth
  <1>2. Top = config_stack[1]
    BY <1>1 DEF Top
  <1>3. CASE bracket_parity = 0
    <2>1. Top = 1
      BY <1>1, <1>2, <1>3 DEF StackIs
    <2>2. OpenBlocks(ts, (Len(ts) + 1) - 1) = 0
      <3>1. (Len(ts) + 1) - 1 = Len(ts)
        BY <1>1
      <3> QED BY <1>3, <3>1
    <2> QED BY <2>1, <2>2 DEF StandsIn
  <1>4. CASE bracket_parity # 0
    <2>1. PICK p \in 1..Len(ts) : /\ Encloses(ts, bracket_parity, p, Len(ts))
                                  /\ config_stack[bracket_parity + 1 - bracket_parity] = BlockOf(ts, p)
      BY <1>1, <1>4 DEF StackIs
    <2> QED BY <1>1, <1>2, <1>4, <2>1 DEF StandsIn
  <1> QED BY <1>3, <1>4

\* What AddWord does to the blocks, place by place.
LEMMA WordBlocks ==
    ASSUME ParserInv, AddWord
    PROVE  LET m == Len(blocks'[Top])  v == Len(lexed) IN
           /\ Top \in 1..Len(blocks) /\ Len(blocks') = Len(blocks) /\ Len(blocks[Top]) \in Nat
           /\ m = IF last_token_type = "NORMAL" THEN Len(blocks[Top]) ELSE Len(blocks[Top]) + 1
           /\ m > 0
           /\ \A c \in 1..Len(blocks) : c # Top => blocks'[c] = blocks[c]
           /\ \A i \in 1..m-1 : blocks'[Top][i] = blocks[Top][i]
           /\ last_token_type # "NORMAL" => blocks'[Top][m] = NewStatement(v)
           /\ last_token_type = "NORMAL" =>
                /\ blocks'[Top][m].tokens = Append(blocks[Top][m].tokens, v)
                /\ blocks'[Top][m].child = blocks[Top][m].child
  <1> DEFINE v == Len(lexed)  n == Len(blocks[Top])
  <1>1. Top \in 1..Len(blocks) /\ blocks[Top] \in Block
    BY Innermost
  <1>2. blocks \in Seq(Block) /\ v \in Nat /\ n \in Nat
    BY <1>1 DEF ParserInv, TypeOK, Block, Statement
  <1>3. CASE last_token_type # "NORMAL"
    <2> DEFINE new == Append(blocks[Top], NewStatement(v))
    <2>1. NewStatement(v) \in Statement
      BY <1>2 DEF NewStatement, Statement
    <2>2. /\ new \in Block /\ Len(new) = n + 1 /\ new[n + 1] = NewStatement(v)
          /\ \A i \in 1..n : new[i] = blocks[Top][i]
      BY <1>1, <2>1 DEF Block
    <2>3. blocks' = [blocks EXCEPT ![Top] = new]
      BY <1>3 DEF AddWord
    <2> HIDE DEF new
    <2>4. /\ Len(blocks') = Len(blocks) /\ blocks'[Top] = new
          /\ \A c \in 1..Len(blocks) : c # Top => blocks'[c] = blocks[c]
      BY <1>1, <1>2, <2>2, <2>3, Replaced
    <2> QED BY <1>1, <1>2, <1>3, <2>2, <2>4
  <1>4. CASE last_token_type = "NORMAL"
    <2> DEFINE old == blocks[Top][n]
               s   == [old EXCEPT !.tokens = Append(@, v)]
               b   == [blocks[Top] EXCEPT ![n] = s]
    <2>1. n \in 1..n /\ n > 0
      BY <1>4, <1>2 DEF ParserInv
    <2>2. old \in Statement
      BY <2>1, <1>1 DEF Block
    <2>3. s \in Statement /\ s.tokens = Append(old.tokens, v) /\ s.child = old.child
      <3> HIDE DEF old
      <3> QED BY <2>2, <1>2, Grown
    <2>4. blocks' = [blocks EXCEPT ![Top] = b]
      BY <1>4 DEF AddWord
    <2> HIDE DEF s
    <2>5. b \in Block /\ Len(b) = n /\ \A j \in 1..n : b[j] = IF j = n THEN s ELSE blocks[Top][j]
      BY <1>1, <2>1, <2>3, Replaced DEF Block
    <2> HIDE DEF b
    <2>6. /\ Len(blocks') = Len(blocks) /\ blocks'[Top] = b
          /\ \A c \in 1..Len(blocks) : c # Top => blocks'[c] = blocks[c]
      BY <1>1, <1>2, <2>4, <2>5, Replaced
    <2>7. b[n] = s /\ \A i \in 1..n-1 : b[i] = blocks[Top][i]
      BY <1>2, <2>1, <2>5
    <2> QED BY <1>1, <1>2, <1>4, <2>1, <2>3, <2>5, <2>6, <2>7
  <1> QED BY <1>3, <1>4

\* What OpenBlock does to them.
LEMMA OpenedBlocks ==
    ASSUME ParserInv, OpenBlock
    PROVE  LET m == Len(blocks[Top])  new == Len(blocks) + 1 IN
           /\ Top \in 1..Len(blocks) /\ Len(blocks') = new /\ Len(blocks) \in Nat
           /\ m \in Nat /\ m > 0 /\ Len(blocks'[Top]) = m
           /\ blocks'[new] = <<>>
           /\ \A c \in 1..Len(blocks) : c # Top => blocks'[c] = blocks[c]
           /\ \A i \in 1..m-1 : blocks'[Top][i] = blocks[Top][i]
           /\ blocks'[Top][m].tokens = blocks[Top][m].tokens
           /\ blocks'[Top][m].child = new
  <1> DEFINE n == Len(blocks[Top])  new == Len(blocks) + 1
             s == [blocks[Top][n] EXCEPT !.child = new]
             b == [blocks[Top] EXCEPT ![n] = s]
             t == [blocks EXCEPT ![Top] = b]
  <1>1. Top \in 1..Len(blocks) /\ blocks[Top] \in Block
    BY Innermost
  <1>2. blocks \in Seq(Block) /\ new \in Nat /\ n \in Nat
    BY <1>1 DEF ParserInv, TypeOK, Block, Statement
  <1>3. n \in 1..n /\ n > 0
    BY <1>2 DEF ParserInv, OpenBlock, MayOpen
  <1>4. blocks[Top][n] \in Statement
    BY <1>1, <1>3 DEF Block
  <1>5. s \in Statement /\ s.tokens = blocks[Top][n].tokens /\ s.child = new
    BY <1>2, <1>4 DEF Statement
  <1>6. blocks' = Append(t, <<>>)
    BY DEF OpenBlock
  <1> HIDE DEF s
  <1>7. b \in Block /\ Len(b) = n /\ \A j \in 1..n : b[j] = IF j = n THEN s ELSE blocks[Top][j]
    BY <1>1, <1>3, <1>5, Replaced DEF Block
  <1> HIDE DEF b
  <1>8. /\ t \in Seq(Block) /\ Len(t) = Len(blocks)
        /\ \A j \in 1..Len(blocks) : t[j] = IF j = Top THEN b ELSE blocks[j]
    BY <1>1, <1>2, <1>7, Replaced
  <1> HIDE DEF t
  <1>9. /\ Len(blocks') = new /\ blocks'[new] = <<>>
        /\ \A j \in 1..Len(blocks) : blocks'[j] = t[j]
    BY <1>2, <1>6, <1>8
  <1>10. b[n] = s /\ \A i \in 1..n-1 : b[i] = blocks[Top][i]
    BY <1>2, <1>3, <1>7
  <1>11. blocks'[Top] = b /\ \A c \in 1..Len(blocks) : c # Top => blocks'[c] = blocks[c]
    BY <1>1, <1>8, <1>9
  <1> QED BY <1>1, <1>2, <1>3, <1>5, <1>7, <1>9, <1>10, <1>11

\* Behind a token that is no bracket the stack is what it was.
LEMMA StackStays ==
    ASSUME NEW ts \in Seq(Words), NEW type \in Words, type \notin {"START_BLOCK", "END_BLOCK"},
           ParserInv, StackIs(ts, config_stack, bracket_parity),
           bracket_parity = OpenBlocks(ts, Len(ts))
    PROVE  StackIs(Append(ts, type), config_stack, bracket_parity)
  <1> DEFINE n == Len(ts)  us == Append(ts, type)
  <1>1. bracket_parity \in Nat /\ Len(us) = n + 1 /\ OpenBlocks(us, n + 1) = bracket_parity
    BY OneMore, SameBeginning DEF ParserInv, TypeOK
  <1>2. ASSUME NEW i \in 1..bracket_parity
        PROVE  \E p \in 1..Len(us) :
                   Encloses(us, i, p, Len(us))
                   /\ config_stack[bracket_parity + 1 - i] = BlockOf(us, p)
    <2>1. PICK p \in 1..n : /\ Encloses(ts, i, p, n)
                            /\ config_stack[bracket_parity + 1 - i] = BlockOf(ts, p)
      BY DEF StackIs
    <2>2. Encloses(us, i, p, n + 1) /\ BlockOf(us, p) = BlockOf(ts, p) /\ p \in 1..Len(us)
      <3>1. i \in Nat /\ OpenBlocks(us, n + 1) >= i
        BY <1>1
      <3> QED BY <2>1, <3>1, StaysOpen
    <2> QED BY <1>1, <2>1, <2>2
  <1> HIDE DEF us
  <1>3. StackIs(us, config_stack, bracket_parity)
    BY <1>2 DEF StackIs
  <1> QED BY <1>3 DEF us

\* What the tree is known to be, of one statement.
LEMMA InTree ==
    ASSUME ParserInv, NEW ts \in Seq(Words), EachIsPlaced(ts, blocks),
           NEW b \in 1..Len(blocks), NEW i \in 1..Len(blocks[b])
    PROVE  LET s == blocks[b][i] IN
           /\ s \in Statement /\ s.tokens # <<>> /\ IsStatementOf(ts, s, b)
           /\ s.tokens[1] \in 1..Len(ts) /\ LastOf(s) \in 1..Len(ts)
           /\ Len(blocks[b]) \in Nat /\ Len(s.tokens) \in Nat
  <1> DEFINE s == blocks[b][i]
  <1>1. blocks \in Seq(Block) /\ blocks[b] \in Block /\ WholeBlock(blocks[b])
    BY DEF ParserInv, TypeOK, WholeTree, Block, Statement
  <1>2. s \in Statement /\ s.tokens # <<>> /\ Len(blocks[b]) \in Nat
    <2>1. s \in Statement
      BY <1>1 DEF Block
    <2>2. s.tokens # <<>>
      BY <1>1 DEF WholeBlock
    <2>3. Len(blocks[b]) \in Nat
      BY <1>1 DEF Block
    <2> QED BY <2>1, <2>2, <2>3
  <1>3. IsStatementOf(ts, s, b)
    BY DEF EachIsPlaced
  <1> HIDE DEF s
  <1>4. s.tokens[1] \in 1..Len(ts) /\ LastOf(s) \in 1..Len(ts) /\ Len(s.tokens) \in Nat
    BY <1>2, <1>3, Places
  <1> QED BY <1>2, <1>3, <1>4 DEF s

\* No statement ends with the last token when that is not a word.
LEMMA NoneEnds ==
    ASSUME ParserInv, NEW ts \in Seq(Words), EachIsPlaced(ts, blocks),
           last_token_type = Before(ts, Len(ts) + 1), last_token_type # "NORMAL",
           NEW b \in 1..Len(blocks), NEW i \in 1..Len(blocks[b])
    PROVE  LastOf(blocks[b][i]) # Len(ts)
  <1> DEFINE s == blocks[b][i]
  <1>1. s \in Statement /\ s.tokens # <<>> /\ IsStatementOf(ts, s, b)
    BY InTree
  <1>2. LastOf(s) \in 1..Len(ts) /\ ts[LastOf(s)] = "NORMAL"
    <2> HIDE DEF s
    <2> QED BY <1>1, Places
  <1> HIDE DEF s
  <1>3. ASSUME LastOf(s) = Len(ts) PROVE FALSE
    <2>1. Len(ts) \in Nat \ {0} /\ ts[Len(ts)] = "NORMAL"
      BY <1>2, <1>3
    <2>2. Before(ts, Len(ts) + 1) = ts[Len(ts)]
      BY <2>1 DEF Before
    <2> QED BY <2>1, <2>2
  <1> QED BY <1>3 DEF s

\* The statement to which a word is put: the last of the innermost block.
LEMMA WordIsPlaced ==
    ASSUME ParserInv, TextInv, TreeInv, pc = "parse", AddWord
    PROVE  LET s == blocks'[Top][Len(blocks'[Top])]  n == Len(Seen) IN
           /\ IsStatementOf(lexed, s, Top) /\ LastOf(s) = n + 1
           /\ Len(s.tokens) \in Nat \ {0}
           /\ last_token_type # "NORMAL" => s.tokens[1] = n + 1
           /\ last_token_type = "NORMAL" =>
                  LET old == blocks[Top][Len(blocks[Top])] IN
                  /\ s.tokens[1] = old.tokens[1] /\ Len(s.tokens) = Len(old.tokens) + 1
                  /\ \A j \in 1..Len(old.tokens) : s.tokens[j] = old.tokens[j]
  <1> DEFINE m == Len(blocks'[Top])  s == blocks'[Top][m]  n == Len(Seen)
  <1>1. token_type = "NORMAL" /\ token_type \in Words
    BY DEF AddWord, Words
  <1>2. Seen \in Seq(Words) /\ lexed = Append(Seen, "NORMAL") /\ n \in Nat /\ Len(lexed) = n + 1
    BY <1>1, LookedAt
  <1>3. /\ last_token_type = Before(Seen, n + 1) /\ bracket_parity = OpenBlocks(Seen, n)
        /\ EachIsPlaced(Seen, blocks) /\ StackIs(Seen, config_stack, bracket_parity) /\ LastIs(Seen)
    BY DEF TextInv, Known, TreeInv, IsTree
  <1>4. CASE last_token_type # "NORMAL"
    <2>1. s = [tokens |-> <<n + 1>>, child |-> 0]
      BY <1>2, <1>4, WordBlocks DEF NewStatement
    <2>2. s.tokens = <<n + 1>> /\ s.child = 0
      BY <2>1
    <2>3. StandsIn(Seen, n + 1, Top)
      BY <1>2, <1>3, TopStands
    <2> HIDE DEF s
    <2>4. IsStatementOf(lexed, s, Top)
      BY <1>2, <1>3, <1>4, <2>2, <2>3, StatementBegins
    <2>5. Len(s.tokens) = 1 /\ s.tokens[1] = n + 1 /\ LastOf(s) = n + 1
      BY <2>2 DEF LastOf
    <2> QED BY <1>4, <2>4, <2>5 DEF s
  <1>5. CASE last_token_type = "NORMAL"
    <2> DEFINE old == blocks[Top][m]
    <2>1. /\ m = Len(blocks[Top]) /\ m \in 1..Len(blocks[Top]) /\ Top \in 1..Len(blocks)
          /\ s.tokens = Append(old.tokens, n + 1) /\ s.child = old.child
      BY <1>2, <1>5, WordBlocks
    <2>2. old \in Statement /\ old.tokens # <<>> /\ IsStatementOf(Seen, old, Top)
      BY <1>2, <1>3, <2>1, InTree
    <2>3. LastOf(old) = n
      BY <1>3, <1>5, <2>1 DEF LastIs
    <2> HIDE DEF s, m
    <2>4. /\ Len(s.tokens) = Len(old.tokens) + 1 /\ s.tokens[Len(s.tokens)] = n + 1
          /\ \A j \in 1..Len(old.tokens) : s.tokens[j] = old.tokens[j]
          /\ Len(old.tokens) \in Nat \ {0} /\ 1 \in 1..Len(old.tokens)
      BY <2>1, <2>2 DEF Statement
    <2> HIDE DEF old
    <2>5. IsStatementOf(lexed, s, Top)
      BY <1>2, <2>1, <2>2, <2>3, StatementGoesOn
    <2>6. s.tokens[1] = old.tokens[1] /\ LastOf(s) = n + 1
      BY <2>4 DEF LastOf
    <2> QED BY <1>5, <2>1, <2>4, <2>5, <2>6 DEF s, m, old
  <1> QED BY <1>4, <1>5

LEMMA WordTree ==
    ASSUME ParserInv, TextInv, TreeInv, Parse, AddWord
    PROVE  TreeInv'
  <1> DEFINE m == Len(blocks'[Top])  st == blocks'[Top][m]  n == Len(Seen)
  <1>1. /\ token_type = "NORMAL" /\ token_type \in Words /\ pc = "parse" /\ pc' = "lex"
        /\ last_token_type' = "NORMAL"
        /\ UNCHANGED <<config_stack, bracket_parity, lexed>> /\ Top' = Top
    BY DEF Parse, AddWord, Continue, Words, Top
  <1>2. /\ Seen \in Seq(Words) /\ lexed = Append(Seen, "NORMAL") /\ n \in Nat
        /\ Len(lexed) = n + 1 /\ Seen' = lexed /\ lexed[n + 1] = "NORMAL"
        /\ \A k \in 1..n : lexed[k] = Seen[k]
    BY <1>1, LookedAt, TakenText
  <1>3. /\ last_token_type = Before(Seen, n + 1) /\ bracket_parity = OpenBlocks(Seen, n)
        /\ Len(blocks) = BlockOf(Seen, n) /\ EachIsPlaced(Seen, blocks) /\ InOrder(blocks)
        /\ WordsAreThere(Seen, blocks) /\ StackIs(Seen, config_stack, bracket_parity) /\ LastIs(Seen)
    BY <1>1 DEF TextInv, Known, TreeInv, IsTree
  <1>4. /\ Top \in 1..Len(blocks) /\ Len(blocks') = Len(blocks)
        /\ m = IF last_token_type = "NORMAL" THEN Len(blocks[Top]) ELSE Len(blocks[Top]) + 1
        /\ m > 0 /\ m \in Nat /\ Len(blocks[Top]) \in Nat
        /\ \A c \in 1..Len(blocks) : c # Top => blocks'[c] = blocks[c]
        /\ \A i \in 1..m-1 : blocks'[Top][i] = blocks[Top][i]
    BY WordBlocks
  <1>5. /\ IsStatementOf(lexed, st, Top) /\ LastOf(st) = n + 1 /\ Len(st.tokens) \in Nat \ {0}
        /\ last_token_type # "NORMAL" => st.tokens[1] = n + 1
        /\ last_token_type = "NORMAL" =>
               /\ st.tokens[1] = blocks[Top][m].tokens[1]
               /\ Len(st.tokens) = Len(blocks[Top][m].tokens) + 1
               /\ \A j \in 1..Len(blocks[Top][m].tokens) : st.tokens[j] = blocks[Top][m].tokens[j]
    BY <1>1, <1>4, WordIsPlaced
  <1> HIDE DEF m, st
  <1>6. ASSUME NEW c \in 1..Len(blocks'), NEW i \in 1..Len(blocks'[c]), ~(c = Top /\ i = m)
        PROVE  /\ c \in 1..Len(blocks) /\ i \in 1..Len(blocks[c]) /\ blocks'[c][i] = blocks[c][i]
               /\ LastOf(blocks[c][i]) # n
    <2>1. c \in 1..Len(blocks) /\ i \in 1..Len(blocks[c]) /\ blocks'[c][i] = blocks[c][i]
      <3>1. CASE c = Top
        BY <1>4, <1>6, <3>1 DEF m
      <3>2. CASE c # Top
        BY <1>4, <3>2
      <3> QED BY <3>1, <3>2
    <2>2. LastOf(blocks[c][i]) # n
      <3>1. CASE last_token_type = "NORMAL"
        BY <1>3, <1>4, <1>6, <2>1, <3>1 DEF LastIs
      <3>2. CASE last_token_type # "NORMAL"
        BY <1>2, <1>3, <2>1, <3>2, NoneEnds
      <3> QED BY <3>1, <3>2
    <2> QED BY <2>1, <2>2
  <1>7. blocks'[Top][m] = st /\ m \in 1..Len(blocks'[Top]) /\ Top \in 1..Len(blocks')
    BY <1>4 DEF m, st
  <1>8. EachIsPlaced(lexed, blocks')
    <2> SUFFICES ASSUME NEW c \in 1..Len(blocks'), NEW i \in 1..Len(blocks'[c])
                 PROVE  IsStatementOf(lexed, blocks'[c][i], c)
      BY DEF EachIsPlaced
    <2>1. CASE c = Top /\ i = m
      BY <1>5, <1>7, <2>1
    <2>2. CASE ~(c = Top /\ i = m)
      <3> DEFINE s == blocks[c][i]
      <3>1. /\ c \in 1..Len(blocks) /\ i \in 1..Len(blocks[c]) /\ blocks'[c][i] = s
            /\ LastOf(s) # n
        BY <1>6, <2>2
      <3>2. s \in Statement /\ s.tokens # <<>> /\ IsStatementOf(Seen, s, c)
        BY <1>2, <1>3, <3>1, InTree
      <3> HIDE DEF s
      <3>3. IsStatementOf(Append(Seen, "NORMAL"), s, c)
        BY <1>1, <1>2, <3>1, <3>2, StatementStays
      <3> QED BY <1>2, <3>1, <3>3
    <2> QED BY <2>1, <2>2
  <1>9. InOrder(blocks')
    <2> SUFFICES ASSUME NEW c \in 1..Len(blocks'), NEW i \in 2..Len(blocks'[c])
                 PROVE  blocks'[c][i-1].tokens[1] < blocks'[c][i].tokens[1]
      BY DEF InOrder
    <2>1. i - 1 \in 1..Len(blocks'[c]) /\ i \in 1..Len(blocks'[c]) /\ ~(c = Top /\ i - 1 = m)
      BY <1>4 DEF m
    <2>2. /\ c \in 1..Len(blocks) /\ i - 1 \in 1..Len(blocks[c])
          /\ blocks'[c][i-1] = blocks[c][i-1]
      BY <1>6, <2>1
    <2>3. CASE c = Top /\ i = m
      <3>1. CASE last_token_type = "NORMAL"
        <4>1. i \in 2..Len(blocks[c])
          BY <1>4, <2>3, <3>1
        <4> QED BY <1>3, <1>5, <1>7, <2>2, <2>3, <3>1, <4>1 DEF InOrder
      <3>2. CASE last_token_type # "NORMAL"
        <4>1. blocks[c][i-1].tokens[1] \in 1..n
          BY <1>2, <1>3, <2>2, InTree
        <4>2. blocks'[c][i].tokens[1] = n + 1
          BY <1>5, <1>7, <2>3, <3>2
        <4> QED BY <1>2, <2>2, <4>1, <4>2
      <3> QED BY <3>1, <3>2
    <2>4. CASE ~(c = Top /\ i = m)
      <3>1. i \in 1..Len(blocks[c]) /\ blocks'[c][i] = blocks[c][i]
        BY <1>6, <2>1, <2>4
      <3>2. i \in 2..Len(blocks[c])
        BY <3>1
      <3> QED BY <1>3, <2>2, <3>1, <3>2 DEF InOrder
    <2> QED BY <2>3, <2>4
  <1>10. WordsAreThere(lexed, blocks')
    <2> SUFFICES ASSUME NEW k \in 1..Len(lexed), lexed[k] = "NORMAL"
                 PROVE  \E b \in 1..Len(blocks') : \E i \in 1..Len(blocks'[b]) :
                            \E j \in 1..Len(blocks'[b][i].tokens) : blocks'[b][i].tokens[j] = k
      BY DEF WordsAreThere
    <2>1. CASE k = n + 1
      <3>1. Len(st.tokens) \in 1..Len(st.tokens) /\ st.tokens[Len(st.tokens)] = k
        BY <1>5, <2>1 DEF LastOf
      <3> QED BY <1>7, <3>1
    <2>2. CASE k # n + 1
      <3>1. k \in 1..n /\ Seen[k] = "NORMAL"
        BY <1>2, <2>2
      <3>2. PICK b \in 1..Len(blocks) : \E i \in 1..Len(blocks[b]) :
                \E j \in 1..Len(blocks[b][i].tokens) : blocks[b][i].tokens[j] = k
        BY <1>3, <3>1 DEF WordsAreThere
      <3>3. PICK i \in 1..Len(blocks[b]) :
                \E j \in 1..Len(blocks[b][i].tokens) : blocks[b][i].tokens[j] = k
        BY <3>2
      <3>4. PICK j \in 1..Len(blocks[b][i].tokens) : blocks[b][i].tokens[j] = k
        BY <3>3
      <3>5. b \in 1..Len(blocks') /\ i \in 1..Len(blocks'[b])
        <4>1. CASE b = Top
          BY <1>4, <4>1 DEF m
        <4>2. CASE b # Top
          BY <1>4, <4>2
        <4> QED BY <4>1, <4>2
      <3>6. CASE b = Top /\ i = m
        <4>1. last_token_type = "NORMAL"
          BY <1>4, <3>6
        <4>2. Len(blocks[Top][m].tokens) \in Nat
          BY <1>2, <1>3, <3>6, InTree
        <4>3. j \in 1..Len(st.tokens) /\ st.tokens[j] = k
          <5> DEFINE tokens == blocks[Top][m].tokens
          <5>1. j \in 1..Len(tokens) /\ tokens[j] = k /\ Len(tokens) \in Nat
            BY <3>4, <3>6, <4>2
          <5>2. Len(st.tokens) = Len(tokens) + 1 /\ \A q \in 1..Len(tokens) : st.tokens[q] = tokens[q]
            BY <1>5, <4>1
          <5> HIDE DEF tokens
          <5> QED BY <5>1, <5>2
        <4> QED BY <1>7, <4>3
      <3>7. CASE ~(b = Top /\ i = m)
        BY <1>6, <3>4, <3>5, <3>7
      <3> QED BY <3>6, <3>7
    <2> QED BY <2>1, <2>2
  <1>11. Len(blocks') = BlockOf(lexed, n + 1)
    <2>1. BlockOf(Append(Seen, "NORMAL"), n + 1) = BlockOf(Seen, n)
      BY <1>1, <1>2, OneMore
    <2> QED BY <1>2, <1>3, <1>4, <2>1
  <1>12. StackIs(lexed, config_stack, bracket_parity)
    BY <1>1, <1>2, <1>3, StackStays
  <1>13. LastIs(Seen)'
    <2>1. LastOf(blocks'[Top][Len(blocks'[Top])]) = n + 1
      BY <1>5, <1>7 DEF m
    <2>2. ASSUME NEW c \in 1..Len(blocks'), NEW i \in 1..Len(blocks'[c]), ~(c = Top /\ i = m)
          PROVE  LastOf(blocks'[c][i]) # n + 1
      <3>1. /\ c \in 1..Len(blocks) /\ i \in 1..Len(blocks[c]) /\ blocks'[c][i] = blocks[c][i]
        BY <1>6, <2>2
      <3>2. LastOf(blocks[c][i]) \in 1..n
        BY <1>2, <1>3, <3>1, InTree
      <3> QED BY <1>2, <3>1, <3>2
    <2> QED BY <1>1, <1>2, <2>1, <2>2 DEF LastIs, m
  <1>14. IsTree(Seen, blocks)' /\ StackIs(Seen, config_stack, bracket_parity)'
    BY <1>1, <1>2, <1>8, <1>9, <1>10, <1>11, <1>12 DEF IsTree
  <1> QED BY <1>1, <1>13, <1>14 DEF TreeInv, TreeIsPlaced

\* The tree stays when a token comes that no statement goes on with.
LEMMA PlacesStay ==
    ASSUME ParserInv, NEW ts \in Seq(Words), NEW type \in {"STATEMENT_END", "END_BLOCK"},
           IsTree(ts, blocks)
    PROVE  IsTree(Append(ts, type), blocks)
  <1> DEFINE n == Len(ts)  us == Append(ts, type)
  <1>1. /\ n \in Nat /\ Len(us) = n + 1 /\ us[n + 1] = type /\ type \in Words
        /\ \A k \in 1..n : us[k] = ts[k]
    BY SameBeginning DEF Words
  <1>2. Len(blocks) = BlockOf(us, n + 1)
    BY <1>1, OneMore DEF IsTree
  <1>3. EachIsPlaced(us, blocks)
    <2> SUFFICES ASSUME NEW b \in 1..Len(blocks), NEW i \in 1..Len(blocks[b])
                 PROVE  IsStatementOf(us, blocks[b][i], b)
      BY DEF EachIsPlaced
    <2> DEFINE s == blocks[b][i]
    <2>1. s \in Statement /\ s.tokens # <<>> /\ IsStatementOf(ts, s, b)
      BY InTree DEF IsTree
    <2> HIDE DEF s
    <2>2. IsStatementOf(us, s, b)
      BY <1>1, <2>1, StatementStays
    <2> QED BY <2>2 DEF s
  <1> HIDE DEF us
  <1>4. WordsAreThere(us, blocks)
    <2>1. \A k \in 1..Len(us) : us[k] = "NORMAL" => k \in 1..n /\ ts[k] = "NORMAL"
      BY <1>1
    <2> QED BY <2>1 DEF IsTree, WordsAreThere
  <1>5. IsTree(us, blocks)
    BY <1>1, <1>2, <1>3, <1>4 DEF IsTree
  <1> QED BY <1>5 DEF us

\* Every statement ends with a word, so none with another token.
LEMMA EndsBefore ==
    ASSUME ParserInv, NEW ts \in Seq(Words), EachIsPlaced(ts, blocks), ts # <<>>,
           ts[Len(ts)] # "NORMAL", NEW b \in 1..Len(blocks), NEW i \in 1..Len(blocks[b])
    PROVE  LastOf(blocks[b][i]) # Len(ts)
  <1> DEFINE s == blocks[b][i]
  <1>1. s \in Statement /\ s.tokens # <<>> /\ IsStatementOf(ts, s, b)
    BY InTree
  <1> HIDE DEF s
  <1>2. ts[LastOf(s)] = "NORMAL"
    BY <1>1, Places
  <1> QED BY <1>2 DEF s

LEMMA EndTree ==
    ASSUME ParserInv, TextInv, TreeInv, Parse, EndStatement
    PROVE  TreeInv'
  <1>1. /\ token_type = "STATEMENT_END" /\ token_type \in Words /\ pc = "parse" /\ pc' = "lex"
        /\ last_token_type' # "NORMAL"
        /\ UNCHANGED <<config_stack, bracket_parity, blocks, lexed>> /\ Top' = Top
    BY DEF Parse, EndStatement, Continue, Words, Top
  <1>2. /\ Seen \in Seq(Words) /\ lexed = Append(Seen, "STATEMENT_END") /\ lexed \in Seq(Words)
        /\ Seen' = lexed /\ lexed # <<>> /\ lexed[Len(lexed)] # "NORMAL"
    BY <1>1, LookedAt, TakenText DEF TextInv
  <1>3. /\ bracket_parity = OpenBlocks(Seen, Len(Seen)) /\ IsTree(Seen, blocks)
        /\ StackIs(Seen, config_stack, bracket_parity)
    BY <1>1 DEF TextInv, Known, TreeInv
  <1>4. IsTree(lexed, blocks)
    BY <1>2, <1>3, PlacesStay
  <1>5. StackIs(lexed, config_stack, bracket_parity)
    BY <1>1, <1>2, <1>3, StackStays
  <1>6. LastIs(Seen)'
    <2>1. ASSUME NEW b \in 1..Len(blocks), NEW i \in 1..Len(blocks[b])
          PROVE  LastOf(blocks[b][i]) # Len(lexed)
      BY <1>2, <1>4, EndsBefore DEF IsTree
    <2> QED BY <1>1, <1>2, <2>1 DEF LastIs
  <1> QED BY <1>1, <1>2, <1>4, <1>5, <1>6 DEF TreeInv, TreeIsPlaced

\* The bracket that closes a block takes the innermost from the stack.
LEMMA CloseTree ==
    ASSUME ParserInv, TextInv, TreeInv, Parse, EndBlock
    PROVE  TreeInv'
  <1> DEFINE n == Len(Seen)
  <1>1. /\ token_type = "END_BLOCK" /\ token_type \in Words /\ pc = "parse" /\ pc' = "lex"
        /\ last_token_type' # "NORMAL" /\ UNCHANGED <<blocks, lexed>>
        /\ bracket_parity > 0 /\ bracket_parity' = bracket_parity - 1
        /\ config_stack' = Tail(config_stack)
    BY DEF Parse, EndBlock, CloseBlock, Continue, Words
  <1>2. /\ Seen \in Seq(Words) /\ lexed = Append(Seen, "END_BLOCK") /\ lexed \in Seq(Words)
        /\ n \in Nat /\ Len(lexed) = n + 1
        /\ Seen' = lexed /\ lexed # <<>> /\ lexed[Len(lexed)] # "NORMAL"
    BY <1>1, LookedAt, TakenText DEF TextInv
  <1>3. /\ bracket_parity = OpenBlocks(Seen, n) /\ IsTree(Seen, blocks)
        /\ StackIs(Seen, config_stack, bracket_parity)
    BY <1>1 DEF TextInv, Known, TreeInv
  <1>4. IsTree(lexed, blocks)
    BY <1>2, <1>3, PlacesStay
  <1>5. /\ bracket_parity \in Nat /\ config_stack \in Seq(Nat)
        /\ Len(config_stack) = bracket_parity + 1
    BY DEF ParserInv, TypeOK, ParityIsDepth
  <1>6. /\ Len(config_stack') = bracket_parity /\ Len(config_stack') \in Nat
        /\ \A i \in 1..bracket_parity : config_stack'[i] = config_stack[i + 1]
    BY <1>1, <1>5
  <1>7. OpenBlocks(lexed, n + 1) = bracket_parity - 1
    BY <1>1, <1>2, <1>3, OneMore
  <1>8. StackIs(lexed, config_stack', bracket_parity')
    <2>1. config_stack'[Len(config_stack')] = 1
      BY <1>1, <1>3, <1>5, <1>6 DEF StackIs
    <2>2. ASSUME NEW i \in 1..bracket_parity'
          PROVE  \E p \in 1..Len(lexed) :
                     Encloses(lexed, i, p, Len(lexed))
                     /\ config_stack'[bracket_parity' + 1 - i] = BlockOf(lexed, p)
      <3>1. i \in 1..bracket_parity /\ i \in Nat /\ OpenBlocks(lexed, n + 1) >= i
        BY <1>1, <1>5, <1>7
      <3>2. PICK p \in 1..n : /\ Encloses(Seen, i, p, n)
                              /\ config_stack[bracket_parity + 1 - i] = BlockOf(Seen, p)
        BY <1>3, <3>1 DEF StackIs
      <3>3. /\ Encloses(lexed, i, p, Len(lexed)) /\ BlockOf(lexed, p) = BlockOf(Seen, p)
            /\ p \in 1..Len(lexed)
        BY <1>1, <1>2, <3>1, <3>2, StaysOpen
      <3>4. config_stack'[bracket_parity' + 1 - i] = config_stack[bracket_parity + 1 - i]
        <4>1. bracket_parity - i \in 1..bracket_parity
          BY <1>1, <1>5, <3>1
        <4>2. /\ bracket_parity' + 1 - i = bracket_parity - i
              /\ (bracket_parity - i) + 1 = bracket_parity + 1 - i
          BY <1>1, <1>5, <3>1
        <4> QED BY <1>6, <4>1, <4>2
      <3> QED BY <3>2, <3>3, <3>4
    <2> QED BY <2>1, <2>2 DEF StackIs
  <1>9. LastIs(Seen)'
    <2>1. ASSUME NEW b \in 1..Len(blocks), NEW i \in 1..Len(blocks[b])
          PROVE  LastOf(blocks[b][i]) # Len(lexed)
      BY <1>2, <1>4, EndsBefore DEF IsTree
    <2> QED BY <1>1, <1>2, <2>1 DEF LastIs
  <1> QED BY <1>1, <1>2, <1>4, <1>8, <1>9 DEF TreeInv, TreeIsPlaced


\* The bracket that opens a block puts it on the stack.
LEMMA StackOpens ==
    ASSUME ParserInv, NEW ts \in Seq(Words), StackIs(ts, config_stack, bracket_parity),
           bracket_parity = OpenBlocks(ts, Len(ts)),
           NEW stack \in Seq(Nat), stack = <<BlockOf(ts, Len(ts)) + 1>> \o config_stack
    PROVE  StackIs(Append(ts, "START_BLOCK"), stack, bracket_parity + 1)
  <1> DEFINE n == Len(ts)  us == Append(ts, "START_BLOCK")  h == bracket_parity
  <1>1. /\ n \in Nat /\ Len(us) = n + 1 /\ us[n + 1] = "START_BLOCK"
        /\ "START_BLOCK" \in Words
    BY SameBeginning DEF Words
  <1>2. /\ OpenBlocks(us, n + 1) = h + 1 /\ BlockOf(us, n + 1) = BlockOf(ts, n) + 1
        /\ BlockOf(ts, n) \in Nat
    BY <1>1, OneMore
  <1>3. h \in Nat /\ config_stack \in Seq(Nat) /\ Len(config_stack) = h + 1
    BY DEF ParserInv, TypeOK, ParityIsDepth
  <1>4. /\ Len(stack) = h + 2 /\ stack[1] = BlockOf(ts, n) + 1
        /\ \A k \in 1..h+1 : stack[k + 1] = config_stack[k]
    <2> DEFINE new == BlockOf(ts, n) + 1
    <2>1. new \in Nat /\ stack = <<new>> \o config_stack
      BY <1>2
    <2> HIDE DEF new
    <2>2. /\ Len(stack) = h + 2 /\ stack[1] = new
          /\ \A k \in 1..h+1 : stack[k + 1] = config_stack[k]
      BY <2>1, <1>3
    <2> QED BY <2>2 DEF new
  <1> HIDE DEF us
  <1>5. stack[Len(stack)] = 1
    <2>1. h + 1 \in 1..h+1 /\ (h + 1) + 1 = h + 2
      BY <1>3
    <2> QED BY <1>3, <1>4, <2>1 DEF StackIs
  <1>6. ASSUME NEW i \in 1..h+1
        PROVE  \E p \in 1..Len(us) :
                   Encloses(us, i, p, Len(us)) /\ stack[(h + 1) + 1 - i] = BlockOf(us, p)
    <2>1. CASE i = h + 1
      <3>1. Encloses(us, i, n + 1, n + 1)
        BY <1>1, <1>2, <1>3, <2>1 DEF Encloses
      <3>2. stack[(h + 1) + 1 - i] = BlockOf(us, n + 1)
        <4>1. (h + 1) + 1 - i = 1
          BY <1>3, <2>1
        <4> QED BY <1>2, <1>4, <4>1
      <3>3. n + 1 \in 1..Len(us) /\ n + 1 = Len(us)
        BY <1>1
      <3> HIDE DEF n, h
      <3> QED BY <3>1, <3>2, <3>3
    <2>2. CASE i # h + 1
      <3>1. i \in 1..h /\ i \in Nat /\ OpenBlocks(us, n + 1) >= i
        BY <1>2, <1>3, <2>2
      <3>2. PICK p \in 1..n : Encloses(ts, i, p, n) /\ config_stack[h + 1 - i] = BlockOf(ts, p)
        BY <3>1 DEF StackIs
      <3>3. Encloses(us, i, p, n + 1) /\ BlockOf(us, p) = BlockOf(ts, p) /\ p \in 1..Len(us)
        BY <1>1, <3>1, <3>2, StaysOpen DEF us
      <3>4. stack[(h + 1) + 1 - i] = config_stack[h + 1 - i]
        <4> HIDE DEF h
        <4>1. h + 1 - i \in 1..h+1 /\ (h + 1 - i) + 1 = (h + 1) + 1 - i
          BY <1>3, <3>1
        <4> QED BY <1>4, <4>1
      <3> HIDE DEF n, h
      <3> QED BY <1>1, <3>2, <3>3, <3>4
    <2> QED BY <2>1, <2>2
  <1>7. StackIs(us, stack, h + 1)
    BY <1>5, <1>6 DEF StackIs
  <1> QED BY <1>7 DEF us

LEMMA OpenTree ==
    ASSUME ParserInv, TextInv, TreeInv, Parse, OpenBlock
    PROVE  TreeInv'
  <1> DEFINE m == Len(blocks[Top])  new == Len(blocks) + 1  n == Len(Seen)
  <1>1. /\ token_type = "START_BLOCK" /\ token_type \in Words /\ pc = "parse" /\ pc' = "lex"
        /\ last_token_type = "NORMAL" /\ last_token_type' # "NORMAL" /\ UNCHANGED lexed
        /\ bracket_parity' = bracket_parity + 1 /\ config_stack' = <<new>> \o config_stack
    BY DEF Parse, OpenBlock, MayOpen, Continue, Words
  <1>2. /\ Seen \in Seq(Words) /\ lexed = Append(Seen, "START_BLOCK") /\ n \in Nat
        /\ Len(lexed) = n + 1 /\ Seen' = lexed /\ lexed[n + 1] = "START_BLOCK"
        /\ \A k \in 1..n : lexed[k] = Seen[k]
    <2>1. /\ Seen \in Seq(Words) /\ lexed = Append(Seen, "START_BLOCK") /\ n \in Nat
          /\ Len(lexed) = n + 1
      BY <1>1, LookedAt
    <2>2. Seen' = lexed
      BY TakenText
    <2> QED BY <2>1, <2>2
  <1>3. /\ bracket_parity = OpenBlocks(Seen, n)
        /\ Len(blocks) = BlockOf(Seen, n) /\ EachIsPlaced(Seen, blocks) /\ InOrder(blocks)
        /\ WordsAreThere(Seen, blocks) /\ StackIs(Seen, config_stack, bracket_parity) /\ LastIs(Seen)
    BY <1>1 DEF TextInv, Known, TreeInv, IsTree
  <1>4. /\ Top \in 1..Len(blocks) /\ Len(blocks') = new /\ Len(blocks) \in Nat
        /\ m \in Nat /\ m > 0 /\ Len(blocks'[Top]) = m /\ blocks'[new] = <<>>
        /\ \A c \in 1..Len(blocks) : c # Top => blocks'[c] = blocks[c]
        /\ \A i \in 1..m-1 : blocks'[Top][i] = blocks[Top][i]
        /\ blocks'[Top][m].tokens = blocks[Top][m].tokens
        /\ blocks'[Top][m].child = new
    BY OpenedBlocks
  <1>5. \A c \in 1..Len(blocks') : c # new => c \in 1..Len(blocks)
    <2>1. Len(blocks') = new /\ new = Len(blocks) + 1 /\ Len(blocks) \in Nat
      BY <1>4
    <2> QED BY <2>1
  <1>6. ASSUME NEW c \in 1..Len(blocks'), NEW i \in 1..Len(blocks'[c])
        PROVE  /\ c \in 1..Len(blocks) /\ i \in 1..Len(blocks[c])
               /\ blocks'[c][i].tokens = blocks[c][i].tokens
               /\ ~(c = Top /\ i = m) => blocks'[c][i] = blocks[c][i]
    <2>1. c # new
      <3>1. Len(blocks'[new]) = 0
        BY <1>4
      <3> QED BY <3>1
    <2>2. c \in 1..Len(blocks)
      BY <2>1, <1>5
    <2>3. CASE c # Top
      BY <1>4, <2>2, <2>3
    <2>4. CASE c = Top
      <3>1. i \in 1..m
        BY <1>4, <2>4
      <3>2. i = m \/ i \in 1..m-1
        BY <1>4, <3>1
      <3> QED BY <1>4, <2>2, <2>4, <3>1, <3>2
    <2> QED BY <2>3, <2>4
  <1>7. ASSUME NEW c \in 1..Len(blocks)
        PROVE  c \in 1..Len(blocks') /\ Len(blocks'[c]) = Len(blocks[c])
    BY <1>4
  <1>8. EachIsPlaced(lexed, blocks')
    <2> SUFFICES ASSUME NEW c \in 1..Len(blocks'), NEW i \in 1..Len(blocks'[c])
                 PROVE  IsStatementOf(lexed, blocks'[c][i], c)
      BY DEF EachIsPlaced
    <2> DEFINE s == blocks[c][i]  t == blocks'[c][i]
    <2>1. /\ c \in 1..Len(blocks) /\ i \in 1..Len(blocks[c]) /\ t.tokens = s.tokens
          /\ ~(c = Top /\ i = m) => t = s
      BY <1>6
    <2>2. s \in Statement /\ s.tokens # <<>> /\ IsStatementOf(Seen, s, c)
      BY <1>2, <1>3, <2>1, InTree
    <2>3. CASE c = Top /\ i = m
      <3>1. LastOf(s) = n
        BY <1>1, <1>3, <2>3 DEF LastIs
      <3>2. t.child = BlockOf(Seen, n) + 1
        BY <1>3, <1>4, <2>3
      <3> HIDE DEF s, t
      <3>3. IsStatementOf(lexed, t, c)
        BY <1>2, <2>1, <2>2, <3>1, <3>2, StatementOpens
      <3> QED BY <3>3 DEF t
    <2>4. CASE ~(c = Top /\ i = m)
      <3>1. LastOf(s) # n
        BY <1>3, <2>1, <2>4 DEF LastIs
      <3> HIDE DEF s
      <3>2. IsStatementOf(lexed, s, c)
        BY <1>1, <1>2, <2>2, <3>1, StatementStays
      <3> QED BY <2>1, <2>4, <3>2
    <2> QED BY <2>3, <2>4
  <1>9. InOrder(blocks')
    <2> SUFFICES ASSUME NEW c \in 1..Len(blocks'), NEW i \in 2..Len(blocks'[c])
                 PROVE  blocks'[c][i-1].tokens[1] < blocks'[c][i].tokens[1]
      BY DEF InOrder
    <2>1. i \in Int /\ i >= 2 /\ i - 1 \in 1..Len(blocks'[c]) /\ i \in 1..Len(blocks'[c])
      <3>1. c # new
        <4>1. Len(blocks'[new]) = 0
          BY <1>4
        <4> QED BY <4>1
      <3>2. c \in 1..Len(blocks)
        BY <3>1, <1>5
      <3>3. Len(blocks'[c]) \in Nat
        <4>1. blocks \in Seq(Block) /\ blocks[c] \in Block
          BY <3>2 DEF ParserInv, TypeOK, Block, Statement
        <4>2. Len(blocks[c]) \in Nat
          BY <4>1 DEF Block
        <4> QED BY <1>7, <3>2, <4>2
      <3> QED BY <3>3
    <2>2. /\ c \in 1..Len(blocks) /\ i \in 1..Len(blocks[c])
          /\ blocks'[c][i-1].tokens = blocks[c][i-1].tokens
          /\ blocks'[c][i].tokens = blocks[c][i].tokens
      BY <1>6, <2>1
    <2>3. i \in 2..Len(blocks[c])
      BY <2>1, <2>2
    <2> QED BY <1>3, <2>2, <2>3 DEF InOrder
  <1>10. WordsAreThere(lexed, blocks')
    <2> SUFFICES ASSUME NEW k \in 1..Len(lexed), lexed[k] = "NORMAL"
                 PROVE  \E b \in 1..Len(blocks') : \E i \in 1..Len(blocks'[b]) :
                            \E j \in 1..Len(blocks'[b][i].tokens) : blocks'[b][i].tokens[j] = k
      BY DEF WordsAreThere
    <2>1. k \in 1..n /\ Seen[k] = "NORMAL"
      BY <1>2
    <2>2. PICK b \in 1..Len(blocks) : \E i \in 1..Len(blocks[b]) :
              \E j \in 1..Len(blocks[b][i].tokens) : blocks[b][i].tokens[j] = k
      BY <1>3, <2>1 DEF WordsAreThere
    <2>3. PICK i \in 1..Len(blocks[b]) :
              \E j \in 1..Len(blocks[b][i].tokens) : blocks[b][i].tokens[j] = k
      BY <2>2
    <2>4. b \in 1..Len(blocks') /\ i \in 1..Len(blocks'[b])
      BY <1>7
    <2>5. blocks'[b][i].tokens = blocks[b][i].tokens
      BY <1>6, <2>4
    <2> QED BY <2>3, <2>4, <2>5
  <1>11. Len(blocks') = BlockOf(lexed, n + 1)
    <2>1. BlockOf(Append(Seen, "START_BLOCK"), n + 1) = BlockOf(Seen, n) + 1
      BY <1>1, <1>2, OneMore
    <2> QED BY <1>2, <1>3, <1>4, <2>1
  <1>12. StackIs(lexed, config_stack', bracket_parity')
    <2>1. config_stack' \in Seq(Nat)
      BY OpenStep DEF ParserInv, TypeOK
    <2> QED BY <1>1, <1>2, <1>3, <2>1, StackOpens
  <1>13. LastIs(Seen)'
    <2>1. ASSUME NEW c \in 1..Len(blocks'), NEW i \in 1..Len(blocks'[c])
          PROVE  LastOf(blocks'[c][i]) # n + 1
      <3>1. /\ c \in 1..Len(blocks) /\ i \in 1..Len(blocks[c])
            /\ blocks'[c][i].tokens = blocks[c][i].tokens
        BY <1>6
      <3>2. LastOf(blocks[c][i]) \in 1..n
        BY <1>2, <1>3, <3>1, InTree
      <3>3. LastOf(blocks'[c][i]) = LastOf(blocks[c][i])
        BY <3>1 DEF LastOf
      <3> QED BY <1>2, <3>2, <3>3
    <2> QED BY <1>1, <1>2, <2>1 DEF LastIs
  <1>14. IsTree(Seen, blocks)' /\ StackIs(Seen, config_stack, bracket_parity)'
    BY <1>2, <1>8, <1>9, <1>10, <1>11, <1>12 DEF IsTree
  <1> QED BY <1>1, <1>13, <1>14 DEF TreeInv, TreeIsPlaced

\* The text is read to its end, and the tree is that of all of it.
LEMMA AcceptTree ==
    ASSUME TreeInv, Parse, Accept
    PROVE  TreeInv'
  <1>1. /\ pc = "parse" /\ pc' = "done" /\ token_type = "EOF"
        /\ UNCHANGED <<lexed, blocks>>
    BY DEF Parse, Accept, Return
  <1>2. Seen = lexed
    BY <1>1 DEF Seen, Words
  <1>3. IsTree(lexed, blocks)
    BY <1>1, <1>2 DEF TreeInv
  <1> QED BY <1>1, <1>3 DEF TreeInv, TreeIsPlaced

LEMMA NextTree == ParserInv /\ TextInv /\ TreeInv /\ [Next]_vars => TreeInv'
  <1> SUFFICES ASSUME ParserInv, TextInv, TreeInv, [Next]_vars PROVE TreeInv'
    OBVIOUS
  <1>1. CASE Open
    <2>1. pc = "open" /\ pc' \in {"lex", "done"} /\ UNCHANGED <<parser, ret, lexed>> /\ ~ret
      BY <1>1 DEF Open, parser, TreeInv
    <2>2. CASE pc' = "lex"
      <3>1. Seen' = Seen
        BY <2>1, <2>2 DEF Seen
      <3> QED BY <2>1, <2>2, <3>1, TreeStays
    <2>3. CASE pc' = "done"
      BY <2>1, <2>3 DEF TreeInv, TreeIsPlaced
    <2> QED BY <2>1, <2>2, <2>3
  <1>2. CASE ParseToken
    <2>1. pc = "lex" /\ pc' \in {"lex", "parse"} /\ UNCHANGED parser /\ Seen' = Seen
      BY <1>2, TokenIsLexed, SeenStays
    <2> QED BY <2>1, TreeStays
  <1>3. CASE Parse /\ SkipComment
    <2>1. /\ pc = "parse" /\ pc' = "lex" /\ token_type = "COMMENT"
          /\ UNCHANGED <<parser, lexed>>
      BY <1>3 DEF Parse, SkipComment
    <2>2. Seen' = Seen
      BY <2>1 DEF Seen, Words
    <2> QED BY <2>1, <2>2, TreeStays
  <1>4. CASE Parse /\ Reject
    <2>1. pc' = "done" /\ ret' = FALSE
      BY <1>4 DEF Reject, Return
    <2> QED BY <2>1 DEF TreeInv, TreeIsPlaced
  <1>5. CASE Parse /\ ~SkipComment /\ ~Reject
    BY <1>5, WordTree, EndTree, OpenTree, CloseTree, AcceptTree DEF Parse
  <1>6. CASE UNCHANGED vars
    <2>1. UNCHANGED <<pc, token_type, lexed, last_token_type, bracket_parity, config_stack,
                      blocks, ret>>
      BY <1>6 DEF vars, parser
    <2>2. Seen' = Seen
      BY <2>1 DEF Seen
    <2> QED BY <2>1, <2>2 DEF TreeInv, TreeIsPlaced, StackIs, LastIs, Top
  <1> QED BY <1>1, <1>2, <1>3, <1>4, <1>5, <1>6 DEF Next

LEMMA TreeInvariant == Spec => []TreeInv
  <1>1. Init => ParserInv /\ TextInv /\ TreeInv
    BY InitParser, InitText, InitTree
  <1>2. ParserInv /\ TextInv /\ TreeInv /\ [Next]_vars => (ParserInv /\ TextInv /\ TreeInv)'
    BY NextParser, NextText, NextTree
  <1> QED BY <1>1, <1>2, PTL DEF Spec

-----------------------------------------------------------------------------
(* Theorems *)

\* The parser's state keeps its types, for texts of any length.
THEOREM Typing == Spec => []TypeOK
  <1>1. ParserInv => TypeOK
    BY DEF ParserInv
  <1> QED BY <1>1, Invariant, PTL

\* top(), pop() and back() never meet an empty stack or an empty block, for texts of
\* any length (config_parser.cc:182-214).
THEOREM NothingIsEmpty == Spec => []NeverEmpty
  <1>1. ParserInv => NeverEmpty
    <2> SUFFICES ASSUME ParserInv PROVE ParityIsDepth /\ BackExists
      BY DEF NeverEmpty
    <2>1. ParityIsDepth
      BY DEF ParserInv
    <2>2. last_token_type = "NORMAL" => Len(blocks[Top]) > 0
      BY DEF ParserInv
    <2> QED BY <2>1, <2>2 DEF BackExists
  <1> QED BY <1>1, Invariant, PTL

\* Parse returns true if and only if it read the text to its end and its tokens
\* are those of a file, of any length, whatever comments stand between them
\* (config_parser.cc:150-235).
THEOREM FilesAreAccepted == Spec => []AcceptsFiles
  <1>1. TextInv => AcceptsFiles
    BY DEF TextInv
  <1> QED BY <1>1, TextInvariant, PTL

\* Parse stops at a token only if no file begins with the tokens up to it.
THEOREM NothingIsGivenUp == Spec => []GivesUpInTime
  <1>1. TextInv => GivesUpInTime
    BY DEF TextInv
  <1> QED BY <1>1, TextInvariant, PTL

\* The tree of an accepted text of any length has every word of the text, in the
\* statement and the block where it stands, each block of brackets at the statement
\* in front of it, and nothing else (config_parser.cc:172-214).
THEOREM WordsStandInTheirBlocks == Spec => []TreeIsPlaced
  <1>1. TreeInv => TreeIsPlaced
    BY DEF TreeInv
  <1> QED BY <1>1, TreeInvariant, PTL

=============================================================================
