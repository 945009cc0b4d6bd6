---------------------------- MODULE StringsProofs ----------------------------
(***************************************************************************)
(* Theorems about the helpers for strings, for any strings: the longest    *)
(* key that a string begins with (mapHasPrefix), the strings that split()  *)
(* cuts into two, and the bytes that base64_decode() gives.  Induction     *)
(* over a string is by its shortest part for which a claim is wrong.       *)
(***************************************************************************)
EXTENDS Strings, FiniteSetTheorems, SequenceTheorems, WellFoundedInduction, TLAPS

\* The least-number principle, for a set instead of a predicate.
LEMMA Least ==
    ASSUME NEW T, T \subseteq Nat, T # {}
    PROVE  \E m \in T : \A k \in T : m <= k
  <1> DEFINE R == OpToRel(<, Nat)
  <1>1. IsWellFoundedOn(R, Nat)
    BY NatLessThanWellFounded
  <1>2. \A x, y \in Nat : y < x => <<y, x>> \in R
    BY DEF OpToRel
  <1> HIDE DEF R
  <1>3. \E x \in T : \A y \in T : ~(<<y, x>> \in R)
    BY <1>1, WFMin
  <1>4. PICK x \in T : \A y \in T : ~(<<y, x>> \in R)
    BY <1>3
  <1>5. ASSUME NEW k \in T PROVE x <= k
    <2>1. k \in Nat /\ x \in Nat
      OBVIOUS
    <2>2. ~(k < x)
      BY <1>2, <1>4, <2>1
    <2> QED BY <2>1, <2>2
  <1> QED BY <1>5

\* Max and Min of numbers below a bound are what their names say.
LEMMA MaxIn ==
    ASSUME NEW n \in Nat, NEW S, S \subseteq 0..n, S # {}
    PROVE  Max(S) \in S /\ \A y \in S : y <= Max(S)
  <1> DEFINE T == {n - x : x \in S}
  <1>1. T \subseteq Nat /\ T # {}
    <2>1. \A x \in S : n - x \in Nat
      OBVIOUS
    <2>2. T \subseteq Nat
      BY <2>1
    <2>3. PICK x \in S : TRUE
      OBVIOUS
    <2>4. n - x \in T
      BY <2>3
    <2> HIDE DEF T
    <2> QED BY <2>2, <2>4
  <1>2. PICK m \in T : \A k \in T : m <= k
    <2> HIDE DEF T
    <2> QED BY <1>1, Least
  <1>3. PICK x \in S : m = n - x
    OBVIOUS
  <1>4. \A y \in S : n - x <= n - y
    BY <1>2, <1>3
  <1>5. \E z \in S : \A y \in S : z >= y
    BY <1>3, <1>4
  <1>6. Max(S) \in S /\ \A y \in S : Max(S) >= y
    BY <1>5 DEF Max
  <1> QED BY <1>6

LEMMA MinIn ==
    ASSUME NEW S, S \subseteq Nat, S # {}
    PROVE  Min(S) \in S /\ \A y \in S : Min(S) <= y
  <1>1. \E m \in S : \A k \in S : m <= k
    BY Least
  <1> QED BY <1>1 DEF Min

-----------------------------------------------------------------------------
(* The search for a prefix *)

\* The ends of the pieces of s that are keys, up to n.
Ends(keys, s, n) == {k \in 1..n : SubSeq(s, 1, k) \in keys}
Found(keys, s, n) == IF Ends(keys, s, n) = {} THEN <<>> ELSE SubSeq(s, 1, Max(Ends(keys, s, n)))

LEMMA FoundStep ==
    ASSUME NEW keys, NEW s, NEW n \in Nat \ {0}
    PROVE  Found(keys, s, n) = IF SubSeq(s, 1, n) \in keys THEN SubSeq(s, 1, n)
                               ELSE Found(keys, s, n - 1)
  <1>1. CASE SubSeq(s, 1, n) \in keys
    <2>1. n \in Ends(keys, s, n) /\ Ends(keys, s, n) \subseteq 0..n
      BY <1>1 DEF Ends
    <2>2. Max(Ends(keys, s, n)) = n
      BY <2>1, MaxIn
    <2> QED BY <1>1, <2>1, <2>2 DEF Found
  <1>2. CASE SubSeq(s, 1, n) \notin keys
    <2>1. Ends(keys, s, n) = Ends(keys, s, n - 1)
      BY <1>2 DEF Ends
    <2> QED BY <1>2, <2>1 DEF Found
  <1> QED BY <1>1, <1>2

\* mapHasPrefix (utils.h:29-45) gives the piece that ends last.
LEMMA PrefixFound ==
    ASSUME NEW keys, NEW s, Len(s) \in Nat
    PROVE  MapHasPrefix(keys, s) = Found(keys, s, Len(s))
  <1> DEFINE Is(m) == m = [n \in 0..Len(s) |->
                              IF n = 0 THEN <<>>
                              ELSE IF SubSeq(s, 1, n) \in keys THEN SubSeq(s, 1, n) ELSE m[n - 1]]
             w == [n \in 0..Len(s) |-> Found(keys, s, n)]
             match == CHOOSE m : Is(m)
  <1>1. Is(w)
    <2>1. ASSUME NEW n \in 0..Len(s)
          PROVE  w[n] = IF n = 0 THEN <<>>
                        ELSE IF SubSeq(s, 1, n) \in keys THEN SubSeq(s, 1, n) ELSE w[n - 1]
      <3>1. CASE n = 0
        <4>1. Ends(keys, s, 0) = {}
          BY DEF Ends
        <4> QED BY <3>1, <4>1 DEF Found
      <3>2. CASE n # 0
        <4>1. w[n] = Found(keys, s, n) /\ w[n - 1] = Found(keys, s, n - 1)
          BY <3>2
        <4> QED BY <3>2, <4>1, FoundStep
      <3> QED BY <3>1, <3>2
    <2> QED BY <2>1
  <1>2. Is(match)
    <2> HIDE DEF w, Is
    <2> QED BY <1>1
  <1>3. MapHasPrefix(keys, s) = match[Len(s)]
    BY DEF MapHasPrefix
  <1> HIDE DEF match
  <1>4. \A n \in 0..Len(s) : match[n] = IF n = 0 THEN <<>>
            ELSE IF SubSeq(s, 1, n) \in keys THEN SubSeq(s, 1, n) ELSE match[n - 1]
    BY <1>2
  <1> DEFINE wrong == {n \in 0..Len(s) : match[n] # Found(keys, s, n)}
  <1>5. wrong = {}
    <2> SUFFICES ASSUME wrong # {} PROVE FALSE
      OBVIOUS
    <2>0. wrong \subseteq Nat
      OBVIOUS
    <2>1. PICK n \in wrong : \A k \in wrong : n <= k
      <3> HIDE DEF wrong
      <3> QED BY <2>0, Least
    <2>2. n # 0
      <3>1. Ends(keys, s, 0) = {}
        BY DEF Ends
      <3> QED BY <1>4, <2>1, <3>1 DEF Found
    <2>3. match[n - 1] = Found(keys, s, n - 1) /\ n \in Nat \ {0}
      BY <2>1, <2>2
    <2>4. n \in 0..Len(s) /\ match[n] # Found(keys, s, n)
      OBVIOUS
    <2>5. Found(keys, s, n) = IF SubSeq(s, 1, n) \in keys THEN SubSeq(s, 1, n)
                              ELSE Found(keys, s, n - 1)
      BY <2>3, FoundStep
    <2> QED BY <1>4, <2>2, <2>3, <2>4, <2>5
  <1> QED BY <1>3, <1>5

\* What is indexed like a sequence is one.
LEMMA SequenceIsSeq == ASSUME NEW s, IsSequence(s) PROVE \E T : s \in Seq(T)
  <1> DEFINE T == {s[k] : k \in 1..Len(s)}
  <1>1. s \in [1..Len(s) -> T] /\ Len(s) \in Nat
    BY DEF IsSequence
  <1>2. s \in Seq(T)
    <2> HIDE DEF T
    <2> QED BY <1>1, IsASeq
  <1> QED BY <1>2

\* What is found is a key that s begins with, or nothing.
LEMMA PrefixIsPrefix ==
    ASSUME NEW keys, NEW s, IsSequence(s)
    PROVE  LET p == MapHasPrefix(keys, s) IN
           /\ IsPrefix(p, s)
           /\ p # <<>> => p \in keys
  <1> DEFINE p == MapHasPrefix(keys, s)
  <1>1. PICK T : s \in Seq(T)
    BY SequenceIsSeq
  <1>2. Len(s) \in Nat /\ p = Found(keys, s, Len(s))
    BY PrefixFound DEF IsSequence
  <1>3. CASE Ends(keys, s, Len(s)) = {}
    <2>1. p = <<>>
      BY <1>2, <1>3 DEF Found
    <2>2. IsPrefix(<<>>, s)
      BY <1>1, <1>2, SubSeqEmpty DEF IsPrefix
    <2> QED BY <2>1, <2>2
  <1>4. CASE Ends(keys, s, Len(s)) # {}
    <2> DEFINE m == Max(Ends(keys, s, Len(s)))
    <2>1. m \in Ends(keys, s, Len(s))
      BY <1>2, <1>4, MaxIn DEF Ends
    <2>2. p = SubSeq(s, 1, m) /\ m \in 1..Len(s) /\ p \in keys
      BY <1>2, <1>4, <2>1 DEF Found, Ends
    <2> HIDE DEF m, p
    <2>3. Len(p) = m /\ p \in Seq(T)
      BY <1>1, <2>2, SubSeqProperties
    <2>4. SubSeq(p, 1, Len(p)) = p
      BY <2>3, SubSeqFull
    <2>5. IsPrefix(p, s)
      BY <1>2, <2>2, <2>3, <2>4 DEF IsPrefix
    <2> QED BY <2>2, <2>5 DEF p
  <1> QED BY <1>3, <1>4

\* Of several keys that s begins with, mapHasPrefix (utils.h:29-45) finds the
\* longest, as those who route by it expect (webserver.cc:13-21,
\* authenticate.cc:7-9).
THEOREM PrefixIsLongest ==
    ASSUME NEW keys, \A x \in keys : IsSequence(x), NEW s, IsSequence(s)
    PROVE  MapHasPrefix(keys, s) = Longest(keys, s)
  <1> DEFINE C == {x \in keys : IsPrefix(x, s)}
             E == Ends(keys, s, Len(s))
  <1>1. PICK T : s \in Seq(T)
    BY SequenceIsSeq
  <1>2. Len(s) \in Nat /\ MapHasPrefix(keys, s) = Found(keys, s, Len(s))
    BY PrefixFound DEF IsSequence
  <1>3. ASSUME NEW x \in C
        PROVE  /\ Len(x) \in 0..Len(s) /\ x = SubSeq(s, 1, Len(x)) /\ x \in keys
               /\ Len(x) # 0 => Len(x) \in E
    <2>1. PICK S : x \in Seq(S)
      BY SequenceIsSeq
    <2>2. SubSeq(x, 1, Len(x)) = x /\ Len(x) \in Nat
      BY <2>1, SubSeqFull
    <2>3. Len(x) \in 0..Len(s) /\ SubSeq(s, 1, Len(x)) = x
      BY <1>2, <2>2 DEF IsPrefix
    <2>4. SubSeq(s, 1, Len(x)) \in keys
      BY <2>3
    <2>5. Len(x) # 0 => Len(x) \in 1..Len(s)
      BY <1>2, <2>3
    <2> QED BY <2>3, <2>4, <2>5 DEF Ends
  <1>4. ASSUME NEW m \in E
        PROVE  SubSeq(s, 1, m) \in C /\ Len(SubSeq(s, 1, m)) = m
    <2> DEFINE p == SubSeq(s, 1, m)
    <2>1. m \in 1..Len(s) /\ p \in keys
      BY DEF Ends
    <2>2. Len(p) = m /\ p \in Seq(T)
      BY <1>1, <1>2, <2>1, SubSeqProperties
    <2>3. SubSeq(p, 1, Len(p)) = p
      <3> HIDE DEF p
      <3> QED BY <2>2, SubSeqFull
    <2>4. IsPrefix(p, s)
      BY <1>2, <2>1, <2>2, <2>3 DEF IsPrefix
    <2> QED BY <2>1, <2>2, <2>4
  <1>5. CASE E = {}
    <2>1. \A x \in C : x = <<>>
      <3> SUFFICES ASSUME NEW x \in C, Len(x) # 0 PROVE FALSE
        BY <1>1, <1>2, <1>3, SubSeqEmpty
      <3>1. Len(x) \in E
        BY <1>3
      <3> QED BY <1>5, <3>1
    <2>2. Longest(keys, s) = <<>>
      <3>1. CASE C = {}
        BY <3>1 DEF Longest
      <3>2. CASE C # {}
        <4>1. C = {<<>>}
          BY <2>1, <3>2
        <4>2. Len(<<>>) <= Len(<<>>)
          OBVIOUS
        <4> QED BY <4>1, <4>2 DEF Longest
      <3> QED BY <3>1, <3>2
    <2> QED BY <1>2, <1>5, <2>2 DEF Found
  <1>6. CASE E # {}
    <2> DEFINE m == Max(E)  p == SubSeq(s, 1, m)
    <2>1. m \in E /\ \A k \in E : k <= m
      <3>1. E \subseteq 0..Len(s) /\ Len(s) \in Nat
        BY <1>2 DEF Ends
      <3> HIDE DEF E
      <3> QED BY <1>6, <3>1, MaxIn
    <2>2. p \in C /\ Len(p) = m
      BY <1>4, <2>1
    <2>3. \A y \in C : Len(y) <= m
      <3> SUFFICES ASSUME NEW y \in C, Len(y) # 0 PROVE Len(y) <= m
        BY <1>2, <1>3, <2>1 DEF Ends
      <3>1. Len(y) \in E
        BY <1>3
      <3> QED BY <2>1, <3>1
    <2> HIDE DEF m, p
    <2> DEFINE x == Longest(keys, s)
    <2>4. x = CHOOSE z \in C : \A y \in C : Len(y) <= Len(z)
      BY <2>2 DEF Longest
    <2>5. x \in C /\ \A y \in C : Len(y) <= Len(x)
      BY <2>2, <2>3, <2>4
    <2> HIDE DEF x
    <2>6. Len(x) = m
      BY <1>3, <2>1, <2>2, <2>3, <2>5
    <2>7. x = p
      BY <1>3, <2>5, <2>6 DEF p
    <2> QED BY <1>2, <1>6, <2>7 DEF Found, x, p, m
  <1> QED BY <1>5, <1>6

-----------------------------------------------------------------------------
(* Folds *)

\* The numbers up to k, and the last of them.
LEMMA UpTo ==
    ASSUME NEW k \in Nat \ {0}
    PROVE  1..k # {} /\ Max(1..k) = k /\ (1..k) \ {k} = 1..k-1
  <1>1. k \in 1..k /\ 1..k \subseteq 0..k
    OBVIOUS
  <1>2. Max(1..k) \in 1..k /\ k <= Max(1..k)
    <2>1. 1..k # {} /\ k \in Nat
      BY <1>1
    <2> QED BY <1>1, <2>1, MaxIn
  <1>3. Max(1..k) = k
    BY <1>2
  <1> QED BY <1>1, <1>3

\* iter is what FoldLeft reads for this step, on the first n places of s.
Iterates(iter, step, base, n, s) ==
    \A S \in SUBSET (1..n) :
        iter[S] = IF S = {} THEN base ELSE step[<<iter[S \ {Max(S)}], s[Max(S)]>>]

\* There is such a function, for any step.
LEMMA FoldExists ==
    ASSUME NEW A, NEW T, NEW step, step \in [A \X T -> A], NEW base \in A, NEW n \in Nat,
           NEW s, s \in [1..n -> T]
    PROVE  \E iter \in [SUBSET (1..n) -> A] : Iterates(iter, step, base, n, s)
  <1> DEFINE Steps(iter, m) ==
                 \A S \in SUBSET (1..m) :
                     iter[S] = IF S = {} THEN base ELSE step[<<iter[S \ {Max(S)}], s[Max(S)]>>]
             wrong == {m \in 0..n : ~\E iter \in [SUBSET (1..m) -> A] : Steps(iter, m)}
  <1>0. ASSUME NEW m \in 0..n, m \notin wrong
        PROVE  \E iter \in [SUBSET (1..m) -> A] : Steps(iter, m)
    BY <1>0
  <1>1. wrong = {}
    <2> SUFFICES ASSUME wrong # {} PROVE FALSE
      OBVIOUS
    <2>1. wrong \subseteq Nat
      OBVIOUS
    <2>2. PICK m \in wrong : \A k \in wrong : m <= k
      <3> HIDE DEF wrong
      <3> QED BY <2>1, Least
    <2>3. m \in 0..n /\ ~\E iter \in [SUBSET (1..m) -> A] : Steps(iter, m)
      OBVIOUS
    <2>4. CASE m = 0
      <3> DEFINE iter == [S \in SUBSET (1..m) |-> base]
      <3>1. \A S \in SUBSET (1..m) : S = {}
        BY <2>4
      <3>2. iter \in [SUBSET (1..m) -> A] /\ Steps(iter, m)
        BY <3>1
      <3> QED BY <2>3, <3>2
    <2>5. CASE m # 0
      <3>1. m - 1 \in 0..n /\ m \in 1..n /\ m \in Nat \ {0}
        BY <2>3, <2>5
      <3>0. m - 1 \notin wrong
        <4> HIDE DEF wrong
        <4> QED BY <2>2, <3>1
      <3>2. PICK iter \in [SUBSET (1..(m - 1)) -> A] : Steps(iter, m - 1)
        <4> HIDE DEF wrong
        <4> QED BY <1>0, <3>0, <3>1
      <3> DEFINE next == [S \in SUBSET (1..m) |->
                              IF m \in S THEN step[<<iter[S \ {m}], s[m]>>] ELSE iter[S]]
      <3>3. ASSUME NEW S \in SUBSET (1..m)
            PROVE  /\ S \ {m} \in SUBSET (1..(m - 1))
                   /\ m \notin S => S \in SUBSET (1..(m - 1))
        BY <3>1
      <3>4. next \in [SUBSET (1..m) -> A]
        <4> SUFFICES ASSUME NEW S \in SUBSET (1..m) PROVE next[S] \in A
          OBVIOUS
        <4>1. CASE m \in S
          <5>1. iter[S \ {m}] \in A /\ s[m] \in T
            BY <3>1, <3>3
          <5> QED BY <4>1, <5>1
        <4>2. CASE m \notin S
          BY <3>3, <4>2
        <4> QED BY <4>1, <4>2
      <3>5. ASSUME NEW S \in SUBSET (1..m)
            PROVE  next[S] = IF S = {} THEN base ELSE step[<<next[S \ {Max(S)}], s[Max(S)]>>]
        <4>1. CASE S = {}
          BY <3>2, <3>3, <4>1
        <4>2. S # {} => Max(S) \in S /\ \A y \in S : y <= Max(S)
          <5>1. S \subseteq 0..m /\ m \in Nat
            BY <3>1
          <5> QED BY <5>1, MaxIn
        <4>3. CASE S # {} /\ m \in S
          <5>1. Max(S) = m
            <6>1. Max(S) \in 1..m /\ m <= Max(S)
              BY <4>2, <4>3
            <6> QED BY <3>1, <6>1
          <5>2. next[S \ {m}] = iter[S \ {m}]
            <6>1. S \ {m} \in SUBSET (1..m) /\ m \notin S \ {m}
              OBVIOUS
            <6> QED BY <6>1
          <5> QED BY <4>3, <5>1, <5>2
        <4>4. CASE S # {} /\ m \notin S
          <5>1. S \ {Max(S)} \in SUBSET (1..m) /\ m \notin S \ {Max(S)}
            BY <4>4
          <5>2. next[S \ {Max(S)}] = iter[S \ {Max(S)}] /\ next[S] = iter[S]
            BY <4>4, <5>1
          <5> HIDE DEF next
          <5> QED BY <3>2, <3>3, <4>4, <5>2
        <4> QED BY <4>1, <4>3, <4>4
      <3> QED BY <2>3, <3>4, <3>5
    <2> QED BY <2>4, <2>5
  <1> HIDE DEF wrong
  <1>2. n \in 0..n /\ n \notin wrong
    BY <1>1
  <1> QED BY <1>0, <1>2 DEF Iterates

-----------------------------------------------------------------------------
(* split *)

\* The states that split() may be in: there is always a piece it adds to.
PieceSeqs(T) == Seq(Seq(T)) \ {<<>>}

\* One character keeps split() in such a state.
LEMMA AddToPiecesIs ==
    ASSUME NEW T, NEW v \in PieceSeqs(T), NEW c \in T, NEW delim
    PROVE  AddToPieces(v, c, delim) \in PieceSeqs(T)
  <1>1. v \in Seq(Seq(T)) /\ Len(v) \in Nat /\ Len(v) \in 1..Len(v) /\ v[Len(v)] \in Seq(T)
    BY DEF PieceSeqs
  <1>2. CASE c = delim
    <2>1. Append(v, <<>>) \in Seq(Seq(T)) /\ Len(Append(v, <<>>)) = Len(v) + 1
      BY <1>1
    <2>2. Append(v, <<>>) # <<>>
      BY <1>1, <2>1
    <2> QED BY <1>2, <2>1, <2>2 DEF AddToPieces, PieceSeqs
  <1>3. CASE c # delim
    <2> DEFINE w == [v EXCEPT ![Len(v)] = Append(@, c)]
    <2>1. Append(v[Len(v)], c) \in Seq(T)
      BY <1>1
    <2>2. w \in Seq(Seq(T)) /\ Len(w) = Len(v)
      BY <1>1, <2>1
    <2>3. w # <<>>
      BY <1>1, <2>2
    <2> QED BY <1>3, <2>2, <2>3 DEF AddToPieces, PieceSeqs
  <1> QED BY <1>2, <1>3

\* The states that split() goes through.
LEMMA SplitRuns ==
    ASSUME NEW T, NEW s \in Seq(T), NEW delim
    PROVE  \E g : /\ g[0] = << <<>> >>
                  /\ \A k \in 1..Len(s) : g[k] = AddToPieces(g[k - 1], s[k], delim)
                  /\ Split(s, delim) = LET v == g[Len(s)] IN
                                       IF Last(v) = <<>> THEN Front(v) ELSE v
  <1> DEFINE D == DOMAIN s
             Is(f) == f = [S \in SUBSET D |->
                  IF S = {} THEN << <<>> >>
                  ELSE LET x == Max(S) IN AddToPieces(f[S \ {x}], s[x], delim)]
             f == CHOOSE f : Is(f)
             step == [p \in PieceSeqs(T) \X T |-> AddToPieces(p[1], p[2], delim)]
  <1>1. Len(s) \in Nat /\ s \in [1..Len(s) -> T] /\ D = 1..Len(s)
    BY LenProperties
  <1>2. Split(s, delim) = LET v == f[D] IN IF Last(v) = <<>> THEN Front(v) ELSE v
    BY DEF Split, FoldLeft, MapThenFoldSet
  <1>3. \E w : Is(w)
    <2>1. step \in [PieceSeqs(T) \X T -> PieceSeqs(T)]
      BY AddToPiecesIs
    <2>2. << <<>> >> \in PieceSeqs(T)
      BY DEF PieceSeqs
    <2> HIDE DEF step
    <2>3. PICK w \in [SUBSET (1..Len(s)) -> PieceSeqs(T)] :
                 Iterates(w, step, << <<>> >>, Len(s), s)
      BY <1>1, <2>1, <2>2, FoldExists
    <2>0. \A S \in SUBSET (1..Len(s)) :
              w[S] = IF S = {} THEN << <<>> >> ELSE step[<<w[S \ {Max(S)}], s[Max(S)]>>]
      BY <2>3 DEF Iterates
    <2>4. ASSUME NEW S \in SUBSET D, S # {}
          PROVE  w[S] = AddToPieces(w[S \ {Max(S)}], s[Max(S)], delim)
      <3>1. Max(S) \in 1..Len(s)
        <4>1. S \subseteq 0..Len(s)
          BY <1>1
        <4> QED BY <1>1, <2>4, <4>1, MaxIn
      <3>2. w[S \ {Max(S)}] \in PieceSeqs(T) /\ s[Max(S)] \in T
        BY <1>1, <2>3, <3>1
      <3>3. w[S] = step[<<w[S \ {Max(S)}], s[Max(S)]>>]
        BY <1>1, <2>0, <2>4
      <3> QED BY <3>2, <3>3 DEF step
    <2>5. w = [S \in SUBSET D |-> w[S]] /\ w[{}] = << <<>> >>
      BY <1>1, <2>0, <2>3
    <2> QED BY <2>4, <2>5
  <1>4. Is(f)
    <2> HIDE DEF Is
    <2> QED BY <1>3
  <1> HIDE DEF f
  <1>5. f[{}] = << <<>> >>
    BY <1>4
  <1>6. ASSUME NEW S \in SUBSET D, S # {}
        PROVE  f[S] = AddToPieces(f[S \ {Max(S)}], s[Max(S)], delim)
    BY <1>4, <1>6
  <1> HIDE DEF Is
  <1> DEFINE g == [k \in 0..Len(s) |-> f[1..k]]
  <1>7. g[0] = << <<>> >> /\ g[Len(s)] = f[D]
    <2>1. 1..0 = {}
      OBVIOUS
    <2> QED BY <1>1, <1>5, <2>1
  <1>8. ASSUME NEW k \in 1..Len(s) PROVE g[k] = AddToPieces(g[k - 1], s[k], delim)
    <2>1. k \in Nat \ {0} /\ 1..k \in SUBSET D /\ g[k] = f[1..k] /\ g[k - 1] = f[1..(k - 1)]
      BY <1>1
    <2>2. 1..k # {} /\ Max(1..k) = k /\ (1..k) \ {k} = 1..(k - 1)
      BY <2>1, UpTo
    <2> QED BY <1>6, <2>1, <2>2
  <1> HIDE DEF g
  <1> QED BY <1>2, <1>7, <1>8

\* v are the pieces of the first n of s between those that are delim; piece j ends
\* in front of e[j].
Pieces(s, n, delim, v, e) ==
    /\ Len(v) \in Nat \ {0}
    /\ \A j \in 0..Len(v) : e[j] \in 0..n+1
    /\ e[0] = 0 /\ e[Len(v)] = n + 1
    /\ \A j \in 1..Len(v) :
           /\ e[j - 1] < e[j] /\ v[j] = SubSeq(s, e[j - 1] + 1, e[j] - 1)
           /\ \A x \in e[j - 1]+1..e[j]-1 : s[x] # delim
           /\ j # Len(v) => s[e[j]] = delim

\* One character more in the last piece, or one piece more.
LEMMA PiecesStep ==
    ASSUME NEW T, NEW s \in Seq(T), NEW n, n \in 0..Len(s)-1, NEW delim,
           NEW v, v \in PieceSeqs(T), NEW e, Pieces(s, n, delim, v, e)
    PROVE  \E f : Pieces(s, n + 1, delim, AddToPieces(v, s[n + 1], delim), f)
  <1> DEFINE L == Len(v)  c == s[n + 1]  w == AddToPieces(v, c, delim)
  <1>0. L \in Nat \ {0} /\ n \in Nat /\ v \in Seq(Seq(T))
    BY DEF Pieces, PieceSeqs
  <1>1. CASE c = delim
    <2> DEFINE f == [j \in 0..L+1 |-> IF j <= L THEN e[j] ELSE n + 2]
    <2>1. w = Append(v, <<>>) /\ Len(w) = L + 1 /\ w[L + 1] = <<>> /\ \A j \in 1..L : w[j] = v[j]
      BY <1>0, <1>1, AppendProperties DEF AddToPieces
    <2>2. (\A j \in 0..L : f[j] = e[j]) /\ f[L + 1] = n + 2
      BY <1>0
    <2> HIDE DEF w, f
    <2>3. Len(w) \in Nat \ {0}
      BY <1>0, <2>1
    <2>4. \A j \in 0..Len(w) : f[j] \in 0..n+1+1
      <3>1. \A j \in 0..Len(w) : j \in 0..L \/ j = L + 1
        BY <1>0, <2>1
      <3>2. \A j \in 0..L : e[j] \in 0..n+1+1
        BY <1>0 DEF Pieces
      <3> HIDE DEF L
      <3> QED BY <1>0, <2>2, <3>1, <3>2
    <2>5. f[0] = 0 /\ f[Len(w)] = n + 1 + 1
      BY <1>0, <2>1, <2>2 DEF Pieces
    <2>6. ASSUME NEW j \in 1..L
          PROVE  /\ f[j - 1] < f[j] /\ w[j] = SubSeq(s, f[j - 1] + 1, f[j] - 1)
                 /\ \A x \in f[j - 1]+1..f[j]-1 : s[x] # delim
                 /\ j # Len(w) => s[f[j]] = delim
      <3>1. f[j] = e[j] /\ f[j - 1] = e[j - 1] /\ w[j] = v[j]
        <4>1. j \in 0..L /\ j - 1 \in 0..L
          BY <1>0
        <4> QED BY <2>1, <2>2, <4>1
      <3>2. CASE j = L
        <4>1. s[f[j]] = delim
          BY <1>1, <3>1, <3>2 DEF Pieces
        <4> QED BY <3>1, <4>1 DEF Pieces
      <3>3. CASE j # L
        BY <3>1, <3>3 DEF Pieces
      <3> QED BY <3>2, <3>3
    <2>7. /\ f[L] < f[L + 1] /\ w[L + 1] = SubSeq(s, f[L] + 1, f[L + 1] - 1)
          /\ \A x \in f[L]+1..f[L + 1]-1 : s[x] # delim
      <3>1. f[L] = n + 1 /\ f[L + 1] = n + 2
        BY <1>0, <2>2 DEF Pieces
      <3>2. SubSeq(s, n + 2, n + 1) = <<>>
        BY <1>0, SubSeqEmpty
      <3> QED BY <1>0, <2>1, <3>1, <3>2
    <2>8. \A j \in 1..Len(w) : j \in 1..L \/ (j = L + 1 /\ j - 1 = L /\ j = Len(w))
      BY <1>0, <2>1
    <2>9. Pieces(s, n + 1, delim, w, f)
      BY <2>3, <2>4, <2>5, <2>6, <2>7, <2>8 DEF Pieces
    <2> QED BY <2>9 DEF w
  <1>2. CASE c # delim
    <2> DEFINE f == [j \in 0..L |-> IF j < L THEN e[j] ELSE n + 2]
    <2>1. /\ v[L] \in Seq(T) /\ c \in T
          /\ w = [v EXCEPT ![L] = Append(v[L], c)] /\ Append(v[L], c) \in Seq(T)
      <3>1. v[L] \in Seq(T) /\ c \in T
        BY <1>0
      <3> QED BY <1>2, <3>1 DEF AddToPieces
    <2>2. /\ Len(w) = L /\ w[L] = Append(v[L], c)
          /\ \A j \in 1..L-1 : w[j] = v[j]
      BY <1>0, <2>1
    <2>3. (\A j \in 0..L-1 : f[j] = e[j]) /\ f[L] = n + 2
      BY <1>0
    <2> HIDE DEF w, f
    <2>4. \A j \in 0..Len(w) : f[j] \in 0..n+1+1
      <3>1. \A j \in 0..Len(w) : j \in 0..L-1 \/ j = L
        BY <1>0, <2>2
      <3>2. \A j \in 0..L-1 : e[j] \in 0..n+1+1
        BY <1>0 DEF Pieces
      <3>3. n + 2 \in 0..n+1+1
        BY <1>0
      <3> HIDE DEF L
      <3> SUFFICES ASSUME NEW j \in 0..Len(w) PROVE f[j] \in 0..n+1+1
        OBVIOUS
      <3>4. CASE j = L
        BY <2>3, <3>3, <3>4
      <3>5. CASE j \in 0..L-1
        BY <2>3, <3>2, <3>5
      <3> QED BY <3>1, <3>4, <3>5
    <2>5. f[0] = 0 /\ f[Len(w)] = n + 1 + 1
      BY <1>0, <2>2, <2>3 DEF Pieces
    <2>6. ASSUME NEW j \in 1..L-1
          PROVE  /\ f[j - 1] < f[j] /\ w[j] = SubSeq(s, f[j - 1] + 1, f[j] - 1)
                 /\ \A x \in f[j - 1]+1..f[j]-1 : s[x] # delim
                 /\ s[f[j]] = delim
      <3>1. f[j] = e[j] /\ f[j - 1] = e[j - 1] /\ w[j] = v[j]
        <4>1. j \in 0..L-1 /\ j - 1 \in 0..L-1
          BY <1>0
        <4> QED BY <2>2, <2>3, <4>1
      <3>2. j \in 1..L /\ j # L
        BY <1>0
      <3> QED BY <3>1, <3>2 DEF Pieces
    <2>7. /\ f[L - 1] < f[L] /\ w[L] = SubSeq(s, f[L - 1] + 1, f[L] - 1)
          /\ \A x \in f[L - 1]+1..f[L]-1 : s[x] # delim
      <3> DEFINE b == e[L - 1]
      <3>1. f[L] = n + 2 /\ f[L - 1] = b
        BY <1>0, <2>3
      <3>2. /\ b \in 0..n /\ v[L] = SubSeq(s, b + 1, n)
            /\ \A x \in b+1..n : s[x] # delim
        <4>1. L \in 1..L /\ L \in 0..L /\ L - 1 \in 0..L /\ e[L] = n + 1
          BY <1>0 DEF Pieces
        <4>2. b \in 0..n+1 /\ b < e[L] /\ v[L] = SubSeq(s, b + 1, e[L] - 1)
              /\ \A x \in b+1..e[L]-1 : s[x] # delim
          BY <4>1 DEF Pieces
        <4> HIDE DEF b
        <4>3. b \in 0..n /\ e[L] - 1 = n
          BY <1>0, <4>1, <4>2
        <4> QED BY <4>2, <4>3
      <3> HIDE DEF b
      <3>3. Append(SubSeq(s, b + 1, n), c) = SubSeq(s, b + 1, n + 1)
        <4>1. b + 1 \in 1..Len(s) /\ n + 1 \in b+1..Len(s) /\ n + 1 - 1 = n /\ Len(s) \in Nat
          BY <1>0, <3>2
        <4>2. SubSeq(s, b + 1, n + 1) = SubSeq(s, b + 1, n) \o <<c>>
          <5>1. PICK lo \in 1..Len(s), hi \in Int : hi \in lo..Len(s) /\ lo = b + 1 /\ hi = n + 1 /\ hi - 1 = n
            BY <4>1
          <5>2. hi \in lo..Len(s) => SubSeq(s, lo, hi) = SubSeq(s, lo, hi - 1) \o <<s[hi]>>
            BY SubSeqRecursiveSecond
          <5> QED BY <5>1, <5>2
        <4>3. SubSeq(s, b + 1, n) \in Seq(T)
          BY <2>1, <3>2
        <4> QED BY <2>1, <4>2, <4>3, AppendIsConcat
      <3>4. \A x \in b+1..n+1 : s[x] # delim
        BY <1>0, <1>2, <3>2
      <3>5. n + 2 - 1 = n + 1 /\ b < n + 2
        BY <1>0, <3>2
      <3>6. w[L] = SubSeq(s, b + 1, n + 1)
        BY <2>2, <3>2, <3>3
      <3> QED BY <3>1, <3>4, <3>5, <3>6
    <2>8. \A j \in 1..Len(w) : j \in 1..L-1 \/ (j = L /\ j = Len(w))
      BY <1>0, <2>2
    <2>0. Len(w) \in Nat \ {0}
      BY <1>0, <2>2
    <2>9. Pieces(s, n + 1, delim, w, f)
      BY <2>0, <2>4, <2>5, <2>6, <2>7, <2>8 DEF Pieces
    <2> QED BY <2>9 DEF w
  <1> QED BY <1>1, <1>2

\* What split() has when it has read all of s (utils.h:6-15): the pieces of s.
LEMMA SplitIs ==
    ASSUME NEW T, NEW s \in Seq(T), NEW delim
    PROVE  \E v \in PieceSeqs(T) : \E e :
               /\ Pieces(s, Len(s), delim, v, e)
               /\ Split(s, delim) = IF Last(v) = <<>> THEN Front(v) ELSE v
  <1>1. PICK g : /\ g[0] = << <<>> >>
                 /\ \A k \in 1..Len(s) : g[k] = AddToPieces(g[k - 1], s[k], delim)
                 /\ Split(s, delim) = LET v == g[Len(s)] IN
                                      IF Last(v) = <<>> THEN Front(v) ELSE v
    BY SplitRuns
  <1>2. Len(s) \in Nat /\ s \in [1..Len(s) -> T]
    BY LenProperties
  <1> DEFINE Right(k) == g[k] \in PieceSeqs(T) /\ \E e : Pieces(s, k, delim, g[k], e)
             wrong == {k \in 0..Len(s) : ~Right(k)}
  <1>3. Right(0)
    <2> DEFINE e == [j \in 0..1 |-> j]
    <2>1. g[0] \in PieceSeqs(T) /\ Len(g[0]) = 1 /\ g[0][1] = <<>>
      BY <1>1 DEF PieceSeqs
    <2>2. SubSeq(s, 1, 0) = <<>>
      BY SubSeqEmpty
    <2>3. e[0] = 0 /\ e[1] = 1 /\ \A j \in 0..1 : e[j] \in 0..1
      OBVIOUS
    <2> HIDE DEF e
    <2>4. ASSUME NEW j \in 1..Len(g[0])
          PROVE  /\ e[j - 1] < e[j] /\ g[0][j] = SubSeq(s, e[j - 1] + 1, e[j] - 1)
                 /\ \A x \in e[j - 1]+1..e[j]-1 : s[x] # delim
                 /\ j # Len(g[0]) => s[e[j]] = delim
      <3>1. j = 1 /\ e[j - 1] + 1 = 1 /\ e[j] - 1 = 0 /\ e[j - 1] < e[j]
        BY <2>1, <2>3
      <3>2. g[0][j] = SubSeq(s, e[j - 1] + 1, e[j] - 1)
        BY <2>1, <2>2, <3>1
      <3>3. \A x : x \notin e[j - 1]+1..e[j]-1
        BY <3>1
      <3>4. j = Len(g[0])
        BY <2>1, <3>1
      <3> QED BY <3>1, <3>2, <3>3, <3>4
    <2>5. Pieces(s, 0, delim, g[0], e)
      <3>1. 0 + 1 = 1 /\ 1 \in Nat \ {0}
        OBVIOUS
      <3>2. \A j \in 0..Len(g[0]) : e[j] \in 0..0+1
        BY <2>1, <2>3
      <3> QED BY <2>1, <2>3, <2>4, <3>1, <3>2 DEF Pieces
    <2> QED BY <2>1, <2>5
  <1>4. ASSUME NEW k \in 1..Len(s), Right(k - 1) PROVE Right(k)
    <2>1. PICK e : Pieces(s, k - 1, delim, g[k - 1], e)
      BY <1>4
    <2>2. k - 1 \in 0..Len(s)-1 /\ k - 1 + 1 = k /\ s[k] \in T /\ g[k - 1] \in PieceSeqs(T)
      BY <1>2, <1>4
    <2>3. g[k] = AddToPieces(g[k - 1], s[k], delim)
      BY <1>1
    <2>4. g[k] \in PieceSeqs(T)
      BY <2>2, <2>3, AddToPiecesIs
    <2>5. \E f : Pieces(s, k - 1 + 1, delim, AddToPieces(g[k - 1], s[k - 1 + 1], delim), f)
      BY <2>1, <2>2, PiecesStep
    <2> QED BY <2>2, <2>3, <2>4, <2>5
  <1> HIDE DEF Right
  <1>5. wrong = {}
    <2> SUFFICES ASSUME wrong # {} PROVE FALSE
      OBVIOUS
    <2>1. wrong \subseteq Nat
      OBVIOUS
    <2>2. PICK k \in wrong : \A j \in wrong : k <= j
      <3> HIDE DEF wrong
      <3> QED BY <2>1, Least
    <2>3. k \in 0..Len(s) /\ ~Right(k)
      OBVIOUS
    <2>4. k \in 1..Len(s) /\ k - 1 \in 0..Len(s)
      BY <1>2, <1>3, <2>3
    <2>5. k - 1 \notin wrong
      <3> HIDE DEF wrong
      <3> QED BY <2>2, <2>4
    <2> QED BY <1>4, <2>3, <2>4, <2>5
  <1>6. Right(Len(s))
    BY <1>2, <1>5
  <1> QED BY <1>1, <1>6 DEF Right

\* A piece of s is as long as the places around it tell.
PieceOf(p, s, a, b, T) ==
    p \in Seq(T) /\ Len(p) = b - a - 1 /\ \A k \in 1..b-a-1 : p[k] = s[a + k]

LEMMA PieceIs ==
    ASSUME NEW T, NEW s \in Seq(T), NEW a \in Int, NEW b \in Int, 0 <= a, a < b, b <= Len(s) + 1
    PROVE  PieceOf(SubSeq(s, a + 1, b - 1), s, a, b, T)
  <1>1. PICK lo \in Int, hi \in Int : lo = a + 1 /\ hi = b - 1
    OBVIOUS
  <1>2. Len(s) \in Nat /\ \A k \in lo..hi : s[k] \in T
    BY <1>1, LenProperties
  <1>3. /\ SubSeq(s, lo, hi) \in Seq(T)
        /\ Len(SubSeq(s, lo, hi)) = IF lo <= hi THEN hi - lo + 1 ELSE 0
        /\ \A k \in 1..hi-lo+1 : SubSeq(s, lo, hi)[k] = s[lo + k - 1]
    BY <1>2, SubSeqProperties
  <1>4. Len(SubSeq(s, lo, hi)) = b - a - 1
    BY <1>1, <1>3
  <1>5. \A k \in 1..b-a-1 : SubSeq(s, lo, hi)[k] = s[a + k]
    <2> SUFFICES ASSUME NEW k \in 1..b-a-1 PROVE SubSeq(s, lo, hi)[k] = s[a + k]
      OBVIOUS
    <2>1. k \in 1..hi-lo+1 /\ lo + k - 1 = a + k
      BY <1>1
    <2> QED BY <1>3, <2>1
  <1> QED BY <1>1, <1>3, <1>4, <1>5 DEF PieceOf

\* Where the first three of m pieces of the first n of s are.
FirstThree(s, n, delim, v, m, e) ==
    /\ m # 0
    /\ \A j \in 1..m : e[j] \in 1..n+1
    /\ v[1] = SubSeq(s, 0 + 1, e[1] - 1)
    /\ \A x \in 1..e[1]-1 : s[x] # delim
    /\ m = 1 => e[1] = n + 1
    /\ m > 1 => /\ s[e[1]] = delim /\ e[1] < e[2]
                /\ v[2] = SubSeq(s, e[1] + 1, e[2] - 1)
                /\ \A x \in e[1]+1..e[2]-1 : s[x] # delim
    /\ m = 2 => e[2] = n + 1
    /\ m > 2 => /\ s[e[2]] = delim /\ e[2] < e[3]
                /\ v[3] = SubSeq(s, e[2] + 1, e[3] - 1)
    /\ m = 3 => e[3] = n + 1
    /\ m > 3 => e[3] < e[4]

LEMMA FirstPieces ==
    ASSUME NEW s, NEW n \in Nat, NEW delim, NEW v, NEW m \in Nat, NEW e,
           m = Len(v), Pieces(s, n, delim, v, e)
    PROVE  FirstThree(s, n, delim, v, m, e)
  <1>0. /\ m # 0
        /\ \A j \in 0..m : e[j] \in 0..n+1
        /\ e[0] = 0 /\ e[m] = n + 1
        /\ \A j \in 1..m :
               /\ e[j - 1] < e[j] /\ v[j] = SubSeq(s, e[j - 1] + 1, e[j] - 1)
               /\ \A x \in e[j - 1]+1..e[j]-1 : s[x] # delim
               /\ j # m => s[e[j]] = delim
    BY DEF Pieces
  <1>2. ASSUME NEW j \in 1..m PROVE e[j] \in 1..n+1
    <2>1. j - 1 \in 0..m /\ j \in 0..m
      OBVIOUS
    <2>2. e[j - 1] \in 0..n+1 /\ e[j] \in 0..n+1 /\ e[j - 1] < e[j]
      BY <1>0, <2>1
    <2> QED BY <2>2
  <1>3. /\ v[1] = SubSeq(s, 0 + 1, e[1] - 1) /\ (\A x \in 0+1..e[1]-1 : s[x] # delim)
        /\ 1 # m => s[e[1]] = delim
    <2>1. 1 \in 1..m /\ 1 - 1 = 0 /\ e[0] = 0
      BY <1>0
    <2> QED BY <1>0, <2>1
  <1>4. ASSUME m > 1
        PROVE  /\ e[1] < e[2] /\ v[2] = SubSeq(s, e[1] + 1, e[2] - 1)
               /\ \A x \in e[1]+1..e[2]-1 : s[x] # delim
               /\ 2 # m => s[e[2]] = delim
    <2>1. 2 \in 1..m /\ 2 - 1 = 1
      BY <1>4
    <2> QED BY <1>0, <2>1
  <1>5. ASSUME m > 2 PROVE e[2] < e[3] /\ v[3] = SubSeq(s, e[2] + 1, e[3] - 1)
    <2>1. 3 \in 1..m /\ 3 - 1 = 2
      BY <1>5
    <2> QED BY <1>0, <2>1
  <1>6. ASSUME m > 3 PROVE e[3] < e[4]
    <2>1. 4 \in 1..m /\ 4 - 1 = 3
      BY <1>6
    <2> QED BY <1>0, <2>1
  <1>8. \A x \in 1..e[1]-1 : s[x] # delim
    <2>1. \A x \in 1..e[1]-1 : x \in 0+1..e[1]-1
      OBVIOUS
    <2> QED BY <1>3, <2>1
  <1>9. ASSUME m > 1 PROVE s[e[1]] = delim
    <2>1. 1 # m
      BY <1>9
    <2> QED BY <1>3, <2>1
  <1>10. ASSUME m > 2 PROVE s[e[2]] = delim
    <2>1. 2 # m /\ m > 1
      BY <1>10
    <2> QED BY <1>4, <2>1
  <1>11. /\ m > 1 => /\ e[1] < e[2] /\ v[2] = SubSeq(s, e[1] + 1, e[2] - 1)
                     /\ \A x \in e[1]+1..e[2]-1 : s[x] # delim
         /\ m > 2 => e[2] < e[3] /\ v[3] = SubSeq(s, e[2] + 1, e[3] - 1)
         /\ m > 3 => e[3] < e[4]
    BY <1>4, <1>5, <1>6
  <1>12. /\ m = 1 => e[1] = n + 1
         /\ m = 2 => e[2] = n + 1
         /\ m = 3 => e[3] = n + 1
    BY <1>0
  <1>13. v[1] = SubSeq(s, 0 + 1, e[1] - 1)
    BY <1>3
  <1>14. m # 0
    BY <1>0
  <1> QED BY <1>2, <1>8, <1>9, <1>10, <1>11, <1>12, <1>13, <1>14, Zenon DEF FirstThree

\* u, delim and p, one after the other.
LEMMA BothIs ==
    ASSUME NEW T, NEW u \in Seq(T), NEW delim \in T, NEW p \in Seq(T)
    PROVE  LET both == u \o <<delim>> \o p IN
           /\ both \in Seq(T) /\ Len(both) = Len(u) + 1 + Len(p)
           /\ \A k \in 1..Len(u) : both[k] = u[k]
           /\ both[Len(u) + 1] = delim
           /\ \A k \in 1..Len(p) : both[Len(u) + 1 + k] = p[k]
  <1>1. PICK a : a = u \o <<delim>>
    OBVIOUS
  <1>2. <<delim>> \in Seq(T) /\ Len(<<delim>>) = 1 /\ <<delim>>[1] = delim
        /\ Len(u) \in Nat /\ Len(p) \in Nat
    OBVIOUS
  <1>3. /\ a \in Seq(T) /\ Len(a) = Len(u) + 1
        /\ \A k \in 1..Len(u)+1 : a[k] = IF k <= Len(u) THEN u[k] ELSE <<delim>>[k - Len(u)]
    BY <1>1, <1>2, ConcatProperties
  <1>4. a[Len(u) + 1] = delim /\ \A k \in 1..Len(u) : a[k] = u[k]
    <2>1. Len(u) + 1 \in 1..Len(u)+1 /\ ~(Len(u) + 1 <= Len(u)) /\ Len(u) + 1 - Len(u) = 1
      BY <1>2
    <2> QED BY <1>2, <1>3, <2>1
  <1>5. PICK b : b = a \o p
    OBVIOUS
  <1>6. /\ b \in Seq(T) /\ Len(b) = Len(a) + Len(p)
        /\ \A k \in 1..Len(a)+Len(p) : b[k] = IF k <= Len(a) THEN a[k] ELSE p[k - Len(a)]
    BY <1>3, <1>5, ConcatProperties
  <1>7. \A k \in 1..Len(u)+1 : b[k] = a[k]
    BY <1>2, <1>3, <1>6
  <1>8. ASSUME NEW k \in 1..Len(p) PROVE b[Len(u) + 1 + k] = p[k]
    <2>1. Len(u) + 1 + k \in 1..Len(a)+Len(p) /\ ~(Len(u) + 1 + k <= Len(a))
          /\ Len(u) + 1 + k - Len(a) = k
      BY <1>2, <1>3
    <2> QED BY <1>6, <2>1
  <1>9. Len(b) = Len(u) + 1 + Len(p)
    BY <1>2, <1>3, <1>6
  <1> QED BY <1>1, <1>2, <1>4, <1>5, <1>6, <1>7, <1>8, <1>9

\* The characters of two words are those of both.
LEMMA NoneIn ==
    ASSUME NEW T, NEW u \in Seq(T), NEW delim \in T, NEW p \in Seq(T)
    PROVE  delim \notin Range(u \o p) <=>
               (\A k \in 1..Len(u) : u[k] # delim) /\ (\A k \in 1..Len(p) : p[k] # delim)
  <1>1. Range(u \o p) = Range(u) \cup Range(p)
    BY RangeConcatenation
  <1>2. Range(u) = {u[k] : k \in 1..Len(u)} /\ Range(p) = {p[k] : k \in 1..Len(p)}
    BY RangeEquality
  <1> QED BY <1>1, <1>2

\* s is u and p with delim between them, and perhaps one more at the end; without
\* that one p is not empty.  Neither holds delim.
Joins(s, delim, u, p) ==
    /\ delim \notin Range(u \o p)
    /\ LET both == u \o <<delim>> \o p IN
       s = Append(both, delim) \/ (p # <<>> /\ s = both)

\* split() (utils.h:6-15) cuts a text of any length into a name and a password
\* exactly when the text is the two with the delimiter between them, and perhaps
\* one more at the end; without that one a password that is empty is not seen,
\* and neither may hold the delimiter.
THEOREM TwoPieces ==
    ASSUME NEW T, NEW s \in Seq(T), NEW delim \in T, NEW u \in Seq(T), NEW p \in Seq(T)
    PROVE  Split(s, delim) = <<u, p>> <=> Joins(s, delim, u, p)
  <1> DEFINE both == u \o <<delim>> \o p  ended == Append(both, delim)
  <1>1. PICK n \in Nat, lu \in Nat, lp \in Nat : n = Len(s) /\ lu = Len(u) /\ lp = Len(p)
    BY LenProperties
  <1>0. PICK v \in PieceSeqs(T) : \E e :
            /\ Pieces(s, Len(s), delim, v, e)
            /\ Split(s, delim) = IF Last(v) = <<>> THEN Front(v) ELSE v
    BY SplitIs
  <1>2. PICK e : /\ Pieces(s, Len(s), delim, v, e)
                 /\ Split(s, delim) = IF Last(v) = <<>> THEN Front(v) ELSE v
    BY <1>0
  <1>3. /\ both \in Seq(T) /\ Len(both) = lu + 1 + lp
        /\ \A k \in 1..lu : both[k] = u[k]
        /\ both[lu + 1] = delim
        /\ \A k \in 1..lp : both[lu + 1 + k] = p[k]
    BY <1>1, BothIs
  <1> HIDE DEF both
  <1>4. /\ ended \in Seq(T) /\ Len(ended) = lu + 2 + lp
        /\ \A k \in 1..lu+1+lp : ended[k] = both[k]
        /\ ended[lu + 2 + lp] = delim
    <2>1. /\ ended \in Seq(T) /\ Len(ended) = Len(both) + 1
          /\ \A k \in 1..Len(both) : ended[k] = both[k]
          /\ ended[Len(both) + 1] = delim
      BY <1>3, AppendProperties
    <2>2. Len(both) + 1 = lu + 2 + lp
      BY <1>1, <1>3
    <2> HIDE DEF ended
    <2> QED BY <1>1, <1>3, <2>1, <2>2
  <1> HIDE DEF ended
  <1>5. PICK m \in Nat \ {0} : m = Len(v)
    BY <1>2 DEF Pieces
  <1>6. v \in Seq(Seq(T)) /\ Last(v) = v[m] /\ Front(v) = SubSeq(v, 1, m - 1)
    BY <1>2, <1>5 DEF PieceSeqs, Last, Front
  <1>7. \A k \in 1..m : v[k] \in Seq(T)
    BY <1>5, <1>6
  <1>8. v = [k \in 1..m |-> v[k]]
    BY <1>5, <1>6
  <1>9. /\ \A j \in 1..m : e[j] \in 1..n+1
        /\ v[1] = SubSeq(s, 0 + 1, e[1] - 1)
        /\ \A x \in 1..e[1]-1 : s[x] # delim
        /\ m = 1 => e[1] = n + 1
        /\ m > 1 => /\ s[e[1]] = delim /\ e[1] < e[2]
                    /\ v[2] = SubSeq(s, e[1] + 1, e[2] - 1)
                    /\ \A x \in e[1]+1..e[2]-1 : s[x] # delim
        /\ m = 2 => e[2] = n + 1
        /\ m > 2 => /\ s[e[2]] = delim /\ e[2] < e[3]
                    /\ v[3] = SubSeq(s, e[2] + 1, e[3] - 1)
        /\ m = 3 => e[3] = n + 1
        /\ m > 3 => e[3] < e[4]
    <2>1. Pieces(s, n, delim, v, e)
      BY <1>1, <1>2
    <2>2. m \in Nat /\ m = Len(v) /\ n \in Nat
      BY <1>5
    <2>3. FirstThree(s, n, delim, v, m, e)
      BY <2>1, <2>2, FirstPieces
    <2> QED BY <2>3, Zenon DEF FirstThree
  <1>10. Split(s, delim) = IF v[m] = <<>> THEN SubSeq(v, 1, m - 1) ELSE v
    BY <1>2, <1>6
  <1>11. /\ Len(SubSeq(v, 1, m - 1)) = m - 1
         /\ \A k \in 1..m-1 : SubSeq(v, 1, m - 1)[k] = v[k]
         /\ SubSeq(v, 1, m - 1) = [k \in 1..m-1 |-> v[k]]
    <2>1. PICK l \in Nat : l = m - 1
      BY <1>5
    <2>2. \A k \in 1..l : v[k] \in Seq(T)
      BY <1>7, <2>1
    <2>3. /\ SubSeq(v, 1, l) \in Seq(Seq(T)) /\ Len(SubSeq(v, 1, l)) = l
          /\ \A k \in 1..l : SubSeq(v, 1, l)[k] = v[k]
      BY <2>2, SubSeqProperties
    <2>4. SubSeq(v, 1, l) = [k \in 1..l |-> v[k]]
      BY <2>3
    <2> QED BY <2>1, <2>3, <2>4
  <1>12. ASSUME Split(s, delim) = <<u, p>>
         PROVE  /\ m \in {2, 3} /\ v[1] = u /\ v[2] = p
                /\ m = 2 => p # <<>>
                /\ m = 3 => v[3] = <<>>
    <2>1. CASE v[m] # <<>>
      <3>1. v = <<u, p>>
        BY <1>10, <1>12, <2>1
      <3>2. m = 2
        BY <1>5, <3>1
      <3> QED BY <2>1, <3>1, <3>2
    <2>2. CASE v[m] = <<>>
      <3>1. SubSeq(v, 1, m - 1) = <<u, p>>
        BY <1>10, <1>12, <2>2
      <3>0. PICK w : w = SubSeq(v, 1, m - 1)
        OBVIOUS
      <3>5. w = <<u, p>> /\ Len(w) = m - 1 /\ \A k \in 1..m-1 : w[k] = v[k]
        BY <1>11, <3>0, <3>1
      <3>6. Len(w) = 2 /\ w[1] = u /\ w[2] = p
        BY <3>5
      <3>2. m = 3
        BY <3>5, <3>6
      <3>4. v[1] = u /\ v[2] = p
        BY <3>2, <3>5, <3>6
      <3> QED BY <2>2, <3>2, <3>4
    <2> QED BY <2>1, <2>2
  <1>13. ASSUME m = 3, v[3] = <<>> PROVE Split(s, delim) = <<v[1], v[2]>>
    <2>1. SubSeq(v, 1, m - 1) = [k \in 1..2 |-> v[k]]
      BY <1>11, <1>13
    <2>2. [k \in 1..2 |-> v[k]] = <<v[1], v[2]>>
      OBVIOUS
    <2> QED BY <1>10, <1>13, <2>1, <2>2
  <1>14. ASSUME m = 2, v[2] # <<>> PROVE Split(s, delim) = <<v[1], v[2]>>
    <2>1. [k \in 1..2 |-> v[k]] = <<v[1], v[2]>>
      OBVIOUS
    <2> QED BY <1>8, <1>10, <1>14, <2>1
  <1>15. v[1] \in Seq(T) /\ Len(v[1]) = e[1] - 1 /\ \A k \in 1..e[1]-1 : v[1][k] = s[k]
    <2>1. PICK b \in Int : b = e[1] /\ 0 < b /\ b <= Len(s) + 1
      BY <1>1, <1>5, <1>9
    <2>2. PieceOf(SubSeq(s, 0 + 1, b - 1), s, 0, b, T)
      BY <2>1, PieceIs
    <2>3. v[1] = SubSeq(s, 0 + 1, b - 1) /\ b - 0 - 1 = b - 1 /\ \A k \in 1..b-1 : 0 + k = k
      BY <1>9, <2>1
    <2> QED BY <2>1, <2>2, <2>3 DEF PieceOf
  <1>16. ASSUME m > 1
         PROVE  /\ v[2] \in Seq(T) /\ Len(v[2]) = e[2] - e[1] - 1
                /\ \A k \in 1..e[2]-e[1]-1 : v[2][k] = s[e[1] + k]
    <2>1. PICK a \in Int, b \in Int : a = e[1] /\ b = e[2] /\ 0 <= a /\ a < b /\ b <= Len(s) + 1
      <3>1. 1 \in 1..m /\ 2 \in 1..m
        BY <1>16
      <3> QED BY <1>1, <1>9, <1>16, <3>1
    <2>2. PieceOf(SubSeq(s, a + 1, b - 1), s, a, b, T)
      BY <2>1, PieceIs
    <2> QED BY <1>9, <1>16, <2>1, <2>2 DEF PieceOf
  <1>17. ASSUME m > 2
         PROVE  v[3] \in Seq(T) /\ Len(v[3]) = e[3] - e[2] - 1
    <2>1. PICK a \in Int, b \in Int : a = e[2] /\ b = e[3] /\ 0 <= a /\ a < b /\ b <= Len(s) + 1
      <3>1. 3 \in 1..m /\ 2 \in 1..m
        BY <1>17
      <3> QED BY <1>1, <1>9, <1>17, <3>1
    <2>2. PieceOf(SubSeq(s, a + 1, b - 1), s, a, b, T)
      BY <2>1, PieceIs
    <2> QED BY <1>9, <1>17, <2>1, <2>2 DEF PieceOf
  <1>18. ASSUME Split(s, delim) = <<u, p>>
         PROVE  delim \notin Range(u \o p) /\ (s = ended \/ (p # <<>> /\ s = both))
    <2>1. /\ m \in {2, 3} /\ v[1] = u /\ v[2] = p /\ (m = 2 => p # <<>>)
          /\ m = 3 => v[3] = <<>>
      BY <1>12, <1>18
    <2>2. PICK a \in Int, b \in Int : a = e[1] /\ b = e[2]
      BY <1>9, <2>1
    <2>3. /\ a = lu + 1 /\ b = a + lp + 1
          /\ \A k \in 1..lu : u[k] = s[k]
          /\ \A k \in 1..lp : p[k] = s[a + k]
          /\ \A k \in 1..lu : s[k] # delim
          /\ \A x \in a+1..b-1 : s[x] # delim
          /\ s[a] = delim
      <3>1. a = lu + 1 /\ b = a + lp + 1
        <4>1. m > 1 /\ Len(v[1]) = lu /\ Len(v[2]) = lp
          BY <1>1, <2>1
        <4>2. lu = a - 1 /\ lp = b - a - 1
          BY <1>15, <1>16, <2>2, <4>1
        <4> QED BY <4>2
      <3>2. a - 1 = lu /\ b - a - 1 = lp
        BY <3>1
      <3> QED BY <1>9, <1>15, <1>16, <2>1, <2>2, <3>1, <3>2
    <2>4. delim \notin Range(u \o p)
      <3>1. ASSUME NEW k \in 1..lp PROVE p[k] # delim
        <4>1. a + k \in a+1..b-1
          BY <2>3
        <4> QED BY <2>3, <4>1
      <3>2. (\A k \in 1..Len(u) : u[k] # delim) /\ (\A k \in 1..Len(p) : p[k] # delim)
        BY <1>1, <2>3, <3>1
      <3> QED BY <3>2, NoneIn, Zenon
    <2>5. \A k \in 1..lu+1+lp : s[k] = both[k]
      <3> SUFFICES ASSUME NEW k \in 1..lu+1+lp PROVE s[k] = both[k]
        OBVIOUS
      <3>1. CASE k \in 1..lu
        BY <1>3, <2>3, <3>1
      <3>2. CASE k = lu + 1
        BY <1>3, <2>3, <3>2
      <3>3. CASE k \in lu+2..lu+1+lp
        <4>1. PICK j \in 1..lp : k = lu + 1 + j
          <5>1. k - lu - 1 \in 1..lp /\ k = lu + 1 + (k - lu - 1)
            BY <3>3
          <5> QED BY <5>1
        <4> QED BY <1>3, <2>3, <4>1
      <3> QED BY <3>1, <3>2, <3>3
    <2>6. CASE m = 2
      <3>1. n = lu + 1 + lp
        BY <1>9, <2>2, <2>3, <2>6
      <3>2. s = both
        BY <1>1, <1>3, <2>5, <3>1, SeqEqual
      <3> QED BY <2>1, <2>4, <2>6, <3>2
    <2>7. CASE m = 3
      <3>1. e[3] = b + 1 /\ e[3] = n + 1 /\ s[b] = delim
        <4>1. m > 2 /\ Len(v[3]) = 0 /\ 3 \in 1..m
          BY <2>1, <2>7
        <4>2. PICK c \in Int : c = e[3]
          BY <1>9, <4>1
        <4>3. 0 = c - b - 1
          BY <1>17, <2>2, <4>1, <4>2
        <4> QED BY <1>9, <2>2, <2>7, <4>1, <4>2, <4>3
      <3>2. n = lu + 2 + lp /\ b = lu + 2 + lp
        BY <2>3, <3>1
      <3>3. \A k \in 1..lu+2+lp : s[k] = ended[k]
        <4>1. \A k \in 1..lu+2+lp : k \in 1..lu+1+lp \/ k = lu + 2 + lp
          OBVIOUS
        <4> QED BY <1>4, <2>5, <3>1, <3>2, <4>1
      <3>4. s = ended
        BY <1>1, <1>4, <3>2, <3>3, SeqEqual
      <3> QED BY <2>4, <3>4
    <2> QED BY <2>1, <2>6, <2>7
  <1>19. ASSUME delim \notin Range(u \o p), s = ended \/ (p # <<>> /\ s = both)
         PROVE  Split(s, delim) = <<u, p>>
    <2>1. /\ \A k \in 1..lu : s[k] = u[k] /\ s[k] # delim
          /\ s[lu + 1] = delim
          /\ \A k \in 1..lp : s[lu + 1 + k] = p[k] /\ s[lu + 1 + k] # delim
          /\ (n = lu + 1 + lp /\ lp # 0) \/ (n = lu + 2 + lp /\ s[n] = delim)
      <3>1. (\A k \in 1..lu : u[k] # delim) /\ (\A k \in 1..lp : p[k] # delim)
        BY <1>1, <1>19, NoneIn
      <3>2. /\ \A k \in 1..lu : both[k] = u[k] /\ both[k] # delim
            /\ both[lu + 1] = delim
            /\ \A k \in 1..lp : both[lu + 1 + k] = p[k] /\ both[lu + 1 + k] # delim
        BY <1>3, <3>1
      <3>3. CASE s = both /\ p # <<>>
        <4>1. lp # 0
          BY <1>1, <3>3
        <4>2. n = lu + 1 + lp
          BY <1>1, <1>3, <3>3
        <4> QED BY <3>2, <3>3, <4>1, <4>2
      <3>4. CASE s = ended
        <4>1. n = lu + 2 + lp /\ s[n] = delim
          BY <1>1, <1>4, <3>4
        <4>2. \A k \in 1..lu+1+lp : s[k] = both[k]
          BY <1>4, <3>4
        <4>3. /\ \A k \in 1..lu : k \in 1..lu+1+lp
              /\ lu + 1 \in 1..lu+1+lp
              /\ \A k \in 1..lp : lu + 1 + k \in 1..lu+1+lp
          OBVIOUS
        <4> QED BY <3>2, <4>1, <4>2, <4>3
      <3> QED BY <1>19, <3>3, <3>4
    <2>2. PICK a \in Int : a = e[1] /\ a \in 1..n+1
      <3>1. 1 \in 1..m
        OBVIOUS
      <3> QED BY <1>9, <3>1
    <2>3. a = lu + 1 /\ m > 1
      <3>1. a <= lu + 1
        <4>1. lu + 1 \in 1..a-1 => s[lu + 1] # delim
          BY <1>9, <2>2
        <4> QED BY <2>1, <2>2, <4>1
      <3>2. m # 1
        BY <1>9, <2>1, <2>2, <3>1
      <3>3. ~(a \in 1..lu)
        BY <1>9, <2>1, <2>2, <3>2
      <3> QED BY <2>2, <3>1, <3>2, <3>3
    <2>4. PICK b \in Int : b = e[2] /\ b \in a+1..n+1
      <3>1. 2 \in 1..m
        BY <2>3
      <3> QED BY <1>9, <2>2, <2>3, <3>1
    <2>5. \A x \in lu+2..lu+1+lp : s[x] # delim
      <3> SUFFICES ASSUME NEW x \in lu+2..lu+1+lp PROVE s[x] # delim
        OBVIOUS
      <3>1. PICK j \in 1..lp : x = lu + 1 + j
        <4>1. x - lu - 1 \in 1..lp /\ x = lu + 1 + (x - lu - 1)
          OBVIOUS
        <4> QED BY <4>1
      <3> QED BY <2>1, <3>1
    <2>6. b = lu + 2 + lp
      <3>1. CASE b < lu + 2 + lp
        <4>1. b \in lu+2..lu+1+lp /\ b # n + 1
          BY <2>1, <2>3, <2>4, <3>1
        <4>2. s[b] = delim
          BY <1>9, <2>3, <2>4, <4>1
        <4> QED BY <2>5, <4>1, <4>2
      <3>2. CASE b > lu + 2 + lp
        <4>1. n = lu + 2 + lp /\ s[n] = delim
          BY <2>1, <2>4, <3>2
        <4>2. n \in a+1..b-1
          BY <2>3, <3>2, <4>1
        <4> QED BY <1>9, <2>2, <2>3, <2>4, <4>1, <4>2
      <3> QED BY <3>1, <3>2
    <2>7. v[1] = u
      <3>1. Len(v[1]) = lu /\ \A k \in 1..lu : v[1][k] = u[k]
        BY <1>15, <2>1, <2>2, <2>3
      <3> QED BY <1>1, <1>15, <3>1, SeqEqual
    <2>8. v[2] = p
      <3>1. b - a - 1 = lp
        BY <2>3, <2>6
      <3>2. /\ v[2] \in Seq(T) /\ Len(v[2]) = b - a - 1
            /\ \A k \in 1..b-a-1 : v[2][k] = s[a + k]
        BY <1>16, <2>2, <2>3, <2>4
      <3>3. Len(v[2]) = lp /\ \A k \in 1..lp : v[2][k] = p[k]
        BY <2>1, <2>3, <3>1, <3>2
      <3> QED BY <1>1, <3>2, <3>3, SeqEqual
    <2>9. CASE n = lu + 1 + lp /\ lp # 0
      <3>1. m = 2
        <4>1. b = n + 1
          BY <2>6, <2>9
        <4>2. ASSUME m > 2 PROVE FALSE
          <5>1. b < e[3] /\ e[3] \in 1..n+1
            <6>1. 3 \in 1..m
              BY <4>2
            <6> QED BY <1>9, <2>4, <4>2, <6>1
          <5> QED BY <4>1, <5>1
        <4> QED BY <2>3, <4>2
      <3>2. p # <<>>
        BY <1>1, <2>9
      <3> QED BY <1>14, <2>7, <2>8, <3>1, <3>2
    <2>10. CASE n = lu + 2 + lp
      <3>1. b = n
        BY <2>6, <2>10
      <3>2. m > 2
        BY <1>9, <2>3, <2>4, <3>1
      <3>3. e[3] = n + 1
        <4>1. 3 \in 1..m
          BY <3>2
        <4>2. b < e[3] /\ e[3] \in 1..n+1
          BY <1>9, <2>4, <3>2, <4>1
        <4> QED BY <3>1, <4>2
      <3>4. m = 3
        <4>1. ASSUME m > 3 PROVE FALSE
          <5>1. e[3] < e[4] /\ e[4] \in 1..n+1
            <6>1. 4 \in 1..m
              BY <4>1
            <6> QED BY <1>9, <4>1, <6>1
          <5> QED BY <3>3, <5>1
        <4> QED BY <3>2, <4>1
      <3>5. Len(v[3]) = 0 /\ v[3] \in Seq(T)
        BY <1>17, <2>4, <3>1, <3>2, <3>3
      <3>6. v[3] = <<>>
        BY <3>5
      <3> QED BY <1>13, <2>7, <2>8, <3>4, <3>6
    <2> QED BY <2>1, <2>9, <2>10
  <1>20. Joins(s, delim, u, p) <=> delim \notin Range(u \o p) /\ (s = ended \/ (p # <<>> /\ s = both))
    BY DEF Joins, ended, both
  <1> QED BY <1>18, <1>19, <1>20

-----------------------------------------------------------------------------
(* base64_decode *)

\* The shifts that base64_decode() makes.
LEMMA Powers ==
    Power(0) = 1 /\ Power(2) = 4 /\ Power(4) = 16 /\ Power(6) = 64 /\ Power(8) = 256
    /\ \A k \in 0..8 : Power(k) \in Nat \ {0}
  <1> DEFINE t == <<1, 2, 4, 8, 16, 32, 64, 128, 256>>
  <1>1. t[1] = 1 /\ t[3] = 4 /\ t[5] = 16 /\ t[7] = 64 /\ t[9] = 256
    OBVIOUS
  <1>2. \A k \in 1..9 : t[k] \in Nat \ {0}
    OBVIOUS
  <1> HIDE DEF t
  <1>3. \A k : Power(k) = t[k + 1]
    BY DEF Power, t
  <1> QED BY <1>1, <1>2, <1>3

\* An int keeps the 14 bits that matter.
LEMMA WrapKeeps ==
    ASSUME NEW x \in Int
    PROVE  Wrap(x) \in Int /\ Wrap(x) % 16384 = x % 16384
  <1>1. PICK z \in Int : IntSize = 16384 * z
    BY StringsAssumption
  <1>2. PICK h \in Int : h = IntSize \div 2
    BY StringsAssumption
  <1>3. PICK y \in Int : y = (x + h) \div IntSize
    BY StringsAssumption
  <1>4. (x + h) % IntSize = (x + h) - IntSize * y
    BY StringsAssumption, <1>3
  <1>5. PICK t \in Int : t = z * y
    OBVIOUS
  <1>6. IntSize * y = 16384 * t
    BY <1>1, <1>5
  <1>7. Wrap(x) = ((x + h) - 16384 * t) - h
    BY <1>2, <1>4, <1>6 DEF Wrap
  <1> QED BY <1>7

\* The states base64_decode() may be in.
DecodeStates == [val : Int, valb : -8..-1, out : Seq(Int), stop : BOOLEAN]

\* The same digit added to values that agree in 14 bits.
LEMMA AddTo ==
    ASSUME NEW x \in Int, NEW y \in Int, NEW c \in Int, x % 16384 = y % 16384
    PROVE  (x + c) % 16384 = (y + c) % 16384
  <1>1. PICK p \in Int, q \in Int, k \in Int : p = x \div 16384 /\ q = y \div 16384 /\ k = p - q
    OBVIOUS
  <1>2. x + c = (y + c) + 16384 * k
    BY <1>1
  <1>3. PICK z \in Int : z = y + c
    OBVIOUS
  <1>4. (z + 16384 * k) % 16384 = z % 16384
    OBVIOUS
  <1> QED BY <1>2, <1>3, <1>4

\* w is val with the digit c shifted in, as far as an int keeps it.
Shifted(w, val, c) == w \in Int /\ w % 16384 = (64 * val + c) % 16384

\* A digit is shifted in.
LEMMA ShiftIn ==
    ASSUME NEW val \in Int, NEW c \in Int
    PROVE  Shifted(Wrap(Shl(val, 6) + c), val, c)
  <1>1. Shl(val, 6) = Wrap(val * 64)
    BY Powers DEF Shl
  <1>0. PICK u \in Int : u = 64 * val
    OBVIOUS
  <1>2. PICK t \in Int : t = Wrap(val * 64) /\ t % 16384 = u % 16384
    BY <1>0, WrapKeeps
  <1>3. PICK w \in Int : w = Wrap(t + c) /\ w % 16384 = (t + c) % 16384
    BY WrapKeeps
  <1>4. w % 16384 = (u + c) % 16384
    BY <1>2, <1>3, AddTo
  <1> QED BY <1>0, <1>1, <1>2, <1>3, <1>4 DEF Shifted

\* A digit keeps base64_decode() in such a state.
LEMMA DecodeStepIs ==
    ASSUME NEW a \in DecodeStates, NEW c \in 0..64
    PROVE  DecodeStep(a, c) \in DecodeStates
  <1> DEFINE val == Wrap(Shl(a.val, 6) + c)  valb == a.valb + 6
  <1>1. a.val \in Int /\ a.valb \in -8..-1 /\ a.out \in Seq(Int) /\ a.stop \in BOOLEAN
    BY DEF DecodeStates
  <1>2. val \in Int /\ valb \in -2..5
    <2>1. PICK u \in Int : u = a.val
      BY <1>1
    <2>2. Wrap(Shl(u, 6) + c) \in Int
      BY ShiftIn DEF Shifted
    <2> QED BY <1>1, <2>1, <2>2
  <1> HIDE DEF val, valb
  <1>3. CASE a.stop \/ c = Pad
    BY <1>1, <1>3 DEF DecodeStep, DecodeStates
  <1>4. CASE ~(a.stop \/ c = Pad) /\ valb < 0
    <2>1. DecodeStep(a, c) = [a EXCEPT !.val = val, !.valb = valb]
      BY <1>4 DEF DecodeStep, val, valb
    <2>2. valb \in -8..-1
      BY <1>2, <1>4
    <2> QED BY <1>1, <1>2, <2>1, <2>2 DEF DecodeStates
  <1>5. CASE ~(a.stop \/ c = Pad) /\ ~(valb < 0)
    <2>1. PICK x : x = Shr(val, valb, 8)
      OBVIOUS
    <2>2. x \in Int
      <3>1. PICK q \in Nat \ {0} : q = Power(valb)
        BY <1>2, <1>5, Powers
      <3>2. x = (val \div q) % 256
        BY <2>1, <3>1, Powers DEF Shr
      <3> QED BY <1>2, <3>2
    <2>3. Append(a.out, x) \in Seq(Int) /\ valb - 8 \in -8..-1
      BY <1>1, <1>2, <1>5, <2>2
    <2>4. DecodeStep(a, c) =
              [a EXCEPT !.val = val, !.valb = valb - 8, !.out = Append(a.out, x)]
      BY <1>5, <2>1 DEF DecodeStep, val, valb
    <2> QED BY <1>1, <1>2, <2>3, <2>4 DEF DecodeStates
  <1> QED BY <1>3, <1>4, <1>5

\* The states it goes through.
LEMMA DecodeRuns ==
    ASSUME NEW s \in Seq(0..64)
    PROVE  \E g : /\ g[0] = [val |-> 0, valb |-> -8, out |-> <<>>, stop |-> FALSE]
                  /\ \A k \in 1..Len(s) : g[k] = DecodeStep(g[k - 1], s[k])
                  /\ \A k \in 0..Len(s) : g[k] \in DecodeStates
                  /\ Decode(s) = g[Len(s)].out
  <1> DEFINE D == DOMAIN s
             base == [val |-> 0, valb |-> -8, out |-> <<>>, stop |-> FALSE]
             Is(f) == f = [S \in SUBSET D |->
                  IF S = {} THEN base
                  ELSE LET x == Max(S) IN DecodeStep(f[S \ {x}], s[x])]
             f == CHOOSE f : Is(f)
             step == [p \in DecodeStates \X (0..64) |-> DecodeStep(p[1], p[2])]
  <1>1. Len(s) \in Nat /\ s \in [1..Len(s) -> 0..64] /\ D = 1..Len(s)
    BY LenProperties
  <1>2. Decode(s) = f[D].out
    BY DEF Decode, FoldLeft, MapThenFoldSet
  <1>0. base \in DecodeStates
    <2>1. <<>> \in Seq(Int) /\ -8 \in -8..-1
      OBVIOUS
    <2> QED BY <2>1 DEF DecodeStates
  <1> HIDE DEF base
  <1>3. \E w : Is(w)
    <2>1. step \in [DecodeStates \X (0..64) -> DecodeStates]
      BY DecodeStepIs
    <2> HIDE DEF step
    <2>3. PICK w \in [SUBSET (1..Len(s)) -> DecodeStates] : Iterates(w, step, base, Len(s), s)
      BY <1>0, <1>1, <2>1, FoldExists
    <2>0. \A S \in SUBSET (1..Len(s)) :
              w[S] = IF S = {} THEN base ELSE step[<<w[S \ {Max(S)}], s[Max(S)]>>]
      BY <2>3 DEF Iterates
    <2>4. ASSUME NEW S \in SUBSET D, S # {}
          PROVE  w[S] = DecodeStep(w[S \ {Max(S)}], s[Max(S)])
      <3>1. Max(S) \in 1..Len(s)
        <4>1. S \subseteq 0..Len(s)
          BY <1>1
        <4> QED BY <1>1, <2>4, <4>1, MaxIn
      <3>2. w[S \ {Max(S)}] \in DecodeStates /\ s[Max(S)] \in 0..64
        BY <1>1, <2>3, <3>1
      <3>3. w[S] = step[<<w[S \ {Max(S)}], s[Max(S)]>>]
        BY <1>1, <2>0, <2>4
      <3> QED BY <3>2, <3>3 DEF step
    <2>5. w = [S \in SUBSET D |-> w[S]] /\ w[{}] = base
      BY <1>1, <2>0, <2>3
    <2> QED BY <2>4, <2>5
  <1>4. Is(f)
    <2> HIDE DEF Is
    <2> QED BY <1>3
  <1> HIDE DEF f
  <1>5. f[{}] = base
    BY <1>4
  <1>6. ASSUME NEW S \in SUBSET D, S # {}
        PROVE  f[S] = DecodeStep(f[S \ {Max(S)}], s[Max(S)])
    BY <1>4, <1>6
  <1> HIDE DEF Is
  <1> DEFINE g == [k \in 0..Len(s) |-> f[1..k]]
  <1>7. g[0] = base /\ g[Len(s)] = f[D]
    <2>1. 1..0 = {}
      OBVIOUS
    <2> QED BY <1>1, <1>5, <2>1
  <1>8. ASSUME NEW k \in 1..Len(s) PROVE g[k] = DecodeStep(g[k - 1], s[k])
    <2>1. k \in Nat \ {0} /\ 1..k \in SUBSET D /\ g[k] = f[1..k] /\ g[k - 1] = f[1..(k - 1)]
      BY <1>1
    <2>2. 1..k # {} /\ Max(1..k) = k /\ (1..k) \ {k} = 1..(k - 1)
      BY <2>1, UpTo
    <2> QED BY <1>6, <2>1, <2>2
  <1> HIDE DEF g
  <1> DEFINE wrong == {k \in 0..Len(s) : g[k] \notin DecodeStates}
  <1>9. wrong = {}
    <2> SUFFICES ASSUME wrong # {} PROVE FALSE
      OBVIOUS
    <2>1. wrong \subseteq Nat
      OBVIOUS
    <2>2. PICK k \in wrong : \A j \in wrong : k <= j
      <3> HIDE DEF wrong
      <3> QED BY <2>1, Least
    <2>3. k \in 0..Len(s) /\ g[k] \notin DecodeStates
      OBVIOUS
    <2>0. k # 0
      BY <1>0, <1>7, <2>3
    <2>4. k \in 1..Len(s) /\ k - 1 \in 0..Len(s) /\ s[k] \in 0..64
      <3> HIDE DEF wrong
      <3> QED BY <1>1, <2>0, <2>3
    <2>5. k - 1 \notin wrong
      <3> HIDE DEF wrong
      <3> QED BY <2>2, <2>4
    <2>6. g[k - 1] \in DecodeStates
      BY <2>4, <2>5
    <2> QED BY <1>8, <2>3, <2>4, <2>6, DecodeStepIs
  <1>10. \A k \in 0..Len(s) : g[k] \in DecodeStates
    BY <1>9
  <1> QED BY <1>2, <1>7, <1>8, <1>10 DEF base

\* Eight of the twelve bits of the digits b and c.
Taken(b, c, k) == ((b * 64 + c) \div Power(k)) % 256

\* Byte k of what the digits of s denote.
Byte(s, k) == LET bit == 8 * (k - 1)  i == bit \div 6 + 1 IN
              Taken(s[i], s[i + 1], 4 - (bit % 6))

\* Four digits hold three bytes.
LEMMA BytesAre ==
    ASSUME NEW s, NEW g \in Nat
    PROVE  /\ Byte(s, 3*g + 1) = Taken(s[4*g + 1], s[4*g + 2], 4)
           /\ Byte(s, 3*g + 2) = Taken(s[4*g + 2], s[4*g + 3], 2)
           /\ Byte(s, 3*g + 3) = Taken(s[4*g + 3], s[4*g + 4], 0)
  <1>1. /\ (8 * (3*g + 1 - 1)) \div 6 + 1 = 4*g + 1 /\ 4*g + 1 + 1 = 4*g + 2
        /\ 4 - ((8 * (3*g + 1 - 1)) % 6) = 4
    OBVIOUS
  <1>2. /\ (8 * (3*g + 2 - 1)) \div 6 + 1 = 4*g + 2 /\ 4*g + 2 + 1 = 4*g + 3
        /\ 4 - ((8 * (3*g + 2 - 1)) % 6) = 2
    OBVIOUS
  <1>3. /\ (8 * (3*g + 3 - 1)) \div 6 + 1 = 4*g + 3 /\ 4*g + 3 + 1 = 4*g + 4
        /\ 4 - ((8 * (3*g + 3 - 1)) % 6) = 0
    OBVIOUS
  <1>4. Byte(s, 3*g + 1) = Taken(s[4*g + 1], s[4*g + 2], 4)
    BY <1>1 DEF Byte
  <1>5. Byte(s, 3*g + 2) = Taken(s[4*g + 2], s[4*g + 3], 2)
    BY <1>2 DEF Byte
  <1>6. Byte(s, 3*g + 3) = Taken(s[4*g + 3], s[4*g + 4], 0)
    BY <1>3 DEF Byte
  <1> QED BY <1>4, <1>5, <1>6

\* The last twelve bits of v are the digits b and c.
EndsWith(v, b, c) == v % 4096 = (64 * b + c) % 4096

\* What is taken out of the value.
LEMMA TakeOut ==
    ASSUME NEW v \in Int, NEW b \in 0..63, NEW c \in 0..63, EndsWith(v, b, c)
    PROVE  /\ Shr(v, 4, 8) = Taken(b, c, 4) /\ Shr(v, 2, 8) = Taken(b, c, 2)
           /\ Shr(v, 0, 8) = Taken(b, c, 0)
           /\ \A k \in {0, 2, 4} : Taken(b, c, k) \in Int
  <1>1. Shr(v, 4, 8) = (v \div 16) % 256 /\ Shr(v, 2, 8) = (v \div 4) % 256
        /\ Shr(v, 0, 8) = (v \div 1) % 256
    BY Powers DEF Shr
  <1>2. PICK x \in Int : x = b * 64 + c /\ 0 <= x /\ x < 4096
    OBVIOUS
  <1>3. v % 4096 = x
    <2>1. x % 4096 = x /\ 64 * b + c = x
      BY <1>2
    <2> QED BY <2>1 DEF EndsWith
  <1>4. (v \div 16) % 256 = (x \div 16) % 256
    BY <1>3
  <1>5. (v \div 4) % 256 = (x \div 4) % 256
    BY <1>3
  <1>6. (v \div 1) % 256 = (x \div 1) % 256
    BY <1>3
  <1>7. /\ Taken(b, c, 4) = (x \div 16) % 256 /\ Taken(b, c, 2) = (x \div 4) % 256
        /\ Taken(b, c, 0) = (x \div 1) % 256
    BY <1>2, Powers DEF Taken
  <1>8. \A k \in {0, 2, 4} : Taken(b, c, k) \in Int
    BY <1>7
  <1> QED BY <1>1, <1>4, <1>5, <1>6, <1>7, <1>8

\* Six more bits at the end, and the twelve last ones are two digits.
LEMMA TwelveBits ==
    ASSUME NEW v \in Int, NEW w, NEW b0 \in 0..64, NEW b \in 0..63, NEW c \in 0..63,
           EndsWith(v, b0, b), Shifted(w, v, c)
    PROVE  EndsWith(w, b, c)
  <1>1. w \in Int /\ w % 16384 = (64 * v + c) % 16384 /\ v % 4096 = (64 * b0 + b) % 4096
    BY DEF EndsWith, Shifted
  <1>2. PICK u \in Int : u = 64 * v + c
    OBVIOUS
  <1>3. PICK p \in Int, q \in Int : p = w \div 16384 /\ q = u \div 16384
    BY <1>1
  <1>4. w - 16384 * p = u - 16384 * q
    BY <1>1, <1>2, <1>3
  <1>5. PICK z \in Int : z = 64 * b0 + b
    OBVIOUS
  <1>6. PICK x \in Int, y \in Int : x = v \div 4096 /\ y = z \div 4096
    OBVIOUS
  <1>7. v - 4096 * x = z - 4096 * y
    BY <1>1, <1>5, <1>6
  <1>8. PICK k \in Int : k = 4 * p - 4 * q + 64 * x - 64 * y + b0
    OBVIOUS
  <1>9. PICK m \in Int : m = 64 * b + c
    OBVIOUS
  <1>10. 64 * v = 4096 * b0 + 64 * b + 64 * 4096 * x - 64 * 4096 * y
    BY <1>5, <1>7
  <1>11. w = 4096 * k + m
    BY <1>1, <1>2, <1>4, <1>8, <1>9, <1>10
  <1>12. (4096 * k + m) % 4096 = m % 4096
    OBVIOUS
  <1> QED BY <1>9, <1>11, <1>12 DEF EndsWith

\* Where in a group of four digits, or three bytes, the state a is after j of them.
Phase(a, j) ==
    \E g \in Nat :
        \/ j = 4*g     /\ Len(a.out) = 3*g     /\ a.valb = -8
        \/ j = 4*g + 1 /\ Len(a.out) = 3*g     /\ a.valb = -2
        \/ j = 4*g + 2 /\ Len(a.out) = 3*g + 1 /\ a.valb = -4
        \/ j = 4*g + 3 /\ Len(a.out) = 3*g + 2 /\ a.valb = -6

\* Digit j of s, 0 in front of the first one.
DigitAt(s, j) == IF j > 0 THEN s[j] ELSE 0

\* The state a after j digits of s.
Decoded(a, s, j) ==
    /\ a.stop = FALSE
    /\ EndsWith(a.val, DigitAt(s, j - 1), DigitAt(s, j))
    /\ Phase(a, j)
    /\ \A k \in 1..Len(a.out) : a.out[k] = Byte(s, k)

\* base64_decode() with one digit more.
Follows(d, a, val) ==
    /\ d.stop = FALSE /\ d.val = val
    /\ a.valb = -8 => d.valb = -2 /\ d.out = a.out
    /\ a.valb = -2 => d.valb = -4 /\ d.out = Append(a.out, Shr(val, 4, 8))
    /\ a.valb = -4 => d.valb = -6 /\ d.out = Append(a.out, Shr(val, 2, 8))
    /\ a.valb = -6 => d.valb = -8 /\ d.out = Append(a.out, Shr(val, 0, 8))

\* It does so, from any state.
LEMMA DecodeStepFields ==
    ASSUME NEW a \in DecodeStates, a.stop = FALSE, NEW c, c # Pad,
           NEW val, val = Wrap(Shl(a.val, 6) + c)
    PROVE  Follows(DecodeStep(a, c), a, val)
  <1> DEFINE d == DecodeStep(a, c)
  <1>1. PICK valb \in Int : valb = a.valb + 6
    BY DEF DecodeStates
  <1>2. d = IF valb < 0 THEN [a EXCEPT !.val = val, !.valb = valb]
            ELSE [a EXCEPT !.val = val, !.valb = valb - 8, !.out = Append(@, Shr(val, valb, 8))]
    BY <1>1 DEF DecodeStep
  <1>3. /\ d.stop = FALSE /\ d.val = val
        /\ valb < 0 => d.valb = valb /\ d.out = a.out
        /\ ~(valb < 0) => d.valb = valb - 8 /\ d.out = Append(a.out, Shr(val, valb, 8))
    <2> HIDE DEF d
    <2> QED BY <1>2 DEF DecodeStates
  <1> HIDE DEF d
  <1>4. /\ a.valb = -8 => d.valb = -2 /\ d.out = a.out
        /\ a.valb = -2 => d.valb = -4 /\ d.out = Append(a.out, Shr(val, 4, 8))
        /\ a.valb = -4 => d.valb = -6 /\ d.out = Append(a.out, Shr(val, 2, 8))
        /\ a.valb = -6 => d.valb = -8 /\ d.out = Append(a.out, Shr(val, 0, 8))
    <2>1. /\ a.valb = -8 => valb = -2 /\ valb < 0
          /\ a.valb = -2 => valb = 4 /\ ~(valb < 0) /\ valb - 8 = -4
          /\ a.valb = -4 => valb = 2 /\ ~(valb < 0) /\ valb - 8 = -6
          /\ a.valb = -6 => valb = 0 /\ ~(valb < 0) /\ valb - 8 = -8
      BY <1>1
    <2> QED BY <1>3, <2>1
  <1> QED BY <1>3, <1>4 DEF d, Follows

\* One byte more.
LEMMA ByteAdded ==
    ASSUME NEW s, NEW out \in Seq(Int), \A k \in 1..Len(out) : out[k] = Byte(s, k),
           NEW m \in Nat, m = Len(out) + 1, NEW x \in Int, x = Byte(s, m)
    PROVE  /\ Len(Append(out, x)) = m
           /\ \A k \in 1..Len(Append(out, x)) : Append(out, x)[k] = Byte(s, k)
  <1>1. PICK l \in Nat : l = Len(out)
    BY LenProperties
  <1>2. /\ Len(Append(out, x)) = l + 1 /\ Append(out, x)[l + 1] = x
        /\ \A k \in 1..l : Append(out, x)[k] = out[k]
    BY <1>1, AppendProperties
  <1>3. \A k \in 1..m : k \in 1..l \/ k = l + 1
    BY <1>1
  <1> QED BY <1>1, <1>2, <1>3

LEMMA DecodeDigit ==
    ASSUME NEW s, NEW n \in Nat, s \in [1..n -> 0..64], NEW j \in 1..n, s[j] # Pad,
           j > 1 => s[j - 1] # Pad, NEW a \in DecodeStates, Decoded(a, s, j - 1)
    PROVE  Decoded(DecodeStep(a, s[j]), s, j)
  <1>1. /\ a.val \in Int /\ a.valb \in -8..-1 /\ a.out \in Seq(Int)
        /\ Len(a.out) \in Nat /\ a.stop = FALSE
        /\ \A k \in 1..Len(a.out) : a.out[k] = Byte(s, k)
    BY DEF DecodeStates, Decoded
  <1>2. PICK c \in Int : c = s[j] /\ c \in 0..63
    <2>1. PICK c \in 0..64 : c = s[j]
      OBVIOUS
    <2>2. c # 64
      BY <2>1 DEF Pad
    <2>3. c \in 0..63 /\ c \in Int
      BY <2>2
    <2> QED BY <2>1, <2>3
  <1>3. DigitAt(s, j) = c
    BY <1>2 DEF DigitAt
  <1>4. PICK b \in Int : b = DigitAt(s, j - 1) /\ b \in 0..63
    <2>1. CASE j > 1
      <3>1. PICK b \in 0..64 : b = s[j - 1]
        BY <2>1
      <3>2. b # 64
        BY <2>1, <3>1 DEF Pad
      <3>3. b \in 0..63 /\ b \in Int
        BY <3>2
      <3> QED BY <2>1, <3>1, <3>3 DEF DigitAt
    <2>2. CASE ~(j > 1)
      <3>1. DigitAt(s, j - 1) = 0
        BY <2>2 DEF DigitAt
      <3> QED BY <3>1
    <2> QED BY <2>1, <2>2
  <1>5. PICK b0 \in Int : b0 = DigitAt(s, j - 1 - 1) /\ b0 \in 0..64
    <2>1. CASE j > 2
      <3>1. s[j - 1 - 1] \in 0..64
        <4>1. j - 1 - 1 \in 1..n
          BY <2>1
        <4> QED BY <4>1
      <3>2. DigitAt(s, j - 1 - 1) = s[j - 1 - 1]
        BY <2>1 DEF DigitAt
      <3> QED BY <3>1, <3>2
    <2>2. CASE ~(j > 2)
      <3>1. DigitAt(s, j - 1 - 1) = 0
        BY <2>2 DEF DigitAt
      <3> QED BY <3>1
    <2> QED BY <2>1, <2>2
  <1>6. PICK val \in Int : val = Wrap(Shl(a.val, 6) + c) /\ EndsWith(val, b, c)
    <2>1. EndsWith(a.val, b0, b)
      BY <1>4, <1>5 DEF Decoded
    <2>2. Shifted(Wrap(Shl(a.val, 6) + c), a.val, c)
      BY <1>1, ShiftIn
    <2>3. PICK v \in Int, w \in Int : v = a.val /\ w = Wrap(Shl(a.val, 6) + c)
      BY <1>1, <2>2 DEF Shifted
    <2>4. EndsWith(v, b0, b) /\ Shifted(w, v, c)
      BY <2>1, <2>2, <2>3
    <2>6. b0 \in 0..64 /\ b \in 0..63 /\ c \in 0..63
      BY <1>2, <1>4, <1>5
    <2>5. EndsWith(w, b, c)
      BY <2>4, <2>6, TwelveBits
    <2> QED BY <2>3, <2>5
  <1>7. /\ Shr(val, 4, 8) = Taken(b, c, 4) /\ Shr(val, 2, 8) = Taken(b, c, 2)
        /\ Shr(val, 0, 8) = Taken(b, c, 0)
        /\ \A k \in {0, 2, 4} : Taken(b, c, k) \in Int
    BY <1>2, <1>4, <1>6, TakeOut
  <1>8. c # Pad
    BY <1>2 DEF Pad
  <1> DEFINE d == DecodeStep(a, c)
  <1>9. /\ d.stop = FALSE /\ d.val = val
        /\ a.valb = -8 => d.valb = -2 /\ d.out = a.out
        /\ a.valb = -2 => d.valb = -4 /\ d.out = Append(a.out, Shr(val, 4, 8))
        /\ a.valb = -4 => d.valb = -6 /\ d.out = Append(a.out, Shr(val, 2, 8))
        /\ a.valb = -6 => d.valb = -8 /\ d.out = Append(a.out, Shr(val, 0, 8))
    <2>1. Follows(d, a, val)
      BY <1>1, <1>6, <1>8, DecodeStepFields
    <2> QED BY <2>1 DEF Follows
  <1> HIDE DEF d
  <1>10. PICK g \in Nat :
            \/ j - 1 = 4*g     /\ Len(a.out) = 3*g     /\ a.valb = -8
            \/ j - 1 = 4*g + 1 /\ Len(a.out) = 3*g     /\ a.valb = -2
            \/ j - 1 = 4*g + 2 /\ Len(a.out) = 3*g + 1 /\ a.valb = -4
            \/ j - 1 = 4*g + 3 /\ Len(a.out) = 3*g + 2 /\ a.valb = -6
    BY DEF Decoded, Phase
  <1>11. /\ Byte(s, 3*g + 1) = Taken(s[4*g + 1], s[4*g + 2], 4)
         /\ Byte(s, 3*g + 2) = Taken(s[4*g + 2], s[4*g + 3], 2)
         /\ Byte(s, 3*g + 3) = Taken(s[4*g + 3], s[4*g + 4], 0)
    BY BytesAre
  <1>12. j > 1 => b = s[j - 1]
    BY <1>4 DEF DigitAt
  <1>13. CASE j - 1 = 4*g /\ Len(a.out) = 3*g /\ a.valb = -8
    <2>1. j = 4*g + 1
      BY <1>13
    <2>2. Phase(d, j)
      BY <1>9, <1>13, <2>1 DEF Phase
    <2>3. \A k \in 1..Len(d.out) : d.out[k] = Byte(s, k)
      BY <1>1, <1>9, <1>13
    <2> QED BY <1>2, <1>3, <1>4, <1>6, <1>9, <2>2, <2>3 DEF Decoded, d
  <1>14. CASE j - 1 = 4*g + 1 /\ Len(a.out) = 3*g /\ a.valb = -2
    <2>1. j = 4*g + 2 /\ j > 1 /\ j - 1 = 4*g + 1
      BY <1>14
    <2>2. Byte(s, 3*g + 1) = Taken(b, c, 4)
      BY <1>2, <1>11, <1>12, <2>1
    <2>3. PICK x \in Int, m \in Nat : x = Taken(b, c, 4) /\ m = 3*g + 1
      BY <1>7
    <2>4. x = Byte(s, m) /\ m = Len(a.out) + 1 /\ d.out = Append(a.out, x)
      BY <1>7, <1>9, <1>14, <2>2, <2>3
    <2>5. Len(d.out) = m /\ \A k \in 1..Len(d.out) : d.out[k] = Byte(s, k)
      BY <1>1, <2>4, ByteAdded
    <2>6. Phase(d, j)
      BY <1>9, <1>14, <2>1, <2>3, <2>5 DEF Phase
    <2> QED BY <1>2, <1>3, <1>4, <1>6, <1>9, <2>5, <2>6 DEF Decoded, d
  <1>15. CASE j - 1 = 4*g + 2 /\ Len(a.out) = 3*g + 1 /\ a.valb = -4
    <2>1. j = 4*g + 3 /\ j > 1 /\ j - 1 = 4*g + 2
      BY <1>15
    <2>2. Byte(s, 3*g + 2) = Taken(b, c, 2)
      BY <1>2, <1>11, <1>12, <2>1
    <2>3. PICK x \in Int, m \in Nat : x = Taken(b, c, 2) /\ m = 3*g + 2
      BY <1>7
    <2>4. x = Byte(s, m) /\ m = Len(a.out) + 1 /\ d.out = Append(a.out, x)
      BY <1>7, <1>9, <1>15, <2>2, <2>3
    <2>5. Len(d.out) = m /\ \A k \in 1..Len(d.out) : d.out[k] = Byte(s, k)
      BY <1>1, <2>4, ByteAdded
    <2>6. Phase(d, j)
      BY <1>9, <1>15, <2>1, <2>3, <2>5 DEF Phase
    <2> QED BY <1>2, <1>3, <1>4, <1>6, <1>9, <2>5, <2>6 DEF Decoded, d
  <1>16. CASE j - 1 = 4*g + 3 /\ Len(a.out) = 3*g + 2 /\ a.valb = -6
    <2>1. j = 4*g + 4 /\ j > 1 /\ j - 1 = 4*g + 3
      BY <1>16
    <2>2. Byte(s, 3*g + 3) = Taken(b, c, 0)
      BY <1>2, <1>11, <1>12, <2>1
    <2>3. PICK x \in Int, m \in Nat, h \in Nat : x = Taken(b, c, 0) /\ m = 3*g + 3 /\ h = g + 1
      BY <1>7
    <2>4. x = Byte(s, m) /\ m = Len(a.out) + 1 /\ d.out = Append(a.out, x)
      BY <1>7, <1>9, <1>16, <2>2, <2>3
    <2>5. Len(d.out) = m /\ \A k \in 1..Len(d.out) : d.out[k] = Byte(s, k)
      BY <1>1, <2>4, ByteAdded
    <2>6. j = 4*h /\ Len(d.out) = 3*h
      BY <2>1, <2>3, <2>5
    <2>7. Phase(d, j)
      BY <1>9, <1>16, <2>6 DEF Phase
    <2> QED BY <1>2, <1>3, <1>4, <1>6, <1>9, <2>5, <2>7 DEF Decoded, d
  <1> QED BY <1>10, <1>13, <1>14, <1>15, <1>16

\* The digits in front of the first Pad.
LEMMA DigitsIn ==
    ASSUME NEW T, NEW s \in Seq(T), NEW m \in Nat, m = Len(s)
    PROVE  \E n \in 0..m :
               /\ n = IF Pad \in Range(s) THEN SelectInSeq(s, LAMBDA c : c = Pad) - 1 ELSE Len(s)
               /\ \A k \in 1..n : s[k] # Pad
               /\ n < m => s[n + 1] = Pad
  <1> DEFINE I == {i \in 1..Len(s) : s[i] = Pad}
  <1>1. SelectInSeq(s, LAMBDA c : c = Pad) = IF I # {} THEN Min(I) ELSE 0
    BY DEF SelectInSeq
  <1>2. Pad \in Range(s) <=> I # {}
    <2>1. Range(s) = {s[i] : i \in 1..Len(s)}
      BY RangeEquality
    <2> QED BY <2>1
  <1>3. CASE I = {}
    <2>1. \A k \in 1..m : s[k] # Pad
      BY <1>3
    <2>2. ~(m < m)
      OBVIOUS
    <2> HIDE DEF I
    <2> QED BY <1>2, <1>3, <2>1, <2>2
  <1>4. CASE I # {}
    <2>1. I \subseteq Nat /\ \A i \in I : i \in 1..m /\ s[i] = Pad
      OBVIOUS
    <2>2. ASSUME NEW k \in 1..m, s[k] = Pad PROVE k \in I
      BY <2>2
    <2> HIDE DEF I
    <2>3. PICK i \in I : i = Min(I) /\ \A k \in I : i <= k
      BY <1>4, <2>1, MinIn
    <2>4. PICK n \in 0..m : n = i - 1 /\ n + 1 = i
      BY <2>1, <2>3
    <2>5. \A k \in 1..n : s[k] # Pad
      <3> SUFFICES ASSUME NEW k \in 1..n, s[k] = Pad PROVE FALSE
        OBVIOUS
      <3>1. k \in I
        BY <2>2
      <3> QED BY <2>1, <2>3, <2>4, <3>1
    <2>6. s[n + 1] = Pad
      BY <2>1, <2>4
    <2> QED BY <1>1, <1>2, <1>4, <2>3, <2>4, <2>5, <2>6
  <1> QED BY <1>3, <1>4

\* base64_decode (base64.h:27-47) gives the bytes that the digits denote, however
\* long the text is: what the int loses was read before.
THEOREM DecodesDigits == ASSUME NEW s \in Seq(0..64) PROVE Decode(s) = Denoted(s)
  <1>1. PICK m \in Nat : m = Len(s) /\ s \in [1..m -> 0..64]
    BY LenProperties
  <1>2. PICK n \in 0..m :
            /\ n = IF Pad \in Range(s) THEN SelectInSeq(s, LAMBDA c : c = Pad) - 1 ELSE Len(s)
            /\ \A k \in 1..n : s[k] # Pad
            /\ n < m => s[n + 1] = Pad
    BY <1>1, DigitsIn
  <1>3. PICK g : /\ g[0] = [val |-> 0, valb |-> -8, out |-> <<>>, stop |-> FALSE]
                 /\ \A k \in 1..m : g[k] = DecodeStep(g[k - 1], s[k])
                 /\ \A k \in 0..m : g[k] \in DecodeStates
                 /\ Decode(s) = g[m].out
    BY <1>1, DecodeRuns
  <1> DEFINE Right(k) == IF k <= n THEN Decoded(g[k], s, k)
                         ELSE g[k].stop = TRUE /\ g[k].out = g[n].out
             wrong == {k \in 0..m : ~Right(k)}
  <1>4. Right(0)
    <2>1. EndsWith(0, 0, 0)
      BY DEF EndsWith
    <2>2. DigitAt(s, 0 - 1) = 0 /\ DigitAt(s, 0) = 0
      BY DEF DigitAt
    <2>3. g[0].stop = FALSE /\ g[0].val = 0 /\ g[0].valb = -8 /\ g[0].out = <<>>
      BY <1>3
    <2>4. Phase(g[0], 0)
      <3>1. 0 = 4 * 0 /\ 0 = 3 * 0 /\ 0 \in Nat /\ Len(<<>>) = 0
        OBVIOUS
      <3> QED BY <2>3, <3>1 DEF Phase
    <2>5. \A k \in 1..Len(g[0].out) : g[0].out[k] = Byte(s, k)
      BY <2>3
    <2> QED BY <2>1, <2>2, <2>3, <2>4, <2>5 DEF Decoded
  <1>5. ASSUME NEW k \in 1..m, Right(k - 1) PROVE Right(k)
    <2>1. g[k] = DecodeStep(g[k - 1], s[k]) /\ g[k - 1] \in DecodeStates
      BY <1>3
    <2>2. CASE k <= n
      <3>1. Decoded(g[k - 1], s, k - 1)
        BY <1>5, <2>2
      <3>2. s[k] # Pad /\ (k > 1 => s[k - 1] # Pad)
        <4>1. k \in 1..n /\ (k > 1 => k - 1 \in 1..n)
          BY <2>2
        <4> QED BY <1>2, <4>1
      <3>3. Decoded(DecodeStep(g[k - 1], s[k]), s, k)
        BY <1>1, <2>1, <3>1, <3>2, DecodeDigit
      <3> QED BY <2>1, <2>2, <3>3
    <2>3. CASE k = n + 1
      <3>1. s[k] = Pad /\ k - 1 = n
        BY <1>2, <2>3
      <3>2. g[k] = [g[k - 1] EXCEPT !.stop = TRUE]
        BY <2>1, <3>1 DEF DecodeStep
      <3>3. g[k].stop = TRUE /\ g[k].out = g[k - 1].out
        BY <2>1, <3>2 DEF DecodeStates
      <3> QED BY <2>3, <3>1, <3>3
    <2>4. CASE k > n + 1
      <3>1. g[k - 1].stop = TRUE /\ g[k - 1].out = g[n].out
        BY <1>5, <2>4
      <3>2. g[k] = [g[k - 1] EXCEPT !.stop = TRUE]
        BY <2>1, <3>1 DEF DecodeStep
      <3>3. g[k].stop = TRUE /\ g[k].out = g[k - 1].out
        BY <2>1, <3>2 DEF DecodeStates
      <3> QED BY <2>4, <3>1, <3>3
    <2> HIDE DEF Right
    <2> QED BY <2>2, <2>3, <2>4
  <1> HIDE DEF Right
  <1>6. wrong = {}
    <2> SUFFICES ASSUME wrong # {} PROVE FALSE
      OBVIOUS
    <2>1. wrong \subseteq Nat
      OBVIOUS
    <2>2. PICK k \in wrong : \A j \in wrong : k <= j
      <3> HIDE DEF wrong
      <3> QED BY <2>1, Least
    <2>3. k \in 0..m /\ ~Right(k)
      OBVIOUS
    <2>4. k \in 1..m /\ k - 1 \in 0..m
      BY <1>4, <2>3
    <2>5. k - 1 \notin wrong
      <3> HIDE DEF wrong
      <3> QED BY <2>2, <2>4
    <2> QED BY <1>5, <2>3, <2>4, <2>5
  <1>7. \A k \in 0..m : Right(k)
    BY <1>6
  <1>8. Decoded(g[n], s, n)
    BY <1>7 DEF Right
  <1>9. g[m].out = g[n].out
    BY <1>7 DEF Right
  <1>10. Len(g[n].out) = (6 * n) \div 8
    <2>1. PICK h \in Nat :
            \/ n = 4*h     /\ Len(g[n].out) = 3*h
            \/ n = 4*h + 1 /\ Len(g[n].out) = 3*h
            \/ n = 4*h + 2 /\ Len(g[n].out) = 3*h + 1
            \/ n = 4*h + 3 /\ Len(g[n].out) = 3*h + 2
      BY <1>8 DEF Decoded, Phase
    <2>2. PICK l \in Int, k \in Nat : l = Len(g[n].out) /\ k = n
      BY <2>1
    <2>3. l = (6 * k) \div 8
      BY <2>1, <2>2
    <2> QED BY <2>2, <2>3
  <1>11. g[n].out = [k \in 1..(6 * n) \div 8 |-> Byte(s, k)]
    <2>1. g[n].out \in Seq(Int)
      BY <1>3 DEF DecodeStates
    <2>2. PICK o : o = g[n].out
      OBVIOUS
    <2>3. o = [k \in 1..Len(o) |-> o[k]]
      <3>1. o \in Seq(Int)
        BY <2>1, <2>2
      <3> QED BY ONLY <3>1
    <2>4. g[n].out = [k \in 1..Len(g[n].out) |-> g[n].out[k]]
      BY <2>2, <2>3
    <2> QED BY <1>8, <1>10, <2>4 DEF Decoded
  <1>12. Denoted(s) = [k \in 1..(6 * n) \div 8 |-> Byte(s, k)]
    BY <1>2 DEF Denoted, Byte, Taken
  <1> QED BY <1>3, <1>9, <1>11, <1>12

=============================================================================
