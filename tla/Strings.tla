------------------------------ MODULE Strings ------------------------------
(***************************************************************************)
(* The helpers for strings: splitting and the search for a prefix          *)
(* (utils.h), and base64 (base64.h).  A string is a sequence of            *)
(* characters.  Names are written with separators and with words that hold *)
(* none, as in <<"/", "a", ".", "md">>; text that is encoded is a sequence *)
(* of bytes.  A text in base64 is a sequence of the digits 0..63, and Pad. *)
(***************************************************************************)
EXTENDS Integers, Sequences, SequencesExt

CONSTANT IntSize   \* how many values an int has; the code reads 14 of its bits

ASSUME StringsAssumption == IntSize \in Nat \ {0} /\ IntSize % 16384 = 0

\* s is a sequence, of whatever elements.
IsSequence(s) == Len(s) \in Nat /\ s = [k \in 1..Len(s) |-> s[k]]

Pad   == 64
Colon == 58    \* ':'

-----------------------------------------------------------------------------
(* A faulty variant, which a property must tell apart *)

\* The search begins one character too late.
MapHasPrefix_Short(keys, s) ==
    LET match[n \in 0..Len(s)] ==
            IF n = 0 THEN <<>>
            ELSE IF SubSeq(s, 1, n) \in keys THEN SubSeq(s, 1, n) ELSE match[n - 1]
    IN  IF s = <<>> THEN <<>> ELSE match[Len(s) - 1]

-----------------------------------------------------------------------------
(* utils.h *)

\* split: getline() leaves out an empty piece at the end.
AddToPieces(v, c, delim) == IF c = delim THEN Append(v, <<>>)
                            ELSE [v EXCEPT ![Len(v)] = Append(@, c)]
Split(line, delim) ==
    LET v == FoldLeft(LAMBDA pieces, c : AddToPieces(pieces, c, delim), << <<>> >>, line)
    IN  IF Last(v) = <<>> THEN Front(v) ELSE v

\* mapHasPrefix: the key that is found, <<>> for nullptr.  The prefix is cut
\* character by character; the empty one is not looked up.
MapHasPrefix(keys, s) ==
    LET match[n \in 0..Len(s)] ==
            IF n = 0 THEN <<>>
            ELSE IF SubSeq(s, 1, n) \in keys THEN SubSeq(s, 1, n) ELSE match[n - 1]
    IN  match[Len(s)]

-----------------------------------------------------------------------------
(* base64.h *)

\* 2^k for k <= 8
Power(k) == <<1, 2, 4, 8, 16, 32, 64, 128, 256>>[k + 1]

\* What an int keeps of n, and n << k.
Wrap(n)   == ((n + IntSize \div 2) % IntSize) - IntSize \div 2
Shl(n, k) == Wrap(n * Power(k))
\* (n >> k) & (2^bits - 1); the shift is arithmetic.
Shr(n, k, bits) == (n \div Power(k)) % Power(bits)

\* base64_encode
Encode(in) ==
    LET step(a, c) ==
            LET val == Wrap(Shl(a.val, 8) + c)  valb == a.valb + 8 IN
            [val  |-> val,
             valb |-> (valb % 6) - 6,
             out  |-> a.out \o [k \in 1..(valb \div 6) + 1 |-> Shr(val, valb - 6*(k-1), 6)]]
        a    == FoldLeft(step, [val |-> 0, valb |-> -6, out |-> <<>>], in)
        full == IF a.valb > -6 THEN Append(a.out, Shr(Shl(a.val, 8), a.valb + 8, 6)) ELSE a.out
    IN  full \o [k \in 1..(-Len(full)) % 4 |-> Pad]

\* base64_decode: it ends at the first character that is no digit.
DecodeStep(a, c) ==
    LET val == Wrap(Shl(a.val, 6) + c)  valb == a.valb + 6 IN
    IF a.stop \/ c = Pad THEN [a EXCEPT !.stop = TRUE]
    ELSE IF valb < 0 THEN [a EXCEPT !.val = val, !.valb = valb]
    ELSE [a EXCEPT !.val = val, !.valb = valb - 8, !.out = Append(@, Shr(val, valb, 8))]
Decode(in) ==
    FoldLeft(DecodeStep, [val |-> 0, valb |-> -8, out |-> <<>>, stop |-> FALSE], in).out

-----------------------------------------------------------------------------
(* What they are to compute *)

\* The longest member of keys that s begins with, <<>> if there is none.
Longest(keys, s) ==
    LET C == {x \in keys : IsPrefix(x, s)} IN
    IF C = {} THEN <<>> ELSE CHOOSE x \in C : \A y \in C : Len(y) <= Len(x)

\* The bytes a text in base64 denotes: byte k is eight of the twelve bits of
\* two neighbouring digits.
Denoted(in) ==
    LET n == IF Pad \in Range(in) THEN SelectInSeq(in, LAMBDA c : c = Pad) - 1 ELSE Len(in)
    IN  [k \in 1..(6 * n) \div 8 |->
            LET bit == 8 * (k - 1)  i == bit \div 6 + 1 IN
            ((in[i] * 64 + in[i + 1]) \div Power(4 - (bit % 6))) % 256]

=============================================================================
