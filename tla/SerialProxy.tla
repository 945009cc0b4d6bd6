----------------------------- MODULE SerialProxy -----------------------------
(***************************************************************************)
(* What a handler behind one lock promises its callers: each call is       *)
(* served alone, and one that succeeds is answered from the place it asked *)
(* for.  A call may fail, and a caller may be lost inside with the line    *)
(* still taken; then nobody is served any more.                            *)
(***************************************************************************)

CONSTANTS Clients, Nobody, Places, Nowhere

VARIABLES
    phase,    \* phase[c]: outside, asking, or lost inside
    asked,    \* asked[c]: the place c wants the answer of
    line,     \* the client being served
    outcome,  \* outcome[c]: how its last call ended
    source    \* source[c]: the place the answer handed to c came from

vars == <<phase, asked, line, outcome, source>>

Init ==
    /\ phase   = [c \in Clients |-> "out"]
    /\ asked   = [c \in Clients |-> Nowhere]
    /\ line    = Nobody
    /\ outcome = [c \in Clients |-> "none"]
    /\ source  = [c \in Clients |-> Nowhere]

Ask(c) ==
    \E p \in Places :
        /\ phase[c] = "out"
        /\ phase'   = [phase EXCEPT ![c] = "asking"]
        /\ asked'   = [asked EXCEPT ![c] = p]
        /\ outcome' = [outcome EXCEPT ![c] = "none"]
        /\ source'  = [source EXCEPT ![c] = Nowhere]
        /\ UNCHANGED line

Begin(c) ==
    /\ phase[c] = "asking"
    /\ line = Nobody
    /\ line' = c
    /\ UNCHANGED <<phase, asked, outcome, source>>

Finish(c) ==
    /\ phase[c] = "asking"
    /\ line = c
    /\ line' = Nobody
    /\ phase' = [phase EXCEPT ![c] = "out"]
    /\ \/ /\ outcome' = [outcome EXCEPT ![c] = "OK"]
          /\ source'  = [source EXCEPT ![c] = asked[c]]
       \/ /\ outcome' = [outcome EXCEPT ![c] = "Error"]
          /\ UNCHANGED source
    /\ UNCHANGED asked

Lose(c) ==
    /\ phase[c] = "asking"
    /\ line = c
    /\ phase' = [phase EXCEPT ![c] = "lost"]
    /\ UNCHANGED <<asked, line, outcome, source>>

Next == \E c \in Clients : Ask(c) \/ Begin(c) \/ Finish(c) \/ Lose(c)

Spec == Init /\ [][Next]_vars

=============================================================================
