-------------------------------- MODULE Tally --------------------------------
(***************************************************************************)
(* What MultiMapCounter promises: a table of counters, all zero at first,  *)
(* on which every call takes effect at one moment between its start and    *)
(* its end.  How much of the table is stored does not show, except that    *)
(* getKeys and iterateKey may mention keys whose counter is zero.          *)
(***************************************************************************)
EXTENDS Integers

CONSTANTS Callers, Outer, Inner, Ops

\* What a call returns: a set of keys, a row, or a count.
NoAnswer     == [keys |-> {}, row |-> <<>>, count |-> 0]
KeysAre(set) == [keys |-> set, row |-> <<>>, count |-> 0]
RowIs(row)   == [keys |-> {}, row |-> row, count |-> 0]
CountIs(n)   == [keys |-> {}, row |-> <<>>, count |-> n]

VARIABLES
    total,    \* total[o][i]: the counters
    stage,    \* stage[t]: no call, called, or applied
    call,     \* call[t]: the operation
    answer    \* answer[t]: what it returns

vars == <<total, stage, call, answer>>

Init ==
    /\ total  = [o \in Outer |-> [i \in Inner |-> 0]]
    /\ stage  = [t \in Callers |-> "none"]
    /\ call  \in [Callers -> Ops]
    /\ answer = [t \in Callers |-> NoAnswer]

Ask(t) ==
    \E op \in Ops :
        /\ stage[t] = "none"
        /\ stage' = [stage EXCEPT ![t] = "called"]
        /\ call'  = [call EXCEPT ![t] = op]
        /\ UNCHANGED <<total, answer>>

Apply(t) ==
    /\ stage[t] = "called"
    /\ stage' = [stage EXCEPT ![t] = "applied"]
    /\ LET op == call[t] IN
       CASE op.kind = "increment" ->
              /\ total' = [total EXCEPT ![op.outer][op.inner] = @ + op.delta]
              /\ answer' = [answer EXCEPT ![t] = NoAnswer]
         [] op.kind = "get" ->
              /\ answer' = [answer EXCEPT ![t] = CountIs(total[op.outer][op.inner])]
              /\ UNCHANGED total
         [] op.kind = "getKeys" ->
              /\ \E keys \in SUBSET Outer :
                    /\ \A o \in Outer, i \in Inner : total[o][i] # 0 => o \in keys
                    /\ answer' = [answer EXCEPT ![t] = KeysAre(keys)]
              /\ UNCHANGED total
         [] op.kind = "iterateKey" ->
              /\ \E shown \in SUBSET Inner :
                    /\ \A i \in Inner \ shown : total[op.outer][i] = 0
                    /\ answer' = [answer EXCEPT ![t] =
                                    RowIs([i \in shown |-> total[op.outer][i]])]
              /\ UNCHANGED total
    /\ UNCHANGED call

Return(t) ==
    /\ stage[t] = "applied"
    /\ stage' = [stage EXCEPT ![t] = "none"]
    /\ UNCHANGED <<total, call, answer>>

Next == \E t \in Callers : Ask(t) \/ Apply(t) \/ Return(t)

Spec == Init /\ [][Next]_vars

=============================================================================
