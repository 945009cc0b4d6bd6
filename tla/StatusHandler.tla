---------------------------- MODULE StatusHandler ----------------------------
(***************************************************************************)
(* The status page (status_handler.cc) beside the requests that are being  *)
(* counted (webserver.cc): a worker either counts the answer of a request, *)
(* or builds the page, for which it takes the keys of the counters in one  *)
(* call and then the row of each key in a call of its own, while the other *)
(* workers go on counting.  A request for the page is counted like every   *)
(* other once the page is built.  Nobody but a test calls get(), which     *)
(* belongs to the interface all the same: here a worker may, as often as   *)
(* it likes, so that traffic need not end although answers are counted     *)
(* MaxRequests times only.                                                 *)
(***************************************************************************)
EXTENDS MultiMapCounter

CONSTANTS
    StatusKey,     \* the URI of the status page
    Asked,         \* bound: the counts that are asked for
    MaxRequests    \* bound: answers counted

ASSUME StatusAssumption ==
    /\ StatusKey \in Outer
    /\ Asked \subseteq [outer : Outer, inner : Inner]
    /\ 1 \in Deltas /\ MaxRequests \in Nat

VARIABLES
    phase,    \* phase[t]: what worker t is doing
    keys,     \* keys[t]: the keys of which no row was read yet
    rows,     \* rows[t]: the rows of the page so far
    base,     \* history: the counters when the page was begun
    requests  \* answers counted so far, to bound the model

page    == <<keys, rows, base>>
allvars == <<vars, phase, page, requests>>

InitAll ==
    /\ Init
    /\ phase = [t \in Threads |-> "free"]
    /\ keys  = [t \in Threads |-> {}]
    /\ rows  = [t \in Threads |-> <<>>]
    /\ base  = [t \in Threads |-> Totals]
    /\ requests = 0

CountCall(o, i) == [kind |-> "increment", outer |-> o, inner |-> i, delta |-> 1]
KeysCall   == [kind |-> "getKeys", outer |-> AnyOuter, inner |-> AnyInner,
               delta |-> AnyDelta]
RowCall(o) == [kind |-> "iterateKey", outer |-> o, inner |-> AnyInner,
               delta |-> AnyDelta]

GetCall(o, i) == [kind |-> "get", outer |-> o, inner |-> i, delta |-> AnyDelta]

\* An answer is counted, counters_.increment(req->uri(), resp.status()).
CountAnswer(t) ==
    \E o \in Outer, i \in Inner :
        /\ phase[t] = "free" /\ requests < MaxRequests
        /\ Begin(t, CountCall(o, i))
        /\ phase' = [phase EXCEPT ![t] = "counting"]
        /\ requests' = requests + 1
        /\ UNCHANGED page

\* A count is asked for.
AskCount(t) ==
    \E ask \in Asked :
        /\ phase[t] = "free"
        /\ Begin(t, GetCall(ask.outer, ask.inner))
        /\ phase' = [phase EXCEPT ![t] = "counting"]
        /\ UNCHANGED <<page, requests>>

Counted(t) ==
    /\ phase[t] = "counting" /\ pc[t] = "idle"
    /\ phase' = [phase EXCEPT ![t] = "free"]
    /\ UNCHANGED <<vars, page, requests>>

\* for (auto k : counters->getKeys())
TakeKeys(t) ==
    /\ phase[t] = "free" /\ requests < MaxRequests
    /\ Begin(t, KeysCall)
    /\ phase' = [phase EXCEPT ![t] = "keys"]
    /\ base'  = [base EXCEPT ![t] = Totals]
    /\ rows'  = [rows EXCEPT ![t] = <<>>]
    /\ UNCHANGED <<keys, requests>>

GotKeys(t) ==
    /\ phase[t] = "keys" /\ pc[t] = "idle"
    /\ keys'  = [keys EXCEPT ![t] = ret[t].keys]
    /\ phase' = [phase EXCEPT ![t] = "page"]
    /\ UNCHANGED <<vars, rows, base, requests>>

\* Faulty: the loop over the keys does not go on to the next one.
GotRow_SameKey(t) ==
    LET k == op[t].outer IN
    /\ phase[t] = "row" /\ pc[t] = "idle"
    /\ rows'  = [rows EXCEPT ![t] =
                   [o \in DOMAIN rows[t] \cup {k} |-> IF o = k THEN ret[t].row ELSE rows[t][o]]]
    /\ phase' = [phase EXCEPT ![t] = "page"]
    /\ UNCHANGED <<vars, keys, base, requests>>

\* for (auto c : counters->iterateKey(k))
TakeRow(t) ==
    \E k \in keys[t] :
        /\ phase[t] = "page"
        /\ Begin(t, RowCall(k))
        /\ phase' = [phase EXCEPT ![t] = "row"]
        /\ UNCHANGED <<page, requests>>

GotRow(t) ==
    LET k == op[t].outer IN
    /\ phase[t] = "row" /\ pc[t] = "idle"
    /\ rows'  = [rows EXCEPT ![t] =
                   [o \in DOMAIN rows[t] \cup {k} |-> IF o = k THEN ret[t].row ELSE rows[t][o]]]
    /\ keys'  = [keys EXCEPT ![t] = @ \ {k}]
    /\ phase' = [phase EXCEPT ![t] = "page"]
    /\ UNCHANGED <<vars, base, requests>>

\* The page is complete; its own request is counted.
Finish(t) ==
    \E i \in Inner :
        /\ phase[t] = "page" /\ keys[t] = {}
        /\ Begin(t, CountCall(StatusKey, i))
        /\ phase' = [phase EXCEPT ![t] = "counting"]
        /\ requests' = requests + 1
        /\ UNCHANGED page

\* A request may come or not ...
Arrive(t) == CountAnswer(t) \/ AskCount(t) \/ TakeKeys(t)

\* ... but a worker that has one goes on with it.
Work(t) ==
    \/ Step(t) /\ UNCHANGED <<phase, page, requests>>
    \/ Counted(t) \/ GotKeys(t) \/ TakeRow(t) \/ GotRow(t) \/ Finish(t)

NextAll == \E t \in Threads : Arrive(t) \/ Work(t)

SpecAll == InitAll /\ [][NextAll]_allvars /\ \A t \in Threads : WF_allvars(Work(t))

-----------------------------------------------------------------------------
(* Properties *)

\* The count a page shows.
Shown(t, o, i) == IF o \in DOMAIN rows[t] /\ i \in DOMAIN rows[t][o]
                  THEN rows[t][o][i] ELSE 0

\* Although it is not a snapshot, a finished page misses nothing that was
\* counted before it was begun, and shows nothing that has not been counted:
\* each number lies between those at its begin and its end.
PageBracketed ==
    \A t \in Threads : phase[t] = "page" /\ keys[t] = {} =>
        \A o \in Outer, i \in Inner :
            base[t][o][i] <= Shown(t, o, i) /\ Shown(t, o, i) <= Totals[o][i]

\* No other worker has a request in hand.
Alone(t) == \A u \in Threads \ {t} : phase[u] = "free"

\* A page is finished in the end when the traffic of the other workers stops, in
\* whatever moment of their calls and of its own.  The code promises no more:
\* its mutex is not fair, so traffic without end may keep a page waiting.
PageFinished ==
    \A t \in Threads : <>[]Alone(t) => (phase[t] = "keys" ~> phase[t] = "counting")

=============================================================================
