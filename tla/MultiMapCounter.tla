--------------------------- MODULE MultiMapCounter ---------------------------
(***************************************************************************)
(* MultiMapCounter (multimap_counter.h): a map of maps of counters behind  *)
(* a mutex.  The server counts each answer in it, by URI and code, and the *)
(* status page reads it.  increment() looks the outer key up, and what it  *)
(* stores depends on what it found; get() and iterateKey() use operator[], *)
(* which looks the key up too, and creates the entry it does not find.     *)
(* Each lookup is a step before the one that uses it.  Who calls them is   *)
(* left to StatusHandler.                                                  *)
(***************************************************************************)
EXTENDS Integers, FiniteSets

CONSTANTS
    Threads,   \* callers
    NoThread,  \* owner of a free mutex
    Outer,     \* outer keys: URIs
    Inner,     \* inner keys: response codes
    Deltas     \* increments

ASSUME CounterAssumption ==
    /\ NoThread \notin Threads
    /\ Deltas \subseteq Int
    /\ Outer # {} /\ Inner # {} /\ Deltas # {}

AnyOuter == CHOOSE o \in Outer : TRUE
AnyInner == CHOOSE i \in Inner : TRUE
AnyDelta == CHOOSE d \in Deltas : TRUE

\* The calls of the interface; an argument that an operation does not have is
\* an arbitrary one.
Ops ==
    [kind : {"increment"}, outer : Outer, inner : Inner, delta : Deltas] \cup
    [kind : {"get"}, outer : Outer, inner : Inner, delta : {AnyDelta}] \cup
    [kind : {"iterateKey"}, outer : Outer, inner : {AnyInner}, delta : {AnyDelta}] \cup
    [kind : {"getKeys"}, outer : {AnyOuter}, inner : {AnyInner}, delta : {AnyDelta}]

\* What a call returns: a set of keys, a row, or a count.
NoAnswer     == [keys |-> {}, row |-> <<>>, count |-> 0]
KeysAre(set) == [keys |-> set, row |-> <<>>, count |-> 0]
RowIs(row)   == [keys |-> {}, row |-> row, count |-> 0]
CountIs(n)   == [keys |-> {}, row |-> <<>>, count |-> n]

VARIABLES
    map_,    \* a partial map of partial maps of counters
    mtx_,    \* its mutex: the owner
    pc,      \* pc[t]: the next step of t's call
    op,      \* op[t]: the call
    found,   \* found[t]: whether the call found its outer key
    ret      \* ret[t]: what the last call returned

vars == <<map_, mtx_, pc, op, found, ret>>

Init ==
    /\ map_ = <<>>
    /\ mtx_ = NoThread
    /\ pc = [t \in Threads |-> "idle"]
    /\ op = [t \in Threads |-> CHOOSE o \in Ops : TRUE]
    /\ found = [t \in Threads |-> FALSE]
    /\ ret = [t \in Threads |-> NoAnswer]

Goto(t, from, to) == pc[t] = from /\ pc' = [pc EXCEPT ![t] = to]

\* map_[o], map_[o][i] as operator[] gives them: new entries are empty, or 0.
RowOf(o)        == IF o \in DOMAIN map_ THEN map_[o] ELSE <<>>
CountOf(o, i)   == IF i \in DOMAIN RowOf(o) THEN RowOf(o)[i] ELSE 0
\* map_ after map_[o] = row, and a row after row[i] = n.
WithRow(o, row) == [k \in DOMAIN map_ \cup {o} |-> IF k = o THEN row ELSE map_[k]]
WithCount(row, i, n) == [k \in DOMAIN row \cup {i} |-> IF k = i THEN n ELSE row[k]]

-----------------------------------------------------------------------------
(* Faulty variants of the steps, which the properties must tell apart *)

\* The unique_lock is forgotten.
Lock_Missing(t) ==
    /\ Goto(t, "lock", IF op[t].kind = "getKeys" THEN "act" ELSE "find")
    /\ UNCHANGED <<map_, mtx_, op, found, ret>>

\* The whole row is assigned, not one of its counters.
Store_Overwrites(t, o, i, n) == map_' = WithRow(o, WithCount(<<>>, i, n))

\* The keys are taken in the wrong order.
Store_Swapped(t, o, i, n) == map_' = WithRow(i, WithCount(RowOf(i), o, n))

-----------------------------------------------------------------------------

\* A thread calls an operation.
Begin(t, o) ==
    /\ Goto(t, "idle", "lock")
    /\ op' = [op EXCEPT ![t] = o]
    /\ UNCHANGED <<map_, mtx_, found, ret>>

\* std::unique_lock<std::mutex> lck(mtx_)
Lock(t) ==
    /\ Goto(t, "lock", IF op[t].kind = "getKeys" THEN "act" ELSE "find")
    /\ mtx_ = NoThread
    /\ mtx_' = t
    /\ UNCHANGED <<map_, op, found, ret>>

\* auto outermatch = map_.find(outer_key), or the lookup of map_[outer_key]
Find(t) ==
    /\ Goto(t, "find", "act")
    /\ found' = [found EXCEPT ![t] = op[t].outer \in DOMAIN map_]
    /\ UNCHANGED <<map_, mtx_, op, ret>>

\* map_[o][i] = n
Store(t, o, i, n) == map_' = WithRow(o, WithCount(RowOf(o), i, n))

\* map_[o][i] = delta for a new outer key, += delta for a known one.
Increment(t) ==
    LET o == op[t].outer  i == op[t].inner IN
    /\ Goto(t, "act", "unlock")
    /\ op[t].kind = "increment"
    /\ Store(t, o, i, IF found[t] THEN CountOf(o, i) + op[t].delta ELSE op[t].delta)
    /\ ret' = [ret EXCEPT ![t] = NoAnswer]
    /\ UNCHANGED <<mtx_, op, found>>

\* map_[o] once o was looked up: the row that was found, or a new one.
RowFound(t) == IF found[t] THEN RowOf(op[t].outer) ELSE <<>>

\* return map_[o][i]
Get(t) ==
    LET i == op[t].inner
        n == IF found[t] THEN CountOf(op[t].outer, i) ELSE 0 IN
    /\ Goto(t, "act", "unlock")
    /\ op[t].kind = "get"
    /\ ret' = [ret EXCEPT ![t] = CountIs(n)]
    /\ map_' = WithRow(op[t].outer, WithCount(RowFound(t), i, n))
    /\ UNCHANGED <<mtx_, op, found>>

\* The outer keys, in the order of the map.
GetKeys(t) ==
    /\ Goto(t, "act", "unlock")
    /\ op[t].kind = "getKeys"
    /\ ret' = [ret EXCEPT ![t] = KeysAre(DOMAIN map_)]
    /\ UNCHANGED <<map_, mtx_, op, found>>

\* return map_[o], a copy
IterateKey(t) ==
    /\ Goto(t, "act", "unlock")
    /\ op[t].kind = "iterateKey"
    /\ ret' = [ret EXCEPT ![t] = RowIs(RowFound(t))]
    /\ map_' = WithRow(op[t].outer, RowFound(t))
    /\ UNCHANGED <<mtx_, op, found>>

\* The lock goes out of scope, and the call returns.
Unlock(t) ==
    /\ Goto(t, "unlock", "idle")
    /\ mtx_' = NoThread
    /\ UNCHANGED <<map_, op, found, ret>>

Step(t) == \/ Lock(t) \/ Find(t) \/ Increment(t) \/ Get(t) \/ GetKeys(t)
           \/ IterateKey(t) \/ Unlock(t)

-----------------------------------------------------------------------------
(* Properties *)

\* The counter as a table: what is not stored counts 0.
Totals == [o \in Outer |-> [i \in Inner |-> CountOf(o, i)]]

Stage(t) == CASE pc[t] = "idle" -> "none"
              [] pc[t] = "unlock" -> "applied"
              [] OTHER -> "called"

Table == INSTANCE Tally WITH
    Callers <- Threads,
    total   <- Totals,
    stage   <- [t \in Threads |-> Stage(t)],
    call    <- op,
    answer  <- ret

\* "A thread-safe map": every call takes effect at one moment, so no increment
\* is lost and no reader sees half of one.
ThreadSafe == Table!Spec

TypeOK ==
    /\ DOMAIN map_ \subseteq Outer
    /\ \A o \in DOMAIN map_ : DOMAIN map_[o] \subseteq Inner
                              /\ \A i \in DOMAIN map_[o] : map_[o][i] \in Int
    /\ mtx_ \in Threads \cup {NoThread}
    /\ pc \in [Threads -> {"idle", "lock", "find", "act", "unlock"}]
    /\ op \in [Threads -> Ops]
    /\ found \in [Threads -> BOOLEAN]

=============================================================================
