---------------------------- MODULE CounterProofs ----------------------------
(***************************************************************************)
(* Theorems about the counters and the page that shows them, for any       *)
(* number of workers, URIs and codes: the map implements Tally, and a page *)
(* lies between the counts at its begin and at its end.                    *)
(***************************************************************************)
EXTENDS StatusHandler, TLAPS

\* The map's rows are functions, so that a copy of one is all it says.
MapInv ==
    /\ DOMAIN map_ \subseteq Outer
    /\ \A o \in DOMAIN map_ : /\ DOMAIN map_[o] \subseteq Inner
                              /\ map_[o] = [i \in DOMAIN map_[o] |-> map_[o][i]]
                              /\ \A i \in DOMAIN map_[o] : map_[o][i] \in Int

\* A call is inside exactly while it owns the mutex.
OwnerInv == \A t \in Threads : pc[t] \in {"find", "act", "unlock"} <=> mtx_ = t

\* What the lookup said still holds when its result is used.
FoundInv ==
    \A t \in Threads : pc[t] = "act" /\ op[t].kind # "getKeys" =>
        found[t] = (op[t].outer \in DOMAIN map_)

CounterInv == TypeOK /\ MapInv /\ OwnerInv /\ FoundInv /\ DOMAIN ret = Threads

\* One step of the map, whoever calls it.
CounterNext == \E t \in Threads : Step(t) \/ \E o \in Ops : Begin(t, o)

-----------------------------------------------------------------------------
(* Rows and tables *)

LEMMA Chosen == AnyOuter \in Outer /\ AnyInner \in Inner /\ AnyDelta \in Deltas
  BY CounterAssumption DEF AnyOuter, AnyInner, AnyDelta

LEMMA OpsFields ==
    ASSUME NEW o \in Ops
    PROVE  o.outer \in Outer /\ o.inner \in Inner /\ o.delta \in Int
  BY Chosen, CounterAssumption DEF Ops

LEMMA EmptyRow == <<>> = [i \in {} |-> 0] /\ DOMAIN <<>> = {}
  OBVIOUS

\* operator[] gives a row and a count whatever is stored.
LEMMA RowType ==
    ASSUME MapInv, NEW o \in Outer
    PROVE  /\ DOMAIN RowOf(o) \subseteq Inner
           /\ RowOf(o) = [i \in DOMAIN RowOf(o) |-> RowOf(o)[i]]
           /\ \A i \in DOMAIN RowOf(o) : RowOf(o)[i] \in Int
           /\ \A i \in Inner : CountOf(o, i) \in Int
  <1>1. CASE o \in DOMAIN map_
    BY <1>1 DEF MapInv, RowOf, CountOf
  <1>2. CASE o \notin DOMAIN map_
    BY <1>2, EmptyRow DEF RowOf, CountOf
  <1> QED BY <1>1, <1>2

LEMMA TotalsType == MapInv => Totals \in [Outer -> [Inner -> Int]]
  BY RowType DEF Totals

\* Storing a row keeps the map's type and changes the counts of that row only.
LEMMA StoreRow ==
    ASSUME MapInv, NEW o \in Outer, NEW row,
           DOMAIN row \subseteq Inner, row = [i \in DOMAIN row |-> row[i]],
           \A i \in DOMAIN row : row[i] \in Int,
           map_' = WithRow(o, row)
    PROVE  /\ MapInv'
           /\ Totals' = [Totals EXCEPT ![o] =
                            [i \in Inner |-> IF i \in DOMAIN row THEN row[i] ELSE 0]]
  <1>1. /\ DOMAIN map_' = DOMAIN map_ \cup {o}
        /\ \A p \in DOMAIN map_' : map_'[p] = IF p = o THEN row ELSE map_[p]
    BY DEF WithRow
  <1>2. MapInv'
    BY <1>1 DEF MapInv
  <1>3. Totals' = [Totals EXCEPT ![o] =
                      [i \in Inner |-> IF i \in DOMAIN row THEN row[i] ELSE 0]]
    BY <1>1 DEF Totals, CountOf, RowOf
  <1> QED BY <1>2, <1>3

\* map_[o][i] = n changes one count.
LEMMA StoreCount ==
    ASSUME MapInv, NEW o \in Outer, NEW i \in Inner, NEW n \in Int,
           map_' = WithRow(o, WithCount(RowOf(o), i, n))
    PROVE  MapInv' /\ Totals' = [Totals EXCEPT ![o][i] = n]
  <1> DEFINE row == WithCount(RowOf(o), i, n)
  <1>1. /\ DOMAIN row = DOMAIN RowOf(o) \cup {i}
        /\ row = [j \in DOMAIN row |-> row[j]]
        /\ \A j \in DOMAIN row : row[j] = IF j = i THEN n ELSE RowOf(o)[j]
    BY DEF WithCount
  <1>2. DOMAIN row \subseteq Inner /\ \A j \in DOMAIN row : row[j] \in Int
    BY <1>1, RowType
  <1>3. map_' = WithRow(o, row)
    OBVIOUS
  <1>4. [j \in Inner |-> IF j \in DOMAIN row THEN row[j] ELSE 0] = [Totals[o] EXCEPT ![i] = n]
    <2> HIDE DEF row
    <2> QED BY <1>1 DEF Totals, CountOf
  <1> HIDE DEF row
  <1>5. /\ MapInv'
        /\ Totals' = [Totals EXCEPT ![o] =
                         [j \in Inner |-> IF j \in DOMAIN row THEN row[j] ELSE 0]]
    BY <1>1, <1>2, <1>3, StoreRow
  <1> QED BY <1>4, <1>5

-----------------------------------------------------------------------------
(* What the steps of a call do to the counts *)

LEMMA IncrementEffect ==
    ASSUME CounterInv, NEW t \in Threads, Increment(t)
    PROVE  /\ MapInv'
           /\ Totals' = [Totals EXCEPT ![op[t].outer][op[t].inner] = @ + op[t].delta]
  <1>1. PICK o \in Outer, i \in Inner, d \in Int :
            o = op[t].outer /\ i = op[t].inner /\ d = op[t].delta
    BY OpsFields DEF CounterInv, TypeOK
  <1>2. CountOf(o, i) \in Int /\ Totals[o][i] = CountOf(o, i)
    BY RowType DEF CounterInv, Totals
  <1>3. found[t] = (o \in DOMAIN map_)
    BY <1>1 DEF CounterInv, FoundInv, Increment, Goto
  <1>4. (IF found[t] THEN CountOf(o, i) + d ELSE d) = CountOf(o, i) + d
    <2>1. CASE o \in DOMAIN map_
      BY <1>3, <2>1
    <2>2. CASE o \notin DOMAIN map_
      <3>1. CountOf(o, i) = 0
        BY <2>2, EmptyRow DEF CountOf, RowOf
      <3> QED BY <1>3, <2>2, <3>1
    <2> QED BY <2>1, <2>2
  <1>5. PICK n \in Int : n = CountOf(o, i) + d
    BY <1>2
  <1>6. map_' = WithRow(o, WithCount(RowOf(o), i, n))
    BY <1>1, <1>4, <1>5 DEF Increment, Store
  <1>7. MapInv' /\ Totals' = [Totals EXCEPT ![o][i] = n]
    BY <1>6, StoreCount DEF CounterInv
  <1> QED BY <1>1, <1>2, <1>5, <1>7

\* The row used after the lookup is the row that is stored.
LEMMA FoundRow ==
    ASSUME CounterInv, NEW t \in Threads, pc[t] = "act", op[t].kind # "getKeys"
    PROVE  /\ RowFound(t) = RowOf(op[t].outer)
           /\ \A i : (IF found[t] THEN CountOf(op[t].outer, i) ELSE 0) = CountOf(op[t].outer, i)
  <1>1. found[t] = (op[t].outer \in DOMAIN map_)
    BY DEF CounterInv, FoundInv
  <1>2. CASE op[t].outer \in DOMAIN map_
    BY <1>1, <1>2 DEF RowFound
  <1>3. CASE op[t].outer \notin DOMAIN map_
    BY <1>1, <1>3, EmptyRow DEF RowFound, RowOf, CountOf
  <1> QED BY <1>2, <1>3

LEMMA GetEffect ==
    ASSUME CounterInv, NEW t \in Threads, Get(t)
    PROVE  /\ MapInv' /\ Totals' = Totals
           /\ ret' = [ret EXCEPT ![t] = CountIs(CountOf(op[t].outer, op[t].inner))]
  <1>1. PICK o \in Outer, i \in Inner : o = op[t].outer /\ i = op[t].inner
    BY OpsFields DEF CounterInv, TypeOK
  <1>2. PICK n \in Int : n = CountOf(o, i) /\ n = Totals[o][i]
    BY RowType DEF CounterInv, Totals
  <1>6. pc[t] = "act" /\ op[t].kind = "get"
    BY DEF Get, Goto
  <1>7. /\ RowFound(t) = RowOf(o)
        /\ (IF found[t] THEN CountOf(o, i) ELSE 0) = n
    BY <1>1, <1>2, <1>6, FoundRow
  <1>3. map_' = WithRow(o, WithCount(RowOf(o), i, n)) /\ ret' = [ret EXCEPT ![t] = CountIs(n)]
    BY <1>1, <1>7 DEF Get
  <1>4. MapInv' /\ Totals' = [Totals EXCEPT ![o][i] = n]
    BY <1>3, StoreCount DEF CounterInv
  <1>5. Totals \in [Outer -> [Inner -> Int]]
    BY TotalsType DEF CounterInv
  <1> QED BY <1>1, <1>2, <1>3, <1>4, <1>5

LEMMA IterateEffect ==
    ASSUME CounterInv, NEW t \in Threads, IterateKey(t)
    PROVE  /\ MapInv' /\ Totals' = Totals
           /\ ret' = [ret EXCEPT ![t] = RowIs(RowOf(op[t].outer))]
  <1>1. PICK o \in Outer : o = op[t].outer
    BY OpsFields DEF CounterInv, TypeOK
  <1>4. pc[t] = "act" /\ op[t].kind = "iterateKey"
    BY DEF IterateKey, Goto
  <1>2. map_' = WithRow(o, RowOf(o)) /\ ret' = [ret EXCEPT ![t] = RowIs(RowOf(o))]
    BY <1>1, <1>4, FoundRow DEF IterateKey
  <1>3. /\ MapInv'
        /\ Totals' = [Totals EXCEPT ![o] = [i \in Inner |-> IF i \in DOMAIN RowOf(o)
                                                            THEN RowOf(o)[i] ELSE 0]]
    BY <1>2, RowType, StoreRow DEF CounterInv
  <1> QED BY <1>1, <1>2, <1>3 DEF Totals, CountOf

LEMMA Unchanged ==
    ASSUME CounterInv, UNCHANGED map_
    PROVE  MapInv' /\ Totals' = Totals
  BY DEF CounterInv, MapInv, Totals, CountOf, RowOf

\* Only increment() changes a count.
LEMMA StepEffect ==
    ASSUME CounterInv, NEW t \in Threads, Step(t)
    PROVE  /\ MapInv'
           /\ Totals' = IF Increment(t)
                        THEN [Totals EXCEPT ![op[t].outer][op[t].inner] = @ + op[t].delta]
                        ELSE Totals
  <1>1. CASE Increment(t)
    BY <1>1, IncrementEffect
  <1>2. CASE ~Increment(t) /\ Get(t)
    BY <1>2, GetEffect
  <1>3. CASE ~Increment(t) /\ IterateKey(t)
    BY <1>3, IterateEffect
  <1>4. CASE ~Increment(t) /\ (Lock(t) \/ Find(t) \/ GetKeys(t) \/ Unlock(t))
    BY <1>4, Unchanged DEF Lock, Find, GetKeys, Unlock
  <1> QED BY <1>1, <1>2, <1>3, <1>4 DEF Step

-----------------------------------------------------------------------------
(* The invariant of the map *)

LEMMA CounterInit == Init => CounterInv
  <1> SUFFICES ASSUME Init PROVE CounterInv
    OBVIOUS
  <1>1. MapInv
    BY EmptyRow DEF Init, MapInv
  <1>2. Ops # {}
    <2>1. [kind |-> "get", outer |-> AnyOuter, inner |-> AnyInner, delta |-> AnyDelta] \in Ops
      BY Chosen DEF Ops
    <2> QED BY <2>1
  <1>3. TypeOK
    BY <1>1, <1>2 DEF Init, TypeOK, MapInv
  <1>4. OwnerInv /\ FoundInv
    BY CounterAssumption DEF Init, OwnerInv, FoundInv
  <1> QED BY <1>1, <1>3, <1>4 DEF CounterInv, Init

LEMMA BeginKeeps ==
    ASSUME CounterInv, NEW t \in Threads, NEW o \in Ops, Begin(t, o)
    PROVE  CounterInv'
  <1>1. MapInv'
    BY Unchanged DEF Begin
  <1>2. TypeOK'
    BY <1>1 DEF CounterInv, TypeOK, Begin, Goto
  <1>3. OwnerInv'
    BY DEF CounterInv, OwnerInv, TypeOK, Begin, Goto
  <1>4. FoundInv'
    BY DEF CounterInv, FoundInv, TypeOK, Begin, Goto
  <1> QED BY <1>1, <1>2, <1>3, <1>4 DEF CounterInv, Begin

LEMMA StepKeeps ==
    ASSUME CounterInv, NEW t \in Threads, Step(t)
    PROVE  CounterInv'
  <1>1. MapInv'
    BY StepEffect
  <1>2. op' = op /\ DOMAIN ret' = Threads
    BY DEF CounterInv, Step, Lock, Find, Increment, Get, GetKeys, IterateKey, Unlock
  <1>3. TypeOK'
    <2>1. mtx_' \in Threads \cup {NoThread}
      BY DEF CounterInv, TypeOK, Step, Lock, Find, Increment, Get, GetKeys, IterateKey, Unlock
    <2>2. pc' \in [Threads -> {"idle", "lock", "find", "act", "unlock"}]
      BY DEF CounterInv, TypeOK, Step, Lock, Find, Increment, Get, GetKeys, IterateKey, Unlock, Goto
    <2>3. found' \in [Threads -> BOOLEAN]
      <3>1. CASE Find(t)
        <4>1. found' = [found EXCEPT ![t] = TRUE] \/ found' = [found EXCEPT ![t] = FALSE]
          <5>1. CASE op[t].outer \in DOMAIN map_
            BY <3>1, <5>1, (op[t].outer \in DOMAIN map_) = TRUE DEF Find
          <5>2. CASE op[t].outer \notin DOMAIN map_
            BY <3>1, <5>2, (op[t].outer \in DOMAIN map_) = FALSE DEF Find
          <5> QED BY <5>1, <5>2
        <4> QED BY <4>1 DEF CounterInv, TypeOK
      <3>2. CASE found' = found
        BY <3>2 DEF CounterInv, TypeOK
      <3> QED
        BY <3>1, <3>2 DEF Step, Lock, Increment, Get, GetKeys, IterateKey, Unlock
    <2> QED BY <1>1, <1>2, <2>1, <2>2, <2>3 DEF CounterInv, TypeOK, MapInv
  <1>4. OwnerInv'
    BY CounterAssumption
       DEF CounterInv, OwnerInv, TypeOK, Step, Lock, Find, Increment, Get, GetKeys, IterateKey, Unlock, Goto
  <1>5. FoundInv'
    <2>1. CASE Lock(t) \/ Find(t) \/ Unlock(t)
      BY <2>1 DEF CounterInv, FoundInv, TypeOK, Lock, Find, Unlock, Goto
    <2>2. CASE Increment(t) \/ Get(t) \/ GetKeys(t) \/ IterateKey(t)
      <3>1. pc[t] = "act" /\ pc' = [pc EXCEPT ![t] = "unlock"] /\ found' = found
        BY <2>2 DEF Increment, Get, GetKeys, IterateKey, Goto
      <3>2. \A s \in Threads : pc'[s] # "act"
        BY <3>1 DEF CounterInv, OwnerInv, TypeOK
      <3> QED BY <3>2 DEF FoundInv
    <2> QED BY <2>1, <2>2 DEF Step
  <1> QED BY <1>1, <1>2, <1>3, <1>4, <1>5 DEF CounterInv

-----------------------------------------------------------------------------
(* The map implements Tally: the step at "act" applies the call *)

LEMMA CallInit == Init => Table!Init
  <1> SUFFICES ASSUME Init PROVE Table!Init
    OBVIOUS
  <1>1. TypeOK /\ MapInv
    BY CounterInit DEF CounterInv
  <1>2. Totals = [o \in Outer |-> [i \in Inner |-> 0]]
    BY EmptyRow DEF Init, Totals, CountOf, RowOf
  <1>3. [t \in Threads |-> Stage(t)] = [t \in Threads |-> "none"]
    BY DEF Init, Stage
  <1>4. op \in [Threads -> Ops]
    BY <1>1 DEF TypeOK
  <1>5. ret = [t \in Threads |-> Table!NoAnswer]
    BY DEF Init, NoAnswer, Table!NoAnswer
  <1> QED BY <1>2, <1>3, <1>4, <1>5 DEF Table!Init

\* The stage of one caller moves with its place.
LEMMA StageMoves ==
    ASSUME TypeOK, NEW t \in Threads, NEW from, NEW to, Goto(t, from, to)
    PROVE  /\ pc[t] = from
           /\ [s \in Threads |-> Stage(s)]' =
                  [[s \in Threads |-> Stage(s)] EXCEPT ![t] =
                      CASE to = "idle" -> "none" [] to = "unlock" -> "applied"
                        [] OTHER -> "called"]
  BY DEF TypeOK, Goto, Stage

LEMMA CallStarts ==
    ASSUME CounterInv, NEW t \in Threads, NEW o \in Ops, Begin(t, o)
    PROVE  Table!Ask(t)
  <1>1. Goto(t, "idle", "lock") /\ op' = [op EXCEPT ![t] = o] /\ ret' = ret /\ map_' = map_
    BY DEF Begin
  <1>2. TypeOK
    BY DEF CounterInv
  <1>3. /\ pc[t] = "idle"
        /\ [s \in Threads |-> Stage(s)]' = [[s \in Threads |-> Stage(s)] EXCEPT ![t] = "called"]
    BY <1>1, <1>2, StageMoves
  <1>4. [s \in Threads |-> Stage(s)][t] = "none"
    BY <1>3 DEF Stage
  <1>5. Totals' = Totals
    BY <1>1, Unchanged
  <1> QED BY <1>1, <1>3, <1>4, <1>5 DEF Table!Ask

LEMMA CallEnds ==
    ASSUME CounterInv, NEW t \in Threads, Unlock(t)
    PROVE  Table!Return(t)
  <1>1. Goto(t, "unlock", "idle") /\ op' = op /\ ret' = ret /\ map_' = map_
    BY DEF Unlock
  <1>2. TypeOK
    BY DEF CounterInv
  <1>3. /\ pc[t] = "unlock"
        /\ [s \in Threads |-> Stage(s)]' = [[s \in Threads |-> Stage(s)] EXCEPT ![t] = "none"]
    BY <1>1, <1>2, StageMoves
  <1>4. [s \in Threads |-> Stage(s)][t] = "applied"
    BY <1>3 DEF Stage
  <1>5. Totals' = Totals
    BY <1>1, Unchanged
  <1> QED BY <1>1, <1>3, <1>4, <1>5 DEF Table!Return

\* Waiting for the mutex, and find(), do not show.
LEMMA CallWaits ==
    ASSUME CounterInv, NEW t \in Threads, Lock(t) \/ Find(t)
    PROVE  UNCHANGED <<Totals, [s \in Threads |-> Stage(s)], op, ret>>
  <1>1. /\ op' = op /\ ret' = ret /\ map_' = map_
        /\ pc[t] \in {"lock", "find"} /\ \E to \in {"find", "act"} : pc' = [pc EXCEPT ![t] = to]
    BY DEF Lock, Find, Goto
  <1>2. [s \in Threads |-> Stage(s)]' = [s \in Threads |-> Stage(s)]
    BY <1>1 DEF CounterInv, TypeOK, Stage
  <1> QED BY <1>1, <1>2, Unchanged

\* What a step at "act" must say to be Table!Apply.
LEMMA CallApplies ==
    ASSUME CounterInv, NEW t \in Threads,
           Increment(t) \/ Get(t) \/ GetKeys(t) \/ IterateKey(t)
    PROVE  Table!Apply(t)
  <1> DEFINE c == op[t]
  <1>1. Goto(t, "act", "unlock") /\ op' = op
    BY DEF Increment, Get, GetKeys, IterateKey
  <1>2. TypeOK
    BY DEF CounterInv
  <1>3. /\ pc[t] = "act"
        /\ [s \in Threads |-> Stage(s)]' = [[s \in Threads |-> Stage(s)] EXCEPT ![t] = "applied"]
    BY <1>1, <1>2, StageMoves
  <1>4. [s \in Threads |-> Stage(s)][t] = "called"
    BY <1>3 DEF Stage
  <1>5. c.outer \in Outer /\ c.inner \in Inner
    BY <1>2, OpsFields DEF TypeOK
  <1>6. \A o \in Outer, i \in Inner : Totals[o][i] = CountOf(o, i)
    BY DEF Totals
  <1>7. CASE Increment(t)
    <2>1. /\ c.kind = "increment"
          /\ Totals' = [Totals EXCEPT ![c.outer][c.inner] = @ + c.delta]
          /\ ret' = [ret EXCEPT ![t] = Table!NoAnswer]
      BY <1>7, IncrementEffect DEF Increment, NoAnswer, Table!NoAnswer
    <2> QED BY <1>1, <1>3, <1>4, <2>1 DEF Table!Apply
  <1>8. CASE Get(t)
    <2>1. /\ c.kind = "get"
          /\ Totals' = Totals
          /\ ret' = [ret EXCEPT ![t] = Table!CountIs(Totals[c.outer][c.inner])]
      BY <1>5, <1>6, <1>8, GetEffect DEF Get, CountIs, Table!CountIs
    <2> QED BY <1>1, <1>3, <1>4, <2>1 DEF Table!Apply
  <1>9. CASE GetKeys(t)
    <2>1. /\ c.kind = "getKeys"
          /\ Totals' = Totals
          /\ ret' = [ret EXCEPT ![t] = Table!KeysAre(DOMAIN map_)]
      BY <1>9, Unchanged DEF GetKeys, KeysAre, Table!KeysAre
    <2>2. DOMAIN map_ \in SUBSET Outer
      BY <1>2 DEF TypeOK
    <2>3. \A o \in Outer, i \in Inner : Totals[o][i] # 0 => o \in DOMAIN map_
      BY <1>6, EmptyRow DEF CountOf, RowOf
    <2> QED BY <1>1, <1>3, <1>4, <2>1, <2>2, <2>3 DEF Table!Apply
  <1>10. CASE IterateKey(t)
    <2>1. /\ c.kind = "iterateKey"
          /\ Totals' = Totals
          /\ ret' = [ret EXCEPT ![t] = Table!RowIs(RowOf(c.outer))]
      BY <1>10, IterateEffect DEF IterateKey, RowIs, Table!RowIs
    <2>2. DOMAIN RowOf(c.outer) \in SUBSET Inner
      BY <1>5, RowType DEF CounterInv
    <2>3. \A i \in Inner \ DOMAIN RowOf(c.outer) : Totals[c.outer][i] = 0
      BY <1>5, <1>6 DEF CountOf
    <2>4. RowOf(c.outer) = [i \in DOMAIN RowOf(c.outer) |-> Totals[c.outer][i]]
      BY <1>5, <1>6, <2>2, RowType DEF CounterInv, CountOf
    <2>5. ret' = [ret EXCEPT ![t] =
                     Table!RowIs([i \in DOMAIN RowOf(c.outer) |-> Totals[c.outer][i]])]
      BY <2>1, <2>4
    <2> QED BY <1>1, <1>3, <1>4, <2>1, <2>2, <2>3, <2>5 DEF Table!Apply
  <1> QED BY <1>7, <1>8, <1>9, <1>10

LEMMA CallStep == CounterInv /\ [CounterNext]_vars => [Table!Next]_(Table!vars)
  <1> SUFFICES ASSUME CounterInv, [CounterNext]_vars PROVE [Table!Next]_(Table!vars)
    OBVIOUS
  <1>1. CASE UNCHANGED vars
    <2>1. [s \in Threads |-> Stage(s)]' = [s \in Threads |-> Stage(s)]
      BY <1>1 DEF vars, Stage
    <2> QED BY <1>1, <2>1, Unchanged DEF vars, Table!vars
  <1>2. ASSUME NEW t \in Threads, NEW o \in Ops, Begin(t, o)
        PROVE  [Table!Next]_(Table!vars)
    BY <1>2, CallStarts DEF Table!Next
  <1>3. ASSUME NEW t \in Threads, Step(t)
        PROVE  [Table!Next]_(Table!vars)
    BY <1>3, CallEnds, CallWaits, CallApplies DEF Step, Table!Next, Table!vars
  <1> QED BY <1>1, <1>2, <1>3 DEF CounterNext

LEMMA CounterStep == CounterInv /\ [CounterNext]_vars => CounterInv'
  <1> SUFFICES ASSUME CounterInv, [CounterNext]_vars PROVE CounterInv'
    OBVIOUS
  <1>1. CASE UNCHANGED vars
    BY <1>1 DEF vars, CounterInv, TypeOK, MapInv, OwnerInv, FoundInv
  <1> QED BY <1>1, BeginKeeps, StepKeeps DEF CounterNext

-----------------------------------------------------------------------------
(* The status page *)

\* A worker between two calls has none open, and the call it has open is the
\* one its phase asks for.
PhaseInv ==
    /\ phase \in [Threads -> {"free", "counting", "keys", "page", "row"}]
    /\ keys \in [Threads -> SUBSET Outer]
    /\ DOMAIN rows = Threads
    /\ \A t \in Threads :
          /\ phase[t] \in {"free", "page"} => pc[t] = "idle"
          /\ phase[t] = "counting" /\ op[t].kind = "increment" => op[t].delta = 1
          /\ phase[t] = "keys" => op[t].kind = "getKeys"
          /\ phase[t] = "row" => op[t].kind = "iterateKey" /\ op[t].outer \in keys[t]

\* What was counted when the page was begun is still counted.
BaseInv ==
    /\ base \in [Threads -> [Outer -> [Inner -> Int]]]
    /\ \A t \in Threads, o \in Outer, i \in Inner :
           0 <= base[t][o][i] /\ base[t][o][i] <= Totals[o][i]

\* The counts of a row as a reader sees them.
Entry(row, i) == IF i \in DOMAIN row THEN row[i] ELSE 0

Answered(t) == pc[t] \in {"unlock", "idle"}

\* The answer to getKeys() names every URI counted before the page was begun.
KeysInv ==
    \A t \in Threads : phase[t] = "keys" /\ Answered(t) =>
        /\ ret[t].keys \subseteq Outer
        /\ \A o \in Outer, i \in Inner : base[t][o][i] # 0 => o \in ret[t].keys

\* The answer to iterateKey() lies between the counts at the page's begin and now.
RowInv ==
    \A t \in Threads : phase[t] = "row" /\ Answered(t) =>
        \A i \in Inner : /\ Entry(ret[t].row, i) \in Int
                         /\ base[t][op[t].outer][i] <= Entry(ret[t].row, i)
                         /\ Entry(ret[t].row, i) <= Totals[op[t].outer][i]

\* So does each row of the page so far.
RowsInv ==
    \A t \in Threads : phase[t] \in {"keys", "page", "row"} =>
        \A o \in Outer, i \in Inner : o \in DOMAIN rows[t] =>
            /\ Entry(rows[t][o], i) \in Int
            /\ base[t][o][i] <= Entry(rows[t][o], i)
            /\ Entry(rows[t][o], i) <= Totals[o][i]

\* A URI counted before the page was begun is on the page, or still to be read.
SeenInv ==
    \A t \in Threads : phase[t] \in {"page", "row"} =>
        \A o \in Outer, i \in Inner :
            base[t][o][i] # 0 => o \in keys[t] \/ o \in DOMAIN rows[t]

PageInv == PhaseInv /\ BaseInv /\ KeysInv /\ RowInv /\ RowsInv /\ SeenInv

StatusInv == CounterInv /\ PageInv

LEMMA Calls ==
    /\ \A o \in Outer, i \in Inner : CountCall(o, i) \in Ops /\ GetCall(o, i) \in Ops
    /\ \A o \in Outer : RowCall(o) \in Ops
    /\ KeysCall \in Ops
  BY Chosen, StatusAssumption DEF CountCall, GetCall, RowCall, KeysCall, Ops

LEMMA PageIsBracketed == StatusInv => PageBracketed
  <1> SUFFICES ASSUME StatusInv, NEW t \in Threads, phase[t] = "page" /\ keys[t] = {},
                      NEW o \in Outer, NEW i \in Inner
               PROVE  base[t][o][i] <= Shown(t, o, i) /\ Shown(t, o, i) <= Totals[o][i]
    BY DEF PageBracketed
  <1>1. 0 <= base[t][o][i] /\ base[t][o][i] <= Totals[o][i]
    BY DEF StatusInv, PageInv, BaseInv
  <1>2. CASE o \in DOMAIN rows[t]
    <2>1. Shown(t, o, i) = Entry(rows[t][o], i)
      BY <1>2 DEF Shown, Entry
    <2> QED BY <1>2, <2>1 DEF StatusInv, PageInv, RowsInv
  <1>3. CASE o \notin DOMAIN rows[t]
    <2>1. Shown(t, o, i) = 0
      BY <1>3 DEF Shown
    <2>2. base[t][o][i] = 0
      BY <1>3 DEF StatusInv, PageInv, SeenInv
    <2> QED BY <1>1, <2>1, <2>2
  <1> QED BY <1>2, <1>3

LEMMA StatusInit == InitAll => StatusInv
  <1> SUFFICES ASSUME InitAll PROVE StatusInv
    OBVIOUS
  <1>1. CounterInv
    BY CounterInit DEF InitAll
  <1>2. Totals = [o \in Outer |-> [i \in Inner |-> 0]]
    BY EmptyRow DEF InitAll, Init, Totals, CountOf, RowOf
  <1>3. PhaseInv
    BY DEF InitAll, Init, PhaseInv
  <1>4. BaseInv
    BY <1>2 DEF InitAll, BaseInv
  <1>5. KeysInv /\ RowInv /\ RowsInv /\ SeenInv
    BY DEF InitAll, KeysInv, RowInv, RowsInv, SeenInv
  <1> QED BY <1>1, <1>3, <1>4, <1>5 DEF StatusInv, PageInv

\* Counts only grow.
LEMMA StepGrows ==
    ASSUME StatusInv, NEW t \in Threads, Step(t)
    PROVE  /\ Totals' \in [Outer -> [Inner -> Int]]
           /\ \A o \in Outer, i \in Inner : Totals[o][i] <= Totals'[o][i]
  <1>1. Totals \in [Outer -> [Inner -> Int]]
    BY TotalsType DEF StatusInv, CounterInv
  <1>2. CASE Increment(t)
    <2>1. pc[t] = "act" /\ op[t].kind = "increment"
      BY <1>2 DEF Increment, Goto
    <2>2. op[t].delta = 1
      BY <2>1 DEF StatusInv, PageInv, PhaseInv
    <2>3. op[t].outer \in Outer /\ op[t].inner \in Inner
      BY OpsFields DEF StatusInv, CounterInv, TypeOK
    <2>4. Totals' = [Totals EXCEPT ![op[t].outer][op[t].inner] = @ + op[t].delta]
      BY <1>2, IncrementEffect DEF StatusInv
    <2> QED BY <1>1, <2>2, <2>3, <2>4
  <1>3. CASE ~Increment(t)
    <2>1. Totals' = Totals
      BY <1>3, StepEffect, Zenon DEF StatusInv
    <2> QED BY <1>1, <2>1
  <1> QED BY <1>2, <1>3

LEMMA StepKeepsPage ==
    ASSUME StatusInv, NEW t \in Threads, Step(t), UNCHANGED <<phase, page>>
    PROVE  PageInv'
  <1>1. /\ phase' = phase /\ keys' = keys /\ rows' = rows /\ base' = base /\ op' = op
        /\ pc[t] # "idle"
        /\ \A s \in Threads \ {t} : pc'[s] = pc[s] /\ ret'[s] = ret[s]
    BY DEF StatusInv, CounterInv, TypeOK, page, Step, Lock, Find, Increment, Get, GetKeys,
           IterateKey, Unlock, Goto
  <1>2. /\ Totals \in [Outer -> [Inner -> Int]] /\ Totals' \in [Outer -> [Inner -> Int]]
        /\ \A o \in Outer, i \in Inner : Totals[o][i] <= Totals'[o][i]
    BY StepGrows, TotalsType DEF StatusInv, CounterInv
  <1>3. PhaseInv'
    BY <1>1 DEF StatusInv, PageInv, PhaseInv
  <1>4. BaseInv'
    BY <1>1, <1>2 DEF StatusInv, PageInv, BaseInv
  <1>5. RowsInv'
    BY <1>1, <1>2 DEF StatusInv, PageInv, BaseInv, RowsInv
  <1>6. SeenInv'
    BY <1>1 DEF StatusInv, PageInv, SeenInv
  <1>7. \A s \in Threads \ {t} : phase[s] = "row" /\ Answered(s)' =>
            \A i \in Inner : /\ Entry(ret'[s].row, i) \in Int
                             /\ base[s][op[s].outer][i] <= Entry(ret'[s].row, i)
                             /\ Entry(ret'[s].row, i) <= Totals'[op[s].outer][i]
    <2> SUFFICES ASSUME NEW s \in Threads \ {t}, phase[s] = "row", Answered(s)', NEW i \in Inner
                 PROVE  /\ Entry(ret'[s].row, i) \in Int
                        /\ base[s][op[s].outer][i] <= Entry(ret'[s].row, i)
                        /\ Entry(ret'[s].row, i) <= Totals'[op[s].outer][i]
      OBVIOUS
    <2>1. Answered(s) /\ ret'[s] = ret[s]
      BY <1>1 DEF Answered
    <2>2. op[s].outer \in Outer
      BY OpsFields DEF StatusInv, CounterInv, TypeOK
    <2>3. /\ Entry(ret[s].row, i) \in Int
          /\ base[s][op[s].outer][i] <= Entry(ret[s].row, i)
          /\ Entry(ret[s].row, i) <= Totals[op[s].outer][i]
      BY <2>1 DEF StatusInv, PageInv, RowInv
    <2>4. /\ Totals[op[s].outer][i] \in Int /\ Totals'[op[s].outer][i] \in Int
          /\ Totals[op[s].outer][i] <= Totals'[op[s].outer][i]
      BY <1>2, <2>2
    <2> QED BY <2>1, <2>3, <2>4
  <1>8. CASE GetKeys(t)
    <2>1. /\ op[t].kind = "getKeys" /\ ret'[t].keys = DOMAIN map_
      BY <1>8 DEF GetKeys, KeysAre, StatusInv, CounterInv
    <2>2. \A o \in Outer, i \in Inner : base[t][o][i] # 0 => o \in DOMAIN map_
      <3> SUFFICES ASSUME NEW o \in Outer, NEW i \in Inner, base[t][o][i] # 0,
                          o \notin DOMAIN map_
                   PROVE  FALSE
        OBVIOUS
      <3>1. Totals[o][i] = 0
        BY EmptyRow DEF Totals, CountOf, RowOf
      <3> QED BY <3>1 DEF StatusInv, PageInv, BaseInv
    <2>3. DOMAIN map_ \subseteq Outer
      BY DEF StatusInv, CounterInv, TypeOK
    <2>4. KeysInv'
      BY <1>1, <2>1, <2>2, <2>3 DEF StatusInv, PageInv, KeysInv, Answered
    <2>5. phase[t] # "row"
      BY <2>1 DEF StatusInv, PageInv, PhaseInv
    <2>6. RowInv'
      BY <1>1, <1>7, <2>5 DEF RowInv
    <2> QED BY <1>3, <1>4, <1>5, <1>6, <2>4, <2>6 DEF PageInv
  <1>9. CASE IterateKey(t)
    <2>1. op[t].kind = "iterateKey" /\ ret'[t].row = RowOf(op[t].outer) /\ Totals' = Totals
      BY <1>9, IterateEffect DEF IterateKey, RowIs, StatusInv, CounterInv
    <2>2. phase[t] # "keys" /\ op[t].outer \in Outer
      BY <2>1, OpsFields DEF StatusInv, CounterInv, TypeOK, PageInv, PhaseInv
    <2>3. KeysInv'
      BY <1>1, <2>2 DEF StatusInv, PageInv, KeysInv, Answered
    <2>4. \A i \in Inner : Entry(ret'[t].row, i) = Totals[op[t].outer][i]
      BY <2>1, <2>2 DEF Entry, Totals, CountOf
    <2>5. RowInv'
      <3>1. \A i \in Inner : /\ Entry(ret'[t].row, i) \in Int
                             /\ base[t][op[t].outer][i] <= Entry(ret'[t].row, i)
                             /\ Entry(ret'[t].row, i) <= Totals'[op[t].outer][i]
        BY <1>2, <2>1, <2>2, <2>4 DEF StatusInv, PageInv, BaseInv
      <3> QED BY <1>1, <1>7, <3>1 DEF RowInv
    <2> QED BY <1>3, <1>4, <1>5, <1>6, <2>3, <2>5 DEF PageInv
  <1>10. CASE Unlock(t)
    <2>1. pc[t] = "unlock" /\ ret' = ret /\ Totals' = Totals
      BY <1>10, Unchanged DEF Unlock, Goto, StatusInv
    <2>2. \A s \in Threads : Answered(s)' => Answered(s)
      BY <1>1, <2>1 DEF Answered
    <2> QED BY <1>1, <1>3, <1>4, <1>5, <1>6, <2>1, <2>2 DEF StatusInv, PageInv, KeysInv, RowInv
  <1>11. CASE Lock(t) \/ Find(t)
    <2>1. ret' = ret /\ Totals' = Totals /\ pc'[t] \in {"find", "act"}
      BY <1>11, Unchanged DEF Lock, Find, Goto, StatusInv, CounterInv, TypeOK
    <2>2. \A s \in Threads : Answered(s)' => Answered(s)
      BY <1>1, <2>1 DEF Answered
    <2> QED BY <1>1, <1>3, <1>4, <1>5, <1>6, <2>1, <2>2 DEF StatusInv, PageInv, KeysInv, RowInv
  <1>12. CASE Increment(t) \/ Get(t)
    <2>1. phase[t] = "counting"
      BY <1>12 DEF Increment, Get, Goto, StatusInv, PageInv, PhaseInv
    <2>2. KeysInv'
      BY <1>1, <2>1 DEF StatusInv, PageInv, KeysInv, Answered
    <2>3. RowInv'
      BY <1>1, <1>7, <2>1 DEF RowInv
    <2> QED BY <1>3, <1>4, <1>5, <1>6, <2>2, <2>3 DEF PageInv
  <1> QED BY <1>8, <1>9, <1>10, <1>11, <1>12 DEF Step

\* A call that begins is not answered yet, and changes nothing of the others.
LEMMA Began ==
    ASSUME StatusInv, NEW t \in Threads, NEW c \in Ops, Begin(t, c)
    PROVE  /\ pc' = [pc EXCEPT ![t] = "lock"] /\ op' = [op EXCEPT ![t] = c]
           /\ ret' = ret /\ Totals' = Totals
           /\ ~Answered(t)' /\ op'[t] = c
           /\ \A s \in Threads \ {t} : Answered(s)' = Answered(s) /\ op'[s] = op[s]
  <1>1. /\ pc' = [pc EXCEPT ![t] = "lock"] /\ op' = [op EXCEPT ![t] = c]
        /\ ret' = ret /\ map_' = map_
    BY DEF Begin, Goto
  <1>2. pc'[t] = "lock" /\ op'[t] = c /\ \A s \in Threads \ {t} : pc'[s] = pc[s] /\ op'[s] = op[s]
    BY <1>1 DEF StatusInv, CounterInv, TypeOK
  <1> QED BY <1>1, <1>2, Unchanged DEF StatusInv, Answered

\* A call of a worker that has no page in hand.
LEMMA CountsKeepPage ==
    ASSUME StatusInv, NEW t \in Threads, NEW c \in Ops, Begin(t, c),
           c.kind = "increment" => c.delta = 1,
           phase' = [phase EXCEPT ![t] = "counting"], UNCHANGED page
    PROVE  PageInv'
  <1>1. keys' = keys /\ rows' = rows /\ base' = base
        /\ phase'[t] = "counting" /\ \A s \in Threads \ {t} : phase'[s] = phase[s]
    BY DEF page, StatusInv, PageInv, PhaseInv
  <1>2. PhaseInv'
    BY <1>1, Began DEF StatusInv, CounterInv, TypeOK, PageInv, PhaseInv
  <1>3. BaseInv'
    BY <1>1, Began DEF StatusInv, PageInv, BaseInv
  <1>4. KeysInv'
    BY <1>1, Began DEF StatusInv, PageInv, KeysInv
  <1>5. RowInv'
    BY <1>1, Began DEF StatusInv, PageInv, RowInv
  <1>6. RowsInv' /\ SeenInv'
    BY <1>1, Began DEF StatusInv, PageInv, RowsInv, SeenInv
  <1> QED BY <1>2, <1>3, <1>4, <1>5, <1>6 DEF PageInv

LEMMA TakeKeysKeepsPage ==
    ASSUME StatusInv, NEW t \in Threads, TakeKeys(t)
    PROVE  PageInv'
  <1>1. KeysCall \in Ops /\ Begin(t, KeysCall) /\ KeysCall.kind = "getKeys"
    BY Calls DEF TakeKeys, KeysCall
  <1>2. /\ phase' = [phase EXCEPT ![t] = "keys"] /\ keys' = keys
        /\ rows' = [rows EXCEPT ![t] = <<>>] /\ base' = [base EXCEPT ![t] = Totals]
        /\ phase'[t] = "keys" /\ base'[t] = Totals /\ rows'[t] = <<>>
        /\ \A s \in Threads \ {t} :
               phase'[s] = phase[s] /\ base'[s] = base[s] /\ rows'[s] = rows[s]
    BY DEF TakeKeys, StatusInv, PageInv, PhaseInv, BaseInv
  <1>3. Totals \in [Outer -> [Inner -> Int]]
    BY TotalsType DEF StatusInv, CounterInv
  <1>4. \A o \in Outer, i \in Inner : 0 <= Totals[o][i]
    BY <1>3 DEF StatusInv, PageInv, BaseInv
  <1>5. PhaseInv'
    BY <1>1, <1>2, Began DEF StatusInv, CounterInv, TypeOK, PageInv, PhaseInv
  <1>6. BaseInv'
    <2>1. base' \in [Threads -> [Outer -> [Inner -> Int]]]
      BY <1>2, <1>3 DEF StatusInv, PageInv, BaseInv
    <2> QED BY <1>1, <1>2, <1>3, <1>4, <2>1, Began DEF StatusInv, PageInv, BaseInv
  <1>7. KeysInv'
    BY <1>1, <1>2, Began DEF StatusInv, PageInv, KeysInv
  <1>8. RowInv'
    BY <1>1, <1>2, Began DEF StatusInv, PageInv, RowInv
  <1>9. RowsInv'
    BY <1>1, <1>2, Began, EmptyRow DEF StatusInv, PageInv, RowsInv
  <1>10. SeenInv'
    BY <1>2 DEF StatusInv, PageInv, SeenInv
  <1> QED BY <1>5, <1>6, <1>7, <1>8, <1>9, <1>10 DEF PageInv

LEMMA TakeRowKeepsPage ==
    ASSUME StatusInv, NEW t \in Threads, TakeRow(t)
    PROVE  PageInv'
  <1>1. PICK k \in keys[t] : /\ phase[t] = "page" /\ Begin(t, RowCall(k))
                             /\ phase' = [phase EXCEPT ![t] = "row"] /\ UNCHANGED page
    BY DEF TakeRow
  <1>2. k \in Outer
    BY <1>1 DEF StatusInv, PageInv, PhaseInv
  <1>3. RowCall(k) \in Ops /\ RowCall(k).kind = "iterateKey" /\ RowCall(k).outer = k
    BY <1>2, Calls DEF RowCall
  <1>4. keys' = keys /\ rows' = rows /\ base' = base
        /\ phase'[t] = "row" /\ \A s \in Threads \ {t} : phase'[s] = phase[s]
    BY <1>1 DEF page, StatusInv, PageInv, PhaseInv
  <1>5. PhaseInv'
    BY <1>1, <1>3, <1>4, Began DEF StatusInv, CounterInv, TypeOK, PageInv, PhaseInv
  <1>6. BaseInv'
    BY <1>1, <1>3, <1>4, Began DEF StatusInv, PageInv, BaseInv
  <1>7. KeysInv'
    BY <1>1, <1>3, <1>4, Began DEF StatusInv, PageInv, KeysInv
  <1>8. RowInv'
    BY <1>1, <1>3, <1>4, Began DEF StatusInv, PageInv, RowInv
  <1>9. RowsInv' /\ SeenInv'
    BY <1>1, <1>3, <1>4, Began DEF StatusInv, PageInv, RowsInv, SeenInv
  <1> QED BY <1>5, <1>6, <1>7, <1>8, <1>9 DEF PageInv

\* Between two calls the map rests.
LEMMA Rests ==
    ASSUME StatusInv, UNCHANGED vars
    PROVE  /\ pc' = pc /\ op' = op /\ ret' = ret /\ Totals' = Totals
           /\ \A s \in Threads : Answered(s)' = Answered(s)
  BY Unchanged DEF StatusInv, vars, Answered

LEMMA CountedKeepsPage ==
    ASSUME StatusInv, NEW t \in Threads, Counted(t)
    PROVE  PageInv'
  <1>1. /\ pc[t] = "idle" /\ keys' = keys /\ rows' = rows /\ base' = base
        /\ phase' = [phase EXCEPT ![t] = "free"] /\ phase'[t] = "free"
        /\ \A s \in Threads \ {t} : phase'[s] = phase[s]
    BY DEF Counted, page, StatusInv, PageInv, PhaseInv
  <1>2. UNCHANGED vars
    BY DEF Counted
  <1>3. PhaseInv'
    BY <1>1, <1>2, Rests DEF StatusInv, PageInv, PhaseInv
  <1>4. BaseInv'
    BY <1>1, <1>2, Rests DEF StatusInv, PageInv, BaseInv
  <1>5. KeysInv' /\ RowInv' /\ RowsInv' /\ SeenInv'
    BY <1>1, <1>2, Rests DEF StatusInv, PageInv, KeysInv, RowInv, RowsInv, SeenInv
  <1> QED BY <1>3, <1>4, <1>5 DEF PageInv

LEMMA GotKeysKeepsPage ==
    ASSUME StatusInv, NEW t \in Threads, GotKeys(t)
    PROVE  PageInv'
  <1>1. /\ phase[t] = "keys" /\ pc[t] = "idle" /\ Answered(t)
        /\ rows' = rows /\ base' = base
        /\ keys' = [keys EXCEPT ![t] = ret[t].keys] /\ keys'[t] = ret[t].keys
        /\ phase' = [phase EXCEPT ![t] = "page"] /\ phase'[t] = "page"
        /\ \A s \in Threads \ {t} : phase'[s] = phase[s] /\ keys'[s] = keys[s]
    BY DEF GotKeys, Answered, StatusInv, PageInv, PhaseInv
  <1>2. UNCHANGED vars
    BY DEF GotKeys
  <1>3. /\ ret[t].keys \subseteq Outer
        /\ \A o \in Outer, i \in Inner : base[t][o][i] # 0 => o \in ret[t].keys
    BY <1>1 DEF StatusInv, PageInv, KeysInv
  <1>4. PhaseInv'
    BY <1>1, <1>2, <1>3, Rests DEF StatusInv, PageInv, PhaseInv
  <1>5. BaseInv'
    BY <1>1, <1>2, Rests DEF StatusInv, PageInv, BaseInv
  <1>6. KeysInv' /\ RowInv' /\ RowsInv'
    BY <1>1, <1>2, Rests DEF StatusInv, PageInv, KeysInv, RowInv, RowsInv
  <1>7. SeenInv'
    BY <1>1, <1>3 DEF StatusInv, PageInv, SeenInv
  <1> QED BY <1>4, <1>5, <1>6, <1>7 DEF PageInv

LEMMA GotRowKeepsPage ==
    ASSUME StatusInv, NEW t \in Threads, GotRow(t)
    PROVE  PageInv'
  <1> DEFINE k == op[t].outer
  <1>1. /\ phase[t] = "row" /\ pc[t] = "idle" /\ Answered(t) /\ base' = base
        /\ keys' = [keys EXCEPT ![t] = @ \ {k}] /\ keys'[t] = keys[t] \ {k}
        /\ phase' = [phase EXCEPT ![t] = "page"] /\ phase'[t] = "page"
        /\ DOMAIN rows' = Threads
        /\ \A s \in Threads \ {t} :
               phase'[s] = phase[s] /\ keys'[s] = keys[s] /\ rows'[s] = rows[s]
    BY DEF GotRow, Answered, StatusInv, PageInv, PhaseInv
  <1>2. /\ DOMAIN rows'[t] = DOMAIN rows[t] \cup {k}
        /\ \A o \in DOMAIN rows'[t] : rows'[t][o] = IF o = k THEN ret[t].row ELSE rows[t][o]
    BY DEF GotRow, StatusInv, PageInv, PhaseInv
  <1>3. UNCHANGED vars
    BY DEF GotRow
  <1>4. PhaseInv'
    BY <1>1, <1>3, Rests DEF StatusInv, PageInv, PhaseInv
  <1>5. BaseInv'
    BY <1>1, <1>3, Rests DEF StatusInv, PageInv, BaseInv
  <1>6. KeysInv' /\ RowInv'
    BY <1>1, <1>3, Rests DEF StatusInv, PageInv, KeysInv, RowInv
  <1>7. RowsInv'
    <2>1. \A i \in Inner : /\ Entry(ret[t].row, i) \in Int
                           /\ base[t][k][i] <= Entry(ret[t].row, i)
                           /\ Entry(ret[t].row, i) <= Totals[k][i]
      BY <1>1 DEF StatusInv, PageInv, RowInv
    <2> HIDE DEF k
    <2> QED BY <1>1, <1>2, <1>3, <2>1, Rests DEF StatusInv, PageInv, RowsInv
  <1>8. SeenInv'
    BY <1>1, <1>2 DEF StatusInv, PageInv, SeenInv
  <1> QED BY <1>4, <1>5, <1>6, <1>7, <1>8 DEF PageInv

\* Every step is one of the map's, or leaves it alone.
LEMMA MapSteps ==
    ASSUME StatusInv, NEW t \in Threads, Arrive(t) \/ Work(t)
    PROVE  [CounterNext]_vars
  <1>1. CASE Step(t)
    BY <1>1 DEF CounterNext
  <1>2. CASE CountAnswer(t) \/ AskCount(t) \/ TakeKeys(t) \/ TakeRow(t) \/ Finish(t)
    <2>1. keys[t] \subseteq Outer
      BY DEF StatusInv, PageInv, PhaseInv
    <2>2. \E c \in Ops : Begin(t, c)
      BY <1>2, <2>1, Calls, StatusAssumption
         DEF CountAnswer, AskCount, TakeKeys, TakeRow, Finish
    <2> QED BY <2>2 DEF CounterNext
  <1>3. CASE Counted(t) \/ GotKeys(t) \/ GotRow(t)
    BY <1>3 DEF Counted, GotKeys, GotRow
  <1> QED BY <1>1, <1>2, <1>3 DEF Work, Arrive

LEMMA StatusStep == StatusInv /\ [NextAll]_allvars => StatusInv' /\ [CounterNext]_vars
  <1> SUFFICES ASSUME StatusInv, [NextAll]_allvars PROVE StatusInv' /\ [CounterNext]_vars
    OBVIOUS
  <1>1. CASE UNCHANGED allvars
    <2>1. UNCHANGED vars /\ UNCHANGED <<phase, keys, rows, base>>
      BY <1>1 DEF allvars, page
    <2>2. PageInv'
      BY <2>1, Rests
         DEF StatusInv, PageInv, PhaseInv, BaseInv, KeysInv, RowInv, RowsInv, SeenInv
    <2> QED BY <2>1, <2>2, CounterStep DEF StatusInv
  <1>2. ASSUME NEW t \in Threads, Arrive(t) \/ Work(t)
        PROVE  StatusInv' /\ [CounterNext]_vars
    <2>1. [CounterNext]_vars /\ CounterInv'
      BY <1>2, MapSteps, CounterStep DEF StatusInv
    <2>2. CASE Step(t) /\ UNCHANGED <<phase, page, requests>>
      BY <2>1, <2>2, StepKeepsPage DEF StatusInv
    <2>3. CASE CountAnswer(t)
      <3>1. PICK o \in Outer, i \in Inner :
                /\ Begin(t, CountCall(o, i))
                /\ phase' = [phase EXCEPT ![t] = "counting"] /\ UNCHANGED page
        BY <2>3 DEF CountAnswer
      <3>2. CountCall(o, i) \in Ops /\ CountCall(o, i).delta = 1
        BY Calls DEF CountCall
      <3> QED BY <2>1, <3>1, <3>2, CountsKeepPage DEF StatusInv
    <2>6. CASE AskCount(t)
      <3>1. PICK o \in Outer, i \in Inner :
                /\ Begin(t, GetCall(o, i))
                /\ phase' = [phase EXCEPT ![t] = "counting"] /\ UNCHANGED page
        BY <2>6, StatusAssumption DEF AskCount
      <3>2. GetCall(o, i) \in Ops /\ GetCall(o, i).kind = "get"
        BY Calls DEF GetCall
      <3> QED BY <2>1, <3>1, <3>2, CountsKeepPage DEF StatusInv
    <2>4. CASE Finish(t)
      <3>1. PICK i \in Inner : /\ Begin(t, CountCall(StatusKey, i))
                               /\ phase' = [phase EXCEPT ![t] = "counting"] /\ UNCHANGED page
        BY <2>4 DEF Finish
      <3>2. CountCall(StatusKey, i) \in Ops /\ CountCall(StatusKey, i).delta = 1
        BY Calls, StatusAssumption DEF CountCall
      <3> QED BY <2>1, <3>1, <3>2, CountsKeepPage DEF StatusInv
    <2>5. CASE TakeKeys(t) \/ GotKeys(t) \/ TakeRow(t) \/ GotRow(t) \/ Counted(t)
      BY <2>1, <2>5, TakeKeysKeepsPage, GotKeysKeepsPage, TakeRowKeepsPage, GotRowKeepsPage,
         CountedKeepsPage DEF StatusInv
    <2> QED BY <1>2, <2>2, <2>3, <2>4, <2>5, <2>6 DEF Work, Arrive
  <1> QED BY <1>1, <1>2 DEF NextAll

-----------------------------------------------------------------------------
(* Theorems *)

\* The map keeps its types, for any number of workers, URIs and codes.
THEOREM Typing == SpecAll => []TypeOK
  <1>1. StatusInv => TypeOK
    BY DEF StatusInv, CounterInv
  <1> QED BY <1>1, StatusInit, StatusStep, PTL DEF SpecAll

\* The mutex makes the map an atomic table (multimap_counter.h): every call takes
\* effect at one moment between its start and its end, whoever else calls.
THEOREM CallsAreAtomic == SpecAll => ThreadSafe
  <1>1. InitAll => Table!Init
    BY CallInit DEF InitAll
  <1>2. StatusInv /\ [NextAll]_allvars => [Table!Next]_(Table!vars)
    BY StatusStep, CallStep DEF StatusInv
  <1> QED BY <1>1, <1>2, StatusInit, StatusStep, PTL DEF SpecAll, ThreadSafe, Table!Spec

\* A finished page lies between the counts at its begin and those at its end,
\* although its rows are read one by one (status_handler.cc:28-38).
THEOREM PagesAreBracketed == SpecAll => []PageBracketed
  BY PageIsBracketed, StatusInit, StatusStep, PTL DEF SpecAll

=============================================================================
