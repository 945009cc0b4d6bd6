---------------------------- MODULE OptionsProofs ----------------------------
(***************************************************************************)
(* The pointers of Options, for any files.  A handler gets a place on the  *)
(* heap that no pointer has yet, and is deleted only before it is put into *)
(* the map, so the map never holds a deleted handler, nor one twice.  And  *)
(* what was said of the statements gone through is, at the end, said of    *)
(* the whole file: the load succeeds for the valid files alone, and what   *)
(* is loaded then is what the last of the statements for each path says.   *)
(***************************************************************************)
EXTENDS Options, StringsProofs

\* Whatever is on the heap, it is a sequence.
HeapInv == \E S : heap \in Seq(S)

\* The handlers that are pointed to are on the heap, each once, and live.
PointerInv ==
    /\ freed \subseteq 1..Len(heap)
    /\ defaultHandler \in 0..Len(heap)
    /\ \A p \in DOMAIN handlerMap :
           /\ handlerMap[p] \in 1..Len(heap)
           /\ pc # "returned" => handlerMap[p] \notin freed
           /\ handlerMap[p] # defaultHandler
           /\ \A q \in DOMAIN handlerMap : handlerMap[q] = handlerMap[p] => q = p
    /\ pc # "returned" => defaultHandler \notin freed

HandlersInv == HeapInv /\ PointerInv

\* A heap only grows.
LEMMA Grows ==
    ASSUME HeapInv, NEW new, NEW T, new \in Seq(T)
    PROVE  /\ \E S : heap \o new \in Seq(S)
           /\ Len(heap) \in Nat /\ Len(new) \in Nat
           /\ Len(heap \o new) = Len(heap) + Len(new)
  <1>1. PICK S : heap \in Seq(S)
    BY DEF HeapInv
  <1> DEFINE U == S \cup T
  <1>2. heap \in Seq(U) /\ new \in Seq(U)
    <2>1. \A k \in 1..Len(heap) : heap[k] \in U
      BY <1>1
    <2>2. \A k \in 1..Len(new) : new[k] \in U
      OBVIOUS
    <2> HIDE DEF U
    <2> QED BY <1>1, <2>1, <2>2
  <1> HIDE DEF U
  <1> QED BY <1>2

\* What New gives is one handler, or one with its own for the files it misses.
LEMMA NewOnes ==
    ASSUME NEW type, NEW path, NEW block
    PROVE  \E T : /\ New(type, path, block) \in Seq(T)
                  /\ Len(New(type, path, block)) \in Nat \ {0}
  <1> DEFINE h == Handler(type, path, block)  new == New(type, path, block)
  <1>1. new = <<h>> \/ new = <<h, NotFound>>
    BY DEF New
  <1> HIDE DEF h, new
  <1>2. new \in Seq({h, NotFound}) /\ Len(new) \in Nat \ {0}
    <2>1. CASE new = <<h>>
      BY <2>1
    <2>2. CASE new = <<h, NotFound>>
      BY <2>2
    <2> QED BY <1>1, <2>1, <2>2
  <1> QED BY <1>2 DEF new

-----------------------------------------------------------------------------

LEMMA InitPointers == Init => HandlersInv
  <1> SUFFICES ASSUME Init PROVE HandlersInv
    OBVIOUS
  <1>1. heap = <<>> /\ handlerMap = <<>> /\ defaultHandler = 0 /\ freed = {}
    BY DEF Init
  <1>2. heap \in Seq({}) /\ Len(heap) = 0 /\ DOMAIN handlerMap = {}
    BY <1>1
  <1> QED BY <1>1, <1>2 DEF HandlersInv, HeapInv, PointerInv

\* Nothing is pointed to or deleted that was not, and the heap may have grown.
LEMMA SamePointers ==
    ASSUME HandlersInv, pc # "returned", HeapInv', Len(heap') >= Len(heap), Len(heap') \in Nat,
           UNCHANGED <<handlerMap, defaultHandler>>,
           \A h \in freed' : h \in freed \/ h \in (Len(heap) + 1)..Len(heap')
    PROVE  HandlersInv'
  <1>1. Len(heap) \in Nat
    BY DEF HandlersInv, HeapInv
  <1>2. freed' \subseteq 1..Len(heap') /\ defaultHandler' \in 0..Len(heap')
    <2>1. freed \subseteq 1..Len(heap) /\ defaultHandler \in 0..Len(heap)
      BY DEF HandlersInv, PointerInv
    <2>2. defaultHandler' \in 0..Len(heap')
      BY <1>1, <2>1
    <2>3. ASSUME NEW h \in freed' PROVE h \in 1..Len(heap')
      <3>1. CASE h \in freed
        <4>1. h \in 1..Len(heap)
          BY <2>1, <3>1
        <4> QED BY <1>1, <4>1
      <3>2. CASE h \in (Len(heap) + 1)..Len(heap')
        BY <1>1, <3>2
      <3> QED BY <3>1, <3>2
    <2> QED BY <2>2, <2>3
  <1>3. \A h \in 0..Len(heap) : h \notin freed => h \notin freed'
    BY <1>1
  <1>4. \A p \in DOMAIN handlerMap : /\ handlerMap[p] \in 1..Len(heap')
                                     /\ handlerMap[p] \notin freed'
    BY <1>1, <1>3 DEF HandlersInv, PointerInv
  <1>5. defaultHandler \notin freed'
    BY <1>1, <1>3 DEF HandlersInv, PointerInv
  <1> QED BY <1>2, <1>4, <1>5 DEF HandlersInv, PointerInv

\* A new handler may be put into the map or become the default, if it lives.
LEMMA NewPointer ==
    ASSUME HandlersInv, pc # "returned", HeapInv', Len(heap') > Len(heap), Len(heap') \in Nat,
           freed' = freed, NEW path,
           \/ /\ handlerMap' = Put(handlerMap, path, Len(heap) + 1)
              /\ UNCHANGED defaultHandler
           \/ /\ defaultHandler' = Len(heap) + 1
              /\ UNCHANGED handlerMap
    PROVE  HandlersInv'
  <1> DEFINE h == Len(heap) + 1
  <1>1. Len(heap) \in Nat /\ h \in 1..Len(heap') /\ h \notin freed /\ h # defaultHandler
        /\ \A p \in DOMAIN handlerMap : handlerMap[p] # h
    BY DEF HandlersInv, HeapInv, PointerInv
  <1>2. CASE handlerMap' = Put(handlerMap, path, h) /\ UNCHANGED defaultHandler
    <2> HIDE DEF h
    <2>1. /\ DOMAIN handlerMap' = {path} \cup DOMAIN handlerMap
          /\ handlerMap'[path] = h
          /\ \A p \in DOMAIN handlerMap : p # path => handlerMap'[p] = handlerMap[p]
      <3> DEFINE new == Put(handlerMap, path, h)
      <3>1. /\ DOMAIN new = {path} \cup DOMAIN handlerMap
            /\ new[path] = h
            /\ \A p \in DOMAIN handlerMap : p # path => new[p] = handlerMap[p]
        BY DEF Put
      <3>2. handlerMap' = new
        BY <1>2
      <3> QED BY <3>1, <3>2
    <2>2. \A p \in DOMAIN handlerMap' :
              p = path \/ (p \in DOMAIN handlerMap /\ handlerMap'[p] = handlerMap[p])
      BY <2>1
    <2>3. \A p \in DOMAIN handlerMap' : /\ handlerMap'[p] \in 1..Len(heap')
                                        /\ handlerMap'[p] \notin freed
                                        /\ handlerMap'[p] # defaultHandler
      BY <1>1, <2>1, <2>2 DEF HandlersInv, PointerInv
    <2>4. \A p, q \in DOMAIN handlerMap' : handlerMap'[q] = handlerMap'[p] => q = p
      BY <1>1, <2>1, <2>2 DEF HandlersInv, PointerInv
    <2> QED BY <1>1, <1>2, <2>3, <2>4 DEF HandlersInv, PointerInv
  <1>3. CASE defaultHandler' = h /\ UNCHANGED handlerMap
    BY <1>1, <1>3 DEF HandlersInv, PointerInv
  <1> QED BY <1>2, <1>3

\* addHandler
LEMMA AddStep ==
    ASSUME HandlersInv, pc # "returned", NEW type, NEW path, NEW s, AddHandler(type, path, s)
    PROVE  HandlersInv'
  <1> DEFINE h == Len(heap) + 1  status == HandlerStatus(type, s)
             new == New(type, path, s.block)  one == Handler(type, path, <<>>)
  <1>0. HeapInv
    BY DEF HandlersInv
  <1>1. CASE status = "OK"
    <2>1. type \in HandlerTypes
      BY <1>1 DEF HandlerStatus
    <2>2. PICK T : new \in Seq(T) /\ Len(new) \in Nat \ {0}
      BY NewOnes
    <2>3. heap' = heap \o new /\ freed' = freed
      BY <1>1, <2>1 DEF AddHandler
    <2>4. HeapInv' /\ Len(heap') = Len(heap) + Len(new) /\ Len(heap) \in Nat
      BY <1>0, <2>2, <2>3, Grows DEF HeapInv
    <2>5. Len(heap') > Len(heap) /\ Len(heap') \in Nat
      <3> HIDE DEF new
      <3>1. Len(new) \in Nat /\ Len(new) > 0
        BY <2>2
      <3> QED BY <2>4, <3>1
    <2>6. \/ handlerMap' = Put(handlerMap, path, h) /\ UNCHANGED defaultHandler
          \/ defaultHandler' = h /\ UNCHANGED handlerMap
      BY <1>1 DEF AddHandler, Keep
    <2> QED BY <2>3, <2>4, <2>5, <2>6, NewPointer
  <1>2. CASE status # "OK"
    <2>1. UNCHANGED <<handlerMap, defaultHandler>>
      BY <1>2 DEF AddHandler, Keep
    <2>2. CASE type \notin HandlerTypes
      <3>1. heap' = heap /\ freed' = freed
        BY <2>2 DEF AddHandler
      <3>2. HeapInv' /\ Len(heap') \in Nat
        BY <1>0, <3>1 DEF HeapInv
      <3> QED BY <2>1, <3>1, <3>2, SamePointers
    <2>3. CASE type \in HandlerTypes
      <3>1. heap' = Append(heap, one) /\ (freed' = freed \cup {h} \/ freed' = freed)
        BY <1>2, <2>3 DEF AddHandler
      <3>2. <<one>> \in Seq({one}) /\ Len(<<one>>) = 1
        OBVIOUS
      <3>3. heap' = heap \o <<one>>
        BY <1>0, <3>1 DEF HeapInv
      <3>4. HeapInv' /\ Len(heap') = Len(heap) + 1 /\ Len(heap) \in Nat
        BY <1>0, <3>2, <3>3, Grows DEF HeapInv
      <3> QED BY <2>1, <3>1, <3>4, SamePointers
    <2> QED BY <2>2, <2>3
  <1> QED BY <1>1, <1>2

\* One turn of the loop.
LEMMA StatementStep == ASSUME HandlersInv, Statement PROVE HandlersInv'
  <1> DEFINE s == config[i]
  <1>0. pc # "returned" /\ HeapInv
    BY DEF Statement, HandlersInv
  <1>1. CASE UNCHANGED <<handlerMap, defaultHandler, heap, freed>>
    <2>1. HeapInv' /\ Len(heap') \in Nat /\ Len(heap') = Len(heap) /\ freed' = freed
      BY <1>0, <1>1 DEF HeapInv
    <2> QED BY <1>0, <1>1, <2>1, SamePointers
  <1>2. ASSUME NEW type, NEW path, AddHandler(type, path, s) PROVE HandlersInv'
    BY <1>0, <1>2, AddStep
  <1>3. CASE UnknownSpecifier(s) \/ AddPort(s) \/ AddThread(s) \/ AddAuthenticationRealm(s)
    BY <1>1, <1>3 DEF UnknownSpecifier, AddPort, AddThread, AddAuthenticationRealm, Refuse, options,
                      memory
  <1>4. CASE AddPath(s) \/ AddDefaultHandler(s)
    BY <1>1, <1>2, <1>4 DEF AddPath, AddDefaultHandler, Refuse, options, memory
  <1> QED BY <1>3, <1>4 DEF Statement

\* The default handler nobody asked for.
LEMMA FinishStep == ASSUME HandlersInv, Finish PROVE HandlersInv'
  <1>0. pc # "returned" /\ HeapInv
    BY DEF Finish, HandlersInv
  <1>1. CASE heap' = Append(heap, NotFound) /\ defaultHandler' = Len(heap')
             /\ UNCHANGED <<handlerMap, freed>>
    <2>1. <<NotFound>> \in Seq({NotFound}) /\ Len(<<NotFound>>) = 1
      OBVIOUS
    <2>2. heap' = heap \o <<NotFound>>
      BY <1>0, <1>1 DEF HeapInv
    <2>3. HeapInv' /\ Len(heap') = Len(heap) + 1 /\ Len(heap) \in Nat
      BY <1>0, <2>1, <2>2, Grows DEF HeapInv
    <2> QED BY <1>0, <1>1, <2>3, NewPointer
  <1>2. CASE UNCHANGED <<handlerMap, defaultHandler, heap, freed>>
    <2>1. HeapInv' /\ Len(heap') \in Nat /\ Len(heap') = Len(heap) /\ freed' = freed
      BY <1>0, <1>2 DEF HeapInv
    <2> QED BY <1>0, <1>2, <2>1, SamePointers
  <1> QED BY <1>1, <1>2 DEF Finish, options, memory

\* Until main() returns.
LEMMA NextPointers == (pc # "returned" => HandlersInv) /\ [Next]_vars => (pc # "returned" => HandlersInv)'
  <1> SUFFICES ASSUME pc # "returned" => HandlersInv, [Next]_vars, pc' # "returned"
               PROVE  HandlersInv'
    OBVIOUS
  <1>1. CASE Load
    BY <1>1 DEF Load, options, memory, HandlersInv, HeapInv, PointerInv
  <1>2. CASE Statement
    BY <1>2, StatementStep DEF Statement
  <1>3. CASE Finish
    BY <1>3, FinishStep DEF Finish
  <1>4. CASE Return
    BY <1>4 DEF Return
  <1>5. CASE UNCHANGED vars
    BY <1>5 DEF vars, options, memory, HandlersInv, HeapInv, PointerInv
  <1> QED BY <1>1, <1>2, <1>3, <1>4, <1>5 DEF Next

\* No pointer main() or ~Options goes through leads to a deleted handler, nor
\* two to the same one, so ~Options deletes nothing twice, for any files
\* (options.cc:38-46, 222-230).
THEOREM PointersAreLive == Spec => []PointersLive
  <1>1. Init => (pc # "returned" => HandlersInv)
    BY InitPointers
  <1>2. (pc # "returned" => HandlersInv) => PointersLive
    <2> SUFFICES ASSUME HandlersInv, pc # "returned" PROVE PointersLive
      BY DEF PointersLive
    <2>1. DOMAIN heap = 1..Len(heap)
      BY DEF HandlersInv, HeapInv
    <2> QED BY <2>1 DEF HandlersInv, PointerInv, PointersLive, Range, IsInjective
  <1> QED BY <1>1, <1>2, NextPointers, PTL DEF Spec

-----------------------------------------------------------------------------
(* Which files are loaded *)

\* What the flag of an option knows of the statements before i.
Flag(key, isset_) ==
    /\ \/ isset_ = TRUE  /\ \E k \in 1..(i - 1) : config[k].tokens[1] = key
       \/ isset_ = FALSE /\ \A k \in 1..(i - 1) : config[k].tokens[1] # key
    /\ \A j, k \in 1..(i - 1) : config[j].tokens[1] = key /\ config[k].tokens[1] = key => j = k

\* The statements before i are well formed, and no option was given twice.
Checked ==
    /\ i \in 1..(Len(config) + 1)
    /\ \A k \in 1..(i - 1) : WellFormed(config[k])
    /\ Flag("port", issetPort) /\ Flag("threads", issetThread)

LoadInv ==
    /\ config \in Configs
    /\ pc = "main" => i = 0 /\ issetPort = FALSE /\ issetThread = FALSE
    /\ pc = "load" => Checked
    /\ LoadsIffValid

\* The places of one kind of statement, as few as a file may have.
LEMMA OneOf ==
    ASSUME config \in Configs, NEW key
    PROVE  /\ IsFiniteSet(Named(key)) /\ Cardinality(Named(key)) \in Nat
           /\ Cardinality(Named(key)) = 1 <=> \E k : Named(key) = {k}
           /\ Cardinality(Named(key)) = 0 <=> Named(key) = {}
  <1>1. Named(key) \in SUBSET (1..Len(config)) /\ Len(config) \in Nat
    BY OptionsAssumption DEF Named
  <1>2. IsFiniteSet(1..Len(config))
    BY <1>1, FS_Interval
  <1>3. IsFiniteSet(Named(key))
    BY <1>1, <1>2, FS_Subset
  <1> QED BY <1>3, FS_CardinalityType, FS_Singleton, FS_EmptySet

\* Only the handlers that look at their block end the process.
LEMMA WhoEnds ==
    ASSUME NEW type, NEW s, HandlerStatus(type, s) \in {"throws", "undefined"}
    PROVE  ReadsBlock(type)
  BY DEF HandlerStatus, InitStatus, ReadsBlock

\* The number of a port or of threads is what WellFormed asks for.
LEMMA Numbers ==
    ASSUME NEW s, NEW isset_ \in BOOLEAN, NEW min \in Nat, NEW max \in Nat, max < 2147483647
    PROVE  LET status == NumberStatus(s, isset_, min, max) IN
           /\ status \in {"load", "failed", "terminated"}
           /\ status = "load" => ~isset_ /\ Len(s.tokens) = 2 /\ InRange(s, min, max)
           /\ status = "failed" => isset_ \/ ~(Len(s.tokens) = 2 /\ InRange(s, min, max))
           /\ status = "terminated" => s.tokens[2] \notin DOMAIN Number
  <1>1. CASE isset_ \/ Len(s.tokens) # 2
    BY <1>1 DEF NumberStatus
  <1>2. CASE ~isset_ /\ Len(s.tokens) = 2 /\ s.tokens[2] \notin DOMAIN Number
    BY <1>2 DEF NumberStatus
  <1>3. CASE ~isset_ /\ Len(s.tokens) = 2 /\ s.tokens[2] \in DOMAIN Number
    <2> DEFINE n == Number[s.tokens[2]]
    <2>1. n \in Int
      BY <1>3, HandlersAssumption
    <2>2. Unsigned(n) \in min..max <=> n \in min..max
      BY <2>1 DEF Unsigned
    <2> QED BY <1>3, <2>2 DEF NumberStatus, InRange
  <1> QED BY <1>1, <1>2, <1>3

\* How one turn of the loop ends, and what its statement was like.
Passed(s) ==
    /\ pc' = "load" /\ i' = i + 1 /\ WellFormed(s)
    /\ IF s.tokens[1] = "port" THEN issetPort = FALSE /\ issetPort' = TRUE
       ELSE issetPort' = issetPort
    /\ IF s.tokens[1] = "threads" THEN issetThread = FALSE /\ issetThread' = TRUE
       ELSE issetThread' = issetThread
Refused(s) ==
    /\ pc' = "failed" /\ i' = i
    /\ \/ ~WellFormed(s)
       \/ s.tokens[1] = "port" /\ issetPort = TRUE
       \/ s.tokens[1] = "threads" /\ issetThread = TRUE
Ended(s) == pc' \in {"undefined", "terminated"} /\ i' = i /\ ~WellFormed(s) /\ Deadly(s)

LEMMA NumberTurn ==
    ASSUME NEW s, issetPort \in BOOLEAN, issetThread \in BOOLEAN, AddPort(s) \/ AddThread(s)
    PROVE  Passed(s) \/ Refused(s) \/ Ended(s)
  <1>1. CASE AddPort(s)
    <2> DEFINE status == NumberStatus(s, issetPort, MIN_PORT, MAX_PORT)
    <2>1. /\ status \in {"load", "failed", "terminated"}
          /\ status = "load" => ~issetPort /\ Len(s.tokens) = 2 /\ InRange(s, MIN_PORT, MAX_PORT)
          /\ status = "failed" =>
                 issetPort \/ ~(Len(s.tokens) = 2 /\ InRange(s, MIN_PORT, MAX_PORT))
          /\ status = "terminated" => s.tokens[2] \notin DOMAIN Number
      BY Numbers DEF MIN_PORT, MAX_PORT
    <2>2. s.tokens[1] = "port" /\ GoOn(status) /\ issetPort' = (issetPort \/ status = "load")
          /\ UNCHANGED issetThread
      BY <1>1 DEF AddPort
    <2>3. WellFormed(s) <=> Len(s.tokens) = 2 /\ InRange(s, MIN_PORT, MAX_PORT)
      BY <2>2 DEF WellFormed
    <2> HIDE DEF status
    <2> QED BY <2>1, <2>2, <2>3 DEF Passed, Refused, Ended, GoOn, Deadly, InRange
  <1>2. CASE AddThread(s)
    <2> DEFINE status == NumberStatus(s, issetThread, 1, MAX_THREADS)
    <2>1. /\ status \in {"load", "failed", "terminated"}
          /\ status = "load" => ~issetThread /\ Len(s.tokens) = 2 /\ InRange(s, 1, MAX_THREADS)
          /\ status = "failed" =>
                 issetThread \/ ~(Len(s.tokens) = 2 /\ InRange(s, 1, MAX_THREADS))
          /\ status = "terminated" => s.tokens[2] \notin DOMAIN Number
      BY Numbers DEF MAX_THREADS
    <2>2. s.tokens[1] = "threads" /\ GoOn(status) /\ issetThread' = (issetThread \/ status = "load")
          /\ UNCHANGED issetPort
      BY <1>2 DEF AddThread
    <2>3. WellFormed(s) <=> Len(s.tokens) = 2 /\ InRange(s, 1, MAX_THREADS)
      BY <2>2 DEF WellFormed
    <2> HIDE DEF status
    <2> QED BY <2>1, <2>2, <2>3 DEF Passed, Refused, Ended, GoOn, Deadly, InRange
  <1> QED BY <1>1, <1>2

LEMMA HandlerTurn ==
    ASSUME NEW s, AddPath(s) \/ AddDefaultHandler(s)
    PROVE  Passed(s) \/ Refused(s) \/ Ended(s)
  <1> DEFINE n == IF s.tokens[1] = "path" THEN 3 ELSE 2
             type == s.tokens[n]
             status == HandlerStatus(type, s)
  <1>1. s.tokens[1] \in {"path", "default"}
    BY DEF AddPath, AddDefaultHandler
  <1>2. WellFormed(s) <=> Len(s.tokens) = n /\ status = "OK"
    BY <1>1 DEF WellFormed
  <1>3. CASE Len(s.tokens) # n
    BY <1>1, <1>2, <1>3 DEF AddPath, AddDefaultHandler, Refuse, GoOn, Refused
  <1>4. CASE Len(s.tokens) = n
    <2>1. PICK path : AddHandler(type, path, s)
      BY <1>1, <1>4 DEF AddPath, AddDefaultHandler
    <2>2. UNCHANGED <<issetPort, issetThread>>
          /\ \/ status = "OK" /\ GoOn("load")
             \/ status # "OK" /\ GoOn("failed")
             \/ status = "Error" /\ type = "StaticHandler" /\ GoOn("undefined")
             \/ status = "throws" /\ GoOn("terminated")
             \/ status = "undefined" /\ GoOn("undefined")
      BY <2>1 DEF AddHandler, DeleteMayFail, isset
    <2>3. Last(s.tokens) = type
      BY <1>4 DEF Last
    <2>4. GoOn("undefined") \/ GoOn("terminated") => ReadsBlock(type) /\ status # "OK"
      BY <2>2, WhoEnds DEF ReadsBlock, GoOn
    <2> HIDE DEF status, type, n
    <2>5. CASE GoOn("load")
      BY <1>1, <1>2, <1>4, <2>2, <2>5 DEF GoOn, Passed
    <2>6. CASE GoOn("failed")
      BY <1>2, <2>2, <2>6 DEF GoOn, Refused
    <2>7. CASE GoOn("undefined") \/ GoOn("terminated")
      <3>1. Deadly(s)
        BY <1>1, <2>3, <2>4, <2>7 DEF Deadly, status
      <3> QED BY <1>2, <2>4, <2>7, <3>1 DEF GoOn, Ended
    <2> QED BY <2>2, <2>5, <2>6, <2>7
  <1> QED BY <1>3, <1>4

LEMMA OtherTurn ==
    ASSUME NEW s, UnknownSpecifier(s) \/ AddAuthenticationRealm(s), s.child \in BOOLEAN
    PROVE  Passed(s) \/ Refused(s) \/ Ended(s)
  <1>1. CASE UnknownSpecifier(s)
    BY <1>1 DEF UnknownSpecifier, Specifiers, Refuse, GoOn, Refused, WellFormed
  <1>2. CASE AddAuthenticationRealm(s)
    <2>1. s.tokens[1] = "realm"
      BY <1>2 DEF AddAuthenticationRealm
    <2>2. WellFormed(s) <=> /\ Len(s.tokens) = 2 /\ s.child
                            /\ \A k \in DOMAIN s.block : Len(s.block[k]) = 3
      BY <2>1 DEF WellFormed
    <2> QED BY <1>2, <2>1, <2>2 DEF AddAuthenticationRealm, Refuse, GoOn, Passed, Refused, Ended,
                                    Deadly, isset
  <1> QED BY <1>1, <1>2

\* Each turn of the loop ends in one of three ways.
LEMMA StatementTurn ==
    ASSUME LoadInv, Statement
    PROVE  Passed(config[i]) \/ Refused(config[i]) \/ Ended(config[i])
  <1> DEFINE s == config[i]
  <1>1. issetPort \in BOOLEAN /\ issetThread \in BOOLEAN /\ s.child \in BOOLEAN
    <2>1. config \in Configs /\ Checked /\ i <= Len(config)
      BY DEF LoadInv, Statement
    <2>2. i \in DOMAIN config
      BY <2>1, OptionsAssumption DEF Checked
    <2>3. issetPort \in BOOLEAN /\ issetThread \in BOOLEAN
      BY <2>1, Zenon DEF Checked, Flag
    <2> QED BY <2>1, <2>2, <2>3, OptionsAssumption
  <1> QED BY <1>1, NumberTurn, HandlerTurn, OtherTurn DEF Statement

\* A statement that is not as it must be, or an option given twice.
LEMMA Invalid ==
    ASSUME config \in Configs, i \in 1..Len(config), Checked,
           \/ ~WellFormed(config[i])
           \/ config[i].tokens[1] = "port" /\ issetPort = TRUE
           \/ config[i].tokens[1] = "threads" /\ issetThread = TRUE
    PROVE  ~ValidConfig
  <1>1. DOMAIN config = 1..Len(config) /\ Len(config) \in Nat
    BY OptionsAssumption
  <1>2. ASSUME NEW key, NEW k \in 1..(i - 1), config[k].tokens[1] = key,
               config[i].tokens[1] = key
        PROVE  ~(Cardinality(Named(key)) <= 1)
    <2>1. k \in Named(key) /\ i \in Named(key) /\ k # i
      BY <1>1, <1>2 DEF Named
    <2>2. Cardinality(Named(key)) # 0 /\ Cardinality(Named(key)) # 1
      BY <2>1, OneOf
    <2> QED BY <2>2, OneOf
  <1>3. CASE ~WellFormed(config[i])
    BY <1>1, <1>3 DEF ValidConfig
  <1>4. CASE config[i].tokens[1] = "port" /\ issetPort = TRUE
    <2>1. PICK k \in 1..(i - 1) : config[k].tokens[1] = "port"
      BY <1>4 DEF Checked, Flag
    <2>2. ~(Cardinality(Named("port")) <= 1)
      BY <1>2, <1>4, <2>1
    <2>3. Cardinality(Named("port")) # 1
      BY <2>2, OneOf
    <2> QED BY <2>3 DEF ValidConfig
  <1>5. CASE config[i].tokens[1] = "threads" /\ issetThread = TRUE
    <2>1. PICK k \in 1..(i - 1) : config[k].tokens[1] = "threads"
      BY <1>5 DEF Checked, Flag
    <2>2. ~(Cardinality(Named("threads")) <= 1)
      BY <1>2, <1>5, <2>1
    <2> QED BY <2>2 DEF ValidConfig
  <1> QED BY <1>3, <1>4, <1>5

\* The flag goes on with the statement it has seen.
LEMMA FlagStep ==
    ASSUME i \in Nat \ {0}, i' = i + 1, config' = config, NEW key, NEW old, NEW new, Flag(key, old),
           IF config[i].tokens[1] = key THEN old = FALSE /\ new = TRUE ELSE new = old
    PROVE  /\ \/ new = TRUE  /\ \E k \in 1..(i' - 1) : config'[k].tokens[1] = key
              \/ new = FALSE /\ \A k \in 1..(i' - 1) : config'[k].tokens[1] # key
           /\ \A j, k \in 1..(i' - 1) :
                  config'[j].tokens[1] = key /\ config'[k].tokens[1] = key => j = k
  <1>1. 1..(i' - 1) = (1..(i - 1)) \cup {i}
    OBVIOUS
  <1>2. CASE config[i].tokens[1] = key
    BY <1>1, <1>2 DEF Flag
  <1>3. CASE config[i].tokens[1] # key
    BY <1>1, <1>3 DEF Flag
  <1> QED BY <1>2, <1>3

LEMMA TurnStep == ASSUME LoadInv, Statement PROVE LoadInv'
  <1> DEFINE s == config[i]
  <1>1. /\ config \in Configs /\ config' = config /\ pc = "load" /\ Checked
        /\ i \in 1..Len(config) /\ Len(config) \in Nat
        /\ issetPort \in BOOLEAN /\ issetThread \in BOOLEAN /\ s.child \in BOOLEAN
    <2>1. config \in Configs /\ config' = config /\ pc = "load" /\ Checked /\ i <= Len(config)
      BY DEF LoadInv, Statement
    <2>2. Len(config) \in Nat /\ DOMAIN config = 1..Len(config)
      BY <2>1, OptionsAssumption
    <2>3. i \in 1..Len(config) /\ issetPort \in BOOLEAN /\ issetThread \in BOOLEAN
      <3>1. i \in 1..Len(config)
        BY <2>1, <2>2 DEF Checked
      <3>2. issetPort \in BOOLEAN
        BY <2>1, Zenon DEF Checked, Flag
      <3>3. issetThread \in BOOLEAN
        BY <2>1, Zenon DEF Checked, Flag
      <3> QED BY <3>1, <3>2, <3>3
    <2>4. s.child \in BOOLEAN
      BY <2>1, <2>2, <2>3, OptionsAssumption
    <2> QED BY <2>1, <2>2, <2>3, <2>4
  <1>2. Passed(s) \/ Refused(s) \/ Ended(s)
    BY <1>1, NumberTurn, HandlerTurn, OtherTurn DEF Statement
  <1>3. CASE Passed(s)
    <2>1. i' = i + 1 /\ i' \in 1..(Len(config) + 1) /\ pc' = "load" /\ WellFormed(s)
          /\ 1..(i' - 1) = (1..(i - 1)) \cup {i}
      BY <1>1, <1>3 DEF Passed
    <2>2. \A k \in 1..(i' - 1) : WellFormed(config[k])
      BY <2>1, <1>1 DEF Checked
    <2>3. Flag("port", issetPort)'
      BY <1>1, <1>3, <2>1, FlagStep DEF Passed, Checked, Flag
    <2>4. Flag("threads", issetThread)'
      BY <1>1, <1>3, <2>1, FlagStep DEF Passed, Checked, Flag
    <2>5. \A k \in 1..(i' - 1) : WellFormed(config[k])'
      BY <2>2, <1>1 DEF WellFormed
    <2>6. Checked'
      BY <1>1, <2>1, <2>3, <2>4, <2>5 DEF Checked
    <2> QED BY <1>1, <2>1, <2>6 DEF LoadInv, LoadsIffValid
  <1>4. CASE Refused(s)
    <2>1. ~ValidConfig
      BY <1>1, <1>4, Invalid DEF Refused
    <2>2. ~ValidConfig'
      BY <1>1, <2>1 DEF ValidConfig, Named
    <2> QED BY <1>1, <1>4, <2>2 DEF LoadInv, LoadsIffValid, Refused
  <1>5. CASE Ended(s)
    <2>1. ~ValidConfig /\ Deadly(s)
      BY <1>1, <1>5, Invalid DEF Ended
    <2>2. ~ValidConfig' /\ Deadly(config[i])'
      BY <1>1, <1>5, <2>1 DEF ValidConfig, Named, Ended
    <2> QED BY <1>1, <1>5, <2>2 DEF LoadInv, LoadsIffValid, Ended
  <1> QED BY <1>2, <1>3, <1>4, <1>5

LEMMA LastTurn == ASSUME LoadInv, Finish PROVE LoadInv'
  <1>1. /\ config \in Configs /\ UNCHANGED <<config, i>> /\ Checked /\ Len(config) \in Nat
        /\ i = Len(config) + 1 /\ DOMAIN config = 1..Len(config)
        /\ issetPort \in BOOLEAN /\ pc' = IF issetPort THEN "loaded" ELSE "failed"
    <2>1. /\ config \in Configs /\ UNCHANGED <<config, i>> /\ pc = "load" /\ Checked
          /\ i > Len(config)
      BY DEF LoadInv, Finish
    <2>2. Len(config) \in Nat /\ DOMAIN config = 1..Len(config)
      BY <2>1, OptionsAssumption
    <2>3. i = Len(config) + 1
      BY <2>1, <2>2 DEF Checked
    <2>4. issetPort \in BOOLEAN
      BY <2>1 DEF Checked, Flag
    <2>5. pc' = IF issetPort THEN "loaded" ELSE "failed"
      BY DEF Finish
    <2> QED BY <2>1, <2>2, <2>3, <2>4, <2>5
  <1>2. 1..(i - 1) = DOMAIN config
    BY <1>1
  <1>3. CASE issetPort = TRUE
    <2>1. PICK k \in DOMAIN config : config[k].tokens[1] = "port"
      BY <1>1, <1>2, <1>3 DEF Checked, Flag
    <2>2. Named("port") = {k}
      BY <1>1, <1>2, <2>1 DEF Checked, Flag, Named
    <2>3. Cardinality(Named("port")) = 1
      BY <1>1, <2>2, OneOf
    <2>4. Cardinality(Named("threads")) <= 1
      <3>1. CASE Named("threads") = {}
        BY <1>1, <3>1, OneOf
      <3>2. CASE Named("threads") # {}
        <4>1. PICK j : j \in Named("threads")
          BY <3>2
        <4>2. Named("threads") = {j}
          BY <1>1, <1>2, <4>1 DEF Checked, Flag, Named
        <4>3. Cardinality(Named("threads")) = 1
          BY <1>1, <4>2, OneOf
        <4> QED BY <4>3
      <3> QED BY <3>1, <3>2
    <2>5. ValidConfig
      BY <1>1, <1>2, <2>3, <2>4 DEF ValidConfig, Checked
    <2>6. ValidConfig' /\ pc' = "loaded"
      BY <1>1, <1>3, <2>5 DEF ValidConfig, Named
    <2> QED BY <1>1, <2>6 DEF LoadInv, LoadsIffValid
  <1>4. CASE issetPort = FALSE
    <2>1. Named("port") = {}
      BY <1>1, <1>2, <1>4 DEF Checked, Flag, Named
    <2>2. Cardinality(Named("port")) # 1
      BY <1>1, <2>1, OneOf
    <2>3. ~ValidConfig' /\ pc' = "failed"
      BY <1>1, <1>4, <2>2 DEF ValidConfig, Named
    <2> QED BY <1>1, <2>3 DEF LoadInv, LoadsIffValid
  <1> QED BY <1>1, <1>3, <1>4

LEMMA NextLoad == LoadInv /\ [Next]_vars => LoadInv'
  <1> SUFFICES ASSUME LoadInv, [Next]_vars PROVE LoadInv'
    OBVIOUS
  <1>1. CASE Load
    <2>1. /\ config' = config /\ config \in Configs /\ issetPort' = FALSE /\ issetThread' = FALSE
          /\ (pc' = "load" /\ i' = 1) \/ (pc' = "failed" /\ i' = 0)
      BY <1>1 DEF Load, LoadInv, isset
    <2>2. CASE pc' = "load" /\ i' = 1
      <3>1. Len(config) \in Nat /\ 1..(i' - 1) = {}
        BY <2>1, <2>2, OptionsAssumption
      <3>2. Checked'
        BY <2>1, <2>2, <3>1 DEF Checked, Flag
      <3> QED BY <2>1, <2>2, <3>2 DEF LoadInv, LoadsIffValid
    <2>3. CASE pc' = "failed" /\ i' = 0
      BY <2>1, <2>3 DEF LoadInv, LoadsIffValid
    <2> QED BY <2>1, <2>2, <2>3
  <1>2. CASE Statement
    BY <1>2, TurnStep
  <1>3. CASE Finish
    BY <1>3, LastTurn
  <1>4. CASE Return
    BY <1>4 DEF Return, LoadInv, LoadsIffValid
  <1>5. CASE UNCHANGED vars
    BY <1>5 DEF vars, options, memory, isset, LoadInv, LoadsIffValid, Checked, Flag, ValidConfig,
                Named, WellFormed, Deadly
  <1> QED BY <1>1, <1>2, <1>3, <1>4, <1>5 DEF Next

\* The files that are loaded are the valid ones, whatever the order of their
\* statements, and the process ends without a report only at the statements
\* that Deadly names (options.cc:125-200), for any files.
THEOREM LoadsTheValid == Spec => []LoadsIffValid
  <1>1. Init => LoadInv
    BY DEF Init, LoadInv, LoadsIffValid
  <1>2. LoadInv => LoadsIffValid
    BY DEF LoadInv
  <1> QED BY <1>1, <1>2, NextLoad, PTL DEF Spec

-----------------------------------------------------------------------------
(* What is loaded *)

\* The credentials among the statements T of a realm's block, and the map of
\* users they make: for each the last password.
Credentials(b, T) == {k \in T : b[k][1] = "credentials"}
Of(b, T, u) == {k \in Credentials(b, T) : b[k][2] = u}
Users(b, T) == {b[k][2] : k \in Credentials(b, T)}
Passwords(b, T) == [u \in Users(b, T) |-> b[Max(Of(b, T, u))][3]]

LEMMA NoPasswords == ASSUME NEW b PROVE Passwords(b, {}) = <<>>
  <1>1. Users(b, {}) = {}
    BY DEF Users, Credentials
  <1> QED BY <1>1 DEF Passwords

\* What one more statement makes of the map.
LEMMA PasswordsStep ==
    ASSUME NEW b, NEW n \in Nat, NEW T, T \subseteq 0..n, T # {}
    PROVE  LET x == Max(T)  old == Passwords(b, T \ {x}) IN
           Passwords(b, T) = IF b[x][1] = "credentials" THEN Put(old, b[x][2], b[x][3]) ELSE old
  <1> DEFINE x == Max(T)  U == T \ {x}  old == Passwords(b, U)
  <1>1. x \in T /\ \A k \in T : k <= x
    BY MaxIn
  <1> HIDE DEF x
  <1>2. CASE b[x][1] # "credentials"
    <2>1. Credentials(b, T) = Credentials(b, U)
      BY <1>2 DEF Credentials
    <2> QED BY <1>2, <2>1 DEF Passwords, Users, Of, x
  <1>3. CASE b[x][1] = "credentials"
    <2> DEFINE new == Put(old, b[x][2], b[x][3])
    <2>1. Credentials(b, T) = Credentials(b, U) \cup {x}
      BY <1>1, <1>3 DEF Credentials
    <2>2. Users(b, T) = {b[x][2]} \cup Users(b, U)
      BY <2>1 DEF Users
    <2>3. DOMAIN old = Users(b, U) /\ DOMAIN new = Users(b, T)
      BY <2>2 DEF Passwords, Put
    <2>4. ASSUME NEW u \in Users(b, T) PROVE Passwords(b, T)[u] = new[u]
      <3>1. CASE u = b[x][2]
        <4>1. x \in Of(b, T, u) /\ Of(b, T, u) \subseteq 0..n /\ Of(b, T, u) \subseteq T
          BY <1>1, <2>1, <3>1 DEF Of, Credentials
        <4> DEFINE m == Max(Of(b, T, u))
        <4>2. m \in T /\ x <= m
          BY <4>1, MaxIn
        <4>3. m = x
          <5> HIDE DEF m
          <5>1. x \in 0..n /\ m \in 0..n /\ m <= x
            BY <1>1, <4>2
          <5> QED BY <4>2, <5>1
        <4>4. Passwords(b, T)[u] = b[x][3]
          BY <4>3 DEF Passwords
        <4>5. new[u] = b[x][3]
          BY <3>1 DEF Put
        <4> QED BY <4>4, <4>5
      <3>2. CASE u # b[x][2]
        <4>1. Of(b, T, u) = Of(b, U, u)
          BY <2>1, <3>2 DEF Of
        <4>2. u \in Users(b, U)
          BY <2>2, <3>2
        <4>3. Passwords(b, T)[u] = old[u]
          BY <4>1, <4>2 DEF Passwords
        <4>4. new[u] = old[u]
          BY <2>3, <3>2, <4>2 DEF Put
        <4> QED BY <4>3, <4>4
      <3> QED BY <3>1, <3>2
    <2>5. Passwords(b, T) = [u \in Users(b, T) |-> Passwords(b, T)[u]]
      BY DEF Passwords
    <2>6. new = [u \in Users(b, T) |-> new[u]]
      BY <2>2, <2>3 DEF Put
    <2>7. Passwords(b, T) = new
      <3> HIDE DEF new
      <3> QED BY <2>4, <2>5, <2>6
    <2> QED BY <1>3, <2>7 DEF x
  <1> QED BY <1>2, <1>3 DEF x

\* addAuthenticationRealm (options.cc:73-93) makes that map of the block.
LEMMA AuthMapIs ==
    ASSUME NEW b, Len(b) \in Nat, DOMAIN b = 1..Len(b)
    PROVE  AuthMap(b) = Passwords(b, DOMAIN b)
  <1> DEFINE D == DOMAIN b
             Is(f) == f = [T \in SUBSET D |->
                  IF T = {} THEN <<>>
                  ELSE LET x == Max(T) IN
                       IF b[x][1] = "credentials" THEN Put(f[T \ {x}], b[x][2], b[x][3])
                       ELSE f[T \ {x}]]
             w == [T \in SUBSET D |-> Passwords(b, T)]
             f == CHOOSE f : Is(f)
  <1>1. AuthMap(b) = f[D]
    BY DEF AuthMap, FoldLeft, MapThenFoldSet
  <1>2. Is(w)
    <2>1. ASSUME NEW T \in SUBSET D, T # {}
          PROVE  LET x == Max(T) IN
                 w[T] = IF b[x][1] = "credentials" THEN Put(w[T \ {x}], b[x][2], b[x][3])
                        ELSE w[T \ {x}]
      <3>1. T \subseteq 0..Len(b)
        OBVIOUS
      <3>2. \A x : w[T \ {x}] = Passwords(b, T \ {x})
        OBVIOUS
      <3>3. w[T] = Passwords(b, T)
        OBVIOUS
      <3>4. LET x == Max(T)  old == Passwords(b, T \ {x}) IN
            Passwords(b, T) = IF b[x][1] = "credentials" THEN Put(old, b[x][2], b[x][3]) ELSE old
        BY <2>1, <3>1, PasswordsStep
      <3> HIDE DEF w
      <3> QED BY <3>2, <3>3, <3>4
    <2>2. w[{}] = <<>>
      BY NoPasswords
    <2> QED BY <2>1, <2>2
  <1>3. Is(f)
    <2> HIDE DEF w, Is
    <2> QED BY <1>2
  <1> HIDE DEF f
  <1>4. f[{}] = <<>>
    BY <1>3
  <1>5. ASSUME NEW T \in SUBSET D, T # {}
        PROVE  LET x == Max(T) IN
               f[T] = IF b[x][1] = "credentials" THEN Put(f[T \ {x}], b[x][2], b[x][3])
                      ELSE f[T \ {x}]
    BY <1>3, <1>5
  <1> HIDE DEF Is
  <1> DEFINE wrong == {k \in 0..Len(b) : f[1..k] # Passwords(b, 1..k)}
  <1>6. wrong = {}
    <2> SUFFICES ASSUME wrong # {} PROVE FALSE
      OBVIOUS
    <2>1. wrong \subseteq Nat
      OBVIOUS
    <2>2. PICK k \in wrong : \A j \in wrong : k <= j
      <3> HIDE DEF wrong
      <3> QED BY <2>1, Least
    <2>3. k \in 0..Len(b) /\ f[1..k] # Passwords(b, 1..k)
      OBVIOUS
    <2>4. k # 0
      <3>1. 1..0 = {}
        OBVIOUS
      <3> QED BY <1>4, <2>3, <3>1, NoPasswords
    <2>5. f[1..(k - 1)] = Passwords(b, 1..(k - 1))
      BY <2>2, <2>4
    <2> DEFINE T == 1..k
    <2>6x. k \in Nat /\ k \in T /\ T \in SUBSET (1..Len(b)) /\ T \subseteq 0..k
      BY <2>3, <2>4
    <2>6. T \in SUBSET D /\ T # {}
      BY <2>6x
    <2>7. k = Max(T)
      <3> HIDE DEF T
      <3>1. Max(T) \in T /\ k <= Max(T)
        BY <2>6x, <2>6, MaxIn
      <3>2. Max(T) \in 0..k
        BY <2>6x, <3>1
      <3> QED BY <2>6x, <3>1, <3>2
    <2>8. T \ {k} = 1..(k - 1)
      BY <2>3, <2>4
    <2>9. f[T] = IF b[k][1] = "credentials" THEN Put(f[T \ {k}], b[k][2], b[k][3])
                 ELSE f[T \ {k}]
      BY <1>5, <2>6, <2>7
    <2>10. Passwords(b, T) = IF b[k][1] = "credentials"
                             THEN Put(Passwords(b, T \ {k}), b[k][2], b[k][3])
                             ELSE Passwords(b, T \ {k})
      <3> HIDE DEF T
      <3> QED BY <2>6x, <2>6, <2>7, PasswordsStep
    <2> QED BY <2>3, <2>5, <2>8, <2>9, <2>10
  <1>7. Len(b) \notin wrong
    BY <1>6
  <1> QED BY <1>1, <1>7
-----------------------------------------------------------------------------

\* Those of the first n statements of c with a key, and for a path.
Key(c, n, key) == {k \in 1..n : c[k].tokens[1] = key}
KeyFor(c, n, key, p) == {k \in Key(c, n, key) : c[k].tokens[2] = p}
DefaultsOf(c, n) == Key(c, n, "default") \cup KeyFor(c, n, "path", <<>>)
IsLast(k, S) == k \in S /\ \A j \in S : j <= k

\* What the first n statements of c make of each part of Options: p and t are
\* the numbers, map, d and h the handlers, and a the realms.
NumbersLoaded(c, n, p, t) ==
    /\ \A k \in Key(c, n, "port") : p = Number[c[k].tokens[2]]
    /\ Key(c, n, "threads") = {} => t = DEFAULT_NUM_THREADS
    /\ \A k \in Key(c, n, "threads") : t = Number[c[k].tokens[2]]
HandlersLoaded(c, n, map, h) ==
    /\ DOMAIN map = {c[k].tokens[2] : k \in Key(c, n, "path")} \ {<<>>}
    /\ \A p \in DOMAIN map : \E k : /\ IsLast(k, KeyFor(c, n, "path", p))
                                   /\ h[map[p]] = Handler(c[k].tokens[3], p, c[k].block)
DefaultLoaded(c, n, d, h) ==
    IF DefaultsOf(c, n) = {} THEN d = 0
    ELSE d # 0 /\ \E k : /\ IsLast(k, DefaultsOf(c, n))
                         /\ h[d] = Handler(Last(c[k].tokens), <<>>, c[k].block)
RealmsLoaded(c, n, a) ==
    /\ DOMAIN a = {c[k].tokens[2] : k \in Key(c, n, "realm")}
    /\ \A p \in DOMAIN a : \E k : /\ IsLast(k, KeyFor(c, n, "realm", p))
                                 /\ a[p] = AuthMap(c[k].block)

LEMMA KeyStep ==
    ASSUME NEW c, NEW n \in Nat \ {0}, NEW key
    PROVE  Key(c, n, key) = IF c[n].tokens[1] = key THEN Key(c, n - 1, key) \cup {n}
                            ELSE Key(c, n - 1, key)
  BY DEF Key

LEMMA KeyForStep ==
    ASSUME NEW c, NEW n \in Nat \ {0}, NEW key, NEW p
    PROVE  KeyFor(c, n, key, p) =
               IF c[n].tokens[1] = key /\ c[n].tokens[2] = p
               THEN KeyFor(c, n - 1, key, p) \cup {n} ELSE KeyFor(c, n - 1, key, p)
  BY KeyStep DEF KeyFor

\* A new statement is the last.
LEMMA NewLast ==
    ASSUME NEW n \in Nat \ {0}, NEW S, S \subseteq 1..(n - 1)
    PROVE  IsLast(n, S \cup {n})
  BY DEF IsLast

LEMMA SameHandlers ==
    ASSUME NEW c, NEW n \in Nat \ {0}, NEW map, NEW h, NEW g, HandlersLoaded(c, n - 1, map, h),
           \A p \in DOMAIN map : g[map[p]] = h[map[p]],
           c[n].tokens[1] # "path" \/ c[n].tokens[2] = <<>>
    PROVE  HandlersLoaded(c, n, map, g)
  <1>1. \A p \in DOMAIN map : p # <<>>
    BY DEF HandlersLoaded
  <1>2. \A p \in DOMAIN map : KeyFor(c, n, "path", p) = KeyFor(c, n - 1, "path", p)
    BY <1>1, KeyForStep
  <1>3. {c[k].tokens[2] : k \in Key(c, n, "path")} \ {<<>>}
        = {c[k].tokens[2] : k \in Key(c, n - 1, "path")} \ {<<>>}
    BY KeyStep
  <1>4. ASSUME NEW p \in DOMAIN map
        PROVE  \E k : /\ IsLast(k, KeyFor(c, n, "path", p))
                      /\ g[map[p]] = Handler(c[k].tokens[3], p, c[k].block)
    BY <1>2 DEF HandlersLoaded
  <1>5. DOMAIN map = {c[k].tokens[2] : k \in Key(c, n, "path")} \ {<<>>}
    BY <1>3 DEF HandlersLoaded
  <1> QED BY <1>4, <1>5 DEF HandlersLoaded

LEMMA PutHandler ==
    ASSUME NEW c, NEW n \in Nat \ {0}, NEW map, NEW h, NEW g, HandlersLoaded(c, n - 1, map, h),
           \A p \in DOMAIN map : g[map[p]] = h[map[p]],
           c[n].tokens[1] = "path", c[n].tokens[2] # <<>>, NEW x,
           g[x] = Handler(c[n].tokens[3], c[n].tokens[2], c[n].block)
    PROVE  HandlersLoaded(c, n, Put(map, c[n].tokens[2], x), g)
  <1> DEFINE path == c[n].tokens[2]  new == Put(map, path, x)
  <1>1. DOMAIN new = {path} \cup DOMAIN map
    BY DEF Put
  <1>2. {c[k].tokens[2] : k \in Key(c, n, "path")}
        = {path} \cup {c[k].tokens[2] : k \in Key(c, n - 1, "path")}
    BY KeyStep
  <1>3. new[path] = x /\ \A p \in DOMAIN map : p # path => new[p] = map[p]
    BY DEF Put
  <1> HIDE DEF new
  <1>4. ASSUME NEW p \in DOMAIN new
        PROVE  \E k : /\ IsLast(k, KeyFor(c, n, "path", p))
                      /\ g[new[p]] = Handler(c[k].tokens[3], p, c[k].block)
    <2>1. CASE p = path
      <3>1. KeyFor(c, n, "path", p) = KeyFor(c, n - 1, "path", p) \cup {n}
        BY <2>1, KeyForStep
      <3>2. IsLast(n, KeyFor(c, n, "path", p))
        BY <3>1, NewLast DEF KeyFor, Key
      <3> QED BY <1>3, <2>1, <3>2
    <2>2. CASE p # path
      <3>1. KeyFor(c, n, "path", p) = KeyFor(c, n - 1, "path", p)
        BY <2>2, KeyForStep
      <3>2. p \in DOMAIN map /\ new[p] = map[p]
        BY <1>1, <1>3, <2>2
      <3> QED BY <3>1, <3>2 DEF HandlersLoaded
    <2> QED BY <2>1, <2>2
  <1>5. DOMAIN new = {c[k].tokens[2] : k \in Key(c, n, "path")} \ {<<>>}
    BY <1>1, <1>2 DEF HandlersLoaded
  <1> QED BY <1>4, <1>5 DEF HandlersLoaded, new

LEMMA SameDefault ==
    ASSUME NEW c, NEW n \in Nat \ {0}, NEW d, NEW h, NEW g, DefaultLoaded(c, n - 1, d, h),
           d # 0 => g[d] = h[d],
           c[n].tokens[1] # "default",
           c[n].tokens[1] # "path" \/ c[n].tokens[2] # <<>>
    PROVE  DefaultLoaded(c, n, d, g)
  <1>1. DefaultsOf(c, n) = DefaultsOf(c, n - 1)
    BY KeyStep, KeyForStep DEF DefaultsOf
  <1> QED BY <1>1 DEF DefaultLoaded

LEMMA NewDefault ==
    ASSUME NEW c, NEW n \in Nat \ {0}, NEW d \in Nat \ {0}, NEW h,
           \/ c[n].tokens[1] = "default"
           \/ c[n].tokens[1] = "path" /\ c[n].tokens[2] = <<>>,
           h[d] = Handler(Last(c[n].tokens), <<>>, c[n].block)
    PROVE  DefaultLoaded(c, n, d, h)
  <1>1. DefaultsOf(c, n) = DefaultsOf(c, n - 1) \cup {n}
    BY KeyStep, KeyForStep DEF DefaultsOf
  <1>2. DefaultsOf(c, n - 1) \subseteq 1..(n - 1)
    BY DEF DefaultsOf, KeyFor, Key
  <1>3. IsLast(n, DefaultsOf(c, n))
    BY <1>1, <1>2, NewLast
  <1>4. DefaultsOf(c, n) # {}
    BY <1>1
  <1> QED BY <1>3, <1>4 DEF DefaultLoaded

LEMMA SameRealms ==
    ASSUME NEW c, NEW n \in Nat \ {0}, NEW a, RealmsLoaded(c, n - 1, a), c[n].tokens[1] # "realm"
    PROVE  RealmsLoaded(c, n, a)
  <1>1. \A p : KeyFor(c, n, "realm", p) = KeyFor(c, n - 1, "realm", p)
    BY KeyForStep
  <1>2. Key(c, n, "realm") = Key(c, n - 1, "realm")
    BY KeyStep
  <1> QED BY <1>1, <1>2 DEF RealmsLoaded

LEMMA PutRealm ==
    ASSUME NEW c, NEW n \in Nat \ {0}, NEW a, RealmsLoaded(c, n - 1, a), c[n].tokens[1] = "realm"
    PROVE  RealmsLoaded(c, n, Put(a, c[n].tokens[2], AuthMap(c[n].block)))
  <1> DEFINE path == c[n].tokens[2]  x == AuthMap(c[n].block)  new == Put(a, path, x)
  <1> HIDE DEF x
  <1>1. DOMAIN new = {path} \cup DOMAIN a
    BY DEF Put
  <1>2. {c[k].tokens[2] : k \in Key(c, n, "realm")}
        = {path} \cup {c[k].tokens[2] : k \in Key(c, n - 1, "realm")}
    BY KeyStep
  <1>3. new[path] = x /\ \A p \in DOMAIN a : p # path => new[p] = a[p]
    BY DEF Put
  <1> HIDE DEF new
  <1>4. ASSUME NEW p \in DOMAIN new
        PROVE  \E k : IsLast(k, KeyFor(c, n, "realm", p)) /\ new[p] = AuthMap(c[k].block)
    <2>1. CASE p = path
      <3>1. KeyFor(c, n, "realm", p) = KeyFor(c, n - 1, "realm", p) \cup {n}
        BY <2>1, KeyForStep
      <3>2. IsLast(n, KeyFor(c, n, "realm", p))
        BY <3>1, NewLast DEF KeyFor, Key
      <3> QED BY <1>3, <2>1, <3>2 DEF x
    <2>2. CASE p # path
      <3>1. KeyFor(c, n, "realm", p) = KeyFor(c, n - 1, "realm", p)
        BY <2>2, KeyForStep
      <3>2. p \in DOMAIN a /\ new[p] = a[p]
        BY <1>1, <1>3, <2>2
      <3> QED BY <3>1, <3>2 DEF RealmsLoaded
    <2> QED BY <2>1, <2>2
  <1>5. DOMAIN new = {c[k].tokens[2] : k \in Key(c, n, "realm")}
    BY <1>1, <1>2 DEF RealmsLoaded
  <1> QED BY <1>4, <1>5 DEF RealmsLoaded, new, x

\* After the last statement there is a default handler in any case.
DefaultAtEnd(c, n, d, h) ==
    IF DefaultsOf(c, n) = {} THEN h[d] = NotFound ELSE DefaultLoaded(c, n, d, h)

\* What was gone through is loaded.
LoadedInv ==
    /\ pc = "main" => /\ thread = DEFAULT_NUM_THREADS /\ handlerMap = <<>>
                      /\ defaultHandler = 0 /\ auth = <<>>
    /\ pc = "load" => /\ NumbersLoaded(config, i - 1, port, thread)
                      /\ HandlersLoaded(config, i - 1, handlerMap, heap)
                      /\ DefaultLoaded(config, i - 1, defaultHandler, heap)
                      /\ RealmsLoaded(config, i - 1, auth)
    /\ pc = "loaded" => /\ NumbersLoaded(config, Len(config), port, thread)
                        /\ HandlersLoaded(config, Len(config), handlerMap, heap)
                        /\ DefaultAtEnd(config, Len(config), defaultHandler, heap)
                        /\ RealmsLoaded(config, Len(config), auth)

\* A handler that is kept is on the heap as its statement says, and what was
\* there stays.
LEMMA AddEffect ==
    ASSUME HandlersInv, NEW type, NEW path, NEW s, AddHandler(type, path, s), pc' = "load"
    PROVE  /\ \A x \in 1..Len(heap) : heap'[x] = heap[x]
           /\ heap'[Len(heap) + 1] = Handler(type, path, s.block)
           /\ handlerMap' = IF path # <<>> THEN Put(handlerMap, path, Len(heap) + 1) ELSE handlerMap
           /\ defaultHandler' = IF path = <<>> THEN Len(heap) + 1 ELSE defaultHandler
           /\ UNCHANGED <<port, thread, auth>>
  <1> DEFINE status == HandlerStatus(type, s)  new == New(type, path, s.block)
  <1>1. status = "OK"
    BY DEF AddHandler, GoOn
  <1>2. type \in HandlerTypes
    BY <1>1 DEF HandlerStatus
  <1>3. heap' = heap \o new
    BY <1>1, <1>2 DEF AddHandler
  <1>4. PICK S : heap \in Seq(S)
    BY DEF HandlersInv, HeapInv
  <1>5. PICK T : new \in Seq(T) /\ Len(new) \in Nat \ {0}
    BY NewOnes
  <1>6. new[1] = Handler(type, path, s.block)
    BY DEF New
  <1>7. /\ \A x \in 1..Len(heap) : heap'[x] = heap[x]
        /\ heap'[Len(heap) + 1] = new[1]
    <2> HIDE DEF new
    <2>1. heap \in Seq(S \cup T) /\ new \in Seq(S \cup T)
      BY <1>4, <1>5, SeqMonotonic
    <2> QED BY <1>3, <1>5, <2>1, ConcatProperties
  <1> QED BY <1>1, <1>6, <1>7 DEF AddHandler, Keep

LEMMA EmptyLoaded ==
    ASSUME NEW c, NEW p, NEW h
    PROVE  /\ NumbersLoaded(c, 0, p, DEFAULT_NUM_THREADS) /\ HandlersLoaded(c, 0, <<>>, h)
           /\ DefaultLoaded(c, 0, 0, h) /\ RealmsLoaded(c, 0, <<>>)
  <1>1. \A key : Key(c, 0, key) = {}
    BY DEF Key
  <1>2. DefaultsOf(c, 0) = {}
    BY <1>1 DEF DefaultsOf, KeyFor
  <1> QED BY <1>1, <1>2 DEF NumbersLoaded, HandlersLoaded, DefaultLoaded, RealmsLoaded

LEMMA SameNumbers ==
    ASSUME NEW c, NEW n \in Nat \ {0}, NEW p, NEW t, NumbersLoaded(c, n - 1, p, t),
           c[n].tokens[1] \notin {"port", "threads"}
    PROVE  NumbersLoaded(c, n, p, t)
  BY KeyStep DEF NumbersLoaded

\* One turn of the loop.
LEMMA TurnLoads ==
    ASSUME HandlersInv, LoadInv, LoadedInv, Statement, pc' = "load"
    PROVE  LoadedInv'
  <1> DEFINE s == config[i]
  <1>1. /\ config \in Configs /\ config' = config /\ pc = "load" /\ Checked
        /\ i \in 1..Len(config)
    <2>1. config \in Configs /\ config' = config /\ pc = "load" /\ Checked /\ i <= Len(config)
      BY DEF LoadInv, Statement
    <2> QED BY <2>1, OptionsAssumption DEF Checked
  <1>2. Passed(s)
    BY StatementTurn DEF Refused, Ended
  <1>3. i \in Nat \ {0} /\ i' = i + 1 /\ i' - 1 = i
    BY <1>1, <1>2 DEF Passed
  <1>4. /\ NumbersLoaded(config, i - 1, port, thread)
        /\ HandlersLoaded(config, i - 1, handlerMap, heap)
        /\ DefaultLoaded(config, i - 1, defaultHandler, heap)
        /\ RealmsLoaded(config, i - 1, auth)
    BY <1>1 DEF LoadedInv
  <1>5. SUFFICES /\ NumbersLoaded(config, i, port', thread')
                 /\ HandlersLoaded(config, i, handlerMap', heap')
                 /\ DefaultLoaded(config, i, defaultHandler', heap')
                 /\ RealmsLoaded(config, i, auth')
    BY <1>1, <1>3 DEF LoadedInv
  <1>6. CASE AddPort(s) \/ AddThread(s)
    <2>1. s.tokens[1] \in {"port", "threads"}
          /\ UNCHANGED <<handlerMap, heap, defaultHandler, auth>>
      BY <1>6 DEF AddPort, AddThread, memory
    <2>2. NumbersLoaded(config, i, port', thread')
      <3>1. CASE s.tokens[1] = "port"
        <4>1. port' = Number[s.tokens[2]] /\ thread' = thread
          BY <1>6, <3>1 DEF AddPort, AddThread, GoOn
        <4>2. Key(config, i - 1, "port") = {}
          BY <1>1, <1>2, <3>1 DEF Passed, Checked, Flag, Key
        <4>3. Key(config, i, "port") = {i}
              /\ Key(config, i, "threads") = Key(config, i - 1, "threads")
          BY <1>3, <3>1, <4>2, KeyStep
        <4> QED BY <1>4, <4>1, <4>3 DEF NumbersLoaded
      <3>2. CASE s.tokens[1] = "threads"
        <4>1. thread' = Number[s.tokens[2]] /\ port' = port
          BY <1>6, <3>2 DEF AddPort, AddThread, GoOn
        <4>2. Key(config, i - 1, "threads") = {}
          BY <1>1, <1>2, <3>2 DEF Passed, Checked, Flag, Key
        <4>3. Key(config, i, "threads") = {i}
              /\ Key(config, i, "port") = Key(config, i - 1, "port")
          BY <1>3, <3>2, <4>2, KeyStep
        <4> QED BY <1>4, <4>1, <4>3 DEF NumbersLoaded
      <3> QED BY <2>1, <3>1, <3>2
    <2>3. HandlersLoaded(config, i, handlerMap, heap)
      BY <1>3, <1>4, <2>1, SameHandlers
    <2>4. DefaultLoaded(config, i, defaultHandler, heap)
      BY <1>3, <1>4, <2>1, SameDefault
    <2>5. RealmsLoaded(config, i, auth)
      BY <1>3, <1>4, <2>1, SameRealms
    <2> QED BY <2>1, <2>2, <2>3, <2>4, <2>5
  <1>7. CASE AddAuthenticationRealm(s)
    <2>1. s.tokens[1] = "realm" /\ auth' = Put(auth, s.tokens[2], AuthMap(s.block))
          /\ UNCHANGED <<port, thread, handlerMap, heap, defaultHandler>>
      BY <1>7 DEF AddAuthenticationRealm, GoOn, Refuse, memory
    <2>2. NumbersLoaded(config, i, port, thread)
      BY <1>3, <1>4, <2>1, SameNumbers
    <2>3. HandlersLoaded(config, i, handlerMap, heap)
      BY <1>3, <1>4, <2>1, SameHandlers
    <2>4. DefaultLoaded(config, i, defaultHandler, heap)
      BY <1>3, <1>4, <2>1, SameDefault
    <2>5. RealmsLoaded(config, i, auth')
      BY <1>3, <1>4, <2>1, PutRealm
    <2> QED BY <2>1, <2>2, <2>3, <2>4, <2>5
  <1>8. CASE AddPath(s) \/ AddDefaultHandler(s)
    <2> DEFINE n == IF s.tokens[1] = "path" THEN 3 ELSE 2
               path == IF s.tokens[1] = "path" THEN s.tokens[2] ELSE <<>>
               type == s.tokens[n]  x == Len(heap) + 1
    <2>1. s.tokens[1] \in {"path", "default"} /\ Len(s.tokens) = n /\ AddHandler(type, path, s)
      BY <1>8 DEF AddPath, AddDefaultHandler, Refuse, GoOn
    <2>2. /\ \A y \in 1..Len(heap) : heap'[y] = heap[y]
          /\ heap'[x] = Handler(type, path, s.block)
          /\ handlerMap' = IF path # <<>> THEN Put(handlerMap, path, x) ELSE handlerMap
          /\ defaultHandler' = IF path = <<>> THEN x ELSE defaultHandler
          /\ UNCHANGED <<port, thread, auth>>
      BY <2>1, AddEffect
    <2>3. Last(s.tokens) = type
      BY <2>1 DEF Last
    <2>4. /\ \A p \in DOMAIN handlerMap : heap'[handlerMap[p]] = heap[handlerMap[p]]
          /\ defaultHandler # 0 => heap'[defaultHandler] = heap[defaultHandler]
          /\ x \in Nat \ {0}
      BY <2>2 DEF HandlersInv, HeapInv, PointerInv
    <2>5. NumbersLoaded(config, i, port, thread)
      BY <1>3, <1>4, <2>1, SameNumbers
    <2>6. RealmsLoaded(config, i, auth)
      BY <1>3, <1>4, <2>1, SameRealms
    <2> HIDE DEF type, x
    <2>7. HandlersLoaded(config, i, handlerMap', heap')
      <3>1. CASE path = <<>>
        <4>1. s.tokens[1] # "path" \/ s.tokens[2] = <<>>
          BY <3>1
        <4> QED BY <1>3, <1>4, <2>2, <2>4, <3>1, <4>1, SameHandlers
      <3>2. CASE path # <<>>
        <4>1. s.tokens[1] = "path" /\ s.tokens[2] # <<>> /\ path = s.tokens[2]
              /\ type = s.tokens[3]
          BY <3>2 DEF type
        <4>2. HandlersLoaded(config, i, Put(handlerMap, s.tokens[2], x), heap')
          BY <1>3, <1>4, <2>2, <2>4, <4>1, PutHandler
        <4> QED BY <2>2, <3>2, <4>1, <4>2
      <3> QED BY <3>1, <3>2
    <2>8. DefaultLoaded(config, i, defaultHandler', heap')
      <3>1. CASE path = <<>>
        <4>1. \/ s.tokens[1] = "default"
              \/ s.tokens[1] = "path" /\ s.tokens[2] = <<>>
          BY <2>1, <3>1
        <4>2. heap'[x] = Handler(Last(s.tokens), <<>>, s.block) /\ defaultHandler' = x
          BY <2>2, <2>3, <3>1
        <4> QED BY <1>3, <2>4, <4>1, <4>2, NewDefault
      <3>2. CASE path # <<>>
        <4>1. s.tokens[1] = "path" /\ s.tokens[2] # <<>>
          BY <3>2
        <4> QED BY <1>3, <1>4, <2>2, <2>4, <3>2, <4>1, SameDefault
      <3> QED BY <3>1, <3>2
    <2> QED BY <2>2, <2>5, <2>6, <2>7, <2>8
  <1>9. CASE UnknownSpecifier(s)
    BY <1>9 DEF UnknownSpecifier, Refuse, GoOn
  <1> QED BY <1>6, <1>7, <1>8, <1>9 DEF Statement
LEMMA FinishLoads ==
    ASSUME HandlersInv, LoadInv, LoadedInv, Finish
    PROVE  LoadedInv'
  <1>1. /\ config' = config /\ i' = i /\ i - 1 = Len(config) /\ Checked /\ issetThread \in BOOLEAN
        /\ pc = "load" /\ pc' \in {"failed", "loaded"}
    <2>1. config \in Configs /\ UNCHANGED <<config, i>> /\ pc = "load" /\ Checked
          /\ i > Len(config) /\ pc' \in {"failed", "loaded"}
      BY DEF LoadInv, Finish
    <2>2. Len(config) \in Nat /\ i - 1 = Len(config)
      BY <2>1, OptionsAssumption DEF Checked
    <2>3. issetThread \in BOOLEAN
      BY <2>1, Zenon DEF Checked, Flag
    <2> QED BY <2>1, <2>2, <2>3
  <1> DEFINE n == Len(config)
  <1>2. /\ NumbersLoaded(config, n, port, thread) /\ HandlersLoaded(config, n, handlerMap, heap)
        /\ DefaultLoaded(config, n, defaultHandler, heap) /\ RealmsLoaded(config, n, auth)
    BY <1>1 DEF LoadedInv
  <1>3. CASE pc' = "failed"
    BY <1>3 DEF LoadedInv
  <1>4. CASE pc' = "loaded"
    <2>1. /\ thread' = IF issetThread THEN thread ELSE DEFAULT_NUM_THREADS
          /\ UNCHANGED <<port, handlerMap, auth>>
          /\ IF defaultHandler # 0 THEN UNCHANGED <<defaultHandler, heap>>
             ELSE heap' = Append(heap, NotFound) /\ defaultHandler' = Len(heap')
      BY <1>4 DEF Finish
    <2>2. NumbersLoaded(config, n, port, thread')
      <3>1. issetThread = FALSE => Key(config, n, "threads") = {}
        BY <1>1 DEF Checked, Flag, Key
      <3> QED BY <1>1, <1>2, <2>1, <3>1 DEF NumbersLoaded
    <2>3. /\ \A x \in 1..Len(heap) : heap'[x] = heap[x]
          /\ defaultHandler = 0 => heap'[defaultHandler'] = NotFound
      <3>1. PICK S : heap \in Seq(S)
        BY DEF HandlersInv, HeapInv
      <3>2. CASE defaultHandler # 0
        BY <2>1, <3>2
      <3>3. CASE defaultHandler = 0
        <4> DEFINE T == S \cup {NotFound}
        <4>1. heap \in Seq(T) /\ NotFound \in T
          BY <3>1, SeqMonotonic
        <4>2. heap' = Append(heap, NotFound) /\ defaultHandler' = Len(heap')
          BY <2>1, <3>3
        <4> HIDE DEF T
        <4> QED BY <4>1, <4>2, AppendProperties
      <3> QED BY <3>2, <3>3
    <2>4. \A p \in DOMAIN handlerMap : heap'[handlerMap[p]] = heap[handlerMap[p]]
      BY <2>3 DEF HandlersInv, PointerInv
    <2>5. HandlersLoaded(config, n, handlerMap, heap')
      <3> DEFINE map == handlerMap
      <3>1. ASSUME NEW p \in DOMAIN map
            PROVE  \E k : /\ IsLast(k, KeyFor(config, n, "path", p))
                          /\ heap'[map[p]] = Handler(config[k].tokens[3], p, config[k].block)
        BY <1>2, <2>4 DEF HandlersLoaded
      <3> QED BY <1>2, <3>1 DEF HandlersLoaded
    <2>6. DefaultAtEnd(config, n, defaultHandler', heap')
      <3>1. CASE DefaultsOf(config, n) = {}
        BY <1>2, <2>3, <3>1 DEF DefaultLoaded, DefaultAtEnd
      <3>2. CASE DefaultsOf(config, n) # {}
        <4>1. defaultHandler # 0
          BY <1>2, <3>2 DEF DefaultLoaded
        <4> QED BY <1>2, <2>1, <3>2, <4>1 DEF DefaultAtEnd
      <3> QED BY <3>1, <3>2
    <2> QED BY <1>1, <1>2, <1>4, <2>1, <2>2, <2>5, <2>6 DEF LoadedInv
  <1> QED BY <1>1, <1>3, <1>4

LEMMA NextLoads ==
    (pc # "returned" => HandlersInv) /\ LoadInv /\ LoadedInv /\ [Next]_vars => LoadedInv'
  <1> SUFFICES ASSUME pc # "returned" => HandlersInv, LoadInv, LoadedInv, [Next]_vars
               PROVE  LoadedInv'
    OBVIOUS
  <1>1. CASE Load
    <2>1. CASE pc' = "load" /\ i' = 1
      <3>1. thread = DEFAULT_NUM_THREADS /\ handlerMap = <<>> /\ defaultHandler = 0 /\ auth = <<>>
            /\ UNCHANGED <<config, options, heap>> /\ i' - 1 = 0
        BY <1>1, <2>1 DEF Load, LoadedInv, memory
      <3> QED BY <2>1, <3>1, EmptyLoaded DEF LoadedInv, options
    <2>2. CASE pc' = "failed"
      BY <2>2 DEF LoadedInv
    <2> QED BY <1>1, <2>1, <2>2 DEF Load
  <1>2. CASE Statement
    <2>1. pc # "returned" /\ pc' # "main" /\ pc' # "loaded"
      <3>1. pc = "load"
        BY <1>2 DEF Statement
      <3>2. Passed(config[i]) \/ Refused(config[i]) \/ Ended(config[i])
        BY <1>2, StatementTurn
      <3> QED BY <3>1, <3>2 DEF Passed, Refused, Ended
    <2>2. CASE pc' = "load"
      BY <1>2, <2>1, <2>2, TurnLoads
    <2> QED BY <2>1, <2>2 DEF LoadedInv
  <1>3. CASE Finish
    BY <1>3, FinishLoads DEF Finish
  <1>4. CASE Return
    BY <1>4 DEF Return, LoadedInv
  <1>5. CASE UNCHANGED vars
    BY <1>5 DEF vars, options, memory, isset, LoadedInv
  <1> QED BY <1>1, <1>2, <1>3, <1>4, <1>5 DEF Next

\* The last of a set of statements is the one LastOf takes.
LEMMA LastIsLast ==
    ASSUME config \in Configs, NEW S, S \subseteq DOMAIN config, NEW k, IsLast(k, S)
    PROVE  LastOf(S) = config[k] /\ k \in DOMAIN config
  <1>1. Len(config) \in Nat /\ DOMAIN config = 1..Len(config)
    BY OptionsAssumption
  <1>2. k \in S /\ \A j \in S : j <= k
    BY DEF IsLast
  <1> DEFINE m == Max(S)
  <1>3. S \subseteq 0..Len(config) /\ S # {}
    BY <1>1, <1>2
  <1>4. m \in S /\ \A j \in S : j <= m
    BY <1>1, <1>3, MaxIn
  <1> HIDE DEF m
  <1>5. m = k
    BY <1>2, <1>3, <1>4
  <1> QED BY <1>2, <1>5 DEF LastOf, m

LEMMA LoadedInvHolds == LoadInv /\ LoadedInv => LoadedAsConfigured
  <1> SUFFICES ASSUME LoadInv, LoadedInv, pc = "loaded" PROVE LoadedAsConfigured
    BY DEF LoadedAsConfigured
  <1> DEFINE n == Len(config)
  <1>1. config \in Configs /\ n \in Nat /\ DOMAIN config = 1..n
    BY OptionsAssumption DEF LoadInv
  <1>2. \A key : Key(config, n, key) = Named(key)
    BY <1>1 DEF Key, Named
  <1>3. \A key, p : KeyFor(config, n, key, p) = For(key, p) /\ For(key, p) \subseteq DOMAIN config
    BY <1>2 DEF KeyFor, For, Named
  <1>4. DefaultsOf(config, n) = Defaults /\ Defaults \subseteq DOMAIN config
    BY <1>2, <1>3 DEF DefaultsOf, Defaults, Named
  <1>5. /\ NumbersLoaded(config, n, port, thread) /\ HandlersLoaded(config, n, handlerMap, heap)
        /\ DefaultAtEnd(config, n, defaultHandler, heap) /\ RealmsLoaded(config, n, auth)
    BY DEF LoadedInv
  <1>6. /\ \A k \in Named("port") : port = Number[config[k].tokens[2]]
        /\ IF Named("threads") = {} THEN thread = DEFAULT_NUM_THREADS
           ELSE \A k \in Named("threads") : thread = Number[config[k].tokens[2]]
    BY <1>2, <1>5 DEF NumbersLoaded
  <1>7. DOMAIN handlerMap = HandlerPaths
    BY <1>2, <1>5 DEF HandlersLoaded, HandlerPaths, Paths
  <1>8. ASSUME NEW p \in HandlerPaths
        PROVE  LET s == LastOf(For("path", p)) IN
               heap[handlerMap[p]] = Handler(s.tokens[3], p, s.block)
    <2>1. PICK k : /\ IsLast(k, For("path", p))
                   /\ heap[handlerMap[p]] = Handler(config[k].tokens[3], p, config[k].block)
      BY <1>3, <1>5, <1>7 DEF HandlersLoaded
    <2>2. LastOf(For("path", p)) = config[k]
      BY <1>1, <1>3, <2>1, LastIsLast
    <2> QED BY <2>1, <2>2
  <1>9. heap[defaultHandler] =
            IF Defaults = {} THEN NotFound
            ELSE LET s == LastOf(Defaults) IN Handler(Last(s.tokens), <<>>, s.block)
    <2>1. CASE Defaults = {}
      BY <1>4, <1>5, <2>1 DEF DefaultAtEnd
    <2>2. CASE Defaults # {}
      <3>1. PICK k : /\ IsLast(k, Defaults)
                     /\ heap[defaultHandler] = Handler(Last(config[k].tokens), <<>>, config[k].block)
        BY <1>4, <1>5, <2>2 DEF DefaultAtEnd, DefaultLoaded
      <3>2. LastOf(Defaults) = config[k]
        BY <1>1, <1>4, <3>1, LastIsLast
      <3> QED BY <2>2, <3>1, <3>2
    <2> QED BY <2>1, <2>2
  <1>10. DOMAIN auth = Paths("realm")
    BY <1>2, <1>5 DEF RealmsLoaded, Paths
  <1>11. ASSUME NEW p \in Paths("realm")
         PROVE  LET b == LastOf(For("realm", p)).block
                    of(u) == {k \in DOMAIN b : b[k][1] = "credentials" /\ b[k][2] = u} IN
                /\ DOMAIN auth[p] = {b[k][2] : k \in {j \in DOMAIN b : b[j][1] = "credentials"}}
                /\ \A u \in DOMAIN auth[p] : auth[p][u] = b[Max(of(u))][3]
    <2>1. PICK k : IsLast(k, For("realm", p)) /\ auth[p] = AuthMap(config[k].block)
      BY <1>3, <1>5, <1>10 DEF RealmsLoaded
    <2>2. LastOf(For("realm", p)) = config[k] /\ k \in DOMAIN config
      BY <1>1, <1>3, <2>1, LastIsLast
    <2> DEFINE b == config[k].block
    <2>3. Len(b) \in Nat /\ DOMAIN b = 1..Len(b)
      BY <1>1, <2>2, OptionsAssumption
    <2>4. auth[p] = Passwords(b, DOMAIN b)
      BY <2>1, <2>3, AuthMapIs
    <2> HIDE DEF b
    <2>5. /\ DOMAIN auth[p] = {b[j][2] : j \in {j \in DOMAIN b : b[j][1] = "credentials"}}
          /\ \A u \in DOMAIN auth[p] :
                 auth[p][u] = b[Max({j \in DOMAIN b : b[j][1] = "credentials" /\ b[j][2] = u})][3]
      <3>1. \A u : Of(b, DOMAIN b, u)
                   = {j \in DOMAIN b : b[j][1] = "credentials" /\ b[j][2] = u}
        BY DEF Of, Credentials
      <3> QED BY <2>4, <3>1 DEF Passwords, Users, Credentials
    <2> DEFINE a == LastOf(For("realm", p)).block
    <2>6. a = b
      BY <2>2 DEF b
    <2> HIDE DEF a
    <2>7. LET of(u) == {j \in DOMAIN a : a[j][1] = "credentials" /\ a[j][2] = u} IN
          /\ DOMAIN auth[p] = {a[j][2] : j \in {j \in DOMAIN a : a[j][1] = "credentials"}}
          /\ \A u \in DOMAIN auth[p] : auth[p][u] = a[Max(of(u))][3]
      BY <2>5, <2>6
    <2> QED BY <2>7 DEF a
  <1> QED BY <1>6, <1>7, <1>8, <1>9, <1>10, <1>11 DEF LoadedAsConfigured

\* What is loaded is what the file says: the last statement for a path counts,
\* for handlers, for realms and for the users of a realm, and what is not given
\* is 8 threads and a NotFoundHandler (options.cc:29-200), for any files.
THEOREM LoadsWhatIsConfigured == Spec => []LoadedAsConfigured
  <1>1. Init => LoadInv
    BY DEF Init, LoadInv, LoadsIffValid
  <1>2. Init => LoadedInv
    BY DEF Init, LoadedInv
  <1>3. Init => (pc # "returned" => HandlersInv)
    BY InitPointers
  <1> QED BY <1>1, <1>2, <1>3, NextPointers, NextLoad, NextLoads, LoadedInvHolds, PTL DEF Spec

=============================================================================
