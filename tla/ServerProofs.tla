---------------------------- MODULE ServerProofs ----------------------------
(***************************************************************************)
(* A request on its way through the server, for any files, requests and    *)
(* file systems.                                                           *)
(***************************************************************************)
EXTENDS Server, OptionsProofs

\* What is known of the memory in every state, after main() has returned too:
\* the numbers that were loaded, and that a pointer leads to a handler which has,
\* if it is a StaticHandler, its own for the files it does not find behind it.
MemoryInv ==
    /\ pc \in {"main", "load", "loaded", "failed", "terminated", "undefined", "returned"}
    /\ port = 0 \/ port \in MIN_PORT..MAX_PORT
    /\ thread \in 1..MAX_THREADS
    /\ HeapInv
    /\ freed \subseteq 1..Len(heap) /\ defaultHandler \in 0..Len(heap)
    /\ pc = "loaded" => defaultHandler # 0
    /\ \A p \in DOMAIN handlerMap :
           /\ handlerMap[p] \in 1..Len(heap)
           /\ heap[handlerMap[p]].type = "StaticHandler" => handlerMap[p] + 1 \in 1..Len(heap)

Rejected == Requires(req) /\ ~Passes(req)

\* How far the request is, and what was made of it until then.
ServeInv ==
    /\ stage \in {"idle", "read", "parsed", "handling", "found", "answered", "closed", "dead"}
    /\ request = NoRequest \/ \E k \in DOMAIN Requests : request = Requests[k]
    /\ stage \in {"read", "parsed", "handling", "found"} => pc = "loaded"
    /\ stage # "idle" => pc \in {"loaded", "returned"}
    /\ stage \in {"idle", "read", "parsed", "closed"} => handler = 0 /\ resp = NoResponse
    /\ stage \in {"parsed", "handling", "found", "answered"} =>
           ~Malformed(request, LinesRead(request)) /\ req = ParsedOf(request, LinesRead(request))
    /\ stage \in {"handling", "found"} => handler # 0 /\ resp = NoResponse
    /\ handler # 0 => /\ handler = MatchRequestWithHandler(req) /\ ~Rejected
                      /\ req = ParsedOf(request, LinesRead(request))
    /\ stage = "found" => heap[handler].type = "StaticHandler"
    /\ stage = "answered" /\ handler = 0 =>
           /\ Rejected /\ resp.code = 401 /\ resp.body = <<"invalid_credentials">>
           /\ resp.realm = MapHasPrefix(DOMAIN auth, req.uri_)
    /\ resp.code \in Codes \cup {NoCode}
    /\ stage = "answered" => resp.code \in Codes
    /\ handler # 0 => resp.realm = <<>>
    /\ resp.realm \in {<<>>} \cup DOMAIN auth

-----------------------------------------------------------------------------
(* The memory *)

\* The steps of a server are steps of Options.
LEMMA NextIsNext == [NextAll]_allvars => [Next]_vars
  <1>1. NextAll => [Next]_vars
    BY DEF NextAll, Next
  <1>2. UNCHANGED allvars => UNCHANGED vars
    BY DEF allvars
  <1> QED BY <1>1, <1>2

\* What is added to the heap keeps its place.
LEMMA Extended ==
    ASSUME HeapInv, NEW new, NEW T, new \in Seq(T), heap' = heap \o new
    PROVE  /\ HeapInv' /\ Len(heap) \in Nat /\ Len(new) \in Nat
           /\ Len(heap') = Len(heap) + Len(new)
           /\ \A x \in 1..Len(heap) : heap'[x] = heap[x]
           /\ \A x \in 1..Len(new) : heap'[Len(heap) + x] = new[x]
  <1>1. PICK S : heap \in Seq(S)
    BY DEF HeapInv
  <1>2. heap \in Seq(S \cup T) /\ new \in Seq(S \cup T)
    BY <1>1, SeqMonotonic
  <1>3. heap' \in Seq(S \cup T)
    BY <1>2
  <1>4. HeapInv'
    BY <1>3 DEF HeapInv
  <1> QED BY <1>2, <1>4, ConcatProperties

\* A handler that is kept has, if it is a StaticHandler, another one behind it.
LEMMA AddMemory ==
    ASSUME MemoryInv, NEW type, NEW path, NEW s, AddHandler(type, path, s)
    PROVE  /\ HeapInv' /\ Len(heap) \in Nat /\ Len(heap') \in Nat /\ Len(heap') >= Len(heap)
           /\ \A x \in 1..Len(heap) : heap'[x] = heap[x]
           /\ \A x \in freed' : x \in freed \/ (x = Len(heap) + 1 /\ x <= Len(heap'))
           /\ HandlerStatus(type, s) = "OK" =>
                 /\ Len(heap) + 1 <= Len(heap')
                 /\ heap'[Len(heap) + 1].type = "StaticHandler" => Len(heap) + 2 <= Len(heap')
  <1> DEFINE status == HandlerStatus(type, s)  new == New(type, path, s.block)
             one == Handler(type, path, <<>>)
  <1>0. HeapInv
    BY DEF MemoryInv
  <1>1. CASE type \notin HandlerTypes
    <2>1. status # "OK"
      BY <1>1 DEF HandlerStatus
    <2>2. heap' = heap /\ freed' = freed
      BY <1>1 DEF AddHandler
    <2> QED BY <1>0, <2>1, <2>2 DEF HeapInv
  <1>2. CASE type \in HandlerTypes /\ status = "OK"
    <2>1. heap' = heap \o new /\ freed' = freed
      BY <1>2 DEF AddHandler
    <2>2. PICK T : new \in Seq(T) /\ Len(new) \in Nat \ {0}
      BY NewOnes
    <2>3. new[1].type = type /\ (type = "StaticHandler" => Len(new) = 2)
      BY DEF New, Handler
    <2> HIDE DEF new, status
    <2>4. /\ HeapInv' /\ Len(heap) \in Nat /\ Len(heap') = Len(heap) + Len(new)
          /\ \A x \in 1..Len(heap) : heap'[x] = heap[x]
          /\ \A x \in 1..Len(new) : heap'[Len(heap) + x] = new[x]
      BY <1>0, <2>1, <2>2, Extended
    <2>5. heap'[Len(heap) + 1].type = type
      BY <2>2, <2>3, <2>4
    <2>6. Len(heap') >= Len(heap) /\ Len(heap) + 1 <= Len(heap') /\ Len(heap') \in Nat
      BY <2>2, <2>4
    <2>7. heap'[Len(heap) + 1].type = "StaticHandler" => Len(heap) + 2 <= Len(heap')
      <3>1. CASE type = "StaticHandler"
        <4>1. Len(heap') = Len(heap) + 2 /\ Len(heap) \in Nat
          BY <2>3, <2>4, <3>1
        <4> QED BY <4>1
      <3>2. CASE type # "StaticHandler"
        BY <2>5, <3>2
      <3> QED BY <3>1, <3>2
    <2> QED BY <2>1, <2>4, <2>6, <2>7
  <1>3. CASE type \in HandlerTypes /\ status # "OK"
    <2>1. heap' = Append(heap, one) /\ freed' \subseteq freed \cup {Len(heap) + 1}
      BY <1>3 DEF AddHandler
    <2>2. <<one>> \in Seq({one}) /\ Len(<<one>>) = 1
      OBVIOUS
    <2> HIDE DEF one, status
    <2>3. heap' = heap \o <<one>>
      BY <1>0, <2>1 DEF HeapInv
    <2>4. /\ HeapInv' /\ Len(heap) \in Nat /\ Len(heap') = Len(heap) + 1
          /\ \A x \in 1..Len(heap) : heap'[x] = heap[x]
      BY <1>0, <2>2, <2>3, Extended
    <2>5. Len(heap') >= Len(heap) /\ Len(heap) + 1 <= Len(heap') /\ Len(heap') \in Nat
      BY <2>4
    <2>6. HandlerStatus(type, s) # "OK"
      BY <1>3 DEF status
    <2>7. \A x \in freed' : x \in freed \/ (x = Len(heap) + 1 /\ x <= Len(heap'))
      BY <2>1, <2>5
    <2> QED BY <2>4, <2>5, <2>6, <2>7
  <1> QED BY <1>1, <1>2, <1>3

LEMMA SameMemory ==
    ASSUME MemoryInv, UNCHANGED <<heap, freed, handlerMap, defaultHandler>>, pc' # "loaded",
           pc' \in {"main", "load", "loaded", "failed", "terminated", "undefined", "returned"},
           port' = port \/ port' \in MIN_PORT..MAX_PORT,
           thread' = thread \/ thread' \in 1..MAX_THREADS
    PROVE  MemoryInv'
  BY DEF MemoryInv, HeapInv

\* A number that is taken is within its bounds.
LEMMA NumberLoads ==
    ASSUME NEW s, NEW isset_, NEW min \in Nat, NEW max \in Nat, max < 2147483647
    PROVE  LET status == NumberStatus(s, isset_, min, max) IN
           /\ status \in {"load", "failed", "terminated"}
           /\ status = "load" => Number[s.tokens[2]] \in min..max
  <1> DEFINE n == Number[s.tokens[2]]
  <1>1. NumberStatus(s, isset_, min, max) \in {"load", "failed", "terminated"}
    BY DEF NumberStatus
  <1>2. ASSUME NumberStatus(s, isset_, min, max) = "load"
        PROVE  s.tokens[2] \in DOMAIN Number /\ Unsigned(n) \in min..max
    BY <1>2 DEF NumberStatus
  <1>3. ASSUME s.tokens[2] \in DOMAIN Number, Unsigned(n) \in min..max PROVE n \in min..max
    <2>1. n \in Int
      BY <1>3, HandlersAssumption
    <2> QED BY <1>3, <2>1 DEF Unsigned
  <1> QED BY <1>1, <1>2, <1>3

LEMMA StatementMemory == ASSUME MemoryInv, Statement PROVE MemoryInv'
  <1> DEFINE s == config[i]
  <1>0. /\ MIN_PORT \in Nat /\ MAX_PORT \in Nat /\ MAX_PORT < 2147483647
        /\ 1 \in Nat /\ MAX_THREADS \in Nat /\ MAX_THREADS < 2147483647
    BY DEF MIN_PORT, MAX_PORT, MAX_THREADS
  <1>1. ASSUME GoOn("load") \/ GoOn("failed") \/ GoOn("terminated") \/ GoOn("undefined")
        PROVE  pc' \in {"load", "failed", "terminated", "undefined"}
    BY <1>1 DEF GoOn
  <1>2. CASE UnknownSpecifier(s) \/ AddAuthenticationRealm(s)
    <2>1. UNCHANGED <<heap, freed, handlerMap, defaultHandler, port, thread>>
          /\ (GoOn("load") \/ GoOn("failed") \/ GoOn("undefined"))
      BY <1>2 DEF UnknownSpecifier, AddAuthenticationRealm, Refuse, options, memory
    <2> QED BY <1>1, <2>1, SameMemory
  <1>3. CASE AddPort(s)
    <2> DEFINE status == NumberStatus(s, issetPort, MIN_PORT, MAX_PORT)
    <2>1. /\ UNCHANGED <<heap, freed, handlerMap, defaultHandler, thread>> /\ GoOn(status)
          /\ port' = IF status = "load" THEN Number[s.tokens[2]] ELSE port
      BY <1>3 DEF AddPort, memory
    <2>2. /\ status \in {"load", "failed", "terminated"}
          /\ status = "load" => Number[s.tokens[2]] \in MIN_PORT..MAX_PORT
      BY <1>0, NumberLoads
    <2> HIDE DEF status
    <2> QED BY <1>1, <2>1, <2>2, SameMemory
  <1>4. CASE AddThread(s)
    <2> DEFINE status == NumberStatus(s, issetThread, 1, MAX_THREADS)
    <2>1. /\ UNCHANGED <<heap, freed, handlerMap, defaultHandler, port>> /\ GoOn(status)
          /\ thread' = IF status = "load" THEN Number[s.tokens[2]] ELSE thread
      BY <1>4 DEF AddThread, memory
    <2>2. /\ status \in {"load", "failed", "terminated"}
          /\ status = "load" => Number[s.tokens[2]] \in 1..MAX_THREADS
      BY <1>0, NumberLoads
    <2> HIDE DEF status
    <2> QED BY <1>1, <2>1, <2>2, SameMemory
  <1>5. ASSUME NEW type, NEW path, AddHandler(type, path, s) PROVE MemoryInv'
    <2> DEFINE h == Len(heap) + 1
    <2>1. /\ HeapInv' /\ Len(heap) \in Nat /\ Len(heap') \in Nat /\ Len(heap') >= Len(heap)
          /\ \A x \in 1..Len(heap) : heap'[x] = heap[x]
          /\ \A x \in freed' : x \in freed \/ (x = h /\ x <= Len(heap'))
          /\ HandlerStatus(type, s) = "OK" =>
                /\ h <= Len(heap')
                /\ heap'[h].type = "StaticHandler" => h + 1 \in 1..Len(heap')
      BY <1>5, AddMemory
    <2>2. /\ UNCHANGED <<port, thread>>
          /\ pc' \in {"load", "failed", "terminated", "undefined"}
          /\ \/ UNCHANGED <<handlerMap, defaultHandler>>
             \/ /\ HandlerStatus(type, s) = "OK" /\ UNCHANGED defaultHandler
                /\ handlerMap' = Put(handlerMap, path, h)
             \/ /\ HandlerStatus(type, s) = "OK" /\ UNCHANGED handlerMap
                /\ defaultHandler' = h
      BY <1>1, <1>5 DEF AddHandler, Keep
    <2>3. /\ freed' \subseteq 1..Len(heap')
          /\ \A p \in DOMAIN handlerMap :
                 /\ handlerMap[p] \in 1..Len(heap')
                 /\ heap'[handlerMap[p]].type = "StaticHandler"
                       => handlerMap[p] + 1 \in 1..Len(heap')
      <3>1. /\ freed \subseteq 1..Len(heap)
            /\ \A p \in DOMAIN handlerMap :
                   /\ handlerMap[p] \in 1..Len(heap)
                   /\ heap[handlerMap[p]].type = "StaticHandler"
                         => handlerMap[p] + 1 \in 1..Len(heap)
        BY DEF MemoryInv
      <3>2. freed' \subseteq 1..Len(heap')
        <4> SUFFICES ASSUME NEW x \in freed' PROVE x \in 1..Len(heap')
          OBVIOUS
        <4>1. x \in 1..Len(heap) \/ (x = h /\ x <= Len(heap'))
          BY <2>1, <3>1
        <4> QED BY <2>1, <4>1
      <3>3. ASSUME NEW p \in DOMAIN handlerMap
            PROVE  /\ handlerMap[p] \in 1..Len(heap')
                   /\ heap'[handlerMap[p]].type = "StaticHandler"
                         => handlerMap[p] + 1 \in 1..Len(heap')
        BY <2>1, <3>1
      <3> HIDE DEF h
      <3> QED BY <3>2, <3>3
    <2> HIDE DEF h
    <2>4. defaultHandler' \in 0..Len(heap')
      BY <2>1, <2>2 DEF MemoryInv, h
    <2>5. ASSUME NEW p \in DOMAIN handlerMap'
          PROVE  /\ handlerMap'[p] \in 1..Len(heap')
                 /\ heap'[handlerMap'[p]].type = "StaticHandler"
                       => handlerMap'[p] + 1 \in 1..Len(heap')
      <3>1. CASE handlerMap' = handlerMap
        BY <2>3, <3>1
      <3>2. CASE HandlerStatus(type, s) = "OK" /\ handlerMap' = Put(handlerMap, path, h)
        <4>1. handlerMap'[p] = h \/ (p \in DOMAIN handlerMap /\ handlerMap'[p] = handlerMap[p])
          BY <3>2 DEF Put
        <4>2. h \in 1..Len(heap')
          BY <2>1, <3>2 DEF h
        <4> QED BY <2>1, <2>3, <3>2, <4>1, <4>2
      <3> QED BY <2>2, <3>1, <3>2
    <2> QED BY <2>1, <2>2, <2>3, <2>4, <2>5 DEF MemoryInv
  <1>6. CASE AddPath(s) \/ AddDefaultHandler(s)
    <2>1. CASE Refuse
      <3>1. UNCHANGED <<heap, freed, handlerMap, defaultHandler, port, thread>>
        BY <2>1 DEF Refuse, options, memory
      <3> QED BY <1>1, <2>1, <3>1, SameMemory DEF Refuse
    <2> QED BY <1>5, <1>6, <2>1 DEF AddPath, AddDefaultHandler
  <1> QED BY <1>2, <1>3, <1>4, <1>6 DEF Statement

LEMMA NextMemory == MemoryInv /\ [Next]_vars => MemoryInv'
  <1> SUFFICES ASSUME MemoryInv, [Next]_vars PROVE MemoryInv'
    OBVIOUS
  <1>1. CASE Load
    BY <1>1, SameMemory DEF Load, options, memory
  <1>2. CASE Statement
    BY <1>2, StatementMemory
  <1>3. CASE Finish
    <2>1. CASE pc' = "failed"
      <3>1. UNCHANGED <<heap, freed, handlerMap, defaultHandler, port, thread>>
        BY <1>3, <2>1 DEF Finish, options, memory
      <3> QED BY <2>1, <3>1, SameMemory
    <2>2. CASE pc' = "loaded"
      <3>1. UNCHANGED <<port, handlerMap, freed>> /\ thread' \in 1..MAX_THREADS
        <4>1. UNCHANGED <<port, handlerMap, freed>>
              /\ (thread' = thread \/ thread' = DEFAULT_NUM_THREADS)
          BY <1>3, <2>2 DEF Finish
        <4>2. thread \in 1..MAX_THREADS /\ DEFAULT_NUM_THREADS \in 1..MAX_THREADS
          BY DEF MemoryInv, DEFAULT_NUM_THREADS, MAX_THREADS
        <4> QED BY <4>1, <4>2
      <3>2. CASE defaultHandler # 0 /\ UNCHANGED <<defaultHandler, heap>>
        BY <2>2, <3>1, <3>2 DEF MemoryInv, HeapInv
      <3>3. CASE heap' = Append(heap, NotFound) /\ defaultHandler' = Len(heap')
        <4>1. HeapInv /\ <<NotFound>> \in Seq({NotFound}) /\ Len(<<NotFound>>) = 1
          BY DEF MemoryInv
        <4>2. heap' = heap \o <<NotFound>>
          BY <3>3, <4>1 DEF HeapInv
        <4>3. /\ HeapInv' /\ Len(heap) \in Nat /\ Len(heap') = Len(heap) + 1
              /\ \A x \in 1..Len(heap) : heap'[x] = heap[x]
          BY <4>1, <4>2, Extended
        <4> QED BY <2>2, <3>1, <3>3, <4>3 DEF MemoryInv
      <3> QED BY <1>3, <2>2, <3>2, <3>3 DEF Finish
    <2> QED BY <1>3, <2>1, <2>2 DEF Finish
  <1>4. CASE Return
    <2>1. Deleted \subseteq 1..Len(heap)
      BY DEF Deleted, Range, MemoryInv
    <2>2. /\ UNCHANGED <<port, thread, handlerMap, defaultHandler, heap>>
          /\ freed' = freed \cup Deleted /\ pc' = "returned"
      BY <1>4 DEF Return, options
    <2> QED BY <2>1, <2>2 DEF MemoryInv, HeapInv
  <1>5. CASE UNCHANGED vars
    BY <1>5 DEF vars, options, memory, MemoryInv, HeapInv
  <1> QED BY <1>1, <1>2, <1>3, <1>4, <1>5 DEF Next

LEMMA InitMemory == Init => MemoryInv
  <1> SUFFICES ASSUME Init PROVE MemoryInv
    OBVIOUS
  <1>1. heap \in Seq({}) /\ Len(heap) = 0 /\ DOMAIN handlerMap = {}
    BY DEF Init
  <1>2. HeapInv
    BY <1>1 DEF HeapInv
  <1> QED BY <1>1, <1>2 DEF Init, MemoryInv, DEFAULT_NUM_THREADS, MAX_THREADS

-----------------------------------------------------------------------------
(* The request *)

\* What is looked up for a request does not change with anything else.
LEMMA SameLookups ==
    ASSUME UNCHANGED <<auth, req, handlerMap, defaultHandler>>
    PROVE  /\ Rejected' = Rejected
           /\ MatchRequestWithHandler(req)' = MatchRequestWithHandler(req)
  <1>1. (Requires(req))' = Requires(req)
    BY DEF Requires
  <1>2. (Passes(req))' = Passes(req)
    BY DEF Passes, SelectInSeq, Knows
  <1>3. Rejected' = Rejected
    BY <1>1, <1>2 DEF Rejected
  <1>4. MatchRequestWithHandler(req)' = MatchRequestWithHandler(req)
    BY DEF MatchRequestWithHandler
  <1> QED BY <1>3, <1>4

LEMMA RequestUri ==
    ASSUME ServeInv, req = ParsedOf(request, LinesRead(request))
    PROVE  req.uri_ = request.head.uri /\ IsSequence(req.uri_)
  <1>1. req.uri_ = request.head.uri
    BY DEF ParsedOf
  <1>2. CASE request = NoRequest
    <2>1. request.head.uri = <<>>
      BY <1>2 DEF NoRequest
    <2>2. Len(<<>>) = 0 /\ <<>> = [k \in 1..0 |-> <<>>[k]]
      OBVIOUS
    <2> QED BY <1>1, <2>1, <2>2 DEF IsSequence
  <1>3. CASE \E k \in DOMAIN Requests : request = Requests[k]
    BY <1>1, <1>3, ServerAssumption
  <1> QED BY <1>2, <1>3 DEF ServeInv

LEMMA InitServe == InitAll => ServeInv
  <1> SUFFICES ASSUME InitAll PROVE ServeInv
    OBVIOUS
  <1>1. stage = "idle" /\ handler = 0 /\ resp = NoResponse /\ request = NoRequest
    BY DEF InitAll
  <1>2. resp.code = NoCode /\ resp.realm = <<>>
    BY <1>1 DEF NoResponse
  <1> QED BY <1>1, <1>2 DEF ServeInv

\* While the file is read nothing is served.
LEMMA LoadServe ==
    ASSUME ServeInv, pc \in {"main", "load"}, UNCHANGED serving
    PROVE  ServeInv'
  <1>1. stage = "idle" /\ handler = 0 /\ resp = NoResponse
    BY DEF ServeInv
  <1>2. /\ stage' = "idle" /\ handler' = 0 /\ resp' = NoResponse
        /\ request' = NoRequest \/ \E k \in DOMAIN Requests : request' = Requests[k]
    BY <1>1 DEF ServeInv, serving
  <1> QED BY <1>2 DEF ServeInv, NoResponse, NoCode

LEMMA ReturnServe ==
    ASSUME ServeInv, stage \in {"idle", "answered", "closed", "dead"}, Return, UNCHANGED serving
    PROVE  ServeInv'
  <1>1. UNCHANGED <<auth, req, handlerMap, defaultHandler, heap>> /\ pc' = "returned"
    BY DEF Return, options, serving
  <1>2. Rejected' = Rejected /\ MatchRequestWithHandler(req)' = MatchRequestWithHandler(req)
    BY <1>1, SameLookups
  <1> QED BY <1>1, <1>2 DEF ServeInv, serving

LEMMA ReceiveServe == ASSUME ServeInv, Receive, UNCHANGED vars PROVE ServeInv'
  BY DEF Receive, ServeInv, vars, options, NoResponse, NoCode


\* Request::Parse
LEMMA ParseServe == ASSUME ServeInv, Parse, UNCHANGED vars PROVE ServeInv'
  <1>1. stage = "read" /\ handler = 0 /\ resp = NoResponse /\ pc = "loaded"
    BY DEF Parse, ServeInv
  <1>2. UNCHANGED <<request, handler, file, resp, site, seen, pc, auth>>
    BY DEF Parse, vars, options
  <1>3. resp.code = NoCode /\ resp.realm = <<>>
    BY <1>1 DEF NoResponse
  <1>4. \/ stage' \in {"closed", "dead"}
        \/ /\ ~Malformed(request, LinesRead(request))
           /\ stage' = "parsed" /\ req' = ParsedOf(request, LinesRead(request))
    BY DEF Parse
  <1>5. request' = NoRequest \/ \E k \in DOMAIN Requests : request' = Requests[k]
    BY <1>2 DEF ServeInv
  <1>6. CASE stage' \in {"closed", "dead"}
    BY <1>1, <1>2, <1>3, <1>5, <1>6 DEF ServeInv
  <1>7. CASE /\ ~Malformed(request, LinesRead(request))
             /\ stage' = "parsed" /\ req' = ParsedOf(request, LinesRead(request))
    BY <1>1, <1>2, <1>3, <1>5, <1>7 DEF ServeInv
  <1> QED BY <1>4, <1>6, <1>7

\* processRawRequest up to the handler.
LEMMA DispatchServe == ASSUME MemoryInv, ServeInv, Dispatch, UNCHANGED vars PROVE ServeInv'
  <1>1. /\ stage = "parsed" /\ handler = 0 /\ resp = NoResponse /\ pc = "loaded"
        /\ ~Malformed(request, LinesRead(request)) /\ req = ParsedOf(request, LinesRead(request))
        /\ request = NoRequest \/ \E k \in DOMAIN Requests : request = Requests[k]
    BY DEF Dispatch, ServeInv
  <1>0. IsSequence(req.uri_)
    BY <1>1, RequestUri
  <1>2. UNCHANGED <<request, req, file, site, seen, pc, auth, handlerMap, defaultHandler>>
    BY DEF Dispatch, vars, options
  <1>3. Rejected' = Rejected /\ MatchRequestWithHandler(req)' = MatchRequestWithHandler(req)
    BY <1>2, SameLookups
  <1>4. CASE Rejected
    <2>1. /\ resp' = [code |-> 401, realm |-> MapHasPrefix(DOMAIN auth, req.uri_),
                      mime |-> "text/html", body |-> <<"invalid_credentials">>]
          /\ handler' = handler
          /\ stage' = IF resp'.code \in Codes THEN "answered" ELSE "dead"
      BY <1>4 DEF Rejected, Dispatch, Challenge, Answer
    <2>2. /\ resp'.code = 401 /\ resp'.realm = MapHasPrefix(DOMAIN auth, req.uri_)
          /\ resp'.body = <<"invalid_credentials">> /\ stage' = "answered"
      BY <2>1 DEF Codes
    <2>3. MapHasPrefix(DOMAIN auth, req.uri_) \in {<<>>} \cup DOMAIN auth
      <3>1. MapHasPrefix(DOMAIN auth, req.uri_) # <<>>
        BY <1>4 DEF Rejected, Requires
      <3> QED BY <3>1, <1>0, PrefixIsPrefix
    <2>4. Rejected' /\ resp'.realm = MapHasPrefix(DOMAIN auth', req'.uri_)
          /\ resp'.realm \in {<<>>} \cup DOMAIN auth' /\ handler' = 0 /\ 401 \in Codes
      BY <1>1, <1>2, <1>3, <1>4, <2>1, <2>2, <2>3 DEF Codes
    <2> QED BY <1>1, <1>2, <2>2, <2>4 DEF ServeInv
  <1>5. CASE ~Rejected
    <2>1. handler' = MatchRequestWithHandler(req) /\ stage' = "handling" /\ resp' = resp
      BY <1>5 DEF Rejected, Dispatch
    <2>2. handler' # 0
      <3>1. CASE MapHasPrefix(DOMAIN handlerMap, req.uri_) = <<>>
        BY <1>1, <2>1, <3>1 DEF MatchRequestWithHandler, MemoryInv
      <3>2. CASE MapHasPrefix(DOMAIN handlerMap, req.uri_) # <<>>
        <4>1. MapHasPrefix(DOMAIN handlerMap, req.uri_) \in DOMAIN handlerMap
          BY <3>2, <1>0, PrefixIsPrefix
        <4> QED BY <2>1, <3>2, <4>1 DEF MatchRequestWithHandler, MemoryInv, HeapInv
      <3> QED BY <3>1, <3>2
    <2>3. resp'.code = NoCode /\ resp'.realm = <<>>
      BY <1>1, <2>1 DEF NoResponse
    <2> QED BY <1>1, <1>2, <1>3, <1>5, <2>1, <2>2, <2>3 DEF ServeInv
  <1> QED BY <1>4, <1>5

\* What the handlers answer.
Reply(code, mime, body) == [code |-> code, realm |-> <<>>, mime |-> mime, body |-> body]

\* The answer of a StaticHandler to the name it was to open, and that name.
Opened ==
    LET content == Open(site, file)
        convert == heap[handler].markdown /\ Extension(file) = "md"
    IN  /\ content # Directory
        /\ content = "none" => resp = Reply(404, "text/plain", <<"404_Not_Found">>)
        /\ content # "none" /\ ~convert =>
               resp = Reply(200, MIMEType(file), <<"file", file, content>>)
        /\ content # "none" /\ convert =>
               resp = IF ConvertMarkdownToHtml(content) = "" THEN Reply(500, "", <<>>)
                      ELSE Reply(200, "text/html",
                                 <<"file", file, ConvertMarkdownToHtml(content)>>)
\* The name that a StaticHandler is to open is one it has looked up.
Looked ==
    /\ site \in Sites
    /\ \E name \in FilePaths(heap[handler].filebase, ReqPath(req.uri_, heap[handler].path_)) :
           file = LookUp(seen, name)

StatusPage == <<"table", [p \in DOMAIN handlerMap |-> heap[handlerMap[p]].type],
                heap[defaultHandler].type>>

Replied ==
    \/ heap[handler].type = "EchoHandler" /\ resp = Reply(200, "text/plain", <<"echo", RawRequest(req)>>)
    \/ heap[handler].type = "DelayHandler" /\ resp = Reply(200, "text/plain", <<"Delay_Test">>)
    \/ heap[handler].type = "StatusHandler" /\ resp = Reply(200, "text/html", StatusPage)
    \/ heap[handler].type = "NotFoundHandler" /\ resp = Reply(404, "text/plain", <<"404_Not_Found">>)
    \/ heap[handler].type = "ProxyHandler"
       /\ \E code \in Codes \cup {NoCode} : resp = Reply(code, "", <<"remote">>)
    \/ heap[handler].type = "StaticHandler" /\ Looked /\ Opened

LEMMA HandleReplies ==
    ASSUME Handle, UNCHANGED vars
    PROVE  Replied' /\ resp'.code \in Codes \cup {NoCode} /\ resp'.realm = <<>>
  <1> DEFINE h == heap[handler]
  <1>1. UNCHANGED <<req, handler, heap, handlerMap, defaultHandler>>
    BY DEF Handle, vars, options, memory
  <1>2. CASE Echo(h)
    <2>1. h.type = "EchoHandler" /\ resp' = Reply(200, "text/plain", <<"echo", RawRequest(req)>>)
      BY <1>2 DEF Echo, RespondWith, Reply
    <2>2. Replied'
      BY <1>1, <2>1 DEF Replied
    <2> QED BY <2>1, <2>2 DEF Reply, Codes
  <1>3. CASE Delay(h)
    <2>1. h.type = "DelayHandler" /\ resp' = Reply(200, "text/plain", <<"Delay_Test">>)
      BY <1>3 DEF Delay, RespondWith, Reply
    <2>2. Replied'
      BY <1>1, <2>1 DEF Replied
    <2> QED BY <2>1, <2>2 DEF Reply, Codes
  <1>4. CASE Status(h)
    <2>1. h.type = "StatusHandler" /\ resp' = Reply(200, "text/html", StatusPage)
      BY <1>4 DEF Status, RespondWith, Reply, StatusPage
    <2>2. StatusPage' = StatusPage
      BY <1>1 DEF StatusPage
    <2>3. Replied'
      BY <1>1, <2>1, <2>2 DEF Replied
    <2> QED BY <2>1, <2>3 DEF Reply, Codes
  <1>5. CASE Proxy(h)
    <2>1. PICK code \in Codes \cup {NoCode} : resp' = Reply(code, "", <<"remote">>)
      BY <1>5 DEF Proxy, RespondWith, Reply
    <2>2. Replied'
      BY <1>1, <1>5, <2>1 DEF Proxy, Replied
    <2> QED BY <2>1, <2>2 DEF Reply
  <1>6. CASE h.type = "NotFoundHandler" /\ NotFoundAnswer
    <2>1. resp' = Reply(404, "text/plain", <<"404_Not_Found">>)
      BY <1>6 DEF NotFoundAnswer, RespondWith, Reply
    <2>2. Replied'
      BY <1>1, <1>6, <2>1 DEF Replied
    <2> QED BY <2>1, <2>2 DEF Reply, Codes
  <1> QED BY <1>2, <1>3, <1>4, <1>5, <1>6 DEF Handle

LEMMA ServeReplies ==
    ASSUME Serve, UNCHANGED vars
    PROVE  \/ resp' = resp /\ stage' = "dead"
           \/ Opened' /\ resp'.code \in Codes /\ resp'.realm = <<>> /\ Answer
  <1> DEFINE content == Open(site, file)
             convert == heap[handler].markdown /\ Extension(file) = "md"
  <1>1. UNCHANGED <<req, handler, file, site, seen, heap>>
    BY DEF Serve, vars, memory
  <1>2. CASE content = Directory
    BY <1>2 DEF Serve
  <1>3. CASE content # Directory
    <2>1. Answer /\ (content = "none" => resp' = Reply(404, "text/plain", <<"404_Not_Found">>))
      BY <1>3 DEF Serve, NotFoundAnswer, RespondWith, Reply
    <2>2. content # "none" /\ ~convert
              => resp' = Reply(200, MIMEType(file), <<"file", file, content>>)
      BY <1>3 DEF Serve, RespondWith, Reply
    <2>3. content # "none" /\ convert =>
              resp' = IF ConvertMarkdownToHtml(content) = "" THEN Reply(500, "", <<>>)
                      ELSE Reply(200, "text/html",
                                 <<"file", file, ConvertMarkdownToHtml(content)>>)
      BY <1>3 DEF Serve, RespondWith, Reply
    <2>4. Opened'
      BY <1>1, <1>3, <2>1, <2>2, <2>3 DEF Opened
    <2>5. resp'.code \in {200, 404, 500} /\ resp'.realm = <<>>
      <3> HIDE DEF content, convert
      <3>1. CASE content = "none"
        <4>1. resp' = Reply(404, "text/plain", <<"404_Not_Found">>)
          BY <2>1, <3>1
        <4> QED BY <4>1 DEF Reply
      <3>2. CASE content # "none" /\ ~convert
        BY <2>2, <3>2 DEF Reply
      <3>3. CASE content # "none" /\ convert
        <4> DEFINE body == <<"file", file, ConvertMarkdownToHtml(content)>>
        <4>1. resp' = Reply(500, "", <<>>) \/ resp' = Reply(200, "text/html", body)
          BY <2>3, <3>3
        <4>2. CASE resp' = Reply(500, "", <<>>)
          BY <4>2 DEF Reply
        <4>3. CASE resp' = Reply(200, "text/html", body)
          <5> HIDE DEF body
          <5> QED BY <4>3 DEF Reply
        <4> QED BY <4>1, <4>2, <4>3
      <3> QED BY <3>1, <3>2, <3>3
    <2>6. resp'.code \in Codes
      BY <2>5 DEF Codes
    <2> QED BY <2>1, <2>4, <2>5, <2>6
  <1> QED BY <1>2, <1>3

LEMMA HandleServe == ASSUME ServeInv, Handle, UNCHANGED vars PROVE ServeInv'
  <1>1. /\ stage = "handling" /\ handler # 0 /\ pc = "loaded"
        /\ request = NoRequest \/ \E k \in DOMAIN Requests : request = Requests[k]
        /\ ~Malformed(request, LinesRead(request)) /\ req = ParsedOf(request, LinesRead(request))
        /\ handler = MatchRequestWithHandler(req) /\ ~Rejected
    BY DEF Handle, ServeInv
  <1>2. UNCHANGED <<request, req, handler, pc, auth, heap, handlerMap, defaultHandler>>
    BY DEF Handle, vars, options, memory
  <1>3. Rejected' = Rejected /\ MatchRequestWithHandler(req)' = MatchRequestWithHandler(req)
    BY <1>2, SameLookups
  <1>4. resp'.code \in Codes \cup {NoCode} /\ resp'.realm = <<>>
    BY HandleReplies
  <1>5. stage' = IF resp'.code \in Codes THEN "answered" ELSE "dead"
    BY DEF Handle, Answer
  <1> QED BY <1>1, <1>2, <1>3, <1>4, <1>5 DEF ServeInv

\* StaticHandler, before and after it has opened the file.
LEMMA FindServe == ASSUME ServeInv, Find \/ Change, UNCHANGED vars PROVE ServeInv'
  <1>1. /\ stage \in {"handling", "found"} /\ handler # 0 /\ pc = "loaded" /\ resp = NoResponse
        /\ request = NoRequest \/ \E k \in DOMAIN Requests : request = Requests[k]
        /\ ~Malformed(request, LinesRead(request)) /\ req = ParsedOf(request, LinesRead(request))
        /\ handler = MatchRequestWithHandler(req) /\ ~Rejected
        /\ heap[handler].type = "StaticHandler"
    BY DEF Find, Change, ServeInv
  <1>2. /\ UNCHANGED <<request, req, handler, resp, pc, auth, heap, handlerMap, defaultHandler>>
        /\ stage' = "found"
    BY DEF Find, Change, vars, options, memory
  <1>3. Rejected' = Rejected /\ MatchRequestWithHandler(req)' = MatchRequestWithHandler(req)
    BY <1>2, SameLookups
  <1>4. resp'.code = NoCode /\ resp'.realm = <<>>
    BY <1>1, <1>2 DEF NoResponse
  <1> QED BY <1>1, <1>2, <1>3, <1>4 DEF ServeInv

LEMMA ServeServe == ASSUME ServeInv, Serve, UNCHANGED vars PROVE ServeInv'
  <1>1. /\ stage = "found" /\ handler # 0 /\ pc = "loaded" /\ resp = NoResponse
        /\ request = NoRequest \/ \E k \in DOMAIN Requests : request = Requests[k]
        /\ ~Malformed(request, LinesRead(request)) /\ req = ParsedOf(request, LinesRead(request))
        /\ handler = MatchRequestWithHandler(req) /\ ~Rejected
    BY DEF Serve, ServeInv
  <1>2. UNCHANGED <<request, req, handler, pc, auth, heap, handlerMap, defaultHandler>>
    BY DEF Serve, vars, options, memory
  <1>3. Rejected' = Rejected /\ MatchRequestWithHandler(req)' = MatchRequestWithHandler(req)
    BY <1>2, SameLookups
  <1>4. /\ resp'.code \in Codes \cup {NoCode} /\ resp'.realm = <<>>
        /\ stage' = "dead" \/ (stage' = "answered" /\ resp'.code \in Codes)
    <2>1. CASE resp' = resp /\ stage' = "dead"
      BY <1>1, <2>1 DEF NoResponse
    <2> QED BY <2>1, ServeReplies DEF Answer
  <1> QED BY <1>1, <1>2, <1>3, <1>4 DEF ServeInv

LEMMA NextServe == MemoryInv /\ ServeInv /\ [NextAll]_allvars => ServeInv'
  <1> SUFFICES ASSUME MemoryInv, ServeInv, [NextAll]_allvars PROVE ServeInv'
    OBVIOUS
  <1>1. CASE (Load \/ Statement \/ Finish) /\ UNCHANGED serving
    <2>1. pc \in {"main", "load"}
      BY <1>1 DEF Load, Statement, Finish
    <2> QED BY <1>1, <2>1, LoadServe
  <1>2. CASE stage \in {"idle", "answered", "closed", "dead"} /\ Return /\ UNCHANGED serving
    BY <1>2, ReturnServe
  <1>3. CASE (Receive \/ Parse \/ Dispatch \/ Handle \/ Find \/ Change \/ Serve) /\ UNCHANGED vars
    BY <1>3, ReceiveServe, ParseServe, DispatchServe, HandleServe, FindServe, ServeServe
  <1>4. CASE UNCHANGED allvars
    <2>1. UNCHANGED serving
          /\ UNCHANGED <<pc, heap, auth, req, handlerMap, defaultHandler>>
      BY <1>4 DEF allvars, vars, options, memory, serving
    <2>2. Rejected' = Rejected /\ MatchRequestWithHandler(req)' = MatchRequestWithHandler(req)
      BY <2>1, SameLookups
    <2> QED BY <2>1, <2>2 DEF ServeInv, serving
  <1> QED BY <1>1, <1>2, <1>3, <1>4 DEF NextAll

AnswerInv ==
    /\ stage = "found" => Looked
    /\ stage = "answered" /\ handler # 0 => Replied

LEMMA SameAnswers ==
    ASSUME UNCHANGED serving, UNCHANGED <<heap, handlerMap, defaultHandler>>
    PROVE  (Looked => Looked') /\ (Replied => Replied')
  <1>1. UNCHANGED <<req, handler, file, resp, site, seen>>
    BY DEF serving
  <1>2. (Looked' <=> Looked) /\ (Opened' <=> Opened)
    BY <1>1 DEF Looked, Opened
  <1>3. StatusPage' = StatusPage
    BY DEF StatusPage
  <1>4. Replied => Replied'
    BY <1>1, <1>2, <1>3 DEF Replied
  <1> QED BY <1>2, <1>4

LEMMA NextAnswer == ServeInv /\ AnswerInv /\ [NextAll]_allvars => AnswerInv'
  <1> SUFFICES ASSUME ServeInv, AnswerInv, [NextAll]_allvars PROVE AnswerInv'
    OBVIOUS
  <1>1. CASE (Load \/ Statement \/ Finish) /\ UNCHANGED serving
    <2>1. stage' = "idle"
      BY <1>1 DEF Load, Statement, Finish, ServeInv, serving
    <2> QED BY <2>1 DEF AnswerInv
  <1>2. CASE \/ stage \in {"idle", "answered", "closed", "dead"} /\ Return /\ UNCHANGED serving
             \/ UNCHANGED allvars
    <2>1. UNCHANGED serving /\ UNCHANGED <<heap, handlerMap, defaultHandler>>
      BY <1>2 DEF Return, options, allvars, vars, memory
    <2>2. (Looked => Looked') /\ (Replied => Replied')
      BY <2>1, SameAnswers
    <2> QED BY <2>1, <2>2 DEF AnswerInv, serving
  <1>3. CASE (Receive \/ Parse) /\ UNCHANGED vars
    <2>1. stage' \in {"read", "closed", "parsed", "dead"}
      BY <1>3 DEF Receive, Parse
    <2> QED BY <2>1 DEF AnswerInv
  <1>4. CASE Dispatch
    <2>1. handler = 0
      BY <1>4 DEF Dispatch, ServeInv
    <2>2. stage' = "handling" \/ (handler' = 0 /\ stage' \in {"answered", "dead"})
      BY <1>4, <2>1 DEF Dispatch, Answer
    <2> QED BY <2>2 DEF AnswerInv
  <1>5. CASE Handle /\ UNCHANGED vars
    <2>1. stage' \in {"answered", "dead"}
      BY <1>5 DEF Handle, Answer
    <2> QED BY <1>5, <2>1, HandleReplies DEF AnswerInv
  <1>6. CASE Find /\ UNCHANGED vars
    <2>1. UNCHANGED <<heap, req, handler>> /\ seen' = site' /\ stage' = "found"
          /\ site' \in Sites
          /\ \E name \in FilePaths(heap[handler].filebase, ReqPath(req.uri_, heap[handler].path_)) :
                 file' = LookUp(site', name)
      BY <1>6 DEF Find, vars, memory
    <2>2. Looked'
      BY <2>1 DEF Looked
    <2> QED BY <2>1, <2>2 DEF AnswerInv
  <1>7. CASE Change /\ UNCHANGED vars
    <2>1. UNCHANGED <<heap, req, handler, file, seen, stage>> /\ stage = "found" /\ site' \in Sites
      BY <1>7 DEF Change, vars, memory
    <2>2. Looked'
      BY <2>1 DEF Looked, AnswerInv
    <2> QED BY <2>1, <2>2 DEF AnswerInv
  <1>8. CASE Serve /\ UNCHANGED vars
    <2>1. UNCHANGED <<heap, req, handler, file, seen, site>> /\ stage = "found"
      BY <1>8 DEF Serve, vars, memory
    <2>2. Looked'
      BY <2>1 DEF Looked, AnswerInv
    <2>3. stage' = "dead" \/ (stage' = "answered" /\ Opened')
      BY <1>8, ServeReplies DEF Answer
    <2>4. heap'[handler'].type = "StaticHandler"
      BY <2>1 DEF ServeInv
    <2>5. stage' = "answered" => Replied'
      BY <2>2, <2>3, <2>4 DEF Replied
    <2> QED BY <2>3, <2>5 DEF AnswerInv
  <1> QED BY <1>1, <1>2, <1>3, <1>4, <1>5, <1>6, <1>7, <1>8 DEF NextAll

\* The answers by the type of the handler.
LEMMA RepliedIs ==
    ASSUME Replied
    PROVE  LET type == heap[handler].type IN
           /\ type \in HandlerTypes
           /\ type = "EchoHandler" => resp.code = 200 /\ resp.body = <<"echo", RawRequest(req)>>
           /\ type = "DelayHandler" => resp.code = 200 /\ resp.body = <<"Delay_Test">>
           /\ type = "StatusHandler" => resp.code = 200 /\ resp.body = StatusPage
           /\ type = "NotFoundHandler" => resp.code = 404 /\ resp.body = <<"404_Not_Found">>
           /\ type = "ProxyHandler" => resp.body = <<"remote">>
           /\ type = "StaticHandler" =>
                 \/ resp.code = 404 /\ resp.body = <<"404_Not_Found">>
                 \/ resp.code = 500 /\ resp.body = <<>>
                 \/ resp.code = 200 /\ resp.body # <<>> /\ resp.body[1] = "file"
  <1> DEFINE type == heap[handler].type
  <1>1. type = "EchoHandler" => resp = Reply(200, "text/plain", <<"echo", RawRequest(req)>>)
    BY DEF Replied
  <1>2. type = "DelayHandler" => resp = Reply(200, "text/plain", <<"Delay_Test">>)
    BY DEF Replied
  <1>3. type = "StatusHandler" => resp = Reply(200, "text/html", StatusPage)
    BY DEF Replied
  <1>4. type = "NotFoundHandler" => resp = Reply(404, "text/plain", <<"404_Not_Found">>)
    BY DEF Replied
  <1>5. type = "ProxyHandler" => \E code : resp = Reply(code, "", <<"remote">>)
    BY DEF Replied
  <1>6. type = "StaticHandler" => Opened
    BY DEF Replied
  <1>7. type \in HandlerTypes
    BY DEF Replied, HandlerTypes
  <1>8. ASSUME Opened
        PROVE  \/ resp.code = 404 /\ resp.body = <<"404_Not_Found">>
               \/ resp.code = 500 /\ resp.body = <<>>
               \/ resp.code = 200 /\ resp.body # <<>> /\ resp.body[1] = "file"
    <2> DEFINE content == Open(site, file)
               convert == heap[handler].markdown /\ Extension(file) = "md"
               html == ConvertMarkdownToHtml(content)
    <2>1. /\ content = "none" => resp = Reply(404, "text/plain", <<"404_Not_Found">>)
          /\ content # "none" /\ ~convert =>
                 resp = Reply(200, MIMEType(file), <<"file", file, content>>)
          /\ content # "none" /\ convert =>
                 \/ resp = Reply(500, "", <<>>)
                 \/ resp = Reply(200, "text/html", <<"file", file, html>>)
      BY <1>8 DEF Opened
    <2> HIDE DEF content, convert, html
    <2>2. CASE resp = Reply(404, "text/plain", <<"404_Not_Found">>)
      BY <2>2 DEF Reply
    <2>3. CASE resp = Reply(200, MIMEType(file), <<"file", file, content>>)
      BY <2>3 DEF Reply
    <2>4. CASE resp = Reply(500, "", <<>>)
      BY <2>4 DEF Reply
    <2>5. CASE resp = Reply(200, "text/html", <<"file", file, html>>)
      BY <2>5 DEF Reply
    <2> QED BY <2>1, <2>2, <2>3, <2>4, <2>5
  <1>9. CASE type = "EchoHandler"
    BY <1>1, <1>7, <1>9 DEF Reply
  <1>10. CASE type = "DelayHandler"
    BY <1>2, <1>7, <1>10 DEF Reply
  <1>11. CASE type = "StatusHandler"
    BY <1>3, <1>7, <1>11 DEF Reply
  <1>12. CASE type = "NotFoundHandler"
    BY <1>4, <1>7, <1>12 DEF Reply
  <1>13. CASE type = "ProxyHandler"
    <2>1. PICK code : resp = Reply(code, "", <<"remote">>)
      BY <1>5, <1>13
    <2> QED BY <1>7, <1>13, <2>1 DEF Reply
  <1>14. CASE type = "StaticHandler"
    BY <1>6, <1>7, <1>8, <1>14
  <1> QED BY <1>7, <1>9, <1>10, <1>11, <1>12, <1>13, <1>14 DEF HandlerTypes

-----------------------------------------------------------------------------
(* The text *)

\* A text that may be sent.
Text(r) ==
    /\ IsSequence(r.head.uri) /\ IsSequence(r.lines) /\ r.head.bare \in BOOLEAN
    /\ \A j \in DOMAIN r.lines :
           LET l == r.lines[j] IN
           /\ l = [key |-> l.key, value |-> l.value, colon |-> l.colon, bare |-> l.bare]
           /\ l.colon \in BOOLEAN /\ l.bare \in BOOLEAN
           /\ l.key = "Authorization" /\ Len(l.value) = 2 /\ l.value[1] = "Basic"
                  => l.value[2] \in Seq(0..Pad)

\* x between two sequences.
LEMMA Between ==
    ASSUME NEW n \in Nat, NEW a, a = [k \in 1..n |-> a[k]], NEW x, NEW T, NEW b \in Seq(T)
    PROVE  LET s == a \o <<x>> \o b IN
           /\ s[n + 1] = x /\ \A k \in 1..n : s[k] = a[k]
           /\ b = <<>> => Len(s) = n + 1
  <1> DEFINE V == {a[k] : k \in 1..n}  U == V \cup T \cup {x}
  <1>1. a \in Seq(V) /\ Len(a) = n
    <2>1. a \in [1..n -> V]
      <3>1. \A k \in 1..n : a[k] \in V
        OBVIOUS
      <3> HIDE DEF V
      <3> QED BY <3>1
    <2> HIDE DEF V
    <2> QED BY <2>1, IsASeq
  <1>2. a \in Seq(U) /\ b \in Seq(U) /\ <<x>> \in Seq(U)
    BY <1>1, SeqMonotonic
  <1> HIDE DEF U, V
  <1>3. /\ a \o <<x>> \in Seq(U) /\ Len(a \o <<x>>) = n + 1
        /\ \A k \in 1..n : (a \o <<x>>)[k] = a[k]
        /\ (a \o <<x>>)[n + 1] = x
    BY <1>1, <1>2, ConcatProperties
  <1>4. PICK c : c = a \o <<x>>
    OBVIOUS
  <1>5. c \in Seq(U) /\ Len(c) = n + 1 /\ c[n + 1] = x /\ \A k \in 1..n : c[k] = a[k]
    BY <1>3, <1>4
  <1>6. /\ Len(c \o b) = Len(c) + Len(b) /\ Len(b) \in Nat
        /\ \A k \in 1..Len(c) + Len(b) : (c \o b)[k] = IF k <= Len(c) THEN c[k] ELSE b[k - Len(c)]
    <2>1. b \in Seq(U) /\ c \in Seq(U)
      BY <1>2, <1>5
    <2>2. Len(b) \in Nat
      BY <2>1, LenProperties
    <2> QED BY ONLY <2>1, <2>2, ConcatProperties
  <1>7. (c \o b)[n + 1] = x /\ \A k \in 1..n : (c \o b)[k] = a[k]
    BY <1>5, <1>6
  <1>8. b = <<>> => Len(c \o b) = n + 1
    BY <1>5, <1>6
  <1> QED BY <1>4, <1>7, <1>8

\* A request that is not malformed is one of those that may be sent.
LEMMA RequestIs ==
    ASSUME ServeInv, ~Malformed(request, LinesRead(request))
    PROVE  Text(request)
  <1>1. request # NoRequest
    <2>1. NoRequest.head.tokens # 3
      BY DEF NoRequest
    <2> QED BY <2>1 DEF Malformed
  <1>2. \E k \in DOMAIN Requests : request = Requests[k]
    BY <1>1 DEF ServeInv
  <1> QED BY <1>2, ServerAssumption DEF Text

\* Where the first empty line is, the last chunk, and what is handed on.
LEMMA LinesReadIs ==
    ASSUME NEW r, Text(r)
    PROVE  /\ DOMAIN r.lines = 1..Len(r.lines) /\ Len(r.lines) \in Nat
           /\ LastChunk(r) # {} => /\ LinesRead(r) \in LastChunk(r)
                                   /\ \A k \in LastChunk(r) : LinesRead(r) <= k
           /\ LastChunk(r) = {} /\ LinesRead(r) # -1 =>
                 /\ LinesRead(r) \in 0..Len(r.lines)
                 /\ \A k \in DOMAIN r.lines : ~r.lines[k].bare => k <= LinesRead(r)
           /\ LinesRead(r) \in -1..Len(r.lines)
           /\ LinesRead(r) # -1 => ~Bare(r, LinesRead(r))
  <1> DEFINE whole == {k \in 0..Len(r.lines) : ~Bare(r, k)}
  <1>1. DOMAIN r.lines = 1..Len(r.lines) /\ Len(r.lines) \in Nat
    <2>1. Len(r.lines) \in Nat /\ r.lines = [k \in 1..Len(r.lines) |-> r.lines[k]]
      BY DEF Text, IsSequence
    <2>2. DOMAIN [k \in 1..Len(r.lines) |-> r.lines[k]] = 1..Len(r.lines)
      OBVIOUS
    <2> QED BY <2>1, <2>2
  <1>2. LastChunk(r) \subseteq 1..Len(r.lines)
    BY <1>1 DEF LastChunk
  <1>3. LinesRead(r) = IF LastChunk(r) # {} THEN Min(LastChunk(r))
                       ELSE IF whole # {} THEN Max(whole) ELSE -1
    BY DEF LinesRead
  <1>4. CASE LastChunk(r) # {}
    <2>1. LinesRead(r) \in LastChunk(r) /\ \A k \in LastChunk(r) : LinesRead(r) <= k
      BY <1>2, <1>3, <1>4, MinIn
    <2>2. ~Bare(r, LinesRead(r))
      BY <2>1 DEF LastChunk
    <2> QED BY <1>1, <1>2, <1>4, <2>1, <2>2
  <1>5. CASE LastChunk(r) = {} /\ whole # {}
    <2>1. whole \subseteq 0..Len(r.lines)
      OBVIOUS
    <2> HIDE DEF whole
    <2>2. LinesRead(r) \in whole /\ \A k \in whole : k <= LinesRead(r)
      BY <1>1, <1>3, <1>5, <2>1, MaxIn
    <2>3. ASSUME NEW k \in DOMAIN r.lines, ~r.lines[k].bare PROVE k \in whole
      BY <1>1, <2>3 DEF whole, Bare
    <2>4. LinesRead(r) \in 0..Len(r.lines)
      BY <2>1, <2>2
    <2>5. LinesRead(r) \in -1..Len(r.lines)
      BY <1>1, <2>4
    <2>6. ~Bare(r, LinesRead(r))
      BY <2>2 DEF whole
    <2> QED BY <1>1, <1>5, <2>2, <2>3, <2>4, <2>5, <2>6
  <1>6. CASE LastChunk(r) = {} /\ whole = {}
    <2>1. LinesRead(r) = -1
      BY <1>3, <1>6
    <2> QED BY <1>1, <1>6, <2>1
  <1> QED BY <1>4, <1>5, <1>6

\* The headers end at the first line without a ':'.
LEMMA HeadersEndIs ==
    ASSUME NEW r, Text(r), NEW n \in 0..Len(r.lines), Len(r.lines) \in Nat
    PROVE  /\ HeadersEnd(r, n) \in 1..n+1
           /\ \A k \in 1..HeadersEnd(r, n)-1 : r.lines[k].colon
           /\ HeadersEnd(r, n) <= n => ~r.lines[HeadersEnd(r, n)].colon
  <1> DEFINE s == SubSeq(r.lines, 1, n)
             I == {k \in 1..Len(s) : ~s[k].colon}
             m == HeadersEnd(r, n)
  <1>1. PICK T : r.lines \in Seq(T)
    BY SequenceIsSeq DEF Text
  <1>2. Len(s) = n /\ \A k \in 1..n : s[k] = r.lines[k]
    BY <1>1, SubSeqProperties
  <1>3. m = IF (IF I # {} THEN Min(I) ELSE 0) = 0 THEN n + 1 ELSE IF I # {} THEN Min(I) ELSE 0
    BY DEF HeadersEnd, SelectInSeq
  <1> HIDE DEF s, m
  <1>4. I \subseteq 1..n /\ \A k \in 1..n : k \in I <=> ~r.lines[k].colon
    BY <1>2
  <1> HIDE DEF I
  <1>0. n \in Nat /\ I \subseteq Nat
    BY <1>4
  <1>5. CASE I # {}
    <2>1. Min(I) \in I /\ \A k \in I : Min(I) <= k
      BY <1>0, <1>5, MinIn
    <2>2. m = Min(I) /\ m \in 1..n
      BY <1>3, <1>4, <1>5, <2>1
    <2>3. \A k \in 1..m-1 : k \in 1..n /\ k \notin I
      BY <1>0, <2>1, <2>2
    <2> QED BY <1>0, <1>4, <2>1, <2>2, <2>3 DEF m
  <1>6. CASE I = {}
    <2>1. m = n + 1
      BY <1>3, <1>6
    <2> QED BY <1>4, <1>6, <2>1 DEF m
  <1> QED BY <1>5, <1>6

\* The lines before the first empty one.
LEMMA SentIs ==
    ASSUME Text(request), DOMAIN request.lines = 1..Len(request.lines), Len(request.lines) \in Nat
    PROVE  /\ Len(Sent) \in 0..Len(request.lines) /\ DOMAIN Sent = 1..Len(Sent)
           /\ \A k \in 1..Len(Sent) : Sent[k] = request.lines[k] /\ ~IsBlank(request.lines[k])
           /\ Len(Sent) < Len(request.lines) => IsBlank(request.lines[Len(Sent) + 1])
  <1> DEFINE I == {k \in 1..Len(request.lines) : IsBlank(request.lines[k])}
             k1 == IF I # {} THEN Min(I) ELSE 0
  <1>1. PICK T : request.lines \in Seq(T)
    BY SequenceIsSeq DEF Text
  <1>2. Sent = IF k1 = 0 THEN request.lines ELSE SubSeq(request.lines, 1, k1 - 1)
    BY DEF Sent, SelectInSeq
  <1>3. CASE I # {}
    <2>1. Min(I) \in I /\ \A k \in I : Min(I) <= k
      <3>1. I \subseteq Nat
        OBVIOUS
      <3> HIDE DEF I
      <3> QED BY <1>3, <3>1, MinIn
    <2> DEFINE j == Min(I)
    <2>2. j \in 1..Len(request.lines) /\ IsBlank(request.lines[j]) /\ k1 = j
      BY <1>3, <2>1
    <2>3. \A k \in 1..j-1 : k \in 1..Len(request.lines) /\ ~IsBlank(request.lines[k])
      BY <2>1
    <2> HIDE DEF j, k1, I
    <2>4. Sent = SubSeq(request.lines, 1, j - 1)
      BY <1>2, <2>2
    <2>5. Len(Sent) = j - 1 /\ DOMAIN Sent = 1..Len(Sent)
          /\ \A k \in 1..j-1 : Sent[k] = request.lines[k]
      BY <1>1, <2>2, <2>4, SubSeqProperties
    <2> QED BY <2>2, <2>3, <2>5
  <1>4. CASE I = {}
    <2>1. Sent = request.lines
      BY <1>2, <1>4
    <2> QED BY <1>4, <2>1
  <1> QED BY <1>3, <1>4

\* The headers of the request are the first lines that the client has sent,
\* those that arrived.
LEMMA HeadersAre ==
    ASSUME Text(request), ~Malformed(request, LinesRead(request)),
           req = ParsedOf(request, LinesRead(request))
    PROVE  \E M \in Nat :
               /\ M <= Len(Sent) /\ Len(Sent) \in 0..Len(request.lines) /\ Len(request.lines) \in Nat
               /\ req.headers_ = [k \in 1..M |-> [key |-> request.lines[k].key,
                                                  value |-> request.lines[k].value]]
               /\ \A k \in 1..Len(Sent) : Sent[k] = request.lines[k] /\ (Arrived(k) <=> k <= M)
  <1> DEFINE L == Len(request.lines)  n == Len(Sent)  nr == LinesRead(request)
             m == HeadersEnd(request, nr)
  <1>4. /\ DOMAIN request.lines = 1..L /\ L \in Nat
        /\ LastChunk(request) # {} => nr \in LastChunk(request)
        /\ LastChunk(request) = {} /\ nr # -1 =>
              \A k \in DOMAIN request.lines : ~request.lines[k].bare => k <= nr
        /\ nr \in -1..L
        /\ nr # -1 => ~Bare(request, nr)
    BY LinesReadIs
  <1>5. nr \in 0..L
    <2>1. ~(nr < 0)
      BY DEF Malformed
    <2> QED BY <1>4, <2>1
  <1>6. /\ m \in 1..nr+1
        /\ \A k \in 1..m-1 : request.lines[k].colon
        /\ m <= nr => ~request.lines[m].colon
    BY <1>4, <1>5, HeadersEndIs
  <1>7. m <= nr => IsBlank(request.lines[m])
    BY DEF Malformed
  <1>8. /\ n \in 0..L /\ DOMAIN Sent = 1..n
        /\ \A k \in 1..n : Sent[k] = request.lines[k] /\ ~IsBlank(request.lines[k])
        /\ n < L => IsBlank(request.lines[n + 1])
    BY <1>4, SentIs
  <1>9. req.headers_ = [k \in 1..m-1 |-> [key |-> request.lines[k].key,
                                          value |-> request.lines[k].value]]
    BY DEF ParsedOf
  <1>10. nr > 0 => nr \in 1..L /\ ~request.lines[nr].bare
    BY <1>4, <1>5 DEF Bare
  <1>12. \A k \in 1..m-1 : ~IsBlank(request.lines[k])
    BY <1>6 DEF IsBlank
  <1>11. \A k : Arrived(k) <=> \E j \in k..L : ~request.lines[j].bare
    BY DEF Arrived
  <1> HIDE DEF L, n, nr, m
  <1>13. CASE m <= nr
    <2>1. n = m - 1
      BY <1>4, <1>5, <1>6, <1>7, <1>8, <1>12, <1>13
    <2>2. \A k \in 1..n : nr \in k..L
      BY <1>4, <1>5, <1>6, <1>13, <2>1
    <2>3. \A k \in 1..n : Arrived(k)
      BY <1>5, <1>6, <1>10, <1>11, <1>13, <2>2
    <2>4. m - 1 \in Nat /\ \A k \in 1..n : k <= m - 1
      BY <1>5, <1>6, <2>1
    <2> QED BY <1>4, <1>8, <1>9, <2>1, <2>3, <2>4 DEF L, n
  <1>14. CASE m = nr + 1
    <2>1. LastChunk(request) = {}
      <3> SUFFICES ASSUME LastChunk(request) # {} PROVE FALSE
        OBVIOUS
      <3>1. nr \in 1..m-1 /\ IsBlank(request.lines[nr])
        BY <1>4, <1>14 DEF LastChunk
      <3> QED BY <1>12, <3>1
    <2>2. \A k \in 1..L : ~request.lines[k].bare => k <= nr
      BY <1>4, <1>5, <2>1
    <2>3. n >= nr
      <3> SUFFICES ASSUME n < nr PROVE FALSE
        BY <1>5, <1>8
      <3>1. n < L /\ n + 1 \in 1..m-1
        BY <1>4, <1>5, <1>8, <1>14
      <3> QED BY <1>8, <1>12, <3>1
    <2>4. m - 1 = nr /\ nr \in Nat
      BY <1>5, <1>14
    <2>5. ASSUME NEW k \in 1..n PROVE Arrived(k) <=> k <= nr
      <3>1. CASE k <= nr
        <4>1. nr \in k..L /\ ~request.lines[nr].bare
          BY <1>4, <1>5, <1>10, <2>4, <3>1
        <4> QED BY <1>11, <3>1, <4>1
      <3>2. CASE ~(k <= nr)
        <4>1. \A j \in k..L : j \in 1..L /\ ~(j <= nr)
          BY <1>4, <1>8, <2>4, <3>2
        <4> QED BY <1>11, <2>2, <3>2, <4>1
      <3> QED BY <3>1, <3>2
    <2> QED BY <1>4, <1>8, <1>9, <2>3, <2>4, <2>5 DEF L, n
  <1>15. m <= nr \/ m = nr + 1
    BY <1>5, <1>6
  <1> QED BY <1>13, <1>14, <1>15

\* The first Authorization header is the one the client has sent, if it arrived.
LEMMA AuthorizationIs ==
    ASSUME Text(request), ~Malformed(request, LinesRead(request)),
           req = ParsedOf(request, LinesRead(request)),
           NEW h, h = SelectInSeq(Sent, LAMBDA l : l.key = "Authorization"),
           NEW k, k = SelectInSeq(req.headers_, LAMBDA l : l.key = "Authorization")
    PROVE  /\ k # 0 <=> h # 0 /\ Arrived(h)
           /\ k # 0 => req.headers_[k].value = request.lines[h].value
           /\ h # 0 => h \in DOMAIN request.lines /\ request.lines[h].key = "Authorization"
  <1> DEFINE n == Len(Sent)
             I == {j \in 1..n : Sent[j].key = "Authorization"}
             J == {j \in 1..Len(req.headers_) : req.headers_[j].key = "Authorization"}
  <1>1. PICK M \in Nat :
               /\ M <= n /\ n \in 0..Len(request.lines) /\ Len(request.lines) \in Nat
               /\ req.headers_ = [j \in 1..M |-> [key |-> request.lines[j].key,
                                                  value |-> request.lines[j].value]]
               /\ \A j \in 1..n : Sent[j] = request.lines[j] /\ (Arrived(j) <=> j <= M)
    BY HeadersAre
  <1>2. h = IF I # {} THEN Min(I) ELSE 0
    BY DEF SelectInSeq
  <1>3. k = IF J # {} THEN Min(J) ELSE 0
    BY DEF SelectInSeq
  <1>4. Len(req.headers_) = M
    BY <1>1
  <1>5. \A j \in 1..M : j \in 1..n /\ req.headers_[j].key = request.lines[j].key
                        /\ req.headers_[j].value = request.lines[j].value
    BY <1>1
  <1>6. \A j : j \in J <=> j \in I /\ j <= M
    BY <1>1, <1>4, <1>5
  <1>7. I \subseteq Nat /\ J \subseteq Nat /\ I \subseteq 1..n
    BY <1>6
  <1>8. \A j \in I : request.lines[j].key = "Authorization"
    BY <1>1
  <1>0. DOMAIN request.lines = 1..Len(request.lines)
    BY LinesReadIs
  <1> HIDE DEF I, J, n
  <1>9. CASE I = {}
    BY <1>2, <1>3, <1>6, <1>9
  <1>10. CASE I # {}
    <2>1. h \in I /\ \A j \in I : h <= j
      BY <1>2, <1>7, <1>10, MinIn
    <2>2. h \in 1..n /\ h # 0 /\ h \in DOMAIN request.lines
      BY <1>0, <1>1, <1>7, <2>1
    <2>3. CASE h <= M
      <3>1. J # {}
        BY <1>6, <2>1, <2>3
      <3>2. k \in J /\ \A j \in J : k <= j
        BY <1>3, <1>7, <3>1, MinIn
      <3>3. k = h
        BY <1>6, <1>7, <2>1, <2>3, <3>2
      <3>4. Arrived(h) /\ k # 0
        BY <1>1, <2>2, <2>3, <3>3
      <3>5. req.headers_[k].value = request.lines[h].value
        BY <1>5, <1>7, <2>1, <2>3, <3>3
      <3> QED BY <1>8, <2>1, <2>2, <3>4, <3>5
    <2>4. CASE ~(h <= M)
      <3>1. J = {}
        BY <1>1, <1>6, <1>7, <2>1, <2>4
      <3> QED BY <1>1, <1>3, <1>8, <2>1, <2>2, <2>4, <3>1
    <2> QED BY <2>3, <2>4
  <1> QED BY <1>9, <1>10

-----------------------------------------------------------------------------
(* The credentials *)

\* What is cut out of bytes is a sequence of pieces.
LEMMA BytesIs ==
    ASSUME NEW v \in Seq(0..Pad)
    PROVE  /\ Denoted(v) \in Seq(Int) /\ Bytes(v) = Split(Denoted(v), Colon)
           /\ Bytes(v) \in Seq(Seq(Int))
  <1>1. v \in Seq(0..64)
    BY DEF Pad
  <1>2. Decode(v) = Denoted(v)
    BY <1>1, DecodesDigits
  <1>3. Decode(v) \in Seq(Int)
    <2>1. PICK n \in Nat : n = Len(v)
      BY <1>1, LenProperties
    <2>2. PICK g : /\ \A k \in 0..n : g[k] \in DecodeStates
                   /\ Decode(v) = g[n].out
      BY <1>1, <2>1, DecodeRuns
    <2>3. g[n] \in DecodeStates
      BY <2>2
    <2> QED BY <2>2, <2>3 DEF DecodeStates
  <1> DEFINE s == Denoted(v)
  <1>4. s \in Seq(Int) /\ Bytes(v) = Split(s, Colon)
    BY <1>2, <1>3 DEF Bytes
  <1> HIDE DEF s
  <1>5. PICK w \in PieceSeqs(Int) : Split(s, Colon) = IF Last(w) = <<>> THEN Front(w) ELSE w
    BY <1>4, SplitIs
  <1>6. w \in Seq(Seq(Int)) /\ w # <<>>
    BY DEF PieceSeqs
  <1>7. Front(w) \in Seq(Seq(Int))
    <2>1. PICK n \in Nat : n = Len(w)
      BY <1>6, LenProperties
    <2>2. n - 1 \in Int /\ \A k \in 1..n-1 : k \in 1..n
      BY <2>1
    <2>3. \A k \in 1..n-1 : w[k] \in Seq(Int)
      BY <1>6, <2>1, <2>2
    <2>4. SubSeq(w, 1, n - 1) \in Seq(Seq(Int))
      BY <1>6, <2>2, <2>3, SubSeqProperties
    <2> QED BY <2>1, <2>4 DEF Front
  <1>8. Split(s, Colon) \in Seq(Seq(Int))
    BY <1>5, <1>6, <1>7
  <1> QED BY <1>4, <1>8 DEF s

\* What a user and a password are cut out of.
LEMMA JoinsIs ==
    ASSUME NEW s \in Seq(Int), NEW user, IsSequence(user), NEW pass, IsSequence(pass)
    PROVE  Split(s, Colon) = <<user, pass>> <=> Joins(s, Colon, user, pass)
  <1>1. PICK T1 : user \in Seq(T1)
    BY SequenceIsSeq
  <1>2. PICK T2 : pass \in Seq(T2)
    BY SequenceIsSeq
  <1> DEFINE T == Int \cup T1 \cup T2
  <1>3. s \in Seq(T) /\ user \in Seq(T) /\ pass \in Seq(T)
    BY <1>1, <1>2, SeqMonotonic
  <1>4. Colon \in T
    BY DEF Colon
  <1> HIDE DEF T
  <1> QED BY <1>3, <1>4, TwoPieces

\* No credentials of the same user come after statement k of the block.
Counts(block, k) ==
    /\ block[k][1] = "credentials"
    /\ \A j \in k+1..Len(block) : block[j][1] = "credentials" => block[j][2] # block[k][2]

\* The statements that the last realm for p has, in a file that was loaded.
LEMMA RealmIs ==
    ASSUME config \in Configs, LoadsIffValid, pc = "loaded", NEW p \in Paths("realm")
    PROVE  LET block == LastOf(For("realm", p)).block IN
           /\ Len(block) \in Nat /\ DOMAIN block = 1..Len(block)
           /\ \A k \in DOMAIN block : block[k][1] = "credentials" =>
                  IsSequence(block[k][2]) /\ IsSequence(block[k][3])
  <1>1. ValidConfig
    BY DEF LoadsIffValid
  <1>2. Len(config) \in Nat /\ DOMAIN config = 1..Len(config)
    BY OptionsAssumption
  <1> DEFINE S == For("realm", p)  c == Max(S)
  <1>3. S \subseteq 0..Len(config) /\ S # {}
    BY <1>2 DEF Paths, For, Named
  <1>4. c \in S
    <2> HIDE DEF S
    <2> QED BY <1>2, <1>3, MaxIn
  <1>5. c \in DOMAIN config /\ config[c].tokens[1] = "realm"
    <2> HIDE DEF c
    <2> QED BY <1>4 DEF For, Named
  <1> HIDE DEF S, c
  <1>6. \A k \in DOMAIN config[c].block : Len(config[c].block[k]) = 3
    <2>1. WellFormed(config[c])
      BY <1>1, <1>5 DEF ValidConfig
    <2> QED BY <1>5, <2>1 DEF WellFormed
  <1>7. /\ Len(config[c].block) \in Nat /\ DOMAIN config[c].block = 1..Len(config[c].block)
    BY <1>5, OptionsAssumption
  <1>8. \A k \in DOMAIN config[c].block : config[c].block[k][1] = "credentials" =>
            IsSequence(config[c].block[k][2]) /\ IsSequence(config[c].block[k][3])
    BY <1>5, <1>6, ServerAssumption
  <1>9. LastOf(For("realm", p)) = config[c]
    BY DEF LastOf, c, S
  <1> QED BY <1>7, <1>8, <1>9

LEMMA KnowsIs ==
    ASSUME config \in Configs, LoadsIffValid, LoadedAsConfigured, pc = "loaded",
           NEW p \in Paths("realm"), NEW user, NEW pass
    PROVE  LET block == LastOf(For("realm", p)).block IN
           Knows(auth[p], user, pass) <=>
               \E k \in DOMAIN block : Counts(block, k) /\ block[k][2] = user /\ block[k][3] = pass
  <1> DEFINE block == LastOf(For("realm", p)).block
  <1>1. Len(block) \in Nat /\ DOMAIN block = 1..Len(block)
    BY RealmIs
  <1> DEFINE S == {k \in DOMAIN block : block[k][1] = "credentials" /\ block[k][2] = user}
  <1>2. /\ DOMAIN auth[p] = {block[k][2] : k \in {j \in DOMAIN block : block[j][1] = "credentials"}}
        /\ \A u \in DOMAIN auth[p] :
               auth[p][u] = block[Max({k \in DOMAIN block : block[k][1] = "credentials"
                                                            /\ block[k][2] = u})][3]
    BY DEF LoadedAsConfigured
  <1> DEFINE Right(k) == Counts(block, k) /\ block[k][2] = user /\ block[k][3] = pass
  <1> SUFFICES Knows(auth[p], user, pass) <=> \E k \in DOMAIN block : Right(k)
    OBVIOUS
  <1> HIDE DEF block
  <1>3. user \in DOMAIN auth[p] <=> S # {}
    BY <1>2
  <1>4. user \in DOMAIN auth[p] => auth[p][user] = block[Max(S)][3]
    BY <1>2
  <1>5. S \subseteq 0..Len(block)
    BY <1>1
  <1>6. \A k : k \in S <=> k \in DOMAIN block /\ block[k][1] = "credentials" /\ block[k][2] = user
    OBVIOUS
  <1> HIDE DEF S
  <1>7. CASE S = {}
    <2>1. ~Knows(auth[p], user, pass)
      BY <1>3, <1>7 DEF Knows
    <2>2. \A k \in DOMAIN block : ~(Counts(block, k) /\ block[k][2] = user)
      BY <1>6, <1>7 DEF Counts
    <2> QED BY <2>1, <2>2
  <1>8. CASE S # {}
    <2>1. PICK m : m = Max(S) /\ m \in S /\ \A k \in S : k <= m
      BY <1>1, <1>5, <1>8, MaxIn
    <2>2. Knows(auth[p], user, pass) <=> block[m][3] = pass
      BY <1>3, <1>4, <1>8, <2>1 DEF Knows
    <2>3. m \in DOMAIN block /\ Counts(block, m) /\ block[m][2] = user
      <3>1. m \in 1..Len(block) /\ block[m][1] = "credentials" /\ block[m][2] = user
        BY <1>1, <1>6, <2>1
      <3>2. \A j \in m+1..Len(block) : j \notin S /\ j \in DOMAIN block
        BY <1>1, <2>1, <3>1
      <3> QED BY <1>1, <1>6, <3>1, <3>2 DEF Counts
    <2>4. ASSUME NEW k \in DOMAIN block, Counts(block, k), block[k][2] = user PROVE k = m
      <3>1. k \in S /\ k <= m
        BY <1>6, <2>1, <2>4 DEF Counts
      <3>2. m \notin k+1..Len(block)
        BY <1>6, <2>1, <2>4 DEF Counts
      <3> QED BY <1>1, <2>3, <3>1, <3>2
    <2> QED BY <2>2, <2>3, <2>4
  <1> QED BY <1>7, <1>8

\* Authentication lets in whom the file and the text say.
LEMMA PassesIs ==
    ASSUME config \in Configs, LoadsIffValid, LoadedAsConfigured, pc = "loaded",
           Text(request), ~Malformed(request, LinesRead(request)),
           req = ParsedOf(request, LinesRead(request)),
           NEW p \in Paths("realm"), p = MapHasPrefix(DOMAIN auth, req.uri_)
    PROVE  Passes(req) <=> Admitted(p)
  <1> DEFINE block == LastOf(For("realm", p)).block
             Says(v, j) == Counts(block, j) /\ Joins(Denoted(v), Colon, block[j][2], block[j][3])
  <1>1. PICK h, k : /\ h = SelectInSeq(Sent, LAMBDA l : l.key = "Authorization")
                    /\ k = SelectInSeq(req.headers_, LAMBDA l : l.key = "Authorization")
    OBVIOUS
  <1>2. PICK x, y : x = req.headers_[k].value /\ y = request.lines[h].value
    OBVIOUS
  <1>3. Passes(req) <=> /\ k # 0 /\ Len(x) = 2 /\ x[1] = "Basic"
                        /\ Len(Bytes(x[2])) = 2
                        /\ Knows(auth[p], Bytes(x[2])[1], Bytes(x[2])[2])
    BY <1>1, <1>2 DEF Passes
  <1>4. Admitted(p) <=> /\ h # 0 /\ Arrived(h) /\ Len(y) = 2 /\ y[1] = "Basic"
                        /\ \E j \in DOMAIN block : Says(y[2], j)
    BY <1>1, <1>2 DEF Admitted, Counts, Joins
  <1>5. /\ k # 0 <=> h # 0 /\ Arrived(h)
        /\ k # 0 => x = y
        /\ h # 0 => h \in DOMAIN request.lines /\ request.lines[h].key = "Authorization"
    BY <1>1, <1>2, AuthorizationIs
  <1>6. ASSUME h # 0, Len(y) = 2, y[1] = "Basic"
        PROVE  /\ Len(Bytes(y[2])) = 2 /\ Knows(auth[p], Bytes(y[2])[1], Bytes(y[2])[2])
                  <=> \E j \in DOMAIN block : Says(y[2], j)
    <2>1. PICK v : v = y[2]
      OBVIOUS
    <2>2. v \in Seq(0..Pad)
      BY <1>2, <1>5, <1>6, <2>1 DEF Text
    <2>3. PICK s, B : s = Denoted(v) /\ B = Bytes(v)
      OBVIOUS
    <2>4. s \in Seq(Int) /\ B = Split(s, Colon) /\ B \in Seq(Seq(Int))
      BY <2>2, <2>3, BytesIs
    <2>5. Knows(auth[p], B[1], B[2]) <=>
              \E j \in DOMAIN block : Counts(block, j) /\ block[j][2] = B[1] /\ block[j][3] = B[2]
      BY KnowsIs
    <2>6. \A j \in DOMAIN block : block[j][1] = "credentials" =>
              IsSequence(block[j][2]) /\ IsSequence(block[j][3])
      BY RealmIs
    <2> HIDE DEF block
    <2>7. ASSUME NEW j \in DOMAIN block, Counts(block, j)
          PROVE  Len(B) = 2 /\ block[j][2] = B[1] /\ block[j][3] = B[2]
                     <=> Joins(s, Colon, block[j][2], block[j][3])
      <3>1. PICK u, w : u = block[j][2] /\ w = block[j][3]
        OBVIOUS
      <3>2. IsSequence(u) /\ IsSequence(w)
        BY <2>6, <2>7, <3>1 DEF Counts
      <3>3. B = <<u, w>> <=> Joins(s, Colon, u, w)
        BY <2>4, <3>2, JoinsIs
      <3>4. B = <<u, w>> <=> Len(B) = 2 /\ B[1] = u /\ B[2] = w
        BY <2>4
      <3> QED BY <3>1, <3>3, <3>4
    <2>8. Len(B) = 2 /\ Knows(auth[p], B[1], B[2]) <=> \E j \in DOMAIN block : Says(v, j)
      BY <2>3, <2>5, <2>7
    <2> QED BY <2>1, <2>3, <2>8
  <1> HIDE DEF Says, block
  <1> QED BY <1>3, <1>4, <1>5, <1>6

\* The paths that were loaded are sequences.
LEMMA PathsAre ==
    ASSUME config \in Configs, ValidConfig, NEW key \in {"path", "realm"}, NEW p \in Paths(key)
    PROVE  IsSequence(p)
  <1>1. PICK k \in DOMAIN config : config[k].tokens[1] = key /\ config[k].tokens[2] = p
    BY DEF Paths, Named
  <1>2. WellFormed(config[k])
    BY DEF ValidConfig
  <1>3. Len(config[k].tokens) > 1
    BY <1>1, <1>2 DEF WellFormed
  <1> QED BY <1>1, <1>3, ServerAssumption

-----------------------------------------------------------------------------
(* What follows *)

\* The handler is one that the file has put on the heap.
LEMMA HandlerIsThere ==
    ASSUME MemoryInv, ServeInv, handler # 0
    PROVE  /\ IsSequence(req.uri_) /\ req.uri_ = request.head.uri
           /\ \/ MapHasPrefix(DOMAIN handlerMap, req.uri_) = <<>> /\ handler = defaultHandler
              \/ /\ MapHasPrefix(DOMAIN handlerMap, req.uri_) \in DOMAIN handlerMap
                 /\ handler = handlerMap[MapHasPrefix(DOMAIN handlerMap, req.uri_)]
           /\ IsPrefix(MapHasPrefix(DOMAIN handlerMap, req.uri_), req.uri_)
           /\ handler \in 1..Len(heap)
  <1> DEFINE p == MapHasPrefix(DOMAIN handlerMap, req.uri_)
  <1>1. handler = MatchRequestWithHandler(req) /\ req = ParsedOf(request, LinesRead(request))
    BY DEF ServeInv
  <1>2. IsSequence(req.uri_) /\ req.uri_ = request.head.uri
    BY <1>1, RequestUri
  <1>3. IsPrefix(p, req.uri_) /\ (p # <<>> => p \in DOMAIN handlerMap)
    BY <1>2, PrefixIsPrefix
  <1>4. handler = IF p = <<>> THEN defaultHandler ELSE handlerMap[p]
    BY <1>1 DEF MatchRequestWithHandler
  <1> HIDE DEF p
  <1>5. handler \in 1..Len(heap)
    BY <1>3, <1>4 DEF MemoryInv, HeapInv
  <1> QED BY <1>2, <1>3, <1>4, <1>5 DEF p

LEMMA TypeHolds == MemoryInv /\ ServeInv => TypeOK
  <1> SUFFICES ASSUME MemoryInv, ServeInv PROVE TypeOK
    OBVIOUS
  <1>1. DOMAIN heap = 1..Len(heap) /\ Len(heap) \in Nat
    BY DEF MemoryInv, HeapInv
  <1>2. handler \in {0} \cup DOMAIN heap
    BY <1>1, HandlerIsThere
  <1>3. freed \subseteq DOMAIN heap /\ defaultHandler \in {0} \cup DOMAIN heap
    BY <1>1 DEF MemoryInv
  <1> QED BY <1>2, <1>3 DEF TypeOK, MemoryInv, ServeInv

LEMMA PrefixHolds ==
    MemoryInv /\ ServeInv /\ LoadedAsConfigured /\ PointersLive => HandlerGetsItsPrefix
  <1> SUFFICES ASSUME MemoryInv, ServeInv, LoadedAsConfigured, PointersLive,
                      pc = "loaded", handler # 0
               PROVE  IsPrefix(heap[handler].path_, req.uri_) /\ handler \notin freed
    BY DEF HandlerGetsItsPrefix
  <1> DEFINE p == MapHasPrefix(DOMAIN handlerMap, req.uri_)
  <1>1. /\ IsPrefix(p, req.uri_)
        /\ \/ p = <<>> /\ handler = defaultHandler
           \/ p \in DOMAIN handlerMap /\ handler = handlerMap[p]
    BY HandlerIsThere
  <1> HIDE DEF p
  <1>2. CASE p = <<>> /\ handler = defaultHandler
    <2>1. heap[handler].path_ = <<>>
      BY <1>2 DEF LoadedAsConfigured, NotFound, Handler
    <2>2. handler \notin freed
      BY <1>2 DEF PointersLive
    <2> QED BY <1>1, <1>2, <2>1, <2>2
  <1>3. CASE p \in DOMAIN handlerMap /\ handler = handlerMap[p]
    <2>1. heap[handler].path_ = p
      <3>1. \E type, block : heap[handlerMap[p]] = Handler(type, p, block)
        BY <1>3 DEF LoadedAsConfigured
      <3> QED BY <1>3, <3>1 DEF Handler
    <2>2. handler \notin freed
      BY <1>3 DEF PointersLive, Range
    <2> QED BY <1>1, <2>1, <2>2
  <1> QED BY <1>1, <1>2, <1>3

\* The lines up to the empty one come back, as they were or as they end.
LEMMA EchoHolds == ServeInv /\ AnswerInv => EchoIsRequest
  <1> SUFFICES ASSUME ServeInv, AnswerInv, stage = "answered", resp.body # <<>>, resp.body[1] = "echo"
               PROVE  EchoIsRequest
    BY DEF EchoIsRequest
  <1> DEFINE L == Len(request.lines)  n == Len(Sent)  nr == LinesRead(request)
             m == HeadersEnd(request, nr)  echo == resp.body[2]
  <1>1. ~Malformed(request, nr) /\ req = ParsedOf(request, nr)
    BY DEF ServeInv
  <1>2. Text(request)
    BY <1>1, RequestIs
  <1>3. echo = RawRequest(req)
    <2>1. handler # 0
      <3>1. handler = 0 => resp.body = <<"invalid_credentials">>
        BY DEF ServeInv
      <3>2. resp.body # <<"invalid_credentials">>
        OBVIOUS
      <3> QED BY <3>1, <3>2
    <2>2. Replied
      BY <2>1 DEF AnswerInv
    <2>3. resp.body = <<"echo", RawRequest(req)>>
      BY <2>2, RepliedIs DEF HandlerTypes, StatusPage
    <2> QED BY <2>3
  <1>4. /\ DOMAIN request.lines = 1..L /\ L \in Nat
        /\ LastChunk(request) # {} => /\ nr \in LastChunk(request)
                                      /\ \A k \in LastChunk(request) : nr <= k
        /\ LastChunk(request) = {} /\ nr # -1 =>
              /\ nr \in 0..L
              /\ \A k \in DOMAIN request.lines : ~request.lines[k].bare => k <= nr
        /\ nr \in -1..L
    BY <1>2, LinesReadIs
  <1>5. nr \in 0..L
    <2>1. ~(nr < 0)
      BY <1>1 DEF Malformed
    <2> QED BY <1>4, <2>1
  <1>6. /\ m \in 1..nr+1
        /\ \A k \in 1..m-1 : request.lines[k].colon
        /\ m <= nr => ~request.lines[m].colon
    BY <1>2, <1>4, <1>5, HeadersEndIs
  <1>7. m <= nr => IsBlank(request.lines[m])
    BY <1>1 DEF Malformed
  <1>8. /\ n \in 0..L /\ DOMAIN Sent = 1..n
        /\ \A k \in 1..n : Sent[k] = request.lines[k] /\ ~IsBlank(request.lines[k])
        /\ n < L => IsBlank(request.lines[n + 1])
    BY <1>2, <1>4, SentIs
  <1> HIDE DEF L, n, nr, m
  <1> DEFINE hs == [k \in 1..m-1 |-> [key |-> request.lines[k].key, value |-> request.lines[k].value]]
             out == [k \in 1..m-1 |-> [key |-> request.lines[k].key, value |-> request.lines[k].value,
                                       colon |-> TRUE, bare |-> FALSE]]
  <1>9. req.headers_ = hs /\ req.uri_ = request.head.uri
        /\ (req.body_ = SubSeq(request.lines, m + 1, nr) \/ req.body_ = <<>>)
    BY <1>1 DEF ParsedOf, m
  <1>10. echo.head.uri = request.head.uri /\ echo.lines = out \o <<Blank>> \o req.body_
    <2> DEFINE f == [k \in DOMAIN req.headers_ |-> [key |-> req.headers_[k].key,
                         value |-> req.headers_[k].value, colon |-> TRUE, bare |-> FALSE]]
    <2>1. f = out
      BY <1>9
    <2> DEFINE head == [tokens |-> 3, uri |-> req.uri_, http |-> TRUE, bare |-> FALSE]
    <2>2. echo = [head |-> head, lines |-> f \o <<Blank>> \o req.body_, length |-> req.length]
      BY <1>3, Zenon DEF RawRequest
    <2>3. head.uri = req.uri_
      OBVIOUS
    <2> HIDE DEF f, out, echo, head
    <2> QED BY <1>9, <2>1, <2>2, <2>3
  <1> DEFINE lines == out \o <<Blank>> \o req.body_
  <1>11. /\ \A k \in 1..m-1 : lines[k] = out[k]
         /\ lines[m] = Blank /\ (req.body_ = <<>> => Len(lines) = m)
    <2>1. PICK T : request.lines \in Seq(T)
      BY <1>2, SequenceIsSeq DEF Text
    <2>2. req.body_ \in Seq(T)
      <3>1. CASE req.body_ = <<>>
        BY <3>1
      <3>2. CASE req.body_ = SubSeq(request.lines, m + 1, nr)
        <4>1. m + 1 \in Int /\ nr \in Int /\ \A k \in m+1..nr : k \in 1..L
          BY <1>4, <1>5, <1>6
        <4>2. \A k \in m+1..nr : request.lines[k] \in T
          BY <2>1, <4>1 DEF L
        <4> QED BY <3>2, <4>1, <4>2, SubSeqProperties
      <3> QED BY <1>9, <3>1, <3>2
    <2>3. out = [k \in 1..m-1 |-> out[k]] /\ m - 1 \in Nat /\ m - 1 + 1 = m
      BY <1>5, <1>6
    <2> HIDE DEF out
    <2>4. /\ lines[m - 1 + 1] = Blank /\ \A k \in 1..m-1 : lines[k] = out[k]
          /\ req.body_ = <<>> => Len(lines) = m - 1 + 1
      BY <2>2, <2>3, Between
    <2> HIDE DEF lines
    <2> QED BY <2>3, <2>4
  <1>15. echo.lines = lines
    BY <1>10
  <1>12. \A k \in 1..m-1 : ~IsBlank(request.lines[k])
    BY <1>6 DEF IsBlank
  <1>0. \A k \in 1..m-1 : k \in 1..L => (~request.lines[k].bare => out[k] = request.lines[k])
    <2> SUFFICES ASSUME NEW k \in 1..m-1, k \in 1..L, ~request.lines[k].bare
                 PROVE  out[k] = request.lines[k]
      OBVIOUS
    <2> DEFINE l == request.lines[k]
    <2>1. /\ l = [key |-> l.key, value |-> l.value, colon |-> l.colon, bare |-> l.bare]
          /\ l.colon = TRUE /\ l.bare = FALSE
      BY <1>2, <1>4, <1>6 DEF Text
    <2> QED BY <2>1
  <1> HIDE DEF out, lines
  <1>16. ASSUME \A k \in 1..n : ~request.lines[k].bare => lines[k] = request.lines[k],
                \/ n + 1 = m /\ n < L
                   /\ (~request.lines[m].bare /\ ~Bare(request, n) => req.body_ = <<>>)
                \/ \A k \in n+1..L : request.lines[k].bare
         PROVE  EchoIsRequest
    <2> DEFINE ended == \E k \in n+1..L : ~request.lines[k].bare
    <2>1. \A k \in DOMAIN request.lines : ~request.lines[k].bare =>
              (k \in DOMAIN Sent => echo.lines[k] = request.lines[k])
      BY <1>8, <1>15, <1>16
    <2>2. ASSUME ended
          PROVE  /\ echo.lines[n + 1] = Blank
                 /\ ~request.lines[n + 1].bare /\ ~Bare(request, n) => Len(echo.lines) = n + 1
      <3>1. n + 1 = m /\ (~request.lines[m].bare /\ ~Bare(request, n) => req.body_ = <<>>)
        BY <1>16, <2>2
      <3> QED BY <1>11, <1>15, <3>1
    <2>3. echo.head.uri = request.head.uri
      BY <1>10
    <2> HIDE DEF lines
    <2> QED BY <2>1, <2>2, <2>3 DEF EchoIsRequest, Arrived, n, L
  <1>13. CASE m <= nr
    <2>1. n = m - 1 /\ n < L
      BY <1>4, <1>5, <1>6, <1>7, <1>8, <1>12, <1>13
    <2>2. ASSUME ~request.lines[m].bare, ~Bare(request, n) PROVE req.body_ = <<>>
      <3>1. m \in LastChunk(request)
        BY <1>4, <1>5, <1>6, <1>7, <1>13, <2>1, <2>2 DEF LastChunk, Bare
      <3>2. nr = m
        BY <1>4, <1>5, <1>6, <1>13, <3>1
      <3>3. PICK T : request.lines \in Seq(T)
        BY <1>2, SequenceIsSeq DEF Text
      <3>4. SubSeq(request.lines, m + 1, m) = <<>>
        BY <1>6, <3>3, SubSeqEmpty
      <3> QED BY <1>9, <3>2, <3>4
    <2>3. \A k \in 1..n : ~request.lines[k].bare => lines[k] = request.lines[k]
      <3>1. \A k \in 1..n : k \in 1..m-1 /\ k \in 1..L
        BY <1>4, <1>5, <1>6, <1>8, <2>1
      <3> QED BY <1>0, <1>11, <3>1
    <2>4. n + 1 = m
      BY <1>5, <1>6, <2>1
    <2> QED BY <1>16, <2>1, <2>2, <2>3, <2>4
  <1>14. CASE m = nr + 1
    <2>1. LastChunk(request) = {}
      <3> SUFFICES ASSUME LastChunk(request) # {} PROVE FALSE
        OBVIOUS
      <3>1. nr \in 1..m-1 /\ IsBlank(request.lines[nr])
        BY <1>4, <1>14 DEF LastChunk
      <3> QED BY <1>12, <3>1
    <2>2. \A k \in DOMAIN request.lines : ~request.lines[k].bare => k <= nr
      BY <1>4, <1>5, <2>1
    <2>3. n >= nr
      <3> SUFFICES ASSUME n < nr PROVE FALSE
        BY <1>5, <1>8
      <3>1. n < L /\ n + 1 \in 1..m-1
        BY <1>4, <1>5, <1>8, <1>14
      <3> QED BY <1>8, <1>12, <3>1
    <2>4. \A k \in 1..n : ~request.lines[k].bare => lines[k] = request.lines[k]
      <3>1. \A k \in 1..n : k \in 1..L /\ (~request.lines[k].bare => k \in 1..m-1)
        BY <1>4, <1>5, <1>8, <1>14, <2>2
      <3> QED BY <1>0, <1>11, <3>1
    <2>5. \A k \in n+1..L : request.lines[k].bare
      BY <1>2, <1>4, <1>5, <1>8, <2>2, <2>3 DEF Text
    <2> QED BY <1>16, <2>4, <2>5
  <1> QED BY <1>5, <1>6, <1>13, <1>14

\* A challenge where the realm does not let in, else the answer of the handler.
LEMMA RightHolds ==
    MemoryInv /\ ServeInv /\ AnswerInv /\ LoadsIffValid /\ LoadedAsConfigured /\ config \in Configs
        => RightAnswer
  <1> SUFFICES ASSUME MemoryInv, ServeInv, AnswerInv, LoadsIffValid, LoadedAsConfigured,
                      config \in Configs, pc = "loaded", stage = "answered"
               PROVE  RightAnswer
    BY DEF RightAnswer
  <1> DEFINE uri   == request.head.uri
             realm == Longest(Paths("realm"), uri)
             path  == Longest(HandlerPaths, uri)
             type  == IF path # <<>> THEN LastOf(For("path", path)).tokens[3]
                      ELSE IF Defaults # {} THEN Last(LastOf(Defaults).tokens)
                      ELSE "NotFoundHandler"
             page  == [p \in HandlerPaths |-> LastOf(For("path", p)).tokens[3]]
  <1>1. ~Malformed(request, LinesRead(request)) /\ req = ParsedOf(request, LinesRead(request))
    BY DEF ServeInv
  <1>2. Text(request)
    BY <1>1, RequestIs
  <1>3. req.uri_ = uri /\ IsSequence(uri)
    BY <1>1, <1>2 DEF ParsedOf, Text
  <1>4. ValidConfig
    BY DEF LoadsIffValid
  <1>5. DOMAIN auth = Paths("realm") /\ DOMAIN handlerMap = HandlerPaths
    BY DEF LoadedAsConfigured
  <1>6. (\A p \in Paths("realm") : IsSequence(p)) /\ \A p \in HandlerPaths : IsSequence(p)
    BY <1>4, PathsAre DEF HandlerPaths
  <1>7. /\ MapHasPrefix(DOMAIN auth, req.uri_) = realm
        /\ realm # <<>> => realm \in Paths("realm")
    BY <1>3, <1>5, <1>6, PrefixIsLongest, PrefixIsPrefix
  <1>8. /\ MapHasPrefix(DOMAIN handlerMap, req.uri_) = path
        /\ path # <<>> => path \in HandlerPaths
    BY <1>3, <1>5, <1>6, PrefixIsLongest, PrefixIsPrefix
  <1> HIDE DEF realm, path, uri
  <1>9. Rejected <=> realm # <<>> /\ ~Admitted(realm)
    <2>1. realm # <<>> => (Passes(req) <=> Admitted(realm))
      BY <1>1, <1>2, <1>7, PassesIs
    <2> QED BY <1>7, <2>1 DEF Rejected, Requires
  <1>10. CASE Rejected
    <2>1. resp.code = 401 /\ resp.realm = realm
      BY <1>7, <1>10 DEF ServeInv
    <2> QED BY <1>9, <1>10, <2>1 DEF RightAnswer, realm, uri
  <1>11. CASE ~Rejected
    <2>1. handler # 0
      BY <1>11 DEF ServeInv
    <2>2. Replied
      BY <2>1 DEF AnswerInv
    <2>3. \/ path = <<>> /\ handler = defaultHandler
          \/ path # <<>> /\ path \in HandlerPaths /\ handler = handlerMap[path]
      BY <1>8, <2>1, HandlerIsThere DEF ServeInv, MatchRequestWithHandler
    <2>4. \A p \in HandlerPaths : heap[handlerMap[p]].type = LastOf(For("path", p)).tokens[3]
      <3>1. \A p \in HandlerPaths :
                heap[handlerMap[p]] = Handler(LastOf(For("path", p)).tokens[3], p,
                                              LastOf(For("path", p)).block)
        BY DEF LoadedAsConfigured
      <3>2. \A t, p, block : Handler(t, p, block).type = t
        BY DEF Handler
      <3> QED BY <3>1, <3>2
    <2>5. heap[defaultHandler].type = IF Defaults # {} THEN Last(LastOf(Defaults).tokens)
                                      ELSE "NotFoundHandler"
      BY DEF LoadedAsConfigured, Handler, NotFound
    <2>6. heap[handler].type = type
      BY <2>3, <2>4, <2>5
    <2> HIDE DEF type
    <2>7. /\ type \in HandlerTypes
          /\ type \in {"EchoHandler", "DelayHandler", "StatusHandler"} => resp.code = 200
          /\ type = "NotFoundHandler" => resp.code = 404
          /\ type = "StaticHandler" => resp.code \in {200, 404, 500}
          /\ type = "StatusHandler" => resp.body = StatusPage
      BY <2>2, <2>6, RepliedIs
    <2>8. type # "ProxyHandler" => resp.code # 401
      BY <2>7 DEF HandlerTypes
    <2>9. StatusPage[2] = page
      BY <1>5, <2>4 DEF StatusPage
    <2> HIDE DEF page
    <2>10. type = "StatusHandler" => resp.body[2] = page
      BY <2>7, <2>9
    <2> QED BY <1>9, <1>11, <2>1, <2>6, <2>7, <2>8, <2>10 DEF RightAnswer, realm, uri, path, type, page
  <1> QED BY <1>10, <1>11

-----------------------------------------------------------------------------
(* Names of files *)

\* One character keeps Steps in a state like those of split().
LEMMA AddToStepsIs ==
    ASSUME NEW T, NEW v \in PieceSeqs(T), NEW c \in T
    PROVE  AddToSteps(v, c) \in PieceSeqs(T)
  BY AddToPiecesIs DEF AddToSteps

\* s leads from the parts v to the parts w.
Leads(T, s, v, w) ==
    \E g : /\ g[0] = v /\ g[Len(s)] = w
           /\ \A k \in 0..Len(s) : g[k] \in PieceSeqs(T)
           /\ \A k \in 1..Len(s) : g[k] = AddToSteps(g[k - 1], s[k])

\* Without an empty part at the end.
Strip(v) == IF Last(v) = <<>> THEN Front(v) ELSE v

\* A step from v that stays among the states goes on to the end.
LEMMA StepsLead ==
    ASSUME NEW T, NEW s \in Seq(T)
    PROVE  \E w : Leads(T, s, << <<>> >>, w) /\ Steps(s) = Strip(w)
  <1> DEFINE D == DOMAIN s
             Is(f) == f = [S \in SUBSET D |->
                  IF S = {} THEN << <<>> >>
                  ELSE LET x == Max(S) IN AddToSteps(f[S \ {x}], s[x])]
             f == CHOOSE f : Is(f)
             step == [p \in PieceSeqs(T) \X T |-> AddToSteps(p[1], p[2])]
  <1>1. Len(s) \in Nat /\ s \in [1..Len(s) -> T] /\ D = 1..Len(s)
    BY LenProperties
  <1>2. Steps(s) = Strip(f[D])
    BY DEF Steps, Strip, FoldLeft, MapThenFoldSet
  <1>0. << <<>> >> \in PieceSeqs(T)
    BY DEF PieceSeqs
  <1>3. \E w : Is(w)
    <2>1. step \in [PieceSeqs(T) \X T -> PieceSeqs(T)]
      BY AddToStepsIs
    <2> HIDE DEF step
    <2>3. PICK w \in [SUBSET (1..Len(s)) -> PieceSeqs(T)] :
                 Iterates(w, step, << <<>> >>, Len(s), s)
      BY <1>0, <1>1, <2>1, FoldExists
    <2>0. \A S \in SUBSET (1..Len(s)) :
              w[S] = IF S = {} THEN << <<>> >> ELSE step[<<w[S \ {Max(S)}], s[Max(S)]>>]
      BY <2>3 DEF Iterates
    <2>4. ASSUME NEW S \in SUBSET D, S # {}
          PROVE  w[S] = AddToSteps(w[S \ {Max(S)}], s[Max(S)])
      <3>1. Max(S) \in 1..Len(s)
        <4>1. S \subseteq 0..Len(s)
          BY <1>1
        <4> QED BY <1>1, <2>4, <4>1, MaxIn
      <3>2. w[S \ {Max(S)}] \in PieceSeqs(T) /\ s[Max(S)] \in T
        BY <1>1, <2>3, <3>1
      <3>3. w[S] = step[<<w[S \ {Max(S)}], s[Max(S)]>>]
        BY <1>1, <2>0, <2>4
      <3> QED BY <3>2, <3>3 DEF step
    <2>5. w = [S \in SUBSET D |-> w[S]] /\ w[{}] = << <<>> >>
      BY <1>1, <2>0, <2>3
    <2> QED BY <2>4, <2>5
  <1>4. Is(f)
    <2> HIDE DEF Is
    <2> QED BY <1>3
  <1> HIDE DEF f
  <1>5. f[{}] = << <<>> >>
    BY <1>4
  <1>6. ASSUME NEW S \in SUBSET D, S # {}
        PROVE  f[S] = AddToSteps(f[S \ {Max(S)}], s[Max(S)])
    BY <1>4, <1>6
  <1> HIDE DEF Is
  <1> DEFINE g == [k \in 0..Len(s) |-> f[1..k]]
  <1>7. g[0] = << <<>> >> /\ g[Len(s)] = f[D]
    <2>1. 1..0 = {}
      OBVIOUS
    <2> QED BY <1>1, <1>5, <2>1
  <1>8. ASSUME NEW k \in 1..Len(s) PROVE g[k] = AddToSteps(g[k - 1], s[k])
    <2>1. k \in Nat \ {0} /\ 1..k \in SUBSET D /\ g[k] = f[1..k] /\ g[k - 1] = f[1..(k - 1)]
      BY <1>1
    <2>2. 1..k # {} /\ Max(1..k) = k /\ (1..k) \ {k} = 1..(k - 1)
      BY <2>1, UpTo
    <2> QED BY <1>6, <2>1, <2>2
  <1> HIDE DEF g
  <1> DEFINE wrong == {k \in 0..Len(s) : g[k] \notin PieceSeqs(T)}
  <1>9. wrong = {}
    <2> SUFFICES ASSUME wrong # {} PROVE FALSE
      OBVIOUS
    <2>1. wrong \subseteq Nat
      OBVIOUS
    <2>2. PICK k \in wrong : \A j \in wrong : k <= j
      <3> HIDE DEF wrong
      <3> QED BY <2>1, Least
    <2>3. k \in 0..Len(s) /\ g[k] \notin PieceSeqs(T)
      OBVIOUS
    <2>4. k \in 1..Len(s) /\ k - 1 \in 0..Len(s) /\ s[k] \in T
      BY <1>0, <1>1, <1>7, <2>3
    <2>5. k - 1 \notin wrong
      <3> HIDE DEF wrong
      <3> QED BY <2>2, <2>4
    <2>6. g[k - 1] \in PieceSeqs(T)
      BY <2>4, <2>5
    <2> QED BY <1>8, <2>3, <2>4, <2>6, AddToStepsIs
  <1>10. \A k \in 0..Len(s) : g[k] \in PieceSeqs(T)
    BY <1>9
  <1> QED BY <1>2, <1>7, <1>8, <1>10 DEF Leads

\* There is one place that a name leads to.
LEMMA LeadsToOne ==
    ASSUME NEW T, NEW s \in Seq(T), NEW v, NEW w, NEW u, Leads(T, s, v, w), Leads(T, s, v, u)
    PROVE  w = u
  <1>0. PICK n \in Nat : n = Len(s)
    BY LenProperties
  <1>1. PICK g : /\ g[0] = v /\ g[n] = w
                 /\ \A k \in 1..n : g[k] = AddToSteps(g[k - 1], s[k])
    BY <1>0 DEF Leads
  <1>2. PICK h : /\ h[0] = v /\ h[n] = u
                 /\ \A k \in 1..n : h[k] = AddToSteps(h[k - 1], s[k])
    BY <1>0 DEF Leads
  <1> DEFINE wrong == {k \in 0..n : g[k] # h[k]}
  <1> SUFFICES ASSUME wrong # {} PROVE FALSE
    BY <1>1, <1>2
  <1>3. wrong \subseteq Nat
    OBVIOUS
  <1>4. PICK k \in wrong : \A j \in wrong : k <= j
    <2> HIDE DEF wrong
    <2> QED BY <1>3, Least
  <1>5. k \in 1..n /\ k - 1 \in 0..n /\ g[k] # h[k]
    BY <1>1, <1>2
  <1>6. k - 1 \notin wrong
    <2> HIDE DEF wrong
    <2> QED BY <1>4, <1>5
  <1> QED BY <1>1, <1>2, <1>5, <1>6

\* One part of a name after another.
LEMMA LeadsOn ==
    ASSUME NEW T, NEW x \in Seq(T), NEW y \in Seq(T), NEW u, NEW v, NEW w,
           Leads(T, x, u, v), Leads(T, y, v, w)
    PROVE  Leads(T, x \o y, u, w)
  <1>0. PICK m \in Nat, n \in Nat : m = Len(x) /\ n = Len(y)
    BY LenProperties
  <1>1. PICK g : /\ g[0] = u /\ g[m] = v
                 /\ \A k \in 0..m : g[k] \in PieceSeqs(T)
                 /\ \A k \in 1..m : g[k] = AddToSteps(g[k - 1], x[k])
    BY <1>0 DEF Leads
  <1>2. PICK h : /\ h[0] = v /\ h[n] = w
                 /\ \A k \in 0..n : h[k] \in PieceSeqs(T)
                 /\ \A k \in 1..n : h[k] = AddToSteps(h[k - 1], y[k])
    BY <1>0 DEF Leads
  <1>3. PICK s : s = x \o y
    OBVIOUS
  <1>4. /\ Len(s) = m + n /\ \A k \in 1..m : s[k] = x[k]
        /\ \A k \in m+1..m+n : s[k] = y[k - m]
    BY <1>0, <1>3, ConcatProperties
  <1> DEFINE f == [k \in 0..m+n |-> IF k <= m THEN g[k] ELSE h[k - m]]
  <1>5. (\A k \in 0..m : f[k] = g[k]) /\ \A k \in m..m+n : f[k] = h[k - m]
    BY <1>1, <1>2
  <1> HIDE DEF f
  <1>6. f[0] = u /\ f[m + n] = w
    <2>1. m + n - m = n /\ m + n \in m..m+n
      OBVIOUS
    <2> QED BY <1>1, <1>2, <1>5, <2>1
  <1>7. \A k \in 0..m+n : f[k] \in PieceSeqs(T)
    <2> SUFFICES ASSUME NEW k \in 0..m+n PROVE f[k] \in PieceSeqs(T)
      OBVIOUS
    <2>1. CASE k <= m
      <3>1. k \in 0..m
        BY <2>1
      <3> QED BY <1>1, <1>5, <3>1
    <2>2. CASE k > m
      <3>1. k - m \in 0..n /\ k \in m..m+n
        BY <2>2
      <3> QED BY <1>2, <1>5, <3>1
    <2> QED BY <2>1, <2>2
  <1>8. \A k \in 1..m+n : f[k] = AddToSteps(f[k - 1], s[k])
    <2> SUFFICES ASSUME NEW k \in 1..m+n PROVE f[k] = AddToSteps(f[k - 1], s[k])
      OBVIOUS
    <2>1. CASE k <= m
      BY <1>1, <1>4, <1>5, <2>1
    <2>2. CASE k > m
      <3>1. PICK j \in 1..n : j = k - m /\ j - 1 = k - 1 - m
        BY <2>2
      <3>2. k \in m..m+n /\ k - 1 \in m..m+n /\ k \in m+1..m+n
        BY <2>2
      <3>3. f[k] = h[j] /\ f[k - 1] = h[j - 1] /\ s[k] = y[j]
        BY <1>4, <1>5, <3>1, <3>2
      <3> QED BY <1>2, <3>1, <3>3
    <2> QED BY <2>1, <2>2
  <1> QED BY <1>3, <1>4, <1>6, <1>7, <1>8 DEF Leads

\* A state is its last part, behind the others.
LEMMA PartsEnd ==
    ASSUME NEW T, NEW v \in PieceSeqs(T)
    PROVE  \E P \in Seq(Seq(T)), l \in Seq(T) : v = Append(P, l)
  <1>1. v \in Seq(Seq(T)) /\ v # <<>>
    BY DEF PieceSeqs
  <1>2. PICK n \in Nat : n = Len(v) /\ n > 0
    BY <1>1, EmptySeq
  <1>3. v[n] \in Seq(T)
    BY <1>1, <1>2, ElementOfSeq
  <1>4. SubSeq(v, 1, n - 1) \in Seq(Seq(T)) /\ v = SubSeq(v, 1, n - 1) \o <<v[n]>>
    <2>1. SubSeq(v, 1, n) = SubSeq(v, 1, n - 1) \o <<v[n]>>
      <3>1. 1 \in 1..Len(v) /\ n \in 1..Len(v)
        BY <1>2
      <3> QED BY <1>1, <3>1, SubSeqRecursiveSecond
    <2>2. SubSeq(v, 1, n) = v
      BY <1>1, <1>2, SubSeqFull
    <2>3. \A k \in 1..n-1 : v[k] \in Seq(T)
      BY <1>1, <1>2, ElementOfSeq
    <2>4. SubSeq(v, 1, n - 1) \in Seq(Seq(T))
      BY <1>2, <2>3, SubSeqProperties
    <2> QED BY <2>1, <2>2, <2>4
  <1>5. Append(SubSeq(v, 1, n - 1), v[n]) = v
    BY <1>3, <1>4, AppendIsConcat
  <1> QED BY <1>3, <1>4, <1>5

\* The two ends of what was appended to.
LEMMA EndIs ==
    ASSUME NEW T, NEW P \in Seq(T), NEW l \in T
    PROVE  Last(Append(P, l)) = l /\ Front(Append(P, l)) = P /\ Append(P, l) # <<>>
  <1>1. PICK n \in Nat : n = Len(P)
    BY LenProperties
  <1>2. PICK v : v = Append(P, l)
    OBVIOUS
  <1>3. /\ v \in Seq(T) /\ Len(v) = n + 1 /\ v[n + 1] = l /\ v # <<>>
        /\ \A k \in 1..n : v[k] = P[k]
    BY <1>1, <1>2, AppendProperties
  <1>4. Last(v) = l
    BY <1>3 DEF Last
  <1>5. Front(v) = P
    <2>1. Front(v) = SubSeq(v, 1, n)
      BY <1>3 DEF Front
    <2>2. \A k \in 1..n : v[k] \in T
      BY <1>1, <1>3, ElementOfSeq
    <2>3. /\ SubSeq(v, 1, n) \in Seq(T) /\ Len(SubSeq(v, 1, n)) = n
          /\ \A k \in 1..n : SubSeq(v, 1, n)[k] = v[k]
      BY <2>2, SubSeqProperties
    <2>4. SubSeq(v, 1, n) = P
      BY <1>1, <1>3, <2>3, SeqEqual
    <2> QED BY <2>1, <2>4
  <1> QED BY <1>2, <1>3, <1>4, <1>5

\* An empty part at the end is taken off.
LEMMA StripIs ==
    ASSUME NEW T, NEW P \in Seq(T), NEW l \in T
    PROVE  Strip(Append(P, l)) = IF l = <<>> THEN P ELSE Append(P, l)
  BY EndIs DEF Strip

\* What one character makes of it.
LEMMA AddsToEnd ==
    ASSUME NEW T, NEW P \in Seq(Seq(T)), NEW l \in Seq(T), NEW c \in T
    PROVE  /\ Append(P, l) \in PieceSeqs(T)
           /\ AddToSteps(Append(P, l), c) =
                  IF c # "/" THEN Append(P, Append(l, c))
                  ELSE IF l = <<>> THEN Append(P, l) ELSE Append(Append(P, l), <<>>)
  <1>1. /\ Last(Append(P, l)) = l /\ Front(Append(P, l)) = P /\ Append(P, l) # <<>>
        /\ Append(P, l) \in Seq(Seq(T))
    BY EndIs, AppendProperties
  <1>2. ASSUME c # "/" PROVE AddToSteps(Append(P, l), c) = Append(P, Append(l, c))
    <2>1. PICK n \in Nat : n = Len(P)
      BY LenProperties
    <2>2. PICK v : v = Append(P, l)
      OBVIOUS
    <2>3. v \in Seq(Seq(T)) /\ Len(v) = n + 1 /\ v[n + 1] = l /\ \A k \in 1..n : v[k] = P[k]
      BY <2>1, <2>2, AppendProperties
    <2>4. PICK m : m = Append(l, c)
      OBVIOUS
    <2>5. m \in Seq(T)
      BY <2>4, AppendProperties
    <2>6. PICK w : w = Append(P, m)
      OBVIOUS
    <2>7. w \in Seq(Seq(T)) /\ Len(w) = n + 1 /\ w[n + 1] = m /\ \A k \in 1..n : w[k] = P[k]
      BY <2>1, <2>5, <2>6, AppendProperties
    <2>8. PICK u : u = [v EXCEPT ![n + 1] = m]
      OBVIOUS
    <2>9. /\ u \in Seq(Seq(T)) /\ Len(u) = n + 1
          /\ \A k \in 1..n+1 : u[k] = IF k = n + 1 THEN m ELSE v[k]
      <3>1. n + 1 \in 1..Len(v)
        BY <2>3
      <3> QED BY <2>3, <2>5, <2>8, <3>1, ExceptSeq
    <2>10. u = w
      <3>1. \A k \in 1..Len(u) : u[k] = w[k]
        BY <2>3, <2>7, <2>9
      <3> QED BY <2>7, <2>9, <3>1, SeqEqual
    <2>11. AddToSteps(v, c) = [v EXCEPT ![Len(v)] = Append(@, c)]
      BY <1>2 DEF AddToSteps, AddToPieces
    <2>12. AddToSteps(v, c) = u
      BY <2>3, <2>4, <2>8, <2>11
    <2> QED BY <2>2, <2>4, <2>6, <2>10, <2>12
  <1>3. ASSUME c = "/"
        PROVE  AddToSteps(Append(P, l), c) =
                   IF l = <<>> THEN Append(P, l) ELSE Append(Append(P, l), <<>>)
    BY <1>1, <1>3 DEF AddToSteps, AddToPieces
  <1> QED BY <1>1, <1>2, <1>3 DEF PieceSeqs

\* What comes first stays in front.
LEMMA LeadsBehind ==
    ASSUME NEW T, NEW s \in Seq(T), NEW v, NEW w, Leads(T, s, v, w), NEW Q \in Seq(Seq(T))
    PROVE  Leads(T, s, Q \o v, Q \o w)
  <1>0. PICK n \in Nat : n = Len(s) /\ \A k \in 1..n : s[k] \in T
    BY LenProperties
  <1>1. PICK g : /\ g[0] = v /\ g[n] = w
                 /\ \A k \in 0..n : g[k] \in PieceSeqs(T)
                 /\ \A k \in 1..n : g[k] = AddToSteps(g[k - 1], s[k])
    BY <1>0 DEF Leads
  <1>2. ASSUME NEW P \in Seq(Seq(T)), NEW l \in Seq(T)
        PROVE  Q \o P \in Seq(Seq(T)) /\ Q \o Append(P, l) = Append(Q \o P, l)
    <2>1. <<l>> \in Seq(Seq(T)) /\ Q \o P \in Seq(Seq(T))
      BY ConcatProperties
    <2>2. Append(P, l) = P \o <<l>> /\ Append(Q \o P, l) = (Q \o P) \o <<l>>
      BY <2>1, AppendIsConcat
    <2> QED BY <2>1, <2>2, ConcatAssociative
  <1>3. ASSUME NEW q \in PieceSeqs(T), NEW c \in T
        PROVE  Q \o q \in PieceSeqs(T) /\ AddToSteps(Q \o q, c) = Q \o AddToSteps(q, c)
    <2>1. PICK P \in Seq(Seq(T)), l \in Seq(T) : q = Append(P, l)
      BY PartsEnd
    <2>2. PICK R \in Seq(Seq(T)) : R = Q \o P /\ Q \o q = Append(R, l)
      BY <1>2, <2>1
    <2>3. CASE c # "/"
      <3>1. AddToSteps(q, c) = Append(P, Append(l, c)) /\ Append(l, c) \in Seq(T)
        BY <2>1, <2>3, AddsToEnd
      <3>2. AddToSteps(Append(R, l), c) = Append(R, Append(l, c)) /\ Append(R, l) \in PieceSeqs(T)
        BY <2>3, AddsToEnd
      <3>3. Q \o Append(P, Append(l, c)) = Append(R, Append(l, c))
        BY <1>2, <2>2, <3>1
      <3> QED BY <2>2, <3>1, <3>2, <3>3
    <2>4. CASE c = "/" /\ l = <<>>
      <3>1. AddToSteps(q, c) = q
        BY <2>1, <2>4, AddsToEnd
      <3>2. AddToSteps(Append(R, l), c) = Append(R, l) /\ Append(R, l) \in PieceSeqs(T)
        BY <2>4, AddsToEnd
      <3> QED BY <2>2, <3>1, <3>2
    <2>5. CASE c = "/" /\ l # <<>>
      <3>1. AddToSteps(q, c) = Append(q, <<>>)
        BY <2>1, <2>5, AddsToEnd
      <3>2. AddToSteps(Append(R, l), c) = Append(Append(R, l), <<>>)
        <4>1. AddToSteps(Append(R, l), c) =
                  IF c # "/" THEN Append(R, Append(l, c))
                  ELSE IF l = <<>> THEN Append(R, l) ELSE Append(Append(R, l), <<>>)
          BY AddsToEnd
        <4> QED BY <2>5, <4>1, Zenon
      <3>5. Append(R, l) \in PieceSeqs(T)
        BY AddsToEnd
      <3>3. q \in Seq(Seq(T)) /\ <<>> \in Seq(T)
        BY DEF PieceSeqs
      <3>4. Q \o Append(q, <<>>) = Append(Q \o q, <<>>)
        BY <1>2, <3>3
      <3> QED BY <2>2, <3>1, <3>2, <3>4, <3>5
    <2> QED BY <2>3, <2>4, <2>5
  <1> DEFINE f == [k \in 0..n |-> Q \o g[k]]
  <1>4. f[0] = Q \o v /\ f[n] = Q \o w
    <2>1. f[0] = Q \o g[0] /\ f[n] = Q \o g[n]
      <3>1. 0 \in 0..n /\ n \in 0..n
        OBVIOUS
      <3> QED BY <3>1
    <2> HIDE DEF f
    <2> QED BY <1>1, <2>1
  <1>5. \A k \in 0..n : f[k] \in PieceSeqs(T)
    <2>0. CASE n = 0
      <3>1. PICK P \in Seq(Seq(T)), l \in Seq(T) : v = Append(P, l)
        <4>1. g[0] \in PieceSeqs(T)
          BY <1>1
        <4> QED BY <1>1, <4>1, PartsEnd
      <3>2. Q \o v = Append(Q \o P, l) /\ Q \o P \in Seq(Seq(T))
        BY <1>2, <3>1
      <3>3. Q \o v \in PieceSeqs(T)
        BY <3>2, AppendProperties DEF PieceSeqs
      <3> QED BY <1>1, <2>0, <3>3
    <2>1. CASE n # 0
      <3>1. s[1] \in T
        BY <1>0, <2>1
      <3> QED BY <1>1, <1>3, <3>1
    <2> QED BY <2>0, <2>1
  <1>6. \A k \in 1..n : f[k] = AddToSteps(f[k - 1], s[k])
    <2> SUFFICES ASSUME NEW k \in 1..n PROVE f[k] = AddToSteps(f[k - 1], s[k])
      OBVIOUS
    <2>1. k \in 0..n /\ k - 1 \in 0..n /\ s[k] \in T
      BY <1>0
    <2>2. f[k] = Q \o g[k] /\ f[k - 1] = Q \o g[k - 1]
      BY <2>1
    <2> QED BY <1>1, <1>3, <2>1, <2>2
  <1> HIDE DEF f
  <1> QED BY <1>0, <1>4, <1>5, <1>6 DEF Leads

\* The parts of two names with a "/" between.
LEMMA StepsApart ==
    ASSUME NEW T, "/" \in T, NEW x \in Seq(T), NEW y \in Seq(T)
    PROVE  Steps((x \o <<"/">>) \o y) = Steps(x) \o Steps(y) /\ Steps(x) \in Seq(Seq(T))
  <1> DEFINE none == << <<>> >>
  <1>1. PICK a : Leads(T, x, none, a) /\ Steps(x) = Strip(a)
    BY StepsLead
  <1>2. PICK b : Leads(T, y, none, b) /\ Steps(y) = Strip(b)
    BY StepsLead
  <1>3. a \in PieceSeqs(T) /\ b \in PieceSeqs(T)
    <2>1. Len(x) \in Nat /\ Len(y) \in Nat
      BY LenProperties
    <2>2. Len(x) \in 0..Len(x) /\ Len(y) \in 0..Len(y)
      BY <2>1
    <2> QED BY <1>1, <1>2, <2>2 DEF Leads
  <1>4. PICK P \in Seq(Seq(T)), l \in Seq(T) : a = Append(P, l)
    BY <1>3, PartsEnd
  <1>5. PICK Q \in Seq(Seq(T)), m \in Seq(T) : b = Append(Q, m)
    BY <1>3, PartsEnd
  <1>6. PICK S : S = Steps(x)
    OBVIOUS
  <1>7. S = IF l = <<>> THEN P ELSE a
    BY <1>1, <1>4, <1>6, StripIs
  <1>8. S \in Seq(Seq(T))
    BY <1>3, <1>7 DEF PieceSeqs
  <1>9. Append(S, <<>>) = S \o none /\ Append(S, <<>>) \in PieceSeqs(T)
    <2>1. <<>> \in Seq(T)
      BY EmptySeq
    <2>2. Append(S, <<>>) = S \o << <<>> >>
      BY <1>8, <2>1, AppendIsConcat
    <2>3. Append(S, <<>>) \in Seq(Seq(T)) /\ Append(S, <<>>) # <<>>
      BY <1>8, <2>1, AppendProperties
    <2> QED BY <2>2, <2>3 DEF PieceSeqs
  <1>10. AddToSteps(a, "/") = Append(S, <<>>)
    <2>1. PICK c : c = "/"
      OBVIOUS
    <2>2. AddToSteps(Append(P, l), c) =
              IF c # "/" THEN Append(P, Append(l, c))
              ELSE IF l = <<>> THEN Append(P, l) ELSE Append(Append(P, l), <<>>)
      BY <2>1, AddsToEnd
    <2>3. CASE l = <<>>
      BY <1>4, <1>7, <2>1, <2>2, <2>3, Zenon
    <2>4. CASE l # <<>>
      BY <1>4, <1>7, <2>1, <2>2, <2>4, Zenon
    <2> QED BY <2>3, <2>4
  <1>11. Leads(T, <<"/">>, a, S \o none)
    <2> DEFINE g == [k \in 0..1 |-> IF k = 0 THEN a ELSE S \o none]
    <2>1. g[0] = a /\ g[1] = S \o none
      OBVIOUS
    <2>2. Len(<<"/">>) = 1 /\ <<"/">>[1] = "/"
      OBVIOUS
    <2> HIDE DEF g, none
    <2>3. \A k \in 0..1 : g[k] \in PieceSeqs(T)
      <3>1. g[0] \in PieceSeqs(T) /\ g[1] \in PieceSeqs(T)
        BY <1>3, <1>9, <2>1
      <3>2. \A k \in 0..1 : k = 0 \/ k = 1
        OBVIOUS
      <3> QED BY <3>1, <3>2
    <2>4. \A k \in 1..1 : g[k] = AddToSteps(g[k - 1], <<"/">>[k])
      <3>1. g[1] = AddToSteps(g[0], <<"/">>[1])
        BY <1>9, <1>10, <2>1, <2>2
      <3>2. \A k \in 1..1 : k = 1 /\ k - 1 = 0
        OBVIOUS
      <3> QED BY <3>1, <3>2
    <2> QED BY <2>1, <2>2, <2>3, <2>4 DEF Leads
  <1>12. Leads(T, y, S \o none, S \o b)
    <2> HIDE DEF none
    <2> QED BY <1>2, <1>8, LeadsBehind
  <1>13. <<"/">> \in Seq(T)
    OBVIOUS
  <1> HIDE DEF none
  <1>14. x \o <<"/">> \in Seq(T) /\ (x \o <<"/">>) \o y \in Seq(T)
    BY <1>13, ConcatProperties
  <1>15. Leads(T, x \o <<"/">>, none, S \o none)
    BY <1>1, <1>11, <1>13, LeadsOn
  <1>16. Leads(T, (x \o <<"/">>) \o y, none, S \o b)
    BY <1>12, <1>14, <1>15, LeadsOn
  <1>17. PICK w : Leads(T, (x \o <<"/">>) \o y, none, w) /\ Steps((x \o <<"/">>) \o y) = Strip(w)
    BY <1>14, StepsLead DEF none
  <1>18. w = S \o b
    BY <1>14, <1>16, <1>17, LeadsToOne
  <1>19. Strip(S \o b) = S \o Strip(b)
    <2>1. S \o Q \in Seq(Seq(T)) /\ S \o b = Append(S \o Q, m)
      <3>1. <<m>> \in Seq(Seq(T)) /\ S \o Q \in Seq(Seq(T))
        BY <1>8, ConcatProperties
      <3>2. Append(Q, m) = Q \o <<m>> /\ Append(S \o Q, m) = (S \o Q) \o <<m>>
        BY <3>1, AppendIsConcat
      <3>3. (S \o Q) \o <<m>> = S \o (Q \o <<m>>)
        <4>1. PICK U, o : U = Seq(T) /\ o = <<m>>
          OBVIOUS
        <4>2. S \in Seq(U) /\ Q \in Seq(U) /\ o \in Seq(U)
          BY <1>8, <3>1, <4>1
        <4>3. (S \o Q) \o o = S \o (Q \o o)
          BY ONLY <4>2, ConcatAssociative, SMTT(60)
        <4> QED BY <4>1, <4>3
      <3> QED BY <1>5, <3>1, <3>2, <3>3
    <2>2. Strip(b) = IF m = <<>> THEN Q ELSE b
      BY <1>5, StripIs
    <2>3. Strip(S \o b) = IF m = <<>> THEN S \o Q ELSE S \o b
      BY <2>1, StripIs
    <2> QED BY <2>2, <2>3
  <1> QED BY <1>2, <1>6, <1>8, <1>17, <1>18, <1>19

\* The empty name has no parts.
LEMMA StepsOfNothing == Steps(<<>>) = <<>>
  <1> DEFINE T == {}
  <1>1. <<>> \in Seq(T) /\ Len(<<>>) = 0
    BY EmptySeq
  <1>2. PICK w : Leads(T, <<>>, << <<>> >>, w) /\ Steps(<<>>) = Strip(w)
    BY <1>1, StepsLead
  <1>3. w = << <<>> >>
    BY <1>1, <1>2 DEF Leads
  <1>4. Strip(Append(<<>>, <<>>)) = <<>>
    <2>1. <<>> \in Seq(Seq(T)) /\ <<>> \in Seq(T)
      BY EmptySeq
    <2> QED BY <2>1, StripIs
  <1>5. Append(<<>>, <<>>) = << <<>> >>
    OBVIOUS
  <1> QED BY <1>2, <1>3, <1>4, <1>5

\* Appending to tuples.
LEMMA TwoAre ==
    ASSUME NEW T, NEW a \in T, NEW b \in T
    PROVE  Append(<<a>>, b) = <<a, b>>
  <1>0. <<a>> \in Seq(T) /\ <<a, b>> \in Seq(T)
    OBVIOUS
  <1>1. PICK s \in Seq(T), t \in Seq(T) : s = <<a>> /\ t = <<a, b>>
    BY <1>0, Zenon
  <1>2. Len(s) = 1 /\ s[1] = a /\ Len(t) = 2 /\ t[1] = a /\ t[2] = b
    BY <1>1
  <1>3. PICK u : u = Append(s, b)
    OBVIOUS
  <1>4. u \in Seq(T) /\ Len(u) = 2 /\ u[1] = a /\ u[2] = b
    BY <1>2, <1>3, AppendProperties
  <1>5. \A k \in 1..Len(u) : u[k] = t[k]
    BY <1>2, <1>4
  <1>6. u = t
    BY <1>2, <1>4, <1>5, SeqEqual
  <1> QED BY <1>1, <1>3, <1>6

LEMMA ThreeAre ==
    ASSUME NEW T, NEW a \in T, NEW b \in T, NEW c \in T
    PROVE  Append(<<a, b>>, c) = <<a, b, c>>
  <1>0. <<a, b>> \in Seq(T) /\ <<a, b, c>> \in Seq(T)
    OBVIOUS
  <1>1. PICK s \in Seq(T), t \in Seq(T) : s = <<a, b>> /\ t = <<a, b, c>>
    BY <1>0, Zenon
  <1>2. Len(s) = 2 /\ s[1] = a /\ s[2] = b /\ Len(t) = 3 /\ t[1] = a /\ t[2] = b /\ t[3] = c
    BY <1>1
  <1>3. PICK u : u = Append(s, c)
    OBVIOUS
  <1>4. u \in Seq(T) /\ Len(u) = 3 /\ u[1] = a /\ u[2] = b /\ u[3] = c
    BY <1>2, <1>3, AppendProperties
  <1>5. \A k \in 1..Len(u) : u[k] = t[k]
    BY <1>2, <1>4
  <1>6. u = t
    BY <1>2, <1>4, <1>5, SeqEqual
  <1> QED BY <1>1, <1>3, <1>6

\* The name of the index has one part.
LEMMA StepsOfIndex == Steps(<<"index", ".", "html">>) = << <<"index", ".", "html">> >>
  <1> DEFINE T == {"index", ".", "html"}  s == <<"index", ".", "html">>
             one == <<"index">>  two == <<"index", ".">>
             g == [k \in 0..3 |-> CASE k = 0 -> << <<>> >> [] k = 1 -> <<one>>
                                    [] k = 2 -> <<two>> [] OTHER -> <<s>>]
  <1>1. s \in Seq(T) /\ Len(s) = 3 /\ s[1] = "index" /\ s[2] = "." /\ s[3] = "html"
    OBVIOUS
  <1>2. g[0] = << <<>> >> /\ g[1] = <<one>> /\ g[2] = <<two>> /\ g[3] = <<s>>
    OBVIOUS
  <1>3. <<>> \in Seq(T) /\ one \in Seq(T) /\ two \in Seq(T)
    OBVIOUS
  <1>7. "index" \in T /\ "." \in T /\ "html" \in T
    OBVIOUS
  <1>4. /\ Append(<<>>, "index") = one /\ Append(one, ".") = two /\ Append(two, "html") = s
    <2>1. Append(<<>>, "index") = <<"index">>
      OBVIOUS
    <2> QED BY <1>7, <2>1, TwoAre, ThreeAre
  <1>5. \A l : << l >> = Append(<<>>, l)
    OBVIOUS
  <1>6. <<>> \in Seq(Seq(T))
    BY EmptySeq
  <1>8. "index" # "/" /\ "." # "/" /\ "html" # "/"
    OBVIOUS
  <1> HIDE DEF g, s, one, two, T
  <1>9. ASSUME NEW l \in Seq(T), NEW c \in T, c # "/"
        PROVE  <<l>> \in PieceSeqs(T) /\ AddToSteps(<<l>>, c) = <<Append(l, c)>>
    <2>1. /\ Append(<<>>, l) \in PieceSeqs(T)
          /\ AddToSteps(Append(<<>>, l), c) = IF c # "/" THEN Append(<<>>, Append(l, c))
                  ELSE IF l = <<>> THEN Append(<<>>, l) ELSE Append(Append(<<>>, l), <<>>)
      <3>1. PICK P \in Seq(Seq(T)) : P = <<>>
        BY <1>6
      <3>2. /\ Append(P, l) \in PieceSeqs(T)
            /\ AddToSteps(Append(P, l), c) = IF c # "/" THEN Append(P, Append(l, c))
                    ELSE IF l = <<>> THEN Append(P, l) ELSE Append(Append(P, l), <<>>)
        BY AddsToEnd
      <3> QED BY <3>1, <3>2
    <2> QED BY <1>5, <1>9, <2>1
  <1>10. /\ g[0] \in PieceSeqs(T) /\ g[1] \in PieceSeqs(T) /\ g[2] \in PieceSeqs(T)
         /\ g[1] = AddToSteps(g[0], s[1]) /\ g[2] = AddToSteps(g[1], s[2])
         /\ g[3] = AddToSteps(g[2], s[3])
    BY <1>1, <1>2, <1>3, <1>4, <1>7, <1>8, <1>9
  <1>11. g[3] \in PieceSeqs(T)
    BY <1>1, <1>7, <1>10, AddToStepsIs
  <1>12. Leads(T, s, << <<>> >>, <<s>>)
    <2>1. \A k \in 0..3 : g[k] \in PieceSeqs(T)
      <3>1. \A k \in 0..3 : k = 0 \/ k = 1 \/ k = 2 \/ k = 3
        OBVIOUS
      <3> QED BY <1>10, <1>11, <3>1
    <2>2. \A k \in 1..3 : g[k] = AddToSteps(g[k - 1], s[k])
      <3>1. \A k \in 1..3 : (k = 1 /\ k - 1 = 0) \/ (k = 2 /\ k - 1 = 1) \/ (k = 3 /\ k - 1 = 2)
        OBVIOUS
      <3> QED BY <1>10, <3>1
    <2> QED BY <1>1, <1>2, <2>1, <2>2 DEF Leads
  <1>13. PICK w : Leads(T, s, << <<>> >>, w) /\ Steps(s) = Strip(w)
    BY <1>1, StepsLead
  <1>14. w = <<s>>
    BY <1>1, <1>12, <1>13, LeadsToOne
  <1>15. s # <<>>
    BY <1>1
  <1>16. Strip(<<s>>) = <<s>>
    <2>1. PICK P \in Seq(Seq(T)) : P = <<>>
      BY <1>6
    <2>2. Strip(Append(P, s)) = IF s = <<>> THEN P ELSE Append(P, s)
      BY <1>1, StripIs
    <2> QED BY <1>5, <1>15, <2>1, <2>2
  <1>17. Steps(s) = <<s>>
    BY <1>13, <1>14, <1>16
  <1> QED BY <1>17 DEF s

\* A root with a slash at its end.
Slashed(b) == IF Last(b) = "/" THEN b ELSE Append(b, "/")

\* The parts of what is put behind it.
LEMMA SlashedIs ==
    ASSUME NEW T, "/" \in T, NEW b \in Seq(T), b # <<>>, NEW r \in Seq(T)
    PROVE  /\ Slashed(b) \in Seq(T) /\ Len(Slashed(b)) \in Nat \ {0} /\ Slashed(b)[1] = b[1]
           /\ Steps(Slashed(b) \o r) = Steps(b) \o Steps(r)
           /\ Steps(b) \in Seq(Seq(T))
  <1>1. PICK n \in Nat : n = Len(b) /\ n > 0
    BY EmptySeq
  <1>0. <<"/">> \in Seq(T) /\ <<>> \in Seq(T)
    OBVIOUS
  <1>2. CASE Last(b) = "/"
    <2>1. PICK B : B = SubSeq(b, 1, n - 1)
      OBVIOUS
    <2>2. B \in Seq(T) /\ b = B \o <<"/">>
      <3>1. SubSeq(b, 1, n) = SubSeq(b, 1, n - 1) \o <<b[n]>>
        <4>1. 1 \in 1..Len(b) /\ n \in 1..Len(b)
          BY <1>1
        <4> QED BY <4>1, SubSeqRecursiveSecond
      <3>2. SubSeq(b, 1, n) = b
        BY <1>1, SubSeqFull
      <3>3. \A k \in 1..n-1 : b[k] \in T
        BY <1>1, ElementOfSeq
      <3>4. SubSeq(b, 1, n - 1) \in Seq(T)
        BY <1>1, <3>3, SubSeqProperties
      <3> QED BY <1>1, <1>2, <2>1, <3>1, <3>2, <3>4 DEF Last
    <2>3. Steps(b \o r) = Steps(B) \o Steps(r) /\ Steps(B) \in Seq(Seq(T))
      BY <2>2, StepsApart
    <2>4. Steps(b \o <<>>) = Steps(B) \o Steps(<<>>)
      BY <1>0, <2>2, StepsApart
    <2>5. Steps(b) = Steps(B)
      <3>1. b \o <<>> = b /\ Steps(B) \o <<>> = Steps(B)
        BY <2>3, ConcatEmptySeq
      <3> QED BY <2>4, <3>1, StepsOfNothing
    <2>6. Slashed(b) = b
      BY <1>2 DEF Slashed
    <2> QED BY <1>1, <2>3, <2>5, <2>6
  <1>3. CASE Last(b) # "/"
    <2>1. Slashed(b) = Append(b, "/")
      BY <1>3 DEF Slashed
    <2>2. Append(b, "/") = b \o <<"/">>
      BY AppendIsConcat
    <2>3. Steps((b \o <<"/">>) \o r) = Steps(b) \o Steps(r) /\ Steps(b) \in Seq(Seq(T))
      BY StepsApart
    <2>4. /\ Append(b, "/") \in Seq(T) /\ Len(Append(b, "/")) = n + 1
          /\ Append(b, "/")[1] = b[1]
      BY <1>1, AppendProperties
    <2>5. PICK d : d = Append(b, "/")
      OBVIOUS
    <2>6. Slashed(b) = d /\ d = b \o <<"/">>
      BY <2>1, <2>2, <2>5
    <2>7. d \in Seq(T) /\ Len(d) \in Nat \ {0} /\ d[1] = b[1]
      BY <1>1, <2>4, <2>5
    <2> QED BY <2>3, <2>6, <2>7
  <1> QED BY <1>2, <1>3

\* The parts of a name under a directory.
LEMMA PartsJoin ==
    ASSUME NEW T, "/" \in T, NEW b \in Seq(T), b # <<>>, NEW r \in Seq(T)
    PROVE  /\ Parts(Slashed(b) \o r) = Parts(b) \o Steps(r)
           /\ Slashed(b) \o r \in Seq(T) /\ Slashed(b) \o r # <<>>
           /\ Parts(b) \in Seq(Seq(T))
  <1>1. PICK d \in Seq(T), m \in Nat \ {0} : d = Slashed(b) /\ m = Len(d) /\ d[1] = b[1]
    BY SlashedIs
  <1>2. PICK name : name = d \o r
    OBVIOUS
  <1>3. Steps(name) = Steps(b) \o Steps(r) /\ Steps(b) \in Seq(Seq(T)) /\ Steps(r) \in Seq(Seq(T))
    BY <1>1, <1>2, SlashedIs, StepsApart
  <1>4. name \in Seq(T) /\ name # <<>> /\ name[1] = b[1]
    <2>1. PICK k \in Nat : k = Len(r)
      BY LenProperties
    <2>2. /\ d \o r \in Seq(T) /\ Len(d \o r) = m + k
          /\ \A x \in 1..m + k : (d \o r)[x] = IF x <= m THEN d[x] ELSE r[x - m]
      BY <1>1, <2>1, ConcatProperties
    <2>3. 1 \in 1..m + k /\ 1 <= m /\ m + k # 0
      OBVIOUS
    <2>4. Len(<<>>) = 0
      OBVIOUS
    <2> QED BY <1>1, <1>2, <2>2, <2>3, <2>4
  <1>5. << <<"/">> >> \in Seq(Seq(T))
    OBVIOUS
  <1>6. CASE b[1] = "/"
    <2>1. Parts(name) = << <<"/">> >> \o Steps(name) /\ Parts(b) = << <<"/">> >> \o Steps(b)
      BY <1>4, <1>6 DEF Parts
    <2>2. << <<"/">> >> \o (Steps(b) \o Steps(r)) = (<< <<"/">> >> \o Steps(b)) \o Steps(r)
      <3>0. PICK U : U = Seq(T)
        OBVIOUS
      <3>1. PICK a \in Seq(U), p \in Seq(U), q \in Seq(U) :
                     a = << <<"/">> >> /\ p = Steps(b) /\ q = Steps(r)
        BY <1>3, <1>5, <3>0
      <3>2. a \o (p \o q) = (a \o p) \o q
        <4>1. a \in Seq(U) /\ p \in Seq(U) /\ q \in Seq(U)
          OBVIOUS
        <4> QED BY ONLY <4>1, ConcatAssociative, SMTT(60)
      <3> QED BY <3>1, <3>2
    <2>3. << <<"/">> >> \o Steps(b) \in Seq(Seq(T))
      BY <1>3, <1>5, ConcatProperties
    <2> QED BY <1>1, <1>2, <1>3, <1>4, <2>1, <2>2, <2>3
  <1>7. CASE b[1] # "/"
    <2>1. Parts(name) = Steps(name) /\ Parts(b) = Steps(b)
      BY <1>4, <1>7 DEF Parts
    <2> QED BY <1>1, <1>2, <1>3, <1>4, <2>1
  <1> QED BY <1>6, <1>7

\* What the path of a file begins with is a slash.
Rooted(rest) == IF rest # <<>> /\ rest[1] = "/" THEN rest ELSE <<"/">> \o rest

\* The name of a file is under the root what the rest of the URI is.
LEMMA PartsOfPath ==
    ASSUME NEW T, "/" \in T, NEW base \in Seq(T), base # <<>>, NEW rest \in Seq(T),
           NEW q, q = Rooted(rest),
           NEW name \in FilePaths(base, q)
    PROVE  /\ Parts(name) = Parts(base) \o Steps(rest)
           /\ name \in Seq(T) /\ name # <<>>
  <1>0. <<"/">> \in Seq(T) /\ <<>> \in Seq(T)
    OBVIOUS
  <1>9. q = IF rest # <<>> /\ rest[1] = "/" THEN rest ELSE <<"/">> \o rest
    BY DEF Rooted
  <1>1. PICK r \in Seq(T) : q = <<"/">> \o r /\ Tail(q) = r /\ Steps(rest) = Steps(r)
    <2>1. CASE rest # <<>> /\ rest[1] = "/"
      <3>1. PICK r \in Seq(T) : r = Tail(rest)
        BY <2>1, HeadTailProperties
      <3>2. rest = <<"/">> \o r
        <4>1. PICK n \in Nat : n = Len(rest) /\ n > 0
          BY <2>1, EmptySeq
        <4>2. SubSeq(rest, 1, n) = rest /\ r = SubSeq(rest, 2, n)
          BY <2>1, <3>1, <4>1, SubSeqFull, TailIsSubSeq
        <4>3. SubSeq(rest, 1, n) = <<rest[1]>> \o SubSeq(rest, 1 + 1, n)
          <5>1. 1 \in 1..Len(rest) /\ n \in 1..Len(rest)
            BY <4>1
          <5> QED BY <5>1, SubSeqRecursiveFirst
        <4>4. 1 + 1 = 2
          OBVIOUS
        <4> QED BY <2>1, <4>2, <4>3, <4>4
      <3>3. Steps(rest) = Steps(r)
        <4>1. Steps((<<>> \o <<"/">>) \o r) = Steps(<<>>) \o Steps(r)
          BY <1>0, StepsApart
        <4>2. <<>> \o <<"/">> = <<"/">>
          BY <1>0, ConcatEmptySeq
        <4>3. Steps(r) \in Seq(Seq(T))
          BY StepsApart
        <4>4. <<>> \o Steps(r) = Steps(r)
          BY <4>3, ConcatEmptySeq
        <4> QED BY <3>2, <4>1, <4>2, <4>4, StepsOfNothing
      <3> QED BY <1>9, <2>1, <3>1, <3>2, <3>3
    <2>2. CASE ~(rest # <<>> /\ rest[1] = "/")
      <3>1. q = <<"/">> \o rest
        BY <1>9, <2>2
      <3>2. Tail(<<"/">> \o rest) = rest
        BY <1>0
      <3> QED BY <3>1, <3>2
    <2> QED BY <2>1, <2>2
  <1>2. name = Slashed(base) \o r
    <2>1. CASE Last(base) = "/"
      <3>1. name = base \o r
        BY <1>1, <2>1 DEF FilePaths
      <3> QED BY <2>1, <3>1 DEF Slashed
    <2>2. CASE Last(base) # "/"
      <3>1. name = base \o (<<"/">> \o r)
        BY <1>1, <2>2 DEF FilePaths
      <3>2. base \o (<<"/">> \o r) = (base \o <<"/">>) \o r
        <4>1. PICK o : o = <<"/">>
          OBVIOUS
        <4>2. o \in Seq(T) /\ base \in Seq(T) /\ r \in Seq(T)
          BY <1>0, <4>1
        <4>3. base \o (o \o r) = (base \o o) \o r
          BY ONLY <4>2, ConcatAssociative, SMTT(60)
        <4> QED BY <4>1, <4>3
      <3>3. Append(base, "/") = base \o <<"/">>
        BY AppendIsConcat
      <3> QED BY <2>2, <3>1, <3>2, <3>3 DEF Slashed
    <2> QED BY <2>1, <2>2
  <1> QED BY <1>1, <1>2, PartsJoin

\* The name of the index has one part more.
LEMMA PartsOfIndex ==
    ASSUME NEW T, {"/", "index", ".", "html"} \subseteq T, NEW name \in Seq(T), name # <<>>
    PROVE  /\ Parts(IndexOf(name)) = Append(Parts(name), <<"index", ".", "html">>)
           /\ IndexOf(name) \in Seq(T) /\ IndexOf(name) # <<>>
  <1>1. PICK s \in Seq(T) : s = <<"index", ".", "html">>
    <2>1. <<"index", ".", "html">> \in Seq(T)
      OBVIOUS
    <2> QED BY <2>1
  <1>2. IndexOf(name) = Slashed(name) \o s
    BY <1>1 DEF IndexOf, Slashed
  <1>3. /\ Parts(IndexOf(name)) = Parts(name) \o Steps(s) /\ Parts(name) \in Seq(Seq(T))
        /\ IndexOf(name) \in Seq(T) /\ IndexOf(name) # <<>>
    BY <1>2, PartsJoin
  <1>4. Steps(s) = <<s>>
    BY <1>1, StepsOfIndex
  <1>5. Append(Parts(name), s) = Parts(name) \o <<s>>
    BY <1>3, AppendIsConcat
  <1> QED BY <1>1, <1>3, <1>4, <1>5

\* l is what comes after the last "/" of the first n of s.
TailIs(s, n, l, m) ==
    /\ m \in Nat /\ m <= n /\ m = Len(l)
    /\ \A j \in 1..m : l[j] = s[n - m + j] /\ l[j] # "/"
    /\ m < n => s[n - m] = "/"
Tailing(s, n, l) == \E m : TailIs(s, n, l, m)

\* One character more.
LEMMA TailingStep ==
    ASSUME NEW T, NEW s, NEW n \in Nat, NEW l \in Seq(T), Tailing(s, n, l), NEW c \in T, c = s[n + 1]
    PROVE  /\ c # "/" => Tailing(s, n + 1, Append(l, c))
           /\ c = "/" => Tailing(s, n + 1, <<>>)
  <1>0. PICK m : TailIs(s, n, l, m)
    BY DEF Tailing
  <1>1. /\ m \in Nat /\ m <= n /\ m = Len(l)
        /\ \A j \in 1..m : l[j] = s[n - m + j] /\ l[j] # "/"
        /\ m < n => s[n - m] = "/"
    BY <1>0 DEF TailIs
  <1>2. ASSUME c # "/" PROVE Tailing(s, n + 1, Append(l, c))
    <2>1. PICK w : w = Append(l, c)
      OBVIOUS
    <2>2. Len(w) = m + 1 /\ w[m + 1] = c /\ \A j \in 1..m : w[j] = l[j]
      BY <1>1, <2>1, AppendProperties
    <2>4. \A j \in 1..m+1 : w[j] = s[n + 1 - (m + 1) + j] /\ w[j] # "/"
      <3> SUFFICES ASSUME NEW j \in 1..m+1 PROVE w[j] = s[n + 1 - (m + 1) + j] /\ w[j] # "/"
        OBVIOUS
      <3>1. n + 1 - (m + 1) + j = n - m + j
        BY <1>1
      <3>2. CASE j = m + 1
        <4>1. n - m + j = n + 1
          BY <1>1, <3>2
        <4> QED BY <1>2, <2>2, <3>1, <3>2, <4>1
      <3>3. CASE j \in 1..m
        BY <1>1, <2>2, <3>1, <3>3
      <3> QED BY <1>1, <3>2, <3>3
    <2>5. m + 1 < n + 1 => s[n + 1 - (m + 1)] = "/"
      <3>1. n + 1 - (m + 1) = n - m
        BY <1>1
      <3> QED BY <1>1, <3>1
    <2>6. m + 1 \in Nat /\ m + 1 <= n + 1
      BY <1>1
    <2>7. TailIs(s, n + 1, w, m + 1)
      BY <2>2, <2>4, <2>5, <2>6 DEF TailIs
    <2>9. Tailing(s, n + 1, w)
      BY <2>7 DEF Tailing
    <2> QED BY <2>1, <2>9
  <1>3. ASSUME c = "/" PROVE Tailing(s, n + 1, <<>>)
    <2>1. PICK k, v : k \in Nat /\ k = 0 /\ v = <<>> /\ k = Len(v) /\ n + 1 - k = n + 1
      OBVIOUS
    <2>2. \A j \in 1..k : v[j] = s[n + 1 - k + j] /\ v[j] # "/"
      BY <2>1
    <2>3. s[n + 1 - k] = "/"
      BY <1>3, <2>1
    <2>4. Tailing(s, n + 1, v)
      <3>1. TailIs(s, n + 1, v, k)
        BY <2>1, <2>2, <2>3 DEF TailIs
      <3> QED BY <3>1 DEF Tailing
    <2> QED BY <2>1, <2>4
  <1> QED BY <1>2, <1>3

\* The last part of a name that does not end with "/".
LEMMA LastPart ==
    ASSUME NEW T, NEW s \in Seq(T), s # <<>>, Last(s) # "/"
    PROVE  Last(Parts(s)) \in Seq(T) /\ Tailing(s, Len(s), Last(Parts(s)))
  <1>0. PICK n \in Nat : n = Len(s) /\ n > 0 /\ \A k \in 1..n : s[k] \in T
    BY EmptySeq, ElementOfSeq
  <1>1. PICK w : Leads(T, s, << <<>> >>, w) /\ Steps(s) = Strip(w)
    BY StepsLead
  <1>2. PICK g : /\ g[0] = << <<>> >> /\ g[n] = w
                 /\ \A k \in 1..n : g[k] = AddToSteps(g[k - 1], s[k])
    BY <1>0, <1>1 DEF Leads
  <1> DEFINE Right(k) == \E P \in Seq(Seq(T)), l \in Seq(T) : g[k] = Append(P, l) /\ Tailing(s, k, l)
             wrong == {k \in 0..n : ~Right(k)}
  <1>3. Right(0)
    <2>1. <<>> \in Seq(Seq(T)) /\ <<>> \in Seq(T) /\ Append(<<>>, <<>>) = << <<>> >>
      OBVIOUS
    <2>2. Tailing(s, 0, <<>>)
      <3>1. PICK v, k : v = <<>> /\ k \in Nat /\ k = Len(v) /\ k = 0
        OBVIOUS
      <3>2. TailIs(s, 0, v, k)
        BY <3>1 DEF TailIs
      <3> QED BY <3>1, <3>2 DEF Tailing
    <2> QED BY <1>2, <2>1, <2>2
  <1>4. ASSUME NEW k \in 1..n, Right(k - 1) PROVE Right(k)
    <2>1. PICK P \in Seq(Seq(T)), l \in Seq(T) : g[k - 1] = Append(P, l) /\ Tailing(s, k - 1, l)
      BY <1>4
    <2>2. PICK c \in T, x \in Nat : c = s[k] /\ x = k - 1 /\ x + 1 = k
      BY <1>0
    <2>3. /\ c # "/" => Tailing(s, x + 1, Append(l, c))
          /\ c = "/" => Tailing(s, x + 1, <<>>)
      <3>1. Tailing(s, x, l) /\ c = s[x + 1]
        BY <2>1, <2>2
      <3> QED BY <3>1, TailingStep
    <2>4. g[k] = IF c # "/" THEN Append(P, Append(l, c))
                 ELSE IF l = <<>> THEN Append(P, l) ELSE Append(Append(P, l), <<>>)
      <3>1. g[k] = AddToSteps(Append(P, l), c)
        BY <1>2, <2>1, <2>2
      <3>2. AddToSteps(Append(P, l), c) =
                  IF c # "/" THEN Append(P, Append(l, c))
                  ELSE IF l = <<>> THEN Append(P, l) ELSE Append(Append(P, l), <<>>)
        BY AddsToEnd
      <3> QED BY <3>1, <3>2
    <2>5. CASE c # "/"
      <3>1. Append(l, c) \in Seq(T)
        BY AppendProperties
      <3> QED BY <2>2, <2>3, <2>4, <2>5, <3>1
    <2>6. CASE c = "/" /\ l = <<>>
      BY <2>2, <2>3, <2>4, <2>6
    <2>7. CASE c = "/" /\ l # <<>>
      <3>1. Append(P, l) \in Seq(Seq(T)) /\ <<>> \in Seq(T)
        BY AppendProperties, EmptySeq
      <3>2. g[k] = Append(Append(P, l), <<>>)
        BY <2>4, <2>7, Zenon
      <3>3. Tailing(s, k, <<>>)
        BY <2>2, <2>3, <2>7
      <3> QED BY <3>1, <3>2, <3>3
    <2> QED BY <2>5, <2>6, <2>7
  <1> HIDE DEF Right
  <1>5. wrong = {}
    <2> SUFFICES ASSUME wrong # {} PROVE FALSE
      OBVIOUS
    <2>1. wrong \subseteq Nat
      OBVIOUS
    <2>2. PICK k \in wrong : \A j \in wrong : k <= j
      <3> HIDE DEF wrong
      <3> QED BY <2>1, Least
    <2>3. k \in 1..n /\ k - 1 \in 0..n /\ ~Right(k)
      BY <1>3
    <2>4. k - 1 \notin wrong
      <3> HIDE DEF wrong
      <3> QED BY <2>2, <2>3
    <2> QED BY <1>4, <2>3, <2>4
  <1>6. PICK P \in Seq(Seq(T)), l \in Seq(T) : w = Append(P, l) /\ Tailing(s, n, l)
    <2>1. Right(n)
      BY <1>5
    <2> QED BY <1>2, <2>1 DEF Right
  <1>7. l # <<>>
    <2> SUFFICES ASSUME l = <<>> PROVE FALSE
      OBVIOUS
    <2>1. Len(l) = 0 /\ n - 0 = n
      OBVIOUS
    <2>2. s[n] = "/"
      <3>1. PICK m : TailIs(s, n, l, m)
        BY <1>6 DEF Tailing
      <3>2. m = 0 /\ (m < n => s[n - m] = "/")
        BY <2>1, <3>1 DEF TailIs
      <3> QED BY <1>0, <2>1, <3>2
    <2> QED BY <1>0, <2>2 DEF Last
  <1>8. Steps(s) = Append(P, l)
    BY <1>1, <1>6, <1>7, StripIs
  <1>9. \E Q \in Seq(Seq(T)) : Parts(s) = Append(Q, l)
    <2>1. CASE s[1] = "/"
      <3>1. PICK U : U = Seq(T)
        OBVIOUS
      <3>2. PICK R \in Seq(U) : R = << <<"/">> >>
        <4>1. "/" \in T
          BY <1>0, <2>1
        <4>2. << <<"/">> >> \in Seq(U)
          BY <3>1, <4>1
        <4> QED BY <4>2
      <3>3. Parts(s) = R \o Append(P, l)
        BY <1>8, <2>1, <3>2 DEF Parts
      <3>4. R \o Append(P, l) = Append(R \o P, l) /\ R \o P \in Seq(U)
        <4>1. P \in Seq(U) /\ l \in U /\ <<l>> \in Seq(U)
          BY <3>1
        <4>2. Append(P, l) = P \o <<l>> /\ R \o P \in Seq(U)
          BY <4>1, AppendIsConcat, ConcatProperties
        <4>3. Append(R \o P, l) = (R \o P) \o <<l>>
          BY <4>1, <4>2, AppendIsConcat
        <4>4. PICK o : o = <<l>>
          OBVIOUS
        <4>5. (R \o P) \o o = R \o (P \o o)
          BY <4>1, <4>4, ConcatAssociative
        <4> QED BY <4>2, <4>3, <4>4, <4>5
      <3> QED BY <3>1, <3>3, <3>4
    <2>2. CASE s[1] # "/"
      BY <1>8, <2>2 DEF Parts
    <2> QED BY <2>1, <2>2
  <1>10. Last(Parts(s)) = l
    BY <1>9, EndIs
  <1> QED BY <1>0, <1>6, <1>10

-----------------------------------------------------------------------------
(* Ends of names *)

\* The last n of t, which has m, are the n of s.
EndsLike(s, n, t, m) == n <= m /\ \A j \in 1..n : s[j] = t[m - n + j]

\* a holds the last k of s, which has n, from the end.
Backwards(T, s, n, a, k) ==
    a \in Seq(T) /\ Len(a) = k /\ \A x \in 1..k : a[x] = s[n - x + 1]

\* What Reverse() gives.
LEMMA ReverseIs ==
    ASSUME NEW T, NEW s \in Seq(T), NEW n \in Nat, n = Len(s)
    PROVE  /\ Len(Reverse(s)) = n
           /\ \A k \in 0..n : Backwards(T, s, n, SubSeq(Reverse(s), 1, k), k)
  <1>1. PICK a : a = Reverse(s)
    OBVIOUS
  <1>2. a = [x \in 1..n |-> s[n - x + 1]]
    BY <1>1 DEF Reverse
  <1>3. \A x \in 1..n : s[n - x + 1] \in T
    <2>1. \A x \in 1..n : n - x + 1 \in 1..Len(s)
      OBVIOUS
    <2> QED BY <2>1, ElementOfSeq
  <1>4. a \in [1..n -> T]
    BY <1>2, <1>3
  <1>5. a \in Seq(T) /\ Len(a) = n /\ \A x \in 1..n : a[x] = s[n - x + 1]
    BY <1>2, <1>4, IsASeq
  <1>6. ASSUME NEW k \in 0..n PROVE Backwards(T, s, n, SubSeq(a, 1, k), k)
    <2>1. \A x \in 1..k : a[x] \in T /\ a[x] = s[n - x + 1]
      BY <1>3, <1>5
    <2>2. /\ SubSeq(a, 1, k) \in Seq(T)
          /\ Len(SubSeq(a, 1, k)) = k
          /\ \A x \in 1..k : SubSeq(a, 1, k)[x] = a[x]
      BY <2>1, SubSeqProperties
    <2> QED BY <2>1, <2>2 DEF Backwards
  <1> QED BY <1>1, <1>5, <1>6

\* What IsSuffix() says of the elements.
LEMMA SuffixIs ==
    ASSUME NEW T, NEW s \in Seq(T), NEW t \in Seq(T),
           NEW n \in Nat, n = Len(s), NEW m \in Nat, m = Len(t)
    PROVE  IsSuffix(s, t) <=> EndsLike(s, n, t, m)
  <1>1. PICK a, b : a = Reverse(s) /\ b = Reverse(t)
    OBVIOUS
  <1>2. /\ Len(a) = n /\ \A k \in 0..n : Backwards(T, s, n, SubSeq(a, 1, k), k)
        /\ Len(b) = m /\ \A k \in 0..m : Backwards(T, t, m, SubSeq(b, 1, k), k)
    BY <1>1, ReverseIs
  <1>3. IsSuffix(s, t) <=> n <= m /\ SubSeq(a, 1, n) = SubSeq(b, 1, n)
    BY <1>1, <1>2 DEF IsSuffix, IsPrefix
  <1>4. ASSUME n <= m
        PROVE  SubSeq(a, 1, n) = SubSeq(b, 1, n) <=> \A j \in 1..n : s[j] = t[m - n + j]
    <2>1. PICK x, y : x = SubSeq(a, 1, n) /\ y = SubSeq(b, 1, n)
      OBVIOUS
    <2>2. n \in 0..n /\ n \in 0..m
      BY <1>4
    <2>3. x \in Seq(T) /\ Len(x) = n /\ \A k \in 1..n : x[k] = s[n - k + 1]
      BY <1>2, <2>1, <2>2 DEF Backwards
    <2>4. y \in Seq(T) /\ Len(y) = n /\ \A k \in 1..n : y[k] = t[m - k + 1]
      BY <1>2, <2>1, <2>2 DEF Backwards
    <2>5. ASSUME x = y, NEW j \in 1..n PROVE s[j] = t[m - n + j]
      <3>1. n - j + 1 \in 1..n /\ n - (n - j + 1) + 1 = j /\ m - (n - j + 1) + 1 = m - n + j
        OBVIOUS
      <3>2. PICK k \in 1..n : n - k + 1 = j /\ m - k + 1 = m - n + j
        BY <3>1
      <3>3. x[k] = s[j] /\ y[k] = t[m - n + j]
        BY <2>3, <2>4, <3>2
      <3> QED BY <2>5, <3>3
    <2>6. ASSUME \A j \in 1..n : s[j] = t[m - n + j] PROVE x = y
      <3>1. ASSUME NEW k \in 1..n PROVE x[k] = y[k]
        <4>1. n - k + 1 \in 1..n /\ m - n + (n - k + 1) = m - k + 1
          OBVIOUS
        <4>2. PICK j \in 1..n : j = n - k + 1 /\ m - n + j = m - k + 1
          BY <4>1
        <4>3. x[k] = s[j] /\ y[k] = t[m - n + j]
          BY <2>3, <2>4, <4>2
        <4> QED BY <2>6, <4>3
      <3> QED BY <2>3, <2>4, <3>1, SeqEqual
    <2> QED BY <2>1, <2>5, <2>6
  <1> QED BY <1>3, <1>4 DEF EndsLike

\* A name ends as its last part does, if there is no "/" in the end.
LEMMA SuffixOfPart ==
    ASSUME NEW T, NEW t \in Seq(T), NEW l \in Seq(T), Tailing(t, Len(t), l),
           NEW w \in Seq(T), \A j \in 1..Len(w) : w[j] # "/"
    PROVE  IsSuffix(w, t) <=> IsSuffix(w, l)
  <1>1. PICK m \in Nat, k \in Nat : m = Len(t) /\ k = Len(w)
    BY LenProperties
  <1>0. PICK p : TailIs(t, m, l, p)
    BY <1>1 DEF Tailing
  <1>2. /\ p \in Nat /\ p <= m /\ p = Len(l) /\ \A j \in 1..p : l[j] = t[m - p + j]
        /\ p < m => t[m - p] = "/"
    BY <1>0 DEF TailIs
  <1>3. IsSuffix(w, t) <=> EndsLike(w, k, t, m)
    BY <1>1, SuffixIs
  <1>4. IsSuffix(w, l) <=> EndsLike(w, k, l, p)
    BY <1>1, <1>2, SuffixIs
  <1>5. CASE k <= p
    <2>1. \A j \in 1..k : l[p - k + j] = t[m - k + j]
      <3> SUFFICES ASSUME NEW j \in 1..k PROVE l[p - k + j] = t[m - k + j]
        OBVIOUS
      <3>1. p - k + j \in 1..p /\ m - p + (p - k + j) = m - k + j
        BY <1>1, <1>2, <1>5
      <3>2. PICK x \in 1..p : x = p - k + j /\ m - p + x = m - k + j
        BY <3>1
      <3> QED BY <1>2, <3>2
    <2>2. k <= m
      BY <1>1, <1>2, <1>5
    <2> QED BY <1>3, <1>4, <1>5, <2>1, <2>2 DEF EndsLike
  <1>6. CASE p < k
    <2>1. ASSUME EndsLike(w, k, t, m) PROVE FALSE
      <3>1. k <= m /\ \A j \in 1..k : w[j] = t[m - k + j]
        BY <2>1 DEF EndsLike
      <3>2. k - p \in 1..k /\ m - k + (k - p) = m - p
        BY <1>1, <1>2, <1>6
      <3>3. PICK j \in 1..k : j = k - p /\ m - k + j = m - p
        BY <3>2
      <3>4. t[m - p] = "/"
        BY <1>1, <1>2, <1>6, <3>1
      <3>5. w[j] = "/"
        BY <3>1, <3>3, <3>4
      <3> QED BY <1>1, <3>5
    <2>2. ~EndsLike(w, k, l, p)
      BY <1>1, <1>2, <1>6 DEF EndsLike
    <2> QED BY <1>3, <1>4, <2>1, <2>2
  <1> QED BY <1>1, <1>2, <1>5, <1>6

\* e stands alone between delim and place b.
Alone(s, b, e, delim) == b >= 3 /\ s[b - 1] = e /\ s[b - 2] = delim

\* p does not come first, and is e alone.
Behind(a, p, e) == 1 <= a /\ Len(p) = 1 /\ p[1] = e

\* A text between two others.
LEMMA OneBetween ==
    ASSUME NEW T, NEW s \in Seq(T), NEW n \in Nat, n = Len(s), NEW delim,
           NEW a \in Nat, NEW b \in Nat, a < b, b <= n + 1,
           \A x \in a+1..b-1 : s[x] # delim, a >= 1 => s[a] = delim, NEW e, e # delim,
           NEW p, p = SubSeq(s, a + 1, b - 1)
    PROVE  Behind(a, p, e) <=> Alone(s, b, e, delim)
  <1>1. p = SubSeq(s, a + 1, b - 1) /\ \A k \in 1..n : s[k] \in T
    BY ElementOfSeq
  <1>2. Len(p) = b - 1 - a /\ \A k \in 1..b-1-a : p[k] = s[a + k]
    <2>1. PICK x \in Int, y \in Int : x = a + 1 /\ y = b - 1 /\ y - x + 1 = b - 1 - a
      OBVIOUS
    <2>2. \A k \in x..y : s[k] \in T
      BY <1>1, <2>1
    <2>3. x <= y + 1
      BY <2>1
    <2>4. Len(SubSeq(s, x, y)) = y - x + 1
      BY <2>2, <2>3, SubSeqProperties
    <2>5. \A k \in 1..y-x+1 : SubSeq(s, x, y)[k] = s[x + k - 1]
      BY <2>2, <2>3, SubSeqProperties
    <2>6. ASSUME NEW k \in 1..b-1-a PROVE p[k] = s[a + k]
      <3>1. k \in 1..y-x+1 /\ x + k - 1 = a + k
        BY <2>1
      <3>2. PICK z : z = x + k - 1
        OBVIOUS
      <3> QED BY <1>1, <2>1, <2>5, <3>1
    <2> QED BY <1>1, <2>1, <2>4, <2>6
  <1>3. ASSUME a >= 1, Len(p) = 1, p[1] = e PROVE Alone(s, b, e, delim)
    <2>0. b - 1 - a = 1
      BY <1>2, <1>3
    <2>1. b - 2 = a /\ b - 1 = a + 1 /\ b >= 3 /\ 1 \in 1..b-1-a
      BY <1>3, <2>0
    <2> QED BY <1>2, <1>3, <2>1 DEF Alone
  <1>4. ASSUME Alone(s, b, e, delim) PROVE a >= 1 /\ Len(p) = 1 /\ p[1] = e
    <2>1. b >= 3 /\ s[b - 1] = e /\ s[b - 2] = delim
      BY <1>4 DEF Alone
    <2>2. ~(b - 2 \in a+1..b-1)
      BY <2>1
    <2>3. a >= b - 2
      BY <2>2
    <2>4. a # b - 1
      <3> SUFFICES ASSUME a = b - 1 PROVE FALSE
        OBVIOUS
      <3>1. a >= 1
        BY <2>1
      <3> QED BY <2>1, <3>1
    <2>5. a = b - 2 /\ b - 1 - a = 1 /\ a + 1 = b - 1 /\ 1 \in 1..b-1-a /\ a >= 1
      BY <2>1, <2>3, <2>4
    <2>6. Len(p) = 1 /\ p[1] = s[a + 1]
      BY <1>2, <2>5
    <2> QED BY <2>1, <2>5, <2>6
  <1> QED BY <1>1, <1>3, <1>4 DEF Behind

\* A piece after the first that is e alone.
Single(v, j, e) == j > 1 /\ Len(v[j]) = 1 /\ v[j][1] = e

\* It stands between two dots, or behind one at the end.
LEMMA OnePiece ==
    ASSUME NEW T, NEW s \in Seq(T), NEW n \in Nat, n = Len(s), NEW delim, NEW v,
           NEW m \in Nat, m = Len(v), NEW d, Pieces(s, n, delim, v, d),
           NEW j \in 1..m, NEW b \in Int, b = d[j], NEW e, e # delim
    PROVE  Single(v, j, e) <=> Alone(s, b, e, delim)
  <1>1. /\ j - 1 \in 0..m /\ j \in 0..m
    OBVIOUS
  <1>2. /\ d[j - 1] \in 0..n+1 /\ d[j] \in 0..n+1 /\ d[j - 1] < d[j]
        /\ v[j] = SubSeq(s, d[j - 1] + 1, d[j] - 1)
        /\ \A x \in d[j - 1]+1..d[j]-1 : s[x] # delim
        /\ d[0] = 0
    BY <1>1 DEF Pieces
  <1>3. PICK a, c : a = d[j - 1] /\ c = d[j]
    OBVIOUS
  <1>8. /\ a \in Nat /\ c \in Nat /\ a < c /\ c <= n + 1
        /\ v[j] = SubSeq(s, a + 1, c - 1) /\ \A x \in a+1..c-1 : s[x] # delim
    BY <1>2, <1>3
  <1>4. j > 1 => (a >= 1 /\ s[a] = delim)
    <2> SUFFICES ASSUME j > 1 PROVE a >= 1 /\ s[a] = delim
      OBVIOUS
    <2>1. PICK k \in 1..m : k = j - 1 /\ k # m
      OBVIOUS
    <2>2. k - 1 \in 0..m
      OBVIOUS
    <2>3. d[k - 1] \in 0..n+1 /\ d[k - 1] < d[k] /\ s[d[k]] = delim
      BY <2>1, <2>2 DEF Pieces
    <2> QED BY <1>3, <1>8, <2>1, <2>3
  <1>5. a >= 1 => j > 1
    <2>1. j = 1 => j - 1 = 0
      OBVIOUS
    <2> QED BY <1>2, <1>3, <2>1
  <1>7. (a >= 1 /\ Len(v[j]) = 1 /\ v[j][1] = e) <=> Alone(s, c, e, delim)
    <2>1. a >= 1 => s[a] = delim
      BY <1>4, <1>5
    <2>2. PICK p : p = v[j]
      OBVIOUS
    <2>3. p = SubSeq(s, a + 1, c - 1)
      BY <1>8, <2>2
    <2>4. Behind(a, p, e) <=> Alone(s, c, e, delim)
      BY <1>8, <2>1, <2>3, OneBetween
    <2> QED BY <1>8, <2>2, <2>4 DEF Behind
  <1> QED BY <1>3, <1>4, <1>5, <1>7 DEF Single

\* A name ends with e, or with e and a '.'.
HasEnd(s, e) == IsSuffix(<<".", e>>, s) \/ IsSuffix(<<".", e, ".">>, s)

\* What comes last in a name, and what comes in front of a dot at its end.
LEMMA EndIsAlone ==
    ASSUME NEW T, NEW s \in Seq(T), "." \in T, NEW n \in Nat, n = Len(s), NEW e \in T
    PROVE  /\ IsSuffix(<<".", e>>, s) <=> Alone(s, n + 1, e, ".")
           /\ IsSuffix(<<".", e, ".">>, s) <=> (Alone(s, n, e, ".") /\ s[n] = ".")
  <1>1. PICK a, b : a = <<".", e>> /\ b = <<".", e, ".">>
    OBVIOUS
  <1>2. /\ a \in Seq(T) /\ Len(a) = 2 /\ a[1] = "." /\ a[2] = e
        /\ b \in Seq(T) /\ Len(b) = 3 /\ b[1] = "." /\ b[2] = e /\ b[3] = "."
    BY <1>1
  <1>3. 2 \in Nat /\ 3 \in Nat
    OBVIOUS
  <1>4. IsSuffix(a, s) <=> EndsLike(a, 2, s, n)
    BY <1>2, <1>3, SuffixIs
  <1>5. IsSuffix(b, s) <=> EndsLike(b, 3, s, n)
    BY <1>2, <1>3, SuffixIs
  <1>6. EndsLike(a, 2, s, n) <=> n >= 2 /\ s[n - 1] = "." /\ s[n] = e
    <2>1. /\ n - 2 + 1 = n - 1 /\ n - 2 + 2 = n /\ (2 <= n <=> n >= 2) /\ 1..2 = {1, 2}
      OBVIOUS
    <2> QED BY <1>2, <2>1 DEF EndsLike
  <1>7. EndsLike(b, 3, s, n) <=> n >= 3 /\ s[n - 2] = "." /\ s[n - 1] = e /\ s[n] = "."
    <2>1. /\ n - 3 + 1 = n - 2 /\ n - 3 + 2 = n - 1 /\ n - 3 + 3 = n /\ (3 <= n <=> n >= 3)
          /\ 1..3 = {1, 2, 3}
      OBVIOUS
    <2> QED BY <1>2, <2>1 DEF EndsLike
  <1>8. Alone(s, n + 1, e, ".") <=> n >= 2 /\ s[n - 1] = "." /\ s[n] = e
    <2>1. n + 1 - 1 = n /\ n + 1 - 2 = n - 1 /\ (n + 1 >= 3 <=> n >= 2)
      OBVIOUS
    <2> QED BY <2>1 DEF Alone
  <1>9. Alone(s, n, e, ".") <=> n >= 3 /\ s[n - 2] = "." /\ s[n - 1] = e
    BY DEF Alone
  <1> QED BY <1>1, <1>4, <1>5, <1>6, <1>7, <1>8, <1>9

\* guessMIMEType finds the extension that the name ends with.
LEMMA ExtensionIs ==
    ASSUME NEW T, {"."} \cup DOMAIN MIMETypeOf \subseteq T, NEW s \in Seq(T), s # <<>>
    PROVE  /\ Extension(s) \in DOMAIN MIMETypeOf \cup {NoExtension}
           /\ \A e \in DOMAIN MIMETypeOf : Extension(s) = e <=> HasEnd(s, e)
  <1>1. PICK n \in Nat : n = Len(s) /\ n > 0 /\ \A k \in 1..n : s[k] \in T
    BY EmptySeq, ElementOfSeq
  <1>20. PICK v \in PieceSeqs(T) : \E d : /\ Pieces(s, n, ".", v, d)
                                         /\ Split(s, ".") = IF Last(v) = <<>> THEN Front(v) ELSE v
    BY <1>1, SplitIs
  <1>2. PICK d : /\ Pieces(s, n, ".", v, d)
                 /\ Split(s, ".") = IF Last(v) = <<>> THEN Front(v) ELSE v
    BY <1>20
  <1>3. PICK P \in Seq(Seq(T)), l \in Seq(T) : v = Append(P, l)
    BY PartsEnd
  <1>4. PICK m \in Nat : m = Len(P)
    BY LenProperties
  <1>5. Len(v) = m + 1 /\ v[m + 1] = l /\ Last(v) = l /\ Front(v) = P /\ \A k \in 1..m : v[k] = P[k]
    BY <1>3, <1>4, EndIs, AppendProperties
  <1>6. d[m + 1] = n + 1 /\ d[m] \in 0..n+1 /\ (m = 0 => d[m] = 0)
    BY <1>2, <1>4, <1>5 DEF Pieces
  <1>7. m > 0 => s[d[m]] = "."
    <2> SUFFICES ASSUME m > 0 PROVE s[d[m]] = "."
      OBVIOUS
    <2>1. m \in 1..m+1 /\ m # m + 1
      BY <1>4
    <2> QED BY <1>2, <1>5, <2>1 DEF Pieces
  <1>8. /\ d[m] < n + 1 /\ Len(l) = n - d[m]
        /\ \A x \in d[m]+1..n : s[x] # "."
    <2>1. PICK k \in 1..m+1 : k = m + 1 /\ k - 1 = m
      BY <1>4
    <2>2. /\ d[k - 1] < d[k] /\ v[k] = SubSeq(s, d[k - 1] + 1, d[k] - 1)
          /\ \A x \in d[k - 1]+1..d[k]-1 : s[x] # "."
      BY <1>2, <1>5, <2>1 DEF Pieces
    <2>3. PICK a \in Nat : a = d[m]
      BY <1>6
    <2>4. n + 1 - 1 = n
      OBVIOUS
    <2>5. /\ l = SubSeq(s, a + 1, n) /\ a < n + 1
          /\ \A x \in a+1..n : s[x] # "."
      <3>1. d[k - 1] = a /\ d[k] = n + 1 /\ d[k] - 1 = n /\ v[k] = l
        <4>1. d[k - 1] = a /\ d[k] = n + 1 /\ v[k] = l
          BY <1>5, <1>6, <2>1, <2>3
        <4> QED BY <2>4, <4>1
      <3>2. PICK b : b = d[k - 1]
        OBVIOUS
      <3> QED BY ONLY <2>2, <3>1, Zenon
    <2>6. Len(SubSeq(s, a + 1, n)) = n - a
      <3>1. \A x \in a+1..n : s[x] \in T
        BY <1>1, <2>3
      <3> QED BY <2>3, <2>5, <3>1, SubSeqProperties
    <2> QED BY <2>3, <2>5, <2>6
  <1>9. ASSUME NEW e \in DOMAIN MIMETypeOf
        PROVE  e \in T /\ e # "." /\ e # NoExtension
    BY DEF MIMETypeOf, NoExtension
  <1>10. CASE l # <<>>
    <2>1. Split(s, ".") = v
      BY <1>2, <1>5, <1>10
    <2>2. d[m] < n /\ s[n] # "."
      BY <1>1, <1>6, <1>8, <1>10, EmptySeq
    <2>3. Extension(s) = IF m + 1 > 1 /\ Len(l) = 1 /\ l[1] \in DOMAIN MIMETypeOf THEN l[1]
                         ELSE NoExtension
      BY <1>5, <2>1 DEF Extension
    <2>4. ASSUME NEW e \in DOMAIN MIMETypeOf
          PROVE  m + 1 > 1 /\ Len(l) = 1 /\ l[1] = e <=> Alone(s, n + 1, e, ".")
      <3>1. PICK j, b : j = m + 1 /\ b = n + 1
        OBVIOUS
      <3>2. j \in Nat /\ j = Len(v) /\ j \in 1..j /\ b \in Int /\ b = d[j] /\ e # "."
        BY <1>4, <1>5, <1>6, <1>9, <3>1
      <3>3. j > 1 /\ Len(v[j]) = 1 /\ v[j][1] = e <=> Alone(s, b, e, ".")
        <4>1. Single(v, j, e) <=> Alone(s, b, e, ".")
          BY <1>1, <1>2, <3>2, OnePiece
        <4> QED BY <4>1 DEF Single
      <3> QED BY <1>5, <3>1, <3>3
    <2>5. ASSUME NEW e \in DOMAIN MIMETypeOf
          PROVE  HasEnd(s, e) <=> Alone(s, n + 1, e, ".")
      BY <1>1, <1>9, <2>2, EndIsAlone DEF HasEnd
    <2> QED BY <1>9, <2>3, <2>4, <2>5
  <1>11. CASE l = <<>>
    <2>1. Split(s, ".") = P
      BY <1>2, <1>5, <1>11
    <2>2. d[m] = n /\ m > 0 /\ s[n] = "."
      BY <1>1, <1>4, <1>6, <1>7, <1>8, <1>11, EmptySeq
    <2>3. Last(P) = v[m] /\ m \in 1..m
      BY <1>4, <1>5, <2>2 DEF Last
    <2>4. Extension(s) = IF m > 1 /\ Len(v[m]) = 1 /\ v[m][1] \in DOMAIN MIMETypeOf THEN v[m][1]
                         ELSE NoExtension
      BY <1>4, <2>1, <2>3 DEF Extension
    <2>5. ASSUME NEW e \in DOMAIN MIMETypeOf
          PROVE  m > 1 /\ Len(v[m]) = 1 /\ v[m][1] = e <=> Alone(s, n, e, ".")
      <3>1. PICK q \in Nat : q = m + 1
        OBVIOUS
      <3>2. q = Len(v) /\ m \in 1..q /\ n \in Int /\ n = d[m] /\ e # "."
        BY <1>5, <1>9, <2>2, <3>1
      <3>3. Single(v, m, e) <=> Alone(s, n, e, ".")
        BY <1>1, <1>2, <3>2, OnePiece
      <3> QED BY <3>3 DEF Single
    <2>6. ASSUME NEW e \in DOMAIN MIMETypeOf
          PROVE  HasEnd(s, e) <=> Alone(s, n, e, ".")
      <3>1. ~Alone(s, n + 1, e, ".")
        <4>1. n + 1 - 1 = n
          OBVIOUS
        <4> QED BY <1>9, <2>2, <4>1 DEF Alone
      <3> QED BY <1>1, <1>9, <2>2, <3>1, EndIsAlone DEF HasEnd
    <2> QED BY <1>9, <2>4, <2>5, <2>6
  <1> QED BY <1>10, <1>11

-----------------------------------------------------------------------------
(* Files *)

\* A handler for files was made from a statement of the file.
LEMMA MadeFrom ==
    ASSUME MemoryInv, ServeInv, config \in Configs, LoadsIffValid, LoadedAsConfigured,
           pc = "loaded", handler # 0, heap[handler].type = "StaticHandler"
    PROVE  \E c \in DOMAIN config : \E p :
               /\ config[c].tokens[1] \in {"path", "default"}
               /\ StaticInit(config[c].block) = "OK"
               /\ heap[handler] = Handler("StaticHandler", p, config[c].block)
               /\ IsSequence(p) /\ IsPrefix(p, req.uri_)
  <1>1. ValidConfig
    BY DEF LoadsIffValid
  <1>2. Len(config) \in Nat /\ DOMAIN config = 1..Len(config)
    BY OptionsAssumption
  <1>3. \A t, q, block : Handler(t, q, block).type = t
    BY DEF Handler
  <1>4. ASSUME NEW c \in DOMAIN config, config[c].tokens[1] \in {"path", "default"},
               NEW t, t = "StaticHandler",
               config[c].tokens[1] = "path" => t = config[c].tokens[3],
               config[c].tokens[1] = "default" => t = config[c].tokens[2]
        PROVE  StaticInit(config[c].block) = "OK"
    <2>1. WellFormed(config[c])
      BY <1>1 DEF ValidConfig
    <2>2. HandlerStatus(t, config[c]) = "OK"
      BY <1>4, <2>1 DEF WellFormed
    <2>3. InitStatus(t, config[c].block) = "OK"
      BY <1>4, <2>2 DEF HandlerStatus, HandlerTypes
    <2> QED BY <1>4, <2>3 DEF InitStatus
  <1>5. PICK p : /\ IsPrefix(p, req.uri_)
                 /\ \/ p = <<>> /\ handler = defaultHandler
                    \/ p \in DOMAIN handlerMap /\ handler = handlerMap[p]
    BY HandlerIsThere
  <1>6. CASE p \in DOMAIN handlerMap /\ handler = handlerMap[p]
    <2> DEFINE S == For("path", p)  c == Max(S)
    <2>1. p \in HandlerPaths
      BY <1>6 DEF LoadedAsConfigured
    <2>2. S \subseteq 0..Len(config) /\ S # {}
      BY <1>2, <2>1 DEF HandlerPaths, Paths, For, Named
    <2>3. c \in S
      <3> HIDE DEF S
      <3> QED BY <1>2, <2>2, MaxIn
    <2>4. c \in DOMAIN config /\ config[c].tokens[1] = "path"
      <3> HIDE DEF c
      <3> QED BY <2>3 DEF For, Named
    <2>5. heap[handler] = Handler(config[c].tokens[3], p, config[c].block)
      BY <1>6, <2>1 DEF LoadedAsConfigured, LastOf
    <2> HIDE DEF c, S
    <2>6. config[c].tokens[3] = "StaticHandler"
      BY <1>3, <2>5
    <2>7. StaticInit(config[c].block) = "OK"
      BY <1>4, <2>4, <2>6
    <2>8. IsSequence(p)
      BY <1>1, <2>1, PathsAre DEF HandlerPaths
    <2> QED BY <1>5, <2>4, <2>5, <2>6, <2>7, <2>8
  <1>7. CASE p = <<>> /\ handler = defaultHandler
    <2> DEFINE S == Defaults  c == Max(S)
    <2>1. heap[handler] = IF S = {} THEN NotFound
                          ELSE Handler(Last(LastOf(S).tokens), <<>>, LastOf(S).block)
      BY <1>7 DEF LoadedAsConfigured
    <2>2. S # {}
      <3> SUFFICES ASSUME S = {} PROVE FALSE
        OBVIOUS
      <3>1. heap[handler] = Handler("NotFoundHandler", <<>>, <<>>)
        BY <2>1 DEF NotFound
      <3>2. heap[handler].type = "NotFoundHandler"
        BY <1>3, <3>1
      <3> QED BY <3>2
    <2>3. S \subseteq 0..Len(config)
      BY <1>2 DEF Defaults, For, Named
    <2>4. c \in S
      <3> HIDE DEF S
      <3> QED BY <1>2, <2>2, <2>3, MaxIn
    <2>5. c \in DOMAIN config /\ config[c].tokens[1] \in {"path", "default"}
      <3> HIDE DEF c
      <3> QED BY <2>4 DEF Defaults, For, Named
    <2>6. heap[handler] = Handler(Last(config[c].tokens), <<>>, config[c].block)
      BY <2>1, <2>2 DEF LastOf
    <2> HIDE DEF c, S
    <2>7. Last(config[c].tokens) = "StaticHandler"
      BY <1>3, <2>6
    <2>8. WellFormed(config[c])
      BY <1>1, <2>5 DEF ValidConfig
    <2>9. /\ config[c].tokens[1] = "path" => Last(config[c].tokens) = config[c].tokens[3]
          /\ config[c].tokens[1] = "default" => Last(config[c].tokens) = config[c].tokens[2]
      BY <2>5, <2>8 DEF WellFormed, Last
    <2>10. StaticInit(config[c].block) = "OK"
      BY <1>4, <2>5, <2>7, <2>9
    <2>11. PICK e : e = <<>>
      OBVIOUS
    <2>12. IsSequence(e)
      BY <2>11 DEF IsSequence
    <2> QED BY <1>5, <1>7, <2>5, <2>6, <2>7, <2>10, <2>11, <2>12
  <1> QED BY <1>5, <1>6, <1>7

\* Its root is a sequence.
LEMMA RootIs ==
    ASSUME config \in Configs, NEW c \in DOMAIN config,
           config[c].tokens[1] \in {"path", "default"}, StaticInit(config[c].block) = "OK"
    PROVE  IsSequence(FileBase(config[c].block))
  <1>1. PICK block : block = config[c].block
    OBVIOUS
  <1>2. PICK n \in Nat : n = Len(block) /\ DOMAIN block = 1..n
    BY <1>1, OptionsAssumption
  <1>3. \A k \in 1..n : Len(block[k]) = 2
    BY <1>1, <1>2 DEF StaticInit
  <1>4. \A k \in 1..n : block[k][1] = "root" => IsSequence(block[k][2])
    BY <1>1, <1>2, <1>3, ServerAssumption
  <1> DEFINE I == {k \in 1..n : block[k][1] = "root"}  x == IF I # {} THEN Max(I) ELSE 0
  <1>5. FileBase(block) = IF x = 0 THEN <<>> ELSE block[x][2]
    BY <1>2 DEF FileBase, SelectLastInSeq
  <1>6. CASE I = {}
    <2>1. PICK e : e = <<>>
      OBVIOUS
    <2>2. IsSequence(e)
      BY <2>1 DEF IsSequence
    <2> QED BY <1>1, <1>5, <1>6, <2>1, <2>2
  <1>7. CASE I # {}
    <2>1. I \subseteq 0..n
      OBVIOUS
    <2>2. Max(I) \in I
      <3> HIDE DEF I
      <3> QED BY <1>7, <2>1, MaxIn
    <2>3. x = Max(I)
      BY <1>7
    <2>4. x \in 1..n /\ block[x][1] = "root"
      <3> HIDE DEF x
      <3> QED BY <2>2, <2>3
    <2> HIDE DEF x
    <2> QED BY <1>1, <1>4, <1>5, <2>4
  <1> QED BY <1>6, <1>7

\* What stands for the rest of the URI under a root, with what was there.
Target(base, rest, where) ==
    LET want == Parts(base) \o Steps(rest) IN
    IF want \in DOMAIN where /\ where[want] = Directory
    THEN Append(want, <<"index", ".", "html">>) ELSE want

\* It is what the look at the directory leads to.
LEMMA TargetIs ==
    ASSUME NEW T, {"/", "index", ".", "html"} \subseteq T,
           NEW base \in Seq(T), base # <<>>, NEW rest \in Seq(T),
           NEW q, q = Rooted(rest),
           NEW where, NEW name \in FilePaths(base, q), NEW f, f = LookUp(where, name)
    PROVE  f \in Seq(T) /\ f # <<>> /\ Parts(f) = Target(base, rest, where)
  <1>1. /\ Parts(name) = Parts(base) \o Steps(rest)
        /\ name \in Seq(T) /\ name # <<>>
    BY PartsOfPath
  <1>2. /\ Parts(IndexOf(name)) = Append(Parts(name), <<"index", ".", "html">>)
        /\ IndexOf(name) \in Seq(T) /\ IndexOf(name) # <<>>
    BY <1>1, PartsOfIndex
  <1>3. At(where, name) = Directory <=>
            Parts(name) \in DOMAIN where /\ where[Parts(name)] = Directory
    BY DEF At, Directory
  <1>4. CASE At(where, name) = Directory
    <2>1. f = IndexOf(name)
      BY <1>4 DEF LookUp
    <2> QED BY <1>1, <1>2, <1>3, <1>4, <2>1 DEF Target
  <1>5. CASE At(where, name) # Directory
    <2>1. f = name
      BY <1>5 DEF LookUp
    <2> QED BY <1>1, <1>3, <1>5, <2>1 DEF Target
  <1> QED BY <1>4, <1>5

\* The extension of a name can be told from its last part.
LEMMA ExtensionOfPart ==
    ASSUME NEW T, {"."} \cup DOMAIN MIMETypeOf \subseteq T, NEW f \in Seq(T), f # <<>>,
           Last(f) # "/", NEW e \in DOMAIN MIMETypeOf
    PROVE  Extension(f) = e <=> HasEnd(Last(Parts(f)), e)
  <1>1. PICK l \in Seq(T) : l = Last(Parts(f)) /\ Tailing(f, Len(f), l)
    BY LastPart
  <1>2. e \in T /\ e # "/" /\ "." \in T
    BY DEF MIMETypeOf
  <1>3. PICK a, b : a = <<".", e>> /\ b = <<".", e, ".">>
    OBVIOUS
  <1>4. a \in Seq(T) /\ \A j \in 1..Len(a) : a[j] # "/"
    <2>1. a \in Seq(T) /\ Len(a) = 2 /\ a[1] = "." /\ a[2] = e
      BY <1>2, <1>3
    <2>2. 1..2 = {1, 2}
      OBVIOUS
    <2> QED BY <1>2, <2>1, <2>2
  <1>5. b \in Seq(T) /\ \A j \in 1..Len(b) : b[j] # "/"
    <2>1. b \in Seq(T) /\ Len(b) = 3 /\ b[1] = "." /\ b[2] = e /\ b[3] = "."
      BY <1>2, <1>3
    <2>2. 1..3 = {1, 2, 3}
      OBVIOUS
    <2> QED BY <1>2, <2>1, <2>2
  <1>6. IsSuffix(a, f) <=> IsSuffix(a, l)
    BY <1>1, <1>4, SuffixOfPart
  <1>7. IsSuffix(b, f) <=> IsSuffix(b, l)
    BY <1>1, <1>5, SuffixOfPart
  <1>8. HasEnd(f, e) <=> HasEnd(l, e)
    BY <1>3, <1>6, <1>7 DEF HasEnd
  <1>9. Extension(f) = e <=> HasEnd(f, e)
    BY ExtensionIs
  <1> QED BY <1>1, <1>8, <1>9

\* The name that a StaticHandler opens, with an alphabet for all names.
LEMMA FileIs ==
    ASSUME MemoryInv, ServeInv, config \in Configs, LoadsIffValid, LoadedAsConfigured,
           pc = "loaded", handler # 0, heap[handler].type = "StaticHandler",
           heap[handler].filebase # <<>>, Looked
    PROVE  \E T : /\ {"."} \cup DOMAIN MIMETypeOf \subseteq T
                  /\ file \in Seq(T) /\ file # <<>>
                  /\ Parts(file) = Target(heap[handler].filebase,
                                          SubSeq(req.uri_, Len(heap[handler].path_) + 1, Len(req.uri_)),
                                          seen)
  <1>1. PICK base, path, uri : /\ base = heap[handler].filebase /\ path = heap[handler].path_
                               /\ uri = req.uri_
    OBVIOUS
  <1>2. PICK c \in DOMAIN config : \E p :
               /\ config[c].tokens[1] \in {"path", "default"}
               /\ StaticInit(config[c].block) = "OK"
               /\ heap[handler] = Handler("StaticHandler", p, config[c].block)
               /\ IsSequence(p) /\ IsPrefix(p, req.uri_)
    BY MadeFrom
  <1>3. IsSequence(path) /\ IsPrefix(path, uri) /\ IsSequence(base)
    <2>1. PICK p : /\ config[c].tokens[1] \in {"path", "default"}
                   /\ StaticInit(config[c].block) = "OK"
                   /\ heap[handler] = Handler("StaticHandler", p, config[c].block)
                   /\ IsSequence(p) /\ IsPrefix(p, req.uri_)
      BY <1>2
    <2>2. path = p /\ base = FileBase(config[c].block)
      BY <1>1, <2>1 DEF Handler
    <2>3. IsSequence(base)
      BY <2>1, <2>2, RootIs
    <2> QED BY <1>1, <2>1, <2>2, <2>3
  <1>4. IsSequence(uri)
    BY <1>1, HandlerIsThere
  <1>5. PICK A : base \in Seq(A)
    BY <1>3, SequenceIsSeq
  <1>6. PICK B : uri \in Seq(B)
    BY <1>4, SequenceIsSeq
  <1>7. PICK T : T = {"/", "index", ".", "html"} \cup DOMAIN MIMETypeOf \cup A \cup B
    OBVIOUS
  <1>8. base \in Seq(T) /\ uri \in Seq(T) /\ {"/", "index", ".", "html"} \subseteq T
        /\ {"."} \cup DOMAIN MIMETypeOf \subseteq T
    <2>1. A \subseteq T /\ B \subseteq T /\ {"/", "index", ".", "html"} \subseteq T
          /\ {"."} \cup DOMAIN MIMETypeOf \subseteq T
      BY <1>7
    <2>2. \A k \in 1..Len(base) : base[k] \in T
      BY <1>5, <2>1, ElementOfSeq
    <2>3. \A k \in 1..Len(uri) : uri[k] \in T
      BY <1>6, <2>1, ElementOfSeq
    <2>4. base \in Seq(T)
      BY <1>3, <2>2, IsASeq DEF IsSequence
    <2>5. uri \in Seq(T)
      BY <1>4, <2>3, IsASeq DEF IsSequence
    <2> QED BY <2>1, <2>4, <2>5
  <1>9. PICK n \in Nat, m \in Nat : m = Len(path) /\ n = Len(uri) /\ m <= n
    BY <1>3, <1>4 DEF IsSequence, IsPrefix
  <1>10. PICK rest \in Seq(T) : rest = SubSeq(uri, m + 1, n)
    <2>0. m + 1 \in Int /\ n \in Int /\ m + 1 <= n + 1
      BY <1>9
    <2>4. PICK x, y : x = m + 1 /\ y = n
      OBVIOUS
    <2>1. x \in Int /\ y \in Int /\ x = m + 1 /\ y = n /\ x <= y + 1
      BY <2>0, <2>4
    <2>2. \A k \in x..y : uri[k] \in T
      BY <1>8, <1>9, <2>1, ElementOfSeq
    <2>3. SubSeq(uri, x, y) \in Seq(T)
      BY <2>1, <2>2, SubSeqProperties
    <2> QED BY <2>1, <2>3
  <1>11. PICK q : q = Rooted(rest)
    OBVIOUS
  <1>12. ReqPath(req.uri_, heap[handler].path_) = q
    BY <1>1, <1>9, <1>10, <1>11 DEF ReqPath, Rooted
  <1>13. PICK name \in FilePaths(base, q) : file = LookUp(seen, name)
    BY <1>1, <1>12 DEF Looked
  <1>14. file \in Seq(T) /\ file # <<>> /\ Parts(file) = Target(base, rest, seen)
    <2>1. base # <<>>
      BY <1>1
    <2>2. PICK f : f = file
      OBVIOUS
    <2> QED BY <1>8, <1>11, <1>13, <2>1, <2>2, TargetIs
  <1> QED BY <1>1, <1>8, <1>9, <1>10, <1>14

\* What a StaticHandler answers is the file that is there, as it is.
LEMMA StaticHolds ==
    MemoryInv /\ ServeInv /\ AnswerInv /\ LoadsIffValid /\ LoadedAsConfigured /\ config \in Configs
        => StaticServes
  <1> DEFINE h     == heap[handler]
             rest  == SubSeq(req.uri_, Len(h.path_) + 1, Len(req.uri_))
             want  == Parts(h.filebase) \o Steps(rest)
             f     == IF want \in DOMAIN seen /\ seen[want] = Directory
                      THEN Append(want, <<"index", ".", "html">>) ELSE want
             ext   == {e \in DOMAIN MIMETypeOf :
                         IsSuffix(<<".", e>>, Last(f)) \/ IsSuffix(<<".", e, ".">>, Last(f))}
             there == f \in DOMAIN site /\ site[f] # Directory
             html  == ext = {"md"} /\ h.markdown
             content == Open(site, file)
             convert == h.markdown /\ Extension(file) = "md"
  <1> SUFFICES ASSUME MemoryInv, ServeInv, AnswerInv, LoadsIffValid, LoadedAsConfigured,
                      config \in Configs, pc = "loaded", stage = "answered", handler # 0,
                      h.type = "StaticHandler", h.filebase # <<>>
               PROVE  CASE resp.code = 404 -> ~there \/ Last(file) = "/"
                        [] resp.code = 500 -> there /\ site[f] \in {"", "blank"}
                                              /\ ext = {"md"} /\ h.markdown
                        [] resp.code = 200 ->
                              /\ there
                              /\ resp.body[3] = IF html THEN "html" ELSE site[f]
                              /\ html => resp.mime = "text/html"
                              /\ ~html => \A e \in ext : resp.mime = MIMETypeOf[e]
                              /\ ext = {} => resp.mime = "text/plain"
                        [] OTHER -> FALSE
    BY DEF StaticServes
  <1>1. Looked /\ Opened
    BY DEF AnswerInv, Replied
  <1>2. PICK T : /\ {"."} \cup DOMAIN MIMETypeOf \subseteq T
                 /\ file \in Seq(T) /\ file # <<>>
                 /\ Parts(file) = Target(h.filebase, rest, seen)
    BY <1>1, FileIs
  <1>3. Parts(file) = f
    BY <1>2 DEF Target
  <1>4. site \in Sites
    BY <1>1 DEF Looked
  <1> HIDE DEF h, rest, want, f
  <1>5. /\ content = "none" => ~there \/ Last(file) = "/"
        /\ content # "none" /\ content # Directory =>
               there /\ content = site[f] /\ Last(file) # "/"
    <2>1. At(site, file) = IF f \in DOMAIN site THEN site[f] ELSE "none"
      BY <1>3 DEF At
    <2>2. f \in DOMAIN site => site[f] # "none"
      BY <1>4, ServerAssumption
    <2>3. content = IF At(site, file) \in {"none", Directory} \/ Last(file) # "/"
                    THEN At(site, file) ELSE "none"
      BY DEF Open
    <2> HIDE DEF content
    <2> QED BY <2>1, <2>2, <2>3
  <1>6. ASSUME Last(file) # "/"
        PROVE  /\ \A e \in DOMAIN MIMETypeOf : e \in ext <=> Extension(file) = e
               /\ Extension(file) \in DOMAIN MIMETypeOf \cup {NoExtension}
    <2>1. ASSUME NEW e \in DOMAIN MIMETypeOf PROVE e \in ext <=> Extension(file) = e
      BY <1>2, <1>3, <1>6, ExtensionOfPart DEF HasEnd
    <2> QED BY <1>2, <2>1, ExtensionIs
  <1>7. ext \subseteq DOMAIN MIMETypeOf
    OBVIOUS
  <1>8. ASSUME Last(file) # "/"
        PROVE  /\ ext = {"md"} <=> Extension(file) = "md"
               /\ \A e \in ext : MIMEType(file) = MIMETypeOf[e]
               /\ ext = {} => MIMEType(file) = "text/plain"
    <2>1. "md" \in DOMAIN MIMETypeOf /\ NoExtension \notin DOMAIN MIMETypeOf
      BY DEF MIMETypeOf, NoExtension
    <2>2. PICK x : x = Extension(file)
      OBVIOUS
    <2>3. /\ \A e \in DOMAIN MIMETypeOf : e \in ext <=> x = e
          /\ x \in DOMAIN MIMETypeOf \cup {NoExtension}
      BY <1>6, <1>8, <2>2
    <2>4. MIMEType(file) = IF x = NoExtension THEN "text/plain" ELSE MIMETypeOf[x]
      BY <2>2 DEF MIMEType
    <2>5. \A e \in ext : e = x
      BY <1>7, <2>3
    <2> HIDE DEF ext
    <2>6. ext = {"md"} <=> x = "md"
      BY <1>7, <2>1, <2>3, <2>5
    <2>7. \A e \in ext : MIMEType(file) = MIMETypeOf[e]
      BY <1>7, <2>1, <2>4, <2>5
    <2>8. ext = {} => x = NoExtension
      BY <2>3
    <2> QED BY <2>2, <2>4, <2>6, <2>7, <2>8
  <1>9. /\ content # Directory
        /\ content = "none" => resp = Reply(404, "text/plain", <<"404_Not_Found">>)
        /\ content # "none" /\ ~convert =>
               resp = Reply(200, MIMEType(file), <<"file", file, content>>)
        /\ content # "none" /\ convert =>
               resp = IF ConvertMarkdownToHtml(content) = "" THEN Reply(500, "", <<>>)
                      ELSE Reply(200, "text/html",
                                 <<"file", file, ConvertMarkdownToHtml(content)>>)
    BY <1>1 DEF Opened, h
  <1> HIDE DEF ext, there, content, convert
  <1>10. CASE content = "none"
    <2>1. resp.code = 404
      BY <1>9, <1>10 DEF Reply
    <2> QED BY <1>5, <1>10, <2>1
  <1>11. CASE content # "none" /\ ~convert
    <2>1. resp = Reply(200, MIMEType(file), <<"file", file, content>>)
      BY <1>9, <1>11
    <2>2. resp.code = 200 /\ resp.mime = MIMEType(file) /\ resp.body[3] = content
      BY <2>1 DEF Reply
    <2>3. there /\ content = site[f] /\ Last(file) # "/"
      BY <1>5, <1>9, <1>11
    <2>4. ~html
      BY <1>8, <1>11, <2>3 DEF convert
    <2>5. (\A e \in ext : resp.mime = MIMETypeOf[e]) /\ (ext = {} => resp.mime = "text/plain")
      BY <1>8, <2>2, <2>3
    <2> QED BY <2>2, <2>3, <2>4, <2>5
  <1>12. CASE content # "none" /\ convert
    <2>1. there /\ content = site[f] /\ Last(file) # "/"
      BY <1>5, <1>9, <1>12
    <2>2. ext = {"md"} /\ h.markdown
      BY <1>8, <1>12, <2>1 DEF convert
    <2>3. CASE content \in {"", "blank"}
      <3>1. ConvertMarkdownToHtml(content) = ""
        BY <2>3 DEF ConvertMarkdownToHtml
      <3>2. resp = Reply(500, "", <<>>)
        BY <1>9, <1>12, <3>1
      <3>3. resp.code = 500
        BY <3>2 DEF Reply
      <3>4. site[f] \in {"", "blank"}
        BY <2>1, <2>3, Zenon
      <3>5. there /\ site[f] \in {"", "blank"} /\ ext = {"md"} /\ h.markdown
        BY <2>1, <2>2, <3>4, Zenon
      <3>6. resp.code # 404 /\ resp.code # 200
        BY <3>3
      <3> HIDE DEF html
      <3> QED BY ONLY <3>3, <3>5, <3>6
    <2>4. CASE content \notin {"", "blank"}
      <3>1. ConvertMarkdownToHtml(content) = "html"
        BY <2>4 DEF ConvertMarkdownToHtml
      <3>2. resp = Reply(200, "text/html", <<"file", file, "html">>)
        BY <1>9, <1>12, <3>1
      <3>3. resp.code = 200 /\ resp.mime = "text/html" /\ resp.body[3] = "html"
        BY <3>2 DEF Reply
      <3>4. ext # {}
        BY <2>2
      <3> QED BY <2>1, <2>2, <3>3, <3>4
    <2> QED BY <2>3, <2>4
  <1> QED BY <1>10, <1>11, <1>12

-----------------------------------------------------------------------------
(* The theorems *)

\* What the server loads, and how, is what Options does (options.cc:125-230): the
\* theorems about it hold here too.
THEOREM ServerLoads == SpecAll => Spec
  <1>1. InitAll => Init
    BY DEF InitAll
  <1> QED BY <1>1, NextIsNext, PTL DEF SpecAll, Spec

\* The inductive invariant: what is loaded, what was made of the request, and
\* that an answer is the one of the handler.
LEMMA Inductive == SpecAll => [](MemoryInv /\ ServeInv /\ AnswerInv)
  <1>1. InitAll => MemoryInv /\ ServeInv /\ AnswerInv
    <2>1. InitAll => MemoryInv /\ ServeInv
      BY InitMemory, InitServe DEF InitAll
    <2>2. InitAll => AnswerInv
      BY DEF InitAll, AnswerInv
    <2> QED BY <2>1, <2>2
  <1>2. MemoryInv /\ ServeInv /\ AnswerInv /\ [NextAll]_allvars
            => (MemoryInv /\ ServeInv /\ AnswerInv)'
    BY NextIsNext, NextMemory, NextServe, NextAnswer
  <1> QED BY <1>1, <1>2, PTL DEF SpecAll

\* A response has a code only from the list, and what is sent always one with a
\* text, the realm of a challenge is one that was loaded and a handler one that
\* was created (webserver.cc:23-51), for any files and requests.
THEOREM Typing == SpecAll => []TypeOK
  BY Inductive, TypeHolds, PTL

\* A handler is only given URIs that begin with the path it was initialised with
\* (webserver.cc:13-21, static_handler.cc:49, proxy_handler.cc:59), for any files
\* and requests, and it was not deleted.
THEOREM HandlersGetTheirPrefix == SpecAll => []HandlerGetsItsPrefix
  BY Inductive, PrefixHolds, ServerLoads, PointersAreLive, LoadsWhatIsConfigured, PTL

\* What EchoHandler sends back is the request, line by line (webserver.cc:79-99,
\* request.cc:13-99), for texts of any length and any mixture of line ends.
THEOREM EchoesTheRequest == SpecAll => []EchoIsRequest
  BY Inductive, EchoHolds, PTL

\* An answer is the one that the file asks for: a challenge exactly where the
\* longest realm does not admit the client (authenticate.cc:7-57), else that of the
\* handler with the longest path (webserver.cc:13-51), for any files, users,
\* passwords and requests.
THEOREM AnswersRight == SpecAll => []RightAnswer
  <1>1. Init => LoadInv
    BY DEF Init, LoadInv, LoadsIffValid
  <1>2. LoadInv => config \in Configs
    BY DEF LoadInv
  <1> QED BY <1>1, <1>2, NextLoad, Inductive, RightHolds, ServerLoads, LoadsTheValid, LoadsWhatIsConfigured,
             PTL DEF Spec

\* A file that is sent is the one under the root that the rest of the URI names, or
\* the index of the directory it names, whole and with the type of its extension,
\* and a 404 means that there is none (static_handler.cc:45-106, fileLoader.cc:40-80),
\* for any roots, URIs and files, whatever happens to them on the way.
THEOREM FilesAreServed == SpecAll => []StaticServes
  <1>1. Init => LoadInv
    BY DEF Init, LoadInv, LoadsIffValid
  <1>2. LoadInv => config \in Configs
    BY DEF LoadInv
  <1> QED BY <1>1, <1>2, NextLoad, Inductive, StaticHolds, ServerLoads, LoadsTheValid, LoadsWhatIsConfigured,
             PTL DEF Spec

=============================================================================
