------------------------------ MODULE Options ------------------------------
(***************************************************************************)
(* Loading the configuration (options.cc) as main() does it: the parsed    *)
(* file is gone through statement by statement, handlers are created and   *)
(* put into a map by raw pointers, and ~Options deletes what it finds in   *)
(* the map when main() returns.  A file is a sequence of statements        *)
(*     [tokens, child, block]                                              *)
(* as ConfigParser gives it: no statement is without a token, and child    *)
(* tells whether there is a block at all (child_block_ is not null).       *)
(***************************************************************************)
EXTENDS Handlers, FiniteSets

CONSTANT Configs   \* the files that are tried

ASSUME OptionsAssumption ==
    \A c \in Configs :
        /\ Len(c) \in Nat /\ DOMAIN c = 1..Len(c)
        /\ \A k \in DOMAIN c :
               /\ c[k].tokens # <<>> /\ c[k].child \in BOOLEAN
               /\ Len(c[k].block) \in Nat /\ DOMAIN c[k].block = 1..Len(c[k].block)

MAX_PORT == 65535
MIN_PORT == 1024
MAX_THREADS == 2000
DEFAULT_NUM_THREADS == 8

VARIABLES
    config,          \* the file
    pc,              \* main(); load: in the loop over the statements
    i,               \* the statement
    port, thread,
    issetPort, issetThread,
    handlerMap,      \* path -> handler
    defaultHandler,  \* a handler, 0 for nullptr
    auth,            \* path -> (user -> password): the realms of *auth
    heap,            \* the handlers ever created; a pointer is an index
    freed            \* those that were deleted

options == <<port, thread, handlerMap, defaultHandler, auth>>
memory  == <<heap, freed>>
isset   == <<issetPort, issetThread>>
vars    == <<config, pc, i, options, memory, isset>>

Init ==
    /\ config \in Configs
    /\ pc = "main" /\ i = 0
    /\ port = 0 /\ thread = DEFAULT_NUM_THREADS
    /\ issetPort = FALSE /\ issetThread = FALSE
    /\ handlerMap = <<>> /\ defaultHandler = 0 /\ auth = <<>>
    /\ heap = <<>> /\ freed = {}

-----------------------------------------------------------------------------
(* Faulty variants of the steps, which the properties must tell apart *)

\* The handler is put into the map before Init is asked.
Keep_Early(status) == status \in {"OK", "Error"}

\* A later statement for the same path is ignored.
Put_First(map, path, x) == map @@ (path :> x)

\* Only a second number of threads is noticed.
NumberStatus_Twice(s, isset_, min, max) ==
    CASE Len(s.tokens) # 2                -> "failed"
      [] s.tokens[2] \notin DOMAIN Number -> "terminated"
      [] OTHER -> IF Number[s.tokens[2]] \in min..max THEN "load" ELSE "failed"

-----------------------------------------------------------------------------

\* The cast to unsigned int: a negative number becomes larger than any bound.
Unsigned(n) == IF n < 0 THEN 2147483647 ELSE n

\* The statement is done, or the load ends as pc' says.
GoOn(how) == pc' = how /\ i' = IF how = "load" THEN i + 1 ELSE i

\* addPort and addThread, for a statement of two tokens.
NumberStatus(s, isset_, min, max) ==
    CASE isset_ \/ Len(s.tokens) # 2         -> "failed"
      [] s.tokens[2] \notin DOMAIN Number    -> "terminated"
      [] OTHER -> IF Unsigned(Number[s.tokens[2]]) \in min..max THEN "load" ELSE "failed"

AddPort(s) ==
    LET status == NumberStatus(s, issetPort, MIN_PORT, MAX_PORT) IN
    /\ s.tokens[1] = "port"
    /\ GoOn(status)
    /\ issetPort' = (issetPort \/ status = "load")
    /\ port' = IF status = "load" THEN Number[s.tokens[2]] ELSE port
    /\ UNCHANGED <<thread, handlerMap, defaultHandler, auth, memory, issetThread>>

AddThread(s) ==
    LET status == NumberStatus(s, issetThread, 1, MAX_THREADS) IN
    /\ s.tokens[1] = "threads"
    /\ GoOn(status)
    /\ issetThread' = (issetThread \/ status = "load")
    /\ thread' = IF status = "load" THEN Number[s.tokens[2]] ELSE thread
    /\ UNCHANGED <<port, handlerMap, defaultHandler, auth, memory, issetPort>>

\* map[path] = x
Put(map, path, x) == [p \in {path} \cup DOMAIN map |-> IF p = path THEN x ELSE map[p]]

Keep(status) == status = "OK"

\* Whether `delete handler` is undefined: the destructor of a StaticHandler
\* deletes a pointer that a failed Init has not set, unless it is null by chance.
DeleteMayFail(type) == type = "StaticHandler"

\* Whether Init looks at its block; the others do well without one, as the
\* null reference they get is never followed.
ReadsBlock(type) == type \in {"StaticHandler", "DelayHandler", "ProxyHandler"}

HandlerStatus(type, s) ==
    CASE type \notin HandlerTypes      -> "Error"
      [] ReadsBlock(type) /\ ~s.child  -> "undefined"
      [] OTHER                         -> InitStatus(type, s.block)

\* addHandler with the block of s, and how the load goes on.
AddHandler(type, path, s) ==
    LET h == Len(heap) + 1  status == HandlerStatus(type, s) IN
    /\ heap'  = IF type \notin HandlerTypes THEN heap
                ELSE IF status = "OK" THEN heap \o New(type, path, s.block)
                ELSE Append(heap, Handler(type, path, <<>>))
    /\ freed' = IF type \in HandlerTypes /\ status = "Error" THEN freed \cup {h} ELSE freed
    /\ handlerMap' = IF Keep(status) /\ path # <<>> THEN Put(handlerMap, path, h)
                     ELSE handlerMap
    /\ defaultHandler' = IF Keep(status) /\ path = <<>> THEN h ELSE defaultHandler
    /\ \/ status = "OK"        /\ GoOn("load")
       \/ status = "Error"     /\ GoOn("failed")
       \/ status = "Error"     /\ DeleteMayFail(type) /\ GoOn("undefined")
       \/ status = "throws"    /\ GoOn("terminated")
       \/ status = "undefined" /\ GoOn("undefined")
    /\ UNCHANGED <<port, thread, auth, isset>>

Refuse == GoOn("failed") /\ UNCHANGED <<options, memory, isset>>

AddPath(s) ==
    /\ s.tokens[1] = "path"
    /\ IF Len(s.tokens) # 3 THEN Refuse ELSE AddHandler(s.tokens[3], s.tokens[2], s)

AddDefaultHandler(s) ==
    /\ s.tokens[1] = "default"
    /\ IF Len(s.tokens) # 2 THEN Refuse ELSE AddHandler(s.tokens[2], <<>>, s)

\* The users of a realm: the last credentials of each; statements of three
\* tokens that are no credentials are skipped.
AuthMap(block) ==
    FoldLeft(LAMBDA map, s : IF s[1] = "credentials" THEN Put(map, s[2], s[3]) ELSE map,
             <<>>, block)

AddAuthenticationRealm(s) ==
    /\ s.tokens[1] = "realm"
    /\ \/ Len(s.tokens) # 2 /\ Refuse
       \/ Len(s.tokens) = 2 /\ ~s.child /\ GoOn("undefined")
          /\ UNCHANGED <<options, memory, isset>>
       \/ /\ Len(s.tokens) = 2 /\ s.child
          /\ IF \A k \in DOMAIN s.block : Len(s.block[k]) = 3
             THEN GoOn("load") /\ auth' = Put(auth, s.tokens[2], AuthMap(s.block))
             ELSE GoOn("failed") /\ UNCHANGED auth
          /\ UNCHANGED <<port, thread, handlerMap, defaultHandler, memory, isset>>

Specifiers == {"port", "threads", "path", "default", "realm"}

\* A statement of one token is unknown too.
UnknownSpecifier(s) == (Len(s.tokens) = 1 \/ s.tokens[1] \notin Specifiers) /\ Refuse

-----------------------------------------------------------------------------

\* loadOptionsFromFile: the file may not be there, or not be valid.
Load ==
    /\ pc = "main"
    /\ \/ pc' = "load" /\ i' = 1
       \/ pc' = "failed" /\ UNCHANGED i
    /\ UNCHANGED <<config, options, memory, isset>>

Statement ==
    LET s == config[i] IN
    /\ pc = "load" /\ i <= Len(config)
    /\ \/ UnknownSpecifier(s)
       \/ Len(s.tokens) > 1 /\ (\/ AddPort(s) \/ AddThread(s) \/ AddPath(s)
                                \/ AddDefaultHandler(s) \/ AddAuthenticationRealm(s))
    /\ UNCHANGED config

\* After the last statement.
Finish ==
    /\ pc = "load" /\ i > Len(config)
    /\ IF ~issetPort THEN pc' = "failed" /\ UNCHANGED <<options, memory, issetThread>>
       ELSE /\ pc' = "loaded"
            /\ thread' = IF issetThread THEN thread ELSE DEFAULT_NUM_THREADS
            /\ issetThread' = TRUE
            /\ IF defaultHandler # 0 THEN UNCHANGED <<defaultHandler, heap>>
               ELSE /\ heap' = Append(heap, NotFound)
                    /\ defaultHandler' = Len(heap')
            /\ UNCHANGED <<port, handlerMap, auth, freed>>
    /\ UNCHANGED <<config, i, issetPort>>

\* What ~Options deletes, and the handlers of the StaticHandlers among them.
Deleted == LET h == Range(handlerMap) IN
           h \cup {x + 1 : x \in {y \in h : heap[y].type = "StaticHandler"}}

\* main() returns, with 1 after a failure, or when run() has returned.
Return ==
    /\ pc \in {"failed", "loaded"}
    /\ pc' = "returned"
    /\ freed' = freed \cup Deleted
    /\ UNCHANGED <<config, i, options, heap, isset>>

Next == Load \/ Statement \/ Finish \/ Return

Spec == Init /\ [][Next]_vars

-----------------------------------------------------------------------------
(* Properties *)

\* The statements of one kind, by their places, and those of a path.
Named(key) == {k \in DOMAIN config : config[k].tokens[1] = key}
For(key, path) == {k \in Named(key) : config[k].tokens[2] = path}
Paths(key) == {config[k].tokens[2] : k \in Named(key)}
LastOf(S) == config[Max(S)]

\* The paths of handlers, and the statements for the default handler: a path ""
\* is one of them.
HandlerPaths == Paths("path") \ {<<>>}
Defaults == Named("default") \cup For("path", <<>>)

InRange(s, min, max) == s.tokens[2] \in DOMAIN Number /\ Number[s.tokens[2]] \in min..max

\* What a statement must be like, whatever comes before it.
WellFormed(s) ==
    LET n == Len(s.tokens) IN
    CASE s.tokens[1] = "port"    -> n = 2 /\ InRange(s, MIN_PORT, MAX_PORT)
      [] s.tokens[1] = "threads" -> n = 2 /\ InRange(s, 1, MAX_THREADS)
      [] s.tokens[1] = "path"    -> n = 3 /\ HandlerStatus(s.tokens[3], s) = "OK"
      [] s.tokens[1] = "default" -> n = 2 /\ HandlerStatus(s.tokens[2], s) = "OK"
      [] s.tokens[1] = "realm"   -> n = 2 /\ s.child
                                    /\ \A k \in DOMAIN s.block : Len(s.block[k]) = 3
      [] OTHER -> FALSE

ValidConfig ==
    /\ Cardinality(Named("port")) = 1 /\ Cardinality(Named("threads")) <= 1
    /\ \A k \in DOMAIN config : WellFormed(config[k])

\* A statement the code ends the process at, instead of reporting it: a number
\* that is none, a realm without its block, or one of the handlers that read
\* their block and do not find what they expect in it.
Deadly(s) ==
    \/ s.tokens[1] \in {"port", "threads"} /\ s.tokens[2] \notin DOMAIN Number
    \/ s.tokens[1] = "realm" /\ ~s.child
    \/ s.tokens[1] \in {"path", "default"}
       /\ ReadsBlock(Last(s.tokens)) /\ HandlerStatus(Last(s.tokens), s) # "OK"

\* A file is loaded exactly if it is valid, in whatever order its statements
\* come and however often one of them occurs (options.cc:131-205); the process
\* ends without a report only at one of the statements that Deadly names.
LoadsIffValid ==
    /\ pc = "loaded" => ValidConfig
    /\ pc \in {"undefined", "terminated"} => ~ValidConfig /\ Deadly(config[i])
    /\ pc = "failed" /\ i > 0 => ~ValidConfig

\* What was loaded is what the file says: of several statements for a path the
\* last one counts, for handlers and for realms, and what is not given is 8
\* threads and a NotFoundHandler.
LoadedAsConfigured ==
    pc = "loaded" =>
        /\ \A k \in Named("port") : port = Number[config[k].tokens[2]]
        /\ IF Named("threads") = {} THEN thread = DEFAULT_NUM_THREADS
           ELSE \A k \in Named("threads") : thread = Number[config[k].tokens[2]]
        /\ DOMAIN handlerMap = HandlerPaths
        /\ \A p \in HandlerPaths :
               LET s == LastOf(For("path", p)) IN
               heap[handlerMap[p]] = Handler(s.tokens[3], p, s.block)
        /\ heap[defaultHandler] =
               IF Defaults = {} THEN NotFound
               ELSE LET s == LastOf(Defaults) IN Handler(Last(s.tokens), <<>>, s.block)
        /\ DOMAIN auth = Paths("realm")
        /\ \A p \in Paths("realm") :
               LET b == LastOf(For("realm", p)).block
                   of(u) == {k \in DOMAIN b : b[k][1] = "credentials" /\ b[k][2] = u} IN
               /\ DOMAIN auth[p] = {b[k][2] : k \in {j \in DOMAIN b : b[j][1] = "credentials"}}
               /\ \A u \in DOMAIN auth[p] : auth[p][u] = b[Max(of(u))][3]

\* The pointers that main() and ~Options go through never lead to a handler
\* that was deleted, and no two of them to the same one, so nothing is deleted
\* twice (options.cc:38-46, 222-230).
PointersLive ==
    pc # "returned" =>
        /\ (Range(handlerMap) \cup {defaultHandler}) \cap freed = {}
        /\ IsInjective(handlerMap) /\ defaultHandler \notin Range(handlerMap)
        /\ Range(handlerMap) \subseteq DOMAIN heap

\* "handler is owned by Options" (options.cc:30): when Options is gone, so are
\* all handlers.
HandlersOwned == pc = "returned" => freed = DOMAIN heap

=============================================================================
