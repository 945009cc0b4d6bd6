------------------------------ MODULE Handlers ------------------------------
(***************************************************************************)
(* What the request handlers keep and compute: which types are registered, *)
(* what their Init makes of a block of the configuration, and the file and *)
(* the type that StaticHandler finds for a request (static_handler.cc,     *)
(* fileLoader.cc).  A block is a sequence of statements, each a sequence   *)
(* of tokens.  The proxy is only initialised here, see ProxyHandler.       *)
(***************************************************************************)
EXTENDS Strings

CONSTANT Number   \* Number[w]: what std::stoi makes of w; it throws for others

ASSUME HandlersAssumption == \A w \in DOMAIN Number : Number[w] \in Int

\* REGISTER_REQUEST_HANDLER, once in the header of each handler
HandlerTypes == {"EchoHandler", "NotFoundHandler", "DelayHandler", "StatusHandler",
                 "StaticHandler", "ProxyHandler"}

-----------------------------------------------------------------------------
(* Init: OK, Error, an exception, or undefined behaviour *)

\* StaticHandler takes a root and at most one convert_markdown, of two tokens.
StaticInit(block) ==
    IF \A k \in DOMAIN block :
           /\ Len(block[k]) = 2
           /\ \/ block[k][1] = "root"
              \/ block[k][1] = "convert_markdown"
                 /\ \A j \in 1..k-1 : block[j][1] # "convert_markdown"
    THEN "OK" ELSE "Error"

\* DelayHandler ignores what has not two tokens, and ends at the first other.
DelayInit(block) ==
    LET bad(s) == Len(s) = 2 /\ (s[1] # "delay" \/ s[2] \notin DOMAIN Number)
        k      == SelectInSeq(block, bad)
    IN  IF k = 0 THEN "OK" ELSE IF block[k][1] = "delay" THEN "throws" ELSE "Error"

\* ProxyHandler looks at the second token of two statements without a test.
ProxyInit(block) ==
    IF Len(block) >= 2 /\ Len(block[1]) >= 2 /\ Len(block[2]) >= 2
    THEN "OK" ELSE "undefined"

InitStatus(type, block) ==
    CASE type = "StaticHandler" -> StaticInit(block)
      [] type = "DelayHandler"  -> DelayInit(block)
      [] type = "ProxyHandler"  -> ProxyInit(block)
      [] OTHER                  -> "OK"

\* filebase_: the last root, empty if there is none.
FileBase(block) ==
    LET k == SelectLastInSeq(block, LAMBDA s : s[1] = "root") IN
    IF k = 0 THEN <<>> ELSE block[k][2]

\* convert_markdown_
ConvertMarkdown(block) ==
    \E k \in DOMAIN block : block[k][1] = "convert_markdown" /\ block[k][2] = "true"

\* CreateByName(type) and Init(path, block).  A StaticHandler has a handler of
\* its own for the files it does not find: the next one on the heap.
Handler(type, path, block) ==
    [type     |-> type,
     path_    |-> path,
     filebase |-> IF type = "StaticHandler" THEN FileBase(block) ELSE <<>>,
     markdown |-> type = "StaticHandler" /\ ConvertMarkdown(block)]

NotFound == Handler("NotFoundHandler", <<>>, <<>>)

New(type, path, block) ==
    IF type = "StaticHandler" THEN <<Handler(type, path, block), NotFound>>
    ELSE <<Handler(type, path, block)>>

-----------------------------------------------------------------------------
(* Files *)

\* req.uri().substr(path_.size()), with a slash in front.  substr() throws if
\* path_ is longer, which cannot happen: see HandlerGetsItsPrefix.
ReqPath(uri, path) ==
    LET rest == SubSeq(uri, Len(path) + 1, Len(uri)) IN
    IF rest # <<>> /\ rest[1] = "/" THEN rest ELSE <<"/">> \o rest

\* The names that may be opened: without a root, the character in front of the
\* empty filebase_ is looked at, which may be anything.
FilePaths(base, reqPath) ==
    LET joined == base \o reqPath  relative == base \o Tail(reqPath) IN
    IF base = <<>> THEN {joined, relative}
    ELSE IF Last(base) = "/" THEN {relative} ELSE {joined}

\* What is looked for in a directory.
IndexOf(name) == (IF Last(name) = "/" THEN name ELSE Append(name, "/"))
                     \o <<"index", ".", "html">>

MIMETypeOf == [gif |-> "image/gif", png |-> "image/png", jpeg |-> "image/jpeg",
               jpg |-> "image/jpeg", html |-> "text/html", htm |-> "text/html",
               css |-> "text/css", js |-> "text/javascript", md |-> "text/plain",
               txt |-> "text/plain"]
NoExtension == "none"

\* guessMIMEType: the extension, if it is a known one.
Extension(name) ==
    LET nameParts == Split(name, ".")  ext == Last(nameParts) IN
    IF Len(nameParts) > 1 /\ Len(ext) = 1 /\ ext[1] \in DOMAIN MIMETypeOf
    THEN ext[1] ELSE NoExtension

\* MIMETypeMap.at(mt)
MIMEType(name) == IF Extension(name) = NoExtension THEN "text/plain"
                  ELSE MIMETypeOf[Extension(name)]

=============================================================================
