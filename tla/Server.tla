------------------------------- MODULE Server -------------------------------
(***************************************************************************)
(* One request, from the client's text to the answer, on what Options has  *)
(* loaded: processConnection reads lines, Request::Parse takes them apart, *)
(* Authentication looks for a realm, matchRequestWithHandler for a handler *)
(* (webserver.cc, request.cc, authenticate.cc), and the handler answers.   *)
(* Webserver has the workers that do this at the same time; here one of    *)
(* them is followed through the data.                                      *)
(*                                                                         *)
(* A text is a request line and lines; a line is                           *)
(*     [key, value, colon, bare]                                           *)
(* where value is what split() gives for it, colon tells whether there is  *)
(* a ':' in it and bare whether it ends with "\n" alone.  The files under  *)
(* the roots are external, and may change while one is looked for.         *)
(***************************************************************************)
EXTENDS Options

CONSTANTS
    Requests,   \* the texts a client may send, in a sequence
    Sites       \* states of the file system: name -> content, or Directory

\* A path that is configured, a root, a user, a password, a URI and the lines of a
\* text are sequences; what comes after "Basic" is base64, and "none" is no content.
ASSUME ServerAssumption ==
    /\ \A c \in Configs : \A k \in DOMAIN c :
           /\ c[k].tokens[1] \in {"path", "realm"} /\ Len(c[k].tokens) > 1
                  => IsSequence(c[k].tokens[2])
           /\ c[k].tokens[1] = "realm" =>
                  \A j \in DOMAIN c[k].block :
                      LET b == c[k].block[j] IN
                      Len(b) = 3 /\ b[1] = "credentials" => IsSequence(b[2]) /\ IsSequence(b[3])
           /\ c[k].tokens[1] \in {"path", "default"} =>
                  \A j \in DOMAIN c[k].block :
                      LET b == c[k].block[j] IN
                      Len(b) = 2 /\ b[1] = "root" => IsSequence(b[2])
    /\ \A where \in Sites : \A name \in DOMAIN where : where[name] # "none"
    /\ \A k \in DOMAIN Requests :
           LET r == Requests[k] IN
           /\ IsSequence(r.head.uri) /\ IsSequence(r.lines) /\ r.head.bare \in BOOLEAN
           /\ \A j \in DOMAIN r.lines :
                  LET l == r.lines[j] IN
                  /\ l = [key |-> l.key, value |-> l.value, colon |-> l.colon, bare |-> l.bare]
                  /\ l.colon \in BOOLEAN /\ l.bare \in BOOLEAN
                  /\ l.key = "Authorization" /\ Len(l.value) = 2 /\ l.value[1] = "Basic"
                         => l.value[2] \in Seq(0..Pad)

Blank     == [key |-> "", value |-> <<>>, colon |-> FALSE, bare |-> FALSE]
Directory == "directory"

\* Response::ResponseCode
Codes  == {200, 301, 302, 304, 400, 401, 403, 404, 500}
NoCode == 0    \* a code nobody has set

VARIABLES
    stage,     \* what was done with the request
    request,   \* the text
    req,       \* what Request::Parse has made of it
    handler,   \* the handler it was given to
    file,      \* StaticHandler: the name it opens
    resp,      \* the response
    site,      \* the file system, from the first look at it on
    seen       \* history: the file system when the name was looked at

NoRequest  == [head |-> [tokens |-> 0, uri |-> <<>>, http |-> FALSE, bare |-> FALSE],
               lines |-> <<>>]
NoResponse == [code |-> NoCode, realm |-> <<>>, mime |-> "", body |-> <<>>]
Empty      == [uri_ |-> <<>>, headers_ |-> <<>>, length |-> 0, body_ |-> <<>>]

serving == <<stage, request, req, handler, file, resp, site, seen>>
allvars == <<vars, serving>>

InitAll ==
    /\ Init
    /\ stage = "idle" /\ request = NoRequest /\ req = Empty
    /\ handler = 0 /\ file = <<>> /\ resp = NoResponse
    /\ site = <<>> /\ seen = <<>>

-----------------------------------------------------------------------------
(* Faulty variants of the steps, which the properties must tell apart *)

\* The last chunk is not noticed: what follows the empty line is read too.
LastChunk_Missed(r) == {}

\* The handler of any path is taken.
MatchRequestWithHandler_Any(q) ==
    IF handlerMap = <<>> THEN defaultHandler
    ELSE handlerMap[CHOOSE p \in DOMAIN handlerMap : TRUE]

\* A code without a text is sent.
Answer_Any == stage' = "answered"

\* The directory's own name is opened.
LookUp_NoIndex(where, name) == name

-----------------------------------------------------------------------------
(* processConnection and Request::Parse *)

Bare(r, k) == IF k = 0 THEN r.head.bare ELSE r.lines[k].bare
IsBlank(l) == l.key = "" /\ ~l.colon

\* A chunk is read up to "\r\n"; one of two characters is the last.
LastChunk(r) == {k \in DOMAIN r.lines : IsBlank(r.lines[k]) /\ ~Bare(r, k) /\ ~Bare(r, k - 1)}

\* The number of lines handed on: those of the chunks up to the last one; if
\* the client stops before it, what is left without "\r\n" is lost; -1 when not
\* even the request line is handed on.
LinesRead(r) ==
    LET whole == {k \in 0..Len(r.lines) : ~Bare(r, k)} IN
    IF LastChunk(r) # {} THEN Min(LastChunk(r))
    ELSE IF whole # {} THEN Max(whole) ELSE -1

\* std::strtol, 0 on error
Strtol(value) == IF Len(value) = 1 /\ value[1] \in DOMAIN Number THEN Number[value[1]] ELSE 0

ContentLength(headers) ==
    LET k == SelectLastInSeq(headers, LAMBDA h : h.key = "Content-Length") IN
    IF k = 0 THEN 0 ELSE Strtol(headers[k].value)

\* Request::Parse of the first n lines of r: the line the headers end at (n + 1
\* at the end of the text), and the request, whose body is what is left of the
\* text, filled up with '\0' or cut to the length.
HeadersEnd(r, n) ==
    LET k == SelectInSeq(SubSeq(r.lines, 1, n), LAMBDA l : ~l.colon) IN
    IF k = 0 THEN n + 1 ELSE k

ParsedOf(r, n) ==
    LET m == HeadersEnd(r, n)
        headers == [k \in 1..m-1 |-> [key |-> r.lines[k].key, value |-> r.lines[k].value]]
        length  == ContentLength(headers)
    IN  [uri_ |-> r.head.uri, headers_ |-> headers,
         length |-> IF length > 0 THEN length ELSE 0,
         body_  |-> IF length > 0 THEN SubSeq(r.lines, m + 1, n) ELSE <<>>]

Malformed(r, n) ==
    \/ n < 0 \/ r.head.tokens # 3 \/ ~r.head.http
    \/ LET m == HeadersEnd(r, n) IN m <= n /\ ~IsBlank(r.lines[m])

\* An empty line without '\r': line[line.size()-1] is the character in front of
\* the string, and resize() throws if that is a '\r' by chance.
LooksInFront(r, n) == LET m == HeadersEnd(r, n) IN m <= n /\ r.lines[m].bare

\* Request::raw_request, with the same line ends everywhere.  Of the body,
\* whose lines come after the empty one, as many characters are sent as length
\* says, the missing ones as '\0'.
RawRequest(q) ==
    [head  |-> [tokens |-> 3, uri |-> q.uri_, http |-> TRUE, bare |-> FALSE],
     lines |-> [k \in DOMAIN q.headers_ |->
                  [key |-> q.headers_[k].key, value |-> q.headers_[k].value,
                   colon |-> TRUE, bare |-> FALSE]] \o <<Blank>> \o q.body_,
     length |-> q.length]

-----------------------------------------------------------------------------
(* Authentication *)

Bytes(value) == Split(Decode(value), Colon)

Requires(q) == MapHasPrefix(DOMAIN auth, q.uri_) # <<>>

\* AuthenticationRealm::authenticate
Knows(users, user, pass) == user \in DOMAIN users /\ users[user] = pass

\* requestPassesAuthentication: the first Authorization header decides.
Passes(q) ==
    LET k     == SelectInSeq(q.headers_, LAMBDA h : h.key = "Authorization")
        value == q.headers_[k].value
        realm == MapHasPrefix(DOMAIN auth, q.uri_)
    IN  /\ k # 0 /\ Len(value) = 2 /\ value[1] = "Basic"
        /\ Len(Bytes(value[2])) = 2
        /\ Knows(auth[realm], Bytes(value[2])[1], Bytes(value[2])[2])

-----------------------------------------------------------------------------

RespondWith(code, mime, body) ==
    resp' = [code |-> code, realm |-> <<>>, mime |-> mime, body |-> body]

\* ToString throws when there is no text for the code.
Answer == stage' = IF resp'.code \in Codes THEN "answered" ELSE "dead"

\* processConnection: the client sends a text and waits, or closes.
Receive ==
    /\ pc = "loaded" /\ stage = "idle"
    /\ \E k \in DOMAIN Requests : request' = Requests[k]
    /\ stage' = "read"
    /\ UNCHANGED <<req, handler, file, resp, site, seen>>

\* Request::Parse; for a malformed request the connection is closed.  It may
\* throw where the text says so, or for want of memory for the body.
Parse ==
    LET n == LinesRead(request) IN
    /\ stage = "read"
    /\ \/ /\ Malformed(request, n)
          /\ stage' = "closed" /\ UNCHANGED req
       \/ /\ ~Malformed(request, n)
          /\ stage' = "parsed" /\ req' = ParsedOf(request, n)
       \/ /\ ~Malformed(request, n)
          /\ LooksInFront(request, n) \/ ParsedOf(request, n).length > 0
          /\ stage' = "dead" /\ UNCHANGED req
    /\ UNCHANGED <<request, handler, file, resp, site, seen>>

MatchRequestWithHandler(q) ==
    LET p == MapHasPrefix(DOMAIN handlerMap, q.uri_) IN
    IF p = <<>> THEN defaultHandler ELSE handlerMap[p]

\* generateFailedAuthenticationResponse, with the name of the realm
Challenge(q) ==
    resp' = [code |-> 401, realm |-> MapHasPrefix(DOMAIN auth, q.uri_),
             mime |-> "text/html", body |-> <<"invalid_credentials">>]

\* The beginning of processRawRequest: a challenge or the handler.
Dispatch ==
    /\ stage = "parsed"
    /\ IF Requires(req) /\ ~Passes(req)
       THEN /\ Challenge(req)
            /\ Answer
            /\ UNCHANGED handler
       ELSE /\ handler' = MatchRequestWithHandler(req)
            /\ stage' = "handling"
            /\ UNCHANGED resp
    /\ UNCHANGED <<request, req, file, site, seen>>

Echo(h) ==
    /\ h.type = "EchoHandler"
    /\ RespondWith(200, "text/plain", <<"echo", RawRequest(req)>>)

NotFoundAnswer == RespondWith(404, "text/plain", <<"404_Not_Found">>)

\* usleep(delay_) comes back in the end.
Delay(h) ==
    /\ h.type = "DelayHandler"
    /\ RespondWith(200, "text/plain", <<"Delay_Test">>)

\* The first table of the page; the second is in StatusHandler.
Status(h) ==
    /\ h.type = "StatusHandler"
    /\ RespondWith(200, "text/html",
           <<"table", [p \in DOMAIN handlerMap |-> heap[handlerMap[p]].type],
             heap[defaultHandler].type>>)

\* Whatever the remote host's answer holds, see ProxyHandler.
Proxy(h) ==
    /\ h.type = "ProxyHandler"
    /\ \E code \in Codes \cup {NoCode} : RespondWith(code, "", <<"remote">>)

Handle ==
    LET h == heap[handler] IN
    /\ stage = "handling"
    /\ \/ Echo(h) \/ Delay(h) \/ Status(h) \/ Proxy(h)
       \/ h.type = "NotFoundHandler" /\ NotFoundAnswer
    /\ Answer
    /\ UNCHANGED <<request, req, handler, file, site, seen>>

-----------------------------------------------------------------------------
(* StaticHandler *)

\* The parts of a name, with "/" in front of an absolute one, and what is there.
AddToSteps(v, c) == IF c = "/" /\ Last(v) = <<>> THEN v ELSE AddToPieces(v, c, "/")
Steps(name)     ==
    LET v == FoldLeft(AddToSteps, << <<>> >>, name) IN IF Last(v) = <<>> THEN Front(v) ELSE v
Parts(name)     == IF name # <<>> /\ name[1] = "/" THEN << <<"/">> >> \o Steps(name)
                   ELSE Steps(name)
At(where, name) == IF Parts(name) \in DOMAIN where THEN where[Parts(name)] ELSE "none"
Open(where, name) ==
    IF At(where, name) \in {"none", Directory} \/ Last(name) # "/" THEN At(where, name)
    ELSE "none"

\* boost::filesystem::is_directory
LookUp(where, name) == IF At(where, name) = Directory THEN IndexOf(name) ELSE name

Find ==
    LET h == heap[handler] IN
    /\ stage = "handling" /\ h.type = "StaticHandler"
    /\ site' \in Sites /\ seen' = site'
    /\ \E name \in FilePaths(h.filebase, ReqPath(req.uri_, h.path_)) :
           file' = LookUp(site', name)
    /\ stage' = "found"
    /\ UNCHANGED <<request, req, handler, resp>>

\* The file system changes while the name is not opened yet.
Change ==
    /\ stage = "found"
    /\ site' \in Sites \ {site}
    /\ seen = site
    /\ UNCHANGED <<stage, request, req, handler, file, resp, seen>>

\* doc.read and doc.write: blank lines and references of links are dropped, so
\* of a file that holds nothing else nothing is left.
ConvertMarkdownToHtml(content) == IF content \in {"", "blank"} THEN "" ELSE "html"

\* openFile tells a missing file only; reading a directory throws.
Serve ==
    LET content == Open(site, file)
        convert == heap[handler].markdown /\ Extension(file) = "md"
    IN
    /\ stage = "found"
    /\ IF content = Directory THEN stage' = "dead" /\ UNCHANGED resp
       ELSE /\ CASE content = "none" -> NotFoundAnswer
                 [] content # "none" /\ ~convert ->
                        RespondWith(200, MIMEType(file), <<"file", file, content>>)
                 [] content # "none" /\ convert ->
                        IF ConvertMarkdownToHtml(content) = "" THEN RespondWith(500, "", <<>>)
                        ELSE RespondWith(200, "text/html",
                                 <<"file", file, ConvertMarkdownToHtml(content)>>)
            /\ Answer
    /\ UNCHANGED <<request, req, handler, file, site, seen>>

-----------------------------------------------------------------------------

NextAll ==
    \/ (Load \/ Statement \/ Finish) /\ UNCHANGED serving
    \/ stage \in {"idle", "answered", "closed", "dead"} /\ Return /\ UNCHANGED serving
    \/ (Receive \/ Parse \/ Dispatch \/ Handle \/ Find \/ Change \/ Serve) /\ UNCHANGED vars

SpecAll == InitAll /\ [][NextAll]_allvars

-----------------------------------------------------------------------------
(* Properties *)

TypeOK ==
    /\ pc \in {"main", "load", "loaded", "failed", "terminated", "undefined", "returned"}
    /\ stage \in {"idle", "read", "parsed", "handling", "found", "answered", "closed", "dead"}
    /\ port = 0 \/ port \in MIN_PORT..MAX_PORT
    /\ thread \in 1..MAX_THREADS
    /\ freed \subseteq DOMAIN heap /\ defaultHandler \in {0} \cup DOMAIN heap
    /\ handler \in {0} \cup DOMAIN heap
    /\ resp.code \in Codes \cup {NoCode} /\ resp.realm \in {<<>>} \cup DOMAIN auth
    /\ stage = "answered" => resp.code \in Codes

\* The headers a client has sent, up to the first empty line.
Sent == LET k == SelectInSeq(request.lines, IsBlank) IN
        IF k = 0 THEN request.lines ELSE SubSeq(request.lines, 1, k - 1)

\* Line k comes before the last "\r\n": the rest is lost (webserver.cc:83-99).
Arrived(k) == \E j \in k..Len(request.lines) : ~request.lines[j].bare

\* The request carries, in its first Authorization header, the name and the
\* password of a user of the realm: what the digits denote is the two with a ':'
\* between, and perhaps one at the end.  split() makes the exceptions: a name or
\* a password with a ':' is never recognised, and an empty password only with
\* the ':' at the end.
Admitted(p) ==
    LET block == LastOf(For("realm", p)).block
        h     == SelectInSeq(Sent, LAMBDA l : l.key = "Authorization")
        value == request.lines[h].value
    IN  /\ h # 0 /\ Arrived(h) /\ Len(value) = 2 /\ value[1] = "Basic"
        /\ \E k \in DOMAIN block :
               LET user == block[k][2]  pass == block[k][3] IN
               /\ block[k][1] = "credentials"
               /\ \A j \in k+1..Len(block) :
                      block[j][1] = "credentials" => block[j][2] # user
               /\ Colon \notin Range(user \o pass)
               /\ LET sent == Denoted(value[2])  both == user \o <<Colon>> \o pass IN
                  sent = Append(both, Colon) \/ (pass # <<>> /\ sent = both)

\* An answer is what the configuration file says of the URI: a challenge if the
\* longest realm around it does not admit the client (and naming that realm),
\* else the answer of the handler with the longest path, or of the default; and
\* the page of the status handler lists what the file lists.
RightAnswer ==
    LET uri   == request.head.uri
        realm == Longest(Paths("realm"), uri)
        path  == Longest(HandlerPaths, uri)
        type  == IF path # <<>> THEN LastOf(For("path", path)).tokens[3]
                 ELSE IF Defaults # {} THEN Last(LastOf(Defaults).tokens)
                 ELSE "NotFoundHandler"
    IN  pc = "loaded" /\ stage = "answered" =>
        IF realm # <<>> /\ ~Admitted(realm)
        THEN resp.code = 401 /\ resp.realm = realm
        ELSE /\ handler # 0 /\ heap[handler].type = type
             /\ type \in {"EchoHandler", "DelayHandler", "StatusHandler"} => resp.code = 200
             /\ type = "NotFoundHandler" => resp.code = 404
             /\ type # "ProxyHandler" => resp.code # 401
             /\ type = "StatusHandler" =>
                    resp.body[2] = [p \in HandlerPaths |-> LastOf(For("path", p)).tokens[3]]

\* A handler is only given URIs that begin with the path it was initialised
\* with, so the substr() calls on them do not throw (static_handler.cc:49,
\* proxy_handler.cc:59), whatever other paths the file has.
HandlerGetsItsPrefix ==
    pc = "loaded" /\ handler # 0 =>
        IsPrefix(heap[handler].path_, req.uri_) /\ handler \notin freed

\* What EchoHandler sends back is the request: the same URI, every header in
\* order up to the empty line, and of the body only the length: unless a bare
\* "\n" ended the headers, none of the client's bytes are in it, since
\* processConnection stops reading at the empty line (webserver.cc:89).  Only
\* what comes after the last "\r\n" is missing.
EchoIsRequest ==
    LET echo == resp.body[2]  n == Len(Sent) IN
    stage = "answered" /\ resp.body # <<>> /\ resp.body[1] = "echo" =>
        /\ echo.head.uri = request.head.uri
        /\ \A k \in DOMAIN request.lines : ~request.lines[k].bare =>
               (k \in DOMAIN Sent => echo.lines[k] = request.lines[k])
        /\ Arrived(n + 1) =>
               /\ echo.lines[n + 1] = Blank
               /\ ~request.lines[n + 1].bare /\ ~Bare(request, n) => Len(echo.lines) = n + 1

\* A file that is sent is the one under the root that the rest of the URI
\* names, whole, or the index of the directory it names; its type is that of
\* its extension, which split() also sees in front of one '.' at the end; a 404
\* means that there is no such file, or that the name that was opened ends with
\* a '/' (it named no directory when it was looked at), and a 500 that there is
\* nothing in a markdown file but blank lines and references.  This holds
\* although the file system may change between the look at the directory and
\* the opening (static_handler.cc:58, 70).  A name that became a directory
\* meanwhile is not answered: reading it throws.
StaticServes ==
    LET h    == heap[handler]
        rest == SubSeq(req.uri_, Len(h.path_) + 1, Len(req.uri_))
        want == Parts(h.filebase) \o Steps(rest)
        f    == IF want \in DOMAIN seen /\ seen[want] = Directory
                THEN Append(want, <<"index", ".", "html">>) ELSE want
        ext  == {e \in DOMAIN MIMETypeOf :
                    IsSuffix(<<".", e>>, Last(f)) \/ IsSuffix(<<".", e, ".">>, Last(f))}
        there == f \in DOMAIN site /\ site[f] # Directory
    IN  pc = "loaded" /\ stage = "answered" /\ handler # 0 /\ h.type = "StaticHandler"
        /\ h.filebase # <<>> =>
        CASE resp.code = 404 -> ~there \/ Last(file) = "/"
          [] resp.code = 500 -> there /\ site[f] \in {"", "blank"} /\ ext = {"md"} /\ h.markdown
          [] resp.code = 200 ->
                /\ there
                /\ LET html == ext = {"md"} /\ h.markdown IN
                   /\ resp.body[3] = IF html THEN "html" ELSE site[f]
                   /\ html => resp.mime = "text/html"
                   /\ ~html => \A e \in ext : resp.mime = MIMETypeOf[e]
                   /\ ext = {} => resp.mime = "text/plain"
          [] OTHER -> FALSE

=============================================================================
