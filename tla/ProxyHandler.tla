---------------------------- MODULE ProxyHandler ----------------------------
(***************************************************************************)
(* The reverse proxy handler (proxy_handler.cc) with the blocking client   *)
(* it owns (sync_client.cc).  One ProxyHandler object serves every worker  *)
(* thread: a mutex mtx_ is meant to make a call of HandleRequest exclusive *)
(* from its first line to its return, because the object keeps a single    *)
(* socket and the state of a redirect (redirect_, redirect_host_,          *)
(* redirect_uri_, uri_prefix_) in its fields.  A redirect is followed by   *)
(* HandleRequest calling itself with redirect_ set, in which case the      *)
(* inner call skips the lock.                                              *)
(*                                                                         *)
(* A step of a thread is the code between two accesses to shared state.    *)
(* A URI is [prefixed, path]: does it still start with the mount point of  *)
(* the handler, and what follows.  The remote hosts are the environment:   *)
(* Behaviours[h] is what a host may do to a connection.                    *)
(***************************************************************************)
EXTENDS Naturals, FiniteSets

CONSTANTS
    Threads,      \* worker threads of the server that call the handler
    NoThread,     \* owner of a free mutex
    Hosts,        \* hosts a connection can be opened to
    NoHost,       \* the empty host name
    NoSuchHost,   \* what is taken for a host name but is none, as "https:"
    RemoteHost,   \* the host the configuration names
    Paths,        \* what may follow the mount point in a URI
    Mounted,      \* TRUE: a "path" handler; FALSE: a "default" one, prefix ""
    Behaviours    \* Behaviours[h]: what host h may answer, or how it fails

\* The ways a host can treat a connection.
\*   refused     every endpoint refuses: Connect returns false
\*   unresolved  the name does not resolve: resolve() throws
\*   reset       the peer is gone when the request is written: write() throws
\*   short       not all of the request is taken: Write returns false
\*   broken      bytes come together with an error: Read returns false
\*   silent      the peer never closes: Read blocks for ever
\*   garbage     nothing, or no status number: std::stoi throws
\*   cut         ends before the empty line: the header loop does not end
\*   cutRedirect the same, after a Location that names a host and a path
\*   page        an answer that is not a redirect
\*   sameHost    301/302 with a Location that starts with '/'
\*   otherHost   301/302 with a Location that names a host and a path
\*   badHost     the same with another scheme or with a port: of https://h/x
\*               the code makes the host "https:", which never resolves
\*   hostOnly    301/302 with a Location without a path, or with an empty one:
\*               substr(npos) throws
\* A reply with several Location headers is not modelled.
Outcomes == {"refused", "unresolved", "reset", "short", "broken", "silent",
             "garbage", "cut", "page",
             "sameHost", "otherHost", "badHost", "hostOnly", "cutRedirect"}

Redirecting == {"sameHost", "otherHost", "badHost", "hostOnly", "cutRedirect"}
Replies     == {"page", "garbage", "cut"} \cup Redirecting

ASSUME ProxyAssumption ==
    /\ NoThread \notin Threads
    /\ NoHost \notin Hosts /\ NoSuchHost \notin Hosts /\ NoSuchHost # NoHost
    /\ RemoteHost \in Hosts
    /\ "" \in Paths /\ "/" \in Paths
    /\ Mounted \in BOOLEAN
    /\ Behaviours \in [Hosts -> SUBSET Outcomes]
    \* a host that accepts a connection does something with it
    /\ \A h \in Hosts : Behaviours[h] \cap (Replies \cup {"broken", "silent"}) # {}

Does(h, outcome) == h \in Hosts /\ outcome \in Behaviours[h]

\* The deployments in which no host ever answers with a redirect.
NoRedirects == \A h \in Hosts : Behaviours[h] \cap Redirecting = {}

VARIABLES
    pc,             \* pc[t]: the next step of thread t in HandleRequest
    req,            \* req[t]: the URI of the request being handled
    host,           \* host[t]: the local variable host
    uri,            \* uri[t]: the URI of proxied_req
    raw,            \* raw[t]: response_str, the reply read
    resp,           \* resp[t]: *response, the reply parsed last
    status,         \* status[t]: what the last call returned
    mtx,            \* mtx_: its owner
    remote_host_,   \* empty in a handler that was never initialised
    redirect_, redirect_host_, redirect_uri_,
    uri_prefix_,    \* TRUE while it is the mount point, FALSE once it is ""
    sock,           \* the client's socket: host it is open to, URI written
    want            \* history: where the answer to t's call must come from

fields == <<mtx, remote_host_, redirect_, redirect_host_, redirect_uri_,
            uri_prefix_>>
vars   == <<pc, req, host, uri, raw, resp, status, sock, want, fields>>

\* The values of a string that holds a host name.
Names     == Hosts \cup {NoHost, NoSuchHost}
URIs      == [prefixed : BOOLEAN, path : Paths]
Places    == [host : Names, path : Paths]
NoURI     == [prefixed |-> FALSE, path |-> ""]
NoPlace   == [host |-> NoHost, path |-> ""]
ReplySet  == [kind : Outcomes \cup {"none"}, host : Hosts \cup {NoHost},
              uri : URIs, to : Places]
NoReply   == [kind |-> "none", host |-> NoHost, uri |-> NoURI, to |-> NoPlace]
Closed    == [host |-> NoHost, sent |-> NoURI, busy |-> FALSE]
Sockets   == [host : Hosts \cup {NoHost}, sent : URIs, busy : BOOLEAN]

\* proxied_req.set_uri("/") when nothing follows the prefix
OrSlash(p) == IF p = "" THEN "/" ELSE p

\* Steps inside the section the mutex is meant to protect.
Section == {"prepare", "connect", "write", "read", "parse", "loop", "check",
            "again", "unlock", "failed"}
PCs == Section \cup {"idle", "enter", "lock", "clear", "dead", "stuck"}

Init ==
    /\ pc     = [t \in Threads |-> "idle"]
    /\ req    = [t \in Threads |-> NoURI]
    /\ host   = [t \in Threads |-> NoHost]
    /\ uri    = [t \in Threads |-> NoURI]
    /\ raw    = [t \in Threads |-> NoReply]
    /\ resp   = [t \in Threads |-> NoReply]
    /\ status = [t \in Threads |-> "none"]
    /\ want   = [t \in Threads |-> NoPlace]
    /\ mtx = NoThread
    /\ remote_host_ \in {RemoteHost, NoHost}
    /\ redirect_ = FALSE
    /\ redirect_host_ = NoHost
    /\ redirect_uri_ = ""
    /\ uri_prefix_ = Mounted
    /\ sock = Closed

At(t, here)    == pc[t] = here
Goto(t, there) == pc' = [pc EXCEPT ![t] = there]

\* One character too many is cut off: what is left has no "/" in front.
Stripped_OffByOne(u) ==
    [prefixed |-> FALSE,
     path     |-> IF u.path \in {"", "/"} THEN "/" ELSE "no slash"]

\* The URI sent on: uri_prefix_.size() characters are cut off the front.
Stripped(u) ==
    [prefixed |-> u.prefixed /\ ~uri_prefix_,
     path     |-> IF u.prefixed /\ ~uri_prefix_ THEN u.path ELSE OrSlash(u.path)]

-----------------------------------------------------------------------------
(* Faulty variants of the steps, which the properties must tell apart *)

\* redirect_ is not looked at: every call takes the else branch.
Enter_NoLock(t) ==
    /\ At(t, "enter")
    /\ Goto(t, "clear")
    /\ UNCHANGED <<req, host, uri, raw, resp, status, sock, want, fields>>

\* The inner call of a redirect locks again.
Enter_AlwaysLock(t) ==
    /\ At(t, "enter")
    /\ Goto(t, "lock")
    /\ UNCHANGED <<req, host, uri, raw, resp, status, sock, want, fields>>

\* The lock is not waited for.
Lock_Barge(t) ==
    /\ At(t, "lock")
    /\ mtx' = t
    /\ Goto(t, "prepare")
    /\ UNCHANGED <<req, host, uri, raw, resp, status, sock, want, remote_host_,
                   redirect_, redirect_host_, redirect_uri_, uri_prefix_>>

\* An error path that forgets the unlock.
ReturnError_KeepsLock(t) ==
    /\ At(t, "failed")
    /\ status' = [status EXCEPT ![t] = "Error"]
    /\ Goto(t, "idle")
    /\ UNCHANGED <<req, host, uri, raw, resp, sock, want, fields>>

\* The host of a redirect stays for later requests.
Prepare_KeepsRedirectHost(t) ==
    /\ At(t, "prepare")
    /\ remote_host_ # NoHost
    /\ host' = [host EXCEPT ![t] =
                  IF redirect_host_ # NoHost THEN redirect_host_ ELSE remote_host_]
    /\ uri' = [uri EXCEPT ![t] = Stripped(req[t])]
    /\ Goto(t, "connect")
    /\ UNCHANGED <<req, raw, resp, status, sock, want, fields>>

\* redirect_ is not tested after the reply was parsed.
Check_Never(t) ==
    /\ At(t, "check")
    /\ Goto(t, "unlock")
    /\ UNCHANGED <<req, host, uri, raw, resp, status, sock, want, fields>>

-----------------------------------------------------------------------------
(* Entering and leaving the section *)

\* A worker calls HandleRequest for a request whose URI the server matched
\* with this handler.
Call(t) ==
    \E p \in Paths :
        /\ At(t, "idle")
        /\ Mounted \/ p # ""
        /\ req'  = [req EXCEPT ![t] = [prefixed |-> Mounted, path |-> p]]
        /\ want' = [want EXCEPT ![t] = [host |-> RemoteHost, path |-> OrSlash(p)]]
        /\ resp' = [resp EXCEPT ![t] = NoReply]
        /\ status' = [status EXCEPT ![t] = "none"]
        /\ Goto(t, "enter")
        /\ UNCHANGED <<host, uri, raw, sock, fields>>

\* `if (!redirect_)`, read before any lock is taken.
Enter(t) ==
    /\ At(t, "enter")
    /\ Goto(t, IF redirect_ THEN "clear" ELSE "lock")
    /\ UNCHANGED <<req, host, uri, raw, resp, status, sock, want, fields>>

\* mtx_.lock() returns: the mutex was free.
Lock(t) ==
    /\ At(t, "lock")
    /\ mtx = NoThread
    /\ mtx' = t
    /\ Goto(t, "prepare")
    /\ UNCHANGED <<req, host, uri, raw, resp, status, sock, want, remote_host_,
                   redirect_, redirect_host_, redirect_uri_, uri_prefix_>>

\* The else branch: this is taken to be the inner call of a redirect.
Clear(t) ==
    /\ At(t, "clear")
    /\ redirect_' = FALSE
    /\ Goto(t, "prepare")
    /\ UNCHANGED <<req, host, uri, raw, resp, status, sock, want,
                   mtx, remote_host_, redirect_host_, redirect_uri_, uri_prefix_>>

\* Unlocking frees the mutex whoever owns it.
Return(t, result) ==
    /\ mtx' = NoThread
    /\ status' = [status EXCEPT ![t] = result]
    /\ Goto(t, "idle")
    /\ UNCHANGED <<req, host, uri, raw, resp, sock, want, remote_host_,
                   redirect_, redirect_host_, redirect_uri_, uri_prefix_>>

ReturnOK(t)    == At(t, "unlock") /\ Return(t, "OK")
ReturnError(t) == At(t, "failed") /\ Return(t, "Error")

-----------------------------------------------------------------------------
(* One exchange with a remote host *)

\* No host is configured: the call gives up.
RefuseUnconfigured(t) ==
    /\ At(t, "prepare")
    /\ remote_host_ = NoHost
    /\ Goto(t, "failed")
    /\ UNCHANGED <<req, host, uri, raw, resp, status, sock, want, fields>>

\* The host of a redirect is used once; otherwise the configured one.
Prepare(t) ==
    /\ At(t, "prepare")
    /\ remote_host_ # NoHost
    /\ host' = [host EXCEPT ![t] =
                  IF redirect_host_ # NoHost THEN redirect_host_ ELSE remote_host_]
    /\ redirect_host_' = NoHost
    /\ uri' = [uri EXCEPT ![t] = Stripped(req[t])]
    /\ Goto(t, "connect")
    /\ UNCHANGED <<req, raw, resp, status, sock, want,
                   mtx, remote_host_, redirect_, redirect_uri_, uri_prefix_>>

\* The previous connection is closed, then the new one is made.
Connect(t) ==
    /\ At(t, "connect")
    /\ \/ /\ host[t] \in Hosts
          /\ sock' = [Closed EXCEPT !.host = host[t]]
          /\ Goto(t, "write")
       \/ /\ Does(host[t], "refused")
          /\ sock' = Closed
          /\ Goto(t, "failed")
    /\ UNCHANGED <<req, host, uri, raw, resp, status, want, fields>>

\* An exception unwinds HandleRequest without unlocking, and ends the thread.
ConnectThrows(t) ==
    /\ At(t, "connect")
    /\ host[t] = NoSuchHost \/ Does(host[t], "unresolved")
    /\ Goto(t, "dead")
    /\ UNCHANGED <<req, host, uri, raw, resp, status, sock, want, fields>>

\* asio::write sends everything or throws.  A host answers the first request
\* it reads on a connection that asks for "Connection: Close".
Write(t) ==
    /\ At(t, "write")
    /\ sock.host # NoHost
    /\ sock' = IF sock.busy THEN sock
               ELSE [sock EXCEPT !.sent = uri[t], !.busy = TRUE]
    /\ Goto(t, "read")
    /\ UNCHANGED <<req, host, uri, raw, resp, status, want, fields>>

WriteThrows(t) ==
    /\ At(t, "write")
    /\ sock.host = NoHost \/ Does(sock.host, "reset")
    /\ Goto(t, "dead")
    /\ UNCHANGED <<req, host, uri, raw, resp, status, sock, want, fields>>

WriteFails(t) ==
    /\ At(t, "write")
    /\ Does(sock.host, "short")
    /\ Goto(t, "failed")
    /\ UNCHANGED <<req, host, uri, raw, resp, status, sock, want, fields>>

\* Where a redirect of host h points to, as the code reads it.
Targets(kind, h) ==
    CASE kind = "sameHost"  -> [host : {h}, path : Paths \ {""}]
      [] kind \in {"otherHost", "cutRedirect"} ->
                               [host : Hosts, path : Paths \ {""}]
      [] kind = "badHost"   -> [host : {NoSuchHost}, path : Paths \ {""}]
      [] kind = "hostOnly"  -> [host : Hosts \cup {NoHost}, path : {""}]
      [] OTHER              -> {NoPlace}

\* Bytes are read up to the end of the stream.  On a socket that is closed or
\* drained there are none, which Read reports as an empty success.
Read(t) ==
    /\ At(t, "read")
    /\ \/ /\ ~sock.busy
          /\ raw' = [raw EXCEPT ![t] = [NoReply EXCEPT !.kind = "garbage"]]
       \/ /\ sock.busy
          /\ \E k \in Behaviours[sock.host] \cap Replies :
               \E place \in Targets(k, sock.host) :
                 raw' = [raw EXCEPT ![t] = [kind |-> k, host |-> sock.host,
                                            uri |-> sock.sent, to |-> place]]
    /\ sock' = [sock EXCEPT !.sent = NoURI, !.busy = FALSE]
    /\ Goto(t, "parse")
    /\ UNCHANGED <<req, host, uri, resp, status, want, fields>>

ReadFails(t) ==
    /\ At(t, "read")
    /\ sock.busy /\ "broken" \in Behaviours[sock.host]
    /\ sock' = [sock EXCEPT !.sent = NoURI, !.busy = FALSE]
    /\ Goto(t, "failed")
    /\ UNCHANGED <<req, host, uri, raw, resp, status, want, fields>>

\* The read has no timeout.
ReadBlocks(t) ==
    /\ At(t, "read")
    /\ sock.busy /\ "silent" \in Behaviours[sock.host]
    /\ Goto(t, "stuck")
    /\ UNCHANGED <<req, host, uri, raw, resp, status, sock, want, fields>>

-----------------------------------------------------------------------------
(* ParseRawResponse, and following a redirect *)

\* A reply that parses: redirect_, redirect_uri_ and, if the Location names a
\* host, redirect_host_ are set from it.
Parse(t) ==
    /\ At(t, "parse")
    /\ raw[t].kind \in {"page", "sameHost", "otherHost", "badHost"}
    /\ resp' = [resp EXCEPT ![t] = raw[t]]
    /\ redirect_' = (redirect_ \/ raw[t].kind \in Redirecting)
    /\ redirect_uri_' = IF raw[t].kind \in Redirecting THEN raw[t].to.path
                        ELSE redirect_uri_
    /\ redirect_host_' = IF raw[t].kind \in {"otherHost", "badHost"} THEN raw[t].to.host
                         ELSE redirect_host_
    /\ want' = IF raw[t].kind \in Redirecting
               THEN [want EXCEPT ![t] = raw[t].to] ELSE want
    /\ Goto(t, "check")
    /\ UNCHANGED <<req, host, uri, raw, status, sock, mtx, remote_host_,
                   uri_prefix_>>

\* No status number, or a Location without a path, which is found out only
\* when redirect_ and redirect_host_ are already set.
ParseThrows(t) ==
    /\ At(t, "parse")
    /\ raw[t].kind \in {"garbage", "hostOnly"}
    /\ redirect_' = (redirect_ \/ raw[t].kind = "hostOnly")
    /\ redirect_host_' = IF raw[t].kind = "hostOnly" THEN raw[t].to.host
                         ELSE redirect_host_
    /\ Goto(t, "dead")
    /\ UNCHANGED <<req, host, uri, raw, resp, status, sock, want,
                   mtx, remote_host_, redirect_uri_, uri_prefix_>>

\* Without the empty line, end + 2 wraps round to the start of the reply.  A
\* Location read before that has already been stored.
ParseLoops(t) ==
    /\ At(t, "parse")
    /\ raw[t].kind \in {"cut", "cutRedirect"}
    /\ redirect_' = (redirect_ \/ raw[t].kind = "cutRedirect")
    /\ redirect_uri_' = IF raw[t].kind = "cutRedirect" THEN raw[t].to.path
                        ELSE redirect_uri_
    /\ redirect_host_' = IF raw[t].kind = "cutRedirect" THEN raw[t].to.host
                         ELSE redirect_host_
    /\ Goto(t, "loop")
    /\ UNCHANGED <<req, host, uri, raw, resp, status, sock, want,
                   mtx, remote_host_, uri_prefix_>>

\* Each turn of the loop adds a header, until the memory is used up: bad_alloc.
RunsOut(t) ==
    /\ At(t, "loop")
    /\ Goto(t, "dead")
    /\ UNCHANGED <<req, host, uri, raw, resp, status, sock, want, fields>>

\* `if (redirect_)` after the reply was parsed.
Check(t) ==
    /\ At(t, "check")
    /\ Goto(t, IF redirect_ THEN "again" ELSE "unlock")
    /\ UNCHANGED <<req, host, uri, raw, resp, status, sock, want, fields>>

\* The call for the redirect: it gets the new URI, and from now on no prefix
\* is cut off any more.
Recurse(t) ==
    /\ At(t, "again")
    /\ req' = [req EXCEPT ![t] = [prefixed |-> FALSE, path |-> redirect_uri_]]
    /\ uri_prefix_' = FALSE
    /\ Goto(t, "enter")
    /\ UNCHANGED <<host, uri, raw, resp, status, sock, want,
                   mtx, remote_host_, redirect_, redirect_host_, redirect_uri_>>

-----------------------------------------------------------------------------
\* What a thread does once it is in HandleRequest.
Handle(t) ==
    \/ Enter(t) \/ Lock(t) \/ Clear(t)
    \/ RefuseUnconfigured(t) \/ Prepare(t)
    \/ Connect(t) \/ ConnectThrows(t)
    \/ Write(t) \/ WriteThrows(t) \/ WriteFails(t)
    \/ Read(t) \/ ReadFails(t) \/ ReadBlocks(t)
    \/ Parse(t) \/ ParseThrows(t) \/ ParseLoops(t) \/ RunsOut(t)
    \/ Check(t) \/ Recurse(t)
    \/ ReturnOK(t) \/ ReturnError(t)

Next == \E t \in Threads : Call(t) \/ Handle(t)

\* The system schedules every thread that can run.
Spec == Init /\ [][Next]_vars /\ \A t \in Threads : WF_vars(Handle(t))

-----------------------------------------------------------------------------
(* Properties *)

TypeOK ==
    /\ pc \in [Threads -> PCs]
    /\ req \in [Threads -> URIs] /\ uri \in [Threads -> URIs]
    /\ host \in [Threads -> Names]
    /\ raw \in [Threads -> ReplySet] /\ resp \in [Threads -> ReplySet]
    /\ status \in [Threads -> {"none", "OK", "Error"}]
    /\ want \in [Threads -> Places]
    /\ mtx \in Threads \cup {NoThread}
    /\ remote_host_ \in {RemoteHost, NoHost}
    /\ redirect_ \in BOOLEAN
    /\ redirect_host_ \in Names
    /\ redirect_uri_ \in Paths
    /\ uri_prefix_ \in BOOLEAN
    /\ sock \in Sockets

Inside(t) == pc[t] \in Section

\* Two workers are never both between the lock and the unlock of
\* HandleRequest, where the socket and the redirect fields are used.
MutualExclusion ==
    \A t, u \in Threads : Inside(t) /\ Inside(u) => t = u

\* A worker about to unlock mtx_ owns it, on every path: C++ leaves unlocking
\* another thread's mutex undefined.
UnlockOwned ==
    \A t \in Threads : pc[t] \in {"unlock", "failed"} => mtx = t

Answers(reply, place) ==
    /\ reply.host = place.host
    /\ reply.uri = [prefixed |-> FALSE, path |-> place.path]

\* A call that succeeds hands back the reply to its own request: from the host
\* and path the client asked for, or that the last redirect it got named, and
\* never what another worker asked for on the shared socket.
OwnReply ==
    \A t \in Threads : At(t, "unlock") => Answers(resp[t], want[t])

\* When no call is under way nothing of the last one is left: the mutex is
\* free, and the next call will not take itself for an inner one.
QuietIsClean ==
    (\A t \in Threads : At(t, "idle")) =>
        /\ mtx = NoThread
        /\ ~redirect_ /\ redirect_host_ = NoHost

\* A redirect whose Location can be read is followed: a successful call never
\* hands the redirect itself to the client.
RedirectsFollowed ==
    \A t \in Threads : status[t] = "OK" => resp[t].kind = "page"

\* What is sent to the configured host has lost the mount point of the handler
\* (the prefix "that this handler will run for", request_handler.h).
PrefixStripped ==
    sock.busy /\ sock.host = RemoteHost => ~sock.sent.prefixed

\* "new URI on same host": a request goes to the host it is meant for, which
\* after a redirect without a host is the one that sent the redirect.
SameHostRedirect ==
    \A t \in Threads : At(t, "connect") => host[t] = want[t].host

\* "sub-call will unlock mtx_": the call made for a redirect finds redirect_
\* still set and goes on with the mutex it holds.  It never waits for that
\* mutex, which would be for ever.
SubCallUnlocks ==
    \A t \in Threads : At(t, "lock") => mtx # t

\* The owner of mtx_ frees it in the end, unless it is one of those the code
\* has no way to bring back: unwound by an exception, or waiting in a read
\* without end.
Released ==
    \A t \in Threads :
        mtx = t ~> (mtx # t \/ pc[t] \in {"dead", "stuck"})

\* The abstract view of a call: asked, served alone, returned.
Phase(t) == CASE At(t, "idle") -> "out"
              [] pc[t] \in {"dead", "stuck"} -> "lost"
              [] OTHER -> "asking"

\* The place the answer of a call that succeeded came from.
Source(t) == IF status[t] = "OK"
             THEN [host |-> resp[t].host, path |-> resp[t].uri.path]
             ELSE NoPlace

Serial == INSTANCE SerialProxy WITH
    Clients <- Threads, Nobody <- NoThread, Places <- Places,
    Nowhere <- NoPlace,
    phase   <- [t \in Threads |-> Phase(t)],
    asked   <- want,
    line    <- mtx,
    outcome <- status,
    source  <- [t \in Threads |-> Source(t)]

\* With hosts that do not redirect, the handler is a server of one client at a
\* time that answers each with what it asked for.
SerialSpec == Serial!Spec

=============================================================================
