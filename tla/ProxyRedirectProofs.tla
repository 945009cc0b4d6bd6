------------------------ MODULE ProxyRedirectProofs ------------------------
(***************************************************************************)
(* What ProxyHandler promises when hosts do redirect, which takes a server *)
(* with one worker: nobody can enter between the moment redirect_ is set   *)
(* and the sub-call that clears it.                                        *)
(***************************************************************************)
EXTENDS ProxyHandlerProofs

\* The configuration says "threads 1".
OneWorker == Threads # {} /\ \A t, u \in Threads : t = u

\* Only the configured host redirects, so that "the same host" is the host the
\* next request goes to anyway.
OneRedirector == \A h \in Hosts \ {RemoteHost} : Behaviours[h] \cap Redirecting = {}

Lost(t) == pc[t] \in {"dead", "stuck"}

\* A worker owns the mutex inside and in the sub-call, and nowhere else.
Owner(t) ==
    /\ pc[t] \in {"idle", "lock"} => mtx = NoThread
    /\ Inside(t) \/ At(t, "clear") => mtx = t
    /\ At(t, "enter") => mtx = IF redirect_ THEN t ELSE NoThread

\* The redirect fields are set from a reply to the sub-call, and clear elsewhere.
Fields(t) ==
    ~Lost(t) =>
        /\ redirect_ => pc[t] \in {"loop", "check", "again", "enter", "clear"}
        /\ pc[t] \in {"again", "clear"} => redirect_
        /\ redirect_host_ # NoHost => redirect_ \/ At(t, "prepare")
        /\ \/ redirect_ \/ redirect_host_ # NoHost
           \/ pc[t] \in {"connect", "write", "read", "parse", "check"}
           => remote_host_ # NoHost

\* A reply that is not followed is a page, and so is the result of a call.
Result(t) ==
    /\ At(t, "check") /\ ~redirect_ => resp[t].kind = "page"
    /\ At(t, "unlock") => resp[t].kind = "page"
    /\ status[t] = "OK" => At(t, "idle") /\ resp[t].kind = "page"

SoloInv == TypeOK /\ \A t \in Threads : Owner(t) /\ Fields(t) /\ Result(t)

LEMMA SoloInit == Init => SoloInv
<1> SUFFICES ASSUME Init PROVE SoloInv
    OBVIOUS
<1>1. TypeOK
    BY TypeInit
<1>2. \A t \in Threads : Owner(t) /\ Fields(t) /\ Result(t)
    BY DEF Init, Owner, Fields, Result, Lost, Inside, Section, At
<1> QED
    BY <1>1, <1>2 DEF SoloInv

LEMMA SoloStep ==
    ASSUME OneWorker, SoloInv, [Next]_vars
    PROVE  SoloInv'
<1>0. TypeOK'
    BY TypeStep DEF SoloInv
<1>1. CASE UNCHANGED vars
    BY <1>0, <1>1 DEF vars, fields, SoloInv, Owner, Fields, Result, Lost, Inside, At
<1> SUFFICES ASSUME NEW t \in Threads, Call(t) \/ Handle(t)
             PROVE  Owner(t)' /\ Fields(t)' /\ Result(t)'
    BY <1>0, <1>1, Zenon DEF OneWorker, Next, SoloInv
<1> USE DEF SoloInv, TypeOK, Owner, Fields, Result, Lost, Inside, Section, At, Goto, fields
<1>2. CASE Call(t)
  <2>1. PICK p \in Paths : Call(t)!(p)
    BY <1>2 DEF Call
  <2>2. /\ pc[t] = "idle" /\ pc'[t] = "enter" /\ status'[t] = "none"
        /\ mtx' = mtx /\ redirect_' = redirect_ /\ redirect_host_' = redirect_host_
    BY <2>1
  <2> QED
    BY <2>2
<1>3. CASE Enter(t)
    BY <1>3 DEF Enter
<1>4. CASE Lock(t)
    BY <1>4 DEF Lock
<1>5. CASE Clear(t)
    BY <1>5 DEF Clear
<1>6. CASE RefuseUnconfigured(t)
    BY <1>6 DEF RefuseUnconfigured
<1>7. CASE Prepare(t)
    BY <1>7 DEF Prepare
<1>8. CASE Connect(t)
    BY <1>8 DEF Connect
<1>9. CASE ConnectThrows(t) \/ WriteThrows(t) \/ ReadBlocks(t)
    BY <1>9 DEF ConnectThrows, WriteThrows, ReadBlocks
<1>10. CASE Write(t)
    BY <1>10 DEF Write
<1>11. CASE WriteFails(t) \/ ReadFails(t)
    BY <1>11 DEF WriteFails, ReadFails
<1>12. CASE Read(t)
    BY <1>12 DEF Read
<1>13. CASE Parse(t)
    BY <1>13 DEF Parse, Redirecting
<1>14. CASE ParseThrows(t)
    BY <1>14 DEF ParseThrows
<1>15. CASE ParseLoops(t) \/ RunsOut(t)
    BY <1>15 DEF ParseLoops, RunsOut
<1>16. CASE Check(t)
    BY <1>16 DEF Check
<1>17. CASE Recurse(t)
    BY <1>17 DEF Recurse
<1>18. CASE ReturnOK(t)
    BY <1>18 DEF ReturnOK, Return
<1>19. CASE ReturnError(t)
    BY <1>19 DEF ReturnError, Return
<1> QED
    BY <1>2, <1>3, <1>4, <1>5, <1>6, <1>7, <1>8, <1>9, <1>10, <1>11, <1>12,
       <1>13, <1>14, <1>15, <1>16, <1>17, <1>18, <1>19 DEF Handle

\* With one worker nothing of a call is left when it is over: the mutex is free
\* and the next call does not take itself for a sub-call (proxy_handler.cc:34-40).
THEOREM CallsEndClean ==
    ASSUME OneWorker
    PROVE  Spec => []QuietIsClean
<1>1. SoloInv => QuietIsClean
    BY DEF OneWorker, SoloInv, Owner, Fields, QuietIsClean, Lost, At
<1> QED
    BY <1>1, SoloInit, SoloStep, PTL DEF Spec

\* ... and the sub-call of a redirect goes on with the mutex its caller holds
\* (proxy_handler.cc:101).
THEOREM SubCallsGoOn ==
    ASSUME OneWorker
    PROVE  Spec => []SubCallUnlocks
<1>1. SoloInv => SubCallUnlocks
    BY ProxyAssumption DEF SoloInv, Owner, SubCallUnlocks, At
<1> QED
    BY <1>1, SoloInit, SoloStep, PTL DEF Spec

\* ... and no redirect is handed to the client by a call that succeeds
\* (proxy_handler.cc:95-102).
THEOREM RedirectsAreFollowed ==
    ASSUME OneWorker
    PROVE  Spec => []RedirectsFollowed
<1>1. SoloInv => RedirectsFollowed
    BY DEF SoloInv, Result, RedirectsFollowed
<1> QED
    BY <1>1, SoloInit, SoloStep, PTL DEF Spec

-----------------------------------------------------------------------------
(* The answer, along a chain of redirects *)

\* No prefix is ever cut off by a default handler, whose prefix is empty.
NoPrefix == ~uri_prefix_

\* What the next request is for: redirect_host_ names its host, or else it is
\* the configured one.
Aimed(t) ==
    /\ ~req[t].prefixed
    /\ pc[t] \in {"enter", "lock", "clear", "prepare"} => OrSlash(req[t].path) = want[t].path
    /\ (At(t, "check") /\ redirect_) \/ At(t, "again") => OrSlash(redirect_uri_) = want[t].path
    /\ pc[t] \in {"enter", "lock", "clear", "prepare", "again"} \/ (At(t, "check") /\ redirect_) =>
          want[t].host = IF redirect_host_ # NoHost THEN redirect_host_ ELSE RemoteHost

\* What is on the connection is that request.
Asking(t) ==
    /\ pc[t] \in {"connect", "write", "read"} =>
          host[t] = want[t].host /\ host[t] # NoHost /\ uri[t] = [prefixed |-> FALSE, path |-> want[t].path]
    /\ At(t, "write") => sock.host = want[t].host /\ ~sock.busy
    /\ At(t, "read")  => sock.host = want[t].host /\ sock.busy /\ sock.sent = uri[t]

\* And what is read and parsed is the reply to it.
Told(t) ==
    /\ At(t, "parse") /\ raw[t].kind # "garbage" => Answers(raw[t], want[t])
    /\ At(t, "parse") /\ raw[t].kind \in Redirecting => raw[t].host = RemoteHost
    /\ At(t, "parse") /\ raw[t].kind \in {"sameHost", "otherHost", "badHost"} =>
          raw[t].to.path # "" /\ raw[t].to.host # NoHost
    /\ At(t, "parse") /\ raw[t].kind = "sameHost" => raw[t].to.host = RemoteHost
    /\ At(t, "unlock") \/ (At(t, "check") /\ ~redirect_) => Answers(resp[t], want[t])

ChainInv == NoPrefix /\ \A t \in Threads : Aimed(t) /\ Asking(t) /\ Told(t)

LEMMA ChainInit == ASSUME Mounted = FALSE, Init PROVE ChainInv
BY DEF Init, ChainInv, NoPrefix, NoURI, Aimed, Asking, Told, At

\* A read of one worker gives the reply to what is on the connection.
LEMMA ReadTells ==
    ASSUME SoloInv, ChainInv, OneRedirector, NEW t \in Threads, Read(t)
    PROVE  Told(t)'
<1>1. /\ pc[t] = "read" /\ pc'[t] = "parse" /\ want' = want
      /\ sock.host = want[t].host /\ sock.busy
      /\ sock.sent = [prefixed |-> FALSE, path |-> want[t].path]
    BY DEF Read, At, Goto, SoloInv, TypeOK, ChainInv, Asking
<1>2. PICK k \in Behaviours[sock.host] \cap Replies :
          \E place \in Targets(k, sock.host) :
              raw' = [raw EXCEPT ![t] = [kind |-> k, host |-> sock.host,
                                         uri |-> sock.sent, to |-> place]]
    BY <1>1 DEF Read
<1>3. PICK place \in Targets(k, sock.host) :
          raw' = [raw EXCEPT ![t] = [kind |-> k, host |-> sock.host,
                                     uri |-> sock.sent, to |-> place]]
    BY <1>2
<1>4. raw'[t] = [kind |-> k, host |-> sock.host, uri |-> sock.sent, to |-> place]
    BY <1>3 DEF SoloInv, TypeOK
<1>5. sock.host \in Hosts
  <2>1. sock.host \in Hosts \cup {NoHost}
    BY DEF SoloInv, TypeOK, Sockets
  <2>2. host[t] # NoHost
    BY <1>1 DEF ChainInv, Asking, At
  <2> QED
    BY <2>1, <2>2, <1>1 DEF ChainInv, Asking, At
<1>6. k \in Redirecting => sock.host = RemoteHost
    BY <1>2, <1>5 DEF OneRedirector
<1>7. k \in {"sameHost", "otherHost", "badHost"} =>
          place.path # "" /\ place.host \in Hosts \cup {NoSuchHost} /\ (k = "sameHost" => place.host = sock.host)
    BY <1>3, <1>5 DEF Targets
<1>8. Answers(raw[t], want[t])'
    BY <1>1, <1>4 DEF Answers
<1>9. raw'[t].kind = k /\ raw'[t].to = place
    BY <1>4
<1>10. \/ k \notin Redirecting \/ raw'[t].host = RemoteHost
    BY <1>4, <1>6
<1>11. k \in {"sameHost", "otherHost", "badHost"} => raw'[t].to.path # "" /\ raw'[t].to.host # NoHost
    BY <1>7, <1>9, ProxyAssumption
<1>12. k = "sameHost" => raw'[t].to.host = RemoteHost
    BY <1>6, <1>7, <1>9 DEF Redirecting
<1> QED
    BY <1>1, <1>8, <1>10, <1>11, <1>12, <1>9 DEF Told, At

LEMMA ChainStep ==
    ASSUME OneWorker, OneRedirector, Mounted = FALSE, SoloInv, ChainInv, [Next]_vars
    PROVE  ChainInv'
<1>1. CASE UNCHANGED vars
    BY <1>1 DEF vars, fields, ChainInv, NoPrefix, Aimed, Asking, Told, Answers, At
<1> SUFFICES ASSUME NEW t \in Threads, Call(t) \/ Handle(t)
             PROVE  NoPrefix' /\ Aimed(t)' /\ Asking(t)' /\ Told(t)'
    BY <1>1, Zenon DEF OneWorker, Next, ChainInv
<1> USE DEF SoloInv, TypeOK, ChainInv, NoPrefix, Aimed, Asking, Told, Answers, At, Goto, fields
<1>2. CASE Call(t)
  <2>1. PICK p \in Paths : Call(t)!(p)
    BY <1>2 DEF Call
  <2>2. redirect_host_ = NoHost
    BY <2>1 DEF Fields, Lost
  <2> QED
    BY <2>1, <2>2
<1>3. CASE Enter(t)
    BY <1>3 DEF Enter
<1>4. CASE Lock(t)
    BY <1>4 DEF Lock
<1>5. CASE Clear(t)
    BY <1>5 DEF Clear
<1>6. CASE RefuseUnconfigured(t)
    BY <1>6 DEF RefuseUnconfigured
<1>7. CASE Prepare(t)
  <2>1. Stripped(req[t]) = [prefixed |-> FALSE, path |-> OrSlash(req[t].path)]
    BY DEF Stripped
  <2>2. remote_host_ = RemoteHost
    BY <1>7 DEF Prepare
  <2> QED
    BY <1>7, <2>1, <2>2 DEF Prepare
<1>8. CASE Connect(t)
  <2>1. /\ pc'[t] \in {"write", "failed"} /\ host' = host /\ uri' = uri /\ want' = want /\ req' = req
        /\ uri_prefix_' = uri_prefix_
        /\ pc'[t] = "write" => sock'.host = host[t] /\ ~sock'.busy
    BY <1>8 DEF Connect, Closed
  <2>2. pc[t] = "connect"
    BY <1>8 DEF Connect
  <2> QED
    BY <2>1, <2>2
<1>9. CASE ConnectThrows(t) \/ WriteThrows(t) \/ ReadBlocks(t)
  <2>1. pc'[t] \in {"dead", "stuck"} /\ req' = req /\ uri_prefix_' = uri_prefix_
    BY <1>9 DEF ConnectThrows, WriteThrows, ReadBlocks
  <2> QED
    BY <2>1
<1>10. CASE Write(t)
  <2>1. sock \in Sockets /\ ~sock.busy /\ sock.host = want[t].host
    BY <1>10 DEF Write
  <2>2. sock'.host = sock.host /\ sock'.busy /\ sock'.sent = uri[t]
    BY <1>10, <2>1 DEF Write, Sockets
  <2> QED
    BY <1>10, <2>1, <2>2 DEF Write
<1>11. CASE WriteFails(t) \/ ReadFails(t)
  <2>1. pc'[t] = "failed" /\ req' = req /\ uri_prefix_' = uri_prefix_
    BY <1>11 DEF WriteFails, ReadFails
  <2> QED
    BY <2>1
<1>12. CASE Read(t)
  <2>1. Told(t)'
    BY <1>12, ReadTells
  <2> QED
    BY <1>12, <2>1 DEF Read
<1>13. CASE Parse(t)
  <2>1. /\ pc[t] = "parse" /\ pc'[t] = "check" /\ resp'[t] = raw[t]
        /\ ~redirect_ /\ redirect_host_ = NoHost
        /\ redirect_' <=> raw[t].kind \in Redirecting
    BY <1>13 DEF Parse, Fields, Lost
  <2>2. CASE raw[t].kind = "page"
    BY <1>13, <2>1, <2>2 DEF Parse, Redirecting
  <2>3. CASE raw[t].kind \in {"sameHost", "otherHost", "badHost"}
    <3>1. /\ want'[t] = raw[t].to /\ redirect_uri_' = raw[t].to.path
          /\ redirect_host_' = IF raw[t].kind \in {"otherHost", "badHost"} THEN raw[t].to.host ELSE NoHost
      BY <1>13, <2>1, <2>3 DEF Parse, Redirecting
    <3>2. /\ raw[t].to.path # "" /\ raw[t].to.host # NoHost
          /\ raw[t].kind = "sameHost" => raw[t].to.host = RemoteHost
      BY <2>1, <2>3
    <3>3. redirect_'
      BY <2>1, <2>3 DEF Redirecting
    <3> QED
      BY <1>13, <2>1, <2>3, <3>1, <3>2, <3>3 DEF Parse, OrSlash
  <2> QED
    BY <1>13, <2>2, <2>3 DEF Parse
<1>14. CASE ParseThrows(t)
    BY <1>14 DEF ParseThrows
<1>15. CASE ParseLoops(t) \/ RunsOut(t)
  <2>1. pc'[t] \in {"loop", "dead"} /\ req' = req /\ uri_prefix_' = uri_prefix_
    BY <1>15 DEF ParseLoops, RunsOut
  <2> QED
    BY <2>1
<1>16. CASE Check(t)
    BY <1>16 DEF Check
<1>17. CASE Recurse(t)
    BY <1>17 DEF Recurse
<1>18. CASE ReturnOK(t) \/ ReturnError(t)
  <2>1. pc'[t] = "idle" /\ req' = req /\ uri_prefix_' = uri_prefix_
    BY <1>18 DEF ReturnOK, ReturnError, Return
  <2> QED
    BY <2>1
<1> QED
    BY <1>2, <1>3, <1>4, <1>5, <1>6, <1>7, <1>8, <1>9, <1>10, <1>11, <1>12,
       <1>13, <1>14, <1>15, <1>16, <1>17, <1>18 DEF Handle

\* A default handler that one worker uses answers from where the chain of
\* redirects ends, however long it is, as long as only the configured host
\* redirects (proxy_handler.cc:51-62, 95-102, 149-168).
THEOREM ChainsAreAnswered ==
    ASSUME OneWorker, OneRedirector, Mounted = FALSE
    PROVE  Spec => []OwnReply
<1>1. ChainInv /\ SoloInv => OwnReply
    BY DEF ChainInv, Told, OwnReply
<1>2. Init => ChainInv
    BY ChainInit
<1> QED
    BY <1>1, <1>2, SoloInit, SoloStep, ChainStep, PTL DEF Spec

=============================================================================
