-------------------------- MODULE ProxyHandlerProofs --------------------------
(***************************************************************************)
(* Proofs about ProxyHandler, for any set of threads, hosts and paths.     *)
(***************************************************************************)
EXTENDS ProxyHandler, TLAPS

\* What the record-valued constants of the module are members of.
LEMMA ConstantTypes ==
    /\ NoURI \in URIs /\ NoPlace \in Places /\ NoReply \in ReplySet
    /\ Closed \in Sockets
    /\ RemoteHost # NoHost
BY ProxyAssumption DEF NoURI, URIs, NoPlace, Places, NoReply, ReplySet, Closed, Sockets, Names

\* A path stays a path when the slash is put in for an empty one.
LEMMA OrSlashType ==
    ASSUME NEW p \in Paths
    PROVE  OrSlash(p) \in Paths
BY ProxyAssumption DEF OrSlash

\* Cutting the prefix off a URI leaves a URI.
LEMMA StrippedType ==
    ASSUME NEW u \in URIs, uri_prefix_ \in BOOLEAN
    PROVE  Stripped(u) \in URIs
<1>1. u.prefixed \in BOOLEAN /\ u.path \in Paths
    BY DEF URIs
<1>2. OrSlash(u.path) \in Paths
    BY <1>1, OrSlashType
<1> QED
    BY <1>1, <1>2 DEF Stripped, URIs

\* The handler starts well typed.
LEMMA TypeInit == Init => TypeOK
<1> SUFFICES ASSUME Init PROVE TypeOK
    OBVIOUS
<1>1. redirect_ \in BOOLEAN /\ uri_prefix_ \in BOOLEAN
    BY ProxyAssumption, Zenon DEF Init
<1>2. /\ pc \in [Threads -> PCs]
      /\ status \in [Threads -> {"none", "OK", "Error"}]
    BY DEF Init, PCs
<1> QED
    BY <1>1, <1>2, ProxyAssumption, ConstantTypes DEF Init, TypeOK, Names

\* Every step of a thread keeps the types.
LEMMA TypeStep == TypeOK /\ [Next]_vars => TypeOK'
<1> SUFFICES ASSUME TypeOK, [Next]_vars PROVE TypeOK'
  OBVIOUS
<1> USE ProxyAssumption DEF TypeOK, PCs, Section, Goto, At, fields, Names
<1>1. CASE UNCHANGED vars
  BY <1>1 DEF vars
<1>2. ASSUME NEW t \in Threads, Call(t) PROVE TypeOK'
  <2>1. PICK p \in Paths : Call(t)!(p)
    BY <1>2 DEF Call
  <2>2. [prefixed |-> Mounted, path |-> p] \in URIs
    BY DEF URIs
  <2>3. [host |-> RemoteHost, path |-> OrSlash(p)] \in Places
    BY OrSlashType DEF Places
  <2> QED
    BY <2>1, <2>2, <2>3, ConstantTypes
<1>3. ASSUME NEW t \in Threads, Enter(t) PROVE TypeOK'
  BY <1>3 DEF Enter
<1>4. ASSUME NEW t \in Threads, Lock(t) PROVE TypeOK'
  BY <1>4 DEF Lock
<1>5. ASSUME NEW t \in Threads, Clear(t) PROVE TypeOK'
  BY <1>5 DEF Clear
<1>6. ASSUME NEW t \in Threads, RefuseUnconfigured(t) PROVE TypeOK'
  BY <1>6 DEF RefuseUnconfigured
<1>7. ASSUME NEW t \in Threads, Prepare(t) PROVE TypeOK'
  <2>1. Stripped(req[t]) \in URIs
    BY StrippedType
  <2> QED
    BY <1>7, <2>1 DEF Prepare
<1>8. ASSUME NEW t \in Threads, Connect(t) PROVE TypeOK'
  <2>1. host[t] \in Hosts => [Closed EXCEPT !.host = host[t]] \in Sockets
    BY ConstantTypes DEF Closed, Sockets
  <2> QED
    BY <1>8, <2>1, ConstantTypes DEF Connect
<1>9. ASSUME NEW t \in Threads, ConnectThrows(t) PROVE TypeOK'
  BY <1>9 DEF ConnectThrows
<1>10. ASSUME NEW t \in Threads, Write(t) PROVE TypeOK'
  <2>1. [sock EXCEPT !.sent = uri[t], !.busy = TRUE] \in Sockets
    BY DEF Sockets
  <2> QED
    BY <1>10, <2>1 DEF Write
<1>11. ASSUME NEW t \in Threads, WriteThrows(t) \/ WriteFails(t) PROVE TypeOK'
  BY <1>11 DEF WriteThrows, WriteFails
<1>12. ASSUME NEW t \in Threads, Read(t) \/ ReadFails(t) PROVE TypeOK'
  <2>1. [sock EXCEPT !.sent = NoURI, !.busy = FALSE] \in Sockets
    BY ConstantTypes DEF Sockets
  <2>2. CASE ReadFails(t)
    BY <2>1, <2>2 DEF ReadFails
  <2>3. CASE Read(t)
    <3>1. PICK r \in ReplySet : raw' = [raw EXCEPT ![t] = r]
      <4>1. CASE ~sock.busy
        <5>1. [NoReply EXCEPT !.kind = "garbage"] \in ReplySet
          BY ConstantTypes DEF ReplySet, NoReply, Outcomes
        <5> QED
          BY <2>3, <4>1, <5>1 DEF Read
      <4>2. CASE sock.busy
        <5>1. PICK k \in Behaviours[sock.host] \cap Replies :
                \E place \in Targets(k, sock.host) :
                  raw' = [raw EXCEPT ![t] = [kind |-> k, host |-> sock.host,
                                             uri |-> sock.sent, to |-> place]]
          BY <2>3, <4>2 DEF Read
        <5>2. PICK place \in Targets(k, sock.host) :
                  raw' = [raw EXCEPT ![t] = [kind |-> k, host |-> sock.host,
                                             uri |-> sock.sent, to |-> place]]
          BY <5>1
        <5>3. sock.host \in Hosts \cup {NoHost} /\ sock.sent \in URIs
          BY DEF Sockets
        <5>4. place \in Places
          BY ConstantTypes, <5>3 DEF Targets, Places
        <5>5. k \in Outcomes
          BY <5>1 DEF Replies, Redirecting, Outcomes
        <5>6. [kind |-> k, host |-> sock.host, uri |-> sock.sent, to |-> place]
                 \in ReplySet
          BY <5>3, <5>4, <5>5 DEF ReplySet
        <5> QED
          BY <5>2, <5>6
      <4> QED
        BY <4>1, <4>2
    <3> QED
      BY <2>1, <2>3, <3>1 DEF Read
  <2> QED
    BY <1>12, <2>2, <2>3
<1>13. ASSUME NEW t \in Threads, ReadBlocks(t) PROVE TypeOK'
  BY <1>13 DEF ReadBlocks
<1>14. ASSUME NEW t \in Threads, Parse(t) PROVE TypeOK'
  <2>1. /\ raw[t].to \in Places
        /\ raw[t].to.path \in Paths /\ raw[t].to.host \in Names
    BY DEF ReplySet, Places
  <2> QED
    BY <1>14, <2>1 DEF Parse
<1>15. ASSUME NEW t \in Threads, ParseThrows(t) PROVE TypeOK'
  <2>1. raw[t].to.host \in Names
    BY DEF ReplySet, Places
  <2> QED
    BY <1>15, <2>1 DEF ParseThrows
<1>16. ASSUME NEW t \in Threads, ParseLoops(t) PROVE TypeOK'
  <2>1. raw[t].to.path \in Paths /\ raw[t].to.host \in Names
    BY DEF ReplySet, Places
  <2> QED
    BY <1>16, <2>1 DEF ParseLoops
<1>17. ASSUME NEW t \in Threads, Check(t) \/ RunsOut(t) PROVE TypeOK'
  BY <1>17 DEF Check, RunsOut
<1>18. ASSUME NEW t \in Threads, Recurse(t) PROVE TypeOK'
  <2>1. [prefixed |-> FALSE, path |-> redirect_uri_] \in URIs
    BY DEF URIs
  <2> QED
    BY <1>18, <2>1 DEF Recurse
<1>19. ASSUME NEW t \in Threads, ReturnOK(t) \/ ReturnError(t) PROVE TypeOK'
  BY <1>19 DEF ReturnOK, ReturnError, Return
<1> QED
  BY <1>1, <1>2, <1>3, <1>4, <1>5, <1>6, <1>7, <1>8, <1>9, <1>10, <1>11, <1>12,
     <1>13, <1>14, <1>15, <1>16, <1>17, <1>18, <1>19 DEF Next, Handle

\* Type correctness: no interleaving of calls and of backend behaviours, races
\* included, takes a field of the handler out of its type.
THEOREM Typing == Spec => []TypeOK
BY TypeInit, TypeStep, PTL DEF Spec


-----------------------------------------------------------------------------
(***************************************************************************)
(* From here on no host redirects.  Then redirect_ stays FALSE, so every   *)
(* call takes the lock, and what a worker holds between two steps is what  *)
(* the step before left: the request it was called with, the connection it *)
(* opened, the reply that came over it.  That is the strengthening which   *)
(* makes mutual exclusion and the answers inductive.                       *)
(***************************************************************************)

\* No trace of a redirect is ever left in the fields.
NoRedirectState ==
    /\ ~redirect_ /\ redirect_host_ = NoHost /\ uri_prefix_ = Mounted
    /\ \A t \in Threads : pc[t] \notin {"clear", "again"}

\* Whoever is inside owns the mutex, and no call in progress has a result.
OwnerInside ==
    \A t \in Threads :
        /\ Inside(t) => mtx = t
        /\ ~At(t, "idle") => status[t] = "none"

\* The request a worker was called with is the one its client wants answered.
Asked(t) ==
    pc[t] \in {"enter", "lock", "prepare"} =>
        /\ req[t].prefixed = Mounted
        /\ OrSlash(req[t].path) = want[t].path
        /\ want[t].host = RemoteHost

\* It is sent to the configured host, without the prefix.
Sent(t) ==
    /\ pc[t] \in {"connect", "write", "read"} =>
         /\ host[t] = RemoteHost /\ want[t].host = RemoteHost
         /\ uri[t] = [prefixed |-> FALSE, path |-> want[t].path]
    /\ At(t, "write") => sock.host = RemoteHost /\ ~sock.busy
    /\ At(t, "read")  => sock.host = RemoteHost /\ sock.busy /\ sock.sent = uri[t]

\* The reply read, and then parsed, is the reply to it.
Answered(t) ==
    /\ At(t, "parse") =>
         /\ raw[t].kind \notin Redirecting
         /\ raw[t].kind # "garbage" => Answers(raw[t], want[t])
    /\ pc[t] \in {"check", "unlock"} => Answers(resp[t], want[t])

Served == \A t \in Threads : Asked(t) /\ Sent(t) /\ Answered(t)

PlainInv == TypeOK /\ NoRedirectState /\ OwnerInside /\ Served

\* The invariant holds before the first call.
LEMMA PlainInit == Init => PlainInv
<1> SUFFICES ASSUME Init PROVE PlainInv
    OBVIOUS
<1>1. TypeOK
    BY TypeInit
<1>2. NoRedirectState
    BY DEF Init, NoRedirectState
<1>3. OwnerInside /\ Served
    BY DEF Init, OwnerInside, Served, Inside, Section, At, Asked, Sent, Answered
<1> QED
    BY <1>1, <1>2, <1>3 DEF PlainInv

\* With its prefix intact, the handler forwards what its client wants.
LEMMA StrippedPlain ==
    ASSUME NEW u \in URIs, u.prefixed = Mounted, uri_prefix_ = Mounted
    PROVE  Stripped(u) = [prefixed |-> FALSE, path |-> OrSlash(u.path)]
BY ProxyAssumption DEF Stripped, URIs

\* No step of a thread breaks it, as long as no host redirects.
LEMMA PlainStep ==
    ASSUME NoRedirects, PlainInv, [Next]_vars
    PROVE  PlainInv'
<1> DEFINE Rest == NoRedirectState /\ OwnerInside /\ Served
<1>0. TypeOK'
    BY TypeStep DEF PlainInv
<1> USE DEF PlainInv, TypeOK, NoRedirectState, OwnerInside, Served,
        Asked, Sent, Answered, Inside, Section, At, Goto, fields
<1>1. CASE UNCHANGED vars
    BY <1>1 DEF vars, Answers
<1>2. ASSUME NEW t \in Threads, Call(t) PROVE Rest'
  <2>1. PICK p \in Paths : Call(t)!(p)
    BY <1>2 DEF Call
  <2> QED
    BY <2>1
<1>3. ASSUME NEW t \in Threads, Enter(t) PROVE Rest'
    BY <1>3 DEF Enter
<1>4. ASSUME NEW t \in Threads, Lock(t) PROVE Rest'
    BY <1>4, ProxyAssumption DEF Lock
<1>5. ASSUME NEW t \in Threads, Clear(t) PROVE Rest'
    BY <1>5 DEF Clear
<1>6. ASSUME NEW t \in Threads, RefuseUnconfigured(t) PROVE Rest'
    BY <1>6 DEF RefuseUnconfigured
<1>7. ASSUME NEW t \in Threads, Prepare(t) PROVE Rest'
  <2>1. NoRedirectState' /\ OwnerInside'
    BY <1>7 DEF Prepare
  <2>2. ASSUME NEW u \in Threads, u # t PROVE Asked(u)' /\ Sent(u)' /\ Answered(u)'
    BY <1>7, <2>2 DEF Prepare
  <2>3. Stripped(req[t]) = [prefixed |-> FALSE, path |-> want[t].path]
    BY <1>7, StrippedPlain DEF Prepare
  <2>4. Asked(t)' /\ Sent(t)' /\ Answered(t)'
    BY <1>7, <2>3 DEF Prepare
  <2> QED
    BY <2>1, <2>2, <2>4
<1>8. ASSUME NEW t \in Threads, Connect(t) PROVE Rest'
  <2>1. NoRedirectState' /\ OwnerInside'
    BY <1>8 DEF Connect
  <2>2. ASSUME NEW u \in Threads, u # t PROVE Asked(u)' /\ Sent(u)' /\ Answered(u)'
    BY <1>8, <2>2 DEF Connect
  <2>3. /\ [Closed EXCEPT !.host = host[t]].host = host[t]
        /\ [Closed EXCEPT !.host = host[t]].busy = FALSE
    BY DEF Closed
  <2>4. Asked(t)' /\ Sent(t)' /\ Answered(t)'
    BY <1>8, <2>3 DEF Connect
  <2> QED
    BY <2>1, <2>2, <2>4
<1>9. ASSUME NEW t \in Threads, ConnectThrows(t) PROVE Rest'
    BY <1>9 DEF ConnectThrows
<1>10. ASSUME NEW t \in Threads, Write(t) PROVE Rest'
  <2>1. NoRedirectState' /\ OwnerInside'
    BY <1>10 DEF Write
  <2>2. ASSUME NEW u \in Threads, u # t PROVE Asked(u)' /\ Sent(u)' /\ Answered(u)'
    BY <1>10, <2>2 DEF Write
  <2>3. Asked(t)' /\ Sent(t)' /\ Answered(t)'
    BY <1>10 DEF Write
  <2> QED
    BY <2>1, <2>2, <2>3
<1>11. ASSUME NEW t \in Threads, WriteThrows(t) PROVE Rest'
    BY <1>11 DEF WriteThrows
<1>22. ASSUME NEW t \in Threads, WriteFails(t) PROVE Rest'
    BY <1>22 DEF WriteFails
<1>12. ASSUME NEW t \in Threads, Read(t) PROVE Rest'
  <2>1. NoRedirectState' /\ OwnerInside'
    BY <1>12 DEF Read
  <2>2. ASSUME NEW u \in Threads, u # t PROVE Asked(u)' /\ Sent(u)' /\ Answered(u)'
    BY <1>12, <2>2 DEF Read
  <2>3. sock.busy /\ sock.host = RemoteHost /\ sock.sent = uri[t]
    BY <1>12 DEF Read
  <2>4. PICK k \in Behaviours[RemoteHost] \cap Replies :
          \E place \in Targets(k, sock.host) :
            raw' = [raw EXCEPT ![t] = [kind |-> k, host |-> sock.host,
                                       uri |-> sock.sent, to |-> place]]
    BY <1>12, <2>3 DEF Read
  <2>5. raw'[t].kind = k /\ raw'[t].host = RemoteHost /\ raw'[t].uri = uri[t]
    BY <2>3, <2>4
  <2>6. k \notin Redirecting
    BY <2>4, ProxyAssumption DEF NoRedirects
  <2>7. Asked(t)' /\ Sent(t)' /\ Answered(t)'
    BY <1>12, <2>5, <2>6 DEF Read, Answers
  <2> QED
    BY <2>1, <2>2, <2>7
<1>13. ASSUME NEW t \in Threads, ReadFails(t) PROVE Rest'
  <2>1. NoRedirectState' /\ OwnerInside'
    BY <1>13 DEF ReadFails
  <2>2. ASSUME NEW u \in Threads, u # t PROVE Asked(u)' /\ Sent(u)' /\ Answered(u)'
    BY <1>13, <2>2 DEF ReadFails
  <2>3. Asked(t)' /\ Sent(t)' /\ Answered(t)'
    BY <1>13 DEF ReadFails
  <2> QED
    BY <2>1, <2>2, <2>3
<1>14. ASSUME NEW t \in Threads, ReadBlocks(t) PROVE Rest'
  <2>1. NoRedirectState' /\ OwnerInside'
    BY <1>14 DEF ReadBlocks
  <2>2. ASSUME NEW u \in Threads, u # t PROVE Asked(u)' /\ Sent(u)' /\ Answered(u)'
    BY <1>14, <2>2 DEF ReadBlocks
  <2>3. Asked(t)' /\ Sent(t)' /\ Answered(t)'
    BY <1>14 DEF ReadBlocks
  <2> QED
    BY <2>1, <2>2, <2>3
<1>15. ASSUME NEW t \in Threads, Parse(t) PROVE Rest'
  <2>0. ~redirect_' /\ redirect_host_' = NoHost
    BY <1>15, Zenon DEF Parse, Redirecting
  <2>1. NoRedirectState' /\ OwnerInside'
    BY <1>15, <2>0 DEF Parse
  <2>2. ASSUME NEW u \in Threads, u # t PROVE Asked(u)' /\ Sent(u)' /\ Answered(u)'
    BY <1>15, <2>2 DEF Parse
  <2>3. Asked(t)' /\ Sent(t)' /\ Answered(t)'
    BY <1>15 DEF Parse
  <2> QED
    BY <2>1, <2>2, <2>3
<1>16. ASSUME NEW t \in Threads, ParseThrows(t) PROVE Rest'
  <2>0. ~redirect_' /\ redirect_host_' = NoHost
    BY <1>16, Zenon DEF ParseThrows, Redirecting
  <2>1. NoRedirectState' /\ OwnerInside'
    BY <1>16, <2>0 DEF ParseThrows
  <2>2. ASSUME NEW u \in Threads, u # t PROVE Asked(u)' /\ Sent(u)' /\ Answered(u)'
    BY <1>16, <2>2 DEF ParseThrows
  <2>3. Asked(t)' /\ Sent(t)' /\ Answered(t)'
    BY <1>16 DEF ParseThrows
  <2> QED
    BY <2>1, <2>2, <2>3
<1>17. ASSUME NEW t \in Threads, ParseLoops(t) PROVE Rest'
  <2>0. ~redirect_' /\ redirect_host_' = NoHost
    BY <1>17, Zenon DEF ParseLoops, Redirecting
  <2>1. NoRedirectState' /\ OwnerInside'
    BY <1>17, <2>0 DEF ParseLoops
  <2>2. Served'
    BY <1>17 DEF ParseLoops
  <2> QED
    BY <2>1, <2>2
<1>18. ASSUME NEW t \in Threads, Check(t) PROVE Rest'
    BY <1>18 DEF Check
<1>23. ASSUME NEW t \in Threads, RunsOut(t) PROVE Rest'
    BY <1>23 DEF RunsOut
<1>19. ASSUME NEW t \in Threads, Recurse(t) PROVE Rest'
    BY <1>19 DEF Recurse
<1>20. ASSUME NEW t \in Threads, ReturnOK(t) PROVE Rest'
    BY <1>20 DEF ReturnOK, Return
<1>21. ASSUME NEW t \in Threads, ReturnError(t) PROVE Rest'
    BY <1>21 DEF ReturnError, Return
<1> QED
    BY <1>0, <1>1, <1>2, <1>3, <1>4, <1>5, <1>6, <1>7, <1>8, <1>9, <1>10, <1>11, <1>12, <1>13, <1>14, <1>15, <1>16, <1>17, <1>18, <1>19, <1>20, <1>21, <1>22, <1>23 DEF Next, Handle

-----------------------------------------------------------------------------
\* The invariant holds in every deployment whose hosts do not redirect.
LEMMA PlainInvariant ==
    ASSUME NoRedirects
    PROVE  Spec => []PlainInv
BY PlainInit, PlainStep, PTL DEF Spec

\* Without redirects the mutex does its work: the code between lock and unlock
\* of HandleRequest is run by one worker at a time, whatever fails and wherever
\* a worker is lost.
THEOREM Exclusion ==
    ASSUME NoRedirects
    PROVE  Spec => []MutualExclusion
<1>1. PlainInv => MutualExclusion
    BY DEF PlainInv, OwnerInside, MutualExclusion
<1> QED
    BY <1>1, PlainInvariant, PTL

\* ... and only its owner ever unlocks it.
THEOREM OwnersUnlock ==
    ASSUME NoRedirects
    PROVE  Spec => []UnlockOwned
<1>1. PlainInv => UnlockOwned
    BY DEF PlainInv, OwnerInside, UnlockOwned, Inside, Section
<1> QED
    BY <1>1, PlainInvariant, PTL

\* Without redirects every worker hands its client the answer to the client's
\* own request, although all of them share one socket.
THEOREM OwnReplies ==
    ASSUME NoRedirects
    PROVE  Spec => []OwnReply
<1>1. PlainInv => OwnReply
    BY DEF PlainInv, Served, Answered, OwnReply, At
<1> QED
    BY <1>1, PlainInvariant, PTL

-----------------------------------------------------------------------------
(* The handler implements SerialProxy when no host redirects. *)

\* Init is an initial state of SerialProxy.
LEMMA SerialInit == Init => Serial!Init
BY DEF Init, Serial!Init, Phase, At, Source

\* Every step is a step of SerialProxy or leaves its variables alone.
LEMMA SerialStep ==
    ASSUME NoRedirects, PlainInv, [Next]_vars
    PROVE  [Serial!Next]_(Serial!vars)
<1> USE DEF PlainInv, TypeOK, NoRedirectState, OwnerInside, Inside, Section, At, Goto,
        fields, Phase, Source
<1>1. CASE UNCHANGED vars
    BY <1>1 DEF vars, Serial!vars
<1>2. ASSUME NEW t \in Threads, Call(t) PROVE Serial!Ask(t)
  <2>1. PICK p \in Paths : Call(t)!(p)
    BY <1>2 DEF Call
  <2>2. [host |-> RemoteHost, path |-> OrSlash(p)] \in Places
    BY OrSlashType, ProxyAssumption DEF Places, Names
  <2> QED
    BY <2>1, <2>2 DEF Serial!Ask
<1>3. ASSUME NEW t \in Threads, Lock(t) PROVE Serial!Begin(t)
    BY <1>3 DEF Lock, Serial!Begin
<1>4. ASSUME NEW t \in Threads, ReturnOK(t) \/ ReturnError(t) PROVE Serial!Finish(t)
  <2>1. CASE ReturnError(t)
    BY <1>4, <2>1 DEF ReturnError, Return, Serial!Finish
  <2>2. CASE ReturnOK(t)
    <3>0. Answers(resp[t], want[t])
      BY <2>2 DEF ReturnOK, Served, Answered
    <3>1. resp[t].host = want[t].host /\ resp[t].uri.path = want[t].path
      BY ONLY <3>0 DEF Answers
    <3>2. want[t] = [host |-> want[t].host, path |-> want[t].path]
      BY DEF Places
    <3>3. [host |-> resp[t].host, path |-> resp[t].uri.path] = want[t]
      BY <3>1, <3>2
    <3> QED
      BY <2>2, <3>3 DEF ReturnOK, Return, Serial!Finish
  <2> QED
    BY <1>4, <2>1, <2>2
<1>5. ASSUME NEW t \in Threads,
             ConnectThrows(t) \/ WriteThrows(t) \/ ReadBlocks(t) \/ ParseThrows(t)
               \/ RunsOut(t)
      PROVE  Serial!Lose(t)
  <2>1. /\ pc[t] \in {"connect", "write", "read", "parse", "loop"}
        /\ pc' = [pc EXCEPT ![t] = "dead"] \/ pc' = [pc EXCEPT ![t] = "stuck"]
        /\ UNCHANGED <<resp, status, want, mtx>>
    BY <1>5 DEF ConnectThrows, WriteThrows, ReadBlocks, ParseThrows, RunsOut
  <2> QED
    BY <2>1 DEF Serial!Lose
<1>6. ASSUME NEW t \in Threads,
             Enter(t) \/ RefuseUnconfigured(t) \/ Prepare(t) \/ Connect(t) \/ Write(t)
               \/ WriteFails(t) \/ Read(t) \/ ReadFails(t) \/ Parse(t) \/ ParseLoops(t)
               \/ Check(t)
      PROVE  UNCHANGED Serial!vars
  <2>1. \E there \in PCs \ {"idle", "dead", "stuck"} : pc' = [pc EXCEPT ![t] = there]
    BY <1>6 DEF Enter, RefuseUnconfigured, Prepare, Connect, Write, WriteFails,
                Read, ReadFails, Parse, ParseLoops, Check, PCs
  <2>2. pc[t] \in PCs \ {"idle", "dead", "stuck"}
    BY <1>6 DEF Enter, RefuseUnconfigured, Prepare, Connect, Write, WriteFails,
                Read, ReadFails, Parse, ParseLoops, Check, PCs
  <2>3. UNCHANGED <<status, mtx>>
    BY <1>6 DEF Enter, RefuseUnconfigured, Prepare, Connect, Write, WriteFails,
                Read, ReadFails, Parse, ParseLoops, Check
  <2>4. want' = want /\ \A u \in Threads \ {t} : resp'[u] = resp[u]
    BY <1>6 DEF Enter, RefuseUnconfigured, Prepare, Connect, Write, WriteFails,
                Read, ReadFails, Parse, ParseLoops, Check, Served, Answered
  <2>5. \A u \in Threads : Phase(u)' = Phase(u)
    BY <2>1, <2>2
  <2>6. \A u \in Threads : Source(u)' = Source(u)
    BY <2>2, <2>3, <2>4
  <2> QED
    BY <2>3, <2>4, <2>5, <2>6 DEF Serial!vars
<1>7. ASSUME NEW t \in Threads, Clear(t) \/ Recurse(t) PROVE FALSE
    BY <1>7 DEF Clear, Recurse
<1> QED
    BY <1>1, <1>2, <1>3, <1>4, <1>5, <1>6, <1>7 DEF Next, Handle, Serial!Next

\* Without redirects the handler, its lock, its one socket and all its failures
\* are an implementation of SerialProxy: calls are served one at a time, and a
\* call that succeeds returns the answer it asked for.
THEOREM Implements ==
    ASSUME NoRedirects
    PROVE  Spec => SerialSpec
BY SerialInit, SerialStep, PlainInvariant, PTL DEF Spec, SerialSpec, Serial!Spec

=============================================================================
