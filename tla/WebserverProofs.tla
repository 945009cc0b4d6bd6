--------------------------- MODULE WebserverProofs ---------------------------
(***************************************************************************)
(* Proofs about Webserver, for any number of workers and connections.      *)
(***************************************************************************)
EXTENDS Webserver, SequenceTheorems, FiniteSetTheorems, TLAPS

\* The server starts well typed.
LEMMA TypeInit == Init => TypeOK
<1> SUFFICES ASSUME Init PROVE TypeOK
    OBVIOUS
<1>1. 1 \in Workers /\ 0 \in 0..MaxLines /\ 0 \in 0..MaxAcceptErrors
    BY WebserverAssumption DEF Workers
<1>2. NoResult \in [status : {"OK", "Error"}, code : Codes \cup {"none"}]
    BY DEF NoResult
<1>3. <<>> \in Seq(Conns)
    OBVIOUS
<1> QED
    BY <1>1, <1>2, <1>3 DEF Init, TypeOK, PCs

\* Every step of the main thread, of a worker or of a client keeps the types.
LEMMA TypeStep == TypeOK /\ [Next]_vars => TypeOK'
<1> SUFFICES ASSUME TypeOK, [Next]_vars PROVE TypeOK'
    OBVIOUS
<1> USE DEF TypeOK, PCs, Move, main, shared
<1>1. CASE UNCHANGED vars
    BY <1>1 DEF vars
<1>2. CASE RunMain
  <2>1. next < NumThreads => next + 1 \in Workers
    BY WebserverAssumption DEF Workers
  <2>2. 1 \in Workers
    BY WebserverAssumption DEF Workers
  <2> QED
    BY <1>2, <2>1, <2>2 DEF RunMain, Bind, Spawn, Join, LockLog, UnlockLog
<1>14. CASE RunFails
    BY <1>14 DEF RunFails
<1>3. CASE Stop
    BY <1>3 DEF Stop
<1>4. CASE Connect
    BY <1>4 DEF Connect
<1>5. ASSUME NEW w \in Workers,
             Start(w) \/ Test(w) \/ LockAccept(w) \/ LogConnection(w) \/ Parse(w)
               \/ Authorised(w) \/ HandlerHangs(w) \/ Format(w) \/ ReadEnd(w)
      PROVE  TypeOK'
    BY <1>5 DEF Start, Test, LockAccept, LogConnection, Parse, Authorised, HandlerHangs,
                Format, ReadEnd
<1>6. ASSUME NEW w \in Workers, Accept(w) PROVE TypeOK'
  <2>1. Head(backlog) \in Conns /\ Tail(backlog) \in Seq(Conns)
    BY <1>6 DEF Accept
  <2> QED
    BY <1>6, <2>1, WebserverAssumption DEF Accept
<1>7. ASSUME NEW w \in Workers, AcceptFails(w) PROVE TypeOK'
    BY <1>7, WebserverAssumption DEF AcceptFails
<1>8. ASSUME NEW w \in Workers, LogThrows(w) \/ ParseThrows(w) \/ HandlerThrows(w) \/ FormatThrows(w)
      PROVE  TypeOK'
    BY <1>8 DEF LogThrows, ParseThrows, HandlerThrows, FormatThrows, Throw
<1>9. ASSUME NEW w \in Workers, ReadLine(w) PROVE TypeOK'
    BY <1>9, WebserverAssumption DEF ReadLine
<1>10. ASSUME NEW w \in Workers, ParseFails(w) PROVE TypeOK'
    BY <1>10 DEF ParseFails, Close
<1>11. ASSUME NEW w \in Workers, Challenge(w) \/ Handle(w) PROVE TypeOK'
  <2>1. [status |-> "OK", code |-> "401"] \in [status : {"OK", "Error"}, code : Codes]
    BY WebserverAssumption
  <2>2. PICK r \in [status : {"OK", "Error"}, code : Codes] :
            result' = [result EXCEPT ![w] = r]
    BY <1>11, <2>1, WebserverAssumption DEF Challenge, Handle
  <2>3. r \in [status : {"OK", "Error"}, code : Codes \cup {"none"}]
    OBVIOUS
  <2> QED
    BY <1>11, <2>2, <2>3 DEF Challenge, Handle
<1>12. ASSUME NEW w \in Workers, Count(w) PROVE TypeOK'
  <2> DEFINE k == result[w].code
  <2>1. counters' = [counters EXCEPT ![k] = counters[k] + 1]
    BY <1>12 DEF Count
  <2>2. counters' \in [Codes -> Nat]
    <3>1. CASE k \in Codes
      <4>1. counters[k] + 1 \in Nat
        BY <3>1
      <4> QED
        BY ONLY <2>1, <4>1, counters \in [Codes -> Nat]
    <3>2. CASE k \notin Codes
      BY ONLY <2>1, <3>2, counters \in [Codes -> Nat]
    <3> QED
      BY <3>1, <3>2
  <2> QED
    BY <1>12, <2>2 DEF Count
<1>13. ASSUME NEW w \in Workers, Write(w) PROVE TypeOK'
    BY <1>13 DEF Write, Close
<1> QED
    BY <1>1, <1>2, <1>3, <1>4, <1>5, <1>6, <1>7, <1>8, <1>9, <1>10, <1>11, <1>12, <1>13, <1>14
    DEF Next, Work

\* Type correctness of the server, whatever clients and handlers do.
THEOREM Typing == Spec => []TypeOK
BY TypeInit, TypeStep, PTL DEF Spec

-----------------------------------------------------------------------------
(***************************************************************************)
(* The inductive invariant.  It says what the pc of a thread tells about   *)
(* the state the thread shares with others: the mutex, the flag running_,  *)
(* the sockets, and how far run() has come.                                *)
(***************************************************************************)

\* The steps at which a worker holds a socket.
HasSocket == {"log", "read", "parse", "auth", "handle", "hung", "count", "format", "write"}

\* Who accepts, or reports the end of a worker, owns the mutex.
MutexInv ==
    /\ \A w \in Workers : pc[w] = "accept" => mtx = w
    /\ mainpc = "log" => mtx = Main

\* Once stopped, a worker that still has a connection to accept had none since.
StopInv ==
    ~running_ => \A w \in Workers :
                    /\ taken[w] <= 1
                    /\ pc[w] \in {"lock", "accept"} => taken[w] = 0

\* What waits is waiting once, and what a worker serves is open.
BacklogInv ==
    /\ \A i \in 1..Len(backlog) : conn[backlog[i]] = "waiting"
    /\ \A i, j \in 1..Len(backlog) : backlog[i] = backlog[j] => i = j

SocketInv ==
    /\ \A w \in Workers : serving[w] # NoConn <=> pc[w] \in HasSocket
    /\ \A w \in Workers : serving[w] # NoConn => conn[serving[w]] = "open"
    /\ \A v, w \in Workers : serving[v] = serving[w] /\ serving[v] # NoConn => v = w
    /\ \A c \in Conns : conn[c] = "open" => \E w \in Workers : serving[w] = c

\* The workers before `next` have been joined.
JoinInv ==
    /\ mainpc # "spawn" => \A w \in Workers : w < next => pc[w] = "exited"
    /\ mainpc \in {"lock", "log", "done"} => pc[next] = "exited"
    /\ mainpc = "done" => next = NumThreads

PoolInv == TypeOK /\ MutexInv /\ StopInv /\ BacklogInv /\ SocketInv /\ JoinInv

\* The other steps of a worker, which touch neither mutex, nor flag, nor queue:
\* each moves pc[w] between two steps that hold a socket.
Plain(w) ==
    \/ LogConnection(w) \/ ReadLine(w) \/ ReadEnd(w) \/ Parse(w)
    \/ Challenge(w) \/ Authorised(w) \/ Handle(w) \/ HandlerHangs(w)
    \/ Count(w) \/ Format(w)

\* The steps that end with the socket closed.
Closing(w) == LogThrows(w) \/ ParseThrows(w) \/ HandlerThrows(w) \/ FormatThrows(w)
                \/ ParseFails(w) \/ Write(w)

\* What a plain step does to the state the invariant speaks of.
LEMMA PlainStep ==
    ASSUME TypeOK, NEW w \in Workers, Plain(w)
    PROVE  /\ pc[w] \in HasSocket
           /\ \E there \in HasSocket : pc' = [pc EXCEPT ![w] = there]
           /\ UNCHANGED <<serving, main, running_, mtx, backlog, conn, taken>>
<1> USE DEF TypeOK, HasSocket, Move, main, shared
<1>1. CASE ReadLine(w)
  <2>1. pc' = [pc EXCEPT ![w] = "read"]
    BY <1>1 DEF ReadLine
  <2> QED
    BY <1>1, <2>1 DEF ReadLine
<1>2. CASE LogConnection(w) \/ ReadEnd(w) \/ Parse(w) \/ Challenge(w) \/ Authorised(w)
             \/ HandlerHangs(w) \/ Format(w)
    BY <1>2 DEF LogConnection, ReadEnd, Parse, Challenge, Authorised, HandlerHangs, Format
<1>3. CASE Handle(w) \/ Count(w)
    BY <1>3 DEF Handle, Count
<1> QED
    BY <1>1, <1>2, <1>3 DEF Plain

\* What a closing step does to it.
LEMMA ClosingStep ==
    ASSUME TypeOK, NEW w \in Workers, Closing(w)
    PROVE  /\ pc[w] \in HasSocket
           /\ \E there \in {"test", "exited"} : pc' = [pc EXCEPT ![w] = there]
           /\ conn' = [conn EXCEPT ![serving[w]] = "closed"]
           /\ serving' = [serving EXCEPT ![w] = NoConn]
           /\ UNCHANGED <<main, running_, mtx, backlog, taken>>
BY DEF TypeOK, HasSocket, Move, main, Closing, LogThrows, ParseThrows, HandlerThrows, FormatThrows,
       ParseFails, Write, Throw, Close

\* The steps of a worker are those of the two kinds, and the ones at the head of
\* its loop.
LEMMA StepKinds ==
    ASSUME [Next]_vars
    PROVE  \/ UNCHANGED vars \/ Bind \/ Spawn \/ Join \/ LockLog \/ UnlockLog \/ Stop
           \/ Connect \/ RunFails
           \/ \E w \in Workers : \/ Start(w) \/ Test(w) \/ LockAccept(w) \/ Accept(w)
                                 \/ AcceptFails(w) \/ Plain(w) \/ Closing(w)
BY DEF Next, RunMain, Work, Plain, Closing

\* Mutual exclusion on mtx_ is kept.
LEMMA MutexStep ==
    ASSUME PoolInv, [Next]_vars
    PROVE  MutexInv'
<1> USE WebserverAssumption DEF PoolInv, TypeOK, MutexInv, Move, main, shared
<1>1. CASE UNCHANGED vars
    BY <1>1 DEF vars
<1>2. CASE Bind \/ Spawn \/ Join \/ LockLog \/ UnlockLog \/ Stop \/ Connect \/ RunFails
    BY <1>2 DEF Bind, Spawn, Join, LockLog, UnlockLog, Stop, Connect, RunFails
<1>3. ASSUME NEW w \in Workers,
             Start(w) \/ Test(w) \/ LockAccept(w) \/ Accept(w) \/ AcceptFails(w)
      PROVE  MutexInv'
    BY <1>3 DEF Start, Test, LockAccept, Accept, AcceptFails
<1>4. ASSUME NEW w \in Workers, Plain(w) PROVE MutexInv'
  <2>1. /\ pc[w] \in HasSocket
        /\ UNCHANGED <<serving, main, running_, mtx, backlog, conn, taken>>
    BY <1>4, PlainStep
  <2>2. PICK there \in HasSocket : pc' = [pc EXCEPT ![w] = there]
    BY <1>4, PlainStep
  <2> QED
    BY <2>1, <2>2 DEF HasSocket
<1>5. ASSUME NEW w \in Workers, Closing(w) PROVE MutexInv'
  <2>1. /\ pc[w] \in HasSocket /\ serving' = [serving EXCEPT ![w] = NoConn]
        /\ UNCHANGED <<main, running_, mtx, backlog, taken>>
    BY <1>5, ClosingStep
  <2>2. PICK there \in {"test", "exited"} : pc' = [pc EXCEPT ![w] = there]
    BY <1>5, ClosingStep
  <2> QED
    BY <2>1, <2>2 DEF HasSocket
<1> QED
    BY <1>1, <1>2, <1>3, <1>4, <1>5, StepKinds

\* A stopped worker accepts nothing new.
LEMMA StopStep ==
    ASSUME PoolInv, [Next]_vars
    PROVE  StopInv'
<1> USE DEF PoolInv, TypeOK, StopInv, Move, main, shared
<1>1. CASE UNCHANGED vars
    BY <1>1 DEF vars
<1>2. CASE Bind \/ Spawn \/ Join \/ LockLog \/ UnlockLog \/ Stop \/ Connect \/ RunFails
    BY <1>2 DEF Bind, Spawn, Join, LockLog, UnlockLog, Stop, Connect, RunFails
<1>3. ASSUME NEW w \in Workers,
             Start(w) \/ Test(w) \/ LockAccept(w) \/ AcceptFails(w)
      PROVE  StopInv'
    BY <1>3 DEF Start, Test, LockAccept, AcceptFails
<1>4. ASSUME NEW w \in Workers, Accept(w) PROVE StopInv'
    BY <1>4 DEF Accept
<1>5. ASSUME NEW w \in Workers, Plain(w) PROVE StopInv'
  <2>1. /\ pc[w] \in HasSocket
        /\ UNCHANGED <<serving, main, running_, mtx, backlog, conn, taken>>
    BY <1>5, PlainStep
  <2>2. PICK there \in HasSocket : pc' = [pc EXCEPT ![w] = there]
    BY <1>5, PlainStep
  <2> QED
    BY <2>1, <2>2 DEF HasSocket
<1>6. ASSUME NEW w \in Workers, Closing(w) PROVE StopInv'
  <2>1. /\ pc[w] \in HasSocket /\ serving' = [serving EXCEPT ![w] = NoConn]
        /\ UNCHANGED <<main, running_, mtx, backlog, taken>>
    BY <1>6, ClosingStep
  <2>2. PICK there \in {"test", "exited"} : pc' = [pc EXCEPT ![w] = there]
    BY <1>6, ClosingStep
  <2> QED
    BY <2>1, <2>2 DEF HasSocket
<1> QED
    BY <1>1, <1>2, <1>3, <1>4, <1>5, <1>6, StepKinds

\* run() never gets ahead of the workers.
LEMMA JoinStep ==
    ASSUME PoolInv, [Next]_vars
    PROVE  JoinInv'
<1> USE DEF PoolInv, TypeOK, JoinInv, Move, main, shared
<1>1. CASE UNCHANGED vars
    BY <1>1 DEF vars
<1>2. CASE Bind \/ Spawn
    BY <1>2, WebserverAssumption DEF Bind, Spawn, Workers
<1>3. CASE Join \/ LockLog \/ Stop \/ Connect \/ RunFails
    BY <1>3 DEF Join, LockLog, Stop, Connect, RunFails
<1>4. CASE UnlockLog
    BY <1>4, WebserverAssumption DEF UnlockLog, Workers
<1>5. ASSUME NEW w \in Workers,
             Start(w) \/ Test(w) \/ LockAccept(w) \/ Accept(w) \/ AcceptFails(w)
      PROVE  JoinInv'
    BY <1>5 DEF Start, Test, LockAccept, Accept, AcceptFails
<1>6. ASSUME NEW w \in Workers, Plain(w) PROVE JoinInv'
  <2>1. /\ pc[w] \in HasSocket
        /\ UNCHANGED <<serving, main, running_, mtx, backlog, conn, taken>>
    BY <1>6, PlainStep
  <2>2. PICK there \in HasSocket : pc' = [pc EXCEPT ![w] = there]
    BY <1>6, PlainStep
  <2> QED
    BY <2>1, <2>2 DEF HasSocket
<1>7. ASSUME NEW w \in Workers, Closing(w) PROVE JoinInv'
  <2>1. /\ pc[w] \in HasSocket /\ serving' = [serving EXCEPT ![w] = NoConn]
        /\ UNCHANGED <<main, running_, mtx, backlog, taken>>
    BY <1>7, ClosingStep
  <2>2. PICK there \in {"test", "exited"} : pc' = [pc EXCEPT ![w] = there]
    BY <1>7, ClosingStep
  <2> QED
    BY <2>1, <2>2 DEF HasSocket
<1> QED
    BY <1>1, <1>2, <1>3, <1>4, <1>5, <1>6, <1>7, StepKinds

\* A connection moves from the queue to one worker, and is closed by it.
LEMMA SocketStep ==
    ASSUME PoolInv, [Next]_vars
    PROVE  BacklogInv' /\ SocketInv'
<1> USE DEF PoolInv, TypeOK, BacklogInv, SocketInv, Move, main, shared
<1>1. CASE UNCHANGED vars
    BY <1>1 DEF vars
<1>2. CASE Spawn
    BY <1>2 DEF Spawn, HasSocket
<1>3. CASE Bind \/ Join \/ LockLog \/ UnlockLog \/ Stop
    BY <1>3 DEF Bind, Join, LockLog, UnlockLog, Stop
<1>9. CASE RunFails
    BY <1>9, WebserverAssumption DEF RunFails, HasSocket
<1>4. CASE Connect
  <2>1. PICK c \in Conns : Connect!(c)
    BY <1>4 DEF Connect
  <2>2. /\ backlog' = Append(backlog, c) /\ Len(backlog') = Len(backlog) + 1
        /\ backlog'[Len(backlog) + 1] = c
        /\ \A i \in 1..Len(backlog) : backlog'[i] = backlog[i]
    BY <2>1
  <2>3. \A i \in 1..Len(backlog) : backlog[i] \in Conns /\ backlog[i] # c
    BY <2>1
  <2>4. BacklogInv'
    BY <2>1, <2>2, <2>3
  <2>5. SocketInv'
    BY <2>1
  <2> QED
    BY <2>4, <2>5
<1>5. ASSUME NEW w \in Workers, Start(w) \/ Test(w) \/ LockAccept(w) \/ AcceptFails(w)
      PROVE  BacklogInv' /\ SocketInv'
  <2>1. pc[w] \notin HasSocket /\ UNCHANGED <<serving, backlog, conn>>
    BY <1>5 DEF Start, Test, LockAccept, AcceptFails, HasSocket
  <2>2. PICK there \in {"test", "lock", "accept", "exited"} : pc' = [pc EXCEPT ![w] = there]
    BY <1>5 DEF Start, Test, LockAccept, AcceptFails
  <2> QED
    BY <2>1, <2>2 DEF HasSocket
<1>6. ASSUME NEW w \in Workers, Accept(w) PROVE BacklogInv' /\ SocketInv'
  <2> DEFINE c == Head(backlog)
  <2>1. /\ backlog # <<>> /\ Len(backlog) \in Nat \ {0}
        /\ c = backlog[1] /\ c \in Conns /\ conn[c] = "waiting"
    BY <1>6 DEF Accept
  <2>2. /\ Len(backlog') = Len(backlog) - 1
        /\ \A i \in 1..Len(backlog') : backlog'[i] = backlog[i + 1]
    BY <1>6, <2>1 DEF Accept
  <2>3. \A i \in 1..Len(backlog') : backlog[i + 1] # c /\ backlog[i + 1] \in Conns
    BY <2>1, <2>2
  <2>4. BacklogInv'
    BY <1>6, <2>1, <2>2, <2>3 DEF Accept
  <2>5. c # NoConn /\ \A v \in Workers : serving[v] # c
    BY <2>1, WebserverAssumption
  <2>6. serving[w] = NoConn
    BY <1>6 DEF Accept, HasSocket
  <2>7. /\ pc' = [pc EXCEPT ![w] = "log"]
        /\ conn' = [conn EXCEPT ![c] = "open"]
        /\ serving' = [serving EXCEPT ![w] = c]
    BY <1>6 DEF Accept
  <2>8. SocketInv'
    <3>1. \A v \in Workers : (serving[v] # NoConn <=> pc[v] \in HasSocket)'
      BY <2>5, <2>7 DEF HasSocket
    <3>2. \A v \in Workers : (serving[v] # NoConn => conn[serving[v]] = "open")'
      BY <2>1, <2>5, <2>7
    <3>3. \A v, u \in Workers :
            (serving[v] = serving[u] /\ serving[v] # NoConn => v = u)'
      BY <2>5, <2>7
    <3>4. \A d \in Conns : (conn[d] = "open" => \E v \in Workers : serving[v] = d)'
      <4> SUFFICES ASSUME NEW d \in Conns, conn'[d] = "open"
                   PROVE  \E v \in Workers : serving'[v] = d
        OBVIOUS
      <4>1. CASE d = c
        BY <2>7, <4>1
      <4>2. CASE d # c
        <5>1. PICK v \in Workers : serving[v] = d
          BY <2>1, <2>7, <4>2
        <5>2. v # w
          BY <2>6, <5>1, WebserverAssumption
        <5> QED
          BY <2>7, <5>1, <5>2
      <4> QED
        BY <4>1, <4>2
    <3> QED
      BY <3>1, <3>2, <3>3, <3>4
  <2> QED
    BY <2>4, <2>8
<1>7. ASSUME NEW w \in Workers, Plain(w) PROVE BacklogInv' /\ SocketInv'
  <2>1. pc[w] \in HasSocket /\ UNCHANGED <<serving, backlog, conn>>
    BY <1>7, PlainStep
  <2>2. PICK there \in HasSocket : pc' = [pc EXCEPT ![w] = there]
    BY <1>7, PlainStep
  <2> QED
    BY <2>1, <2>2
<1>8. ASSUME NEW w \in Workers, Closing(w) PROVE BacklogInv' /\ SocketInv'
  <2> DEFINE c == serving[w]
  <2>1. /\ pc[w] \in HasSocket
        /\ conn' = [conn EXCEPT ![c] = "closed"]
        /\ serving' = [serving EXCEPT ![w] = NoConn]
        /\ UNCHANGED backlog
    BY <1>8, ClosingStep
  <2>2. PICK there \in {"test", "exited"} : pc' = [pc EXCEPT ![w] = there]
    BY <1>8, ClosingStep
  <2>3. c \in Conns /\ c # NoConn /\ conn[c] = "open"
    BY <2>1
  <2>4. \A v \in Workers : v # w => serving[v] # c
    BY <2>3
  <2>5. BacklogInv'
    <3>1. \A i \in 1..Len(backlog) : backlog[i] \in Conns /\ backlog[i] # c
      BY <2>3
    <3> QED
      BY <2>1, <3>1
  <2>6. SocketInv'
    <3>1. \A v \in Workers : (serving[v] # NoConn <=> pc[v] \in HasSocket)'
      BY <2>1, <2>2 DEF HasSocket
    <3>2. \A v \in Workers : (serving[v] # NoConn => conn[serving[v]] = "open")'
      BY <2>1, <2>4
    <3>3. \A v, u \in Workers :
            (serving[v] = serving[u] /\ serving[v] # NoConn => v = u)'
      BY <2>1
    <3>4. \A d \in Conns : (conn[d] = "open" => \E v \in Workers : serving[v] = d)'
      <4> SUFFICES ASSUME NEW d \in Conns, conn'[d] = "open"
                   PROVE  \E v \in Workers : serving'[v] = d
        OBVIOUS
      <4>1. d # c /\ conn[d] = "open"
        BY <2>1
      <4>2. PICK v \in Workers : serving[v] = d
        BY <4>1
      <4> QED
        BY <2>1, <4>1, <4>2
    <3> QED
      BY <3>1, <3>2, <3>3, <3>4
  <2> QED
    BY <2>5, <2>6
<1> QED
    BY <1>1, <1>2, <1>3, <1>4, <1>5, <1>6, <1>7, <1>8, <1>9, StepKinds

\* The invariant holds in every state of the server.
LEMMA PoolInvariant == Spec => []PoolInv
<1>1. Init => PoolInv
    BY TypeInit, WebserverAssumption
    DEF Init, PoolInv, MutexInv, StopInv, BacklogInv, SocketInv, JoinInv, HasSocket, Workers
<1>2. PoolInv /\ [Next]_vars => PoolInv'
    BY TypeStep, MutexStep, StopStep, JoinStep, SocketStep DEF PoolInv
<1> QED
    BY <1>1, <1>2, PTL DEF Spec

\* mtx_ lets one thread at a time into accept() or into the report that a
\* worker ended, however many workers there are.
THEOREM AcceptIsExclusive == Spec => []AcceptExclusive
<1>1. PoolInv => AcceptExclusive
    BY WebserverAssumption DEF PoolInv, MutexInv, AcceptExclusive
<1> QED
    BY <1>1, PoolInvariant, PTL

\* No socket is leaked or shared, whichever exception ends a worker.
THEOREM SocketsAreOwned == Spec => []SocketOwned
<1>1. PoolInv => SocketOwned
    BY WebserverAssumption DEF PoolInv, TypeOK, SocketInv, SocketOwned
<1> QED
    BY <1>1, PoolInvariant, PTL

\* After stop() each worker accepts at most one connection more.
THEOREM StopIsFinal == Spec => []LastConnection
<1>1. PoolInv => LastConnection
    BY DEF PoolInv, StopInv, LastConnection
<1> QED
    BY <1>1, PoolInvariant, PTL

\* run() returns only when all workers have ended and all sockets are closed.
THEOREM RunJoinsAll == Spec => []JoinedAll
<1>1. ASSUME PoolInv PROVE JoinedAll
  <2>1. SUFFICES ASSUME mainpc = "done"
                 PROVE  /\ \A w \in Workers : pc[w] = "exited"
                        /\ \A c \in Conns : conn[c] # "open"
    BY DEF JoinedAll
  <2>2. \A w \in Workers : pc[w] = "exited"
    BY <1>1, <2>1 DEF PoolInv, TypeOK, JoinInv, Workers
  <2>3. \A w \in Workers : serving[w] = NoConn
    BY <1>1, <2>2 DEF PoolInv, SocketInv, HasSocket
  <2> QED
    BY <1>1, <2>2, <2>3, WebserverAssumption DEF PoolInv, SocketInv
<1> QED
    BY <1>1, PoolInvariant, PTL

-----------------------------------------------------------------------------
(***************************************************************************)
(* The ledger.  CountedFirst alone does not say which of the counts belong *)
(* to answers that are still on their way: those of the workers between    *)
(* Count and Write are counted, and nobody has received them.              *)
(***************************************************************************)

\* Worker w has counted an answer k and not sent it.
Owes(w, k) == pc[w] \in {"format", "write"} /\ result[w].code = k

\* The connections whose answer k is in the counter.
Accounted(k) == {c \in Conns : \/ reply[c] = k
                               \/ \E w \in Workers : serving[w] = c /\ Owes(w, k)}

Ledger == \A k \in Codes : /\ IsFiniteSet(Accounted(k))
                           /\ Cardinality(Accounted(k)) <= counters[k]

\* Only Count makes a worker owe an answer.
LEMMA OwesStep ==
    ASSUME TypeOK, [Next]_vars, NEW v \in Workers, pc'[v] \in {"format", "write"}, ~Count(v)
    PROVE  pc[v] \in {"format", "write"} /\ result'[v] = result[v] /\ serving'[v] = serving[v]
<1> USE DEF TypeOK, Move, main, shared
<1>1. CASE UNCHANGED vars
    BY <1>1 DEF vars
<1>2. CASE Bind \/ Spawn \/ Join \/ LockLog \/ UnlockLog \/ Stop \/ Connect \/ RunFails
    BY <1>2 DEF Bind, Spawn, Join, LockLog, UnlockLog, Stop, Connect, RunFails
<1>3. ASSUME NEW w \in Workers, w # v, Work(w) \/ ReadLine(w) \/ ReadEnd(w)
      PROVE  pc'[v] = pc[v] /\ result'[v] = result[v] /\ serving'[v] = serving[v]
    BY <1>3 DEF Work, ReadLine, ReadEnd, Start, Test, LockAccept, Accept, AcceptFails, LogConnection,
       LogThrows, ParseFails, ParseThrows, Parse, Challenge, Authorised, Handle, HandlerThrows,
       HandlerHangs, Count, Format, FormatThrows, Write, Throw, Close
<1>4. CASE Work(v) \/ ReadLine(v) \/ ReadEnd(v)
    BY <1>4 DEF Work, ReadLine, ReadEnd, Start, Test, LockAccept, Accept, AcceptFails, LogConnection,
       LogThrows, ParseFails, ParseThrows, Parse, Challenge, Authorised, Handle, HandlerThrows,
       HandlerHangs, Format, FormatThrows, Write, Throw, Close
<1> QED
    BY <1>1, <1>2, <1>3, <1>4 DEF Next, RunMain

\* A client only receives what its worker owed it.
LEMMA ReplyStep ==
    ASSUME TypeOK, [Next]_vars, NEW c \in Conns, reply'[c] # reply[c]
    PROVE  \E w \in Workers : serving[w] = c /\ pc[w] = "write" /\ reply'[c] = result[w].code
<1> USE DEF TypeOK, Move, main, shared
<1>1. ~ UNCHANGED reply
    OBVIOUS
<1>2. PICK w \in Workers : Write(w)
    BY <1>1 DEF vars, Next, RunMain, Bind, RunFails, Spawn, Join, LockLog, UnlockLog, Stop, Connect, Work, ReadLine,
       ReadEnd, Start, Test, LockAccept, Accept, AcceptFails, LogConnection, LogThrows, ParseFails,
       ParseThrows, Parse, Challenge, Authorised, Handle, HandlerThrows, HandlerHangs, Count, Format,
       FormatThrows, Throw
<1>3. reply' = [reply EXCEPT ![serving[w]] = result[w].code] /\ pc[w] = "write"
    BY <1>1, <1>2 DEF Write, Close
<1> QED
    BY <1>3

\* Counting comes before the answer, so the ledger is never behind.
LEMMA LedgerStep ==
    ASSUME TypeOK, Ledger, [Next]_vars
    PROVE  Ledger'
<1> SUFFICES ASSUME NEW k \in Codes
             PROVE  /\ IsFiniteSet(Accounted(k)')
                    /\ Cardinality(Accounted(k)') <= counters'[k]
    BY DEF Ledger
<1>1. IsFiniteSet(Accounted(k)) /\ Cardinality(Accounted(k)) <= counters[k] /\ counters[k] \in Nat
    BY DEF Ledger, TypeOK
<1>2. CASE \E u \in Workers : Count(u)
  <2>1. PICK u \in Workers : Count(u)
    BY <1>2
  <2>2. /\ pc[u] = "count" /\ pc' = [pc EXCEPT ![u] = "format"]
        /\ counters' = [counters EXCEPT ![result[u].code] = @ + 1]
        /\ UNCHANGED <<serving, result, reply>>
    BY <2>1 DEF Count, Move
  <2>3. \A w \in Workers : w # u => (Owes(w, k)' <=> Owes(w, k))
    BY <2>2 DEF Owes, TypeOK
  <2>4. CASE result[u].code = k
    <3>1. Accounted(k)' \subseteq Accounted(k) \cup {serving[u]}
      BY <2>2, <2>3 DEF Accounted
    <3> DEFINE A == Accounted(k) \cup {serving[u]}
    <3>2. IsFiniteSet(A) /\ Cardinality(A) <= Cardinality(Accounted(k)) + 1
      <4> DEFINE S == Accounted(k)  x == serving[u]
      <4>1. IsFiniteSet(S) /\ Cardinality(S) \in Nat
        BY <1>1, FS_CardinalityType
      <4> HIDE DEF S, x
      <4>2. IsFiniteSet(S \cup {x})
        BY <4>1, FS_AddElement
      <4>3. Cardinality(S \cup {x}) = IF x \in S THEN Cardinality(S) ELSE Cardinality(S) + 1
        BY <4>1, FS_AddElement
      <4>4. Cardinality(S \cup {x}) <= Cardinality(S) + 1
        BY <4>1, <4>3
      <4> QED
        BY <4>2, <4>4 DEF S, x
    <3>3. IsFiniteSet(Accounted(k)') /\ Cardinality(Accounted(k)') <= Cardinality(A)
      BY <3>1, <3>2, FS_Subset
    <3>4. counters'[k] = counters[k] + 1
      BY <2>2, <2>4 DEF TypeOK
    <3> QED
      BY <1>1, <3>2, <3>3, <3>4, FS_CardinalityType
  <2>5. CASE result[u].code # k
    <3>1. ~ Owes(u, k)'
      BY <2>2, <2>5 DEF Owes
    <3>2. Accounted(k)' \subseteq Accounted(k)
      BY <2>2, <2>3, <3>1 DEF Accounted
    <3>3. counters'[k] = counters[k]
      BY <2>2, <2>5 DEF TypeOK
    <3> QED
      BY <1>1, <3>2, <3>3, FS_Subset, FS_CardinalityType
  <2> QED
    BY <2>4, <2>5
<1>3. CASE ~ \E u \in Workers : Count(u)
  <2>1. Accounted(k)' \subseteq Accounted(k)
    <3> SUFFICES ASSUME NEW c \in Conns, c \in Accounted(k)' PROVE c \in Accounted(k)
      BY DEF Accounted
    <3>1. CASE reply'[c] = k
      <4>1. CASE reply[c] = k
        BY <4>1 DEF Accounted
      <4>2. CASE reply[c] # k
        <5>1. PICK w \in Workers : serving[w] = c /\ pc[w] = "write" /\ reply'[c] = result[w].code
          BY <3>1, <4>2, ReplyStep
        <5> QED
          BY <3>1, <5>1 DEF Accounted, Owes
      <4> QED
        BY <4>1, <4>2
    <3>2. CASE reply'[c] # k
      <4>1. PICK w \in Workers : serving'[w] = c /\ pc'[w] \in {"format", "write"}
                                 /\ result'[w].code = k
        BY <3>2 DEF Accounted, Owes
      <4>2. pc[w] \in {"format", "write"} /\ result'[w] = result[w] /\ serving'[w] = serving[w]
        BY <4>1, <1>3, OwesStep
      <4> QED
        BY <4>1, <4>2 DEF Accounted, Owes
    <3> QED
      BY <3>1, <3>2
  <2>2. counters' = counters
    BY <1>3 DEF vars, shared, main, Next, RunMain, Bind, RunFails, Spawn, Join, LockLog, UnlockLog, Stop, Connect,
       Work, ReadLine, ReadEnd, Start, Test, LockAccept, Accept, AcceptFails, LogConnection, LogThrows,
       ParseFails, ParseThrows, Parse, Challenge, Authorised, Handle, HandlerThrows, HandlerHangs,
       Format, FormatThrows, Write, Throw, Close
  <2> QED
    BY <1>1, <2>1, <2>2, FS_Subset, FS_CardinalityType
<1> QED
    BY <1>2, <1>3

\* What clients have received is in the counters, for any number of workers,
\* connections and codes, and whatever fails between counting and sending.
THEOREM AnswersAreCounted == Spec => []CountedFirst
<1>1. Init => Ledger
  <2> SUFFICES ASSUME Init, NEW k \in Codes
               PROVE  IsFiniteSet(Accounted(k)) /\ Cardinality(Accounted(k)) <= counters[k]
    BY DEF Ledger
  <2>1. Accounted(k) = {}
    BY WebserverAssumption DEF Init, Accounted, Owes
  <2>2. counters[k] = 0
    BY DEF Init
  <2> QED
    BY <2>1, <2>2, FS_EmptySet
<1>2. TypeOK /\ Ledger => CountedFirst
  <2> SUFFICES ASSUME TypeOK, Ledger, NEW k \in Codes
               PROVE  Cardinality({c \in Conns : reply[c] = k}) <= counters[k]
    BY DEF CountedFirst
  <2> DEFINE received == {c \in Conns : reply[c] = k}
  <2>1. received \subseteq Accounted(k)
    BY DEF Accounted
  <2>2. IsFiniteSet(Accounted(k)) /\ Cardinality(Accounted(k)) <= counters[k] /\ counters[k] \in Nat
    BY DEF Ledger, TypeOK
  <2>3. IsFiniteSet(received) /\ Cardinality(received) <= Cardinality(Accounted(k))
    BY <2>1, <2>2, FS_Subset
  <2> QED
    BY <2>2, <2>3, FS_CardinalityType
<1> QED
    BY <1>1, <1>2, TypeInit, TypeStep, LedgerStep, PTL DEF Spec

-----------------------------------------------------------------------------

\* A worker that has begun does not begin again, and no other action sets running_.
LEMMA StoppedStep == TypeOK /\ [Next]_vars => (Stopped => Stopped')
<1> SUFFICES ASSUME TypeOK, [Next]_vars, Stopped PROVE Stopped'
    OBVIOUS
<1>1. /\ pc \in [Workers -> PCs] /\ next \in Workers /\ ~running_
      /\ \A w \in Workers : pc[w] \notin {"unborn", "start"}
    BY DEF TypeOK, Stopped
<1>2. CASE UNCHANGED vars
    BY <1>2 DEF vars, shared, Stopped
<1>3. CASE RunMain \/ Stop \/ Connect
  <2>1. pc' = pc /\ ~running_'
      BY <1>1, <1>3 DEF RunMain, Bind, Spawn, Join, LockLog, UnlockLog, Stop, Connect, Move, shared
  <2> QED
      BY <1>1, <2>1 DEF Stopped
<1>5. CASE RunFails
      BY <1>1, <1>5 DEF RunFails, Stopped
<1>4. ASSUME NEW w \in Workers, Work(w) \/ ReadLine(w) \/ ReadEnd(w) PROVE Stopped'
  <2>1. ~Start(w)
      BY <1>1 DEF Start, Move
  <2>2. running_' = running_
      BY <1>4, <2>1 DEF Work, ReadLine, ReadEnd, Test, LockAccept, Accept, AcceptFails,
         LogConnection, LogThrows, ParseFails, ParseThrows, Parse, Challenge, Authorised,
         Handle, HandlerThrows, HandlerHangs, Count, Format, FormatThrows, Write, Throw,
         Close, shared
  <2>3. \E to : to \notin {"unborn", "start"} /\ pc' = [pc EXCEPT ![w] = to]
    <3>1. CASE ReadLine(w)
        BY <1>1, <3>1 DEF ReadLine
    <3>2. CASE ~ReadLine(w)
        BY <1>4, <2>1, <3>2 DEF Work, ReadEnd, Test, LockAccept, Accept, AcceptFails,
           LogConnection, LogThrows, ParseFails, ParseThrows, Parse, Challenge, Authorised,
           Handle, HandlerThrows, HandlerHangs, Count, Format, FormatThrows, Write, Throw,
           Close, Move
    <3> QED
        BY <3>1, <3>2
  <2> QED
      BY <1>1, <2>2, <2>3 DEF Stopped
<1> QED
    BY <1>2, <1>3, <1>4, <1>5 DEF Next

\* A stop() that comes when every worker has begun is for good, for any number of
\* workers and whatever fails (webserver.cc:127, 143-145).
THEOREM StopIsKept == Spec => StopHolds
<1>1. TypeOK /\ [Next]_vars => [Stopped => Stopped']_vars
    BY StoppedStep
<1> QED
    BY <1>1, Typing, PTL DEF Spec, StopHolds

=============================================================================
