------------------------------ MODULE Webserver ------------------------------
(***************************************************************************)
(* The server's pool of worker threads (webserver.cc): run() starts the    *)
(* workers and joins them in order, each worker accepts a connection under *)
(* mtx_, reads a request line by line, lets a handler answer it, counts    *)
(* the answer and writes it back.  An exception in a worker ends it for    *)
(* good; one in run() itself ends the program.  stop() clears running_,    *)
(* which a worker looks at only between two connections.                   *)
(*                                                                         *)
(* Clients, the kernel's queue of connections and the handlers are the     *)
(* environment: a client may connect, send lines, close, or stay silent; a *)
(* handler may return any of Results, throw, or never return.              *)
(***************************************************************************)
EXTENDS Naturals, Sequences, FiniteSets

CONSTANTS
    NumThreads,   \* opt_->thread
    Conns,        \* the connections clients make
    NoConn,
    Main,         \* the thread that calls run()
    Nobody,       \* owner of a free mutex
    Codes,        \* values of Response::code_
    KnownCodes,   \* those with an entry in responseCodeStrings
    Results,      \* what a handler may leave: [status, code] records
    MaxLines,     \* bound: lines a client sends before the empty one
    MaxAcceptErrors  \* failures of accept(): it is assumed to fail finitely often

Workers == 1..NumThreads

ASSUME WebserverAssumption ==
    /\ NumThreads \in Nat \ {0}
    /\ NoConn \notin Conns
    /\ Main \notin Workers /\ Nobody \notin Workers /\ Main # Nobody
    /\ KnownCodes \subseteq Codes /\ "none" \notin Codes
    /\ "401" \in KnownCodes /\ "500" \in KnownCodes
    /\ Results \subseteq [status : {"OK", "Error"}, code : Codes]
    /\ MaxLines \in Nat /\ MaxAcceptErrors \in Nat

VARIABLES
    pc,            \* pc[w]: the next step of worker w
    serving,       \* serving[w]: the connection w holds a socket of
    lines,         \* lines[w]: lines of the request read so far
    result,        \* result[w]: what the handler, or the challenge, left
    running_,      \* the flag stop() clears
    mtx,           \* mtx_: its owner
    mainpc, next,  \* run(): its step, and the thread it starts or joins next
    counters,      \* counters_, added up over the URIs
    backlog,       \* connections the kernel has made and nobody accepted
    conn,          \* conn[c]: not made, waiting, open or closed
    reply,         \* reply[c]: the code of the answer the client received
    acceptErrors,  \* failures of accept() so far
    taken          \* history: connections w accepted since stop()

shared == <<running_, mtx, counters, backlog, conn, reply, acceptErrors, taken>>
main   == <<mainpc, next>>
vars   == <<pc, serving, lines, result, main, shared>>

NoResult == [status |-> "OK", code |-> "none"]

PCs == {"unborn", "start", "test", "lock", "accept", "log", "read", "parse", "auth",
        "handle", "hung", "count", "format", "write", "exited"}

Init ==
    /\ pc      = [w \in Workers |-> "unborn"]
    /\ serving = [w \in Workers |-> NoConn]
    /\ lines   = [w \in Workers |-> 0]
    /\ result  = [w \in Workers |-> NoResult]
    /\ running_ \in BOOLEAN        \* the constructor does not set it
    /\ mtx = Nobody
    /\ mainpc = "bind" /\ next = 1
    /\ counters = [k \in Codes |-> 0]
    /\ backlog = <<>>
    /\ conn  = [c \in Conns |-> "away"]
    /\ reply = [c \in Conns |-> "none"]
    /\ acceptErrors = 0
    /\ taken = [w \in Workers |-> 0]

Move(w, from, to) == pc[w] = from /\ pc' = [pc EXCEPT ![w] = to]

-----------------------------------------------------------------------------
(* Faulty variants of the steps, which the properties must tell apart *)

\* The lock is dropped from acceptConnection.
LockAccept_NoLock(w) ==
    /\ Move(w, "lock", "accept")
    /\ UNCHANGED <<serving, lines, result, main, shared>>

\* The catch block leaves with the mutex locked.
AcceptFails_KeepsLock(w) ==
    /\ Move(w, "accept", "test")
    /\ acceptErrors < MaxAcceptErrors
    /\ acceptErrors' = acceptErrors + 1
    /\ UNCHANGED <<serving, lines, result, main, running_, mtx, counters, backlog, conn,
                   reply, taken>>

\* A socket on the heap: it is not closed when an exception ends the worker.
Throw_ForgetsSocket(w, from) ==
    /\ Move(w, from, "exited")
    /\ serving' = [serving EXCEPT ![w] = NoConn]
    /\ UNCHANGED <<lines, result, main, shared>>

\* The worker goes on without looking at running_.
Close_NoTest(w, from) ==
    /\ Move(w, from, "lock")
    /\ conn' = [conn EXCEPT ![serving[w]] = "closed"]
    /\ serving' = [serving EXCEPT ![w] = NoConn]
    /\ UNCHANGED <<lines, result, main, running_, mtx, counters, backlog, acceptErrors,
                   taken>>

\* A challenge is answered without being counted.
Challenge_NotCounted(w) ==
    /\ Move(w, "auth", "format")
    /\ result' = [result EXCEPT ![w] = [status |-> "OK", code |-> "401"]]
    /\ UNCHANGED <<serving, lines, main, shared>>

\* The last thread is not joined.
UnlockLog_OneShort ==
    /\ mainpc = "log"
    /\ mtx' = Nobody
    /\ IF next + 1 < NumThreads
       THEN next' = next + 1 /\ mainpc' = "join"
       ELSE UNCHANGED next /\ mainpc' = "done"
    /\ UNCHANGED <<pc, serving, lines, result, running_, counters, backlog, conn, reply,
                   acceptErrors, taken>>

\* One thread too many is joined.
UnlockLog_PastEnd ==
    /\ mainpc = "log"
    /\ mtx' = Nobody
    /\ IF next <= NumThreads
       THEN next' = next + 1 /\ mainpc' = "join"
       ELSE UNCHANGED next /\ mainpc' = "done"
    /\ UNCHANGED <<pc, serving, lines, result, running_, counters, backlog, conn, reply,
                   acceptErrors, taken>>

\* running_ is set in front of every test, not once.
Test_SetsRunning(w) ==
    /\ Move(w, "test", "lock")
    /\ running_' = TRUE
    /\ UNCHANGED <<serving, lines, result, main, mtx, counters, backlog, conn, reply,
                   acceptErrors, taken>>

\* The lock to report a thread lives as long as run(), not as the loop body.
UnlockLog_KeepsLock ==
    /\ mainpc = "log"
    /\ IF next < NumThreads
       THEN next' = next + 1 /\ mainpc' = "join"
       ELSE UNCHANGED next /\ mainpc' = "done"
    /\ UNCHANGED <<pc, serving, lines, result, shared>>

-----------------------------------------------------------------------------
(* run(), stop() and the clients *)

\* The acceptor is made: bound to the port, and listening.
Bind ==
    /\ mainpc = "bind"
    /\ mainpc' = "spawn"
    /\ UNCHANGED <<pc, serving, lines, result, next, shared>>

\* The acceptor or a thread cannot be made.  Nothing catches what their
\* constructors throw, neither here nor in main(), so the process ends, and
\* the kernel closes what it had open.
RunFails ==
    /\ mainpc \in {"bind", "spawn"}
    /\ mainpc' = "aborted"
    /\ pc' = [w \in Workers |-> "exited"]
    /\ serving' = [w \in Workers |-> NoConn]
    /\ backlog' = <<>>
    /\ conn' = [c \in Conns |-> IF conn[c] = "away" THEN "away" ELSE "closed"]
    /\ UNCHANGED <<lines, result, next, running_, mtx, counters, reply, acceptErrors, taken>>

\* threads_.emplace_back: worker `next` begins to run.
Spawn ==
    /\ mainpc = "spawn"
    /\ Move(next, "unborn", "start")
    /\ IF next < NumThreads
       THEN next' = next + 1 /\ UNCHANGED mainpc
       ELSE next' = 1 /\ mainpc' = "join"
    /\ UNCHANGED <<serving, lines, result, shared>>

\* threads_[i].join() returns.
Join ==
    /\ mainpc = "join"
    /\ pc[next] = "exited"
    /\ mainpc' = "lock"
    /\ UNCHANGED <<pc, serving, lines, result, next, shared>>

\* The lock taken to report that thread i exited ...
LockLog ==
    /\ mainpc = "lock"
    /\ mtx = Nobody
    /\ mtx' = Main
    /\ mainpc' = "log"
    /\ UNCHANGED <<pc, serving, lines, result, next, running_, counters, backlog, conn,
                   reply, acceptErrors, taken>>

\* ... and given back at the end of the loop body.
UnlockLog ==
    /\ mainpc = "log"
    /\ mtx' = Nobody
    /\ IF next < NumThreads
       THEN next' = next + 1 /\ mainpc' = "join"
       ELSE UNCHANGED next /\ mainpc' = "done"
    /\ UNCHANGED <<pc, serving, lines, result, running_, counters, backlog, conn, reply,
                   acceptErrors, taken>>

RunMain == Bind \/ Spawn \/ Join \/ LockLog \/ UnlockLog

\* stop() may be called by any thread at any time.
Stop ==
    /\ running_
    /\ running_' = FALSE
    /\ taken' = [w \in Workers |-> 0]
    /\ UNCHANGED <<pc, serving, lines, result, main, mtx, counters, backlog, conn,
                   reply, acceptErrors>>

\* A client's connection is made by the kernel and waits to be accepted.
Connect ==
    \E c \in Conns :
        /\ mainpc \notin {"bind", "aborted"}
        /\ conn[c] = "away"
        /\ conn' = [conn EXCEPT ![c] = "waiting"]
        /\ backlog' = Append(backlog, c)
        /\ UNCHANGED <<pc, serving, lines, result, main, running_, mtx, counters, reply,
                       acceptErrors, taken>>

-----------------------------------------------------------------------------
(* runThread and acceptConnection *)

\* running_ = true, by every worker as it starts.
Start(w) ==
    /\ Move(w, "start", "test")
    /\ running_' = TRUE
    /\ UNCHANGED <<serving, lines, result, main, mtx, counters, backlog, conn, reply,
                   acceptErrors, taken>>

\* while (running_)
Test(w) ==
    /\ Move(w, "test", IF running_ THEN "lock" ELSE "exited")
    /\ UNCHANGED <<serving, lines, result, main, shared>>

LockAccept(w) ==
    /\ Move(w, "lock", "accept")
    /\ mtx = Nobody
    /\ mtx' = w
    /\ UNCHANGED <<serving, lines, result, main, running_, counters, backlog, conn,
                   reply, acceptErrors, taken>>

\* accept() blocks, with mtx_ held, until a connection is there.
Accept(w) ==
    /\ Move(w, "accept", "log")
    /\ backlog # <<>>
    /\ backlog' = Tail(backlog)
    /\ conn'    = [conn EXCEPT ![Head(backlog)] = "open"]
    /\ serving' = [serving EXCEPT ![w] = Head(backlog)]
    /\ lines'   = [lines EXCEPT ![w] = 0]
    /\ taken'   = [taken EXCEPT ![w] = IF running_ THEN @ ELSE @ + 1]
    /\ mtx' = Nobody
    /\ UNCHANGED <<result, main, running_, counters, reply, acceptErrors>>

\* accept() throws: the catch block makes it `false`, and the loop goes on.
AcceptFails(w) ==
    /\ Move(w, "accept", "test")
    /\ acceptErrors < MaxAcceptErrors
    /\ acceptErrors' = acceptErrors + 1
    /\ mtx' = Nobody
    /\ UNCHANGED <<serving, lines, result, main, running_, counters, backlog, conn,
                   reply, taken>>

\* An exception: the socket is closed as the stack unwinds, and the worker ends.
Throw(w, from) ==
    /\ Move(w, from, "exited")
    /\ conn' = [conn EXCEPT ![serving[w]] = "closed"]
    /\ serving' = [serving EXCEPT ![w] = NoConn]
    /\ UNCHANGED <<lines, result, main, running_, mtx, counters, backlog, reply,
                   acceptErrors, taken>>

\* processConnection returns: the socket goes out of scope.
Close(w, from) ==
    /\ Move(w, from, "test")
    /\ conn' = [conn EXCEPT ![serving[w]] = "closed"]
    /\ serving' = [serving EXCEPT ![w] = NoConn]
    /\ UNCHANGED <<lines, result, main, running_, mtx, counters, backlog, acceptErrors,
                   taken>>

-----------------------------------------------------------------------------
(* processConnection and processRawRequest *)

\* remote_endpoint() throws when the client is already gone.
LogConnection(w) ==
    /\ Move(w, "log", "read")
    /\ UNCHANGED <<serving, lines, result, main, shared>>

LogThrows(w) == Throw(w, "log")

\* A line of text: longer than "\r\n".
ReadLine(w) ==
    /\ pc[w] = "read"
    /\ lines[w] < MaxLines
    /\ lines' = [lines EXCEPT ![w] = @ + 1]
    /\ UNCHANGED <<pc, serving, result, main, shared>>

\* The empty line, or nothing because the client closed: both end the request.
ReadEnd(w) ==
    /\ Move(w, "read", "parse")
    /\ UNCHANGED <<serving, lines, result, main, shared>>

\* Without a request line, or with a malformed one, there is no answer.
ParseFails(w) == Close(w, "parse") /\ UNCHANGED reply

\* body_.resize(contentLength), a number the client chose, may throw.
ParseThrows(w) == lines[w] > 0 /\ Throw(w, "parse")

Parse(w) ==
    /\ Move(w, "parse", "auth")
    /\ lines[w] > 0
    /\ UNCHANGED <<serving, lines, result, main, shared>>

\* The URI lies in a realm and the request has not its credentials.
Challenge(w) ==
    /\ Move(w, "auth", "count")
    /\ result' = [result EXCEPT ![w] = [status |-> "OK", code |-> "401"]]
    /\ UNCHANGED <<serving, lines, main, shared>>

Authorised(w) ==
    /\ Move(w, "auth", "handle")
    /\ UNCHANGED <<serving, lines, result, main, shared>>

\* HandleRequest returns; what it returns is ignored.
Handle(w) ==
    \E r \in Results :
        /\ Move(w, "handle", "count")
        /\ result' = [result EXCEPT ![w] = r]
        /\ UNCHANGED <<serving, lines, main, shared>>

HandlerThrows(w) == Throw(w, "handle")

HandlerHangs(w) ==
    /\ Move(w, "handle", "hung")
    /\ UNCHANGED <<serving, lines, result, main, shared>>

\* counters_.increment(uri, resp.status())
Count(w) ==
    /\ Move(w, "count", "format")
    /\ counters' = [counters EXCEPT ![result[w].code] = @ + 1]
    /\ UNCHANGED <<serving, lines, result, main, running_, mtx, backlog, conn, reply,
                   acceptErrors, taken>>

\* ToString: responseCodeStrings.at(code_) throws for a code it does not have.
Format(w) ==
    /\ Move(w, "format", "write")
    /\ result[w].code \in KnownCodes
    /\ UNCHANGED <<serving, lines, result, main, shared>>

FormatThrows(w) == result[w].code \notin KnownCodes /\ Throw(w, "format")

\* The answer reaches the client, or not: the error of write() is ignored.
Write(w) ==
    /\ Close(w, "write")
    /\ \/ reply' = [reply EXCEPT ![serving[w]] = result[w].code]
       \/ UNCHANGED reply

-----------------------------------------------------------------------------
\* What a worker does without waiting for its client.
Work(w) ==
    \/ Start(w) \/ Test(w) \/ LockAccept(w) \/ Accept(w) \/ AcceptFails(w)
    \/ LogConnection(w) \/ LogThrows(w) \/ ParseFails(w) \/ ParseThrows(w) \/ Parse(w)
    \/ Challenge(w) \/ Authorised(w)
    \/ Handle(w) \/ HandlerThrows(w) \/ HandlerHangs(w)
    \/ Count(w) \/ Format(w) \/ FormatThrows(w) \/ Write(w)

Next ==
    \/ RunMain \/ RunFails \/ Stop \/ Connect
    \/ \E w \in Workers : Work(w) \/ ReadLine(w) \/ ReadEnd(w)

\* Threads that can run are scheduled; a client owes the server nothing.
Spec == Init /\ [][Next]_vars /\ WF_vars(RunMain) /\ \A w \in Workers : WF_vars(Work(w))

-----------------------------------------------------------------------------
(* Properties *)

TypeOK ==
    /\ pc \in [Workers -> PCs]
    /\ serving \in [Workers -> Conns \cup {NoConn}]
    /\ lines \in [Workers -> 0..MaxLines]
    /\ result \in [Workers -> [status : {"OK", "Error"}, code : Codes \cup {"none"}]]
    /\ running_ \in BOOLEAN
    /\ mtx \in Workers \cup {Main, Nobody}
    /\ mainpc \in {"bind", "spawn", "join", "lock", "log", "done", "aborted"}
    /\ next \in Workers
    /\ counters \in [Codes -> Nat]
    /\ backlog \in Seq(Conns)
    /\ conn \in [Conns -> {"away", "waiting", "open", "closed"}]
    /\ reply \in [Conns -> Codes \cup {"none"}]
    /\ acceptErrors \in 0..MaxAcceptErrors
    /\ taken \in [Workers -> Nat]

\* One thread at a time is in accept() or reports the end of a worker: that is
\* all the code mtx_ guards.
AcceptExclusive ==
    /\ \A v, w \in Workers : pc[v] = "accept" /\ pc[w] = "accept" => v = w
    /\ mainpc = "log" => \A w \in Workers : pc[w] # "accept"

\* A connection is open exactly as long as one worker holds its socket: it is
\* not leaked when an exception ends the worker, nor shared by two workers.
SocketOwned ==
    /\ \A c \in Conns : conn[c] = "open" <=> \E w \in Workers : serving[w] = c
    /\ \A v, w \in Workers : serving[v] = serving[w] /\ serving[v] # NoConn => v = w

\* An answer a client has received is already in the counters, the 401s that
\* never reach a handler included.
CountedFirst ==
    \A k \in Codes : Cardinality({c \in Conns : reply[c] = k}) <= counters[k]

\* After stop() a worker takes at most the one connection it is already waiting
\* for (acceptConnections, webserver_test.cc).
LastConnection ==
    ~running_ => \A w \in Workers : taken[w] <= 1

\* run() returns when every worker has ended, not before; then no socket is open
\* and nobody is left to change the counters.
JoinedAll ==
    mainpc = "done" =>
        /\ \A w \in Workers : pc[w] = "exited"
        /\ \A c \in Conns : conn[c] # "open"

\* A handler that does not return OK makes the server answer 500
\* (request_handler.h).
ErrorIs500 ==
    \A w \in Workers :
        pc[w] = "write" /\ result[w].status = "Error" => result[w].code = "500"

\* Nothing in the server itself keeps a worker: it waits for its client, or is
\* in a handler that does not return, or has ended.
Occupied(w) == pc[w] \in {"read", "hung", "exited"}

\* A connection that waits is accepted, unless all workers are occupied, as long
\* as accept() fails only finitely often.
WaitingAccepted ==
    \A c \in Conns :
        conn[c] = "waiting" ~> (conn[c] # "waiting" \/ \A w \in Workers : Occupied(w))

\* An accepted connection is closed, unless its client or its handler keeps it.
AcceptedClosed ==
    \A c \in Conns :
        conn[c] = "open" ~> (conn[c] = "closed"
                               \/ \E w \in Workers : serving[w] = c /\ Occupied(w))

\* stop() was called, and no worker is left that has not set running_ yet.
Stopped == ~running_ /\ \A w \in Workers : pc[w] \notin {"unborn", "start"}

\* A stop() is undone only by a worker that begins after it: from then on every
\* worker that comes back from a connection, or from an error of accept(), ends.
StopHolds == [][Stopped => Stopped']_vars

\* A worker waits for its client, for its handler or for a connection.
Waits(w) == pc[w] \in {"read", "hung"} \/ (pc[w] = "accept" /\ backlog = <<>>)

\* After such a stop() run() returns, unless a worker waits for ever: nothing else
\* can keep it, neither mtx_, which it takes itself, nor the order of the joins.
StopEnds ==
    <>Stopped /\ (\A w \in Workers : []<>~Waits(w)) => <>(mainpc \in {"done", "aborted"})

=============================================================================
