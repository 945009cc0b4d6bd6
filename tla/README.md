# Specifications of Just-Enough

TLA+ models of the Just-Enough HTTP server, the TLC runs that check them and the
proofs about them. All sources are under `src/src/`.

## The system

`main` loads `Options` from an nginx-style file, builds one `Webserver` and calls
`run()`. `run()` starts the worker threads; each accepts a connection, reads a request,
finds a handler for it, lets the handler fill a `Response`, counts the answer, and writes
it back. Handlers are created once and shared by all workers, so everything a handler
keeps is shared state.

| Part | State | Operations | What makes it correct |
|---|---|---|---|
| Worker pool (`webserver.cc`) | `running_`, `mtx_`, threads, acceptor, sockets | `run`, `runThread`, `acceptConnection`, `processConnection`, `processRawRequest`, `stop` | one thread in `accept`; no socket leaked or shared; waiting clients are accepted; `stop` and `run` end as promised |
| Reverse proxy (`proxy_handler.cc`) | `mtx_`, `redirect_`, `redirect_host_`, `redirect_uri_`, `uri_prefix_` | `Init`, `HandleRequest` (recursive), `ParseRawResponse` | calls exclude each other; each gets its own answer; the state of a redirect is used up; the lock comes back |
| Blocking client (`sync_client.cc`) | one socket | `Connect`, `Write`, `Read` | used by one call at a time |
| Counters (`multimap_counter.h`) | a map of maps, a mutex | `increment`, `get`, `getKeys`, `iterateKey` | "a thread-safe map" |
| Status page (`status_handler.cc`) | none, reads the counters | `HandleRequest` | the page is consistent with the counts although it is not a snapshot |
| Config parser (`config_parser.cc`) | lexer state, stack, bracket count, tree | `ParseToken`, `Parse` | accepts the language, builds the right tree, never looks into an empty stack |
| Options (`options.cc`) | port, threads, handlers, realms | `loadOptions*`, `add*` | each option once, errors reported, handlers owned once |
| Routing and helpers (`utils.h`) | none | `mapHasPrefix`, `split`, `getCRLFLine` | longest prefix wins |
| Authentication (`authenticate.cc`, `authentication_realm.cc`, `base64.h`) | realms | `requestRequires/PassesAuthentication` | a realm admits only its credentials |
| Request, Response (`request.cc`, `response.cc`) | fields | `Parse`, `raw_request`, `ToString` | a parsed request printed is the request |
| Static files (`static_handler.cc`, `fileLoader.cc`) | configuration only | `Init`, `HandleRequest` | the file under the root that the URI names, although it looks twice |
| Markdown, delay, echo, not found | configuration only | `Init`, `HandleRequest` | straight-line |
| Registry and `main` | the table of types | `CreateByName`, `main` | each configured type exists |

Interactions: a worker calls `HandleRequest`, which for the proxy blocks on another host;
a worker and the status page meet in the counters; any exception a handler or a library
throws unwinds to `runThread`, which ends the worker. The hard behaviours are therefore
interleavings of workers in the proxy, exceptions that skip an unlock, clients and hosts
that never answer, and the order of stop, accept and join.

## Modules

| Module | Models | Checked with |
|---|---|---|
| `ProxyHandler` | proxy handler, client, remote hosts | `MCProxyHandler`, `Proxy*.cfg` |
| `SerialProxy` | what the proxy promises: callers served one at a time, each from the place it asked for | property `SerialSpec` |
| `ProxyHandlerProofs`, `ProxyRedirectProofs` | its theorems, without redirects and with them | TLAPS |
| `Webserver` | worker pool, clients, kernel queue | `MCWebserver`, `Webserver*.cfg` |
| `WebserverProofs` | its theorems | TLAPS |
| `MultiMapCounter` | the counter map, access by access | with its callers, in `StatusHandler` |
| `Tally` | what it promises: an atomic table | property `ThreadSafe` |
| `StatusHandler` | the page, composed with the map and with workers that count | `MCStatusHandler`, `StatusPage.cfg` |
| `CounterProofs` | theorems about the map, `Tally` and the page | TLAPS |
| `ConfigText` | what a file is, and where its words stand, told from its tokens all at once | with `ConfigParser` |
| `ConfigParser` | lexer and pushdown parser | `Config*.cfg` |
| `ConfigGrammar` | the grammar, the tree a text must give, the printers (recursive, for TLC only) | `Config*.cfg` |
| `ConfigProofs` | theorems about the parser | TLAPS |
| `Strings` | `mapHasPrefix`, `split`, base64, and what they are to compute | with `Server` |
| `StringsProofs` | theorems about these functions | TLAPS |
| `Handlers` | registered types, `Init` of each, paths and types of files | with `Options`, `Server` |
| `Options` | loading the statements of a file, the handlers on the heap, `~Options` | `MCOptions`, `OptionsOwned.cfg`, and in `Server` |
| `OptionsProofs` | theorems about loading | TLAPS |
| `Server` | one request on what was loaded, from its text to the response | `MCServer`, `Server.cfg` |
| `ServerProofs` | its theorems | TLAPS |

### ProxyHandler

`pc[t]` is the place of worker `t` in `HandleRequest`; an action is the code between two
accesses to shared fields: `Enter` is the unlocked `if (!redirect_)`, `Lock` and `Clear`
its branches, `Prepare` lines 51-68, `Connect`, `Write`, `Read` the client's calls,
`Parse*` `ParseRawResponse`, `Check` and `Recurse` lines 95-102, `ReturnOK` and
`ReturnError` the unlocks. `...Throws` actions are exceptions: the worker is `dead`, and
nothing is unlocked. `stuck` is a read without end. The header loop of a reply that is cut
off collects headers until the memory is used up (`ParseLoops`, `RunsOut`). Of a Location
the code takes what stands between `http://` and the next `/` for the host: with another
scheme or a port that is a name that never resolves (`badHost`), and a Location without a
path, or an empty one, throws (`hostOnly`). A reply with several Location headers is not
modelled. A data race on a
field is modelled as an interleaving of whole accesses, and an unlock by a thread that
does not own the mutex as freeing it; C++ leaves both undefined, and `UnlockOwned` and
`MutualExclusion` say when they cannot happen. `want` is a history variable: the place
the answer must come from. The `Host` header is not modelled: lines 67-68 overwrite what
line 99 sets. Ports are left out: the code uses the configured one for every host.

### Webserver

`Bind`, `Spawn`, `Join`, `LockLog` and `UnlockLog` are `run()`; `RunFails` is an exception of
its acceptor or of a thread, which nobody catches, so the process ends (`aborted`).
`pc[w]` walks through `runThread` and what it calls. `Init` leaves `running_` arbitrary,
as the constructor does. `ReadLine` and `ReadEnd` are the client's: it may never send
anything. Realms and the choice of a handler are nondeterministic, a handler may leave
any member of `Results`, throw or hang. `taken` counts connections accepted since
`stop()`. Each worker sets `running_` as it begins, so a worker that begins late undoes a
`stop()`: the model does this, and `StopHolds` says that nothing else does. `StopEnds` is
what a `stop()` is for: if all workers have begun, and none waits for ever for its client,
its handler or a connection, `run()` returns (or the process ended before it could).

### MultiMapCounter and StatusHandler

Looking a key up and the access after it are two steps, in each call that does so, and the
mutex has work to do. `operator[]` creates entries, as in C++. `StatusHandler` extends the
map with the callers: workers that count an answer, ask for a count, or take the keys and
then one row per key. The refinement of `Tally` is checked in this composition.

Requests come or do not (`Arrive`); counts are asked for without a limit, so the traffic
need not end although only `MaxRequests` answers are counted. `PageFinished` therefore says
what it needs: a page is finished if from some time on no other worker makes a call. The
mutex promises nothing to one that waits, so without this another worker may take it first
each time.

### ConfigParser

`ParseToken` reads one character per step, with `unget` as the variable `ahead`; `Parse`
takes one token per step and keeps `last_token_type`, `bracket_parity` and the stack. The
test of `last_token_type` before a word (lines 173-187) always holds, as a comment, an error
or the end never becomes the last token, and is left out.
A word is represented by its position among the tokens, so the tree shows the order of
the words. Characters are the classes the code tells apart. `ToString` is modelled
without its layout, and `TreeIsText` prints the tree with it. The error branch for a token
of type `START` is left out: `ParseToken` never returns it.

What is accepted is stated twice. `IsFile` in `ConfigText` looks at all the tokens at once: which of them
stand next to each other, and how many blocks are open at each. `Valid` in `ConfigGrammar`
is the recursive grammar. `AcceptsFiles` and `AcceptsGrammar` are checked on the same
texts, so that on those `IsFile` is the grammar; the first is proved for all texts.
`GivesUpInTime` covers texts that are not read to the end: both others hold of a parser
that gives up too early.

So is the tree. `IsTree` goes by the numbers of the brackets: a place stands in the block of
the bracket that was opened last of those still open there (`StandsIn`), a statement is a
run of words that no word stands next to, and has the block of the bracket behind it, and
every word is in a statement. It says this without a stack and without recursion, so
`TreeIsPlaced` is proved for all texts. `TreeIsText` prints the tree with the recursive
`ToString` and compares that with the text; both are checked on the same texts.

### Options, Handlers and Strings

A file is a sequence of `[tokens, child, block]`, as the parser gives it; `child` tells a
null `child_block_` from an empty block. `Statement` is one turn of the loop in
`loadOptionsFromStream`, with one operator per `add...`. `pc` ends as `failed` (false),
`terminated` (an exception nobody catches) or `undefined`; `InitStatus` gives the same
outcomes for each handler's `Init`. A null block is harmless for a handler that never
looks at it, and that is the outcome the model takes. Handlers live in `heap`, a pointer
is an index, `freed` holds what was deleted. `LoadsIffValid` compares this walk with
`ValidConfig`, which looks at the whole file at once, and says which statements end the
process without a report.

A name is a sequence of separators and words, so that prefixes and joins work as on
characters without spelling words out. `MapHasPrefix` cuts the end off as the code does;
`Longest` says what it is for. base64 works on digits and bytes, with `int`s of `IntSize`
values; `Denoted` says which bytes a text denotes without shifting.

### Server

After a successful load one request is followed: `Receive` and `Parse`
(`processConnection`, `Request::Parse`), `Dispatch` (the realm, then the handler),
`Handle` or, for static files, `Find`, `Change` and `Serve`: the name is looked at and
then opened, and another program may change the files in between. The workers do this
at the same time without sharing anything but the handlers, which only the proxy
changes; that is `Webserver`'s and `ProxyHandler`'s matter. A line keeps its key, its
value in the pieces `split` gives, whether it has a colon and whether its end is a bare
newline; `LinesRead` says how many of the client's lines the reading in chunks hands on.
The body is the lines behind the headers and the `length` they are cut to or filled up to
with `'\0'`; its characters are not modelled.
`dead` is an exception. The file system, `Open` for a directory (whose reading throws)
and the changes are external.

## Runs

| Run | Question | Bounds |
|---|---|---|
| `proxy_shared` | Do two workers exclude each other, and is the handler a serial server, whatever fails? | 2 workers, 1 host with every failure and no redirect, 3 paths |
| `proxy_redirect` | Is a redirect followed to the end and its state used up? | 1 worker, 2 hosts; the configured one redirects in every form |
| `proxy_sub_call` | violation: the sub-call locks its own mutex | 2 workers, 2 hosts, pages and redirects |
| `proxy_same_host` | violation: a relative redirect goes to the configured host | 1 worker, 2 hosts |
| `proxy_prefix` | violation: the prefix is lost for good | 1 worker, 2 hosts |
| `webserver_pool` | Accepting, stopping, joining, closing, counting; does `run()` return after `stop()`? | 2 workers, 2 connections, 1 line, 1 failure of `accept`, any failure of `run()` |
| `webserver_error` | violation: the status of a handler is ignored | the same |
| `status_page` | What can a page show while others count, and do all calls together implement an atomic table? | 2 workers, 2 URIs, 2 codes, 2 answers, 1 count to ask for |
| `config_parser` | Does the parser accept the grammar and build the tree? | texts of up to 8 tokens |
| `config_dropped` | violation: a word cut off by the end of the file | the same grammar |
| `server` | Is what is loaded, and what is answered, what the file says? | every file of up to 3 of 31 statements and 3 larger ones; 74 requests; 3 file systems, one change |
| `options_owned` | violation: handlers that are never deleted | the files of up to 3 statements |

Why they are enough: two workers are what a lock, a stolen flag or a lost update needs,
and what is claimed of more of them is proved. Two connections make one wait while
another is served. Two hosts tell a redirect's host from the configured one, and the
paths `""`, `"/"` and `"/a"` cover the empty rest of a URI. Two counters in a row tell a
store of one counter from a store of the row; two URIs make the page read in two steps.
Eight tokens nest blocks two deep with statements around them. Three statements are a
port and two that meet: the same twice, two paths inside each other, a bad one behind a
good one; the larger files add realms inside realms, a root of each form and every type
of handler. The requests are of three groups: every form of credentials and of lines,
for a path in one realm and for one in two; every form of a name of a file; malformed
request lines. `IntSize` is 2^16, so `val` overflows within four digits, as it does on 32
bits within six; 14 bits are what the code reads, and the proof needs no more. One change suffices to make the second
look differ from the first. `MaxLines`, `MaxRequests`, `Asked` and `MaxTokens` only bound
the state space. `MaxAcceptErrors` is more: `WaitingAccepted` and `StopEnds` hold because
`accept()` fails finitely often, and with one that fails each time nobody is ever accepted.

Deadlock is not checked where the system may really stop: all workers dead or stuck in
the proxy and in the pool, the end of a parse, the return of `main`. In the status model
some worker can always go on, which its run checks.
The pool run assumes weak fairness of `run()` and of each worker's own
steps, which the operating system's scheduler gives. Clients have none, so `ReadLine`
and `ReadEnd` are outside of it and the liveness properties except a worker that waits
for its client, hangs in its handler or has ended. In the proxy and the status page each
worker is weakly fair in what it has begun; that a request comes is not, and a mutex is not
assumed to be fair.

Some properties except what the code gives up on, and so do not catch it: `Released` a worker
that died or is stuck with the proxy's mutex (a throw, a reply without its empty line, a
silent host), `QuietIsClean` the fields a dead one left set behind that mutex,
`AcceptedClosed` a client or handler that is silent for ever, `LoadsIffValid` the statements
of `Deadly`, `EchoIsRequest` and `StaticServes` an exception. The models have these steps;
the repository promises nothing about them that they could be held against.

### Violations, and what they show

* `SubCallUnlocks`: the comment at `proxy_handler.cc:101` is wrong when another worker
  enters between reading a redirect and the sub-call.
* `SameHostRedirect`: `proxy_handler.cc:153` "new URI on same host" is the configured
  host, not the one that sent the redirect.
* `PrefixStripped`: `proxy_handler.cc:100` changes the handler for all later requests.
* `ErrorIs500`: `request_handler.h:140` promises a 500 that `webserver.cc:46` does not send.
* `TrueIffValid`: `config_parser.h:32` promises true iff valid; the last word may be lost.
* `HandlersOwned`: `options.cc:30` "handler is owned by Options", but `~Options` does not
  delete the default handler, nor one whose path came again.

What the passing properties had to except is worth knowing too. A user with a `:` in the
name or the password is never admitted, and one with an empty password only with a `:`
too many (`Admitted`). What a client sends after the last `"\r\n"` before it stops is lost,
credentials too (`Arrived`). The body of a request is never the client's (`EchoIsRequest`),
unless a bare newline ended the headers. A markdown file of nothing but blank lines
and references is a 500, and `split` takes `a.md.` for a markdown file too (`StaticServes`). The process ends without a report at the statements that `Deadly`
names.

The passing proxy run leaves redirects out because with two workers and redirects the
lock does not hold, which is what `proxy_sub_call` shows; with one worker redirects are
part of the passing run.

## Proofs

`ProxyHandlerProofs`: `Typing` holds in every deployment. The other theorems assume
`NoRedirects`, that no host ever answers with a redirect; without it they are false. The
invariant `PlainInv` says that the redirect fields are clear, that a worker is in the
section exactly if it owns the mutex or was lost there with it, and, place by place, what
the section's owner has asked, written and read: the socket holds the owner's own
request. `MutualExclusion` alone is not inductive (a worker at `Lock` says nothing about
who is inside), nor is `OwnReply` (the reply is right because the socket was). From it
follow `Exclusion`, `OwnersUnlock`, `OwnReplies`, and with `SerialStep` the refinement
`Implements`.

`ProxyRedirectProofs` is about redirects, which the handler survives when the server has
one worker (`OneWorker`). `SoloInv` says at which places `redirect_` and `redirect_host_`
may be set and the mutex owned; `CallsEndClean`, `SubCallsGoOn` and `RedirectsAreFollowed`
follow for any hosts. `ChainsAreAnswered` needs two more assumptions, `OneRedirector` and
`Mounted = FALSE`: without the first a relative redirect goes astray, without the second
the prefix is lost, which is what `proxy_same_host` and `proxy_prefix` show. Its `ChainInv`
follows a chain of redirects of any length, where the run has one hop after the
configured host.

`WebserverProofs`: `Typing`, and from the invariant `PoolInv` the theorems
`AcceptIsExclusive`, `SocketsAreOwned`, `StopIsFinal` and `RunJoinsAll`. `PoolInv` ties
each place of a worker to whether it holds a socket and the mutex, each connection to the
queue and to one holder, and `run()`'s index to the workers that have ended.
`AnswersAreCounted` has an invariant of its own, `Ledger`: the connections whose answer is
out, with those of workers between `Count` and `Write`, are no more than the counter says;
`CountedFirst` alone says nothing of the latter. `StopIsKept` goes through the steps of a
worker: none leads back to its beginning.

`CounterProofs`: `Typing`, `CallsAreAtomic` (the map implements `Tally`, the abstract call
taking effect at the step at `act`) and `PagesAreBracketed`. `CounterInv` says that a call
is inside exactly while it owns the mutex and that what `find` reported still holds when
the store uses it. `PageInv` follows a page through its calls: the answer to `getKeys`
names every URI counted before the page was begun, and each row, in the answer and on the
page, lies between the counts then and now.

`ConfigProofs`: from `ParserInv` the theorems `Typing` and `NothingIsEmpty`. It adds that
the stack holds blocks of the tree, and that no statement is without a token.
`FilesAreAccepted` and `NothingIsGivenUp` follow from `TextInv`: the last token and the
count of brackets are those of the tokens that `Parse` has taken, which may be the
beginning of a file. `Judged` says that the tests of `Parse` decide from these two what
`Begun` decides from all tokens; comments are not among the tokens and change neither.
`WordsStandInTheirBlocks` follows from `TreeInv`, which says of the tokens taken so far that
the blocks are their tree (`IsTree`), that the stack has, per depth, the block of the bracket
that is open at that depth (`StackIs`), and that after a word the last statement of the
innermost block, and no other, ends with it (`LastIs`). Each is needed for the next step:
without `StackIs` a word might come into another block than the one it stands in, without
`LastIs` into another statement. A token that comes later does not change where the earlier
ones stand (`StandsThere`, `StatementStays`); one lemma per token says what it adds
(`WordTree`, `EndTree`, `OpenTree`, `CloseTree`).

`OptionsProofs`: `PointersAreLive` from `HandlersInv` (a handler is freed before it could
be put in the map, and each place of the heap is pointed to once), `LoadsTheValid` from
`LoadInv` (the statements before `i` are well formed, and the two flags say whether a port
and a number of threads are among them) and `LoadsWhatIsConfigured` from `LoadedInv` (what
has been loaded is what the statements before `i` say: of several for one path or one user
the last). All hold for any files.

`StringsProofs`: `PrefixIsLongest` (`mapHasPrefix` finds the longest key), `TwoPieces`
(`split` gives exactly two pieces for the texts that are two with a delimiter between, and
perhaps one at the end) and `DecodesDigits` (`base64_decode` gives the bytes the digits
denote, for texts of any length, although the `int` it shifts overflows: of its value only
14 bits count, and those survive). What a loop does to data of any length is proved by a
least counterexample (`Least`): in place of an induction theorem with an operator as its
parameter, the set of the places where the claim fails is shown to have no least member.
`FoldExists` gives the functions that the community modules' folds choose.

`ServerProofs` is about `Server` on any files, requests and states of the file system.
`ServerLoads` says that it loads as `Options` does, so the theorems of `OptionsProofs` hold
in it. The invariant has three parts: `MemoryInv` (every pointer leads to a handler on the
heap), `ServeInv` (what was made of the request at each stage: `req` is what `Parse` gives
for the lines that were read, `handler` the one of its path, and a challenge the one of its
realm) and `AnswerInv` (an answer is the handler's, and the name a `StaticHandler` opens is
one that it looked up). `Typing` and `HandlersGetTheirPrefix` follow with
`PointersAreLive`. `EchoesTheRequest` needs where reading in chunks and `Request::Parse`
stop in a text of any mixture of line ends (`LinesReadIs`, `HeadersAre`). `AnswersRight`
joins `LoadsWhatIsConfigured` with `PrefixIsLongest`, `DecodesDigits` and `TwoPieces`: the
realm, the handler and the users that are found are those the file means. `FilesAreServed`
needs that a name put together from a root, a slash and the rest of a URI has the parts of
the root and those of the rest, however many slashes meet (`StepsApart`, `PartsOfPath`),
and that what `split` takes for the extension of a name is the end of its last part
(`ExtensionIs`, `LastPart`).

Three properties turned out to be stated wrongly when they were to be proved, for texts
and names that no run tried, and were corrected: `EchoIsRequest` (a client that stops
before the empty line), `Admitted` (credentials in lines that are lost) and `StaticServes`
(a name that ends with a dot, and a file of no known extension). `Server.cfg` has requests
of these kinds since.

The assumptions are the modules' own, `ProxyAssumption`, `WebserverAssumption`,
`CounterAssumption`, `StatusAssumption`, `ParserAssumption`, `StringsAssumption`,
`HandlersAssumption`, `OptionsAssumption` and `ServerAssumption`: distinct null values,
sets of the right kind, an `int` of at least 14 bits, sequences for files, statements that
are not empty, as the parser gives them, and sequences for URIs, paths, roots, users and
passwords, and for the lines of a text. TLC evaluates them in each run.

Only model-checked: liveness (`Released`, `WaitingAccepted`, `AcceptedClosed`, `StopEnds`,
`PageFinished`), which needs fairness and ENABLED and is out of the prover's reach, and
`AcceptsGrammar` and `TreeIsText`, since `ConfigGrammar` is recursive. What they say of the
parser is proved in the words of `IsFile` and `IsTree`; that these say the same as the
grammar and the printed tree is only checked, on texts of up to eight tokens.

## Not modelled, and the plan

Left out for good: the vendored `cpp-markdown` (third-party; the model knows when its
result is empty), the wording of the HTML pages and logs, I/O errors other than a missing
file, `..` and `%20` in a path (the code has a TODO for both and treats them as any
other name), the `openFile` that only tests use, how long a delay takes, static
registration. `asio::write` reports errors by throwing, so `WriteFails` is there only
because the code handles it; the same holds of `ReadFails`, since `asio::read` hands out
bytes without an error. A `StaticHandler` without a root looks at the character in front
of an empty string: the model takes either outcome, and `StaticServes` speaks of handlers
with a root.

One request at a time is followed in `Server`: apart from the proxy, no handler keeps
anything from one request to the next, so a second request would meet the same server.
The proxy does keep something, and is modelled alone, with all its workers; it is not
among the handlers of `Server`.
