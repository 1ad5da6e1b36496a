# Verification of cpp_web_framework

TLA+ specifications of the asynchronous core of this repository, checked with
TLC on small instances and, where it says so, proved with TLAPS for every
instance. File names without a directory are in `src/modules/`.

## 1. The system

| Component | State it keeps | Operations | Talks to |
|---|---|---|---|
| Futures and promises (`reax/future/future.hh`, `do_with.hh`) | one `future_state` per promise/future pair, in the promise, the continuation or the future; pointers `_future`, `_promise`, `_state`, `_task` | construct, move, destroy, `get_future`, `set_value`, `set_exception`, `then`, `then_wrapped`, `get`, `forward_to` | the scheduler: `schedule(task)`, `report_failed_future(ex)` |
| Reactor (`reax/reactor.hpp`) | `_queue` of tasks, `_exception_queue`, the C++ stack of `run_work()` frames | `schedule`, `run`, `report_failed_future`; helpers `write`, `readline` | boost `io_service` (`dispatch`, completions) |
| Acceptor, gate, `concluding_ptr` (`reax/net.hpp`, `reax/reactor.hpp`) | `count_`, `closing_`, `closed_`, who owns the acceptor, pending accepts | `accept`, `conclude`, the accept handler, `~concluding_ptr` | promises, reactor, asio |
| Sockets, connecting, addresses (`reax/net.hpp`) | one asio socket each | `read`, `write`, `connect_to`, `connect_default_ssl_to`, `resolve_tcp`, `parse_addr` | asio |
| Web server (`webserver/webserver.hpp`, `webserver/test.cpp`) | `outstanding_requests_`, `shutting_down_`, `outstanding_finished_`, per connection the request so far and `send_offset_` | listen, accept loop, read, route, send, `/terminate`, `finish_outstanding` | promises, reactor, asio |
| Buffered reader (`reax-ssl/buffered_reader.hpp`) | a deque of buffers, two read and one write index | `read_some`, `replace_bytes` | a readable socket |
| HTTP client (`reax-ssl/http_client.hpp`) | bytes of the element being parsed, the response so far | `read_n`, `read_to`, `read_up_to`, `read_headers`, `read_chunked`, `request` | buffered reader, `reax::write` |
| Strings and parsing (`mestring/`) | the pieces of a `mestring_cat` | `+=`, `truncated`, iterators, `substr`, `find_it`, `static_split`, `lstrip`, `parse_int` | |
| Base64, hash (`base64/`, `hash/`) | none (pure) | encode, decode, combine | |
| Process utilities, YAML reader, OAuth example, browser client, build files | | | not modelled, see section 7 |

All of it runs on one thread. What makes it hard is not parallelism but
order: every callback, continuation and destructor may come before or after
every other, objects are moved while others point at them, `schedule()` runs
foreign tasks inside the caller, and an object is kept alive by the
continuation that its own member resolves.

What makes each component correct:

- *Futures*: each outcome is stored in one place and handed over at most once;
  the two ends always know each other's address; no continuation is lost; a
  failure is handed over or reported, never dropped; no assert fires in
  `continuation::run()`.
- *Reactor*: no queued task is stranded, each runs once, in order, and `run()`
  returns only when nothing is left, in spite of the nesting.
- *Acceptor*: the gate's count is exact, `closed_` is set once, the acceptor
  dies after its last handler and is then really destroyed.
- *Server*: the accept loop survives its connections, a response is sent to the
  last byte, the count of outstanding chains is exact, shutdown terminates.
- *Buffered reader*: every byte once, in order, across buffers and after bytes
  were given back; a view that was handed out never changes.
- *HTTP client*: the request goes out once and whole, the response does not
  depend on how its bytes were split into reads, and a request ends.
- *Strings*: what a cat answers depends on its text alone, not on where its
  pieces end; a numeral is refused exactly when its value is no `int`.
- *Base64, hash*: encoding can be undone; hashes combine in any order.

`PROJECT.json` lists, under "hazards", what can go wrong at which line.

## 2. Modules

| Module | What it is |
|---|---|
| `SingleUseItem` | abstract: what a promise/future pair promises about one outcome |
| `FuturePromise` | the objects and pointers of `future.hh`; implements `SingleUseItem` |
| `FuturePromise_proofs` | the inductive invariants of its pointers and of its outcomes, an action property and the refinement, proved |
| `TaskRunner` | abstract: the scheduler `future.hh` relies on |
| `Reactor` | the queue and the nested `run_work()` frames; implements `TaskRunner` |
| `Reactor_proofs` | its inductive invariant and the safety part of the refinement, proved |
| `AcceptorGate` | gate, acceptor and `concluding_ptr` |
| `AcceptorGate_proofs` | its inductive invariant, proved |
| `WebServer` | server, connections and the test program |
| `WebServer_proofs` | its inductive invariant and two action properties, proved |
| `ByteStream` | abstract: a stream that can be told to go back |
| `BufferedReader` | `read_some`, its continuation, `replace_bytes`; implements `ByteStream` |
| `BufferedReader_proofs` | its inductive invariant, the refinement and an action property, proved |
| `HttpClient` | one request, from the URL to the response; instantiates `BufferedReader` |
| `HttpResponse` | what the bytes of a response mean: a reader that has all of them before it |
| `HttpClient_proofs` | the inductive invariants of the request's way to the peer and of the response's way back, proved |
| `Mestring`, `ParseInt`, `Address` | operators: cats and their iterators, numerals, IPv4 endpoints |
| `Base64`, `Mmh3` | operators: the two base64 iterators, combining hashes |
| `TextBuilder` | a client that builds, cuts and splits a cat, to ask these operators about every cat it can reach |
| `Text_proofs` | arithmetic of the operators, their loops over a whole numeral or a whole text, lists of texts, finding and truncating, proved |
| `TextBuilder_proofs` | what every operation on a cat does, what a printed address is parsed to, and the five invariants of its client, proved |
| `MC*` | the instances TLC checks |

In every module an action is one call or one completion, with everything the
code does in it. A definition whose comment begins with "Slip:" is not part of
the specification: it is a definition after it with one plausible mistake, and
`PROJECT.json` ("mutants") says which property fails when it takes that
definition's place. So every property is known to be able to fail.

### FuturePromise

Objects live at addresses (`PA`, `FA`, `TA`), so moving is a change of address
and a dangling pointer is representable. `prom[p].state` is where `_state`
points (`"local"`, `"task"`, `"none"`); `prom[p].owner` is the continuation
whose lambda captured the promise, because destroying a continuation destroys
that promise and what hangs from it (`HangsFrom`). Content is `Pending`,
`Invalid`, a value or an error, as in `future_state::state`. Each value or
error is supplied once, so that `delivered` can count it.

`then()` is three actions, as in the code: `ThenNow` (available, no
preemption), `ThenScheduled` (available, `need_preempt()`), `ThenAttached`
(pending). `Preempt` holds the answers `need_preempt()` may give; the runs use
both. `continuation::run()` is `Start` (the function is called), then whatever
the function does, then `Return`, `ReturnAvailable` or `ReturnPending`
according to what it returned; `PassOn` and `Ignore` are the paths on which the
function is skipped or does not look. `Settle` is `forward_to()` into the
captured promise followed by the destruction of the lambda.

Preconditions the code asserts are guards of the client's calls (`CanSet` in
`SetOutcome`, `Available` in `Get`). One guard is a client's habit and not the
code's: `get_future()` is called once per promise, though its assert would let
a second call pass after the first future is gone. Where the library itself
makes the call,
they are properties instead (`CanSettle`, `FutureIsUsable`). `BreakPromises`
says whether a client may destroy a promise that somebody waits for.
`~future()` reports a failure and leaves a copy of it in the promise, which
reports it again when it is destroyed: `reported` is a set, so this is not a
difference here.

### Reactor

The state includes the stack of frames of the one thread inside
`io_service::run()`. `schedule()` outside `run()` posts a handler
(`ScheduleOutside`); inside, `dispatch()` calls `run_work()` on top of the
caller (`ScheduleInside`), which pops the *oldest* task, not necessarily the
one just scheduled. `run_work()` is split where control leaves it: `PopTask` or
`NothingToPop`, `TaskReturns`, `WorkAgain`, `WorkReturns`. `io_service` itself
(`CallPosted`, `CompleteIO`, `HandlerReturns`) is external and modelled from
its use. While modelling: each `schedule()` brings a `run_work()` of its own,
so the re-dispatch at the end of `run_work()` is never what saves a task.

### AcceptorGate

The accept handler is two steps, `HandlerDec` and `HandlerResolves`, because
the first can schedule the continuation that destroys the acceptor, and it may
run (`RunTask`) between them. `Conclude` is `~concluding_ptr()` with its
`then()`, both for a build that runs an available continuation at once and for
one that schedules it. The acceptor is used only through its `concluding_ptr`,
as in `reax/test_net.cpp`, and that pointer stays where `make_concluding()` made
it: moving one is not modelled. (Its defaulted move leaves an empty `t_` behind,
through which `~concluding_ptr()` would call `conclude()`.)

### WebServer

An action is one completion with all continuations it makes ready, which run
inside it (module `Reactor`). An identity in `Conn` is an accept and the
connection it becomes; it may be used again once its chain has ended well.
`"refused"` is a chain that a failed accept ended, `"failed"` one that the
failure of its connection ended, `"dropped"` one that died with the promise of
an aborted accept. A server whose `listen()` failed is `"deaf"`: it runs on with
nothing to do. `acceptor_->close()` in `finish_outstanding()` is taken to
succeed. Bytes are counted, not represented.

### BufferedReader

A buffer is the sequence of the bytes written to it so far, and `sent` is what
the peer sends. `read_some()` is three actions, one per way through it; the
third asks the socket and is answered by `ReadDone`, with any number of bytes
that fits, or by `ReadFails`. `replace_bytes(n)` steps back through `d` buffers
at once: the loop of the code is the choice of the `d` at which it stops. An
`n` below zero moves forward, which `HttpClient` needs because `read_up_to()`
can compute one. `Position` maps the indices to the place in the stream that
`ByteStream` knows.

### HttpClient

One request; requests share no state. `stage` names the continuation the client
waits for, and each continuation is an action: `ReadUrl`, `Resolved`,
`Connected`, `ShookHands`, then `WriteSome` for every `async_write_some()` of
`reax::write`, then the parser. A parser step is two: the reader answers
(`FromMemory`, or `AskSocket` and later `SocketAnswers`) and `found` is what
`read_up_to()` or `read_n()` makes of the answer; then either more is needed
(`NeedsMore`, where `read_up_to()` goes over to `read_to()`: `late`), or the
call throws, or the continuation of the stage takes its text and the rest goes
back to the reader (`Take`). Texts are short: `"h"` for `"http"`, `"C"` for
`"Content-Length"`; bytes that the code looks for are themselves. A dereferenced
iterator of an empty cat is the stage `"crashed"`.

The network may cut a response where `Cuts` allows. `http` keeps each line of
the head (and each chunk's size) in one read, because the client is wrong when
one is cut (section 4); contents are cut everywhere.

An exchange comes with what its response means and how long it is. `HttpResponse`
says from the bytes alone what that is (`Read`), piece by piece as the client
does but with nothing cut, put together or given back; TLC evaluates on every
run of the client that the two agree for each exchange it is given
(`MeaningAssumption`).

### Mestring, ParseInt, Address, Base64, Mmh3

Pure functions, so operators. A `mestring` is a sequence of codes, a
`mestring_cat` a sequence of those; an iterator is a piece and an offset, the
end's offset is `Null`. Where the code throws, `ParseInt` and `Address` answer
with the empty set. The references they are compared with are in the same
modules (`Meaning`, `Digits64`, `Padding`) or are the same question asked of the
plain text. `TextBuilder` turns the sequence of calls into behaviours: its
states are the cats that calls with defined behaviour can build. Those are fewer
than the signatures suggest: `truncated()`, `substr()` and the splits need a cat
with pieces, `lstrip()` needs something that is not blank, and
`static_split_first<2>()` needs something behind the separator, because it
searches the second part too (`parse-impl.hpp:97`) and so calls `begin()` of an
empty cat when there is none. `SplitFirst` answers `PastEnd` there; the client
of `TextBuilder` does not call it so, and that this is enough is part of
`CatIsText`. `RKey` says what `rkey` holds for bytes below 128; from there on the
code's index may be negative.

## 3. Runs

| Run | Question | Instance |
|---|---|---|
| `fp_strict` | pointers, one location, nothing lost, with clients that keep the promises others wait for | 3 promises, 3 futures, 2 continuations, one value, one error, both builds |
| `fp_broken` | the inductive invariant and the refinement of `SingleUseItem` with clients that break promises | the same |
| `reactor` | stranding, order, nesting, draining, refinement of `TaskRunner` | 4 tasks, 2 operations, 1 report |
| `gate` | count, single closing, lifetime, destruction | 4 accepts, both builds |
| `server_safety` | count, accept loop, partial writes, shutdown | 4 connections, 3 bytes, failures |
| `server_live` | shutdown ends, responses end | 3 connections, 2 bytes, failures, fairness |
| `reader` | the inductive invariant, refinement of `ByteStream`, views stay | streams of 0 to 10 bytes, buffers of 3 |
| `text` | cats against texts, searching, numerals, addresses, base64, hashes | texts of up to 4 of 9 bytes, an `int` of 8 bits, octets and hash words of 4 bits |
| `http` | the response, the request and the end of it, lines of the head in one read each | 8 exchanges: sized, chunked, unsized, empty, malformed, https with a port, bytes of a next response; buffers of 24 |
| `http_split` | *violated*: the response, when a read may end anywhere | 1 exchange |
| `server_deleted` | *violated*: the server is deleted at the end of a clean shutdown | 3 connections, no failures |
| `server_assert` | *violated*: `set_value()` finds a state | 3 connections, no failures |

Why the bounds are enough. Two continuations are a chain: one attached to the
promise the other captured. Three promises and futures are a captured pair, the
pair the client waits on, and a free address to move to; a value and an error
make the two ways through every `then()`. Four tasks let a task schedule one,
that one another, and leave one queued when the innermost frame looks. Four
connections are one accepting, one terminating and two at other stages; three
bytes are a first, a middle and a last write. Ten bytes in buffers of three are
three full buffers and the start of a fourth, so giving back crosses none, one
or several. Buffers of 24 end inside the head of a response, inside a chunk and
inside a content. The ranges of integers are scaled, because TLC's own are of 32
bits: with an `int` of 8 bits every overflow test is met at its boundary by
texts of up to four characters; that nothing depends on the width is proved
(section 5).

Deadlock is checked in all runs but the two of `FuturePromise`, where each
outcome can be supplied only once and a heap whose addresses are all taken may
have nothing left to do, the `server_safety` run, where all four identities
may be used up, and the two of `HttpClient`, where a request is over once it
has its answer. Symmetry is used only in runs without liveness properties.

Fairness. `Reactor`: the thread keeps running and tasks return
(`WF_vars(ThreadStep)`); nothing is assumed of I/O. `AcceptorGate`: handlers
and scheduled continuations finish; nobody has to connect. `WebServer`
(`FairSpec`): peers of accepted connections send, receive or go away, and a
closed acceptor aborts its accept, as asio does; nobody has to connect. The
bounds on reads and bytes are what keeps a peer from sending a header for ever.
`HttpClient`: the client and its network go on (`WF_vars(Proceed)`): the peer
takes what is written and sends its whole response. It is not assumed to close
the connection, so a client that reads one byte too many waits for ever, and
`Answers` says when that happens: only in `read_n(0)`.

## 4. What the runs found

- `server_deleted`. When `/terminate` closes the acceptor, the pending accept
  completes with an error and its handler returns at `webserver.hpp:215-217`
  without touching its promise. The chain of that accept, which
  `handle_connection()` counted when it was started, is destroyed with the
  promise and never counted off. `outstanding_finished_` is never set, and the
  continuation at `webserver/test.cpp:42` that prints "Deleting the server."
  never runs. (A connection that fails is not counted off either.)
- `server_assert`. The `/terminate` route sets its promise on every request; a
  second one, on a connection that was already accepted, fails
  `assert(_state)` in `set_value()` and aborts the process.

- `http_split`. `read_up_to()` computes what it gives back from the last chunk
  (`reax-ssl/http_client.hpp:99`) with an index into everything read so far,
  and after a chunk without the delimiter goes on as `read_to()`, which keeps
  the delimiter (line 97). A read that ends inside a line of the head therefore
  gives a response that differs from the one sent, and that the client returns
  as a good one. The tests of the client read a whole response at once.

Also seen, where the repository states nothing to hold it against: `read_n(0)`
waits for the peer (a response with `Content-Length: 0` ends only when the peer
closes, with a failure); a header without a value, an empty status code, an
empty chunk size and a split at a last separator dereference an empty cat; a
response with neither length nor
chunks is taken to have ten bytes; base 16 reads `:` to `?` as ten to fifteen;
a `mestring` equals every literal that starts with it.

## 5. Proofs

`FuturePromise_proofs`: `Spec => []IInv` for any sets of addresses, any values
and errors, either build and any value of `BreakPromises`. Assumption:
`SortsAreApart`, that addresses, outcomes and the three markers are different
things. `BackPointers` and `CanSettle` are not inductive alone: a step that
resolves a promise through its continuation needs to know that no other promise
has that continuation and that it is not resolved (`AttachedOnce`), and a step
that destroys a continuation needs to know whose lambda held which promise
(`Captures`). `IInv` is the conjunction of these with `TypeOK` and
`QueuedIsResolved`. There is one lemma per action; `SettleStep` is shared by
the three actions that settle a continuation, and `HangsFromFacts` states what
the least fixed point in `HangsFrom` contains, for `DropPromise`. The theorems
`TypeCorrect`, `PointersAgree`, `AttachedToOne` and `CapturedCanSettle` follow.

The second half of `FuturePromise_proofs` is about the outcomes, for the same
instances and from the same assumption. Its invariant is
`VInv`: `IInv` and five conjuncts more. `StoredOnce` says that no outcome is in
two objects; it is inductive only with `Stores`, which says that a free address,
a future that is linked to its promise and a promise that has a continuation
store nothing, so that a move or a `then()` never overwrites an outcome.
`HandedOver` says that an outcome that was handed over is stored nowhere and was
not reported, and that a reported one rests in a promise without a future (the
copy `~future()` leaves). `Usable` is `FutureIsUsable` with what the promise of a
live future must hold, and `Rooted` says that waiting continuations do not wait
for each other in a circle: in every set of them one waits for a promise that
none of the others captured. Every step carries at most one outcome from one
place to another; that is `Carries`, proved once for each action with the two
places named, and it alone preserves `StoredOnce` and `HandedOver` and is a step
of `SingleUseItem` (`CarriesIsGood`). The theorems are `OneValueOnePlace`,
`LiveFuturesUsable`, `WaitersAnchored` (of attached continuations only; a future
whose promise a client dropped has nobody), `NoneLost` (an action property) and
`HeapImplementsItem`, the whole refinement: `SingleUseItem` has no fairness.
`~promise()`, which destroys everything that hangs from a promise at once, is
the one action whose outcomes leave several places in a step.

`AcceptorGate_proofs`: `Spec => []IInv` for any finite set of accepts.
`NoDanglingGate` needs the exact count (`CountExact`), which a set of accepts
keeps by adding or removing one element (`WaitingCounts`), the agreement of
`closed_` with it (`ClosedWhenEmpty`), and the fact that only a scheduled
continuation may destroy the acceptor (`TaskFollowsGate`).

`Reactor_proofs`: `Spec => []IInv` for any set of tasks, any depth of nesting
and any number of operations, where `IInv` is the conjunction of the run's own
invariants: `NoStrandedTask` is inductive only with `NestsInClientCode` beside
it, and `RunDrains` needs `NoStrandedTask` on an empty stack. The argument goes
through three shapes of a step (the innermost frame is replaced, a frame is
called, a frame returns) and what each does to the tasks that are half way.
`RunsTasksInOrder` shows from the same lemmas that every step is one of
`TaskRunner` or leaves its variables alone; its fairness stays with TLC.

`WebServer_proofs`: `Spec => []IInv` for any finite set of connections, any
length of a response and any number of reads, with and without failures. `IInv`
says the two checked invariants in a form that each action changes in one place:
the count is the number of identities that are neither unused nor done
(`CountOK`), of the identities that accept or whose accept failed there are
never two (`OnlyOne`) and, while the server listens and is not closing, there is
one (`LoopAlive`); that one is what shows that no connection ends the loop.
`NotYet` keeps the first `do_accept()` the first. A chain that starts adds one to the count, one that runs its last
`then()` takes one off, and every other step leaves it alone (`OwedGrows`,
`OwedShrinks`, `OwedStays`). `CountsOutstanding`, `AcceptsOne`, `StagesAdvance`
and `Drains` follow; that the draining comes to its end is left to TLC.

`BufferedReader_proofs`: `Spec => []IInv`, the refinement `ReadsTheStream` and
`ViewsStay`, for any buffer size, any streams, any cut into reads and any bytes
given back. `IInv` has two halves beside the types: `Holds`, that the buffers
are the stream cut every `BufferSize` bytes, and `PositionInside`, that the
indices are inside it and never rest at the end of a full buffer. The second is
what the loop condition of `replace_bytes()` is for: with `<=` for `<` a
position could rest there, `read_some()` would answer with no bytes, and the
step would not be one of `ByteStream`. That a pending read is where it will
write is the third conjunct; without it `ReadDone`, which adds to both indices,
breaks `Holds`. Each action has a lemma for the invariant and one for the step
of `ByteStream`; the arithmetic they share (where a buffer's slice of the
stream lies) is in lemmas of its own.

`HttpClient_proofs`: `RequestReachesPeer`, that the peer never gets anything but
the request, in order, and has all of it before the client asks for the
response, for any exchanges, any cut of the writes and any failure. `HInv` says
what `RequestWhole` does not: what is written and what is still in the two cats
(`unsent`) are together the opening, or the opening and the closing, of the
request (`Progress`); the reader has not been touched before (`Quiet`); and no
request is made of a URL that cannot be read (`Known`). A write that takes `k`
bytes out of several texts is the step to prove (`NothingLostInAWrite`).
Assumption: `ClientAssumption`, that the texts of an exchange are sequences of
bytes and a buffer is not empty. Preparing it showed that `CallFails` kept the
cats alive after the failure that destroys them; it no longer does.

The second half of `HttpClient_proofs` is `ResponseIsExact`: a response that is
read to its end is what its bytes mean, and what follows it is left to be read,
for any responses, any size of the buffers and any cut into reads that leaves
each line of the head, and each size of a chunk, whole (`HeadsWhole`: the parser
never needs more of a line). Without that it is false, as `http_split`
shows. Contents and the line ends behind chunks may be cut anywhere, also by
the end of a buffer. The theorem is about every exchange, also one the client
fails or crashes on: then it never gets to "done". `RInv` says that the client
is always where `HttpResponse` is at some piece (`Reached`), that it holds
exactly the bytes between the beginning of that piece and the reader's position
(`SoFar`), and that the text it is about to take and the bytes it is about to
give back are that piece and what lies behind it (`Has`). That each answer of
the reader is the next bytes of the stream is not proved again: it is
`AnswerIsNext` of `BufferedReader_proofs`, used through an `INSTANCE`. Two
lemmas carry the rest. `LineAnswer`: a delimiter in a part of the response is
where it is in all of it (`FoundInPart`), and `truncated()` of the chunk ends
there. `CountAnswer`: the parts of a count join to the piece (`PartsJoin`). A
continuation then does to the client what it does to the meaning (`GoesOn`,
`Completes`); that each takes at least one byte, all but an empty content, is
why the reading of `HttpResponse` ends, and needs that a chunk's size is not
zero and that a numeral is only one number (`IntRead`, from `ParseIntExact`).
Assumption: `MeaningAssumption`, for the exchanges that can be read to the end.

`Text_proofs`: for any `IntMax` and both bases one more digit is accepted
exactly when it is one and the value with it is an `int` (`UpExact`,
`DownExact`), and no product, sum or difference computed on the way leaves the
range of `int` (`NoOverflowOnTheWay`): the code never relies on signed
overflow. `ParseIntExact` is about the whole loop: for every text,
`parse_int()` answers with the value the text means if that is an `int`, and
throws if it is not or if the text is no numeral. `PrintedIsParsed`: what the
client prints as a number is read back as that number when it is an `int` and
refused when it is not. The encoder of base64 moves by six bits at every step
and ends after `size()` of them, for a text of any length (`AdvanceBySixBits`,
`SizeIsExact`); what it writes for each three bytes, or the last one or two, is
what the decoder's shifts turn back into them (`KeyReadBack`, `BytesComeBack`).
`EncodeExact` and `DecodeExact` are about the whole loops, for texts of any
length. After `k` increments the encoder is where `k` sextets lead to
(`AdvanceStays`, `AfterIn`), so it writes the reference's digits, one after the
other, and its padding. The decoder stands before the first, the second or the
third byte of a group; from each of these places a turn skips what is no digit
and gives the next byte by `BytesComeBack` (`TurnFirst`, `TurnSecond`,
`TurnThird`), so it gives the text back from any code that has the digits in
order with other bytes between them (`Spread`), as line ends and blanks are, all
of them below 128.
`RoundTrips` is the two together. Combining words is commutative and
associative and loses nothing but the order, whatever the width of a word
(`CombineIsUnordered`, `NeighboursSwap`). `AddCatIs` says that `+=` of a cat
keeps the text and leaves no empty piece.

`TextBuilder_proofs`: `CatAlwaysReads`, `SearchAlwaysExact`,
`ParsesAlwaysExactly`, `EncodesAlwaysExactly` and `CombinesAlwaysUnordered`,
which state `CatIsText`, `SearchIsExact`, `ParsesExactly`, `Base64Exact` and
`CombinesUnordered`, for any pieces of bytes, any bound on the text and any
separator of one byte (`BuilderAssumption`), over all behaviours of a client that
makes calls with defined behaviour only (section 2). The invariant `BInv` is `CatIsText`
with the types. Below it lies what the operations on cats do, for cats of any
number of pieces: a place of the text, the number of bytes before it, is one
iterator if no piece is empty (`PlaceOf`, `IteratorsAre`); `operator++` goes to
that of the next place (`IncrementIs`), over the end of a piece and into the
next; so a loop from `begin()` to `end()` reads the text (`WalkIs`, `BytesIs`),
`operator[]` finds its byte (`ByteIs`) and `find_it()` stops where the text has
the needle (`FindItIs`). `substr()` between two iterators is that part of the
text and has no empty piece (`SubstrIs`), which gives `static_split_first()` and
`lstrip()`; `truncated()` is `TruncatedIs` of `Text_proofs`, which the HTTP
client needs too. Without the second half of `CatIsText` none of this holds: an
iterator at an empty piece is not at a byte. For the hashes, what a set of
members combines to is shown to exist whichever of them comes last (`AnyOrder`),
and a loop in any order comes to it (`LoopInOrder`). Numerals in the text are
`ParseIntExact`. Base64 is `RoundTrips`, for which the text must stay a text of
bytes (`BytesOnly`, an invariant beside `BInv`). For the addresses,
`EndpointComesBack`: what `operator<<` prints of any four octets and any port,
`parse_ipv4()` reads back as the same. The word of four octets gives them back
when it is shifted (`OctetsBack`); their decimals have no dot and no colon
(`DecimalIsClear`), so `static_split()` cuts exactly where the printer put them
(`JoinedIs`, `SplitInFour`, `SplitInTwo`). Assumption: an octet and a port are
`int`s (`AddressAssumption`), as 255 and 65535 are.

The loops are recursive functions and folds, and the prover has no induction
over them. Where a theorem needs one, the set of numbers (or texts) for which
the claim holds is shown to be everything (`ByInduction`, `Upwards`,
`FromBelow`, `BySequence`), from the well-foundedness of finite sets under
inclusion (`LeastNumber`); the functions themselves are shown to exist from the
graph of the finitely many values a call goes through (`MagnitudeTrace`,
`FlattenTrace`, `Iterates`).

Only model-checked: the fairness of `TaskRunner` in `ImplementsRunner`, and all
liveness, which is out of the prover's reach. Of every invariant a passing run
checks there is a theorem.

## 6. Plan

In this order:

1. `FuturePromise`, `Reactor`, `AcceptorGate`, `WebServer` with the runs above;
   the three proofs of section 5. Done.
2. `BufferedReader` against `ByteStream`, with the proof of its invariant and of
   the refinement; `HttpClient` with its parser, its request and its writes;
   `Mestring`, `ParseInt`, `Address`, `Base64`, `Mmh3` against reference
   definitions, with the arithmetic proofs. Done.
3. The proofs about `WebServer`. Done.
4. Proofs: `OneLocation`, `FutureIsUsable`, `Anchored`, `NoContinuationLost`
   and `ImplementsItem` of `FuturePromise`; `RequestWhole` of `HttpClient`; the
   loops of `ParseInt` and `Base64`; every invariant of `TextBuilder`. Done.
5. Proofs: `ResponseExact` of `HttpClient`, for every kind of body, over the
   proofs of `BufferedReader` and `ParseInt`. Done.

## 7. Not modelled

- The YAML reader translates a parser's events into another library's message;
  its state is the two libraries'.
- The OAuth example is one command line program: formatting, signing by a
  library, one request through the HTTP client.
- `putils/pipe.hpp` owns two file descriptors and is used by no target; the
  browser client and the build files have no logic of the system's.
- Of the modelled components: the wording of requests, responses and log lines;
  `with_lock()`, `readline()` (only a test calls it) and `read_to(char)`, which
  nothing uses; `finally()`, `handle_exception()` and what else is built from
  `then_wrapped()` alone; memory exhaustion (`then()` aborts); name lookup, the
  handshake and system calls inside asio; MurmurHash.
- Lifetimes of memory that callers pass in as views (the URL of a request).
