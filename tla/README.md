# A TLA+ model of Bomba

Bomba is a header-only C++20 library for remote procedure calls: a program
declares objects with methods, a server exposes them over JSON-RPC, HTTP forms
or a binary protocol, and a client calls them as if they were local. This
directory holds TLA+ specifications of its stateful parts, TLC models of them,
and TLAPS proofs. Paths such as `src/bomba_http.hpp` are those of the
repository.

## 1. The system

A request takes this way, and its response the same way back:

    remote object -> RPC client (JSON-RPC / HTTP form / binary)
      -> [HttpClient] -> SyncNetworkClient -> socket
      -> TcpServer session -> TcpServerBuffer
      -> HttpServer / BinaryProtocolServer session
      -> [JSON-RPC protocol, GET and POST responders, file server] -> remote object

Nothing in the library runs in threads of its own except the worker of
`BackgroundTcpServer`. The client is synchronous; what makes it hard is that
several requests may be under way, their responses arrive in arbitrary pieces
of one stream, and they are asked for in any order.

| component | state | operations | interacts by | what is hard | what makes it correct |
|---|---|---|---|---|---|
| `TcpServerBuffer` (`bomba_tcp_server.hpp`) | array, vector for long messages, kept range, region of the next read | `receive`, `space` | callback `feedToResponder` | two stores, moves between them, boundaries | stream intact, no complete message left, region usable |
| `TcpServer`, `BackgroundTcpServer` (same file) | sessions, their indices, pending reads, threads | accept, read handler, `cancel`, `destroySession`, `stopRunning` | I/O context, mutex | threads, self-destruction in a handler | registry consistent, only the ended session destroyed |
| `SyncNetworkClient` (`bomba_sync_client.hpp`) | `_leftovers`, `_responses` | `writeRequest`, `getResponse`, `tryToGetResponse` | callback: a reader of the protocol | partial reads, order of asking | each response kept whole, under its token |
| `HttpClient` (`bomba_http.hpp`) | tokens written and read, a `ParseState` per search | `post`, `get`, `getResponse`, `hasResponse` | over `ITcpClient` | pairing by counting, stale parser | right response to each request |
| `BinaryProtocolClient` (`bomba_binary_protocol.hpp`) | `_sendOrder` | `send`, `getResponse`, `hasResponse` | over `ITcpClient` | partial reads, polling | the same, and `is_ready()` takes nothing away |
| `HttpServer::Session` (`bomba_http.hpp`) | `ParseState` across calls | `respond` | fed by the buffer, calls responders | resumed parsing, errors after output began | one response for each request, in order |
| `BinaryProtocolServer::Session`, `BinaryFormat` | none across messages | `respond`, readers and writers | the same | sizes, last array element | what is written is read back |
| `JsonRpcServerProtocol` (`bomba_json_rpc.hpp`) | per request: method, position of params, id written | `post`, `respondInternal` | HTTP POST responder | members in any order, errors, batches | called once, one answer with result or error |
| `JsonRpcClientProtocol` | none | `send`, `getResponse` | over `HttpClient` | members in any order | result of its own id |
| `IRemoteCallable` tree (`bomba_core.hpp`) | parents, cached responders | `setResponder`, `getResponder`, paths | inheritance | stale cache | calls use the responder that was set |
| `Future` (`bomba_rpc_object.hpp`) | value, token, responder | `get`, `is_ready`, move, destroy | over the RPC client | destruction waits | each response obtained once |
| output buffers (`bomba_core.hpp`) | static part, extension, size | `+=`, `clear`, flush | callbacks | growth, full buffers | bytes in order, none lost |
| file servers (`bomba_download_server.hpp`) | cache, modifiers, lock | `get`, `reload`, `reset`, `addGeneratedFile` | GET responder | concurrent reload, files written while they are read | a response is sent from one cached copy |
| JSON, URL encodings | position in text | read, write, skip | | escapes, boundaries of UTF-8 lengths | round trips |

JSON-WSP description, reflection, the TLS variants and `bomba.js` keep no state
that interleaves or persists; section 7 says why they are left out.

## 2. Modules

| module | models | checked by | proved in |
|---|---|---|---|
| `ByteStream` | stretches of a byte stream, shared by the next ones | | `ByteStream_proof` |
| `MessageStream` | abstract: a stream of bytes handed over as whole messages | through `ImplementsStream` | |
| `TcpServerBuffer` | the receive buffer and the session that drives it | `MCTcpServerBuffer` | `TcpServerBuffer_proof` |
| `TcpServer` | the registry of sessions, threads, end of the server | `MCTcpServer` | `TcpServer_proof` (one thread) |
| `SyncNetworkClient` | application, network, and the search for a response | through `NetworkClients` | |
| `HttpClient`, `BinaryClient` | the two readers over it | through `NetworkClients` | |
| `NetworkClients` | the composition: either client under one application | `MCNetworkClients` | `NetworkClients_proof` (binary in any use, HTTP in an orderly one) |
| `HttpSession` | `HttpServer::Session`: the requests of one connection | `MCHttpSession` | `HttpSession_proof` |
| `CallableTree` | paths, responders and late members of the object tree | through `RemoteCalls` | `RemoteCalls_proof` |
| `JsonRpcServer` | the JSON-RPC protocol of the server, member by member | through `RemoteCalls` | `RemoteCalls_proof` |
| `JsonRpcClient` | remote functions, futures, and the JSON-RPC protocol of the client | through `RemoteCalls` | `RemoteCalls_proof` |
| `RemoteCalls` | the composition of the last three | `MCRemoteCalls` | `RemoteCalls_proof` |
| `FileServers` | the caching and the dynamic file server | `MCFileServers` | `FileServers_proof` |
| `OutputBuffer` | the three kinds of output buffers | through `Formats` | `OutputBuffer_proof` |
| `Ascii` | `to_chars()` and `from_chars()` | through the next ones | |
| `JsonFormat`, `BinaryFormat`, `UrlEncoding` | Output and Input of the three formats | through `Formats` | |
| `Serialisation`, `Deserialisation` | what the serialisers of the types call | through `Formats` | |
| `Formats` | the composition: a value written, buffered, read | `MCFormats` | |

A definition named `Fault...` stands before the one it is a faulty variant of.
No specification uses it: put in the place of its neighbour, it is a plausible
mistake in the code, and TLC then finds a property violated. `PROJECT.json`
pairs each property with such a fault.

### TcpServerBuffer

One connection. `Receive(n)` is the completion of a read of `n` bytes together
with the start of `receive()`; `FeedIncomplete`, `FeedMessage` and
`FeedDisconnect` are one round of its parsing loop each, with the three
reactions of a responder; the last round contains the choice of the next
region (`Settle`), so `receive()` is never left half done. A byte is named by
its position in the stream, so a lost, repeated or reordered byte cannot be
mistaken for the right one; 0 is a byte that no read has written. The lengths of
the messages are chosen by the peer, message by message, and a responder answers
`OK` exactly if the kept bytes hold the whole message.

`array` and `vector` are `_responseArray` and `_longLeftovers`, `keptStart`,
`keptEnd`, `space` the members of those names, `readStart` the local
`previousReadStart`. `received`, `parsed` and `msgLength` are the peer's and
the responder's side. The `left > array size` branch (line 89) is in the model;
with a responder that parses a message as soon as it is complete it is not
reached, since before the last read the vector held less than one message and
a read adds at most one array of bytes: `left` is then at most the array.

### TcpServer

`worker[t]` says what thread `t` is doing. Within `receive()` the responder writes
to the socket or does not (`Feed`), and the write is a blocking one: it is taken
(`Sent`), or the handler waits until the peer reads (`Blocks`, `Unblocks`), which
it need not ever do. Behind that a handler is cut where another
thread could act: after `receive()`, after `readSome()` (another thread may
already handle the next read), and between the evaluation of `_index` in
`cancel()` and the lock in `destroySession()`. What happens under the lock is
one step. A destroyed session object may be created again, as an allocator may
do. The run with one thread is `BackgroundTcpServer`, and a program that calls
`run()` once.

### SyncNetworkClient, HttpClient, BinaryClient, NetworkClients

The application sends requests and asks for their responses in any order; the
server answers in order; bytes arrive in any pieces. `searchRequests()` is cut
into the look at `_responses` (`FindKept`, `FindNothing`), one read
(`ReadSome`), and one step for each call of the reader. Which step that is,
the protocol's module decides: `TakeResponse` (OK), `KeepResponse`
(WRONG_REPLY), `ReadOn`. Since the client only cuts bytes off the front of the
stream, `_leftovers` is given by two positions, and a kept response is the
piece of stream that was copied; a piece that is not exactly one response
shows a framing error.

`HttpClient` keeps in `frame` what the `ParseState` of the running search knows,
and in `lastTokenRead` the count by which it pairs. The parser is fresh in
each search, and after a response that is kept, but not after the one that was
taken, as in the code. `NetworkClients` joins the clients: what the
application, the server and the network do is written once, and a workload
says which protocol it uses, how many requests may be under way, how long the
bodies are, whether a response may be an error, which the reader of
the application throws through the client, and whether one of them may have a header
that is not HTTP (`malformed`).

A call of `HttpClient` has two ends. It has handed over its response, or the parser
has said DISCONNECT (`GiveUp` at the stream, `FindMalformed` at a kept response):
then it returns as well, with nothing handed over, and what could not be parsed stays
where it was and stops the next call in the same way.

`handed` records the bodies that the callbacks of the application were given, as
`HandedBody` has them: for a response without Content-Length, such as the server's 204,
the span ends one byte before it begins, since `bodySize` is -1
(`bomba_http.hpp:929`). `returned` has
the requests whose `getResponse()` returned. An exception from a read that fails
returns to the application, which may go on.

### HttpSession

One connection of an HTTP server, from the other side of the callback that the
receive buffer is modelled with. Both modules implement `MessageStream`, the
buffer as the one who feeds, the session as the one who consumes, so each may be
understood against it alone. A request has a type, a Content-Length or none, a
wish to close the connection, and a responder; the client chooses each next one.
The four outcomes of `respond()` are actions: `HeaderIncomplete` and
`BodyIncomplete` (READ_ON; the first forgets what it parsed, the second keeps it
in `_state`), `LengthMissing` (DISCONNECT), and `Answer`, after which the buffer
feeds what is left. `Position`, `Type`, `ParsedSize` and `ParsedEnding` are what
`_state` holds after `parse()`, whether it was called now or by an earlier
`respond()`.

A responder is described by whether it starts a response, of known size
(streamed) or unknown size (buffered), and by how it ends; `Written` is what the
client is sent in consequence. `Sound` responders do not report an error after
a response has begun. `last` records the latest answer, and with `last.answered`
whether there has been one: that an answered request got one response is then said of
what was written, and not of nothing.

### CallableTree, JsonRpcServer, JsonRpcClient, RemoteCalls

`CallableTree` has what is read by both sides, `GetChild` and `FindCallable`
downwards, `ConstructPath` upwards, and the two variables that change: which
callables have a `_parent` (members of an `RpcObject` from the beginning, those
of a `DynamicRpcObject` after `Add`), and the `_responder` each has remembered.
`GetResponder` is the search upwards, and `Remembered` what it leaves on the way.

`JsonRpcServer` follows `respondInternal()` from member to member. Its state
`srv` has what the lambda of the code has in locals: the method found so far,
whether the parameters were met before it (then their position is stored, and
read when the method comes), the id, what has been written. `ReadVersion`,
`ReadId`, `ReadMethod`, `ReadParams` and `ReadAnother` are the branches for a
member; `NextRequest` goes on in an array. What is executed and answered
follows from the order in which the members happen to come. `srv.state` has what
`respondInternal()` starts anew for each request of an array, the rest of `srv` what
`post()` keeps for all of them. `executed` is history: for each request that was read,
its connection, its number in the body, and the calls it led to.

`JsonRpcClient` has what a program does: immediate and asynchronous calls,
`get()`, `is_ready()`, move assignment and destruction of futures. An operation
that has to wait sets `asking` (`asking.of` is the future whose reader it is), and the network client below takes it on
(`FindKept`, `KeepOthers`, `TakeReply`), over whole responses, since
`NetworkClients` has their pieces. That the HTTP client finds every response whole
is true of some uses only, as the run `http_client_mixed` shows, and those are the uses
a program may have here (`Uses`): it waits for each response before the next request
of the connection (`MaySend`, by the history `handed`), or it is `pipelined`, and then
calls no function that fails, so that its responses have one size. A response that
was thrown stays in `_leftovers`; asked for again it is thrown again. Assignment is two steps: `cleanup()` waits
for the response of the old call, and may throw, before the swaps. A future
carries, as history, the call it was made for, whatever variable it is in.

`RemoteCalls` connects them, each client to the one server; and instead of
them there may be somebody else, who posts one body of any shape.
`AnswersAsSpecified` is about that one: there is a place in the response for each
request that is answered, in their order; a proper request whose parameters fit is
executed once, a proper one that has an id is answered with its own result or error and
that id, wherever it stands and whatever its neighbours are; and any other whose members
have different names is executed at most once.

### FileServers

The folder changes at any time (`ChangeFile`). A `get()` of the caching server is
cut into the look-up under the shared lock (`FindCached`, `RefuseCached`), one
step for each chunk that is sent while the lock is held (`SendCached`), and
`Conclude`. `reload()` and `reset()` wait for the exclusive lock
(`StartFilling`), and then open one file after the other (`OpenFile`), read it by chunks
(`ReadChunk`) up to its end, and enter it (`EnterFile`); they end early when a file has no
extension (`FailToLoad`), and run the modifiers that enter the generated files
(`ApplyModifier`). No lock keeps others from writing the file meanwhile: what a stream
may then yield is `Yields`, and the copy in the cache may be a mixture of two versions,
or end too early. `OneCopySent` promises no more than that a response is sent from one
such copy. The lock is not a variable: it follows from what the threads
do. Contents are version numbers, one for a chunk, so that a mixture of two
versions shows. The dynamic server reads the file as it is at each chunk; it
promises nothing about files that change meanwhile, and no property says so.

### OutputBuffer, Serialisation, Deserialisation, formats, Formats

`OutputBuffer` has the memory, the cursor `_buffer` (`begin`, `free`) and `_size`
as the code has them. A span is copied in steps (`CopyAll`, or what the kind
does when the array is full: `FillAndSend`, `FillAndExpand`, `FillAndDrop`); a
single character is written without a look at the space, which
`AddCharsOutside` models where there is none.

`Serialisation` turns a value into the sequence of calls a `TypedSerialiser` or a
`Serialisable` makes of `IStructuredOutput`; `Deserialisation` reads by calls of
`IStructuredInput`, which are its constant operators; `Formats` instantiates it
once for each format. `JsonFormat`, `BinaryFormat` and `UrlEncoding` give, for
each call, the bytes it writes and the new state of the output, and for each
reading call the new state of the input and what was read. Here bytes matter,
and are numbers: escapes, separators, byte order, percent codes and UTF-8
are what the round trips are about. `Formats` is the journey: the calls of
a serialiser go one by one through the format into a buffer of any kind, and
a reader with its own idea of the type reads what the buffer holds or has sent,
over a new value or a used one; then the buffer is used again.

## 3. Runs

| run | bounds | what it shows |
|---|---|---|
| `buffer` | array 6, read 4, messages of 1, 3, 6, 13 bytes, 14 bytes in all | all invariants of the buffer, that it implements `MessageStream`, and that a message that has arrived is parsed without further input |
| `sessions_one` | 1 thread, 4 sessions | registry consistent, no use after destruction, an ended session and only it is destroyed; it is, and the destructor returns, unless a handler is blocked in a send |
| `sessions_two` | 2 threads, 4 sessions | **violated**: `cancel()` may destroy another session |
| `network_clients` | 3 requests, header 2, reads of up to 5, 1 poll; HTTP one at a time with bodies of 0, 1, 3 that may be errors, HTTP with three under way of one size, both also with one header that is not HTTP, binary with three of two sizes | pairing and framing in any order, errors included; every call that asks returns; without DISCONNECT not before its callback was called |
| `http_client_mixed` | the same, HTTP with sizes 1 and 3 under way together | **violated**: the second response is kept truncated, and asking for it throws |
| `binary_partial` | the same, binary | **violated**: a partial read ends `getResponse()` without a response |
| `http_session` | header 3, bodies 0, 1, 4, a stream of 14 bytes, every type of request and sound responder | every request is answered with exactly one response, at once, and as its responder calls for; `_state` never outlives its request; the stream stays in step |
| `http_session_throws` | the same and a responder that throws while it streams | **violated**: not an Error 500 response, but a 500 behind a part of a 200 |
| `formats` | array of 7, each buffer used twice, the types and values of `MCFormats` in indented and compact JSON, binary, and as a form | what is written is read as the same value through each kind of buffer; members may be reordered, missing or unknown, also one unknown beside all known ones |
| `formats_overrun` | array of 40, `NonExpandingBuffer` | **violated**: it is written past its end |
| `files` | 2 threads, 2 files of 2 chunks (one has no extension), 1 path that both servers generate, 1 change, 2 gets, 2 reloads | a response is sent from one copy, none is missing during a reload, generated ones survive, every call returns |
| `remote_calls` | every order of every set of members; arrays of three with any second request; 1 client with 3 calls and 1 poll, 2 clients with 2 calls, each waiting or pipelined, futures `f` and `g` | a request is executed once and answered with its own outcome; a future gets the outcome of its own call; asking ends |

Why the bounds are enough. The buffer decides by comparing positions with the
sizes of array and read, whose ratio of 3 to 2 is the code's: messages shorter
than a read, equal to the array, longer than it, and longer than array and
vector together reach every branch, in every order that 14 bytes allow. Each
read may have any length, so every split of the stream occurs. Four sessions
give the registry one at the front, one at the back and two between, of which
one may be moved. In the clients a read of 5 bytes with responses of 2 to 5
ends within a header, within a body, between responses, and behind several of
them; with three requests the one asked for may be first, in the middle, or
last. The session decides by header and body sizes only; 14 bytes hold up to four
requests, or two with bodies, in every mixture, and any of them may be split
anywhere.

An array of 7 bytes is filled within a name, a number and an escape, and the
expanding buffer grows twice (21 and 42 bytes) in the longer messages; two rounds
show what `clear()` leaves. The types nest each kind in another one where the
format allows it; their values take each number to a boundary of its width,
each length of UTF-8, empty and longer containers, and strings made of the
characters the format itself uses. The server has at most four members with
different meanings, so all their orders are all cases; a request in an array
influences another one by what is left in the reader or the output, so one
before and one after it are enough. Two futures are needed for an assignment,
and a third call for what the assigned one leaves; a second client for a
responder that changes. One change of a file, also while it is read by a reload, gives every
reader two versions to mix, and the second reload starts while readers of the
first cache are still sending.

Deadlock is not checked in runs whose system may rightly stop: a closed
session, a joined server, an application that has asked for everything, a
message that was read, a program that ended or crashed (`UseWithoutReader`), bounds
on gets and reloads that are used up. That nobody waits for ever is a liveness
property of its own there (`GetReturns`, `AllReturn`, `GetEnds`, `StopEnds`).

### What the violations say

* `sessions_two`: `_index` is read as an argument, before the lock. Two sessions
  end at once; the first takes the last session's place away, or is moved, and
  the second pops a session that is still in use. It needs several threads in
  `run()`, for which the server has a constructor and a lock.
* `http_client_mixed`: see `KeepResponse`. The opposite order, a long response
  and then a short one, leaves the short one complete in `_leftovers`, where the
  next search does not look before it has read more: it hangs. Three bodiless
  responses under way at once (`204 No Content`, no `Content-Length`) hang for the
  same reason: with `Workloads` of `{Use("http", 3, {0}, FALSE)}` TLC finds
  `NothingOverlooked` violated.
* `binary_partial`: `HttpClient::getResponse()` repeats its search, the binary
  client does not.
* `http_session_throws`: the header of a response of known size is streamed ahead
  of its content, and the destructor of the streaming buffer sends what is in it
  while the exception leaves the filler. A 500 can then no longer be the response.

* `formats_overrun`: the cursor at the end of the array is empty, and
  `operator+=(char)` writes to its first byte all the same. Spans are cut.

### What the models follow the code in, without a property

The models have these behaviours, since the code has; no text of the
repository says otherwise, or the runs' values leave them out, and no run reports
them.

* Formats: a vector or array read from the binary format lacks its last element;
  a binary map inside a class, and a class without members, cannot be read. A
  JSON string loses a line break. In JSON without white space an unknown scalar as
  last member takes the closing bracket with it; a backslash in a skipped string
  puts the reader out of step. Where a class counts its members
  (`bomba_object.hpp:443`), an object with more of them ends early: an unknown member beside all
  known ones hides the last of them, whose value stays what it was. `ReadByName` is
  about the members that are looked at (`LookedAt`). In forms U+0800 is written in two bytes, text
  like `&#65;` comes back as `A`, an unknown empty member takes the next one with
  it, and every boolean is read as true.
* JSON-RPC server: an unknown method before the id leaves an empty 200; repeated
  parameters call twice; a wrong version or unknown member after the call leaves
  both a result and an error; a body that is neither object nor array gets an
  empty 200 and then a 400. `AnswersAsSpecified` is about requests that are
  proper, and about improper ones between them.
* Clients: a reader that throws leaves its response and what follows in
  `_leftovers`, so with several under way the next `getResponse()` waits for bytes
  that need not come (`Errors` in `MCNetworkClients`). `hasResponse()` of
  `BinaryProtocolClient` takes the response away (the reader behind it answers OK,
  so it is cut off and not kept). The callback for a response without Content-Length
  gets a span of length -1, which `RightResponse` leaves out. A header that is not
  HTTP makes `getResponse()` return as if it had succeeded; the server's own 501 is one, its
  first line ending in `\n\r` (`bomba_http.hpp:784`), though `HttpClient` sends no request
  that gets it. README.md:52 promises that the call blocks until the response is
  received.
* Futures: an assignment over a pending future leaves the other variable with a
  responder and no reader, whose destruction goes through a null pointer; a
  failing call whose future is destroyed ends the program. A future whose call failed
  stays pending: asked again it throws again, and the reply of a later call that was
  read with it stays in `_leftovers` unseen; `GetEnds` leaves that out (`LeftPending`).
  A responder that a
  callable has remembered is not changed by a later `setResponder()`.
* File servers: a file without an extension ends `reload()` (and the constructor)
  with an exception, after the cache was emptied. `DynamicFileServer` may send
  two versions in one response, or what its stack held behind the end of a file
  that has shrunk. `CachingFileServer` may cache such a mixture, or a part of a file that
  is being written, and serves it until the next reload. `addGeneratedFile()` takes no lock.

## 4. Fairness

* Buffer: `WF(Feed)`. `receive()` is a loop in one handler, and waits for nothing
  itself; its responder is assumed to return, that is, the peer to read what it is
  sent. Reads are not fair: the peer may never send again.
* Server: weak fairness of a started handler and of the join. A handler waits for the
  lock, whose holder does not wait, and in a blocking send for the peer, who need not
  read: `Unblocks` is not fair, and `EndedSessionsDestroyed` and `StopEnds` say that a
  handler blocked so is the one thing that may keep a session, or the destructor.
  Accepting, reading and stopping are up to others.
* Clients: weak fairness of the client's own steps, and, as an assumption about
  the outside, of the server's answers and of delivery, unless the connection
  ends. Without it no synchronous call could be shown to return.
* Remote calls: weak fairness of the server's thread and of a call that waits.
  Nobody has to make a call, or to ask for its outcome.
* File servers: weak fairness of a load and of every thread's get. Sending is
  among it: it assumes that clients take what they are sent. A client that does
  not holds the shared lock, and with it every reload and then every other get.
  A writer that finds readers each time it looks would starve; the number of gets
  is bounded here, so that is outside of the run, and left to the implementation
  of `std::shared_mutex`.

## 5. Proofs

`TcpServerBuffer_proof` proves for all sizes of array and read (the array at
least as long as a read, a read at least one byte), all sets of message
lengths and all lengths of the stream:

* `TypeCorrect`, `StreamIsIntact`, `SpaceIsUsable`, `NothingLeftBehind`,
  `VectorIsBounded`, `KeptStartIsBounded`: the invariants of the run `buffer`;
* `Implements`: every behaviour of the buffer is one of `MessageStream`.

None of the invariants is inductive alone. `IInv` joins them and adds what
they need of each other: that the live store is the array exactly while the vector
is empty, that a vector in use while reading ends with one array's length of free
space and holds less than one message, that the local `previousReadStart` bounds
what this call has parsed, and that while feeding the vector was already cut to
the bytes read. The argument of the step lemmas: `ReceiveIInv` (a read appends
its bytes to the kept range, `OverwriteLemma`), `FeedIInv` by cases of what the
responder said, and `SettleLemma` for the choice of the region, by the four cases
for the array (`SettleArrayLemma`) and the growth of the vector
(`GrowVectorLemma`). For the refinement, a `Receive` is an `Arrive`
(`StreamJoins`), a parsed message is a `HandOver` (`StreamDrops`), and moves
between the stores leave the kept bytes, and so the abstract state, as they are.

`HttpSession_proof` proves for every size of a header, every set of requests and
every length of the stream: `TypeCorrect`, `StateIsRight`, `NothingIsUnanswered`,
`OneResponse` (all four invariants of the run `http_session`) and `Implements`.
`OneResponse` says of the latest answer that exactly one response was written, and that
nothing is taken off the stream without an answer.
`TypeOK` is not inductive: that an answered request is consumed no further than
what has arrived depends on the body size in `_state`, which an earlier call may
have stored, being that of the request at the front. Hence
`IInv == TypeOK /\ StateIsOfFront`. From it `KnownLemma` derives that `respond()`
works with the sizes of the right request, and `ConsumingLemma` that it consumes
that request exactly; the other theorems rest on these two.

`FileServers_proof` proves for all sets of files and threads and all numbers of
changes, gets and reloads: `SendsOneCopy`, `GeneratedFilesSurvive` and
`NothingIsMissing`, the three safety properties of the run `files`. The
inductive invariant joins what is sent (`OneCopySent`) with what it depends
on: that no response is being sent while the cache is filled (`LockExcludes`), that
the modifiers applied so far have their files in the cache (`AppliedThere`), and
that outside of a load the cache has all of the last one that came to its end
(`CacheWhole`). A step that could change a cached file then finds nobody sending, the
steps that read a file chunk by chunk included (`ReadChunkStep`, `EnterFileStep`): the
exclusive lock is held from the first to the last of them.

`TcpServer_proof` proves for every set of sessions `TypeCorrect` and
`RegistryIsConsistent` for any number of threads: swap-and-pop keeps every index
right whichever index it is called with, so the registry itself survives even
the error that the run `sessions_two` finds. (The model goes on after that error as
if nothing had been overwritten; a program may not.) With the assumption
`OneThread`, that `run()` is called by at most one, `NothingUsedAfterDestroy` and
`DestroysItself` hold: then nothing comes between the reading of `_index` in
`cancel()` and its use, `IndexCurrent`.

`OutputBuffer_proof` is about `BufferSpec`, a buffer by itself to which anything may
be added. `Formats` uses it in no other way: each of its steps is one of
`BufferNext` or leaves the buffer's variables alone. `NoByteIsLost` and
`CursorIsRight` state `BufferIntact` and `CursorRight` for every size of the array
and all bytes. The invariant describes for each kind what lies before the cursor
(`ShownInv`), that what is still to be copied is the end of what was added
(`AddingInv`), and that the two counts of a streaming buffer are apart by the
cursor's position until its destructor has run (`CountInv`). The lemmas `Copies`,
`TakenAfter` and `Fills` say what one round of `operator+=` does to both sides of
the equation, and the three reactions to a full buffer start from `Fills`.

`NetworkClients_proof` proves, for any number of requests, any sizes of responses and
any pieces the stream arrives in, all invariants of the run `network_clients`:
`TypeCorrect`, `KeptWhole`, `RightOne`, `NothingIsDropped`, `NothingIsOverlooked`,
`CountFollows` and `HttpWaits`; and with `NoCallThrows` that the property which the
run `http_client_mixed` refutes holds elsewhere. They assume a condition on the workload, which no step
changes. `Aligned` is nothing for the binary client; for HTTP it is that one request is
under way at a time, with bodies of any sizes that may be errors, or else that all bodies
have one size, not 0, and none is an error. `Orderly` is `Aligned` and that the server
sends only HTTP. `HttpWaits` is for `Aligned` uses, as long as nothing that is not HTTP was
sent; the others are for `Orderly` ones. `RightOne` says nothing of the span that the
callback gets of a response without Content-Length. The runs and the README's section 3 have
counterexamples for what it leaves out: bodies of two sizes, errors, and responses
without bodies, with several requests under way.

The invariant has a part for each of the things that depend on each other.
`StreamInv` is common to the protocols: the responses follow each other and none is
empty (`Ascending`), `_leftovers` begin where a response begins (`InStep`), the reader
is called only while there is something to read (`NotEmpty`), and what was cut off is
kept or was handed over, whole and to its own request. `Bookkeeping` is about what was
asked for; in particular, with one request under way all earlier ones have returned,
which `AllReturned` derives from the guard of `WriteRequest`. `Counting` is what HTTP
adds: `CountFollowsFraming`, and that a size which the `ParseState` has of the response
before is that of the next one. `Waiting` says that outside of the reader nothing
complete is left. Then there is a response at the front (`FrontLemma`), it is the next
to be counted (`CountedFront`), and the reader measures it as it is (`Measured`). So
the steps of both clients come to the same six cases (`BinarySteps`, `HttpSteps`:
`Rests`, `Rereads`, `ReadSome`, `Takes`, `Keeps`, `Throws`), and what they do to the
stream is proved once, in `StepsStream`. The case that makes the assumption necessary
is `TakeCounting`: behind the response that was asked for the reader goes on with its
old `ParseState`; with one request under way there is nothing behind it, and with one
size what it remembers is true.

`RemoteCalls_proof` proves for all trees of callables (`CallableTreeAssumption`: finite,
nothing contains itself, siblings have different names), all clients, programs, bodies
and numbers of calls: `RequestsAreAnswered` and `OutcomesAreOwn`, the two invariants
of the run `remote_calls`. Its parts:

* The tree. `FindCallable` and `WayUp` are recursive functions. That they satisfy their
  equations needs a function that does, whose existence `Induction` shows: the
  principle of induction for a set, derived from the theorem that `<` on `Nat` is
  well-founded. From it `TreeSound` and `BoundSound` derive that a callable which has a
  responder has a way up that ends at the root, and that `FindCallable` finds it by
  the path which `ConstructPath` makes of that way.
* The server. `Going` says of the request being read how its state follows from the
  members before the current one: what of version, id, method and parameters was seen
  (`Seen`), what of it was stored (`Noted`), and whether the method was called already
  (`NotCalled`, `WasCalled`). Each kind of member has its lemma (`VersionSound` to
  `AnotherSound`), and `EndSound` concludes from `Going` after the last member that the
  request was executed and answered as `AnswersAsSpecified` wants it. `ForeignIInv`
  collects that for the first requests of the body: `AnsweredTo`, `ExecutedTo`.
* The clients. Every request a client sent has its number as its id and asks for a
  function that the path leads to (`SentIInv`), which is where the tree is needed; the
  replies to it are the expected answers to the first of them, in order (`RepliesIInv`),
  since the server is always at the oldest that has none (`OwnIInv`); and what has a
  token, be it a future that was moved or a call that waits, has that of the request of
  its own call, at the client it was sent by (`FutureIInv`).

`ByteStream_proof` has the facts on stretches of a stream that both stream
refinements use.

Assumed are the `ASSUME`s of the modules, which the code's constants satisfy, and
which TLC evaluates in the runs: `SizesAssumption` and `MessagesAssumption` for the
receive buffer; `RequestsAssumption` for the session (only POST requests have a
body, no header is empty); `FileServersAssumption` (generated files have
extensions, a provider that tells its size hands its content over at once, lengths of
files are natural numbers);
`BufferAssumption`; `ServerAssumption`; `ClientAssumption`; `CallableTreeAssumption`,
`RemoteCallsAssumption` (connections differ, bodies are sequences of requests, which
are sequences of members, pipelined uses call no function that fails).

Only model-checked: all liveness (`EveryMessageParsed`, `EndedSessionsDestroyed`,
`StopEnds`, `GetReturns`, `AllReturn`, `GetEnds`), since the prover does not reason
about fairness and ENABLED; the statements that runs find violated; and the round
trips of the formats, whose readers and writers are recursive operators, which the
prover's backends do not take. They are checked against the values they were
written from.

## 6. Plan

Done, each with its run and faults, in this order: `TcpServerBuffer` over
`MessageStream`, `TcpServer`, the network clients, `HttpSession`, the file
servers, the formats over the output buffers, and the remote calls; with
proofs of every invariant of the passing runs but those of the formats.
What could follow:

1. The formats with recursive functions in the place of operators, and proofs of what
   is read of what was written, beginning with integers and names.
2. Sessions of several connections over `TcpServer`, with writes that fail and end
   `run()` by their exception.
3. The binary server's session: a message, the call by the indices of its path, an
   answer.
4. `Future<void>`, whose `is_ready()` sets `_done` so that `get()` reads nothing.
5. An abstract specification of remote calls, in which a call has one outcome, and
   `RemoteCalls` as an implementation of it.

## 7. Not modelled

* JSON-WSP description: written once from the object tree; no state.
* TLS: the server is marked as not working in its source, and the client repeats
  `SyncNetworkClient` over a TLS stream.
* `bomba.js`: browser code, a GUI and one `fetch()` for each call.
* Reflection in `bomba_object.hpp` and the template machinery of
  `bomba_rpc_object.hpp`: decided at compile time. The variant of `Serialisable` for
  compilers with `NO_DEFECT_REPORT_2118` does not compile as it is.
* The choice of a page by `RpcGetResponder` and `HtmlPostResponder`, and the session of
  `BinaryProtocolServer`. Its format is modelled.
* `Future<void>`: it neither waits nor cleans up when it is destroyed.
* `RpcLambdaHolder` and the copies `DynamicRpcObject` makes of holders: the life time of
  C++ objects that refer to each other (a copy leaves `_parent` of its children, and a
  reallocation the reader of a future, pointing at the old one).
* JSON-RPC responses whose HTTP status is not 2xx: `getResponse()` returns without a
  value or an error.
* Requests other than POST that have a body: the session takes them to have none, and
  what follows is out of step. `RequestsAssumption` excludes them.
* Floating point numbers, descriptions of types, and values that the text of JSON
  cannot tell from their neighbours: as said with the formats above.
* Sizes near 2^16 and 2^32: the binary format's length of a message and the tokens wrap
  there; the models stay below.
* Within modelled parts: the text of messages, result codes, headers of
  requests that are not HTTP, failing writes, statistics, the position of a content type.
