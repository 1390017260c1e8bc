# TLA+ models of PocketSOAP

PocketSOAP is a family of COM components for Windows and PocketPC: an HTTP
client (`pockethttp`), a SOAP client built on it (`pocketsoap`), an XML-RPC
client (`pocketxmlrpc`) and code generators for WSDL (`wsdl`).  This directory
holds TLA+ models of its core logic, the TLC configurations that check them and
TLAPS proofs about them.

## 1. The system: components, state, operations, properties

| component | state | operations | what makes it correct |
|---|---|---|---|
| Connection pool `pockethttp/core/Connection.*` | a process-wide `std::list` of `Connection` (key, `inUse`, socket, time of return), time of the last scavenging, one lock | `findConnection`, `returnToPool`, `scavangeConnections`, `destroyConnection` | one request per connection; a request only on a connection of its key; only idle, old entries are scavenged, and all of them in the end |
| HTTP transport `pockethttp/core/HTTPTransport.*` | request (method, URL, headers, body), the raw pointer `m_connection`, redirect and authentication counters, response buffer, transfer decoder | `Send`, `Response`/`Receive`, `Read`, redirects, two kinds of authentication | the pointer never outlives the list node; every socket is returned or closed; retry, redirect and authentication loops end; a request that is sent again is sent whole |
| Platform mix-ins `pockethttp/win32/httpBase.h`, `pockethttp/pocketpc/httpBase.h` | the socket, timeouts; on the desktop the SChannel context and the buffers of both directions; on PocketPC a pool of threads that do SSL reads | `PreConnect`, `PostConnect` (CONNECT tunnel, handshake), `SendChunk`, `ReadChunk`, `Disconnect` | records come out whole and in order however TCP cuts them; the context is released; errors leave a state the callers can go on from |
| SSL read pool (PocketPC) `pockethttp/pocketpc/httpBase.h` | queue of `ReadRequest`s with a reference count, an auto-reset event, idle thread count | `StartRequest`, `ThreadProc`, `ReadChunkWithMonitor` | every request is read by one thread and freed once; none waits while a thread idles |
| Transfer decoders `pockethttp/core/ChunkedTE.*` | bytes left (content-length); chunk size, chunk left, stage (chunked) | `Read` | the caller sees exactly the body and then one end indication, upon which the connection is released |
| Content coding `pockethttp/core/compressionHandlers.*` | zlib stream, buffers, stages of the gzip framing, in both directions | `Read`, `Reset`, `Size` | what is sent is what the sizing announced and decodes; the plain bytes arrive, however the reads are cut |
| Cookies, headers, streams, tracing `pockethttp/core/cookie.*`, `Header*.cpp`, `Http*.h`, `Tracing*` | cookie list, header multimap, reader chain | parse, match, append | a cookie goes only to its own host and path |
| SOAP parser and fix-ups `pocketsoap/pSOAP_Core/psParser.*`, `fixupMgr.*`, the node and array deserializers | the element stack, the nodes, the tables of ids and of the elements that wait for one | `startElement`, `characterData`, `endElement` | each href is resolved with the object of its id, whatever the order; each deserializer is told of its end once |
| Envelope writer `pocketsoap/pSOAP_Core/EnvWriter.*` | the independent elements, the ids, the running serializers | `Serialize`, `SerializeValue`, `Multiref` | each multi-ref object is written once, and what it wrote reads back |
| Serializers and type registry `pocketsoap/pSOAP_Core/Serializer*.*` | built-in tables shared by the process, behind a double-checked lock; a copy for a factory with additions; a pool of (de)serializers for each | `Find...`, `SetConfig`, `Serializer`, `Deserializer`, the pool's `Return`, `Reset`, `Flush` | factories answer as if nothing were shared; a pooled object has one owner; values survive the trip |
| SOAP transports, proxy object `pocketsoap/http`, `pocketsoap/rawtcp`, `pocketsoap/psProxy_Core` | the headers of the next request, the envelope of the call | `Send`, `Receive`, `DoSoap` | a payload is labelled as what it is; the outcome is the server's |
| Attachments `pocketsoap/Attachments_core` | parts of a MIME or DIME package, streamers, windows over the message | packaging, `Receive` | the announced length is right; parts and their ids survive a round trip, whatever the pieces |
| XML-RPC client `pocketxmlrpc/Core` | a call in progress, a stack of deserializers, the struct object | `Invoke`, element events, `CStruct` | the stack follows the document; a fault is a fault and a cut answer an error |
| WSDL tools, samples, installers, tests, `3rdparty` (STLport, expat, zlib) | | | not part of the run-time logic |

Interaction: an application fills an envelope; the envelope asks its factory for
serializers, which the writer runs; a SOAP transport labels the payload, an
attachment packager may wrap it, and an HTTP transport (one per call object)
sends it, compressed or not.  Each transport belongs to one thread at a time.
Transports of all threads share the connection pool, its list nodes (to which
they keep raw pointers between calls, outside the lock) and the process's socket
handles; factories of all threads share the built-in type tables.  On PocketPC,
SSL reads are handed to pool threads and waited for with a timeout.  A response is
read through a chain of readers: content decoder, transfer decoder,
`InternalRead`, socket or TLS record; it is `InternalRead` that gives the connection
back to the pool when a read returns nothing.  The parser gets the text from
expat and asks the factory for a deserializer for each element.

Hard behaviour: concurrent use of the pools and tables; pointers and socket handles
used after what they named is gone; retries on connections that died while idle;
errors half way through a request, redirect, read, handshake or document; a 32-bit
tick counter; reads that return less than asked, at every layer; time-outs racing
with late answers; references to objects that have not arrived yet.

## 2. Modules

| module | what it is |
|---|---|
| `ConnectionPool` | the pool, the pointer each transport keeps into it, the socket life cycle of both platforms |
| `TransferDecoder` | how the body of one response reaches the application: the three decoders over `InternalRead` |
| `SslStream` | a TLS session of the desktop build: tunnel, handshake, certificate, records both ways |
| `ContentCoding` | a compressed request and a compressed response, zlib external |
| `BodyStream` | abstract specification: what reading a response promises; the three modules above implement it |
| `HttpExchange` | one request and response of a transport: body, headers, redirects, challenges, cookies |
| `ReadRequestPool` | the PocketPC threads that do SSL reads, and the callers that wait for them |
| `Attachments` | a message with attachments packed, sent, received and unpacked, DIME or MIME |
| `EnvelopeParser` | element events, nodes, deserializers and the fix-up manager |
| `EnvelopeWriter` | header, body and independent elements |
| `SoapMessages` | composes the two: foreign envelopes, and the writer's own read back |
| `TypeTables`, `SimpleValues` | pure operators: the built-in type tables and the look-ups in them; the conversions of simple values |
| `TypeRegistry` | configurations shared, copied and released by factories; their pools |
| `PrivateRegistry` | abstract specification: tables of one's own; `TypeRegistry` implements it |
| `SoapCall` | composes `TypeRegistry` and `SimpleValues` into whole calls, through every kind of transport |
| `XmlRpc` | an XML-RPC call: the struct object, the request, the parser, the outcome |
| `...Proofs` | TLAPS proofs about the module of that name: `ConnectionPool`, `TransferDecoder`, `SslStream`, `ContentCoding`, `Attachments`, and `SoapCall` with the `TypeRegistry` it extends; `TransportProofs` about `HttpExchange` and `ReadRequestPool` |
| `SequenceLemmas` | lemmas about sequences that the proofs about readers and messages share |
| `MC...` | small instances for TLC |

The modules of the HTTP client meet at the connection.  `ConnectionPool` takes the
reading of a response as steps that end it in one of four ways (`ReadDone`,
`ReadTimesOut`, `ReadFails`, `Resend`); `TransferDecoder` is what happens before such a
step, for one response; `ReadRequestPool` is one `recv` of it on PocketPC, and
`SslStream` is what stands for `recv`, `send`, `PostConnect` and `Disconnect` on the
desktop with TLS.  `HttpExchange` is one transport seen from its application: its
connection is private and clean when it gets it, as `ConnectionPool` shows where no
pointer is stale, and its `Send` over the wire is the `Send`, `Tidy`, `Connect`,
`SendFirst` and `SendRest` of `ConnectionPool`, its `SendAgain` that module's `Resend`.
`TransferDecoder`, `SslStream` and `ContentCoding` are three layers of one chain of
readers, and each is shown to give the layer above it what `BodyStream` promises, so
each may take the one below it as any cut of the body into pieces.

In the SOAP client, `SoapCall` follows a call from the envelope to its outcome with
one parameter of a simple type, and two threads that share the type tables;
`SoapMessages` follows the structure of one message, where `SoapCall` has none.

### ConnectionPool

| state | code |
|---|---|
| `pool`, `node` | `m_pool`: the set of addresses in the list and what the memory at each address holds, also after the node was erased |
| `os` | the operating system's table of socket handles and where each was dialed to |
| `conn`, `pc`, `want`, `pooled` | of each `CHTTPTransport`: `m_connection`, where it is in `Send()`/`Read()`, the key of its request, `usingPooledConn` |
| `now`, `lastScavange` | real time, whose remainder is `GetTickCount()`; `m_lastScavange` |
| `lease`, `since`, `astray` | history: the node `findConnection` gave a transport until it is erased; real time of the last return; whether some thread has gone through a pointer to an erased node |

A step is what a thread does between two points at which another thread can
interfere: one lock region or one socket call.  `FindPooled` and `FindNew` are the
two outcomes of `findConnection`; `ReadDone` covers the end of the body with its
close or `returnToPool` and the scavenging in it; `Tidy`, `Connect`, `PostConnect`,
`SendFirst`, `SendRest` and `SendFails` are the parts of the loop in `Send()`;
`ReadFails`, `ReadTimesOut`, `Resend` and `Destroy` the other ways a connection is
given up.  The list's order is abstracted: any matching entry may be found.

A key is what `ConstructConnectionKey` makes of the scheme, server and proxy of a
request; `HandleClosed` is the mix-in's `Disconnect` as far as the socket goes.

An address that was erased can be handed out again by the next `push_back`, and a
closed handle by the next `socket()`, so use after free and use after close show up
as wrong sharing instead of as undefined behaviour.

### TransferDecoder

| state | code |
|---|---|
| `resp` | the response: framing, chunk sizes, extensions and trailers, whether the server closes after it, and whether all of it arrives (`whole`) |
| `net`, `conn` | what the server still sends; whether the transport has its connection, has it with a closed socket, has returned or closed it |
| `buf` | `m_responseBuffer`: the bytes read with the headers, and those `BufferForNextRead` puts back |
| `state`, `left` | `m_state` of `ChunkedTE`; `m_remainingInChunk`, or `m_length` of `contentLengthTE` |
| `at`, `cb`, `part`, `scratch` | the call of `Read()` in progress: its place, what it asked for, the caller's buffer, the local buffer of `getChunkSize` or of the trailers loop |
| `got`, `result` | history: what the application was given, what the last call returned |

A step is one `InternalRead` with what its caller does next, because only
`InternalRead` can wait.  `Yield` gives its outcomes: bytes from the buffer first,
else any non-empty part of what the network has, nothing once the server has
closed, an error on a time-out or (when `whole` is false) at any moment.
`Reads` is its effect, with the put-back after it.  `LengthRead` and `CloseRead`
are `contentLengthTE` and `connectionWillClose`; `SizeRead`, `ChunkRead`,
`TermRead`, `TrailerRead`, `Tidy` and `DoneRead` are the stages of `ChunkedTE::Read`;
the initial state has any prefix of the body already in the buffer, as
`ReceiveImpl` may have read it with the headers.

A byte is a pair of a kind and a number, so the order and the identity of data
bytes count and their values do not; a chunk size is one byte, whatever its
digits.  A loop turn that reads nothing from a closed connection changes nothing:
it is a stuttering step, and a loop that only turns that way is seen by the
liveness properties.

`BodyStream` has the bytes given, the rest of the body, whether the end was told
and whether the connection is held.  The refinement mapping (`Stream` in
`TransferDecoder`) maps `given` to `got`, `rest` to what the body has after it,
`ended` to the last call having returned nothing, `held` to `conn = "held"`, and
`whole` to itself.  It does not depend on the framing: that is the promise.

### HttpExchange

| state | code |
|---|---|
| `site`, `path`, `post`, `creds` | `m_server` with `m_port` and `m_ssl`; `m_uri`; the method; which user names are set |
| `body`, `pos`, `cb` | `m_requestBody`: its size, how much of it was read, and what the last read gave |
| `headers` | `m_szHeaders`: the site, path, length and cookies it was built with |
| `cookies`, `dirty` | `m_cookies`, `m_cookiesDirty` |
| `redirects`, `authDepth` | `m_redirects`, `m_authDepth` |
| `conn`, `decoder` | whether `m_connection` is null, open or has no socket; whether `m_tfrDecoder` is set |
| `pc`, `call` | the place in the call in progress, and which call it is |
| `wire`, `owes`, `continues`, `sends` | what the server has of the request (`cut` when its rest never comes) and whether an answer may still come; history of the sendings |
| `result`, `failed` | history: what the last call returned, and whether one failed since the request was begun |

`Send` is the application's call up to the inner `Send()`, which `StartSend` (the
headers rebuilt when cookies changed, the first packet filled with the start of the
body), `FirstPacket` (the connect and retry loop; it sends the same packet, so it is
one step), `MoreBody`, `SendFails` and `BodyFails` (a read of the request body gives an
error, before the first packet or behind it, and the connection stays open) go through.  `Response` is the application's
second call: `Continue` eats a 100, `NoResponse` is each way to end without a status
line (on a site of `TlsSites` a time-out is such a way, and the answer may come later,
when the next `Response()` reads it), `Answer` the response that goes to the application, and `Redirect` and
`Challenge` either end the call or disconnect, reset the body and go to `StartSend`
again, inside the same call; `Ends` releases the body, as `Receive` does on every way
out.  A reset of a body that was released is `pc = "crashed"`.  The server's reply is one of a set of records: a code, a `Location` (a URL,
an absolute path, a relative one, or none), whether the challenge is recognised, and
the cookies set.  A response may be asked for twice, a request sent in place of a
response, and a cookie set, between any two calls.  URLs are taken to be valid, and
a path starts with `/`.

### ReadRequestPool

| state | code |
|---|---|
| `work`, `avail`, `signal` | `m_work`, `m_availableThreads`, the auto-reset event `m_dowork` |
| `wpc`, `wreq` | each pool thread's place in `ThreadProc` and its `r` |
| `cpc`, `creq` | each caller's place in `ReadChunkWithMonitor` and its `r` |
| `req` | the memory of each `ReadRequest`: `rc`, its event, its result, its socket |
| `reg` | what a thread has loaded of `rc` in `Release()` |
| `sock` | the socket of each caller's connection |

A step is a lock region, or one call or memory access outside the lock.  `++rc` and
`--rc` are unsynchronised in the code, so `Release()` is a load and a store
(`CallerLoads`/`CallerStores`, `WorkerLoads`/`WorkerStores`).  `StartRequest` ends
where the lock is released; `SetDoWork` is the `SetEvent` after it.  A wait on an
auto-reset event resets it (`Wake`), and its time-out and the lock region that
decides whether the thread ends are two steps (`IdleTimeout`, `LetGo`).
Addresses of requests and socket handles are reused once deleted or closed.

### SslStream

| state | code |
|---|---|
| `session`, `arrived`, `asked` | the server, the proxy and this machine's SChannel: the records to be sent and what is wanting; how much of the wire `recv` has taken; the requests that arrived |
| `schannel`, `cred`, `context`, `active` | the records SChannel has consumed; `m_CredHandle`, `m_hContext`, `m_sslActive` |
| `res`, `io`, `doRead` | `SetupSSLProxy`'s string; `IoBuffer` and `fDoRead` of `ClientHandshakeLoop` |
| `extra`, `buff`, `readBuffer` | `m_ExtraData`, `m_sendBuff` up to `m_cbRead`, `m_readBuffer` |
| `pc`, `cb`, `size`, `got`, `result` | the call in progress; what was read and reported |

`SSL_read` answers 0 for a failed `recv`, a time-out, a `close_notify`, an empty record
and a record that does not decrypt alike: the model keeps that, and `BodyStream`'s promise
of a complete stream is for whole sessions only.  `Unchecked` is a check of the
certificate that could not be made: `VerifyServerCertificate` then returns
`GetLastError()`, which `Verify` takes for success when it is 0, and for an error that
`Send()` does not see when it is positive.

### ContentCoding

The request's side has the members of `deflateHandler` and `gzipDeflateHandler`
(`mBuff`, `zOut`, `zDone`, `mOut`, `cOut`, `crc`, ...), read in two passes: `pass` says
whether it is the one that learns the length or the one that sends.  The response's side
has those of `inflateHandler` and `gzipInflateHandler` (`buff`, `mode`, `held`, `late`,
`offset`, `need`, ...), and `text`, `result` are what the application got.  zlib is a
queue of tokens: deflate may keep what it took for a later call, inflate fills the room it
is given, and may report the end with the last byte or only in a call of its own
(`looksPast`).  `Asked` is what the transport asks for, and a read may bring more.

### Attachments

Packing is the state of `boundaryInPart` (`at`, `window`), of the record or part that is
being read (`cur`, `pos`, `rpos`, `rbuf`) and of the transport's two passes (`sized`,
`out`); receiving is the window of the MIME packager (`buff`, `bdy`, `search`), the header
that DIME reads (`rec`, `first`, `left`, `pad`), the `AttachmentBuilder` (`builder`), the
collection (`parts`) and the envelope.  Messages are sequences of tokens, so a boundary is
a few of them and can be cut anywhere; data may look like part of a boundary.  A session says whether the disk takes what is
written to it (`disk`); when it does not, each `WriteFile` may be without effect
(`Written`), and nothing is told of it.

### EnvelopeParser, EnvelopeWriter and SoapMessages

`doc` is what expat has reported: the start tags with the element each is in.  `stack`,
`chars`, `inHeaders`, `gotBody`, `deferred` are psParser's own; `heap` is one record with the
nodes, the deserializers and the tables of `FixupMgr`, because one call of the parser runs
through all of them recursively.  A deserializer is known by its element: the pool behind
it is the subject of `TypeRegistry`.  The writer's `frames` are the serializers that are
running (each one's recursion), `main`, `ind`, `cur`, `done` are `m_hdr` or `m_body`, `m_ind`,
`m_pcur`, `m_done`, and `out` the tokens written.  In `SoapMessages` a foreign server adds
elements one by one, in every order a style allows, while the parser reads them; or the
writer writes a message and the parser reads it back (`at`).

### TypeTables, TypeRegistry, PrivateRegistry

The tables of the four modes are built by the same rules as `SerializerFactoryConfig`'s
loaders; a serializer is found from the back, with its interfaces tried first.

| state | code |
|---|---|
| `heap` | the configurations that exist, at addresses that are reused |
| `slot`, `lock` | `m_std11`, `m_scripting11`, `m_std12`, `m_scripting12` of the manager, and its lock |
| `fac` | `m_mode`, `m_state`, `m_cfg`, `m_prefNamespace` of each factory |
| `pc`, `req`, `got` | where the factory's thread is in `Getter`, `Edit` or a question |
| `ready`, `active`, `held` | the two maps of `CPool`, and what the callers have |

`Getter`'s first read is outside the lock and may see NULL or the pointer; `LoadTables`
happens after the pointer is stored.  The refinement (`P` in `TypeRegistry`, checked as
`ImplementsRegistry`) maps a factory's own tables to its mode and, once it has a copy, the
additions at `heap[fac[f].cfg]`.

### SoapCall

`plan[f]` is what the thread of factory `f` does: rounds of a value, a transport, and the
answers the server may give; `call[f]` is the envelope with the place of the call in it, and
`http[f]` the headers of its transport.  Writing and parsing ask `TypeRegistry` step by step,
so the other thread's steps come between; the text of a value is what `SimpleValues` makes of
it.  An answer repeats the value, with its type, without it, differently spelled, under
another version; or is a fault, a refusal, garbled, cut short, or nothing.

### XmlRpc

`structs` are the `CStruct` objects (names, values, next id), `meant` what the application
put in them; `request`, `response` are sequences of tags and text pieces; `ps`, `des`,
`chars` are the parser's; `out` is what `Invoke` returned, `failed` whether a read of the
response gave an error (`ReadFails`), after which `Invoke` parses its last piece again.  A
server gives the parameters back, or answers with a value in a layout of its own (typed or
bare text, white space, nesting), a fault, or a part of that.

## 3. Runs

| run | question | instance |
|---|---|---|
| `pool_win32` | exclusive use, right end point, no lost socket on the desktop build, up to the first use of a stale pointer; the retry loop of `Send()` ends | 2 transports, a plain proxied and a tunnelled key, 2 nodes, 2 handles, time stands still |
| `pool_ppc` | the PocketPC build: pointers are never shared (that none dangles is `PocketPCNeverStale`); what the scavenger erases, and how long an idle entry lives, across a wrap of the tick counter | 2 transports, 1 key, 2 nodes, 2 handles, counter modulo 8, age 2, interval 1, time 2 to 10 |
| `pool_win32_shared` | *violation*: a failed send frees the node, and another transport is given its address | 2 transports, 2 keys, 3 nodes, 3 handles |
| `decode` | the application gets what `BodyStream` promises; a complete response ends, with its connection drained | content-length, to the close, chunked with up to three chunks, extensions and trailers around the buffer sizes, and a few cut short; reads of 1, 2 and 4; buffers of 5 and 8 |
| `read` | the pool's accounts, the life of a request, the end of every call | 2 callers, 2 pool threads, 2 requests, 2 handles, time-outs at any moment |
| `exchange` | each sending has the whole body and current headers; a body is there to be sent again; every call returns | one URL to start at, two sites of which one is TLS, a body of 3, a buffer of 5 of which the headers take 2 and each cookie and credential 1, a limit of 3 redirects, 19 replies, one 100 |
| `ssl` | the records' data arrives as `BodyStream` promises; no wait while a record is at hand; every answer arrives; the context is released | records of up to 3 bytes, a handshake of one or two records with or without a certificate request, data in the handshake's last packet, `close_notify`; each thing SChannel, the certificate stores or the chain can lack; 6 proxy replies; requests of 1 and 4, reads of 1 and 2 |
| `content` | the server understands what was announced and sent; the echo arrives, as `BodyStream` promises | gzip with five combinations of header fields, deflate with and without the zlib header; buffer of 6, room of 1, 3 and 4 in the first packet; pieces of 1 and 3; reads of 1 and 2 |
| `attach` | the announced length is right; the parts arrive | up to three parts, empty ones, ones larger than a buffer, data that looks like a boundary, DIME chunks, an earlier answer's parts, answers cut short, a full disk; buffers of 12, pieces of 2, 5 and 12; parts up to 3 bytes in memory, others in a file |
| `soap` | each element has its value and each deserializer one end; a written message reads back as it was | foreign envelopes of up to five elements in the Body in three styles (objects and structs; sized and unsized arrays; type maps and nulls); messages with shared, nested and root objects, and headers that must be understood |
| `xmlrpc` | the result, or the error, is what the response says; what was put in comes back | two operations on the struct objects, two calls (the second with one argument), every type, an array that cannot be written to its end, alone and in a struct, layouts with and without type tags and white space, faults, responses cut and reads that fail at any place |
| `call` | `PrivateRegistry` is implemented; one owner for each object; the label fits the body; no call looks better than its answer; the outcome is the server's | 81 scenarios of one to four rounds of a thread, or of two threads: every kind of value, both versions, envelope, string, proxy, raw message and raw TCP, with every answer a server gives (and none); 4 addresses for configurations |

Why the bounds are enough:

- *pool*: a hazard of the pool takes the pointer of one transport and one step of
  another.  `pool_win32_shared` has a node and a handle for each transport and one to be
  reused; `pool_win32` has two, so reuse comes at once.  Two keys suffice for a mismatch.
  `Addr` bounds the list and `MaxTime` the time, so a thread in `findConnection` may stop
  when the list is full, and deadlock is not checked there.  The PocketPC run's counter
  passes its wrap and the return after it.  In `pool_win32` the safety properties say
  nothing once a thread followed a stale pointer, and TLC goes on from there only while
  one transport has ever worked (`AstrayAlone`): that is all the retry loop needs.
- *decode*: the buffers of `getChunkSize` and of the trailers loop are scaled from
  80 and 128 bytes to 5 and 8, which keeps what the loops compare: a size line
  fits exactly or leaves room, a trailer overflows half of its buffer with the
  terminator across the cut.  Reads are below, at and above chunk sizes.
- *read*: two callers are enough for one signal to hide another, two threads for
  one to leave while the other works, two requests for one to be left behind
  while the other's address is reused.  A caller waits in `StartRequest` when
  there is no thread left to create, hence no deadlock check.
- *exchange*: cookies and credentials leave the first packet room for none, one,
  two or all three bytes of the body, so each way to cut it occurs; two redirects
  are enough to change the site, and to come to a second one after a challenge; two attempts to
  authenticate are the code's own limit.  `MaxContinues` bounds the 100s, which a
  server could otherwise send for ever.  `REDIRECT_ON_POST` is false, and whether the
  method is POST is free.  Deadlock is checked.
- *ssl*: a record has a header byte, so `recv` can stop before, in and after each header;
  the receive buffer holds one record and one byte more, as the code's fix of the buffer
  size does in proportion; a request of 4 needs two records.
- *content*: the transport's buffer takes a request in two or three reads, so the header
  of two tokens and the trailer of two come to lie with data, alone, across two reads and
  behind the end of what was asked for;
  `TOP_UP` is less than the buffer, as 512 is.  A response arrives in pieces of 1 or 3, with
  what has to come at once (`first`) below and above what `PreInit` needs.
- *attach*: the buffer of 12 holds a part's headers and less than the largest part, so data, a
  boundary and headers each come to lie across its end.
- *soap*: five elements hold a reference before and after its object, two references to
  one, a chain of references, and an object in an array in another.
- *xmlrpc*, *call*: a second call sees what the first left; a second thread comes between
  any two steps of the first use of the shared tables.

Each property of a passing run has a mutant (PROJECT.json, "mutants"): a
definition of the model with a plausible bug in it, kept next to the definition as
an operator `Bug...`, under which TLC finds the property violated.

### Fairness

- `ConnectionPool!FairSpec`: a thread inside `Send()` goes on; every socket call in
  it is bounded by a `select` with `m_timeout`.  Nothing is assumed of the peer.
  `SendReturns` says that a transport stays in the loop for ever only if others keep
  completing requests, whose connections it then finds.
- `TransferDecoder!FairSpec`: a `Read()` goes on (a `recv` ends by data, by the
  peer's close or by the time-out), and the application reads until it is told of
  the end or an error, as `HttpResponse::ReadToBuffer` does.
- `HttpExchange!FairSpec`: a call in progress goes on.  Each of its socket calls ends
  by the time-out at the latest, and the server's reply is left open: an error is
  always one of the outcomes.
- `ReadRequestPool!FairReadSpec`: every runnable thread runs.  A `recv` is assumed to
  return only when `Patient` holds; otherwise it may hang, as the comment at the
  head of the file expects (`read` has it hang).
- `SslStream`, `ContentCoding`, `Attachments`: the one thread that uses the object goes
  on, and a read below it ends.
- `SoapMessages`, `XmlRpc`, `SoapCall` have safety properties and refinements only: their
  loops follow a document, which is finite.

### What the violation shows

`SendChunk` calls `Disconnect()`, `destroyConnection` erases the list node, and
`m_connection` still points to it when the retry loop calls `Disconnect()` again
(`win32/httpBase.h:215`): PROJECT.json quotes the comment it disagrees with.

## 4. What the properties except

Where the code does something else than a caller would expect, the property names the
exception next to its statement.  By component:

**Pool.** While the tick counter is below `MAX_CONNECTION_AGE` the scavenger's subtraction
wraps and it erases every idle entry, the one just returned included; after the sum
`m_lastScavange + SCAVANGE_INTERVAL` has passed the counter's wrap nothing is
scavenged for a long time; on PocketPC entries whose connection failed stay in
the list, marked in use.

**Reading.** The loops of `ChunkedTE::Read` take a read of nothing for a short read: a
server that closes inside the framing makes them turn for ever (`ChunkedTE.cpp:84, 104,
144`).  A content-length body cut short is reported as complete (`ChunkedTE.cpp:42`).  A
`Read()` of zero bytes in the middle of a body returns the connection with unread bytes.

**PocketPC reads.** `m_dowork` holds one signal, so of two requests that come before a
thread wakes one stays queued, without a second thread, until a third comes
(`pocketpc/httpBase.h:107`); two decrements of `rc` that overlap leak the
request; a failed `CreateThread` is counted as a thread.  A handle may be
closed twice, by `SendChunk` and by the `Disconnect()` after it, when it may already
name another connection (`pocketpc/httpBase.h:260`); a read request that timed out
stays queued with its socket handle and buffer (`pocketpc/httpBase.h:147`).

**Exchange.** With TLS a time-out is no bytes and `S_OK` (`win32/httpBase.h:260`):
`Response()` fails, the connection stays open and `Receive` releases the request body
(`HTTPTransport.cpp:609`).  A second `Response()` reads the answer when it comes, and a
redirect or a challenge in it calls `Reset` through NULL (802, 838, 873).  A request body
whose `Read` fails leaves the connection with half a request on it in the same way, and a
server that answers that request does so in the next call.  The model
reaches both; `BodyAtHand` says that they take a call that failed before, `CallsReturn`
that a call may end in `"crashed"`, and `WholeRequest` is about requests that the
server got, or gets, to the end.  Headers that are read through the decoder of an earlier
response (539) are covered by no property.  Headers that fill the buffer to the last byte
leave the first read of the body no room, and the loop takes its nothing for the end, so the request
goes out without the body it announces (`WholeRequest` excepts that size); a limit of *n*
redirects follows *n* - 1 (`HTTPTransport.cpp:851`); a cookie's
path is compared only up to the last slash of the request's; a
challenge counts as Basic only when nothing follows the word, because the comparison
includes its terminating zero (`HTTPTransport.cpp:784, 820`).

**SSL.** `SSL_read` answers 0 for errors, time-outs, empty records, renegotiation,
`close_notify` and damaged records alike, so an empty record ends a body; `SendBuffer`
returns success after a failed send; `SetupSSLProxy` accepts a reply cut short whose first
line has "200"; `m_sslActive` is never reset; a failed handshake leaks `m_CredHandle`;
`VerifyServerCertificate` returns `GetLastError()` (`win32/httpBase.h:1204, 1230`), so a
chain that could not be checked may pass, or `Send()` goes on without the buffer that
`PostConnect` did not come to allocate; both are steps of the model (`Unchecked`), and the
properties hold over the one and end with the other; one buffer serves both
directions; `m_ExtraData` may be larger than the buffer it is copied to.

**Content coding.** A name or comment in the gzip header has to come with the first read,
and the zlib header with what follows it (`Decodable`); a read smaller than what
`m_outBuff` holds, and one that deflate ends without a byte, lose a part of the header or
the trailer; one that takes from `m_outBuff` and then asks `deflateHandler` for as much as
if it had not writes past the end of the caller's buffer
(`compressionHandlers.cpp:453-465`).  `spoilt` is the three together, and `Understood` and
`EchoArrives` promise nothing after any of them; what the overrun does to the caller's
memory is not modelled.  A raw deflate stream whose end inflate reports late fails at
its end, after all of the text: the dummy byte meant for this is tried only with the zlib header,
and what it finds is then thrown away (`compressionHandlers.cpp:144-166`), where the
comment at 149 says "this is not a problem"; `Decodable` excepts it.
`EnsureBufferContains` turns for ever on a response cut short.

**Attachments.** A read that ends at the first boundary makes the skip over it go past
the end; one that ends where the buffer ended misleads the search for the end of the
headers (`Misled`); a message cut short makes `Receive` turn for ever; `m_res` is never
cleared between calls, so the envelope is the first part of the first answer.  What
`CreateFile` and `WriteFile` return is ignored (`AttachmentBuilder.h:113-122`): on a full
disk a part arrives without its data, or without some of it, and the call succeeds
(`Stored`).  A DIME padding that cannot be read is no error either
(`DimePackager.cpp:247`): the part is built all the same, as in the model.  Reads of a part
that is sent do not fail in the model: in the code `AddNextChunk` takes a failed read for
the end of the part (`DimePackager.cpp:172`, `PartPayload.cpp:92`).

**SOAP.** An object that is part of itself never completes; an href inside an element
that closes before its object is whole while the element is waited for misses its end
(`Orderly`); a type map is honoured only for an href before its object, an item past the
last place overwrites it, and two items may have one place (`Regular`).
`isUnderstood` expects sorted declarations; two entries of the top level with one object
write it twice with one id.

**Dates.** `SystemTimeToVariantWithOffset` adds the zone to the OLE number of a date
(`SerializerDate.cpp:151`), whose fraction counts away from zero: before 1899-12-30 the
time moves the wrong way, and `1899-12-29T07:00:00+01:00` is read as 08:00.  The model does
that too; `OutcomeMeant` (`IsMisread`) and `ValuesComeBack` (`IsEarly`) except a day and time before
that date which the server writes in another zone.

**Calls.** A number that cannot be read arrives as no value, a malformed long as 0, and
neither as an error (`IsQuiet`); an empty array of bytes arrives as no value; a NULL in a
SOAP 1.2 envelope has no serializer, although writer and parser know `nil`; faults of SOAP
1.2 are not reported; `DoSoap` ignores what `Serialize` returns and posts an empty
message; a string payload is always labelled `text/xml`; over raw TCP a failed send is
success, and an object that is used again reads from a closed handle.  An object that is
refused is not returned to its pool.  `clsidOK` and `clsid` in the shared tables are
written by several threads without a lock, with equal values;
`CLSIDFromProgID` and `CoCreateInstance` are taken to know every class of the tables
(`Lookup`), where a machine without one makes the question fail (`SerializerFactory.cpp:527`); the unlocked first read in
`Getter` is a data race, modelled as either value.

**XML-RPC.** Reading an unknown member of a `CStruct` makes it, and it is then sent
without a value; member names are not escaped; `faultCode` is cut to a `WORD` and wraps
when 1000 is added; a page that is no `methodResponse` is an empty success (`Stands`).  An
array ends at the first item that cannot be written; as a member of a struct it is sent so,
closed and without an error (`Client.cpp:487-508, 536`), and `RoundTrip` is about what was
written.  A read that fails leaves `cb` as it was (`ChunkedTE.cpp:42`) and `Invoke` ignores
its result (`Client.cpp:265-269`), so the last piece is parsed again, in place of what did
not arrive: `Reported` says that the call is then an error all the same.  If it was the
first read, `buff` and `cb` are uninitialised; the model lets anything come of it, and
the properties except it (`at > 0`).

## 5. Proofs

Eight components, each from the assumptions on the constants alone, for every value of
them.

| theorem | statement |
|---|---|
| `ConnectionPoolProofs!TypeCorrect` | `Spec => []TypeOK` |
| `Exclusive` | `Spec => []ExclusiveLease` |
| `InUse` | `Spec => []LeasedInUse` |
| `PocketPCNeverStale` | `Spec => []NeverStale` |
| `PocketPCExclusive` | `~DestroyOnDisconnect /\ Spec => []PtrExclusive` |
| `GoesToRightEndpoint` | `DestroyOnDisconnect /\ Spec => []RightEndpoint` |
| `NoSocketIsLost` | `DestroyOnDisconnect /\ Spec => []SocketsAccountedFor` |
| `ScavengesOnlyTheOld`, `IdleAgeIsBounded` | `Spec => Scavanges`, `Spec => IdleAgeBounded` |
| `TransportProofs!PoolTypeCorrect` | `ReadSpec => []ReadTypeOK` |
| `PoolCounts`, `PoolWakes` | `ReadSpec => []AvailExact`, `ReadSpec => []WakeFindsWork` |
| `PoolReferences` | `ReadSpec => []NoUseAfterFree` |
| `WholeRequests` | `Spec => []WholeRequest` (of `HttpExchange`) |
| `HeadersAreFresh`, `BodyStaysAtHand` | `Spec => []FreshHeaders`, `Spec => []BodyAtHand` |
| `SendsAreBounded` | `Spec => []SendsBounded` |
| `TransferDecoderProofs!TypesHold` | `Spec => []TypeOK` |
| `StaysInStep` | `Spec => []InStep` |
| `DecodersImplementStream` | `Spec => ImplementsStream` (of `BodyStream`) |
| `SslStreamProofs!NeverWaits` | `Spec => []NeverWaitsWithData` |
| `GivesContextBack` | `Spec => []ContextReleased` |
| `DataInOrder` | `Spec => DeliversInOrder` (`BodyStream` of a stream that may end early) |
| `SslImplementsStream` | `Spec => ImplementsStream` (of `BodyStream`) |
| `ContentCodingProofs!RequestUnderstood` | `Spec => []Understood` |
| `CodingImplementsStream` | `Spec => ImplementsStream` (of `BodyStream`) |
| `AttachmentsProofs!RequestAnnounced` | `Spec => []Announced` |
| `AnswerUnpacked` | `Spec => [](session.disk => Unpacked)` |
| `SoapCallProofs!OneOwnerEach` | `RegistrySpec => []OneOwner` |
| `RegistryImplemented` | `RegistrySpec => ImplementsRegistry` (of `PrivateRegistry`) |
| `CallsUseRegistry` | `Spec => RegistrySpec` |
| `OneOwnerInCalls`, `CallsImplementRegistry` | `Spec => []OneOwner`, `Spec => ImplementsRegistry` |
| `RequestsLabelled` | `Spec => []Labelled` |
| `CallsNeverMistaken` | `Spec => []NeverMistaken` |
| `ValuesComeBack` | a value that is written, reworded and read is `Normal` of it, but for `IsEarly` values that are reworded |

What is assumed of the constants.  Sets of threads are finite where the code counts
them; buffer sizes and the sizes of reads are positive, and reads have a largest size
(`SslConstants`, `DecoderConstants`, `CodingConstants`), as the caller's length is an
`int`.  `DecoderResponses`: a chunk's size line fits `getChunkSize`'s buffer, as any
other is an error to it and no response, and a body that only the close ends comes with
a close, as `ReceiveImpl` refuses any other.  `SslHandshakes`: a server sends its
handshake, and sends it before its data, as TLS has it.  `SslServers`: a server that does
not fail sends its records in order, some data in every record of data, and nothing behind
close_notify.  `CodingSessions`: the tokens of
a compressed text are all of the text, in order.  `SoapCallScenarios`: the plans use
modes the tables exist for, and tune a factory with them.  `AttachmentSessions`: a message
has an envelope, and a server cuts a DIME payload into chunks of at least one byte;
`AttachmentConstants`: the packager's buffer is larger than what `boundaryInPart` keeps of
it, as 8192 is.  The runs evaluate all of these on their instances.

*ConnectionPool.*  `TypeOK` is not inductive: a step that follows `m_connection` needs
it not to be null, which depends on the place in `Send()`; `TypeInv` adds that
(`PcHasConn`). `ExclusiveLease` is not inductive either.  `findConnection` keeps two
leases apart because a leased node is in the list and marked in use (`LeasedInUse`), and
`Disconnect()` keeps a leased node in the list because no other transport has its
address (`ExclusiveLease`): each needs the other.  Both need that a lease is the
transport's pointer or null, and for PocketPC that the two are always equal and no
pointer is stale.  `LeaseInv` is the conjunction.  It is preserved by a step that
follows a leased pointer (`DisconnectLease`, `KeepLease`, `ClearLease`, `ReturnLease`),
a step that moves no pointer (`SameLease`) and the two outcomes of `findConnection`
(`HandOutLease`); once `astray` is set on the desktop build it only says how leases and
pointers relate, and `astray` is never reset.

`RightEndpoint` and `SocketsAccountedFor` need `SocketInv`, which holds on the desktop
build until a thread goes through a stale pointer: a socket in a node is open, was
dialed to what the node's key stands for, is in no other node, and its node is in the
list, leased where it is in use (`Wired`); every open handle is in some node (`Owned`);
a transport's leased node has the key of its request (`KeyOfRequest`), and none of them
has a socket while its transport looks for another or connects, which would lose it
(`NoSocketYet`).  Equal keys have equal routes (`SameRoute`).  `Scavanges` and
`IdleAgeBounded` relate wrapping ticks to real time: `AgeInv` says that an idle node's
stamp is the remainder of the time of its return, and that, up to the wrap, none was too
old at the last scavenging.

*ReadRequestPool.*  `PoolInv` has three parts.  `TypeInv` is the types with what each
place of a caller or thread implies of its request.  `CountInv` relates
`m_availableThreads` to the threads that wait or are on their way to wait, and a set
signal to a request in the queue.  `RefInv` counts: a request has at most one caller and
one holder among queue and threads, and its `rc` covers them however the loads and
stores of `Release()` interleave.  Callers and threads may be any finite sets.

*HttpExchange.*  `ExchangeInv` says what a request that is under way has (`LiveInv`: a
body unless a call failed, headers of its URL unless a cookie came since, no decoder; and a
crash only after a failed call), what was read of the
body in each place (`PacketInv`), and how many sendings the redirects and challenges
explain (`SendsInv`).

*TransferDecoder.*  `Inv` says where in the response the decoder is.  `PlaceInv` names a
position such that buffer and network have what follows it, and says for each stage of
`ChunkedTE` what the position is: so far into a size line, of which `scratch` has the
beginning, so many bytes before the end of a chunk (`left`), in the CRLF after it, or in
the trailers.  `GivenInv` says that the application has a beginning of the body, and of
a whole response all of it once the connection is gone; `CallInv` what a call in
progress keeps.  The position also exists in a response cut short; it is then only not
known that the end can be reached.  The refinement follows: a `Read()` gives the next
piece of the body, or nothing at its end, and the connection goes back no earlier.  What
`FlattenSeq` makes of the chunks, with the place of each of them, is proved by induction
over their number (`SequenceLemmas`).

*SslStream.*  `NeverWaitsWithData` needs of a read that `SSL_read` enters its loop with
nothing in `m_readBuffer` and `m_ExtraData` (`LoopInv`), and of `m_sendBuff` what the
last `DecryptMessage` said of it.  `ContextInv` relates the context to the place in the
set-up and to `m_sslActive`, which is what `Disconnect` looks at.  `OrderInv` follows
the data: what was given and what `m_readBuffer` has is the data of the records SChannel
has consumed (`TakenInv`), and before the handshake is over that is none (`PhaseInv`).
It shows `DeliversInOrder`, the promise of `BodyStream` but for "an end of a whole
session comes only after all of it".  That half needs where the bytes are.  `PlaceInv`
says of a whole session that what `recv` has taken and SChannel has not stands in one
buffer with nothing else: `IoBuffer` during the handshake, then `m_ExtraData` until the
first read, then `m_sendBuff`; and that it stands on the wire behind the records taken
(`Place`, `Placed`).  So the buffer is empty or has the next record or its beginning
(`HoldsNext`): `DecryptMessage` never fails, and the room for `recv` is never zero
(`PartIsShorter`).  When `recv` has nothing more all records were sent and taken
(`AllTaken`), and a record without data is close_notify, the last one; either way the
transport has all data (`ReadStepPlaces`).  A request is packed into `m_sendBuff` only
when it is empty, because what is due was read and every record but close_notify has data
(`NothingHeld`).  Which records the server has sent is a first part of all of them, as
they are sent in order (`SentIs`), and `FlattenKept` of `SequenceLemmas` gives their bytes.

*ContentCoding.*  `RequestInv` says how the stream is spread over `m_buff`, zlib, the
read in progress and what was read, in the three phases of a pass: before the first call
of deflate (`Fresh`), until deflate reports the end (`Streaming`) and after it, when
only the trailer may be missing (`Flushed`).  A pass that ends has therefore read the
coding of the whole text, of the length the first pass found, as both are
`Coded(Text)`.  `Understood` excepts what the code gets wrong by the history variable
`spoilt`, which the three kinds of bad read set, and only for gzip: deflate has no
`m_outBuff`, and its requests are always understood (`Plain`).  `ReadInv` does the same for the
response: nothing is there before it arrives (`Dormant`); what each place of `PreInit`
and `Read` implies (`StageInv`); and, in `ContentInv`, that buffer and network have a
suffix of the response, and that what was given, what inflate keeps and what the rest
decodes to are the text, until the end was seen, behind which nothing decodes.  It holds
whatever `PreInit` takes for the header: inflate accepts only the start of a stream, so
a header taken apart in the wrong place leads to an error.  The refinement maps `whole`
to TRUE: also of a response cut short there is no end before all of the text.

*Attachments.*  The message is a sequence, and each reader and writer is known by the place
in it that it has come to: `Stands(s, w, p)` says that `w` has `s` after its first `p`
tokens.  Three invariants, each inductive with those before it.  `CheckInv` is about
`boundaryInPart`: what it has read of the parts is without the boundary, and its window is
the end of that, never empty once a part was begun, so a boundary across two reads is seen
(`Seen`).  `SendInv` is about a pass: what was read, what the read in progress has and what
waits in `m_readBuffer` are, one after the other, the message up to the place that the
record and the position in its payload tell (`Offset`), and what waits is used up before
anything is added (`PassInv`).  A pass that ends is then at the end of the message, and as
both passes write the same message the length is right.  `ReceiveInv` is about the answer.
In MIME, buffer and network have what follows some place `p`; for each stage it says where
from `p` the offsets point (`FindAt`, `HeadersAt`, `BodyAt`, `NextAt`).  A search in the
buffer finds what the message has: the first boundary in the message from the part's data
on is the one behind it, because the data has none, none begins in it (`NoBoundaryInside`),
and the last tokens of a full buffer are kept where one may have begun (`MimeText`,
`FirstIs`, `Accumulates`).  In DIME, the records of all parts are numbered by part and
piece; at a header the network has what begins with that record (`StartsRecord`), in a
payload what is left of it with its padding (`InPayload`), and a chunked part is named by
its first record (`Naming`).  The number of records and the data of each are those of a
division with remainder (`CountIs`, `PiecesAre`).  What the builder has, in memory or in
the file, is in both formats the data of the part up to that place; this needs a disk that
takes what is written, and `AnswerUnpacked` is about sessions with one (`SessionStays`).  That a
full disk touches no other part is model-checked.

*TypeRegistry.*  `RegistryInv` says that the manager's tables are complete and without
additions, that a factory's state fits what it points to (`FactoryInv`), that the lock
keeps the second check true until the table is published (`CallInv`), and that two
owners have two configurations (`ApartInv`) and each configuration has an owner
(`OwnedInv`). `PoolInv` does the same for the pools: what a caller has is not ready, and
a number for a new instance exists because the known ones are finite
(`NewInstanceIsNew`).  The refinement maps a factory's tables to its mode, its schema
and the additions of its copy: the first use of the tables is a stutter
(`FirstUseRefines`), and a look-up answers as the abstract one because the configuration
it uses is complete, has the factory's mode and exactly its additions
(`LookupRefines`).  It is about `RegistrySpec`, in which an application may call a
factory that is idle with any question or addition, and return what it has.

*SoapCall.*  A call has the factory for itself from question to answer: `UseInv` says
that a factory is at work only where its thread waits for an answer, to a request that
`RegistrySpec` allows (`WorkInv`), that the thread has the serializers that it is going
to return (`HeldInv`), and that an answer it reads has an element to ask about
(`ReplyInv`).  So each step of a call is a step of `RegistrySpec` or leaves its
variables alone (`CallsUseRegistry`), and the theorems about it hold of whole calls.
`LabelsInv` follows the headers of a transport: from the moment they are made until the
server has the stream they are those of the envelope's version, and the message is
written in that version, whatever headers an earlier call left.  `OutcomesInv` follows what
comes of a call: nothing before there is an answer, no error yet while one is read
(`ParseOutcome`), and at the end of the parse an error or an answer that was read whole
(`Whole`), from which `Leave` makes its outcome (`AnswerIs`, `LeaveOutcome`).

*SimpleValues.*  `ValuesComeBack` is about the operators alone, one lemma for each kind of
value (`BytesReturn`, `DatesReturn`, `OthersReturn`).  Base64 is the longest: three bytes are
four letters and come back (`EightBits`, `GroupComesBack`), the encoder's groups are those that
the decoder takes, and only the last can be short (`BlockIsGroup`, `BytesComeBack`), and the
deserializer's letters without blanks are the encoder's (`BlanksDropped`).  `Convertible` names
the kinds and their serializers; a QName is left to TLC.  hexBinary is said to return only
arrays that are not empty: its deserializer reads nothing as no bytes, base64's as EMPTY.  Dates go
through their OLE numbers: a zone that is added to a number that is not negative moves the
time as it should (`OffsetExact`), and none moves nothing (`OleExact`).

Only model-checked:

- every liveness property (`SendReturns`, `EchoArrives` and the others under fairness);
- of `Attachments`, that a whole answer is unpacked to its end (`AllArrive`), and what a full
  disk leaves (`Unpacked` without `session.disk`);
- `SoapMessages` and `XmlRpc`, whose parsers and writers go through recursive operators over
  documents;
- `OutcomeMeant` of `SoapCall` as a whole: `CallsNeverMistaken` says which kind of outcome a call
  has, and `ValuesComeBack` what a value becomes, but not that the tables have the right
  deserializer for what a serializer wrote, which depends on every entry of them; and the
  name space of a QName, which the reader looks up with an operator that takes an operator.

Induction over naturals is done from the library's facts about well-founded orders
(`LeastElement`, `Induction` of `SequenceLemmas`) and reaches what `FlattenSeq`
returns.  Induction over documents, and operators that take operators, are outside what
the provers here can do.

## 6. Not modelled

- The rest of `HTTPTransport.cpp`: options, conversion of the payload, tracing, the
  cracking of URLs; the parsing of `Set-Cookie`; streams of earlier responses, which
  read from the transport whatever it is at; the pool's destructor at process exit.
- Headers and their enumerators, MIME header syntax, thin stream wrappers: sequential
  string handling.
- SSL's cryptography, certificates' contents, the socket stack, zlib, expat, STLport:
  external, modelled by how the code uses them.
- In the serializers: floating point, decimal and URI values, encoding styles, attributes,
  serializers of the application's own; a SOAP 1.1 array without `arrayType`, whose pooled
  deserializer keeps the bounds of an earlier array (`SerializerArray.cpp:530`).
- In the proxy and XML-RPC clients: COM dispatch by names, the factory objects.
- COM plumbing and property getters: no state worth a model.
- The WSDL tools, samples and installers: off-line generators, not part of the run-time.

## 7. Plan

Every run-time component has its module.  What would add most next:

1. Theorems: an abstract lease service that `ConnectionPool` implements; the end points of
   the PocketPC build; the outcome of a whole call.
2. The chain of readers as one composition: `SslStream` under `TransferDecoder` under
   `ContentCoding`, through `BodyStream`.
3. The serializers of floating point and decimal numbers; attributes of SOAP nodes.

A run answers one question: a new module comes with one passing run that carries its
invariants, refinement and liveness properties together.
