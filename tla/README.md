# A TLA+ verification project for dns-pq-openssl

The repository is a fork of the Go library `miekg/dns` with post-quantum
signature algorithms added to DNSSEC. It is one flat Go package: a DNS server,
a client, zone transfer, message packing and unpacking, a zone-file parser,
TSIG, DNSSEC and SIG(0), and the record types with the code generated for them.
This directory holds TLA+ modules that model its parts, TLC configurations that
check them on small instances, and TLAPS proofs.

`PROJECT.json` is the index: components, runs, mutants, the map from definitions
to source lines, findings, hazards and theorems.

Tools: `tlc -config <cfg> <module>` for a run, `tlapm <module>.tla` for the proofs, which
are in the eight modules whose names end in `Proofs`.

## Inventory

### Components, state, operations

| Component | Source | State | Operations |
|---|---|---|---|
| TCP/TLS server | `server.go` | `started`, `shutdown` (a channel), `conns`, `Listener` under `srv.lock`; a `WaitGroup` and an accept loop per run; one goroutine per connection with its query counter, read deadline and `response` value | `ListenAndServe`, `ActivateAndServe`, `serveTCP`, `serveTCPConn`, `readTCP`, `ShutdownContext`, `response.Close`, `response.Hijack` |
| UDP server | `server.go` | the same fields with `PacketConn`; the pool `udpPool` of buffers; one goroutine per packet | `serveUDP`, `serveUDPPacket`, `readUDP`, `readPacketConn`, `ShutdownContext` |
| Request processing | `server.go`, `acceptfunc.go`, `defaults.go` | the `response` value: TSIG status, request MAC, timers-only flag, closed, hijacked | `serveDNS`, `MsgAcceptFunc`, `WriteMsg`, `Write`, `TsigTimersOnly`, `SetReply`, `SetRcodeFormatError` |
| Multiplexer | `serve_mux.go`, `labels.go` | the table `z` from canonical names to handlers, under an RW mutex | `Handle`, `HandleRemove`, `match`, `ServeDNS` |
| Client | `client.go` | a `Conn` with its request MAC and `UDPSize`; deadlines | `Dial`, `Exchange`, `ExchangeWithConn`, `ReadMsg`, `WriteMsg` |
| TSIG | `tsig.go` | none of its own; the MAC chain lives in `Conn`, `response` and `Transfer` | `TsigGenerate`, `TsigVerify`, `stripTsig` |
| Zone transfer | `xfr.go` | the MAC chain and timers-only flag of a `Transfer`; a goroutine and a channel of envelopes | `In`, `inAxfr`, `inIxfr`, `Out`, `ReadMsg`, `WriteMsg` |
| Messages | `msg.go`, `msg_helpers.go`, `msg_truncate.go` | the compression map while one message is packed | `Pack`, `Unpack`, `Len`, `CopyTo`, `Truncate`, `PackDomainName`, `UnpackDomainName` |
| EDNS0 options, SVCB parameters | `edns.go`, `svcb.go` | none | `pack`, `unpack`, `len`, `copy` of each option and parameter |
| Record types and the code generated for them | `types.go`, `dns.go`, `zmsg.go`, `ztypes.go`, `zduplicate.go` | none | per type: `pack`, `unpack`, `len`, `copy`, `isDuplicate`; `ToRFC3597` |
| Names | `labels.go`, `defaults.go` | none | `NextLabel`, `PrevLabel`, `Split`, `CountLabel`, `CompareDomainName`, `Fqdn`, `CanonicalName` |
| Zone parser | `scan.go`, `scan_rr.go`, `generate.go` | the lexer's and the parser's states, `$ORIGIN`, `$TTL`, the stack of includes, a sticky error | `Next`, `setParseError`, `$INCLUDE`, `$GENERATE` |
| DNSSEC, SIG(0) | `dnssec.go`, `sig0.go` | none; keys are the caller's | `Sign`, `Verify`, `ValidityPeriod`, `KeyTag` |
| Keys, update, NSEC3, sanitising, `dnsutil`, formatting | `dnssec_key*.go`, `update.go`, `nsecx.go`, `sanitize.go`, `dnsutil/`, `format.go`, ... | none | conversions, text and pure algorithms |

### How they interact

A run of the server reads messages and starts goroutines that call `serveDNS`.
`serveDNS` calls `MsgAcceptFunc`, unpacks the message, verifies its TSIG and
calls the `Handler`, usually a `ServeMux`. The handler writes through the
`response` value, which keeps the TSIG state between reading and writing.
`ShutdownContext` runs on a goroutine of its own and meets the others in four
places: the flag `started`, the listener or packet connection, the read
deadlines of the tracked connections, and the channel `shutdown`, which the run
closes when its `WaitGroup` is empty. A server may be started again afterwards
on the same `Server` value. `Client` and `Transfer` use a `Conn` whose TSIG state
outlives one exchange. All of them use message packing; the zone parser and
DNSSEC use the record types alone.

### What is hard

* Interleavings: the start, the accept or read loop, the connection and packet
  goroutines and the stoppers share the fields of one `Server`; some accesses
  are under `srv.lock`, others (`srv.shutdown` in the `select`, `srv.PacketConn`
  at its end, the argument of `serveTCP` in `ActivateAndServe`) are not.
* Order: a deadline set by a read that races with the stop; deferred functions;
  buffers that go back to a pool others take from.
* State that outlives a step: one `response` or `Conn` for many messages.
* Failure of one step: a start that fails after `init`, a signature or a write that
  fails after the MAC was replaced, a reader that turns out unusable.
* Names: spelling, the root, and the end of the label loop.
* The network: replies that come late, twice, in another order or not at all, to a
  socket that is used again; transfers that break off between any two records.
* Three answers to one question: `Len`, `Pack` and `Unpack` must agree on every field
  of every record type, and so must `copy`, `isDuplicate` and the form that is signed.
* Scopes: owner, TTL, class and origin of a zone file flow from line to line, into an
  included file and a `$GENERATE`, and not out of them.

The hazards, each at its line with the properties that watch over it, are listed
in `PROJECT.json`.

### What makes each component correct

* Server: after a stop no goroutine is stuck in a read; `Shutdown` returns only
  when everything it stopped has ended, and does return; a run leaves nothing
  behind; channels are closed once; hijacked connections are left alone;
  a pooled buffer has one user.
* Request processing: one disposition per message, no answer to an answer, TSIG
  state of the request at hand only; a reply that fails costs the chain of MACs one link.
* Multiplexer: the closest registered zone answers.
* Client and TSIG: the reply that is returned belongs to the query and is fresh; a new
  connection begins a new chain of MACs; nothing is accepted after the deadline.
* Transfer: what the consumer gets is the zone, or an error, and the channel closes.
* Messages: unpacking inverts packing, into a used message too; `Len` bounds `Pack`;
  pointers point at the name they stand for; a cut message gives the records before
  the cut; a truncated message fits and keeps its OPT record.
* Records: a copy shares nothing, duplicates are packed alike, the form of RFC 3597
  can be turned back.
* Signatures: `Verify` accepts what says the same as what was signed, and only that;
  `ValidityPeriod` means serial numbers.
* Zone parser: the records are those the lines mean, included files are closed, an error
  is final.

## Modules

| Module | Models | Composition |
|---|---|---|
| `ServerLifecycle` | what a server promises: the abstract specification | |
| `TCPServer` | the life cycle of a TCP or TLS server | implements `ServerLifecycle` |
| `TCPServerProofs` | theorems about `TCPServer` | extends it and `TLAPS` |
| `UDPServer` | the life cycle of a server on a packet connection, with its pool | implements `ServerLifecycle` |
| `UDPServerProofs` | theorems about `UDPServer` | extends it and `TLAPS` |
| `MCServerLive` | the liveness of a server of either kind, with its fairness | a `Server` is a `TCPServer` or a `UDPServer`, by its field `Net` |
| `ServeDNS` | what happens to one message after another on a connection | the inside of the steps `serve` and `handler` of both servers |
| `ServeDNSProofs` | theorems about `ServeDNS` | extends it and `TLAPS` |
| `ServeMux` | the handler table and its lookup | a handler of `ServeDNS` |
| `ServeMuxProofs` | theorems about the table of `ServeMux` and its lookup | extends it and `TLAPS` |
| `Client` | exchanges over fresh and kept connections, with TSIG, over a faulty network | with a server that answers as `ServeDNS` does |
| `ClientProofs` | theorems about `Client` | extends it and `TLAPS` |
| `ZoneCopy` | what a transfer promises its consumer: the abstract specification | |
| `Transfer` | both ends of a zone transfer and their channels | implements `ZoneCopy`; with a server that signs as `ServeDNS` does |
| `TransferProofs` | theorems about `Transfer` | extends it and `TLAPS` |
| `Wire` | names with compression and the packing of single values | |
| `Options` | EDNS0 options and SVCB parameters | extends `Wire` |
| `RRGenerated` | the generated methods: a row per type and method | |
| `RRCodec` | records: packing, unpacking, length, copy, equality, RFC 3597 | extends `Options` and `RRGenerated` |
| `Msg` | messages: a sender, a channel that cuts, a receiver, truncation, copies | extends `RRCodec` |
| `MsgInvariant` | what the proofs about `Msg` are stated with, and its inductive invariant | extends `Msg` |
| `MsgProofs` | theorems about `Msg` | extends it and `TLAPS` |
| `Dnssec` | RRSIG and SIG(0) over the messages of `Msg` | extends `Msg` |
| `ZoneLexer`, `ZoneParser` | `zlexer` and `ZoneParser` with its stack of sub-parsers | the parser extends the lexer |
| `ZoneParserProofs` | theorems about `ZoneParser` | extends it and `TLAPS` |
| `ZoneFile` | zone files as lines, their text and what they mean | extends `ZoneParser` |
| `MC*` | instances for TLC | each extends its module |

A module that names a mutant defines it just before the definition it mutates;
no specification uses it.

### `ServerLifecycle`

Six variables without locks, channels or deadlines: which run is started, the phase
of each run, the tasks of each run, and the verdict of each stopper. A run starts
when no other serves; a task begins only for the run that is started; a run
ends when it has no task left; a stop returns nil only after that. `TCPServer` and
`UDPServer` instantiate it with the mappings `AbsCurrent`, `AbsPhase`, `AbsTask` and
`AbsVerdict`: a connection is a task from `Accept` to `wg.Done`, a packet from its read
to `wg.Done`, and a run has ended once its deferred function has closed the channel.
Only safety is refined; that stops and runs do return is stated on each server.

### `TCPServer`

A *run* is one call of `ListenAndServe` or `ActivateAndServe`, a *stopper* one call of
`Shutdown` or `ShutdownContext`, and a connection also stands for its goroutine.
Blocks under `srv.lock` are single steps, and so is every other access to shared
state: the loop tests, the argument of `serveTCP`, the `select`. `pc`, `wpc` and
`spc` say where each goroutine is. The channel in `srv.shutdown` is named after the run
whose `init` made it, so that "which channel is closed" can be told.

| Actions | Code |
|---|---|
| `AlreadyStarted`, `StartFails`, `ListenAndServe`, `ActivateAndServe`, `ReadListenerField` | the two entry points |
| `CheckStarted`, `Accept`, `AcceptError`, `AcceptClosed`, `HandleAcceptError`, `TrackConn` | the loop of `serveTCP` |
| `Drained`, `ReturnFromServe` | its two deferred functions |
| `LoopTest`, `ArmDeadline`, `ReadTCP`, `ReadTimeout`, `PeerGone` | the loop of `serveTCPConn` and `readTCP` |
| `ServeWithoutHandler`, `CallHandler`, `Hijack`, `HandlerClose`, `HandlerReturns` | `serveDNS` seen from the loop |
| `CloseConn`, `UntrackConn`, `WgDone` | the end of `serveTCPConn` |
| `ShutdownNotStarted`, `ShutdownContext`, `EnterSelect`, `ShutdownReturns`, `ContextDone` | `ShutdownContext` |

`Overlap` is the caller's discipline. The code lets a caller start a new run as soon
as `started` is false, although the old run may still drain. With `Overlap = FALSE`
the caller waits until its earlier calls have returned.

### `UDPServer`

The same, with packets for connections. The pool counts how often each buffer is
in it, `Get` takes one or makes one, and the collector may drop what is pooled.
`InUse` says who may still look at a buffer. `BadReader` allows `DecorateReader` to
return a reader that cannot read a connection which is not a `*net.UDPConn`.

### `ServeDNS`

A message is a record of the header fields `MsgAcceptFunc` looks at, of how its
body unpacks, and of its TSIG record. A MAC is abstracted to what it was computed
over: the request's own MAC, or the i-th reply signed for the n-th message. `w` is the
`response` value of the connection. Handlers write any replies that
`SetReply` builds, signed or not, close, hijack, and set the timers-only flag.

Signing and writing fail apart from each other. `WriteMsg` replaces `w.tsigRequestMAC`
(`server.go:755`) before it looks at the error and before it writes. A reply that
cannot be signed, or that reports a bad key or signature and goes out unsigned, leaves no
MAC (`WriteSignedFails`). A reply that is signed and then not written (an oversized datagram,
"message too large" for a stream, a broken connection) leaves the MAC of a reply that
nobody has (the second case of `WriteSigned`). A handler may go on after either. `gap` says that the signed reply
before failed, `signed` counts the signed replies, sent or not. The server's own error reply is
unsigned, and that its write fails is not looked at (`Answers`).

### `ServeMux`

A name is a sequence of labels as written, in either case, with or without the
final dot. `Handle` and `HandleRemove` change the table; `match` is an operator over
it. `reg` remembers the registrations as their callers wrote them, and
the properties compare `match` with what `reg` promises.

### `Client`

One caller with one message at a time, a clock, and two bags of packets on their way.
An exchange dials (`Exchange`) or uses the `Conn` it has (`ExchangeWithConn`), writes,
and reads until the id fits, an error occurs or the deadline fires. `deadline` is the read
deadline that is set on the `Conn` before the request is written; a read past it fails, and a timeout
may come late. `due` remembers what the start of the exchange fixed, so that a deadline that is set
anew would show. The clock counts seconds; what happens within one has any order. A MAC is the tuple of
what it covers, the MAC before it included, so that two ends that digest different
things disagree. UDP loses, repeats and reorders; TCP keeps order. The step from the
beginning of an exchange to the end of its write is one action: nothing else can touch
the `Conn` meanwhile, because a `Conn` has one user.

### `Transfer`

`Transfers` are the questions with the records of the answer. The handler hands them to
`Out` in envelopes of any size, `Out` writes a message for each, and the goroutine of
`In` reads them, sends envelopes to the consumer, and ends by its own rules. Init is the
state after `In` has written its request. `used` says that the `Transfer` value has done a
signed transfer before.

### `ZoneCopy`

Four variables: what the server answers, the records that the consumer has, whether it has
got an error, and whether the connection and the channel are closed. An envelope carries the
next records, an error is the last thing to come, and the connection is closed before the
channel (the comment at `xfr.go:90`) and only after an error or the end of the answer, which
may be its first message when it says that the zone is unchanged. Messages, ids, SOAs, MACs
and the server are gone. `Transfer` instantiates it with `got` for the copy and the mappings
`Answer` and `AbsPhase`. Only safety is refined; that the channel closes is `TransferEnds`.

### `Wire`, `Options`, `RRGenerated`, `RRCodec`, `Msg`

A message is packed into octets and unpacked from them. Numbers, addresses, texts,
hexadecimal, base32 and base64 fields and bitmaps are converted as the helpers in
`msg_helpers.go` do; a name is a sequence of labels, a label a sequence of octets, and
escaping is kept where lengths depend on it. A packing buffer is a record of its octets,
its capacity, the compression map and whether packing has failed.

`RRGenerated` has one row per generated method and type, in the tables `PackTable`,
`UnpackTable`, `LenTable`, `CopyTable` and `DupTable`: the fields in the order in which the
method treats them, each with the helper that treats it. A table is put together from
definitions for the types of a stretch of the generated file (`Pack_LOC_NID` is the `pack`
methods from LOC to NID). `RRCodec` interprets the rows, and adds the methods that are
written by hand.

`Msg` is the state machine: a caller packs its message, the octets may be cut, a receiver
unpacks them into a message it used before; or the caller truncates the message, or copies
it and then writes into one of its slices. What `Truncate`, `Pack` and `CopyTo` store in the
message (the extended response code, the flags) is part of the action.

A loop of the code is a recursive function of the number of its turns, or of the offset it has
come to; an operator of its own, named for the loop (`NameTurn`, `packNext`, `truncateNext`),
says what one turn does.

### `Dnssec`

A signer signs the beginning of the answer section (`RRSIG.Sign`), or the message
(`SIG.Sign`). What happens to a set on its way is split in two: what a signature must not
mind (order, repetition, TTL, case, expansion of a wildcard), and what it must (another
record, another owner). For SIG(0) one octet is changed. A signature is ideal: it verifies
for the key and the data that it was made with. The two numbers of an ECDSA signature are
padded and stripped as the code does.

### `ZoneLexer`, `ZoneParser`, `ZoneFile`

Text is a sequence of *pieces*: a word, a blank, a newline, a brace, a quote, a semicolon.
A word stands for a run of characters that the lexer treats alike. `ZoneLexer` follows
`zlexer.Next` case by case, with the token kept for the next call, the comment buffer and
the flags for owner, type, brace and quote. `ZoneParser` has one action per state of the
big `switch`, and a stack for `zp.sub`. A loop over characters or tokens is the iteration of
its turn (`scanTurn`, `restTurn`, `txtTurn`, `bitMapTurn`), for as many turns as there can be
characters or tokens left; a loop that has ended stays as it is. `ZoneFile` gives lines their text in several
layouts, and, independently of lexer and parser, their meaning.

## Runs

| Run | Checks | Bounds |
|---|---|---|
| `tcp_safety` | `TypeOK`, `StoppedReadsUnblocked`, `ShutdownDrains`, `NoDoubleClose`, `HijackedNotClosedByServer`, `ServeReturnsClean`, `ImplementsLifecycle` | 2 runs, 2 connections, 2 stoppers (one with a context), query limit 2 |
| `tcp_overlap` | `ShutdownDrains` is violated when runs overlap | 2 runs |
| `udp_safety` | `StoppedReadUnblocked`, `BufferHasOneUser`, `ConnOpenWhileServing`, `ShutdownDrains`, `ImplementsLifecycle` | 2 runs, 2 packets, 3 buffers, 2 stoppers |
| `liveness` | `TCPShutdownReturns`, `UDPShutdownReturns`, `EveryMessageDisposed` | 2 runs, 2 stoppers; 1 connection without a query limit, or 1 packet and 2 buffers |
| `mux_match` | `MatchIsClosest`, `DSLeavesChild` | labels `a`, `A`, `b`; names of up to 2 labels; 3 patterns; 2 handlers |
| `dns` | `NoAnswerLoops`, `HandledOrRejected`, `TsigStatusIsOfRequest`, `SignedRepliesChained` | 2 messages on one connection; counts low, at each limit and one beyond it; up to 3 replies each, sent or failed; 2 request MACs |
| `message` | `LengthCoversPack`, `CompressionMapIsTrue`, `RoundTrip`, `CutGivesPrefix`, `TruncateFits`, `GeneratedCodeAgrees`, `SignatureFollowsContent`, `SignedMessageIsWhole` | 608 messages; 5 sizes to truncate to; offsets up to 40; names of 9 octets; 7 keys; 2 changes on the way of a set |
| `validity_wraps` | `ValidityIsSerial` is violated | as `message` |
| `client` | `TypeOK`, `SignedExchangeGetsItsAnswer`, `FirstSignatureStartsChain`, `AcceptedReplyIsFresh`, `ExchangeEndsInTime` | 2 ids, 2 questions, 2 exchanges, 2 packets in each direction, 3 points of time, timeouts of 0 and 1 |
| `transfer` | `CompleteOrError`, `ErrorsHaveCauses`, `ImplementsCopy`, `TransferEnds` | 10 answers of up to 7 records in every split, 5 faults |
| `zone` | `ParsesAsMeant`, `FilesClosed` | 22 kinds of lines; all zones of 2 lines and some of 3; includes of depth 2 |
| `zone_error_lost` | `ErrorsSurface` is violated | 2 kinds of lines |

Why the bounds are enough. Two runs are one restart: the second meets every field
the first left behind. Two stoppers race with each other and with a restart. Two
connections (packets) meet in `conns`, the `WaitGroup` and the pool; nothing in the
code treats a third differently. Three buffers let two packets and the reader hold
one each. A limit of two queries makes the counter pass 0, 1 and the limit; the
liveness run takes no limit, so that a client may keep a connection busy for
good. The theorems lift the bounds of the two safety runs, of `dns`, `mux_match`, `client` and
`transfer` but for liveness, of `FilesClosed` in `zone`, and of `LengthCoversPack`,
`CompressionMapIsTrue` and `TruncateFits` in `message`. The counts of `dns` lie on both sides of
every limit in `defaultMsgAcceptFunc`, and its three replies are one before a failure, the failure, and the
one after it; the request MACs differ in nothing but their names, so that they are a symmetry. Two labels give the name, its parent and the root.

Two exchanges are what a late reply needs: one that times out and one that reads it. Three points
of time let a timeout of one second be renewed before the last; a fudge of 0 is
outrun by one second. Two ids and questions let the ids collide or not. A transfer of seven records in every
split puts each SOA first, last and alone in a message; two difference sequences are one more
than the counter of SOAs distinguishes.

The messages are two records of each of the 80 types but OPT with every field set, of which the
second has one field changed, and 16 that were made for one purpose each. The limits are
constants of the model, smaller than the code's: a compression pointer reaches 40 octets
instead of 16384 (the messages have up to about 150, so names lie on both sides), a name has 9
octets instead of 255, which one-octet labels fill. Nothing else depends on these numbers.
2^31 seconds are 4, so that all 8 points of time are tried.

Zones of two lines have every pair of a line and its predecessor, on which owner, TTL
and class depend; the three-line ones put a line with a scope of its own in between. Two
levels of includes meet the limit, with a file that includes itself.

`CHECK_DEADLOCK FALSE` stands where the system may stop: a server that has been shut
down with no further call to come, a finite supply of messages, a transfer that has ended. It
is absent from the runs whose system goes on, or says that it has ended by stuttering.

### Fairness

`FairSpec` of `MCServerLive` asks for weak fairness of each goroutine: the Go scheduler runs a
goroutine that can run, a read deadline that is set expires, `Accept` on a
closed listener fails, and handlers return. It asks nothing of clients (no
fairness of `Accept`, `ReadTCP`, `PeerGone`), of callers (no run or stopper ever has to
start), of contexts or of the collector. That handlers return is an assumption
on the user of the library: `Shutdown` waits for them by design.

`Client` asks for none. That an exchange ends is that the runtime ends a read at its deadline, which
would be all that a fair `Timeout` says; what the code is responsible for is that the deadline
stands, and that is the safety property `ExchangeEndsInTime`. `Transfer` asks for weak fairness of the goroutines of both sides, of the
deadline of a read when nothing can be read, and of a consumer that has not quit.

## Findings

* `tcp_overlap`: a server restarted while the old run drains shares its channel field
  with it; the old run closes the new run's channel, a `Shutdown` of the new
  run then does not wait, and the second close panics. For UDP, the same window also lets
  the stopped run see `started` again after its timeout and serve on.
* `zone_error_lost`: `NSEC.parse` does not look at the error of the lexer. In
  `a NSEC b A )` the stray brace ends the zone: the record is returned, the lines after it are
  dropped, and `Err` returns nil. The loops of the same form in `scan_rr.go` (NSEC3, CSYNC)
  are exposed in the same way.
* `validity_wraps`: `ValidityPeriod` is documented to use the serial arithmetic of RFC 1982
  (`dnssec.go:523`), under which a period may wrap. The code moves both ends by
  multiples of 2^31 that a division towards 0 yields, and compares integers: a period whose
  `Expiration` has wrapped past its `Inception` is valid at no time.

### Observations

Met while modelling, each visible in the model or its comments, without a run of its own.

Server:
* `ShutdownContext` (`server.go:428`) moves the deadline of a connection that a handler has
  hijacked and that is still in `srv.conns`; the doc of `Hijack` (`server.go:57-58`) says the
  package will not do anything with it.
* `serveUDP` (`server.go:509`) returns before it defers the close of the channel when the
  reader is unusable; `started` stays set and `Shutdown` blocks for good.
* A DS query goes to the topmost registered zone (`serve_mux.go:47`), the doc
  (`serve_mux.go:11-13`) says to the parent.
* One record in the authority section is accepted (`acceptfunc.go:52`), the doc
  (`acceptfunc.go:17`) says none.
* `response.WriteMsg` replaces the MAC of the chain before it knows whether the reply goes
  out (`server.go:755-760`): what the handler signs next is over a reply that the client never got, or
  over nothing, and does not verify there. `SignedRepliesChained` says that it is just that one reply.

Client and transfer:
* `WriteMsg` (`client.go:343-356`) signs over the MAC left by the exchange before, so a second
  signed request over one `Conn` does not verify at the server.
* A late signed reply ends a UDP exchange with a signature error before its id is
  looked at (`client.go:230`), although the loop is there to skip it.
* `TsigGenerate` (`tsig.go:177`) takes the TSIG record off the caller's message, so the same
  message sent again goes out unsigned.
* A `Transfer` that was used for a signed transfer cannot be used again; and when `In` fails to
  write, the connection it dialled stays open.
* `upToDate` compares serials as integers, so a zone whose serial has wrapped past the
  client's looks unchanged and the transfer ends after one record.

Messages and signatures:
* `EDNS0_SUBNET.copy` (`edns.go:417`) and others share their slices with the original.
* The chain of compression pointers that `Pack` can make is one shorter than the limit
  allows (`msg.go:26-36`).
* `RRSIG.Sign` takes every owner that begins with `*` for a wildcard; a wildcard at the root
  cannot be signed; a key whose tag is 0 cannot sign; `NXT` is listed in the comment of
  `rawSignatureData` and missing in its `switch`; the suffix check of `Verify` is on text, not
  on labels; `IsRRset` minds the case of owners.
* `sig0.go:151` shifts the count the wrong way, so a message with more than 256 additional
  records does not verify (the bounds of `message` do not reach so many); `SIG.Sign` returns `ErrBuf` when compression saves more than the
  length of the SIG record; `SIG.Verify` knows neither Falcon nor algorithm 7, which `Sign`
  accepts.

Zone files:
* A comment inside braces starts the recognition of types anew; a comment before the last
  token in braces is lost; a newline in braces separates no tokens.
* A missing TTL is reported only when the owner is stated and the class is not; an owner
  left out at the beginning gives a record without a name.
* `$GENERATE` ignores `$TTL` (it uses 3600), an include inside it forgets that it may not be
  nested, and its sub-parser has no file system.
* An unclosed brace with a comment returns its record before the error.
* `stringToTTL` (`scan.go:1234-1264`) adds in `uint` and compares the sum with `math.MaxUint32` at the end
  (`scan.go:1260`). With a `uint` of 64 bits every TTL above that is refused, unless its text is so long that
  the sum wraps at 2^64; with one of 32 bits the sum wraps before the comparison, which then never fails.

## Proofs

`TCPServerProofs` proves about `TCPServer`, for any sets of runs, connections and
stoppers and any query limit, from `TCPServerAssumption` (the constants have their
types, `nil` is no run):

* `TypeCorrect`: `Spec => []TypeOK`, for every caller. The type of `closedCh` needs
  that an active run has a channel (`ChannelMade`), and the bound on the query counter
  that a goroutine inside an iteration is below the limit (`QueryBound`).
* Under `~ Overlap`: `StoppedReadsAreUnblocked`, `ShutdownWaits`, `ChannelClosedOnce`,
  `ServeLeavesNothing`, `HijackedLeftOpen` and `TCPImplementsLifecycle`. The assumption
  is needed: `tcp_overlap` is the counterexample.

None of these is inductive. `IInv` adds to the types:

| Part | Says | Needed because |
|---|---|---|
| `OneRun` | an active run owns `srv.shutdown`; a channel is closed from the deferred function on | the close is on the field, not on a channel the run remembers |
| `Pending` | between `Accept` and `go`, a connection is in the hands of its run | such a connection is neither counted nor tracked, so the run must not be draining |
| `Counted` | a live goroutine is in the `WaitGroup` of a run that has not closed its channel | gives that a closed channel means no goroutine is left (`ClosedMeansDone`) |
| `Tracked` | a goroutine that may read is in `srv.conns` | the stop moves only the deadlines of tracked connections |
| `Disposed` | after its loop a connection is closed or hijacked, and only then closed by the server | for the second half of `ShutdownDrains`, and for hijacking |
| `Waiting` | a stopper waits on the channel of the run it stopped | the `select` reads the field after the lock is released |
| `Listening` | a listener named after a run was opened by it; a returned run's is closed | a restart must not reopen what an earlier run closed |
| `Stopping` | a run serves the listener in the field, which is closed once the run is stopped | `Accept` runs unlocked, and only the closed listener keeps it from taking a connection after the stop |

`IInvInit`, `IInvStep` (one case per action) and `Invariance` establish it; each theorem
then follows from the invariant, with `ClosedMeansDone` for the two about draining.
`LifecycleStep` maps each action to an abstract one or to a stutter, and
`TCPImplementsLifecycle` combines it with the invariant.

`UDPServerProofs` proves about `UDPServer`, from `UDPServerAssumption`, for any sets of
runs, packets, buffers and stoppers, a usable reader or not: `TypeCorrect`, and under
`~ Overlap` `StoppedReadIsUnblocked`, `BuffersAreNotShared`, `PacketsCanBeAnswered`,
`ShutdownWaits` and `UDPImplementsLifecycle`. Its `IInv` has `OneRun` and `Waiting` as
above and

| Part | Says | Needed because |
|---|---|---|
| `Serving` | a run serves the connection in the field `srv.PacketConn` | the stop moves the deadline, and closes the connection, of the field |
| `Held` | who holds a buffer is told by where it is in the code | a buffer that is put back must not be held by anybody else |
| `Counted` | a live packet is in the `WaitGroup` of a run that has not ended; at most one short message per run | for draining, and because `MsgInvalidFunc` finishes one task |

`BufferHasOneUser` and `ConnOpenWhileServing` are inductive together with these. The one
buffer that is in the pool while somebody still looks at it (a short message before
`MsgInvalidFunc`) is safe because `OneRun` leaves nobody else to call `Get`.

`ServeDNSProofs` proves about `ServeDNS`, from `ServeDNSAssumption`, for any set of messages,
section counts and MACs, with a TSIG provider or without, and for any number of messages on a
connection and of replies to each: `TypeCorrect`, `OneDisposition`, `NoLoops`,
`StatusOfRequest` and `RepliesChained`. The invariants, each resting on the one before:

| Invariant | Adds | Needed because |
|---|---|---|
| `TInv` | a handler runs for a message that was counted (`HandlerHasRequest`) | the reply's type depends on the request, and its name for the chain on the count |
| `IInv` | `Disposed`: a message is with its handler, rejected with one reply, or ignored; `RepliesAreResponses`; `TsigStatusIsOfRequest` | "handled or rejected" alone does not say that no handler runs for a message that was rejected |
| `CInv` | `NextLink`: in the handler of a signed request, `w` holds what the next signed reply must be over: the last signed reply that went out, or the request; after a failure nothing, or a reply that did not go out | the properties speak of the replies; what the next one is signed over is in `w` |
| | `MACsNumbered`: the MACs of the replies that went out are among those computed for this message | a new MAC is then none of theirs (`MACIsNew`), so that a reply that is signed and not written stays apart |
| | `LastSignedExists`: of the signed replies before a place there is a last one | "the reply before it" is a maximum |

`ServeMuxProofs` proves about `ServeMux`, from `ServeMuxAssumption` (lowering a label twice
is lowering it once), for any labels and handlers: `TypeCorrect`, and `TableIsExact`: after
any sequence of `Handle` and `HandleRemove` the table holds exactly the registrations in
force, whatever the spelling of the patterns. `TableIsRegistrations` is inductive with the
types; it rests on `SameNameIsSameKey`, which says that two names are the same exactly when
their canonical forms are. `MatchIsCorrect` and `DSIsCorrect` are about what `match` returns.
It walks the labels of a name from the left with a recursive function. `LoopFinds` says
what the walk returns from any label on: the handler of the first registered suffix or, for
DS, of the last. The prover has no induction over data, so the proof takes the least
number of labels for which this fails (`Least`, from `WFMin`) and refutes it with `FoundStep`,
one turn of the loop. `MatchFinds` adds the root, which is looked up at last, and
`EnclosingAreZones` and `ClosestIsFewest` turn suffixes in the table into the registered zones
that enclose the name.

`ClientProofs` proves about `Client`, from `ClientBounds` (the bounds are numbers), for any
ids, questions, fudge, number of exchanges and of packets on their way: `TypeCorrect`,
`AnswersMatch`, `FirstSignaturesVerify` and, as action properties, `RepliesAreFresh` and
`ExchangesEndInTime`. `IInv` adds
to the types and to `SignedExchangeGetsItsAnswer`:

| Part | Says | Needed because |
|---|---|---|
| `Shapes` | the `Conn` and the result are the records they should be, the network is two sequences, a `Conn` is numbered by the exchange that dialled it | packets have no type: a MAC holds the MAC before it |
| `RequestsStartChain` | a request on a connection of its own is signed over no earlier MAC | it is on its way while the `Conn` goes on |
| `RepliesAreChained` | a signed reply is signed over the MAC of a request for its own question | the reply is read long after its request was answered |
| `DeadlineIsDue` | the deadline of the `Conn` is the one that the start of the exchange fixed | reads and timeouts look at the deadline, the property at `due` |
| `ConnHoldsRequestMAC` | while a signed exchange reads, the `Conn` has the MAC of its own request | what the reply is compared with is in the `Conn`, which earlier exchanges have written |

`RepliesAreChained` and `ConnHoldsRequestMAC` meet when a reply is read: it verifies only if both hold the same MAC, and that
names the question. Neither says anything about ids, which may collide.

`TransferProofs` proves about `Transfer`, for answers of any length, cut into messages in any
way, with any fault, signed or not, by a `Transfer` that was used before or not:
`TypeCorrect`, `TransfersAreComplete`, `ErrorsAreCaused` and `TransferImplementsCopy`. It
assumes `TransferAssumption` about the answers that begin with an SOA: such an answer is a
whole zone between two equal SOAs, or, for IXFR, a sequence of differences or an answer whose
serial is not newer than the client's. `Out` sends whatever the handler gives it
(`xfr.go:222`), so this is what RFC 5936 and RFC 1995 ask of handlers; the client cannot know
the end of any other answer. Answers that do not begin with an SOA are not restricted.

`IInv` relates both ends and what lies between them; the part of a transfer that
goes on (`Active`) and the part that has ended say different things:

| Part | Says | Needed because |
|---|---|---|
| `Shapes`, `ServerOrder` | types, and where `Out` is | `Out` holds an envelope only while it writes; it fails only when the connection breaks |
| `StillToSend` | what `Out` and the handler still have is the end of the answer | with the next two, every record is in one place |
| `Received` | what the consumer and the goroutine have is the beginning | `CompleteOrError` is about the consumer alone |
| `OnTheWay` | the messages on their way are what lies between, cut somewhere | no message is empty, so each moves the client on |
| `FaultsOnTheWay` | only a fault spoils an id or a code | for `ErrorsHaveCauses` |
| `Signatures` | the MAC of the next message is over the one before it, timers only from the second on, and the client expects just that | the chain runs through the messages that the client has not read |
| `Position` | the flags of `inAxfr` and the counters of `inIxfr` are those of the records read, which are not all | the loops decide by counters, the property by the answer |
| `Ended` | an end without an error is at the end of the answer or says that the zone is unchanged; an end with an error has a cause | |

`CountMessage` says that counting the SOAs of one message after those of the messages
before it gives what counting all of them gives (`OwnSOAs`), and stops exactly at the end of the
answer; it is proved, like `LoopFinds`, from a least place where it fails. `AxfrHandles` and
`IxfrHandles` use it for a whole message. For the refinement, `ConnFirst` says that the
connection is open until the deferred function and closed after its first step; `CopyStep`
then maps each action to an envelope, `Close`, `End` or a stutter.

`ZoneParserProofs` proves about `ZoneParser`, from `ZoneParserAssumption` (the limit on the
depth is a number), for any zones and files, which may include each other and themselves,
and any ranges of `$GENERATE`: `FilesAreClosed`. The invariant speaks of the stack of parsers,
whatever the lexer returns:

| Part | Says | Needed because |
|---|---|---|
| `Nested` | a parser with a file is one deeper than the one below it, another is as deep | the depth of the top is then the number of open files |
| `Limited` | the depth is within the limit, and the parser at place i has i <= 2 * depth + 1, one more inside `$GENERATE` | `$GENERATE` is not nested in itself, but an include in it may hold another: so two parsers for each level and two at level 0 |
| `Files` | without an error, as many files are open as the top is deep, and only the bottom stops; with one, none is open | `subNext` closes the file of each level on its own, at the end of the file and, level by level, after an error |

Each action either leaves the parsers alike (`Goes`, `Returns`), adds one (`Enters`), removes
one or stops (`RunningMoves`); `OpenFiles` counts the parsers that an error closes.

`MsgProofs` proves about `Msg`: `LengthCovers`, `MapIsTrue` and `TruncationFits`, the theorems of
`LengthCoversPack`, `CompressionMapIsTrue` and `TruncateFits`. They hold for any
corpus of messages: any number of questions and records, of any type, with any names, compressed or
not, whatever their response code. The assumptions are

* `WireBounds`: a pointer reaches at least one octet and at most 16384, a name has 5 to 255 octets.
* `CorpusAssumption`: each record is of a type that has generated methods, its fields have their Go
  types and can be encoded, and it is no longer than a message may be (`IsMessage`, `IsRR`); an OPT record
  belongs to the root (`OPTAtRoot`). RFC 6891 asks for that, and `Truncate` relies on it when it takes the
  length of the OPT record from the size: "must have the root domain and it's length is thus
  unaffected by compression" (`msg_truncate.go:58`).
* `RowsAgree`: `pack` and `len` of a type go through the same fields with helpers that belong
  together. It is about the generated tables, which have one value, so TLC decides it.
* `SizeAssumption`: sizes are integers.

The inductive invariant of the steps is small, since a message is packed in one call:

| Part of `IInv` | Says | Needed because |
|---|---|---|
| `Source` | until it is packed or copied, the message is one of the corpus, or what `Truncate` makes of one | the promise relates the cut message to the one before |
| `CopyIsPair` | a copy, once taken, stays | writing into a slice happens only then, and to a message that is never packed |
| `WireIsSent` | what is on the wire is what `Pack` makes of `sent` | the extended response code is stored after packing; it is the same octets again |

The argument is about what one call does, in four layers.

1. Names. `NamePacked` says what `packDomainName` writes: labels up to the first suffix that is in
   the map, then a pointer or the root. `SpelledAt` is a name in the buffer, `TrueMap` the
   statement that every entry of the map is one; `Decoded` follows `UnpackDomainName` through the
   labels and pointers of a spelled name and finds both of its limits kept.
2. Values. `Sound` relates a buffer to the two estimates of its length: what is written is covered by both,
   and every suffix that the estimate takes as known is in the map (`Covers`). The estimate
   and the map agree only because both forget what lies beyond the reach of a pointer, and because a suffix
   in the map has its own suffixes there (`Nested`). `FieldFits` compares the helper that packs a kind of field
   with the one that measures it; the escapes of texts, the windows of bitmaps and the pairs
   of SVCB are loops of their own (`Steps`).
3. Records and messages. The length of the rdata is written again behind the rdata, so `Sound` names the octets
   that still change; no name is spelled with them. `FieldStep` (with `NSEC3Fields` for the one `len` written by hand)
   gives `RecordSound`, then `RecordsSound` over all sections, then `PackHolds`: a message
   that is not refused for its response code packs, within its length, with a true map.
4. Truncation. `CutRun` follows `truncateLoop`; `Three` puts the three sections together, where
   a section that is cut keeps later ones empty. `PackedFits` adds the OPT record, whose length must not
   depend on what comes before it, and `TruncatedFits` gives `CutStands`.

The theorems are about the `Spec` of `Msg`. The run checks the same properties under `DnssecSpec`, where
the messages are signed too; its other actions leave `m`, `sent`, `wire` and `before` alone, and of `cp`
only `SignMsg` changes anything: the extended response code.

Stating the proofs led to changes of the models. Branches of `CASE` that overlapped, where TLC
takes the first and TLA+ leaves the choice open, now exclude each other. The loops of `Wire`, `Options`,
`RRCodec` and `Msg`, once `RECURSIVE` operators, are recursive functions. `TruncateFits` tells the OPT record that `popEdns0` takes out
from the others by its place. With one OPT record that is the same as telling them by their type; of a
second one the code promises no more than of any other record.

### Only model-checked

* Liveness (`TCPShutdownReturns`, `UDPShutdownReturns`, `EveryMessageDisposed`, `TransferEnds`):
  fairness and `ENABLED` are out of the prover's reach.
* `RoundTrip` and `CutGivesPrefix`: what unpacking makes of every value of every field type, which needs
  induction over octets for each conversion. Of names, `Decoded` proves it.
* `GeneratedCodeAgrees`: the rows of the generated tables, each of which the run compares.
* `SignatureFollowsContent` and `SignedMessageIsWhole`: `Dnssec` declares `RECURSIVE` operators for the
  walk of `SIG.Verify` over a message, which the prover does not take.
* `ParsesAsMeant`: what the lexer makes of every text, again by induction over data; `ZoneFile` is
  recursive too.

`IInv` of the server modules, of `ServeMuxProofs`, `ClientProofs`, `TransferProofs` and
`ZoneParserProofs` and `CInv` of `ServeDNSProofs` were checked with TLC on the
instances of the runs before they were proved; `IInv` of `MsgInvariant` on a part of the corpus. The type invariants of `UDPServer`, `ServeDNS`,
`ServeMux` and `Transfer` are proved and not checked by a run of their own.

## Not modelled, and why

* Wording, logging, string forms of records: layout.
* The text of single record types in `scan_rr.go`, but for A, NS, TXT and NSEC, which
  stand for one token, one name, quoted strings and a list up to the end of the line. The
  others are sequences of the same steps. The form `\# length hex` and the offset, width
  and base of `$GENERATE` are conversions of text.
* Cryptography and hashing: external; a signature stands for the key and the data it was made
  with. Key generation and key files (`dnssec_keygen.go`, `dnssec_keyscan.go`) feed it.
* The generators of the generated code: they run at build time; their output is modelled.
* Socket options, out-of-band data of UDP packets (`udp.go`), `resolv.conf`: system calls and
  text.
* `Conn.UDPSize` and the size of the receive buffer: a reply that is too long for it fails to
  unpack, as a cut message does in `Msg`.
* `ToDS`, `update.go`, `nsecx.go`, `sanitize.go`, `dnsutil`: pure functions without a reference
  definition other than themselves, or over text. `Used`, `Insert` and `Remove` in
  `update.go` change the headers of the caller's records and keep them, so that a record
  used twice changes the earlier entry.
* A handler that calls `Shutdown` on its own server: it waits for itself by
  definition of `Shutdown`; stoppers are goroutines of their own here.
* `SetReply`'s copy of the question and flags: no property tells them apart.
* `NotifyStartedFunc` and `DecorateWriter`: they run user code between two steps
  and change no state of the server.
* Private record types registered at run time (`privaterr.go`).

## Plan

The server came first because it is where the library is concurrent, then the other
stateful parts, then the conversions. What is left:

1. `SignedMessageIsWhole` as a theorem: `SIG.Verify` walks over octets that `Sound` and
   `Spelled` describe.
2. `update.go` with the aliasing of the caller's records.
