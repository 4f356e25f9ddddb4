# open-sniffer in TLA+

A verification project for open-sniffer, a C program that captures Ethernet
frames from a raw socket and displays the headers of each one, layer by layer.
Modules and configurations lie side by side in this directory; `PROJECT.json`
ties every definition to the lines it models.

## The system

One process, one thread, and one source of asynchrony: SIGINT.

    network --frame--> recvfrom --packet--> callback --packet--> OSI stack --> dissector 1..9
       SIGINT --> handler --> started := 0          (recursion over layers 1..7)

| Part | State it keeps | Operations | What makes it correct |
| --- | --- | --- | --- |
| `main.c` | the flag `started`, the global OSI stack, the socket | install the handler, register nine dissectors, open, loop, clean up; the handler | a SIGINT ends it, once and for good, and everything acquired is released |
| `sync_reader.c` | lists of callbacks and interceptors; the capture buffer during a read | create, add, remove, read (allocate, receive, notify, free) | every packet is handed to every callback once, before its buffer is freed |
| `io.c`, `app.c` | the file descriptor | socket, recvfrom, sendto and close that end the program on failure | no failure is mistaken for data |
| `osi.c` | the list of dissectors; packets and sessions on the heap during a walk | register, clear, find, dump (recursive), create and destroy | every packet built on the way down is freed on the way up, once; headers ascend; a header is shown under the one that announces it |
| `dissectors/{ethernet,ip,arp,udp,tcp,icmp,dhcp}` | none | `handles`, `decapsulate`, `dump` | what `handles` accepts makes the arithmetic and the reads of the other two legal |
| `dissectors/dns` | none between packets | the same, a walk over questions and answers, name decompression | every name ends; no read outside the message |
| `dissectors/http` | a parser per call | the same, through the HTTP parser | what is shown is what the parser accepted |
| `http-parser.c` | the parser's state, flags, remaining length; the URL struct of a caller | `http_parser_execute`, `http_parser_parse_url`, ... | the pieces shown are parts of the payload, in order; lengths never overflow; the fields of a URL lie in its buffer |
| `utils/inaddr.c` | a static text buffer | set, get and format addresses | family-dependent accessors agree |
| linked list (git submodule, not in the repository) | nodes | push, find, remove, clear, iterate | external: modelled by sequences, from its use in `osi.c` and `sync_reader.c` |
| `app.c` time, `termcaps.h`, the Makefile | none | formatting, colours, build | layout only: not modelled |

The parts interact by calls only, except for two pieces of shared state: the
flag, written by the handler between any two steps of `main`, and the heap,
where the reader, the dissectors and the stack's recursion allocate and free.

Hard to test, and what the properties aim at: a signal at each point of the
program; each system call failing; ownership of the packets and sessions in
the recursion, above all at a layer without dissector, which passes its
caller's packet on; the protocol hint, one integer that is an Ethernet type
at one layer and an IP protocol number at the next; callbacks that share one packet;
a URL struct that still holds what the call before left in it; sizes computed by unsigned
subtraction from fields the network chooses; and the order of registration.
`PROJECT.json` lists each hazard at its line, with the properties about it.

## Modules

| Module | Models | Correspondence |
| --- | --- | --- |
| `Dissectors` | the nine dissectors | constant operators on packets, one `..._handles` each, named as in the code; `decapsulate`, `get_hint` and `header_size` by dissector; `dump_extent` is how far the fixed part of a dump reads, with the type that DNS reads behind its names where there are none |
| `OsiStack` | `osi.c`, and the buffer and packet of `sync_reader_read` | `stack` is the C stack of the recursion, `layer` its argument, `live` the heap; `NotHandled`, `ShowOnly`, `ShowAndDecapsulate`, `BottomOut`, `osi_destroy_packet`, `PacketFooter` are the steps of one `osi_dump_packet` |
| `SyncReader` | `sync_reader.c`, composed with `OsiStack` by EXTENDS, for any program that uses it | `callback_list` and `interceptor_list` as in the code; `reading` is where `sync_reader_read` is, `todo` what the iteration has left, `seen` what each callback was given; a callback looks at the packet or displays it; removing one that is not in its list changes nothing |
| `PacketDisplay` | nothing in the code: what the sniffer promises | one frame at a time, each displayed once, ascending, before the next |
| `Sniffer` | `main.c`, `io.c`, the reader's loop, composed with `OsiStack` by EXTENDS | refines `SyncReader` (its one callback displays) and `PacketDisplay`; `pc` is where `main` is; one action per statement, call or loop test; `Sigint` between any two |
| `DnsNames` | `dns.c`: the walk over questions and answers of an accepted message, and `dn_expand` | `pc` is the place in the walk, `data` its position; the locals of `dn_expand` (`p`, `dest`, `len`, the iteration counter) are variables, one action per branch of its loop |
| `DnsNamesReference` | what `dn_expand` promises | no state machine: a name is a list of parts (labels, pointers, an end), each behind the one before, without a counter or a buffer; `ExpandsCorrectly` and `NameIsSkipped` compare the walk with it |
| `HttpChars` | the characters the HTTP parser tells apart, their classes, `parse_url_char` | constant operators, shared by the next two |
| `HttpUrl` | `http_parser_parse_url`, `http_parse_host`, called again and again with one struct | `u` is the struct, which a call clears only in part; `pc` says which of the two loops runs, `s` its state, `p` its position; one action per kind of byte and per end of a loop |
| `HttpUrlReference` | what `http_parser_parse_url` promises | no state machine: a URL is split at the first occurrences of its delimiters; `FieldsAreExact` and `PortIsExact` compare the parser with it |
| `HttpParser` | `http_parser_execute`, called with a fresh parser on the payload of a packet | `parser` is the `http_parser`, `mark` the five marks, `calls` what the callbacks of `http.c` are given; one action per `case` of the switch, named after its state, and one per branch of the loop over a header value |
| `HttpParserReference` | what `http_parser_execute` promises of lengths | no state machine: a relation between the bodies handed over, the Content-Length fields shown before them, the size lines of chunks and the bytes of the payload; `LengthIsExact` compares the parser with it |
| `OsiStackProofs`, `ReaderProofs`, `SnifferProofs`, `UsageProofs`, `DisplayProofs`, `DnsNamesProofs`, `HttpUrlProofs`, `HttpParserProofs` | | the theorems |
| `MCFrames` | | 34 frames as bytes, each for one branch of some dissector |
| `MCSyncReader`, `MCSniffer`, `MCDnsNames`, `MCHttpParser`, `MCHttpUrl` | | the instances for TLC; `MCHttpParser` also holds a reference: what a message shows |

A packet is a window (`frame`, `off`, `size`) on the bytes of a captured frame,
read through `Wire`: contents are never copied in the model, but every read is
`At(p, i)`, and a read behind the copy returns the packet's `slack`, a byte
that the allocator left there, chosen when the copy is made. Only the two
control decisions that can depend on it (byte 9 of an IP header, byte 12 of a
TCP header) make the model branch on it. `size_t` subtraction is modulo `SIZE_MOD`. Heap blocks are
addresses; `malloc` takes one that is free, and a `malloc` that fails in a
decapsulate function ends the program, since its result is used unchecked.

In `DnsNames` the message is a sequence of bytes; bytes behind it, which the
walk may look at, are members of `Over`. Names that reach the same byte twice
may be refused although they end, because the iteration counter is compared
with the size of the message; pointers are relative to the text behind the
header, as in the code; and the names of questions are skipped only.

In `HttpUrl`, `strtoul` reads on behind the buffer, as in the code: `behind` is
what lies there. A port that ends the buffer, with a digit behind it, is stored
with that digit, so what `http-parser.h:274` says ("Converted UF_PORT string") and the
comment "Don't bother with endp; we've already validated the string"
(`http-parser.c:2391`) are not true of it, as `url` would show without the premise
`~PortRunsOn` of `PortIsExact`; and `FieldsAreExact` compares the maximum with what
`strtoul` reads. The program itself never calls the function. A URL with a schema and without a host (`x:///`) makes the
second loop walk over whatever host the struct held before; `FieldsInside` and
`FieldsAreExact` leave it out, and the comment that "parsing http:///toto will
fail" (`http-parser.c:2378`) is true of a struct that was cleared. The reference
also shows that the comment "CONNECT requests can only contain "hostname:port""
is true of the fields only: a `?` or `#` with nothing behind it is accepted
after the port, because an empty field is never set.

In `HttpParser` the payload is a sequence of symbols: the characters that the
parser tells apart, and words (methods, names and values of headers) which it
matches letter by letter and the model reads in one step. So the counters
`nread` and positions count symbols, and a word that breaks off in the middle
is represented by one of them, "cl", which starts like "close". The callbacks
return 0 and change nothing, so `http_dissector_handles`, which parses
without them, sees the same run; its verdict is `http_errno`, which
`Dissectors` has as the constant `HttpAccepts`.

The module of each mutant operator is the module of the definition it
mutates, next to it; they are the bugs the properties are tried against and no
part of the specifications.

## Runs

| Run | Configuration | What it shows |
| --- | --- | --- |
| `reader` | `MCSyncReader.cfg` | the reader over the stack, with up to 4 of 5 dissectors, 2 callbacks (one displays) and an interceptor, added and removed in any order, with repetitions, also between two packets: type correctness, `HeapExact`, `TransportOverIP`, `NoneIsPassedOver` (a packet that a dissector of a layer ahead accepts is shown, by the first that does), `DeliveredAlike` (every callback gets the same whole packet, in order), `ReadLeavesNothing`, `NoneIsSkipped`, and under fairness `ReadReturns` |
| `sniffer` | `MCSniffer.cfg` | the whole program on all frames, two SIGINTs, every failure: 9 invariants, `StopIsFinal`, the refinements `ImplementsDisplay` (of `PacketDisplay`) and `UsesReader` (of `SyncReader`), and under fairness `InterruptEndsLoop` and `EveryPacketIsFinished` |
| `dns` | `MCDnsNames.cfg` | the walk on every query of 4 to 6 bytes over 5 byte values and on responses with each type of record: `NameStaysInside`, `SizeIsBounded` (also where a cut off record makes a name start behind the message), `ExpandsCorrectly` (against the reference), `QuestionsAdvance`, and under fairness `DumpEnds` |
| `http` | `MCHttpParser.cfg` | the parser on messages that combine 9 first lines, 7 ways to speak of the connection and 4 framings, each followed by a second message; on some of them cut off at every place, or going on there with any of 16 characters; and on lengths and headers around the limits: `AssertionsHold` (the `assert`s of the code), `CallsInOrder`, `ShowsMessage` (against the description the message was written from), `LengthIsExact`, `HeaderLimit`, and under fairness `ParserStops` |
| `url` | `MCHttpUrl.cfg` | the URL parser on every URL of up to 3 bytes, every authority of up to 3, and combinations of 4 users, 4 hosts, 6 ports and 36 rests, after another URL in the same struct, with a digit, something else or nothing behind the buffer: `FieldsInside`, and against the reference `FieldsAreExact` and `PortIsExact` |
| `dns_loop` | `MCDnsNamesInside.cfg` | violation of `EveryNameStaysInside` |
| `dns_skip` | `MCDnsNamesSkip.cfg` | violation of `NameIsSkipped` |
| `first_match` | `MCSnifferFirstMatch.cfg` | violation of `EveryHandlerShown` |
| `short_header` | `MCSnifferShortHeader.cfg` | violation of `AllShowCaptured` |
| `empty_segment` | `MCSnifferEmptySegment.cfg` | violation of `SegmentsAreShown` |
| `early_sigint` | `MCSnifferEarlySigint.cfg` | violation of `InterruptEndsProgram` |
| `eintr` | `MCSnifferEintr.cfg` | violation of `InterruptReleases` |

(`http-parser.c:1621` looks for a tab in a character that `LOWER` has changed,
so the white space that its comment means to skip is a space only: a tab behind
the comma of a Connection header ends the search for its options. Two comments of `http-parser.h` do not describe the parser either, without
an effect on the program: `content_length` is the largest value, not 0, in a
message without a length, and `upgrade` is set for CONNECT as well.)

The violations are disagreements between the code and what its own comments
or documentation say; `PROJECT.json` quotes each under "findings".

Bounds, and why they are enough:

- `Frames`: the packets of two frames never meet (`EndRead` frees the one
  before the next is read), so frames are independent and what matters is
  that each branch of each dissector is taken on both sides and at its
  boundary; the catalogue has a frame for each. The `reader` run takes two
  of them, because any list of dissectors and callbacks can meet them: one
  that must not get to UDP, and one that two dissectors of layer 7 take.
- `Addr` has 8 blocks: the deepest walk needs the buffer, Ethernet's and IP's
  two blocks each and UDP's or TCP's three. Running out is modelled anyway.
- `MaxSigint` is 2: the second shows that a repeated signal changes nothing.
- `MaxRegistered` is 9 for the program, its own number, and 4 for `reader`,
  where a dissector may be repeated. `MaxCallbacks` is 2: what a callback may
  do to the next is done by one to another, or to itself when it is twice in
  the list. `MaxInterceptors` is 1, since nothing calls them.
- `PACKET_SIZE` is the program's 1024 and `SIZE_MOD` 65536: any modulus above
  the packet size tells a wrapped size from a right one.

- `DnsNames`: the bytes 0 to 3 and 192 make ends, labels and pointers; six of
  them make every chain of two pointers and every cut. `NameSpace` is 4, so
  that names overflow it; `Over` has two bytes, `MaxSkip` bounds the distance
  behind the message at which `_cname_rr` may start a name.
- `HttpUrl`: `MaxCalls` is 2, since a call sees what the one before left and
  nothing older that the first would not have overwritten or kept; the first
  URLs leave a host at the start of the struct, further on, or none. Buffers
  are shorter than 65536 bytes, where the 16-bit offsets are exact.
- `HttpParser`: `ULLONG_MAX` is 255, so that lengths of three digits pass it;
  the tests of the code are the same at any width. `HTTP_MAX_HEADER_SIZE` is
  55, the least that leaves every message of the reference its headers; the
  payloads made for the limit pass it in names, values and lines. In the
  program it is 80 KiB, which no packet reaches.

Deadlock is checked, except in `reader`, where a program that `xrecvfrom` or a
crash has ended does stop, and in `url`, where the calls are bounded. A
terminated `Sniffer` stutters by `Terminated`.

Fairness: `WF_vars(MainStep)` says that the operating system keeps scheduling
the only thread, `WF_vars(ReceiveStep)` that frames keep arriving, which
`InterruptEndsLoop` needs: on a silent network a SIGINT delivered between the
loop test and `recvfrom` is not noticed. `ReaderFairSpec` has the first part for
what the reader does with a packet it has; `FairSpec` of `DnsNames` and of `HttpParser` say that a
dump that has begun goes on. Nothing is assumed about signals.

## Proofs

`OsiStackProofs` proves of `OsiSpec`, for every set of frames, heap, list of
dissectors and packet size:

- `TypeInv`, the inductive invariant behind all others: the types, the shape
  of the recursion (nothing on the stack when idle but the caller's packet)
  and `PayloadIsSuffix`. The last one is in it because the types need it: that
  a decapsulated packet has a size in `0..PACKET_SIZE` is only true since the
  subtraction does not wrap, which is what `handles` ensures (`HeaderFits`).
- `HeapExact`, inductive relative to `TypeInv`: `malloc` returns blocks outside
  `live`, `osi_destroy_packet` removes those of the last packet.
- `Chain`: every entry of the output is accepted by its dissector and linked
  to the one above it by offset, hint and session. `LayersAscend`, `TransportOverIP`
  and `ApplicationOverTransport` follow from it. `TransportOverIP`
  rests on `HintRange`: the types of accepted frames start at 512, where no IP
  protocol number is.
- `NoneIsPassedOver` speaks of the end of the descent and of all layers; `Choosing` says
  the same of a walk in its course: a packet that was shown was shown by the first
  dissector that accepts it (`FirstShows`), and of the one that was not yet, which is the
  last built, every dissector that accepts it belongs to a layer still ahead
  (`LaterOnly`), so that a layer is left only when none of its dissectors accepts.

`ReaderProofs` carries these results over to every client of the reader
(`ReaderUsesStack`) and proves `ReaderInv`: the types, where the packet and the
walk are at each place of a read (`ReadShape`), and `Delivering`: those notified and
those left make up the list of callbacks, and each was given the packet at
the bottom of the stack. That its bytes are still in the heap (`DeliveredAlike`)
needs `HeapExact` and that a walk leaves its caller's packet alone.

`UsageProofs` proves `SnifferUsesReader`: the program implements `SyncReader`. The
mapping reads the reader's state off `pc` and `todo`; every step of `main` is a step
of a client or a stutter. An end of the process within a read is `ReadFails`
when it is `xrecvfrom`'s, and the walk's own crash otherwise.

`SnifferProofs` proves `MainInv` (where `main` is, what it has acquired by then, who
owns the packet, when a packet can be late) and that every step of the program is a
step or a stutter of `OsiStack` (`SnifferUsesStack`), which carries the results
above over to the program; then `CleanExit`, `WalkIsEquipped`,
`AtMostOneLatePacket` and `StopIsFinal`.

`DisplayProofs` proves `SnifferImplementsDisplay`: under the mapping that `Sniffer`
gives, every step is a step of `PacketDisplay` or a stutter. Its invariant,
`DisplayInv`, is `TypeInv`, `MainInv` and `LayersAscend`: the mapped output is
an ascending display only because of the last one.

`DnsNamesProofs` proves, for every message, name buffer and memory behind the
message, the invariant `DnsInv`: types; where the walk stands at each place (`Walking`);
what the locals of `dn_expand` are bounded by in its loop (`Expanding`, the
comment "loop invariants: p<end, dest<dend"), and `NameStaysInside`, which holds when the
name starts inside. `QuestionsAdvance` follows from it. `SizeIsBounded` needs `SizeFixed`
as well: a name that starts behind the message has not moved on until its size is
fixed, because no label passes there.

That `dn_expand` returns what `DnsNamesReference` says (`DnsExpandsCorrectly`) needs a
second invariant, `NameInv`. In the loop (`OnTheWay`) some number of parts of the name has
been passed: all of them lie inside the message, `p` is the position of the next part,
`dest` the labels so far, and `len` the bytes up to the first pointer, if one was passed
(`UpTo`). Why the counter only refuses names that come back
to a byte is a matter of cardinality (`Counts`): it goes up by two in each round and every
part passed has two bytes or more, so the size of the message can only be reached
when two parts share a byte. Behind the loop (`ReturnsRight`) the result is the
name, or one of the three reasons to give up refutes the reference (`RefusedOutside`,
`RefusedLong`, `RefusedLoop`). The parts of a name are a recursion; that it
is defined for every message is shown from the least number where it
would not be (`LeastNumber`), as in `HttpUrlProofs`.

`HttpUrlProofs` proves of `HttpUrl`, for any buffers, what lies behind them and any number of calls, `UrlInv`: types; in the first loop every
field found ends before the position (`Reading`); in the second the parts of the
authority lie in order before it, how far depending on the state
(`Splitting`: in the states of the host the user ends before the host starts, in those
of the port the host ends before the position). `UrlTypeOK` and `FieldsInside` follow.

The comparison with `HttpUrlReference` rests on a second invariant, `ExactInv`,
since `UrlInv` says where fields may be and not which bytes they must be. In the first
loop (`Phase`) what has been read is a schema, an authority from `a`
on, or an authority that ended at `k` and the cuts of the rest; in the second
(`HostPhase`, within what the first has left, `Outer`) a user, a name or an address in
brackets, a port; behind the loops (`Verdict`) the reference takes the URL, unless
CONNECT has other fields than a host and a port; and an error in either loop refutes
the reference. `NothingLeft` is what the first call finds in the struct; it is why the
first call is exact even for a URL without a host. `UrlFieldsExact` and
`UrlPortExact` follow. The value of a port is a recursion over its digits; that it is
defined, and a natural number, is shown without the library's induction
theorems, from the least number where it would not be (`LeastNumber`).

`HttpParserProofs` proves of `HttpParser`, for any payload, limit of the header and width
of a length, `ParserInv`: types; by state, what its cases rely on (`Control`: in a
chunk the message is chunked and the size is neither missing nor the one that
stands for "unknown", which the test before a digit ensures, `SizeFits`; the loops over
names and values have a case for the header state); and by state, what is open and was
handed over (`Shape`: at most the one piece that belongs to the state is open, it starts
behind the last one handed over, and between a name and its value nothing else is
handed over). `Shape` knows one exception: when a body is complete the parser
steps back to its last byte, so what was handed over ends one byte ahead. `TypeOK`,
`AssertionsHold` and `CallsInOrder` follow. The steps are grouped by what they do
to the output (`SilentShape`, `MarkShape`, `CallbackShape`), each case of the
switch is then a use of one of these.

`HeaderLimit` (`ParserHeaderLimit`) needs `LimitInv`, inductive relative to `ParserInv`. A
run is in the first header (`First`: every byte before the position has been counted,
and by state, there was a byte other than a line end, the last one was a line
end, or that line end and a carriage return follow each other) or the first header has ended in
time (`Within`); and in both cases no byte has been counted twice (`Few`), except that a loop
which the end of the data stops counts one byte more than there is. The states
in which a header goes on are closed under the moves of the switch (`Moves`), which is checked
case by case; the loops add on leaving what they have passed.

`LengthIsExact` (`ParserLengthIsExact`) relates a body to a header that was read long
before it, and needs `LengthInv`, inductive relative to `ParserInv`. What was handed to the
callbacks serves as the record of the headers: the length that the parser keeps is none, or the one
that the last Content-Length shown says (`Known`), in every state in which a message has begun
and its header is not being read (`KnowsLength`); while it is read, it is the number of the digits
passed so far (`ReadsLength`), in the loop over a value as in front of it, and the local
`h_state` tells whether the name before the value was Content-Length (`NameIsTold`). The
size of a chunk is carried in the same way from the line to the chunk (`ReadsSize`,
`ReadsChunk`), and an open body reaches to the end of the payload with a length that is
greater than what is left of it (`ReadsBody`). Between two messages nothing is known of the length, and the trailing
headers of a chunked body are excepted: their Content-Length is shown and never used, because
the last chunk has been read (`NotTrailing`). `OneMoreDigit` is the arithmetic: a
digit that passes the test in front of it is added without wrapping around, and one that
does not pass is within one digit of the largest value. The number that a run of digits
spells is a recursive function; that it is defined, and grows by one digit, is shown
from `LeastNumber` (`NumeralGrows`).

That these loops end is liveness, which the provers do not reach; that they cannot go on for
ever is not. For each of them a number is given that every step makes smaller, whatever
the input, so that all that is left to fairness is that steps are taken:

- `ParserAdvances`: `StepsLeft` of the HTTP parser is at most five for each byte that is
  left and five more. What could go on for ever is a `goto reexecute` that looks at
  the same byte again: it always leads to a state of lower rank (`Rank`, `AgainAhead`). That
  a body moves the position on needs `ParserInv`: the length left of it is not 0 where it is
  read, without which `p += to_read - 1` would step back.
- `DnsAdvances`: the dump of a DNS message takes at most the length of the text and six
  steps for each question and answer and once more, since every label and pointer
  that `dn_expand` goes on from counts as an iteration. A loop of pointers does not
  prolong it.
- `OsiWalkAdvances`: a walk of the stack ends after at most 18 steps (`WalkLeft`), because
  the recursion goes down a layer at each and is never deeper than the layer it has reached
  (`Depth`). `ReaderAdvances` adds the callbacks that are left to be notified.
- `SnifferStopsSoon`: once the flag is cleared in the loop, the program is at most 27
  of its own steps from its end (`ExitLeft`), one of them a packet it still has to wait for,
  and another SIGINT never puts the end off.

The assumptions are the named ASSUMEs of `Dissectors`, `OsiStack`, `SyncReader`, `DnsNames`,
`HttpUrl`, `HttpParser` and `Sniffer`: bytes are bytes, `ULLONG_MAX` is at least 16, a size fits in `size_t`, NULL is no address, and
`main` may register the nine dissectors. TLC evaluates them in the runs.

Only model-checked: liveness (`InterruptEndsLoop`,
`EveryPacketIsFinished`, `ReadReturns`, `DumpEnds`, `ParserStops`), which is out of the
prover's reach (the theorems just named are what can be proved of it); and `ShowsMessage`, which speaks of the payloads of its instance and
the descriptions these were written from.

## Not modelled, and why

The text that is printed, colours and the time are layout. `malloc(0)` is taken to
return a block as any other. A signal that interrupts `printf` is not
modelled: its only effect is on the flag. `osi_find_dissector_by_name`, `xsendto`
and `http_parser_pause` have no caller; neither has a call of the HTTP parser on
the rest of a message or at the end of a connection. The list library is taken to ignore
the removal of a node that was not found (NULL). Interceptors can be registered
and are never called, in the code as in `SyncReader`; `http_parser_parse_url` has no
caller in the program either, but keeps state between its calls, and is
modelled. Of `inaddr.c` only two wrappers are called, to print an address: the
rest formats and sets addresses without state, so nothing it does touches a
property.

## Plan

1. Done: `Dissectors`, `OsiStack`, `PacketDisplay`, `Sniffer`, their proofs.
2. Done: `DnsNames` with its proofs; the refinement of `PacketDisplay` proved.
3. Done: `HttpParser` and `HttpUrl`, model-checked against references, and proved.
4. Done: `SyncReader` with its proofs, and that the program refines it; the
   table of ICMP types; that no header is passed over.
5. Done: the references of `http_parser_parse_url` and the limit of the header, proved
   for every URL, payload and limit; the reference of `dn_expand` for every message;
   the lengths of HTTP bodies for every payload; bounds on the steps of every loop.
6. To come: the letters of methods, headers and options as an algorithm of its
   own, against the lists of words.
