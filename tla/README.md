# A TLA+ model of zperf on FreeRTOS and lwIP

The program is a port of Zephyr's network benchmark to FreeRTOS and lwIP: it
runs UDP and TCP servers that measure what they receive ("download"), and UDP
and TCP uploads that send for a given time and collect the server's report. The
modules here model its own logic, `src/zperf`; FreeRTOS and lwIP are submodules
and appear only through what the code assumes of them: strict priorities, a
queue and a counting semaphore, and socket calls that may block or fail.

## 1. The system and its parts

| part | state | operations | talks to | what is hard about it |
|---|---|---|---|---|
| session table (`zperf_session.c`) | one row of slots per protocol: peer, state, counters, last report | find or take over a slot, reset, init | called by both servers | more peers than slots; a slot that is taken over keeps its old contents |
| UDP datagram handler (`udp_received`) | the UDP row | start, count, finish, resend report | replies by `sendto`, calls the application back | datagrams lost, repeated, reordered; counters in four branches; blocking in the middle |
| UDP receiver thread and API (`zperf_udp_receiver.c`) | running and stop flags, callback, user data, port, address, semaphore, sockets | start, stop; set-up, poll loop, clean-up | shares variables with the application without a lock | preemption between any two statements; every socket call may fail |
| work queue, asynchronous uploads (`work.c`, `zperf_*_upload_async`) | a queue of work items, a pending flag and a static context per protocol | submit; run an upload; call back | application task and work task | flags changed by two tasks without atomics; a static context reused by the next request |
| UDP uploader (`zperf_udp_uploader.c`) | delay, loop times, packet counter; two tries of the FIN | pacing loop, FIN handshake, decoding of the report | the server, over the network | unsigned delay with signed corrections, a 32-bit tick counter, time-out and retry |
| TCP server (`zperf_tcp_receiver.c`) | the TCP row, a table of connections, the same flags | as the UDP server, plus accept and close | as the UDP server | a full table; sessions whose connection is closed by a stop |
| TCP uploader (`zperf_tcp_uploader.c`) | packet and error counters | send loop until the time is over | the network | partial sends, errors that are to be ignored |
| addresses to bind to (`zperf_common.c`, `net_ip.c`, `net_if.c`) | one static struct per family, the interface's IPv6 addresses | parse a host, build the address, add it to the interface | both servers at once | two threads of equal priority write the same struct |
| upload commands (`zperf_shell.c`) | options, parameters of the upload | parse, execute, print | the uploaders | options counted apart from the words they take, unsigned results compared with `< 0` |
| time and rate arithmetic (`kernel.h`, `kernel.c`, `zperf_packet_duration`) | none | conversions between ticks, us and ms | all | truncation, overflow, zero divisors |
| start-up (`zperf_main.c`) | none of its own | create the tasks | all of the above | the order and the priorities of the tasks |

The correctness of the parts, in a sentence each: the table gives a peer one
slot and never takes an ongoing one away; the counters of a session add up and
its report means something whatever the network does; start and stop keep the
flags, the sockets, the callbacks and the thread in step; uploads run one at a
time, each with its own parameters, and report one start and one end; the sender
keeps its rate and its duration; an upload ends whatever is lost; a TCP session is
one connection; a server binds to what its own request says; a command line means
what its help text says, and every command is answered.

## 2. Modules

| module | models | builds on |
|---|---|---|
| `Sessions` | the session table as operators on a table | |
| `UdpSession` | `udp_received`, one datagram after the other | `Sessions` |
| `Server` | abstract: what `zperf.h` promises of a download server | |
| `Download` | what the two servers share: thread, semaphore, `zperf_*_download` and `_stop` | `Sessions` |
| `UdpReceiver` | the UDP server: `udp_server_session` around the datagram handler | `Download`, `UdpSession`; refines `Server` |
| `TcpReceiver` | the TCP server: listeners, connections, `tcp_received` | `Download`; refines `Server` |
| `NetIp` | address parsing and `zperf_bind_host`, as operators | |
| `Servers` | both servers while they build their addresses and bind | `NetIp` |
| `Jobs` | abstract: what `zperf.h` promises of asynchronous uploads | |
| `AsyncUpload` | work queue, contexts, `zperf_*_upload_async` | refines `Jobs` |
| `UdpPacing` | the sending loop of `udp_upload` against the tick counter | |
| `UdpTransfer` | uploader and server session over an unreliable network | `UdpSession` |
| `Uploads` | an upload command: option parsing, `execute_upload`, `zperf_tcp_upload` with its loop | |
| `MC*` | the constants of the instances TLC checks | |
| `*Proofs` | theorems for every value of the constants | the module of the name; `SharedDataProofs`: `AsyncUpload` and `Servers` |

Definitions carry the names of the functions they model where there is one;
`PROJECT.json` gives the lines of each. Operators named as "Mutant of X" are
variations of X with a plausible mistake. They are not part of the model: each
one, put in the place of X, makes TLC report the property it is listed with.

### Processes and atomicity

FreeRTOS schedules by strict priority on one processor. The work task has the
highest priority (`config.h:134`), the receiver threads priority 8, the shell,
from which the API is called, the lowest but idle (`zperf_main.c:235`). Two
consequences shape the models:

- a thread of higher priority is only interrupted, as far as the application can
  tell, where it blocks. A step of it is the code from one blocking call to the
  next (`Download` and the receivers: semaphore, socket calls, `poll`, `sendto`,
  `close`; `AsyncUpload`: queue, socket calls, the upload itself).
- the application may be preempted anywhere. A step of it is one access to shared
  data, and it is enabled only while the other task is blocked (`ThreadBlocked`,
  `WorkerBlocked`). `GiveNotLost` depends on this: with the priorities exchanged
  TLC finds a start that is lost.

The two receiver threads have the same priority and are time sliced, so against each
other, in `Servers`, a step is one access to the struct they share.

### What the state stands for

`UdpSession`: `sessions` is the UDP row of the table, field by field, without
the times; `handler` says whether the handler is inside `sendto` and for which
slot; `reply` and `notice` are the report and the event the last step produced.
The jitter is computed in an `int32_t` of `WORD` values (`Int32`): signed overflow is
undefined in C, and wraps around in this build.
`trapped` is the process killed by a division by zero, which is undefined in C
and a signal in the x86 build. An address is a whole `sockaddr`; that of an IPv6
peer is a pair, split where the 16 bytes of `struct sockaddr` end. `Observed` is
what the receive loop sees of a sender: the second half of an IPv6 address is
whatever lies on the stack, so it is any value. `hist` is read by properties only: the
ids that arrived in a session, with the one that started it, which the code does not
look at; the largest variation of the transit time; whom the kept report is about.

`Download` has the flags, the semaphore's count, the open sockets, the `revents`
that the loop has not reached yet, and both program counters. A request is one value
for port, address, user data and callback, so that a mixture shows. `call` is the
callback that the last step made, with all events it reported.

`TcpReceiver` adds the TCP row of the table and `conn`, the addresses in
`sock_addr[]` of the connections in `fds[]`. An orphan (`Orphans`) is an ongoing
session without a connection. `got` is history: the bytes received on a connection,
and whether there were no orphans and no other connection of its peer when it was accepted.

`NetIp`: a text is a record of what the parsers look for in it: brackets, the address,
what follows a colon. The 16 bytes of a `struct sockaddr` are its four fields, so what
is cut off and what a failed parse leaves behind show. `Servers` runs each server
through the statements between its `socket` and its `bind`; `my` is the struct both
build their address in, `copy` the TCP server's copy of it. `alone` is history.

`Uploads`: a word of the command line is a record of what it reads as: an option, an
address, a number, a unit. The widths of `uint16_t` and `uint32_t` and the factors
1024 and 1000 are constants, so that the edges come near. `clock` is the time since the
sending loop began; bytes in `count` are history.

`AsyncUpload`: a context has four fields that are written and read at different
times: the peer address, the other parameters, callback and user data. `accepted`,
`started`, `running` and `overlap` are history; `overlap` records that the
application asked for an upload before the last event of the previous one of
that protocol.

`UdpPacing`: `now` is the tick counter, modulo `TICKS`; `elapsed`, `due`,
`sent_at`, `paced` are history in unbounded time. A task resumes at any time up
to `MaxLate` ticks after what it waited for.

`UdpTransfer`: the network is the set of all datagrams and reports ever sent,
each of which may arrive at any later time, any number of times, or never.

Left out everywhere: logging and printing, the byte order conversions (each is
undone by its counterpart), header fields nobody reads, the start and stop times
of a report.

## 3. What is checked

| run | instance | shows |
|---|---|---|
| `udp_accounting` | one slot, two peers, ids 0..3, three transit times, an `int32_t` of 16 bits, three counted datagrams | `CountersBalance`, `LossIsBracketed`, `ReportMatchesSession`, `JitterBounded` |
| `udp_server` | two requests, an IPv4 peer, two IPv6 peers, two slots | the start/stop protocol, `StopTakesEffect`, `ImplementsServer`; `OneSlotPerPeer` and `OngoingOnlyGrows` of the table |
| `tcp_server` | two requests, two slots, two connections, three peers, one counted `recv` | `ConnectionFindsSlot`, `SessionIsConnection`, `OrphanedByCleanupOnly`, `TcpImplementsServer` |
| `servers` | six forms of arguments, an interface with room for one IPv6 address | `BindsWhatWasAsked`, `AnyOnlyWhenFull` |
| `async_uploads` | two protocols, four requests, a queue of two | flags, queue and order; `OwnParameters`, `ImplementsJobs` |
| `udp_pacing` | packets of three ticks, a duration of twelve, lateness up to five, a counter of 64 | `PacedRate`, `EndsOnTime` |
| `uploads` | 360 command lines, UDP and TCP: twelve forms of options, fifteen of positional words | `ParsedAsGiven`, `SurvivesCommandLine`, `SocketsClosed`, `PacketsMatchBytes`, `CommandAnswered` |
| `udp_transfer` | three datagrams, two FINs, two counted datagrams | `ReportWithinSent`, `UploadEnds` |
| `udp_report_to_sender`, `udp_report_about_sender`, `udp_session_end`, `async_user_data` | smallest instances | violations, section 5 |

Why the bounds are enough. The handler compares an id with `next_id` only, so
four ids give every case: late, repeated, next, a gap of one and of more, and a session
started by any of them. Of the three transit times one is 0, which the code takes for
"none yet", and the differences include one that fits in an `int32_t`, one that wraps
around, and the one that has no opposite in it; with 16 bits the estimate grows large
enough to fall again. A slot
changes hands between two peers; two slots and three addresses add a full table,
a peer in the second slot, and IPv6 peers that the server takes for each other. The protocol
of the server has no counter, so two requests show each mixture of an old and a new
one. With a queue as long as there are items, one item queued twice would fill it.
The lateness exceeds the packet duration, so the delay goes to zero, and the starts
0, 20 and 60 of a 64-tick counter lie before, before, and at its wrap. In
`udp_transfer` two counted datagrams after the first allow a gap, a late and a
repeated one; reports of several sessions may be on their way at once.
With three peers for two connections the TCP server drops one, serves a peer that
returns, and meets orphans of one and of two earlier connections. The arguments in
`servers` are: none, an IPv4 host with a broken port, the host 0.0.0.0, IPv6 hosts with
and without a second half, with a port and with an open bracket, and a port beyond 16
bits; one entry
on the interface is the least that a foreign address can fill. In `uploads` a type of 32
bits has 64 values, one of 16 bits 32, and a kilobit four bits, so rates below, at and
above each edge are among the words; three packets of at most three bytes allow a
packet cut into pieces, and an error after a piece. `MaxCount`, `MaxSent` and
`MaxPackets` are the only bounds in guards.

Deadlock is checked in `async_uploads` and `servers`. In the other systems the program may stop
legally: a session may stay idle at a bound, an upload ends, the program may die.

### Fairness

Weak fairness of the higher-priority task, and nothing else: `Thread` in
`UdpReceiver`, because `poll` returns after 100 ms and the other socket calls
return; `Worker` in `AsyncUpload`; `Uploader` in `UdpTransfer`, because `recv` has
a time-out of two seconds. `Uploads` has one task, and is weakly fair to it (its socket
calls return) and to time. `TcpReceiver` and `Servers` are checked for safety alone. Nothing is assumed of the application
or of the server's answers, and of the network only this: a call of `zsock_send` returns.
For UDP it does. For TCP the code sets no send time-out, so a peer that keeps its
connection open and its window closed can hold up an upload for ever; `CommandAnswered`
and the progress in `ImplementsJobs` assume that none does. That an upload returns at all rests on `EndsOnTime`,
and so on a tick counter that does not wrap during it (49.7 days after the start
at 1000 Hz).

## 4. What is proved

Every invariant and action property that a passing run checks is also a theorem, for any
table size, sets of peers, datagrams, requests, command lines, addresses and work items,
any tick rate up to 1000 Hz and any width of the C types. So are the next-state parts of the three
refinements. The theorems rest on the named ASSUMEs of the modules, which TLC evaluates
on every instance:

| assumption | says | because |
|---|---|---|
| `SessionMaxAssumption`, `DatagramAssumption`, `DataAssumption`, `TransferAssumption` | types of the constants; a transit time is any `int32_t`; an id is one that is not negative, and `id + 1` does not overflow; the upload's ids are ids; a `recv` that returns data returns more than 0 bytes | ids count from 0, an upload has fewer than 2^31 - 1 datagrams, the length 0 is the end of a connection |
| `AddrAssumption`, `RequestAssumption` | a null value is outside the set it is null for | `NULL`, a zeroed `sockaddr` |
| `AsyncAssumption` | the queue has room for every work item once | two items, `DEFAULT_QUEUE_SIZE` |
| `PacingAssumption` | at most 1000 ticks a second; an iteration of the loop is shorter than half a turn of the counter | `K_TICKS`; differences of ticks are taken as `int32_t` |
| `UploadsAssumption`, `CommandAssumption` | the default rate of 10 kbit/s fits in 32 bits; a command line has fewer words than that | constants of `zperf_shell.c` |
| `AddressAssumption`, `ServersAssumption` | the two families are told apart, the configured addresses are not zero, a download command has at most two words, the interface has room for an address | `config.h`, `zperf_bind_host`, lwIP |

Few of the properties are inductive as they stand. What each proof adds:

- `UdpSessionProofs`: `SessionTypeOK`, `CountersBalance`, `JitterBounded`,
  `ReportMatchesSession`, `OneSlotPerPeer`, `LossIsBracketed` as invariants and
  `OngoingOnlyGrows` as an action property. A step touches at most one slot, in one
  of four ways (`StepShape`); each invariant follows from what the four operators do
  to one session. `LossIsBracketed` is an argument about cardinalities: the missing
  ids are `0 .. next_id - 1` without the ones that arrived, and a counted id either was
  missing before or is counted in `outorder`. The datagram that starts the session is
  taken for id 0. If it has a higher id, that id is later called lost, or counted as next
  or late; the induction (`Bracketed`) knows the one such id at or above `next_id`, and that
  until then one more id is missing than the lower bound says. `JitterBounded` is
  inductive: while no variation reaches half of `WORD`, no operation of the filter
  overflows (`Int32Exact`), and its value stays between the old one and the new variation.
- `DownloadProofs`: the start/stop protocol, once for both servers. The inductive
  invariant is `Protocol`: an application that finds the running flag clear knows,
  because it runs at all, that the thread waits for the semaphore and that its count is
  0. Hence nobody reads what the download writes until it gives the semaphore. There is
  a lemma for each way a step of a server may change the shared state.
- `UdpReceiverProofs`: every behaviour of the threaded server is one of
  `SessionSpec`, so all that is proved of that holds of it; the properties of the
  start/stop protocol, `SocketsReleased` among them; and that each step is a step of
  `Server`.
- `TcpReceiverProofs`: the properties of the start/stop protocol from the same lemmas
  (`TcpStartStop`), each step a step of `Server` (`TcpRefinesServer`), and from `TcpInv`
  the types, `ConnectionFindsSlot`, `SessionIsConnection` and `OrphanedByCleanupOnly`.
  `SessionIsConnection` alone is not inductive: that a byte is counted in the right
  session needs one slot per peer (`PeerSlots`), events only on open sockets
  (`EventsAhead`), and that two connections of one peer exist only while the older one's
  error is about to be handled (`Reconnected`). `ConnectionFindsSlot` is a pigeonhole
  argument: if a connected peer found no slot, all of them would be ongoing sessions of
  other peers; each but the orphans has a connection, none of these is the peer's, and so
  orphans and connections together would be more than the slots.
- `UdpPacingProofs`: `PacedRate` and `EndsOnTime`, from `PacingInv`. A difference of two
  tick counts is the time between them, across a wrap too (`Clock`); the delay is never
  less than what the sender is ahead by, plus one packet (`MakesUp`), and never more than
  two packets' worth (`DelayBound`), which is what keeps an iteration short enough for
  `Clock`. The first statement of `PacedRate`, that the sender never runs ahead, turned
  out to need 1000 ticks a second: otherwise `K_TICKS` shortens the sleeps, and the
  sender is ahead by a constant that `PacedRate` now gives. `NeverAheadOfRate` is the
  case of 1000.
- `UdpTransferProofs`: `ReportWithinSent` from `TransferInv`: every datagram, counter,
  kept report and report under way is about ids the upload has used (`WithinSent`), and
  the counters balance (`AllSound` of `UdpSessionProofs`). `TransferIsSession`: the
  upload's server behaves as `SessionSpec`, whose theorems thus hold of it.
- `UploadsProofs`: `ParsedAsGiven`, `SurvivesCommandLine`, `SocketsClosed`,
  `PacketsMatchBytes` from `UploadsInv`: what the option loop has counted and found so
  far, if each `-S` has its argument in a word of its own (`Scanned`), that parameters are
  what the parser makes of the words the loop left (`Parsed`), at which statements the
  socket is open (`Held`), and what is left of the packet being sent (`Balanced`).
- `SharedDataProofs`, two components whose tasks share static data without a lock.
  `PendingIffQueued`, `QueueNeverFull`, `StartsInOrder`: the flag is toggled, so its
  meaning rests on no item being queued twice, which rests on the flag; and the order of
  starts rests on queued contexts not being written. `AsyncInv` is their conjunction with
  what is known of a request half written. `OwnParameters`, and each step a step of
  `Jobs`, need besides that nobody writes to the running upload's context, true only
  while there was no overlap (`Undisturbed`).
  `BindsWhatWasAsked` and `AnyOnlyWhenFull`: `ServersInv` says, for a server that is
  `alone`, what the struct holds at each statement (`Built`), and of every server what it
  owns already (`Owned`), both in terms of what its request means (`Meant`, from two
  lemmas on what `net_ipaddr_parse` leaves of a text). The meaning may grow to include
  any address, when the interface fills, and never shrinks. The attempt showed that the
  host 0.0.0.0 is one more exception of `BindsWhatWasAsked`; it is in the instance now.

Only model-checked: liveness (`StopTakesEffect`, `UploadEnds`, `CommandAnswered`, the
fairness parts of `ImplementsServer` and `ImplementsJobs`), which is beyond this prover.

## 5. Where the code departs from its comments and documentation

Each has a run that TLC must find violated.

- `udp_session_end`: the first datagram of a session is not counted, and at the end
  the length is divided by the count: a session of one datagram kills the program.
- `udp_report_to_sender`: the source address is stored in 16 bytes and an IPv6
  report is sent to 28, so it may go elsewhere.
- `udp_report_about_sender`: a FIN from a peer the server has no session of takes
  over a finished slot and is answered with another peer's report.
- `async_user_data`: the pending flag is clear while an upload runs, so a second
  request overwrites its context; the last callback may be the new function with the
  old user data, or be made to the new requester.

Some properties say what remains true where the code falls short of a comment, and
the condition in them is the boundary. `EndsOnTime` excludes a wrap of the tick
counter: behind one, the loop goes on until the counter comes round. `PacedRate`
counts datagrams of different ticks: an iteration in the same tick as the one before
is taken for the first one and not adjusted for. `ReportWithinSent` does not say that
the report is on the upload's own session: a datagram delayed past the first FIN
starts another session, and the second FIN is answered with a report on that one.
`Server` has a state "stopping": a stop that has returned 0 has only asked.
`UdpPacing` is checked at 1000 ticks a second, where `K_TICKS`, which takes ticks for
milliseconds, is the identity; the proofs cover every rate up to that.

So it is with the session's accounts and with the newer modules:

- `LossIsBracketed` allows one more missing id than `error` when id 0 has not arrived: the
  code takes the first datagram it sees for id 0, so that loss is never reported. And a
  datagram that starts the session with another id may itself be counted as lost.
- `JitterBounded` excepts sessions in which two successive transit times lie exactly 2^31
  microseconds apart: the difference has no opposite in `int32_t`, stays negative, and
  the estimate may become negative.
- Nobody checks what an IPv6 host overwrites: `net_ipaddr_parse` writes 16 bytes of address
  at offset 8 of the 16-byte `struct sockaddr` of `zperf_bind_host`, and the last eight fall
  behind it on the stack. That is undefined in C; `NetIp` models what the struct holds.
- `UdpTransfer` has no empty datagrams. If the last `recv` of `zperf_upload_fin` returned 0,
  the upload would return 0 without a report; no zperf server sends one.
- `SessionIsConnection` and `ConnectionFindsSlot` except what orphans do. The clean-up
  of the TCP server leaves the sessions of the connections it closes ongoing, and
  nothing ever frees them: as many of those as there are slots, and later peers get no
  session until one of the old ones returns, whose counts then go on where they were.
- `BindsWhatWasAsked` excepts set-ups that overlap, where a server may bind to the other
  one's port or host; the second half of an IPv6 host, which is lost in a `struct
  sockaddr`; a host of zero, which means the configured address; and hosts that cannot be parsed, which are accepted, because the parser's
  `bool` is compared with `< 0`.
- `ParsedAsGiven` and `SurvivesCommandLine` except `-S5` written in one word, which is
  counted as two, and addresses that `parse_ipv4_addr` refuses, because its status is
  unsigned. A UDP rate of 0, or one within 1023 of 2^32 or above, divides by zero.
- `SocketsClosed` excepts the early return when `TCP_NODELAY` cannot be set.
- In `tcp_upload` errors of `-ENOMEM` are to be ignored; `errno` is never negative, so
  every error ends the upload, and so it is in `SendFails`.

The shell of the program runs one command and then stays in a loop. What the servers
do when they are started again, stopped, or run together (`UdpReceiver`, `TcpReceiver`,
`Servers`) concerns an application that uses the functions of `zperf.h`.

## 6. Not modelled, and what is left

- The conversions between cycles, ticks and microseconds of `kernel.c` and
  `zperf_internal.h`: they serve the times that are printed, but for `K_TICKS`, the
  packet duration, and `time_delta`, which gives the transit times the jitter is computed
  from. The clocks of two machines are unrelated, so its result may be any `int32_t`, and
  `TransitTimes` is any set of those.
- Printing and formatting, and the commands `upload2`, `setip` and `stop`, which
  `shell_task` never calls.
- Interface and hardware set-up in `zperf_main.c`, the hooks of FreeRTOS, and lwIP
  itself: input and output, or not this repository's code.
- Calls of the API from inside a callback, that is in the work task or a receiver
  thread; the program makes none.
