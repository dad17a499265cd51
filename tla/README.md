# Verification of the SystemC technology demonstrator

An embedded program (`zedboard/`) drives a device that is simulated in SystemC
(`sysc/`) over a TCP connection. The hard part of the repository is "how to have
OS threads safely communicate with SystemC": an operating-system thread that
owns the connection and the single-threaded SystemC kernel meet in
`tlmx_channel`. These modules model that program, check it with TLC and prove
part of it with TLAPS. Paths are relative to `src/`; line numbers are in the
`map` of `PROJECT.json`.

## 1. Inventory

| component | state | operations | interacts with |
|---|---|---|---|
| `sysc/tlmx_channel.*` | two lists of packets, three flags, two events, four mutexes (two of them, the wait mutexes, locked since construction) | `push`, `wait_for_get`, `wait_for_put`, `can_pull`, `nb_pull` by threads; `can_get`, `nb_get`, `get`, `nb_put` by SystemC processes; `update` by the kernel | shared memory; `async_request_update` to the kernel; events to processes; a mutex handover to threads |
| `sysc/async_adaptor.*` | the gate `m_allow_pthread`, `m_keep_alive_signal`, `s_stop_requests`, one packet and one data buffer per side, the reused TLM payload | `async_os_thread`, `initiator_sysc_thread_process`, `keep_alive_process`, `start_of_simulation`, `sighandler` | the channel, the socket, the target |
| `sysc/dev.*` | the registers, the bus width, the latency | `b_transport`, `transport_dbg` | called by the initiator process |
| `zedboard/driver.*` | the connection and its descriptors; `server_mutex`/`server_cond`/`server_ready`, `interrupt_mutex`/`interrupt_cond`/`interrupt_flag`, `server_stop` | `dev_open`, `dev_transport` and its four wrappers, `dev_soft_interrupt`, `dev_wait`, `dev_close`, the thread `interrupt_server` | the adaptor by TCP on PORT; its own server, and other programs, by TCP on PORT+1 |
| `zedboard/software.c` | `data`, the array `count` | 20 rounds of `dev_put` and `dev_get` on the registers, the exit status | the driver, the counters of `creport.c` |
| `sysc/top.*`, `sysc/main.cpp` | the module instances, the signal handlers | construction, `sc_start`, the fallback `sc_stop`, destruction | all of `sysc/` |
| `sysc/report.*` | counters and one static message stream | the report handler, the summary, the handler of SIGINT and SIGABRT | called by both threads of the simulator; aborts the process on a fatal report |
| `zedboard/creport.*` | counters of warnings, errors and fatals | macros that count and print, `error_status` | the driver and the test program |
| `sysc/netlist.*`, `sysc/sc_literals.*`, makefiles | - | output, literals, build | - |

`tlmx_packet.*` and `random.h` are used by the code and are not in the
repository; a packet is modelled by the fields the code uses.

### What is hard, and what makes it correct

*The channel.* `nb_get` and `nb_put` wake threads by unlocking and relocking a
wait mutex while they hold the mutex of the queue. Correct means: a wait mutex
is never away from SystemC except in the middle of such a call; a woken thread
finds its packet and no other thread takes it first; no push or pull escapes
`update()`, whenever the thread makes it; the kernel thread never hangs in the
relock.

*The adaptor.* Events are notified some phases before a process runs, and lost
if it is not waiting; the data of a packet lives on the stack of the OS thread,
without a lock; `keep_alive_process` must neither starve the simulator nor keep
time from advancing; a signal handler and a vanishing client come at any moment.
Correct means: requests are carried out and answered once, in order and with
their own response; a process is only resumed for a packet that is still there;
the two sides never use the buffer together; the simulation neither starves nor
spins; an interrupt ends it.

*Bridge and device.* One TLM payload is reused for all packets, so what a packet
does not set is inherited; ends of bursts are compared in words; `transport_dbg`
has other checks than `b_transport`. Correct means: no access beyond the
registers, no effect of a refused or reading packet, the bytes answered are the
bytes of the registers.

*The driver.* Two condition variables, a stop flag without a mutex, an
acknowledgement of uncertain size, connections that are not closed when it
fails. Correct means: `dev_wait` returns for an interrupt and only then, the stop
is noticed, calls return.

*The life of the process.* `m_pthread` starts in the middle of the construction
and is joinable when the adaptor is destroyed; three parties end the process
(`sc_main`, a fatal report, a signal) and two print the summary. Correct means:
the thread only runs while its members are alive, serves nobody before the
simulation starts, the summary comes once, and an interrupt that was counted
ends the process.

*Reports.* Both threads are in the report handler at once, with one static
stream and counters that are plain integers. Correct means: the verdict is right
in spite of lost counts, and without an overlap messages and numbers are exact.

*The two programs together.* TCP delivers bytes and both sides take one `read`
for a packet. Correct means: what the test program believes of the registers is
so, only a packet in pieces makes it fail, and the two never wait for each other.

The full list, line by line, is under `hazards` in `PROJECT.json`.

## 2. Modules

| module | models | notes |
|---|---|---|
| `TlmxChannel` | `tlmx_channel` with the most general client: any number of threads, any call at any time | the base of the rest |
| `MCTlmxChannel` | values for TLC | symmetry in threads and packets (used in a safety run only) |
| `TlmxChannelProofs` | theorems about `TlmxChannel` | |
| `RequestResponse` | abstract: ask, execute, answer | what a client of the adaptor is promised |
| `AsyncAdaptor` | the adaptor, the phases of the SystemC kernel, one client, SIGINT | composes `Ch == INSTANCE TlmxChannel`; refines `RequestResponse` and `Ch!Spec` |
| `AsyncAdaptorProofs` | theorems about `AsyncAdaptor`, its two refinements among them | |
| `Dev` | the target: checks, copies, latency | no specification of its own |
| `TlmBridge` | from a packet to a TLM transaction and back, over `Dev` | `MCTlmBridge` has the values |
| `TlmBridgeProofs` | theorems about `TlmBridge` and `Dev` | |
| `Driver` | the two threads of the embedded program | |
| `DriverProofs` | theorems about `Driver` | |
| `Lifecycle` | `sc_main`, constructors and destructors, the start and the end of `async_os_thread`, signals | what the thread and the kernel do in between is in `AsyncAdaptor` |
| `LifecycleProofs` | theorems about `Lifecycle` | |
| `Report` | the report handler used by several threads, the summary | `MCReport` has the values |
| `SumProofs` | lemmas about sums: `+` folded over a function on a finite set | no code of its own |
| `ReportProofs` | theorems about `Report` | uses `SumProofs` |
| `System` | the test program, `dev_transport`, bytes on the wire, the adaptor's loop | composes `Br == INSTANCE TlmBridge`; `MCSystem` has the values |
| `SystemProofs` | theorems about `System`, its refinement of `TlmBridge` among them | |

### TlmxChannel

A `std::mutex` is a variable that holds its owner; the two wait mutexes start
with owner `Sysc`. No order among blocked lockers is assumed, because
`std::mutex` promises none: after `nb_put` unlocks its wait mutex, its own relock
may win. A `std::list` is a sequence, oldest first. A body that runs from its
lock to its unlock without another mutex is one step; `nb_get`, `nb_put`,
`wait_for_get` and `wait_for_put` are two steps, with the mutexes held in between
as in the code. The variable `op` says which call an actor is in the middle of.
The kernel's part is `AcceptUpdates` (it takes the list of asynchronous
requests), the two halves of `update()`, and `Notify`. It runs on the thread of
the SystemC processes and only when these are suspended.

### AsyncAdaptor

`os_thread`, `initiator` and `keep_alive` are program counters; `phase` is that
of the kernel: elaborate, update, notify, evaluate and so on, and `time` when
nothing is runnable. A process is a coroutine: while the initiator is in the
middle of a run, no other process is scheduled, but `async_os_thread`, the client
and the signal handler go on. Channel calls are the actions of `TlmxChannel`,
conjoined with what the caller does. `REPORT_FATAL` (it aborts), a failed
assertion, the return of a starved `sc_start` and `sc_stop` end the process;
`process` says which. The value of a delay, and the registers, are left to
`TlmBridge`: a transport call returns ok (simulated time passes) or an error (one
delta cycle); `OkTakesTime` in `TlmBridge` justifies that.

The client sends one request at a time, as `dev_transport` does. It may also send
`TLMX_EXIT`, and it may close the connection or vanish whenever it is connected.
The connection delivers whole packets; `System` has the bytes.

### Dev and TlmBridge

Memory is a function from byte addresses. A transfer beyond the registers reads
arbitrary bytes and sets `overrun`. `trans` is the reused payload. TLMX commands
are those the code's switches tell apart, and `"unknown"` for any other number.
`transferred`, which the code only prints, is kept because it is what
`transport_dbg` returns.

### Driver

`pthread_cond_signal` moves a blocked waiter to "woken" and is lost otherwise.
`SpuriousWakeups` and `SetupMayFail` choose whether POSIX and the network make use
of their freedom. `strlen(ack_reply)` of an uninitialised buffer is any element
of `AckReplySizes`; zero and non-zero are the two cases the code can tell apart.
A connection is the number of the call that made it, or `Foreign`. An
acknowledgement to a peer that may have gone succeeds, fails, which leaves the
connection open (`leaked`), or ends the process by SIGPIPE. With
`MaxDescriptors` leaked, `accept` fails for ever and `dev_soft_interrupt` ends
with `exit(1)`.

### Lifecycle

`main` is where `sc_main` is, `alive` the members constructed so far, `process`
how the process has ended. `Destroy` is the rule that matters: destroying a
`std::thread` that is joinable calls `std::terminate`, whose SIGABRT ends in the
`exit(1)` of `pause_on_exit::sighandler`. It is the same for an exception in a
constructor (`Unwind`) and for `delete top_instance`. `int_handler` is what a
SIGINT does: it kills, exits, or, from the constructor of the adaptor on, counts.
`ConstructionMayFail` and `SimulationMayFail` choose whether exceptions are thrown;
`summary_at_end` has none, so that only an interrupt can end the simulation there.

### Report

An increment of a counter is a read (`loaded`) and a write; the mark counters are
read in `Classify`. `stream` is the sequence of pieces the threads have put into
`msg_stream`. A piece put by one thread is indivisible and concurrent use of the
stream object interleaves pieces; a corrupted object is not modelled. A piece is
known by the word that `report_handler` looks for in it, its severity or its mark:
a mark counts if its first place is behind the first "WARNING", and of several the
first in the list `nonwarnings` is taken. The summary may come while the other
thread is anywhere in the handler.

### System

A byte on the wire is a pair of its packet and its position. A `read` returns
any non-empty prefix of what has arrived, up to the size asked for. Bytes that do
not start a packet may be unpacked as anything; `misreads` counts that, and
`split` records that a read has not returned exactly one packet. The request is
served in one step by `TlmBridge`; the write of the response may fail when the
program has gone, by `dev_close` or by its assertion. `count` starts as `Unset`, because the loop
that should initialise it writes elsewhere.

## 3. Runs

Passing runs:

| run | instance | what it shows |
|---|---|---|
| `channel` | 2 threads, 2 packets, queues up to 2 | `Handshake`, `WakeSeesResponse`, `NoLostNotification` under every interleaving of calls with the kernel |
| `adaptor` | 3 requests, 1 SIGINT | protocol, buffer exclusion, no starvation, refinement of `RequestResponse` and of the channel, and four liveness properties |
| `bridge` | 3 registers of 2 bytes, bytes 0 and 1, 5 addresses, 4 payloads, every command | what is stored, read, refused, how long it takes |
| `driver` | 3 calls, 2 foreign interrupts, 2 descriptors, spurious wakeups, failing setup and acknowledgements | `dev_wait`, shutdown and soft interrupts |
| `lifecycle` | 2 SIGINTs, 2 configurable ports, throwing constructors | the thread's members, the gate, one summary, an interrupt that ends the process |
| `report` | 2 threads, 3 reports, two marks, counters modulo 256 | verdict, messages and numbers under every interleaving |
| `system` | 4 registers of a byte, header of 2 bytes, 2 registers tested twice, 1 misread | registers and `count` agree, tests fail for split packets only, nobody waits for ever |

Runs that show a disagreement between the code and a text of the repository:

| run | text | what happens |
|---|---|---|
| `push_wakes` | `async_adaptor.cpp:13-16` | a request pushed before the initiator first waits is never fetched |
| `put_wakes` | `async_adaptor.cpp:19-22` | a response put while the OS thread is not at the lock is never pulled |
| `writes_store` | `software.c:70` | `TLMX_WRITE` is carried out as a read |
| `open_returns` | `driver.c:250` | `dev_open` misses the server's signal |
| `summary_at_end` | `README.md:116` | after an interrupt, `delete top_instance` destroys a joinable thread; the process exits before the summary |

Seen while modelling, and without a run of its own: a closed connection, which
reads as zero bytes, is fatal and aborts the simulator without the `sc_stop` of
`README.md:17` (`Read` in `AsyncAdaptor`); an unknown command leaves the command
of the previous packet in the payload and is transported all the same
(`Tlm2Command` in `TlmBridge`, against `async_adaptor.cpp:368`); the burst check
refuses transfers that end with the last register (`BurstError` in `Dev`, against
`dev.cpp:104`); a spurious wakeup lets `dev_open` return before the server is
ready (`OpenReturn` in `Driver`); `get()` waits for the event of a pull (`Get` in
`TlmxChannel`, against `tlmx_channel.h:42`), but nothing calls it; `transport_dbg`
copies beyond the registers (`TransportDbg` in `Dev`, against `dev.cpp:144`);
`interrupt_flag` is never cleared, so that one interrupt serves every later
`dev_wait` (`WaitTest` in `Driver`); the soft interrupt of `dev_close` is not
answered by a server that has seen `server_stop`, so that `dev_close` may wait for
ever (`ServerCheck` and `IrqRead` in `Driver`); a thread that binds before
`-port=` is parsed listens on 4000 (`Bind` in `Lifecycle`, against
`README.md:95-96`); the check for an "Incomplete packet" sees the header only, and
the data that has not arrived is taken to be zeros (`FirstPacket` in `System`,
`async_adaptor.cpp:256-257`); `adjust_unexpected_errors` and
`adjust_unexpected_warnings` add to the expected counts (`report.h:224-225`; nothing
calls them).

### Bounds, and why they suffice

- `MaxQueue = 2`: one element to take and one behind it; the channel never looks
  further. Two threads give a competitor for every mutex and queue; the theorems
  cover any number.
- `MaxRequests = 3`: the first request may meet the initialization phase, the
  second is ordinary, the third follows one whose pull still has to be noticed by
  `update()`. `sent` only grows, so a bound is needed. The theorems cover any number
  of requests and of interrupts.
- `MaxInterrupts = 1`: the code tests `> 0`.
- Three registers of two bytes are the smallest device in which a burst lies
  inside, one ends exactly at the end, one reaches beyond, and a word is longer
  than a byte. Payloads of 0, 1, 2 and 4 bytes are empty, half a word, one and two
  words. Addresses include a misaligned one and the first one beyond.
- `MaxCalls = 3`, `MaxRemote = 2`: a wait, a soft interrupt and another wait, with
  a foreign interrupt before and after. `MaxDescriptors = 2`: two failed
  acknowledgements use them up, one leaves the server working. `OpenReturns` needs
  no call in between. The theorems cover any number of all three.
- `MaxInterrupts = 2` in `lifecycle`: a second SIGINT after the one that counts.
- `MaxReports = 3`: one thread makes two reports around one of the other, which is
  enough to lose a count, to decrease one and to mix a message; with two marks a
  mixed message may contain both. Two threads report
  in the program. `Word = 256` stands for `2^64`; a wrapped difference is far from
  any count. The theorems cover any number of threads, marks and reports.
- `HeaderBytes = 2` and words of one byte make packets of three bytes: a read can
  end in the header, behind it, or in the next packet. `REGCNT = 2` has a first and
  another register, `TESTCNT = 2` an overwritten value. The device has four
  registers of a byte so that the address of the last tested register is
  accepted (`BurstError`). `MaxMisreads = 1`: after a misread anything may follow,
  and the behaviour is cut. The theorems cover any header, word, device and number
  of registers, tests and misreads.

### Fairness

`AsyncAdaptor` assumes weak fairness of `async_os_thread` and of the kernel
thread, each as a whole: the operating system runs both. A thread blocked at a
mutex gets it only if the mutex stays free: `std::mutex` promises no more, and
`put_wakes` shows what that means. The client and the user owe nothing. `Driver`
assumes the same of its two threads; the program owes no further call.
`Lifecycle` assumes weak fairness of the main thread; that the kernel
leaves `sc_start` when an interrupt has been counted (`EndSimulation`) is
`InterruptStops` of `AsyncAdaptor`, under the fairness stated there. The other
modules check safety only.

Liveness properties of `AsyncAdaptor` hold "or the process has ended", since a
fatal report or an interrupt may end it at any time.

### Deadlock

Checked in `adaptor`, `bridge` and `system`; in `system` the only states without
a step of a program are those where both ends have gone or `misreads` has reached
its bound. The programs of `Driver` and `Lifecycle` end, a summary ends `Report`,
and the most general client of the channel can fill both queues with every thread
in a wait; their configurations say so.

## 4. Proofs

`TlmxChannelProofs` holds for every set `Threads`, every set `Packets` and every
`MaxQueue`, from the assumption that the actors and `NoOwner` are distinct:

- `Typing`: `TypeOK` is inductive.
- `HandshakeHolds` and `WokenThreadSeesResponse`: `WakeSeesResponse` is not
  inductive, since before a thread is awake nothing in it protects the packet.
  `ResponseHeld` adds that while SystemC is between the two halves of `nb_put` the
  packet is there; no pull is possible then, because `nb_put` still holds
  `m_mutex_fm_sysc`, and by `Handshake` a thread can be awake only then.
  `HandshakeInv` is the conjunction of `TypeOK`, `Handshake` and `ResponseHeld`.
- `NotificationsAreNotLost`: inductive by itself; `AcceptUpdates` clears the
  request before either half of `update()` reads a flag.

`AsyncAdaptorProofs` holds for any `MaxRequests` and `MaxInterrupts`, from the
assumption that the two threads and `NoOwner` are distinct. The invariant comes in
four layers, each of which uses the ones before it; no property of the module is
inductive by itself.

- `Typing`: `TypeOK`, in groups of variables that no step mixes.
- `Scheduling` (kernel and processes only): `Phases` says where a process can be in
  each phase of the kernel, `SignalFollows` that `m_keep_alive_signal` is up while
  the initiator waits, and that `keep_alive_process` waits for a change only while
  it is down or its event is pending. So the kernel advances time only with the
  initiator or `keep_alive_process` in a timed wait: `KeptFromStarving`.
- `Whereabouts` (the packet): for each step of `async_os_thread`, where the one
  packet is (`NoRequest`, `Queued`, `Served`, `Answered`), what may announce it, and
  who holds the wait mutex. `m_mutex_wait_put` is `Sysc`'s until the response is in
  the queue, so the thread passes `wait_for_put` only after that; while it is awake
  the initiator cannot take the mutex back. `ResponseIsReady`, `ResumedForRequest`
  and `PayloadIsExclusive` are read off it, and `AdaptorUsesChannel`: the queues are
  empty when something is put into them. With that theorem those of
  `TlmxChannelProofs` hold of the adaptor's channel.
- `Exchange` (the requests): a request is on the wire, in service, or answered, and
  the lengths of `executed` and `answered` follow from which. It gives
  `AdaptorServesRequests`, each step of the adaptor being a step of
  `RequestResponse` or leaving its variables alone; with `MissedIsFirst` on top, it
  gives `LaterRequestsAreAnnounced`: the initiator starts before anything has been
  executed, so what it can miss has number 1.

`TlmBridgeProofs` holds for every size of the device, every bus width and every
set of addresses and payloads, from `DevAssumption` (both sizes are positive) and
`BridgeAssumption` (addresses are naturals, payloads are sequences of bytes):

- `QuotientBounds`, `AcceptedIsInRange`: the test on word numbers bounds the byte
  addresses; from it `BTransportInRange`.
- `ServeOutcome` splits a packet into refused and copied; `RefusalsChangeNothing`,
  `ReadsNeverStore`, `DataIsExact` (with `CopyAgrees`) and `CarriedOutTakesTime`
  (with `AcceptedTakesTime`) follow by cases.
- `Typing` is the invariant they rest on: `overrun` must be Boolean and the
  payload a record for a step to be computed.

`DriverProofs` holds for any `MaxCalls`, `MaxRemote`, `MaxDescriptors` and
`AckReplySizes`, with or without spurious wakeups and failing setup. Its invariant
adds to `TypeOK`:

- `CountersOK`: a wait under way has been counted among the calls, and a server
  that has accepted had a descriptor to spare (for the bounds in `TypeOK`).
- `FlagMeansRaised`: `interrupt_flag` stands for an interrupt raised, which is what
  `WaitTest` looks at; `WaitsForInterrupt` follows.
- `StopIsPending`: once the connection of `dev_close` is made, the server is at its
  check, has stopped, or has that connection still in the backlog. A server that
  took a foreign connection first passes the check at most once more; this is
  stronger than `StopIsNoticed`, which speaks of `accept` only.

`LifecycleProofs` holds for any ports and number of interrupts, whether
constructors throw or not. `ThreadHasItsMembers`: the thread exists exactly when
`m_pthread` does, which is constructed after all it uses and never survives its
destruction. `GateIsClosed`: SystemC holds the gate until `start_of_simulation`.
`SummaryIsLast`: a process that still runs has printed no summary before the top is
gone. From these `ThreadUsesLiveMembers`, `NothingServedEarly` and `OneSummary`.

`ReportProofs` holds for any set of threads, any list of nonwarnings, any number of
reports and any width of the counters that can hold that number
(`ReportAssumption`, which also keeps marks and severities apart; the code's width is 64 bits, and with fewer values than
warnings made no summary could give their number):

- `Typing`: `TypeOK` is inductive. A thread increments a counter of the kind its
  step is about, so that none becomes negative; `Total(notes)` is a natural number
  by `SumBounds`, and `% Word` bounds the warnings of the summary.
- `VerdictSurvivesRaces`: `VerdictIsRight` says nothing of a counter in the middle
  of an increment. `CountInv` says that a counter is positive exactly when its
  severity has been counted: a lost increment writes one more than some earlier
  value, so it never returns to zero.
- `MessagesAreOwn`: `Alone` describes, as long as no two threads have met in the
  handler, the stream for each step of the one thread that is in it.
- `SummaryCountsAreExact`: `SummaryIsExact` speaks of the end only. `Exact` says,
  until two threads meet, what the counters are in between: those of errors, fatal
  reports and infos are the reports made; that of the warnings is the plain warnings
  plus all notes, plus one while a marked report has been counted as a warning and
  not yet as a note (`BeingNoted`); and what a thread has read for its increment is
  still so. `Alone` is needed to show that the mark which `Classify` finds is the
  thread's own. In the summary the notes are taken away again; the plain warnings
  that are left are fewer than `Word`, so the unsigned subtraction does not wrap.

`SumProofs` is what `Exact` needs of the fold in `Total`. The fold is a recursive
function on the subsets of its set; `FoldIsSum` shows that there is one that obeys
the recursion, by induction over the size of the subsets, and `SumBounds`,
`SumOfZeros`, `SumOfOne` and `SumIncrement` follow by induction over the subsets.
The induction theorems of the library take a predicate as a parameter, which the
provers cannot instantiate; `SetInduction` and `SubsetInduction` state induction for
a set instead, from the well-foundedness of `<` on the naturals.

`SystemProofs` holds for any size of header, word and device, any number of
registers, tests and misreads, and however TCP divides the bytes. `SystemAssumption`
says what the source fixes: the device has more registers than are tested and one
behind them (the tests start with the second, and `BurstError` refuses the last),
and the addresses and words of the tests are among those that packets carry.

- `Typing`: `TypeOK` is not inductive; what a read returns must be typed by what is
  on the wire. `TypeInv` adds the types of the bytes on both wires, of the request
  being served, and that a call under way is of a test that exists.
- `Conversation` is the protocol: as long as nothing has been misread, the two
  programs are in one of seven stages of a call. `Idle`: nothing is sent and nothing
  on its way. `Asked`: the bytes of just this call's request are on the wire.
  `AskedBehindJunk`: they follow the end of a packet that was divided. `Serving`:
  the simulator works on this request. `Answered`: just the bytes of an answer are on
  the wire, of the address asked for and with the data that is in the register now.
  `Deserted`, `Aborted`: one side has gone. That both wires are empty whenever the
  program sends is what keeps requests and answers in step.
- `AnswerIsUnderWay`: `AnswerUnderWay` is inductive with `TypeInv`; it holds after a
  misread too, where `Conversation` says nothing.
- `CountsMatch`, `TestsPass` follow from `Inv`, the conjunction of `TypeInv`,
  `Conversation`, `CountsAreRegisters` and `MisreadIsSplit` (a misread comes from a
  divided packet). `CountsAreRegisters` is proved together with `Conversation`:
  `count` takes what an answer carries, and `Answered` says that this is what is in
  the register. (The registers themselves do not change: of `dev_put`, too, the
  device makes a read, `writes_store`.)
- `BridgeIsImplemented`: `Spec => Br!Spec`, so that the theorems of
  `TlmBridgeProofs` hold of the device in the system.

`Inv` and `Exact` were first checked by TLC, on the instances of the runs `system`
and `report` and on others (a header of three bytes; five reports with one mark).

Only model-checked: the liveness properties of `AsyncAdaptor` (`TimedWaitEnds`,
`InterruptStops`, `PutReturns`, `ListeningInitiatorServes`), `Driver`
(`InterruptEndsWait`, `SoftInterruptReturns`) and `Lifecycle` (`InterruptEnds`), since
liveness and `ENABLED` are out of the prover's reach. With them go the absence of
deadlock, and the runs that find a violation. All other properties of passing
runs are proved.

## 5. Not modelled

- The layout of a packet (`pack` and `unpack` are not in the repository): a byte is
  known by its packet and its position.
- Loss of a request between the OS thread and the initiator is in `AsyncAdaptor` and
  not in `System`, which serves a request in one step.
- A C++ object corrupted by a data race: `msg_stream` is taken to interleave whole
  pieces, counters to lose increments.
- The layout of messages, the log file, verbosity, durations, `adjust_*`.
- Arguments of the test program, its random numbers (any word), and what its write
  beyond `count` hits (`software.c:62`).
- `dev_debug`, host lookup, pthread calls that fail.
- `netlist`, `sc_literals`: output and constants.

## 6. Plan

Done: all modules of section 2 and the theorems of section 4.

What remains: the loss of requests of `AsyncAdaptor` inside `System`, which needs
the two steps of a call between the adaptor's threads in place of `Serve`; and the
error paths of `dev_open` before its thread, should `Driver` ever speak of them.
