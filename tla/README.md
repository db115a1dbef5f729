# IPv4_Media: a TLA+ model of the multicast radio

The repository holds a network radio in C: a **server** that multicasts MP3
files as UDP channels, each at its own constant rate, and a **client** that
receives the programme list, lets the user choose a channel and pipes its bytes
to `mpg123`. Both are multi-threaded; the code's own tests exercise single
library features and no interleaving. This project models the parts where
threads, signals, timeouts and the network meet, checks them with TLC and
proves what matters most with TLAPS.

Paths are relative to the repository's root; `recv_thr.c:41` means line 41 of
`client/recv_thr.c`, and so on.

## 1. Inventory

### Client (`client/`)

| part | state | operations | what makes it correct |
|---|---|---|---|
| ring buffer (`client.h`, `recv_thr.c`, `writer_thr.c`, `client.c:43`) | `data[2 MB]`, `head`, `tail`, `count`, a mutex, two condition variables | `ring_buffer_init`, `ring_buffer_write` (waits up to 10 ms for room), `ring_buffer_read` (waits for bytes) | the indices agree with `count`; it is a FIFO queue of bytes; packets enter whole or not at all; no wake-up is lost |
| receiver thread (`recv_thr.c:65`) | `receiver_ready`, counters, `expected_seq`, `first_packet`, `packet_loss_count` | receive, filter, track the sequence number, write to the ring, count or drop | every byte and packet is accounted for; the thread is not held by a slow player |
| writer thread (`writer_thr.c:40`) | `pos` in its chunk, counters, `stop_flag` | wait for the receiver, read a chunk, write it to the pipe in parts | every accepted byte reaches the pipe; a dead player ends the process |
| statistics thread (`stat_thr.c:7`) | none of its own | sleep, print | ends with the others |
| `main()` (`client.c:54`) | list packet, server address, choice | options, socket, list reception, choice, fork, three `pthread_create`, three joins | the list that is taken is a list; the process ends when its threads do |
| player (external) | the read end of the pipe | read, exit | - |

### Server (`server/`)

| part | state | operations | what makes it correct |
|---|---|---|---|
| token buckets (`mytbf.c`) | `job[]`, per bucket `token` and a mutex and a condition variable, `mut_job`, `once_init`, `tid` | `mytbf_init`, `fetchtoken`, `returntoken`, `checktoken`, `destroy`, the SIGALRM handler, timer threads, `module_unload` at exit | a channel reads at most its rate; whoever waits for tokens gets them; no bucket is used after it is freed |
| media library (`medialib.c`) | `channel[]`: files, position, descriptor, offset, bucket | `mlib_getchnlist`, `open_next`, `mlib_readchn` | reads a channel's files one after another, without end |
| channel threads (`thr_channel.c`) | `thr_channel[]`, one sequence number each | create, send loop, destroy, destroy all | one datagram per read, numbered without gaps |
| list thread (`thr_list.c`) | the encoded list | encode once, send every second | what it sends the client can decode |
| `main()` and shutdown (`server.c`) | the configuration, the socket, the list | options, daemonise, socket, start the threads; `daemon_exit` on a signal, `module_unload` at `exit` | the list outlives the threads that read it; no circle of locks and joins beyond those listed; a signal gets as far as the first `module_unload` |

`mytbftokenpool.c` and `medialibindependenttoken.c` are alternatives the
`Makefile` does not build; the files named `*test*` are the author's
experiments (`readme.md`).

### Interactions

* The channel and list threads and the client share nothing but datagrams: UDP
  multicast, which may be lost, duplicated and reordered.
* In the client the receiver and the writer share the ring buffer; all threads
  share the counters and two flags, without a lock. The writer and the player
  share a pipe.
* In the server each channel thread shares its bucket with the alarm handler,
  and `main()` shares `job[]` with it. The handler runs **on top of whichever
  thread the kernel picks**: SIGALRM is blocked nowhere.
* The same holds of SIGINT, SIGQUIT and SIGTERM: `daemon_exit` runs on top of
  some thread, cancels and joins the others one by one, frees the list, and
  calls `exit`, whose handlers free the buckets. Like the alarm handler it calls
  functions that are not async-signal-safe (`pthread_mutex_lock`; `syslog`, `free`,
  `exit`), whose locks the interrupted code may hold.

### What is hard, and where

`PROJECT.json` lists the hazards at their lines. In short: lost wake-ups and a
timeout that races with a signal (ring); partial writes and a dying player
(writer); loss, duplication, reordering and wrap-around of sequence numbers
(receiver); threads left waiting when one of them ends (client); a signal
handler that locks mutexes, more timer threads than intended and a
use-after-free across threads (buckets); a shutdown that runs inside a signal
handler and inside the C library (server); end of file, unreadable files, too many directories (media
library); an ambiguous first byte (list).

## 2. Modules

| module | models | remarks |
|---|---|---|
| `Ring` | `struct ring_buffer` and the copying | pure operators on a record: `Written`, `ReadBytes`, `AfterRead` with their one- and two-part copies |
| `ByteQueue` | - | **abstract**: a bounded FIFO byte queue |
| `RingBuffer` | `ring_buffer_write` / `ring_buffer_read` with their two threads | refines `ByteQueue` by `queue <- Contents(rb)` |
| `SeqTracker` | `expected_seq`, `first_packet`, `packet_loss_count` | operators, with the widths of `uint32_t` and `int` |
| `ChannelList` | the encoding of the list (`thr_list.c:22-54`), its reception, its display and the choice (`client.c:154-203`) | down to the bytes of `proto.h` |
| `Client` | `main()` and all threads of the client, pipe, player | extends `RingBuffer`, `SeqTracker` and `ChannelList`; its steps use their actions |
| `TokenBucket` | `mytbf.c`, its users and the alarm | `mut` and `mut_job` are explicit because a handler may come in between |
| `RateLimiter` | - | **abstract**: a second is worth `Cps` tokens to a bucket, once; take, spend, give back |
| `TokenLedger` | - | `TokenBucket` with a history of seconds, scans, additions and bytes read; refines `RateLimiter` by `credited <- added`, `hand <- got` |
| `Shutdown` | the start of the list and channel threads, `daemon_exit`, `thr_list_destroy`, `thr_channel_destroyall`, `mlib_freechnlist`, `exit`, `module_unload` | extends `TokenBucket`: the threads it ends are those that fetch tokens and take the alarm |
| `MediaLib` | `medialib.c`: the scan of the media directory; `open_next` and `mlib_readchn` of every channel over one table of descriptors | |
| `Broadcast` | `main()` of the server from the scan on, `thr_channel.c`, a network that loses packets, one listening client | extends `MediaLib` and `SeqTracker` |
| `RingProofs`, `ListProofs`, `ClientProofs`, `TokenProofs`, `BroadcastProofs`, `PlayProofs`, `ShutdownProofs` | - | theorems and proofs; `SeqProofs` holds what the client and the server need of sequence numbers |
| `MCRingBuffer`, `MCClient`, `MCTokenBucket`, `MCTokenLedger`, `MCBroadcast`, `MCShutdown` | - | values for the constants |

Operators whose comment begins with "Mutant of" are not part of the model. Each
is a definition of the code as a plausible slip would have left it, and each
property is known to fail when that one is put in the place of the original.

### How state and actions correspond to the code

**Ring buffer.** `rb` is the C structure. Everything between taking `rb->mutex`
and giving it up (at the end, or inside a wait) is one action: nobody else can
see the state in between. `producer` and `consumer` say where the two threads
are: `out` of the call, about to `test` the loop condition, asleep in a `wait`,
or - producer only - `expired`: the timed wait is over, but the mutex is not yet
held again. `pthread_cond_signal` moves the other thread out of `wait` and is
lost otherwise. A wait may end without a signal (`WriteSpurious`,
`ReadSpurious`), as POSIX allows.

**Client.** `rpc`, `wpc`, `spc`, `mpc` are the places of the four threads in
their functions. The receiver's test of `stop_flag` and its `recvfrom` are two
steps (`ReceiverTest`, then `Ignore`, `Receive` or `RecvError`), because it may
block in between; the counting after the unlock is a step of its own
(`CountBytes`, `CountDrop`). The writer is the only thread that sets
`stop_flag`, so that for the writer the test and what follows are one step.
`PipeWrite` takes any part of what is left that fits into the pipe. When the
player is gone, `PipeBroken` kills the process, unless the client was started
with SIGPIPE ignored (`SigpipeIgnored`); only then the branch of
`writer_thr.c:65-68` is reached. Payloads are sequences over `Byte`; addresses,
channel numbers and lengths matter only through the filter they pass or fail
(`Ignore`). The statistics thread keeps its loop and its flag; what it reads and
prints is left out: it reads `packets_received`, later `packets_written`, without a
lock (`stat_thr.c:14-15`), so that it may well show more packets written than
received, and no property says otherwise. The flags are `volatile` and read afresh; the
counters are modelled as atomic words, as on the 64-bit machines the program is built for.

**The list.** A list packet is the sequence of bytes `thr_list` lays out (`Laid`,
`Offset`: each entry where the sizes before it say). The client's buffer
`msg_list` keeps what earlier datagrams, or `malloc`, have left in it; an error of
`recvfrom` leaves `len = -1`, which is not too short for an unsigned comparison.
`ShowEntry` is one round of the loop of `client.c:184-187`; with a `len` field of 0
the loop stays where it is, which is a stutter. Once the choice is made the
buffer is freed, and the rest of the client does not depend on it. Which number
the user enters matters no further: the filter of the receiver thread passes or
fails a datagram (`Ignore`, `Receive`).

**Media library and channel threads.** `fds` is the process's table of
descriptors, `channel[c].fd` a number that may be stale: `NextFile` (position and
`close`) and `OpenOk` / `OpenFails` (`open`, always the lowest free number) are
two steps, so that another channel can come in between. What `open` and `pread`
answer is left open. A failed `open` writes a log line that indexes `gl_pathv` with the
channel's identifier instead of its position (`medialib.c:174`): with fewer files than
that (`WildPath`) it reads past the array, and the process may crash (`Logged`). `FetchTokens` takes any number of tokens, and the tokens that
go back are dropped: `TokenBucket` has the details. `mlib_readchn` goes through
`fetch`, `read` and, at the end of a file or after an error, `next` and `open`;
`send` is the `sendto` of `thr_channel_snder`. The network loses packets but keeps
their order (the network of `Client` does not), and the listening client sees at
once what is not lost: only the order of packets matters to `SeqTracker`.

**Token buckets.** `pc` is the place of every thread, `hpc` the place of the
handler that runs on top of it, `"out"` if none does: a thread takes no step of
its own while `hpc` is not `"out"`. A bucket and the channel thread that uses it
have the same name. A lock and the work under it are two steps, so that a signal
can arrive between them. The alarm is one pending bit: signals of one kind do
not queue. `token` and the broadcast wake the bucket's thread (`Woken`).
`mytbf_destroy` is called by nothing that is built; `DestroyCall` lets the main
thread call it for a bucket without a thread, which is what its interface
allows. `NoFreePos` and `LoadFails` end the process (`Exited`); what `exit` runs
then is in `Shutdown`.

**Shutdown.** `Shutdown` begins where `mlib_getchnlist` has returned: there is a
bucket for every channel, and one timer thread and one registered `module_unload`
for every bucket and for the first load. `mpc` is the place of `main()`
(`list`, `create`, `store`, `pause`); thread creation and the store of its entry
in `thr_channel[]` are two steps (`ChannelCreate`, `ChannelStore`), because the
signal may come in between. `exiter` is the thread that runs `daemon_exit` or
`exit`, `dpc` its place there, `dpos` the `i` of `thr_channel_destroyall`, and
`over` says that the signal has interrupted the alarm handler and not the
thread's own code. `held` says which lock of the C library that thread's own code holds:
`"log"` (that of `syslog`), `"other"` (`malloc`, stdio, thread stacks), or none. It is
never released, because that code does not go on. A thread outside the functions
that call the library (`CallsLibc`) cannot hold one; `daemon_exit` then stays in its own
`syslog` (`ListFree`), `free`, `exit` or join (`ExitHangs`, `dpc = "hung"`), and any other
thread that calls the library may wait there for ever (`LibcBlocks`, `blocked`), the list
thread `daemon_exit` joins among them (`thr_list.c:57`). Which calls need which lock is the
library's affair; the model lets each of them go through or wait. The two handlers may
interrupt each other either way: the exiting thread takes no step while an alarm handler is on top of it (`ExitAt`),
and an alarm handler under `daemon_exit` takes none (`Suspended`).

`pthread_cancel` (`Cancel`) only puts the thread into `cancelled`. It ends later, at
a cancellation point (`ListEnds`, `ThreadEnds`): `sendto`, `sleep`, `pread`, `pause`,
or `pthread_cond_wait`, which takes the mutex again first and leaves it locked
(`Ends`). A thread that cancels itself while it runs `daemon_exit` ends in its own
`pthread_join`, and nobody goes on (`ExiterEnds`, `dpc = "lost"`). `module_unload`
runs once per registration: the first call cancels, joins and frees
(`TimerCancel`, `TimerJoin`), every further one does so to a thread and buckets
that are gone. That, cancelling the thread 0 of a list thread that was never
started, and a handler that walks freed buckets are undefined: the model takes
the process to end there (`UnloadCrash`, `ListCancel`, `AlarmCrash`) or, for
`module_unload`, to hang (`ExitHangs`) or get away with it (`UnloadAgain`).

One signal is modelled. `sa_flags` is not initialised (`server.c:114-124`), and the mask
holds for the thread that runs `daemon_exit` only; both matter only to a second signal.

## 3. What the runs check

All runs finish within three minutes. Deadlock is checked in `ring` only: the
other systems may really stop (the process has ended, every channel thread has,
or, with the alarm on any thread, the deadlock of `token_fetch`).

| run | question | bounds |
|---|---|---|
| `ring` | `RingTypeOK`, `RingCoherent`, `NoLostWakeup`; implements `ByteQueue` with its liveness (`QueueSpec`) | 4 cells, bytes 0/1, packets of 1-3 bytes, reads of up to 3: every wrapped and unwrapped copy, full and empty ring; deadlock checked; nothing is capped |
| `client` | `BytesConserved`, `ChunksWithinPackets`, `LossTelescopes`, `ListDecoded` | two channels with descriptions of 1 and 2 bytes, before the choice packets numbered 0, 1 and 256 and too short ones, a buffer full of 0 or of 1; 3 cells, packets of 1 and 2 bytes, 3 packets, sequence numbers modulo 4, all of them possible for every packet: loss, duplicates, reordering and wrap-around |
| `client_live` | `ReceiverNotHeld`, `AcceptedBytesPiped`, `StopEndsProcess` | 3 packets of 2 bytes, 3 cells: a write that waits, a chunk across the end |
| `token_ledger` | `TokensConserved`, `RateBound`, `NoMissedTokens`, `NoUseAfterFree`, `LedgerInv`; implements `RateLimiter` (`LimiterSafety`) | 2 buckets for 1 slot (so that it runs out), 3 timer threads, alarm on the main thread, a channel thread or a timer thread, 3 seconds, rate 2, burst 3; two buckets that both have a slot are covered by the proofs |
| `broadcast` | `ListAgrees`, `DescriptorsOwned`, `PlaysInOrder` | 3 directories (files of 1, 0 and 2 bytes; of 1; of 1) for 2 identifiers, so that they run out; reads of up to 2 bytes; any file fails at any time, and the second channel has fewer files than its identifier says (`WildPath`); numbers modulo 2, no client |
| `broadcast_live` | `LossExact`, `KeepsPlaying` | one directory with files of 2, 0 and 1 bytes, of which only the first can be relied on (`Good`); numbers modulo 4, which wrap; nothing else is capped. Its one channel has the identifier 1 and three files, so that the wild read of `broadcast` does not occur |
| `shutdown` | `UsersEndFirst`, `NoOtherCircle`, `SignalCleansUp`, `WaiterServed` | one channel, 2 timer threads, one entry in `thr_channel[]`; the signal on the main, the list, the channel or the last timer thread, before, between and after every step of the start, in a thread's own code, inside the C library or in the alarm handler; the alarm on the main thread; no bound on time |
| `client_list`, `client_stop`, `token_fetch`, `broadcast_loss`, `shutdown_ends` | a comment of the source that the code does not keep, see below | the smallest instances that show it |

Why the bounds are enough: the ring's behaviour depends on which of two copies
is taken and on which thread sleeps; four cells and packets up to three show
every combination, and the proofs below cover every size. For the client three
packets suffice for one being written, one queued and one waiting for room. For
the buckets, two channels, three timer threads (one more than one `mytbf_init`
creates) and three threads to be interrupted give handlers that compete with each
other, with `main()` and with the channel they interrupt. For the shutdown one
channel has every place at which a thread can be cancelled, and the list thread is
the second one to be joined. The alarm is on the main thread, where it may stop the start-up and
`daemon_exit` themselves; the timer thread has it in `shutdown_ends`, a channel thread in
`token_fetch`, all of them together in the proofs: `UsersEndFirst` and `NoOtherCircle` hold for any
number of channels and any threads. For the media
library two channels suffice for one to take the number the other has just
closed, a third directory for the identifiers to run out, and files of 0, 1 and 2
bytes for reads that end at, before and after the end of a file.

Named bounds: `MaxPackets` (packets of the channel the client receives),
`PipeCapacity`, `MaxSeconds` (alarms), `Timers` (calls of `mytbf_init`; the
guard of `InitCall` keeps enough of them). `IdAssumption` bounds the number of
directories, so that `curr_id`, a `uint8_t`, does not wrap; the sequence numbers of
the channel threads wrap at `SeqMod`.
`ListSeqs` and `Garbage` name the sequence numbers that may come before the choice
and the bytes `malloc` may have left in the buffer, which are taken to be all equal.

### The properties

* `RingCoherent`, `QueueSpec`: after any sequence of wrapped and unwrapped calls
  the ring is the queue it should be; bytes come out in order, once; a refused
  packet leaves no trace.
* `NoLostWakeup`: nobody sleeps on a condition that holds, with lost signals,
  timeouts and spurious wake-ups.
* `BytesConserved`: counted in = counted out + rest of the chunk + ring.
* `ChunksWithinPackets`: `packets_written` never exceeds what was received and
  kept. It rests on the writer's 64 KB buffer being larger than any packet
  (`ChunkAssumption`). Below equality it may stay: one chunk can hold several
  packets, so `packets_written` is not the number of packets its comment
  (`client.h:76`) speaks of. It is about the counters themselves, at one moment; what
  the statistics print is read at two.
* `LossTelescopes`: modulo 2^32, losses + packets = last - first + 1, whatever
  order they came in: duplicates and reorderings cancel out.
* `ListDecoded`: the client shows a list it receives entry by entry as the server
  has it, all of it and nothing behind it: the sizes the encoder writes and those
  the walk uses agree, whatever the buffer held.
* `ReceiverNotHeld`, `AcceptedBytesPiped`, `StopEndsProcess`: liveness. The first
  assumes nothing of the player; the second has `PlayerFairness` as its premise.
* `NoMissedTokens`, `WaiterServed`: no addition is missed; whoever waits is
  served, until a signal comes.
* `NoUseAfterFree`: neither the handler nor a channel thread touches a freed
  bucket, as long as the process does not exit.
* `UsersEndFirst`: `daemon_exit` frees the list only when the list thread, and every
  channel thread whose entry was filled when the signal came, has ended. It says nothing
  of a channel thread whose entry was not filled yet (it may run on without the list,
  `thr_channel.c:86-91`), nor of the buckets, which `module_unload` may free under running
  threads (`AlarmCrash`).
* `NoOtherCircle`: threads wait for each other in a circle for two reasons only. Either the
  thread that took the signal is in the circle, and was in the alarm handler, inside the
  C library, or is one of those `daemon_exit` and `module_unload` join; or the alarm came to a
  channel thread that had its bucket's mutex (`token_fetch`). `WaitsFor` is the graph of
  waiting: joins, `mut_job`, the buckets' mutexes, the wait that is cancelled, the locks of
  the library. A handler that stands still under `daemon_exit` counts as waiting for
  what `daemon_exit` waits for. Both reasons are the code's mistakes; the property says
  that its locks and joins have no third.
* `SignalCleansUp`: a signal gets `daemon_exit` and `exit` to the end of the first
  `module_unload`, unless there was no list thread yet, threads wait in a circle, the
  thread that took it has cancelled itself, or an alarm handler waits for a bucket whose
  thread was cancelled in its wait. What `module_unload` does from its second call on is
  undefined, so that nothing is said of it, nor that the process ends.
* `ListAgrees`: the list the server sends and `channel[]` agree, whichever
  directories fail half way.
* `DescriptorsOwned`: a channel reads its own file although another thread may
  have opened one under the number it has just closed; no descriptor leaks.
* `PlaysInOrder`: a channel's files one after another, each from start to end,
  without a gap, except where a file has failed.
* `LossExact`: `packet_loss_count` is the number of packets the client has not
  accepted between the first and the last, modulo 2^32.
* `KeepsPlaying`: a channel with one good file that is not empty goes on sending data,
  although its other files can never be opened or read, until its thread or the process
  ends; and that crashes only in a server that has a channel with fewer files than its
  identifier says.
* `RateBound`: bytes read <= rate x seconds, although every `mytbf_init` starts
  another timer thread and each sets the timer of the process.
* `LimiterSafety`: the buckets are the abstract `RateLimiter`. It knows no thread and no
  lock: that a handler never credits a second twice, although the scan, the addition
  and the alarm are steps of their own and several handlers may wait for `mut_job`,
  is what the refinement says.

### Where code and comments disagree

* `client_list` - the first field is said to tell lists and packets of channels
  apart (`proto.h:29,45`); a channel's packet begins with the low byte of its
  sequence number, so that every 256th, the first included, passes for a list
  (`client.c:171`). Its next bytes give an entry of size 0 while the numbers are
  below 2^16, and the client prints that entry for ever.
* `client_stop` - `stop_flag` is said to end all threads (`client.h:64-65`); on a
  quiet network the receiver never returns from `recvfrom` (`recv_thr.c:84`).
* `token_fetch` - a fetch is said to wait for the notification (`mytbf.c:142`);
  an alarm that interrupts a thread which holds a mutex makes the handler wait
  for that very thread, for ever.
* `broadcast_loss` - a gap in the numbers is reported as packets lost
  (`recv_thr.c:117-121`); the packet without data that ends every file takes a
  number and is ignored by the client (`medialib.c:206-213`, `recv_thr.c:106`), so
  that losses are counted on a network that loses nothing.

* `shutdown_ends` - the signals are said to end the daemon (`server.c:44,115`); a
  channel thread cancelled in `pthread_cond_wait` (`mytbf.c:142`) dies with its
  bucket's mutex, the alarm handler waits for it on the very timer
  thread `module_unload` joins (`mytbf.c:74-75`), and the process stays.

Four more, which no run is spent on: packets are said to be dropped when the
buffer is full (`client.h:79-80`), but a write whose deadline has passed is given
up even when there is room by the time it has the mutex (`recv_thr.c:41`); the
timer is said to be started only once (`mytbf.c:108`), but line 107 starts it once
more for every bucket; a file in error is said to be passed over without an exit
(`medialib.c:200`), but the log line of a failed open may read past `gl_pathv`
(`medialib.c:174`); and when the receiver ends on an error it tells nobody
(`recv_thr.c:90`), so that the writer waits for ever.

### Fairness

* `RingFairness`: the writer thread runs; nothing is asked of the receiver.
* `ReceiverFairness`: the receiver runs. Its deadline is absolute
  (`recv_thr.c:26-32`), so a wait that is entered again and again does expire:
  strong fairness of `WriteExpire`. A spurious wake-up is never owed: the weak
  fairness excludes it.
* `ThreadFairness`, `PlayerFairness`: the other threads run, a player that is
  there reads (a premise of `AcceptedBytesPiped`, part of no specification).
  `NetworkFairness`: datagrams of some kind keep arriving, which
  holds while a server runs, for it multicasts its list once a second
  (`thr_list.c:56-67`). `QuietSpec` leaves it out.
* `TokenBucket!Fairness` (`token_fetch`): threads run, the alarm rings and is
  delivered. A thread that waits for a mutex gets it if the mutex is free again and
  again (strong fairness): mutexes are held for a few instructions and the alarm
  comes once a second.
* `ShutdownFairness`: the same for `Shutdown`, and: `main()` gets on with its start,
  a cancelled thread comes to a cancellation point and ends, the exiting thread runs
  (strong, for it competes with the alarms on top of it). Nothing is asked of a crash, a
  hang or a spurious wake-up. No signal need come.
  `Shutdown` itself leaves open which threads take the alarm (`Handlers`), as the code
  does; the run `shutdown` lets the main thread take it, `shutdown_ends` the last timer
  thread, and the theorems hold for any threads. `WaiterServed` is a claim about
  instances in which no channel thread takes it: `token_fetch` shows the others.
* `Broadcast!ThreadFairness`: `main()` and every channel thread go on; that tokens
  come is the `WaiterServed` of `Shutdown`. `FileFairness` (strong, per channel and file
  of `Good`): a good file that is tried again and again is at some time opened, and read,
  with success. Of the other files nothing is asked: they may fail for ever. A channel
  without a good file may stay in `mlib_readchn` for ever (`medialib.c:195-205`), which is
  why `KeepsPlaying` has the premise `HasGoodFile`.

## 4. What is proved

TLAPS checks the following for every value of the constants the assumptions
allow (`SizeAssumption`, `ByteAssumption`, `PacketsAssumption`,
`MaxReadAssumption`; `ThreadAssumption`, `FiniteAssumption`, `MaxAssumption`,
`RateAssumption`, `MaxSecondsAssumption`; `FilesAssumption`, `IdAssumption`,
`ReadSizeAssumption`, `ChosenAssumption`, `GoodAssumption`; `SeqModAssumption`,
`SeqsAssumption`, `ChunkAssumption`;
`ListAssumption`, `ListSeqsAssumption`, `GarbageAssumption`, `ListMaxAssumption` of
`ChannelList`, the last of which says that the list fits into the client's buffer and
that into a datagram; `PipeAssumption`; `ListAssumption`, `ThreadsAssumption`,
`ChannumAssumption` of `Shutdown`, none of which says which threads the alarm or the signal
may interrupt).

**`RingProofs`.** `RingInv` = type, coherence, no lost wake-up. The third needs the
first two: that a sleeping producer's packet still does not fit after a step is
arithmetic on `count`. `RingTypeCorrect`, `RingStaysCoherent` and
`RingLosesNoWakeup` follow. `RingImplementsQueue` (safety): the two copying
functions are first shown to be `\o` and `SubSeq` on `Contents` (lemmas
`WrittenContents`, `ReadBytesPrefix`, `AfterReadContents`, by cases on whether
the bytes wrap), and then every step is `Accept`, `Take` or a stutter.

**`ListProofs`.** What the encoder, a recursive function, lays down for every list, and
what the client's walk finds in it. The library's induction theorems take an operator as
a parameter and cannot be used here; the induction is over a **set** instead: the numbers
up to `n` that belong to a set which has 0 and with each number the next (`SetInduction`,
from the well-foundedness of `<` on the naturals). With it a function defined by recursion
is shown to exist and so to obey its equation (`RecursionExists`, `OffsetEquation`), and
each entry to lie in the packet where the sizes before it say, unharmed by the later ones
(`LaidOut`, `ListPacketFacts`). In the other direction `EntryHeld` reads the `chnid`, the
`len` and the description of an entry out of a buffer that holds the list: the `len` of 16
bits suffices because the list fits into a datagram, and the description ends where the
encoder put its 0, not at an earlier byte of what was in the buffer before. `ListInv`, the
inductive invariant, says that the client has shown the first k channels and stands at
`Offset[k]` (`WalkAt`).

**`ClientProofs`.** A lemma, `ClientUsesRing`, which follows from the way `Client` is written: a step of the client is a step of
`RingBuffer` or leaves the ring alone; so the ring's theorems hold of the client
(`ClientLosesNoWakeup`, `ClientImplementsQueue`). The counters have two invariants of
their own. `CountInv` holds `BytesConserved` and `ChunksWithinPackets`. For the second,
chunks and packets are compared by way of bytes: `RingWithinPackets` says that the ring
has at most `MaxRead` bytes for every packet accepted and not yet taken, so that a
chunk that is taken while there are bytes finds a packet to be counted against; that
is where `ChunkAssumption` comes in. `TelescopeInv` adds to `LossTelescopes` that before
the first packet nothing is counted. `ListIsDecoded` is `ListDecoded`, from `ListInv` and the
fact that the threads leave the list phase alone; `ListIsTaken` says that its premise is
met whenever the list arrives, and `ListWalkGoesOn` that the walk through a list of the server
neither stays where it is nor leaves the packet, which with any other packet it may
(`client_list`). `ClientTypeCorrect` is the type invariant, the walk through what is no
list included.

**`SeqProofs`.** Arithmetic modulo `SeqMod`, by way of congruences (`Cong`): `%` and `ToInt`
change nothing modulo `SeqMod`, congruences add up, and congruent numbers have the
same remainder. The provers do not find that by themselves, since `SeqMod` is not a
number but a constant.

**`TokenProofs`.** `ChannelsArePaced` is `RateBound` for any number of buckets,
slots, timer threads and interrupted threads. The chain is
`used <= Cps*added <= Cps*scans <= Cps*seconds`:

* `TokensConserved`: what a channel has read, holds and finds in its bucket was
  added. A return must know that `got` is what is left, hence `HandEmpty`.
* `AddedOncePerScan`: one addition per bucket and scan. Inductive only together
  with `SlotsDistinct` (a bucket is in one slot), `JobExclusive` (one handler
  scans at a time, and not while `main()` changes `job[]`) and `AddsToBucket`.
* `AlarmsScanned`: scans + handlers waiting for `mut_job` + the pending signal
  never exceed the seconds.

`LedgerInv` is their conjunction; the run `token_ledger` checks it too.

`BucketsImplementLimiter`: a step of the ledger is a step of `RateLimiter` or a stutter.
The step that takes an argument is the addition: that the bucket has a second left to be
credited with is `AddedOncePerScan` and `AlarmsScanned` together. `LimiterKeepsRate` derives
`RateBound` from the abstract specification alone, a second way to `ChannelsArePaced`
that needs nothing of threads and locks.

`NoAdditionIsMissed` and `BucketsOutliveUse`, on the structural part of
`LedgerInv` (`Structure`). What they need besides is `Ownership`: a bucket's mutex is held
only by its channel thread or a handler, inside a critical section (`MutexHeld`); the
bucket of a channel thread is allocated (`UsersAllocated`); and the bucket `main()` is
making or destroying, its local `me`, has no channel thread (`MeUnused`). A handler then
never reaches a freed bucket because it has `mut_job` for as long as it walks `job[]`.

**`ShutdownProofs`.** `ListOutlivesThreads` is `UsersEndFirst` for any list, any `CHANNUM`, and
whatever threads take the signal and the alarm. The inductive invariant says that
`thr_channel[]` is filled in order and no filled entry becomes empty (`TableFilled`,
`KnownInTable`), and that all known channel threads before `dpos` have ended
(`ExitProgress`); a thread that has ended is not started again, because `main()`
creates each entry's thread once and only beyond `tid_nextpos`. `ShutdownTypeCorrect` adds
the types: a handler adds only to a bucket that is in a slot (`AddsInRange`), and there
is a `module_unload` left to run while `exit` waits for a timer thread (`ExitTypes`).
The channel threads may take the signal and the alarm like any other.

`CirclesHaveCause` is `NoOtherCircle`. Its invariant, `MutexHolders`, says who holds what: a bucket's
mutex is held by its own thread in a place where it waits for no mutex, by its thread
after it was cancelled in its wait and has ended, or by the handler that adds tokens and
also has `mut_job`; `mut_job` is held by a handler that walks `job[]`. Alone it is not
inductive: the handler at a bucket must be the one that has `mut_job` (`ScannerHasJob`), or
two handlers could each hold a bucket's mutex; and a thread `main()` is about to create
must not have begun (`Fresh`), or its creation would move a thread that holds its mutex
back to the start. `LibcInv` adds that nobody waits for the C library without a signal that
came while its thread held that lock. From there it is an argument about a set `S`
in which everyone waits for a member and which has neither cause: nobody in `S` waits for the
library (`CircleOwnWaits`); a thread in `S` waits as its handler or its own code does, not as
`daemon_exit` (`CircleKinds`), or it is the exiting thread in a join, whose partner then waits
in `S` too; the holder of a bucket's mutex is not in `S`, since it would wait for no mutex
(`NoBucketMutexInCircle`); so nor is the holder of `mut_job` (`NoJobMutexInCircle`); and then
nobody in `S` has anything to wait for.

**`BroadcastProofs`.** `MediaInvariant` for any media directory, any `MAXCHNID` and any
size of a read. `DescriptorsOwned` alone is not inductive: that `open` cannot hand
out a number another channel holds needs that channel's number to stand for a
file (`ChannelFile`), and that `close` takes only the channel's own file away needs
two channels to have different directories (`DescriptorsDistinct`), which is
`ChannelsOrdered`, which rests on the identifiers being given out in order
(`IdsBounded`). That a channel between `close` and `open` is not started anew is
`NotStarted`: `main()` creates each thread once, because the list is sorted.
`ListAlwaysAgrees`, `DescriptorsStayOwned` and `ScanInBounds` (with at most `MAXCHNID` directories
no write past the end of `channel[]`, and no crash but for want of a channel or by the log
line of `medialib.c:174`) follow, and with the types of the
client's part (`LossInv`) so does `BroadcastTypeCorrect`. `LossesCountedExactly` is
`LossExact` for any modulus: a packet that is sent has a length (`SendsLength`: the loop
of `mlib_readchn` is not left with -1), so that it is either accepted, and the gap
`Tracked` computes is exactly `gap`, or not, and `gap` grows with the number.

**`PlayProofs`.** `FilesPlayInOrder` is `PlaysInOrder`. Its invariant, `PlayInv`, says where a
channel is after the part it has read last (`Continues`): behind that part, or at the
start of a file that comes after it with only empty files in between, or, once a file
has failed, at the start of some file (`FreshAfterTrouble`). That `open_next` keeps to it
is arithmetic on the position, which goes around the list (`NextIsFollowing`,
`NextPassesEmpty`); that an empty file is never passed over all the way round rests on
the last part not being empty, that is on tokens in hand. That the file read is the
one at the channel's position is `DescriptorsOwned`.

Every invariant and every safety action property the passing runs check is proved. Only
model-checked: liveness (`QueueSpec` beyond `QueueSafety`, `ReceiverNotHeld`,
`AcceptedBytesPiped`, `StopEndsProcess`, `WaiterServed`, `SignalCleansUp`, `KeepsPlaying`), for fairness and
ENABLED are beyond the prover, and the comments the code does not keep, whose
counterexamples TLC finds.

## 5. Plan

Done: all modules of section 2 and the proofs above. What would come next:

1. a second signal while `daemon_exit` runs, and the `sa_flags` it depends on;
2. a run of `Shutdown` with the alarm on several threads and two channels, whose states are too
   many today (the safety properties are proved for them);
3. a server that restarts while the client keeps its address, which needs the
   addresses `Ignore` abstracts from.

Runs are few and distinct: later questions take the place of the least telling
ones above.

## 6. Not modelled

* The C library's own code: of its locks only that an interrupted call may hold one
  (`held`), of `syslog` and `malloc` nothing else. Locks of the library held beneath the
  *alarm* handler are left out: the handler calls nothing that takes them, so that a wait
  for one ends when the handler does, and a handler that never ends waits for one of
  the reasons `NoOtherCircle` and `SignalCleansUp` name. The alarm is not delivered to
  the list thread, which holds no mutex the handler takes.
* What the statistics thread reads and prints.
* Option parsing, daemonisation, sockets and logging: pure I/O.
* A second signal during `daemon_exit`, or one during the `exit(1)` of `main()` (section 5),
  and `thr_channel_destroy`, which nothing calls.
* That a list may exceed the largest datagram: every list of the model fits into one.
* A server that restarts with another address.
* `mytbftokenpool.c`: the `Makefile` does not name it and the file is cut off in the middle
  of `mytbf_returntoken`, so that no build of it has a behaviour. Read as far as it
  goes, its threads take the bucket's mutex and that of the pool in either order.
* `medialibindependenttoken.c`: not built; but for rates and log lines it is `medialib.c`.
* The author's experiments (`*test*`).

The list of components in `PROJECT.json` gives the reason for each.
