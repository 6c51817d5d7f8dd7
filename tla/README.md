# Verification of the Unix network programs

This directory holds TLA+ models of the programs of this repository (small
servers and clients written along *UNIX Network Programming*, one directory per
chapter under `src/`), the TLC configurations that check them on small
instances, and theorems about them that TLAPS proves for every instance.

The programs are short; what is hard about them is not in their lines but
between them: a `select()` whose answer is used several system calls later, a
signal that arrives between two calls, a peer that is slow, gone or never
finishes, a datagram that is lost. Each module therefore takes **one system
call, with the code up to the next one, as one step**, and lets the other
processes, the peers and the kernel act in between.

## 1. Inventory

| Component | Source | State it keeps | Operations | Modelled in |
|---|---|---|---|---|
| select() echo server | `07/server.c` `main` | `client[]`, `allset`, `rset`, `maxi`, `maxfd`, `nready`, `buf` | select, accept, slot search, read, write, close | `SelectServer` |
| fork() echo server | `07/server.c` `main01`, `str_echo`, `sig_chld` | `connfd` per process, `errno`, children | accept, fork, close, read, write, waitpid | `ForkServer` |
| descriptor-range echo server | `06/server.c` | `read_fds`, `max_fd`, `buffer` | select, accept, recv, send, close | `FdSetServer` |
| line client | `07/client.c` `str_cli` | `stdineof`, `rset`, `buf` | select, read, write, shutdown | `StrCli` |
| older line clients | `07/client.c` `str_cli02`, `str_cli_03` | the same, and the buffer of stdio | select, fgets, read, write | `StdioCli` |
| stop-and-wait clients and servers | `07/client.c` `str_cli_01`, `07/server.c` `str_echo_sum`, `05/` | one request, one reply | write, read | `SumEcho` |
| two-process client | `16/fork_strcli.c` | two processes, one socket | fork, read, write, shutdown, kill, pause | `ForkStrCli` |
| local-socket server and client | `15/tcp_unix_server.c`, `15/tcp_unix_client.c` | children, holders of a descriptor | accept, fork, dup2, exec, waitpid | `UnixCount` |
| daytime client and server | `01/` | receive buffer | connect, read loop, write, close | `Daytime` |
| UDP echo | `08/`, `06/udp-client.c`, `06/poll-server.c` | one datagram buffer | sendto, recvfrom, poll | `UdpEcho` |
| datagram examples | `20/`, `21/`, `22/`, `31/msg.c`, `14/recvmsg-*.c` | the one port they share, group membership | bind, sendto, recvfrom, connect | `Datagrams` |
| timeouts | `14/timeout.c`, `14/connect_timeout.c` | alarm, pending connection | alarm, recv, connect, select | `Timeouts` |
| netlink route query | `18/my_route.c` | receive buffer, `iov` | sendmsg, recvmsg, walk of messages | `RouteDump` |
| ARP entry | `17/arp.c` | the kernel's table | socket, ioctl | `ArpEntry` |
| daemon | `13/daemon_init.c` | process, session, descriptors | fork, setsid, close, open | `Daemon` |
| threads | `26/demo1.c` | two heap blocks | pthread_create, pthread_join, free | `ThreadSum` |
| child reaping example | `05/waitpid.c` | two children | fork, waitpid | `ReapOne` |
| the rest | see section 9 | | | not modelled |

### How they interact

Clients and servers meet only through sockets. `07/client.c`, `05/client.c` and
`15/tcp_unix_client.c` talk to the echo servers of `05/`, `06/`, `07/` and
`15/`; `08/` client and server exchange datagrams; `09/` and `10/` use SCTP.
Within a server the parts share memory (the slot table and the two descriptor
sets), descriptors (inherited over `fork()`) or signals (`SIGCHLD` interrupting
`accept()`, `SIGALRM` interrupting `recv()`).

### What is hard, and what makes each part correct

* **One thread, many clients** (`07/server.c`, `06/server.c`): readiness is
  stale as soon as `select()` returns; the sets, the slot table, `maxi`, `maxfd`
  and `nready` describe the same thing in five ways and must agree; every call
  blocks. Correct means: the tables agree, no call blocks that was announced not
  to, every client gets its bytes back, once and in order, whatever others do.
* **Processes** (`main01`, `15/`, `16/`): the order of parent and child after
  `fork()` is open; children end at any time, and their signals merge. Correct
  means: no child is left unreaped for ever, a connection ends when its handler
  ends, `accept()` survives being interrupted.
* **Half-close and buffering** (the clients): end of input is not end of
  replies; input and replies go through bounded buffers in both directions.
  Correct means: every reply is printed before the client ends, and client and
  server never wait for each other.
* **Loss and time** (`08/`, `14/`): a datagram is lost, an alarm goes off just
  before or after the call it should interrupt.
* **Boundaries**: `FD_SETSIZE`, the descriptor limit, a full buffer and its
  terminating zero, a short read or write.

## 2. Plan

Order of work, most important behaviour first.

1. `TcpNet`, `EchoService`, `SelectServer` with its proofs: **done**.
2. `FdSetServer` and `ForkServer`, against the same `EchoService`: **done**.
3. `StrCli`, client and server over bounded buffers, with proofs: **done**.
4. `UdpEcho`, with proofs: **done**.
5. The programs that answer line by line, `SumEcho` and `StdioCli`: **done**.
6. Processes and signals, `ForkStrCli`, `UnixCount`, `Daemon`, `ReapOne`:
   **done**.
7. Time, `Timeouts`: **done**.
8. `RouteDump`, `ArpEntry`, `ThreadSum`, `Daytime`, `Datagrams`: **done**.
9. Proofs, see below.

The programs of 5 to 8 are small and do not interact, so two modules check
several of them each: `MCClients` (with `StrCli`) and `MCPrograms` (with
`UdpEcho`). They are put together with `INSTANCE`; a variable `program` names
the one that runs in a behaviour, and the others stay in their initial states.
So no state is the product of two programs, the state space is the sum of the
single ones, and every property is checked on each program exactly as on its
own module's `Spec`.

Abstract specifications: `EchoService` for the TCP echo servers.

Theorems: every invariant that a passing run checks is also a theorem, and so are
`NoOverrun` under the hypothesis that `SelectOverrun` leaves out,
the action property `ClosesWhenDone` and the safety part of the three
refinements of `EchoService`; the sections below give the inductive invariants.
Left to TLC are the properties that rest on fairness, because `ENABLED`, and with
it weak fairness, is beyond the prover: the fairness of
`EchoService` in `ImplementsEcho`, `EveryoneServed`, `ZombiesReaped`,
`ReadersServed`, `Delivered`, `EofEnds`, `Notified`, `Answered`, `AnswersCome`,
`ProcessesEnd` and `ProgramsEnd`.
`ServicePromises` says what the refinements are worth: the abstract service sends
back what was sent, in order and once, and closes a connection only when all of
it was sent back or the connection was reset. Still worth proving: these
promises as corollaries for each server, under the hypotheses of its refinement.

## 3. The TCP echo service

### TcpNet: the environment

Sockets, the accept queue and the remote clients are not in the repository;
`TcpNet` models them from how the servers use them. A connection of `Conns` is
opened once. The bytes of a connection are numbered, so byte `k` of connection
`c` is `<<c, k>>` and a byte lost, doubled, reordered or sent to the wrong
client shows. A client sends, shuts its sending side, reads echoes, or vanishes
(`Abortive`); an echo that finds it gone is answered by a reset. `Window`
bounds the echoes written and not yet read: a `write()` that does not fit
blocks. `Evicts` lets the kernel drop a queued connection.

### EchoService: the promise

`EchoService` states the service without sockets: a connection is admitted,
bytes come back in order and once, and the server closes it only when the
client has stopped sending and got all of it back, or was reset. Its fairness
(admission, replies, close) is the liveness the servers owe.

### SelectServer: `main()` of 07/server.c

| Code | Model |
|---|---|
| `rset = allset; select()` | `Select`, `SelectFails` (EBADF: the result is not looked at and `rset` keeps `allset`) |
| `accept()`, slot search, `FD_SET`, `maxfd`, `maxi`, `--nready` | `Accept`; `AcceptFails` when it returns -1; `AcceptOverruns` when no slot or bit is left |
| the `for` over `client[]` | `SkipSlot`, `Chosen` |
| `read()` | `ReadData`, `ReadEnd` (with `close`, `FD_CLR` and the freeing of the slot) |
| `write()` | `WriteSome` (the part that fits), `WriteFails` (SIGPIPE or an ignored error) |

`FD_SETSIZE`, the descriptor limit `NOFILE`, `sizeof(buf)` and the number of
the listening descriptor are constants. `FD_SET(-1, ...)` is undefined in C; an
x86-64 build of glibc without fortification sets a bit of the first word
(`StrayBit`, there 63). After `AcceptOverruns` memory is corrupt and the model
stops.

**Runs.**

| Run | Instance | Shows |
|---|---|---|
| `SelectEcho` | 2 clients, 3 bytes, window and buffer 2 | the server implements `EchoService`, liveness included |
| `SelectErrors` | 3 clients that may vanish or be dropped from the queue, `accept()` may fail, 4 descriptors and room for 3, window 1 | tables and `nready` agree, reads never block, echoes stay faithful, connections end only when done |
| `SelectFull` | 3 clients, 2 descriptors | EMFILE at every turn of the loop: `accept()` does not block, and still everyone is served |
| `SelectOverrun` | 3 clients, a limit of one descriptor more than `FD_SETSIZE` | *violation*: the third client's descriptor has no bit, `FD_SET()` goes past the set, and "too many clients" is not printed |
| `SelectStray` | one failed `accept()` | *violation*: a stray bit, once `maxfd` has passed it, makes `select()` fail, and then `accept()` blocks with the queue empty |

**Bounds.** Two clients with messages longer than both the window and the
buffer are enough for partial reads, partial writes and a full window while
another client is ready. Three are enough for a slot and a descriptor to be
freed by one client and taken by another during the same sweep and in a
different order while a third stays. In `SelectErrors` the descriptor limit is
above `FD_SETSIZE`, so that `AcceptOverruns` happens; `SelectOverrun` shows the
smallest case, and that the hypothesis of `OverrunSafety` is needed. SIGPIPE (`WriteFails`, pc `killed`)
ends the service of every client; the code installs no handler, so this is
modelled and not a property. The theorems below lift the bounds for the safety
properties they cover.

**Fairness.** The process is scheduled whenever the call it is in can return
(weak fairness of `ServerStep`). Clients read what they are sent, as those of
`07/client.c` do, which wait for echoes in `select()`; a client that never reads
stalls this server, which writes without looking. Resets arrive. Nothing makes
a client send or finish, except in `SelectFull` (`FinishingSpec`), where
descriptors only come free if clients end. Deadlock checking is off: with a
finite set of connections, all used, the server waits for ever as it should.

**Proved** (`SelectServerProofs`, `SelectSweepProofs`), for every value of the
constants allowed by `TcpAssumption` and `ServerAssumption`:

* `TypeCorrect`, `TableSafety`, `FdsSafety` from one inductive invariant `IInv`.
  None of its parts is inductive alone: the types need the table (the sweep
  indexes `fds` through `client[]`), the table needs `FdsAgree`, and that needs
  `QueueAgrees`, that a queued connection is queued once and not yet open.
* `OverrunSafety`: with `NOFILE <= FD_SETSIZE` the process stays in its arrays.
  Slots in use hold different descriptors, there are fewer of those than slots,
  so by the pigeonhole principle one is free. The message "too many clients" is thus never printed
  before `FD_SET()` has gone wrong.
* `SweepComplete` and `ReadSafety`, from the invariant `SInv` on top of `IInv`:
  `nready` counts the reported slots ahead (`SlotCount` sets up the bijection
  between slots and descriptors), and what `select()` reported stays true until
  the sweep gets there, because clients never take data back (`ReadableStays`)
  and a connection accepted meanwhile has a descriptor that was not open when
  `select()` looked.

* `AcceptSafety` (`AcceptNeverBlocks`), with two hypotheses: `~Evicts`, because a
  connection dropped between `select()` and `accept()` leaves nothing to accept,
  and `~AcceptErrors`, because of the stray bit that `SelectStray` shows. A full
  descriptor table is *not* excluded: the bit it leaves in `allset` names a
  descriptor that is open at that moment or one beyond every limit. That is the
  invariant (`BitsOpen`): no bit `select()` looks at is that of a closed
  descriptor, so that it does not fail.
* `EchoSafety` (`EchoFaithful`) from `EInv`: besides the bytes sent back, it says
  what the one `buf` holds while `write()` is under way (`WriteAgrees`): what was
  read from the chosen connection and not yet sent back to it. Without that the
  next partial write could send anything.
* `CloseSafety` (`ClosesWhenDone`): `read()` returns 0 only when nothing is
  unread, and then `EInv` says that everything read was sent back.
* `EchoWhileAlive`: as long as SIGPIPE does not end the process, every step of
  the server and its clients is a step of `EchoService` or leaves its variables
  alone: `Spec /\ []NotKilled => Echo!SafeSpec`. Clients may vanish and reset
  their connections; failures of `accept()` and the overrun of the table are
  covered. `NotKilled` is needed because the death of the process takes all
  connections with it, and `~Evicts` because a connection dropped from the queue
  is never admitted; the service allows neither.
* `EchoRefined`: with clients that read to the end (`~Abortive`) nothing is
  reset, so no `write()` fails and the process is never ended; then
  `Spec => Echo!SafeSpec` without more.

`TcpNetProofs` holds what these proofs and those of the two servers below share:
lemmas about the accept queue (`QueueAgrees`, `TakeKeeps`), about the counts and
the order of the bytes of a connection under each system call (`CountsAgree`,
`InOrder`, `Rest`), and the simulation lemmas, that a client's step, a write and
a close are steps of the service. It also proves `ServicePromises` of the
abstract service, from the invariant `ServiceInv` (what was echoed is a prefix of
what was sent, and a closed connection is complete or reset).

Model-checked only: everything under fairness.

### FdSetServer: 06/server.c

The second select() server keeps no table: `read_fds` is all it knows, and
after every `select()` it walks every descriptor above the listening one.

| Code | Model |
|---|---|
| `temp_fds = read_fds; select()` | `Select`; when it fails `while (1)` comes straight back, so the process spins and takes no step |
| `accept()`, `FD_SET`, `max_fd` | `Accept`, `AcceptFails` (the -1 goes to `FD_SET`), `AcceptOverruns` |
| the `for` over descriptors, up to the `max_fd` that `accept()` may just have raised | `SkipFd`, `Chosen` |
| `read()` | `ReadData`, `ReadEnd` (0), `ReadError` (-1, taken for data) |
| `send()` | `SendSome`, `SendFails` |

| Run | Instance | Shows |
|---|---|---|
| `FdSetEcho` | 2 clients, 3 bytes, window and buffer 2 | the server implements `EchoService`, liveness included |
| `FdSetAbort` | 3 clients that may vanish, failing `accept()`, limit above `FD_SETSIZE` | the set names exactly the open connections, reads do not block, echoes stay faithful |

Fairness is that of `SelectServer`: clients read. It is needed, and the code
does not earn it: the sockets block, so a client that stops reading stalls
`send()` and with it everybody, although the comment at the head of the file
(line 6) calls the server non-blocking.

**Proved** (`FdSetServerProofs`), for every value of the constants:
`TypeCorrect`, `SetsSafety` (`SetsAgree`) and `ReadSafety` (`ReadNeverBlocks`)
from one inductive invariant. With no table to look into, that the walk finds an
open connection behind each reported descriptor is needed to keep `read_fds`
right, and the other way round; so the reported descriptors the walk has still
to reach, each open and readable, are a part of it (`WalkReady`, `WalkAt`). A
descriptor accepted during the walk was not reported, and is passed over.
`EchoSafety` (`EchoFaithful`), `EchoWhileAlive` and `EchoRefined` follow as for
`SelectServer`, under the same hypotheses. In `EchoWhileAlive` the failing `read()`
that is answered with a `send()` is a stutter of the service.

### ForkServer: `main01()`, `str_echo()` and `sig_chld()` of 07/server.c

Three kinds of process state: the parent (`pc`, `connfd`, `errno`), its signal
handler (`handler`; while it runs the parent stands still), and a child per
connection. Signals do not queue: `sigchld` is one bit. What `signal()` does
depends on the build, so `build` is chosen from `Builds` at the start: BSD's
(glibc's default) restarts an interrupted `accept()` and leaves the handler in
place; System V's lets `accept()` return with EINTR and resets the disposition at
the first delivery, and `sig_chld()` does not call `signal()` again. `installed`
is that disposition: a SIGCHLD that finds it reset is dropped.

| Code | Model |
|---|---|
| `accept()` | `AcceptReturns`, `AcceptFails` (resources, or EINTR), then `CheckErrno` as a step of its own: the handler may run in between |
| `fork()`, `close(connfd)` | `Fork`, `ForkFails` (-1 is not 0: the parent's path), `CloseConn` |
| `sig_chld()` | `HandlerEnters`, `Reap` (one `waitpid()` each), `HandlerReturns`, which leaves ECHILD in `errno` |
| child: `close(listenfd)`, `str_echo()`, `exit()` | `ChildStarts`, `ReadData`, `ReadEnd`, `WriteSome`, `WriteFails` |

| Run | Instance | Shows |
|---|---|---|
| `ForkEcho` | 2 clients that may vanish, 3 bytes, both kinds of `signal()` | parent, handler and children together implement `EchoService`; no child takes the parent with it |
| `ForkAbort` | failing `accept()` and `fork()`, both kinds of `signal()`, one client that never reads | descriptors are counted right, echoes are faithful, zombies are reaped while the handler is installed, a reader is served whatever the other client does |

Two clients are enough for two children to end together and for signals to
merge; a third would add no new pair of processes. Fairness: each process and a
pending signal's delivery; never a failing call. Only `Readers` read: a slow
client costs nobody else anything here, unlike in the two servers above.

**Proved** (`ForkServerProofs`), for every value of the constants:

* `TypeCorrect`, and `HoldersSafety` (`HoldersAgree`) from an inductive invariant
  that adds when the parent holds a connection (between `accept()` and
  `close()`, `ParentAgrees`) and that a connection not accepted has had no child
  (`NoChildYet`): else `fork()` could give a connection a second child.
* `ParentSafety` (`ParentSurvives`), where `accept()` does not fail for want of
  resources (such a failure ends the parent by design). The hard case is System
  V's `signal()`: `accept()` returns with EINTR after a handler whose last
  `waitpid()` may have failed with ECHILD. The invariant (`OnceInterrupted`) says
  that the disposition is already reset whenever the parent looks at `errno`, so
  no second handler can come in between. A `sig_chld()` that reinstalled itself,
  as handlers on System V usually do, would break it (the mutant `Reinstalls`).
* `EchoSafety` (`EchoFaithful`): a child calls `read()` with nothing left to write.
* `EchoRefined`: while the parent serves, all processes together implement
  `EchoService!SafeSpec`. A failing `fork()`, or the end of the parent, abandons
  connections, which the service does not allow, so both are excluded by
  hypothesis; clients may vanish, for a reset ends one child only.

Model-checked only: `ZombiesReaped`, `ReadersServed` and the fairness of the
service. `ZombiesReaped` is about children that end while the handler is
installed. With System V's `signal()` the first SIGCHLD resets it, and children
that end later stay zombies as long as the parent lives; no run claims otherwise.

## 4. The line client

### StrCli: `str_cli()` of 07/client.c, `str_echo()` of 07/server.c

Both programs block in `write()`, and each reads only what it then writes, so
the question is whether they can wait for each other. TCP keeps order, so a
stream is a chain of counters, from the keyboard to the output:
`typed >= taken >= up >= srvRead >= srvWritten >= arrived >= cliRead`.

| Code | Model |
|---|---|
| `FD_SET`s and `select()` | `Select`; bits the body leaves set in `rset` stay (`Watched`) |
| socket readable | `ReadSock` (with the `write()` to `fileno(fp)`), `ReadSockEnd`, `ReadSockFails` |
| input readable | `ReadIn`, `ReadInEnd` (with `shutdown()`), `WriteSock`, `WriteSockFails` |
| `str_echo()` | `SrvRead`, `SrvWrite`, `SrvEnd` |
| kernel, user, failure | `Arrive`, `FinArrives`, `ResetArrives`, `Types`, `EndsInput`, `Die` |

| Run | Instance | Shows |
|---|---|---|
| `CliEcho` | 8 bytes, buffers 3 and 2, kernel buffers 1, 1 and 4, server may be killed | never stuck; nothing lost at the end of the input; echoes appear while the input is open; the client learns of the server's end |
| `CliFile` | descriptor 0 open for reading only | *violation*: echoes are written to the descriptor of the input and none is shown |

**Bounds.** `RcvBuf = BUF + SBUF - 1` is the least receive buffer for which
`NeverStuck` holds (with one byte less, `UpBuf = 2` and eight bytes of input the
deadlock is reached). In the instance eight bytes are enough for a client that
serves its input first (`SelectInFirst`) to reach it.
**Fairness.** Both processes and the network; nobody has to
type. If the network or the peer never let `write()` go on, nothing here would
hold, but both processes read.

**Proved** (`ClientsProofs`), for every length of input and size of buffers:
`TypeCorrect`; `StuckSafety`, that a receive buffer of `BUF + SBUF - 1` bytes is
enough (2047 with the sizes of the code, far below what kernels allot);
`ShownSafety`, that a client whose output is writable returns only with every
echo put out. The invariant for the second bounds the bytes under way: before
the client takes more input it has read either a full buffer, and then their
number does not grow, or all that had arrived, and then what is under way is
behind the receive buffer. So the order in which the loop serves socket and
input is what keeps the pair alive; the mutant `SelectInFirst` swaps it.
Model-checked only: `Delivered`, `EofEnds`, `Notified`, which need fairness.

## 5. The UDP echo programs

### UdpEcho: 08/udp-client.c with 08/udp-server.c, 06/udp-client.c with 06/poll-server.c

A variable `chapter`, fixed at the start, tells which pair runs. The network is
the set of datagrams sent and not received: it loses (`Loses`), reorders (any
of the set is received next) and, for the clients in `Doubling`, doubles
(`Receive` leaves the datagram where it is).

| Code | Model |
|---|---|
| `fgets()`, `sendto()` or `write()` | `Asks`; `AskFails` when the connected socket has an error pending; at the end of the input `Ends` (08) or an empty datagram for ever (06, `AtEof`) |
| `recvfrom()` or `read()`, `printf()` | `Shows`; `ShowsNothing` for -1, which 06 takes for an answer |
| `recvfrom()`, `sendto()` of the servers | `Serves`; `Answer` cuts to 80 bytes in 08 and ignores the empty datagram in 06 |
| `close()` after one answer (06) | `Closes`, which drops what is queued; later requests are refused (`Bounces`) |

| Run | Instance | Shows |
|---|---|---|
| `UdpAsk` | both pairs, 2 clients with 2 lines, one of which suffers doubled datagrams | the other client's answers match its lines; who waits for ever has lost a datagram or sent the empty line |

Two lines are enough for a late answer to meet the next question. Fairness: the
programs run, a socket's queue is served in order (so fairness is per client),
and a datagram not lost arrives; loss has no fairness. `recvfrom()` returning -1
in 08 is left out: the sockets are not connected, so no error reaches them.

**Proved** (`UdpEchoProofs`), for every number of clients and lines and all
sizes: `TypeCorrect` and `AnswerSafety` (`AnswersMatch`). The lines carry no
number, so `AnswersMatch` rests on there being at most one datagram under way
per client, belonging to the line it waits for, and none while an error is
pending (`Alone`, `Told`): that is the inductive invariant. `Answered` needs
fairness and is model-checked.

## 6. Clients of streams, one request at a time and by processes

Run `CliEcho` (module `MCClients`) checks these next to `StrCli`. Its two
invariants and two temporal properties for them are conjunctions of the
properties the modules state:

| Property | Parts |
|---|---|
| `AnswersTaken` | `SumEcho!AnswersRight`, `SumEcho!LinesInOrder`, `Daytime!OneFieldAPiece`, types |
| `EndMeansDone` | `StdioCli!EndsComplete`, `ForkStrCli!KillsLate`, `ForkStrCli!StrangerSpared`, `UnixCount!NormalMeansCounted`, types |
| `AnswersCome` | `SumEcho!AskAnswered`, `StdioCli!AllSent`, `Daytime!AllServed` |
| `ProcessesEnd` | `ForkStrCli!BothEnd`, `UnixCount!CallerEnds`, `UnixCount!AllReaped` |

**SumEcho** (`05/`, `str_cli_01()` with `str_echo_sum()`). Nothing marks the end
of a message in these protocols. A message is modelled as two halves and a
`read()` returns any number of them (`Counts`), so that a struct can be read
half old, half new (`Over`). `AnswersRight` says exactly when sums belong to
their requests: until the first `read()` that returns a part, or an error, which
the code takes for a sum. Two requests show the answer of one taken for the
other's. The lines of `05/` may be cut just so, and the client then shows the
rest of one under the next; `LinesInOrder` says what is left of order: what is
shown goes on where it stopped before, whatever was cut or killed. What the pair
does at the end of the input is in the model and no property: client and server
wait for each other, and after SIGINT the server spins on empty reads.

**StdioCli** (`str_cli02()`, `str_cli_03()`). `select()` knows of the
descriptor, not of lines `fgets()` has taken from it (`Ready`). Three lines
suffice for one to be sent while another is held and a third arrives.
`str_cli_03()` writes its echoes to the descriptor of the input, as `str_cli()`
does (`WritesOut`, `StdinWritable`), and starts with any value in `stdineof`:
with a wrong one it never watches its input. A server that is killed with lines
unread answers with a reset; then `read()` returns -1 once, which both loops
take for data (`ReadFails`), and a `write()` fails unseen or ends the client with
SIGPIPE (`Write`). `EndsComplete` says what the ends are worth: `str_cli02()`
exits with 0 only with every line written, though not with every echo read, and
`str_cli_03()` returns from a server that was not killed only with every echo
read, and put out if its input can be written to. The two loops differ in what
they read with and how they end, so they share an action where the code is the
same (`Selects`, `ReadsEchoes`, `ReadFails`, `ReadReturns0`, `Write`).

**ForkStrCli** (`16/fork_strcli.c`). The parent writes, the child reads, and the
child's `kill(getppid(), SIGTERM)` ends the parent in `pause()`. SIGPIPE may
have ended it before; then the signal goes to another process
(`StrangerSpared` shows that this is the only way). A `fork()` that fails leaves
a parent that waits in `pause()` for ever: `BothEnd` excludes it by name.

**UnixCount** (`15/`). The server runs `wc -l` on every connection; the client
is `str_cli()`, of which only the steps that matter here are kept, because
`StrCli` has the rest: no data comes back. What ends the client is that the
*last* holder of the connection closes it (`holders`): the parent's `close()`
and the end of the child, in any order. Two callers let two children end
together. A client whose `connect()` came too early goes on without looking
(`astray`). `accept()` that fails leaves no state and is no step.

**Daytime** (`01/`). The server never waits for its client; the client cuts each
piece it reads at the first colon, so what it prints depends on how TCP cuts
the text (`OneFieldAPiece`), although the comment at `01/01-client.c:47` speaks
of a conversion to a date format. The text has five fields, so every way of
cutting it around its two colons occurs.

**Fairness.** In each the processes run, and a server that is not killed answers;
users and failures are free.

**Proved** (`ClientsProofs`): `AnswersSafety` (`AnswersTaken`) and `EndsSafety`
(`EndMeansDone`), for every number of requests, lines, callers and clients
(`ClientsAssumption`: the bounds are numbers, and there is a caller and a
client). Each program has an inductive invariant of its own, and a step of one
is a stutter of the others (`StepOfOne`):

* `SumInv`: until a `read()` returns a part, one message at a time is under way,
  and it is the one of the request the client waits for (`OneUnderWay`). The
  lemmas `ReadTakes` and `OverStruct` say what a partial `read()` takes, and what
  it leaves in a struct.
* `LinesInv`: of the pair of `05/`, the requests and replies under way and what
  was shown are one stream cut in three (`OneStream`), by the position of each
  half (`CutInTwo`).
* `StdioInv`: what `select()` reported stays so until it is used, the server
  ends by itself only after the half-close and the last echo, and the stream ends
  or breaks only after the server did.
* `ForkCliInv`: the half-close comes before the server's end, and that before the
  child's; `KillsLate` alone does not know where the parent is.
* `CountInv`: who holds a connection when (`Attended`). `NormalMeansCounted` rests
  on that: a connection is dead only after its child counted, or after a failure.
* `DaytimeInv`, with the lemma `OneField`: a piece of the text shows at most one
  field, and the first piece exactly the first one.

`AnswersCome` and `ProcessesEnd` need fairness and are model-checked only.

## 7. Datagrams, time limits, processes and threads

Run `UdpAsk` (module `MCPrograms`) checks these next to `UdpEcho`.

| Property | Parts |
|---|---|
| `DatagramsHeard` | `Datagrams!HeardRight`, types |
| `ReportsTrue` | `Timeouts!SuccessMeansPeer`, `RouteDump!AllHandled`, types |
| `LeftClean` | `ArpEntry!ArpUndone`, `Daemon!Detached`, `ThreadSum!BlocksHandedOver`, `ReapOne!ParentOutlives`, types |
| `ProgramsEnd` | `Datagrams!OneShot`, `Timeouts!VerdictGiven`, `Daemon!Started`, `Daemon!Survives` |

**Datagrams** (`20/`, `21/`, `22/`, `31/`, `14/recvmsg-*.c`). All nine programs
use port 12345, so up to three (`Together`) run at once, each on one of two
hosts: enough for two receivers to compete for the port, for a broadcast to
reach two hosts, and for a third program to send in between. A receiver takes
one datagram and frees the port, dropping what is queued. Nobody answers:
`31/msg.c` waits for ever, `14/recvmsg-client.c` goes on only if its connected
socket is told that the port is closed. The pairs differ in addresses and
options only, so the senders share one action and the receivers another. The
options that are set cannot fail for the address they are given; where a call
can (`SendFails`, `Joins`), the failure ends the program as in the code.

**Timeouts** (`14/`). Time is a number of ticks left (`Limit`, 2: one passes
before and one after an event). The alarm may ring at any call, also between
`recv()` and `alarm(0)`, and the handler exits. `SuccessMeansPeer` names the one
case in which "connect success" is printed without a connection: a `connect()`
that failed at once, whose error `SO_ERROR` no longer holds.
`VerdictGiven` needs the clock and the program to run, not the peer.

**RouteDump** (`18/my_route.c`). `msg_name` is `&local`, whose `nl_pid` is the
program's own, so the request does not go to the kernel: without CAP_NET_ADMIN
`sendmsg()` fails, and with it the request lies in the program's own queue. The
program reads its 28 bytes back, hands them to `handle_route_message()`, which
ignores a request, and looks at the type behind them (line 114), in bytes
nothing was written to: it ends, or waits in `recvmsg()` for ever. `WalkEnds`
leaves both open. No route is ever printed, and no liveness is claimed.
`AllHandled` is about the walk: every message received is handled, and nothing
behind it, which rests on `iov_len` and on both tests of `NLMSG_OK`. Lengths are
those of `netlink.h` and `rtnetlink.h`.

**ArpEntry, Daemon, ThreadSum, ReapOne.** Sequences of calls each of which may
fail, with another party in between: programs that change the same ARP entry, a
terminal that hangs up, a second thread, a second child. Their instances have
the sizes of the code. `Started` says what the success of `daemonize()` is worth:
the launcher exits before the daemon exists. In `ThreadSum` the thread does not
test `malloc()`, which ends the process (`crashed`).

**Fairness.** The programs run (`WF` of the program's steps, and of the clock in
`Timeouts`); nothing makes a peer answer or a failure happen. `ArpEntry`,
`ThreadSum`, `ReapOne` and `RouteDump` have no liveness property.

**Proved** (`ProgramsProofs`): `DatagramsSafety`, `ReportsSafety` and `LeftSafety`,
the three invariants, for any set of programs and hosts and every `Limit`
(`ProgramsAssumption`: a limit of at least one tick). The inductive invariants, one for each program:

* `DgramInv`: what lies in a host's queue was meant for the socket that is bound
  there now. It is needed because queues outlive senders, and holds because
  closing a socket drops its queue.
* `TimedInv`: what is known at each call; in particular `select()` is reached only
  with a connection under way, and `SO_ERROR` is asked only after it is decided.
* `RouteInv`: there is one request, which the walk either has whole before it or
  behind it.
* `ArpInv`, `DaemonInv`, `ThreadInv`, `ReapInv`: what exists, is open or is owned
  by whom at each step of the sequence.

`ProgramsEnd` needs fairness and is model-checked only.

## 8. What the runs disagree with

* `SelectStray`: one failed `accept()` can stop the select() server for all: its
  -1 sets a bit that, once `maxfd` has passed it, makes every `select()` fail, and
  the loop then calls `accept()` with nobody in the queue.
* `SelectOverrun`: with a descriptor limit above `FD_SETSIZE` the select() server
  writes past its table and its sets.
* `CliFile`: with its input from a file the line client shows nothing.

Some of what the small programs get wrong is stated as the exact condition under
which it happens: sums of another request (`AnswersRight`), the stray SIGTERM
(`StrangerSpared`), success without a peer (`SuccessMeansPeer`). These properties
exclude every other way to the failure, not the failure. Other faults are states
of the models that no property speaks of, because they are what the code does: the deadlock and the spinning server of `05/`, the input `str_cli_03()`
may never watch, the echoes `str_cli02()` leaves behind, the alarm that comes
after the answer, `31/msg.c` that waits for ever, the route query that asks
itself, the spin of `06/server.c` after a failed `accept()`.

Deadlock checking is off in every run: clients that have sent all they may leave
servers waiting, as they should, and small programs end.

## 9. Not modelled

* **SCTP programs** (`09/`, `10/`, `23/`): several calls pass their arguments in
  the wrong places, and `accept()` is called on a one-to-many socket. What
  follows is up to the SCTP library and the kernel.
* **Nonblocking and /dev/poll clients** (`16/str_cli.c`, `14/str_cli.c`): the
  first breaks off in the middle of a statement (line 140), the second defines
  `struct pollfd` twice and reads a device Linux does not have.
* **Threaded server and web client** (`26/tcp_server01.c`, `16/web.c`): they call
  functions that are nowhere in the repository, and the thread's is empty.
* **Queries** (`17/ipaddr.c`, `17/print_finfo.c`, `19/sa.c`, `03/`, `11/`) and
  **socket examples** (`15/bind.c`, `15/sock_stream_*.c`, `16/rst.c`,
  `14/setsockopt_timeo.c`): no state between two operations.
  `14/select_timeout.c` does not compile.
* **Connecting** in `main()` of `07/client.c`: a failure ends the program before
  `str_cli()`.
* `15/tcp_unix_client.c` and `16/fork_strcli.c` do not link as they are (the
  first lacks `max()`, the second `main()`); they are modelled with the `max()`
  of `07/client.c` and a caller that has connected.
* Bytes behind the end of a full buffer (`06/server.c:81`, `07/server.c:44`),
  which lie outside every variable of the models.
