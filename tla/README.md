# A TLA+ model of the C++ course projects

The repository holds thirteen homeworks and a final project of a C++ course,
each a program of its own. This directory specifies those whose correctness
depends on the order in which things happen or on which of several steps fail:
the blocking queue of the final project, the batch processor of HW_7, the
asynchronous bulk library of HW_9, the bulk server of HW_10, the duplicate
finder of HW_8 and the join server of HW_11.
TLC checks every module on small instances. TLAPS proves, for every value of the
constants, that the queue is a linearizable bounded buffer, and the safety
properties of the queue, of the output threads, of the bulk library, of the
bulk server, of the batch processor, of the join server and of the duplicate
finder.

## 1. The system

| part | state | operations | what makes it correct | here |
|---|---|---|---|---|
| Queue, `Project_work/include/queue.hpp` | container, `closed_`, `producerActive_`, `consumerActive_`, two condition variables | `push`, `pop`, `size`, `empty`, `close`, `clear` | order, capacity, no lost wakeup, close releases everybody, a mode admits the threads it names | `PCQueue` |
| Output threads, `HW_9/lib/async.cpp`, `HW_10/lib/async.cpp` | `log_queue`, `file_queue`, `should_terminate`, `file_counter`, three threads | push and notify, take, print, write, start, stop | every block once on the console, in order, and in one file; draining before they stop | `OutputWorkers` |
| Bulk library, HW_9 | map of contexts, a `taskmanager` each, `threads_initialized` | `connect`, `receive`, `disconnect` from any thread | contexts do not mix, blocks respect braces, disconnect flushes and returns | `TaskManager`, `AsyncLibrary` |
| Bulk server, HW_10 | sessions, contexts, one shared `taskmanager` | accept, read, end of file, error, stop | static commands are mixed, dynamic blocks stay apart, nothing received is lost, clients are served | `BulkServer` |
| Bulk processor, HW_7 | static and dynamic block, a count, two timestamps, `stop_flag` | `add_task`, `process_tasks`, `run`, `stop`, destructor | the right blocks in the right files; a failed write neither loses nor doubles commands | `BulkParser` |
| Duplicate finder, HW_8 | files listed, their lazily computed hashes, the group compared | options, scan, group by size, read a block of each, group by hashes | files listed as asked, groups are the classes of equal files, blocks of files that differ are not read, it ends | `Bayan` |
| Join server, HW_11 | two tables, a session and a socket per connection | accept, `INSERT`, `TRUNCATE`, `INTERSECTION`, `SYMMETRIC_DIFFERENCE`, end of file, error, stop | replies follow from the commands before, arrive whole and in order, every line is answered | `JoinServer` |
| Editor HW_5, matrix HW_6, allocator and list HW_3, ip_filter HW_2 | sequential data structures | | | not modelled |
| HW_1, HW_4, HW_12, HW_13, `common`, build | | | compile-time code, floating point, I/O wrappers | not modelled |

How they interact: callers of HW_9 run `connect`, `receive` and `disconnect` in
their own threads. They share the map of contexts (`contexts_mutex`) and the two
queues (`queue_mutex`, `queue_cv`), from which one log thread and two file
threads take. In HW_10 the callers are the handlers of an asio `io_context`
that one thread runs; the library differs in that it keeps one `taskmanager`
for all connections, sets `should_terminate` back when it starts threads, and
flushes in `stop_threads`. HW_11 has the same structure of handlers in one
thread, but its sessions write replies, through sockets that may be full. HW_7
is the sequential ancestor of the bulk programs: it reads standard input, and
only a signal interrupts it. The queue of the final project, and HW_8, which
only the file system surprises, stand alone.

The hard parts are the same everywhere: what happens between a predicate and
the sleep that follows it, between a notification and the wakeup, between a
mutex released and the next statement, and what is left when a call ends early
(timeout, close, broken connection, signal). `PROJECT.json` lists them as
hazards, each at its line.

## 2. Modules

| module | models | uses |
|---|---|---|
| `BoundedBuffer` | what a queue promises: the abstract linearizable buffer | |
| `PCQueue` | `queue.hpp` | `BoundedBuffer` (refinement) |
| `PCQueueProofs` | theorems about `PCQueue` | `PCQueue`, TLAPS |
| `OutputWorkers` | log and file threads of HW_9 and HW_10, and `WorkersSpec`, what they do for any program that pushes blocks | |
| `OutputWorkersProofs` | theorems of `WorkersSpec` | `OutputWorkers`, TLAPS |
| `Braces` | what the braces of an input call for: nesting, commands (not how a program finds out) | |
| `BracesProofs` | lemmas about them, and induction over numbers | `Braces`, TLAPS |
| `TaskManager` | class `taskmanager` of HW_9, as functions | `Braces` |
| `AsyncLibrary` | HW_9 `connect`, `receive`, `disconnect` | `OutputWorkers`, `TaskManager` |
| `AsyncLibraryProofs` | it implements `WorkersSpec`; its own theorems | `AsyncLibrary` and the two modules of lemmas |
| `BulkServer` | HW_10: server, sessions, library | `OutputWorkers`, `Braces` |
| `BulkServerProofs` | it implements `WorkersSpec`; its own theorems | `BulkServer` and the two modules of lemmas |
| `BulkParser` | HW_7: class `taskmanager`, with files, seconds and signals | `Braces` |
| `BulkParserProofs` | theorems about `BulkParser` | `BulkParser`, `BracesProofs`, TLAPS |
| `Bayan` | HW_8: options, scanner, finder | |
| `BayanProofs` | theorems about `Bayan` | `Bayan`, `BracesProofs`, TLAPS |
| `JoinServer` | HW_11: sessions, database, sockets | |
| `JoinServerProofs` | theorems about `JoinServer` | `JoinServer`, `BracesProofs`, TLAPS |
| `MC...` | constant values and symmetry for TLC | |

Definitions with a comment "mutant of ..." are faulty variants of the
definition they precede. No specification uses them. Each is there to show that
the property it is paired with in `PROJECT.json` can fail.

### PCQueue

Every member function but `size` and `empty` runs under `mutex_` and gives it
up only inside a wait. So a call is one action from its start to its end or to
its wait (`Push`, `Pop`), and one from the return of the wait to its end or the
next sleep (`ResumePush`, `ResumePop`). `pc[t]` says whether a thread rests,
sleeps ("blocked"), was woken ("notified", by a notification or spuriously) or
ran into its deadline ("expired"); the last two are about to take the mutex and
test the predicate. Pops sleep on `notEmpty_`, pushes on `notFull_`, so the kind
of a call says on which condition variable its thread sleeps. `queue_` stands
for both containers, of which an object uses one; the elements are in insertion
order and `Front` says which may leave next. An unlocked read is two actions.
If the container changes between them the read is a data race and returns any
value of `TornSizes`. The constructor's arguments are chosen in `Init`, so one
run covers all modes. Timeouts are three classes: 0, positive, negative. A push
on an unlimited queue is bounded by `UnlimitedCap`, the only bound.

### OutputWorkers

Blocks are numbers in `submitted`, the history of what was pushed. A worker that
finds its predicate false is "holding" the mutex until it sleeps: between the
two a thread that needs no mutex (`should_terminate = true`, `notify_all`) may
run. `Submit` is `process_tasks` to the end of its critical section and
`NotifyAll` its last call. File names keep the worker and `file_counter`; the
second and the context in the name can only add differences. A file may fail to
open (`FileOpens`).

### TaskManager and AsyncLibrary

Commands are positions in the input of their context, and the three texts that
matter are "{", "}" and any other. `add_task` is a function from a manager and a
line to a manager and a block. `AsyncLibrary` cuts the calls where another
thread can notice: at the atomic flags, at both mutexes, at `notify_all`, and at
the start and join of every thread. `contexts_mutex` is held across a step only
while `disconnect` runs `finish` ("finishing"). Assigning to a joinable
`std::thread` sets `terminated`, after which nothing moves. The unlocked
`contexts().empty()` is an atomic read in the model: a torn read of a
`std::map`'s size, one word, is not among the outcomes considered.
`orderly`, chosen in `Init`, says whether callers wait for each other's `connect`
before they disconnect; then nobody connects a second time either. If they do
not wait, the program may end (section 5).

### BulkServer

One thread runs the handlers, each to its end. `todo` is what the current
handler has still to do, cut where a worker can notice. A connection's lines
are all on their way from the start, since only the order of the handlers can
be noticed, and it is free. `tail` says whether the last line lacks its newline
(it is handled at end of file). A connection ends by end of file, or breaks and
takes with it what has not been read. `Stop` stands for a signal and what
follows: the current handler ends, `run` returns, and the elements of
`sessions_` are destroyed and disconnect one by one, the oldest first
(`Destroy`). `handled` is the history of lines, and commands are positions in
it. A connection may send any script of lines that are not empty, which
`getline` leaves out (`ScriptsAssumption`). The properties count braces in
`handled`: `Level` is the number of a connection's opening braces less that of
its closing ones, which says what the counter should be without following it.

### BulkParser

`add_task` and what it calls are functions of the manager's members, the line,
the second and what opening the files of the call would give; at most two files
are opened in one call (an unmatched `}` after which a static block is full). A
failed open returns before the block is cleared, so the block, its count and its
timestamp stay. `task_count # 0` chooses the timestamp, whatever block is
written. `console` is the history of the blocks written; a block carries the
second of its file name, and two blocks of one second share a file, of which the
later truncates the earlier. `Signal` may come at any time; it fails a
read it interrupts, but one that comes between the test of `stop_flag` and the
read is noticed after the next line. `run` may be called again.

### Bayan

The file system is a constant tree, `content` what its files hold, `argv` the
options. `Visit` is a turn of the scanner's loops; the directory iterator picks
the next entry from those before it. A file listed for two directories to scan is
two `FileInfo`s, which is what `<<i, f>>` says. `SkipExcluded` is the
`continue` that does not move the iterator: it changes nothing, and the loop stays
there. Paths matter in one place, the comparison of their beginnings, and
`StartsWith` gives that relation. With relative paths (`~absolute`) it never
holds, as excluded paths are made canonical and the others are not. A
digest is a sequence of digits, of any length for crc32, which is printed in
decimal; that is what makes concatenated digests ambiguous. A round of
`find_duplicates_in_group` is one action, since nothing else runs; where a file
does not open some of the others have been read. Looking at the file system
may fail wherever the code handles it (`faulty`). A `block_size` of 0 is a
division by zero, "killed".

### JoinServer

One thread runs the handlers, each to its end, so that the two mutexes of
`Database` are never contended and a command is atomic. What is not atomic
is a reply: `do_write` starts an `async_write` for each message without waiting
for the one before. The writing side of a socket follows Boost.Asio's reactor,
of which this code is a client (external in the map): a write is tried at once if
none waits and the last found room, otherwise it is queued; one done in part is
continued by a handler of its own, behind what was queued meanwhile. A
text is two parts so that it can be cut. A text that is not a literal lives in a
temporary string of `do_write`'s caller and is gone when `do_write` returns: sent
later, it is `Unspecified`. `congested` remembers that a write had to wait. A client
sends its lines at once and receives whenever it likes. Connections of `Fragile` clients may break.
`log` and `owed` are histories.

## 3. Runs

Passing runs, with the bounds that make the interesting cases happen:

| run | instance | shows |
|---|---|---|
| `queue_safety` | 2 producers, 2 consumers, capacities 0 to 2, two priorities, all modes and timeouts | `TypeOK`, `CapacityRespected`, `NoLostPop`, `NoLostPush`, `ClosedWakesAll`, `FlagsMatchWaiters`, `NothingAddedAfterClose`, and the refinement `BufferSpec` |
| `queue_liveness` | 1 producer, 2 consumers of which one reads `size`, capacity 1 | `CloseReleasesWaiters`, `TimedCallsReturn`, `NobodySleepsForNothing` |
| `async_two_callers` | 2 callers, up to 3 lines each, a dynamic block or single commands; calls orderly or in any order | `LoggedInOrder`, `FileNamesDiffer`, `NoBlockMissed`, `ContextsDoNotMix`, whatever the order of the calls, and `DisconnectFlushes` when callers are orderly |
| `async_one_caller` | every input of up to 4 lines, unmatched and nested braces included; files that fail to open | `TypeOK`, `BlocksRespectBraces`, `OneFilePerBlock`, and the liveness property `EveryBlockWritten` |
| `bulk_server` | 2 connections, each with 2 static commands or a dynamic block, that close or break; `stop()` at any time | `TypeOK`, `StaticBlocksInOrder`, `BraceEndsStaticBlock`, `DynamicBlocksWhole`, `EmptyServerHasWritten` |
| `bulk_liveness` | 2 connections with a command or with nested braces that stay open | `TailIsDisplayed` |
| `bulk_parser` | every input of up to 5 lines, blocks of 2, each line in the second of the one before or the next, every file may fail to open, a signal at any time | `TypeOK`, `CountsAgree`, `EveryCommandOnce`, `BlocksAreRight`, `PacedBlocksKeepTheirFiles` |
| `bayan` | 4 files in 3 directories, every content of 3 bytes and of mixed sizes up to 2, 19 command lines of which one lists 3 of the files, with and without errors | `TypeOK`, `ListedAsAsked`, `GroupsAreClasses`, `BlocksReadWhenNeeded`, and the liveness property `RunEnds` |
| `join_server` | 2 clients with 2 or 3 lines each, sockets that hold a message and a half, one connection may break | `TypeOK`, `RepliesDelivered`, `RepliesFollowHistory`, and the liveness property `EveryLineAnswered` |

Two sleepers of each kind are what a lost wakeup takes (one is woken, the other
should have been), and capacity 2 lets both kinds sleep in turn. Two workers
share `file_queue` and a third has its own; two callers or connections are
enough for one to start while the other stops. The longest protocol sequence is
that of braces: four lines hold a nested pair, or a command before, in and
after a pair. HW_7 has a fifth, so that a block whose file failed is followed by a
full one, or by a pair of braces, and a later write. Four files are two pairs that
agree in a block and differ in the next, or a pair and two files alone; three
bytes in blocks of one are two rounds after the first, and in blocks of two end
with a block that is not full. Sockets of three parts are full in the middle of a
message, when a join has two rows. The scripts of `JoinServer` insert an id
twice, in one and in both tables, truncate between, and send malformed and
unknown commands. `RepliesFollowHistory` says nothing after a malformed `INSERT`,
`BlocksAreRight` nothing of the name of a dynamic block opened in an earlier second, and
`BlocksReadWhenNeeded` nothing of the third block of four files: there the code
does something else than its document says (section 5).
The modules of the programs other than the queue set `CHECK_DEADLOCK FALSE`, because callers
that have disconnected, a server that was stopped, and a program that has ended
are finished.

## 4. Fairness

Threads that can run do run: weak fairness where nothing else can take the step
away (`PCQueue`'s `Resume`), strong fairness where a mutex or the handler loop is
contended and so is free again and again (`AsyncLibrary`, `BulkServer`), and for
a deadline, which comes however often the thread is woken before it. Nobody is
obliged to call `push`, `pop`, `close` or `receive`, to send or to stop the
server, and no wakeup has to be spurious. In `AsyncLibrary` a client that has
connected disconnects in the end. `Bayan` is one thread, which goes on (weak
fairness of `Next`). In `JoinServer` the io thread runs the handlers that are
ready and clients read what comes (weak fairness of `Step`; every run is finite, so
each step that stays possible is taken), but no connection has to break and
nobody has to stop the server. `TailIsDisplayed` takes it as a hypothesis that
clients end, not as fairness.

## 5. Where code and documentation disagree

Each of these runs finds a behaviour of the code that a document excludes;
`PROJECT.json` quotes it.

* `async_disconnect_hangs`: `stop_threads` sets its flag and notifies without
  `queue_mutex`; a worker between its test and its sleep misses both and `join`
  never returns. Blocks are written all the same (`async_one_caller`). HW_10's
  `stop_threads` has the same gap, and there it stops the only thread that serves
  connections.
* `bayan_singles`: a file that agrees with a peer in one block and with none in a
  later one stays in the list if another pair does, and is printed as a group.
  For the same reason blocks are read in vain: of the files 111, 121, 211 and 221 no two
  agree after two blocks of size 1, and the third block of each is read, where
  `HW_8/README.md:53` says "the remaining data is not read" and lines 58 and 70 that blocks
  are read "only when necessary" and the data read is minimal.
  `BlocksReadWhenNeeded` is checked and proved for the first two blocks, and for all
  blocks where three files or fewer have one size: it takes four for two pairs.
* `join_replies`: a row that waits for room in the socket is sent from a string
  that is gone, and the rest of a message sent in part comes after those queued
  behind it.

These came up as well and have no run; the modules behave as the code does, and the
properties leave the case out:

* HW_9 never sets `should_terminate` back, so the threads of a second life of the
  library may leave before its blocks come (`EveryBlockWritten` fails with
  `MaxConnects = 2`), although several calls of `connect` are allowed. HW_10 sets
  it back.
* In HW_9 a `connect` beside the last `disconnect` assigns to a thread that is not
  joined yet and the program ends (`terminated`). And `disconnect` looks whether contexts
  are left after it has released `contexts_mutex` (async.cpp:388): one that connects then
  loses its threads, and its last blocks are not written. `DisconnectFlushes` is
  therefore about orderly callers.
* In HW_10 a connection that breaks is never disconnected, so the last static
  block of the others is not flushed before the server stops. `TailIsDisplayed` is
  therefore checked for connections that end by end of file. And an
  unmatched closing brace lowers the level to -1, after which the next pair of
  braces makes no dynamic block.
* `size()` of the queue reads the container without the mutex. The comment "lower
  priority = higher element" (`queue.hpp:67`) says the opposite of `operator<` and
  of the test, which take the highest priority first, as `Front` does.
* HW_7 names the file of a dynamic block after the second of its opening brace, where
  `HW_7/README.md:54` has "the time the first command from the block was received".
  `BlocksAreRight` requires the documented second of static blocks and of dynamic
  blocks opened in the second of their first command (`NameIsSettled`), and nothing of
  the name of the others. Also, two blocks of one second share a file (README: "One file per
  block"). A failed write keeps the count of static commands, so that the block
  is flushed at a multiple of the limit, and a dynamic block that follows it is
  named after the static one.
* HW_8 never ends on an excluded directory below a scanned one (`RunEnds` leaves it out), leaves out siblings
  whose path starts like that of an excluded one, does not apply exclusions to
  relative paths other than those spelt alike, and calls a file reached twice a
  duplicate of itself.
* HW_11 takes a malformed `INSERT` for id 0 without a name and answers OK, where
  `HW_11/README.md:62` requires "the ERR message\n in case of an error during decoding".
  What the tables hold from then on is nothing a document says, so
  `RepliesFollowHistory` is about the time before (`AllDecode`). It also says "ERR duplicate" for a table it does not know.

## 6. Proofs

Each theorem holds for every value of the constants that satisfies the named
assumptions of its module, and these only say what the constants are: finitely
many threads and files, natural capacities and block sizes, scripts that are
sequences of texts, paths that start with the path of their directory, digests for
all bytes that a file may hold. Nothing bounds the number of callers, connections, lines or blocks:
where a guard of the model bounds something for TLC (`MaxInput`, `MaxConnects`,
`UnlimitedCap`) the bound is a constant of any size.

### The queue (`PCQueueProofs`)

* `TypeCorrect`, `NeverOverfull`, `CloseWakesEverybody`, `FlagsAreRight`. The type
  invariant says more than types: a thread is in a call exactly while it waits,
  only a wait with a timeout expires, and pushes wait only on a bounded queue.
  With it each of the others is inductive, and their steps are proved action by
  action from one lemma on what a notification does to `pc`. `ClosedForGood` is the
  action property `NothingAddedAfterClose`.
* `NoPopLosesItsWakeup` and `NoPushLosesItsWakeup`. Here the argument counts: an
  element more means a sleeper fewer and a woken thread more, or that nobody
  sleeps; a woken thread that resumes takes an element with it or goes back to
  sleep beside an empty queue. The lemmas on the cardinality of `Woken` after a
  notification and after a return carry it. The push side needs
  `CapacityRespected`, or free places would be negative.
* `ImplementsBuffer`: every step of `PCQueue` is a step of `BoundedBuffer` or
  leaves its variables alone. Going to sleep is the abstract `Suspend`, a failed
  resume `Refuse`, and notifications, expiries and reads are stutters. It needs
  `FlagsMatchWaiters`: the concrete code throws if a flag is up, the abstract
  buffer if another call of the kind is pending.

### The output threads (`OutputWorkersProofs`)

Theorems of `WorkersSpec`, which lets the surrounding program push, notify, start
and join at any time. A program that implements `WorkersSpec` inherits them.

* `ConsoleInOrder`: what is logged, what the log thread holds and what is queued
  make up 1, 2, ..., n, in this order, for n blocks pushed.
* `BlocksReachOneFile`: a block is in exactly one of four places: queued, in a file
  thread's hand, in a file, or given up because the file did not open. The
  invariant says so block by block; the sum in `OneFilePerBlock` follows.
* `NamesAreUnique`: the numbers in the names given are below `file_counter`.
* `NoWakeupLost`: a worker asleep beside a block in its queue is one that a
  pending `notify_all` will wake. A worker that holds the mutex before it sleeps
  must have found its queue empty, or it would not be inductive.

### The bulk library (`AsyncLibraryProofs`)

* `LibraryUsesWorkers`: every step of the library is a step of `WorkersSpec` or
  leaves the workers alone. `LibraryOutput` is what it inherits.
* `LibraryTypeCorrect`.
* `ContextsAreApart`: the invariant ties the manager of each context to the lines of
  that context alone: its level is the depth of the lines, its blocks and those
  pushed divide the commands so far, in order. That `add_task` keeps this is one
  lemma per case of a line; that others do not disturb it is the frame.
* `BracesDivideBlocks` follows from the same invariant.
* `LastDisconnectFlushes`: for orderly callers the stages of the last `disconnect`
  (nobody connects any more; the threads still to be joined are those that run; one
  that has been joined left an empty queue behind) end with nothing in a queue or
  a hand.

### The bulk server (`BulkServerProofs`)

* `ServerUsesWorkers` and, from it, `ServerOutput`.
* `NothingLeftBehind`: what is left to do of a handler (`todo`) is a suffix of one of
  a few plans, and the invariant (`StageInv`) has a part for each: at rest, notifying,
  starting, ending a session, removing it, stopping the threads. With
  `ThreadsInv` (threads run exactly while they are initialised, or are being
  started or joined) the end of the last plan has nothing left.
* `ServerTypeCorrect`.
* `CommandsStayInOrder`, `BracesEndBlocks`: the static blocks and the one being
  formed divide the commands at level 0 or below of all connections (`Divides`), and
  no line that opens a dynamic block lies in one (`NoneOpens`). A brace flushes
  before it changes the level, so what is divided ends where the brace is.
* `DynamicBlocksAreWhole`: the counter of a connection is the level of its history and
  its dynamic block is what has come since it was outside (`NestInv`); so every
  closing brace that brings it to 0 hands over what it encloses (`WholeInv`). Two
  such braces enclose disjoint sets of commands (`ClosersApart`), so each block
  has one.

### The batch processor (`BulkParserProofs`)

* `TypeCorrect` and `CommandsAreKept`, for every input and every failure of a file.
  The inductive invariant is `OnceInv`: the types, the level is the depth of the
  braces read (`LevelIsDepth`; a closing brace too many leaves both at 0), and
  `EveryCommandOnce`. The two blocks in memory and those on the console are seen as one
  numbered family (`Part`), of which `Once` says that it divides the commands. A
  write moves a part to the end of the family (`MovePart`), a command lengthens one
  (`GrowPart`); a call is at most two writes and one command. A write that fails does
  nothing, which is why the theorem needs no hypothesis about files.
* `CountsDoAgree`, `BlocksWrittenAreRight`, `FilesAreKept`, while all files open. The
  invariant `BlocksInv` adds `MemoryOk`, about the blocks in memory: the count is the
  length of the static block, what is in memory belongs together with the last line,
  and the timestamps are those of the lines at which the blocks begin; and `BlocksOk`,
  about those on the console, each of which is full or over. The code names a dynamic block
  after the line that opened it (`Opens`), of which there is one only (`OpenedOnce`), so that
  it has the second of its first command where the two lines came together. `Later` says how the input
  after a line relates to the input before it: what was together stays together,
  what was over stays over. One lemma for each member function says what it
  returns (`WriteStatic`, `OpenOutside`, `CloseLast`, ...), and one for each case of a line
  that the result is `Good` again. That timestamps are not `Epoch` (`Ticks`) is needed
  because the code takes a zero time for "no timestamp yet".

### The join server (`JoinServerProofs`)

* `TypeCorrect` and `NoReplyLost` have one inductive invariant, `Inv`. What it says of
  a client is `ClientOK`: the parts received, on the wire and waiting (`Pending`) are
  as many as its replies have, and while no write had to wait those received and on
  the wire are the replies. One lemma says what a single write does in each of
  its three cases, waiting, fitting or cut (`StartWriteOK`); `WriteAllOK` and
  `WriteAllSent` carry it over a sequence of writes by induction over their number;
  and for each handler there is a lemma that it keeps `ClientOK`, whatever happens to the
  other clients. A write sent late has as many parts as it had, so the count holds also
  where the text does not, which is all that is true of a full socket (section 5).
* `RepliesConsistent`, until a malformed `INSERT` is handled: the tables hold what the log has left in them (`Follows`): an
  id is in a table just when some `INSERT` since the last `TRUNCATE` put it there,
  and its name is that of the first one. `RepliesFollowHistory` alone says nothing of
  the tables and is not inductive. One entry more either empties the table, adds one
  insertion, or changes nothing (`InsertsNext`, `NameNext`), which is what each
  command does to the tables (`FollowsNext`). That the joins come out in
  ascending order is a lemma about `Ascending`: the ranks of n ids are the numbers below n.
  The invariant speaks of what the server makes of each line and holds of malformed ones
  too; while all lines decode, that is what the client sent (`AsSent`).

### The duplicate finder (`BayanProofs`)

* `TypeCorrect`. `TypeInv` adds to `TypeOK` what the position of the program says: that
  options are looked at before a file is listed makes `block_size` positive where a
  size is divided by it, and while blocks are read every file of the group has one
  more. It also bounds which part of the state each phase may have written. The other
  invariants are proved beside it.
* `FilesListedAsAsked`. That only files asked for are listed follows from where the
  iterator is (`Scanning`): what it has before it lies below the directory being
  scanned. That all of them are is the harder half: a file wanted is listed, before the
  iterator, or below an entry that is (`Coming`). When the iterator passes a
  directory on the way to the file, one of its entries is on the way too
  (`EntryOnTheWay`, from `Above` being the least set closed under `Home`). Exclusion is
  tested only of a file's own directory. It suffices, as its path starts
  with all those above (`StartsWithAbove`).
* `NoBlockReadInVain`: while blocks are read each file of the group has a peer there with
  the same hash of the block before (`Peers`). A file survives a round because of
  another one that survives for the same reason. If no more than three files have its size,
  all that are compared have had the same hashes in every round (`Alike`): two
  survivors of different hashes would each need a peer of their own, four files in all
  (`DifferentAreFour`).
* `GroupsExact`. The invariant `Settled` follows the files of one content (`Class`) from
  the sizes to be compared through the group being compared to the groups found;
  `Together` says that a file with a peer is never compared without it, although a
  round mixes files of different hashes. A report separates them by the
  text of all their hashes: texts of equal lengths that are equal strung together are
  equal one by one (`FlattenInjective`), and equal blocks make equal contents
  because each position lies in one of the blocks (`BlockOfPosition`). Without
  `Faithful` only the first half holds, and crc32 in decimal is not faithful
  (section 2).

### Induction

The library's induction theorems take an operator, which the installed provers cannot
instantiate. `BracesProofs` derives what is needed from `LeastNat`, that a
nonempty set of numbers has a least element: `Depth`, a recursive function, has the
value its equation gives, and it depends on the lines before only.

### Only model-checked

* Liveness (`CloseReleasesWaiters`, `TimedCallsReturn`, `NobodySleepsForNothing`,
  `EveryBlockWritten`, `TailIsDisplayed`, `RunEnds`, `EveryLineAnswered`): fairness
  needs ENABLED, which is out of the prover's reach. It is all that the passing runs
  check and no theorem states.
* The three properties that the code does not have (section 5): TLC's counterexamples
  refute them, and there is nothing to prove.

## 7. Not modelled

* `StreamCapture` and `SocketWrapper` (`common`) are helpers of tests, printing
  helpers have no state, `main` functions parse arguments and make calls that the
  modules cover.
* HW_2, HW_3, HW_5 and HW_6 are sequential and their tests reach what they do;
  HW_3's subject, addresses and lifetimes, is what a TLA+ model would leave out.
* HW_4 is decided at compile time; HW_12 and HW_13 are floating-point arithmetic
  over given data; HW_1 prints a constant.
* Within the modelled programs: the text of commands beyond braces and the words
  of HW_11's protocol, wording of output, a torn read of a container's size other
  than the queue's, a file system that changes during a run of HW_8, limits on
  descriptors and memory, and what a signal handler may not do: HW_11's
  `stop()` locks a mutex inside Asio.

## 8. What is left

The model is complete as far as section 7 goes, and every safety property of the
passing runs is a theorem. What could still be added:

1. Hazards of `PROJECT.json` without a property: the note of each says why
   none covers it. Those of the cases in section 5 are in the model, which does there
   what the code does.
2. Liveness for every instance, once the prover handles ENABLED.
