# TLA+ models of concurrente21a

The repository holds the exercises of a course on concurrent programming: a
producer-consumer framework in C++ with a simulation and a web server built on
the same code base, four versions of a Goldbach-sums program in C, and a few
class activities.  This directory holds TLA+ models of that code, the TLC
configurations that check them and TLAPS proofs about them.

Source paths are written without their common prefixes: `P` is
`src/prod_cons_pattern-v1.0-210528/src`, `T` is `src/tareas`.

## 1. Inventory

| Part | State | Operations | Interacts through | Hard behaviour |
|---|---|---|---|---|
| `P/prodcons/Queue.hpp`, `Semaphore` | `std::queue`, mutex, semaphore `canConsume` | `push`, `pop` | called by producers, the dispatcher, consumers | signal after unlock, `front()`/`pop()` on an untested queue, SEM_VALUE_MAX |
| `P/prodcons` roles: `Thread`, `Producer`, `Consumer`, `Dispatcher`, `Assembler` | thread handle, queue pointers and who owns them, `toQueues` | `startThread`, `waitToFinish`, `produce`, `consumeForever`, `consume` | queues | stop condition as a message, exception inside a thread, destruction order |
| `P/simulation` | arguments, loop counters, counts | main's start/join/delete, producer, dispatcher and consumer threads | queues | ordering of stop messages, 16-bit targets, no consumers, shared random engine |
| `T/goldbach_pthread` | block bounds per thread, rows of text | create, process a row, join, print | shared arrays without locks | unsigned wrap, division by zero, failed thread creation, disjointness of blocks |
| `T/goldbach_optimization` | `can_access_shared`, `id_num`, rows, table of primes | test, dequeue + count, write a row, `es_primo` | two mutexes, one unsynchronised table | test-then-act on the queue, rows in input order, cache races, a table without room for its second entry |
| `T/goldbach_omp` | queue, rows; counters and arrays shared in a loop | read, take, `parallel for` loops, print | OpenMP | data races, loop variable changed in its body |
| `T/goldbach_serial` | arrays of numbers and of sums | read, enumerate, print | none | completeness of the enumeration, loop that jumps from 2 to 3, regrouping of a flat array |
| `T/*/queue.c` | head, tail, nodes, mutex | append, test, dequeue, free | `can_access_queue` | head/tail consistency when the queue becomes empty, freed nodes |
| `P/network` | descriptors, address lists, stream buffers | listen, accept, connect, close, read line, send | sockets | partial lines and sends, closed descriptors kept |
| `P/http`, `P/webserver` | request, response, connection | parse, handle, route, send | `Socket` | body bytes already buffered, failures half way, out-of-range numbers |
| `P/common/Log` | output stream, mutex | start, write, stop | all threads | records in several pieces; a write that fails throws |
| `src/acividades` | thread handles; a Petri net | create and join; signalling | pthreads | joining threads that were never created, a frame that its threads read |

What makes each part correct:

* queue: it is a FIFO in which a pop blocks instead of failing, hands every item
  to one consumer and never leaves an announced item behind;
* simulation: every packet reaches the consumer it is addressed to, once and in
  order; the stop message comes last; nothing is used after its deletion; the
  program ends;
* pthread and optimization tasks: every number has one row, the row of its
  position in the input; no thread leaves the arrays; main prints complete rows
  and ends; no call of the queue follows a freed node, loses one or leaks one;
* all tasks: a row is exactly the line the tests expect, with the partitions of
  its number into two or three primes; a fixed-size row is overrun only by a line
  that has no room in it;
* network, http, webserver: a request is parsed from exactly the bytes sent for
  it, a response is sent whole, a descriptor is closed once;
* activities: main outlives the threads that use its frame, and its exit status
  says whether all of them ran;
* Log: a record is one line of one thread, whatever ends at the same time.

`PROJECT.json` lists every part with what is modelled of it, and under "hazards" each
place where the code can go wrong in a way a test would hardly reach, with the
property that watches it or the reason why none does.

## 2. Modules

| Module | Models | Kind |
|---|---|---|
| `BlockingFifo` | what `Queue` promises | abstract specification |
| `SemQueue` | `Queue.hpp`, `Semaphore.cpp` | detailed; refines `BlockingFifo` |
| `SemQueueProofs` | | proofs about `SemQueue` |
| `Delivery` | what the simulation promises | abstract specification |
| `Pipeline` | `P/simulation` on `P/prodcons` | detailed; refines `Delivery` |
| `PipelineProofs` | | proofs about `Pipeline` |
| `GoldbachBlocks` | `T/goldbach_pthread` | one component |
| `GoldbachBlocksProofs` | | proofs about `GoldbachBlocks` |
| `LinkedQueue` | `queue.c` of the tasks | one component |
| `GoldbachPool` | `T/goldbach_optimization`, on `LinkedQueue` | two components together |
| `GoldbachPoolProofs` | | proofs about `LinkedQueue` and `GoldbachPool` |
| `Goldbach` | the loops' stride, the pieces of a row's text; the sums and the line of a number | operators, reference definition |
| `GoldbachSums` | what a thread does with its number: the loops of three versions, `es_primo` with and without the shared table, the text of the row | one component |
| `GoldbachSumsProofs` | | proofs about `GoldbachSums` |
| `GoldbachOmp` | `T/goldbach_omp` | one component |
| `GoldbachOmpProofs` | | proofs about `GoldbachOmp` |
| `HelloThreads` | `src/acividades/Actividad2`, both files | one component |
| `HelloThreadsProofs` | | proofs about `HelloThreads` |
| `HttpText` | requests, lines and responses as sequences of symbols | operators |
| `WebServer` | `P/webserver` on `P/http` and `P/network` | the server with its clients |
| `WebServerProofs` | | proofs about `WebServer` |
| `MCWebServer`, `MCSemQueue`, `MCPipeline`, `MCGoldbachPool`, `MCGoldbachSums`, `MCGoldbachOmp` | | values of the constants for TLC |

Operators whose comment starts with "Fault:" are not part of a specification:
they are the code with one plausible mistake, kept to see that the properties
notice it (`PROJECT.json`, "mutants").

### SemQueue

State: `queue`, `sem` and `owner` are the three members of `Queue`; `data` and
`result` are push's argument and pop's local; `pc` says which statement a thread
executes next.  Each statement of `push` (lines 45-48) and `pop` (55-60) is one
action.  `pushes` numbers the items so that each is distinct; `MaxPushes` bounds
how many a behaviour starts.  `front()` on an empty queue returns any item, as
undefined behaviour may.  `sem_post` at `SemMax` (SEM_VALUE_MAX) does nothing,
because the code ignores its EOVERFLOW; `BoundsAssumption` says that no run
pushes that many items.

A producer or consumer may be any thread, so the model covers the one-to-one use
in the simulation and the many-to-many use the template allows.

### Pipeline

`main` follows `ProducerConsumerTest::start` and its destructor: arguments, all
objects with their queues, the threads in the order producer, dispatcher,
consumers, the joins and the deletions in the same order.  A push is two steps,
`Enqueue` (lock to unlock) and `Signal`, a pop is `Wait` and `Take`; that the
locked part is one atomic FIFO step is what `SemQueue` shows.  Thread `t`
consumes from queue `t`; the dispatcher is 0 and the producer -1.  `key` is the
iterator into `toQueues`, in `Dispatcher::consume` and in the loop of
`DispatcherTest::run`.  An exception in the dispatcher is `std::terminate`:
`aborted` disables every action.  `UInt16` is the number of values of the
16-bit `target`, 4 in the instance so that four consumers wrap.  `sent`
(the packets produced, for each target) and `received` are history: the code keeps
only the length of `received`.  Sleeps are
left out.  The record that the producer and each consumer write at their end is:
`LogLock` takes the mutex of `Log` (`writer`) and begins the line, `LogUnlock` ends
it with the number and tests the stream; a stream that failed makes `write` throw
in a thread, which is `std::terminate` again.  `line` holds the threads whose
pieces are in the line so far, `log` the lines that are complete.

### GoldbachBlocks

The text of a row is the sequence of pieces written to it: the number, written
with `sprintf`, and its sums (or NA), appended with `strcat`.  Undefined
behaviour and failed assertions end the run and are recorded in `crash`: a
division by zero, a null dereference after a failed allocation, an index out of
bounds.  `failing` is the set of allocations that fail in the run;
`pthread_create` may fail at any turn.  `size_t` has `SizeT` values and its
arithmetic wraps.

### LinkedQueue and GoldbachPool

`LinkedQueue` has the memory of the list: `head`, `tail`, the two fields of each
node, and `allocated`, the nodes that `calloc` returned and `free` did not take.
A call is one step for the lock, one for each store to shared memory and one for
the unlock; `call[u]` is the step thread `u` is at, `node[u]` its local pointer.
Following a pointer that is null or not in `allocated` ends the process
(`crash = "pointer"`), so a freed node is never silently usable.  `list` is
history: the sequence of nodes that the calls should have made.  `queue_destroy`
and `queue_free` are called by no program and have no action; `main` frees the
structure that holds the queue, not its nodes.

`GoldbachPool` extends it: `main` (user -1) appends, the threads test and dequeue.
A thread's step that calls the queue starts the call (`TestEmpty`, `Dequeue`);
`InQueue` is the call going on, and the thread's next own step waits until its
call is `Idle`.  `can_access_shared` is `owner`.  A failed `calloc` in
`queue_append` loses the number (`lost`) but not its row, because the result is
ignored and the number counted.  Nothing is freed while main appends, so the
address that `calloc` returns (`NewNode`) makes no difference: the model takes one.
`QueueSpec`, the specification of the queue alone, lets any user make any call.
The primes' table has as many entries as the largest absolute value, and its
second is set even if it has none: the step may end the process (`"primo"`) or,
as with the allocator tried, do no harm.

### Goldbach, GoldbachSums and GoldbachOmp

`Goldbach` defines by quantifiers what the sums of a number are, and what its line
is (`IsRow`, with the format of the tests' output files, and `RowLength` in
characters); the definitions of the code it holds are the loops' stride and the
pieces of text that every version writes the same way.  The length of a text is the
number of places its characters have (`Places`), and the digits of a number are counted
by the powers of ten that it reaches (`Powers`, 10 to 10^18 for `int64_t`): both are
cardinalities and not recursions, so that lengths can be reasoned about.

In `GoldbachSums` a run is one version (`version`) on one input.  `sum[t]` is where
the loops of a thread are: `role` says which of its primes is being asked about, so
that `AskFirst`, `AskSecond` and their `Next` forms are the conditions and
increments of the two loops, and `golbach_par` and `golbach_impar` say where they
go on after an answer.  With the table, `es_primo` is up to three steps, one for
each access that another thread could come between: the test (`AskPrime`), the
write that ends the division (`Divide`) and the read of the returned value
(`ReturnEntry`); without, it is one (`DividePrime`).  `TakeNumber` is a thread's
next number up to its first question, `ImprimirResultado` the text of its sums,
cut from the flat array of primes in groups of two or three.  The order in which threads
take numbers, the queue and the blocks are those of `GoldbachPool` and
`GoldbachBlocks`; here any idle thread takes the next one, and the serial version
has one thread.  A row of `MaxSumas` characters overflows (`crash = "row"`) in the
two versions that use one; an index past the table is `"table"`.  `MinInt` is
INT64_MIN, whose sign cannot be removed: a compiled program prints "0 sums:" for
it, and so does the model.

`GoldbachOmp` is the whole program: `main` reads, takes the numbers one by one and
works on each with the team (`Fork`, the steps of the threads, `JoinAndPrint`).
`FirstIteration` is `schedule(static)` without a chunk: contiguous blocks, the first
ones longer by one.  The loop variable is private to each thread although the
clause of the combined construct calls it shared, and the block ends at a value,
not after a number of rounds: this is what GCC builds of the loop (the standard
gives no meaning to a body that changes the variable).  A team for the thread
count 0 is libgomp's default.  The counts of `FindsFirstBlock` are those of a
build with GCC 12: with two threads 1 sum for 10, with three threads 2 for 22 and 1
for 60.  With one thread too the output is not always the tests': when num/2 is
even, the jump from 2 to odd numbers takes the last turn one past num/2, and
the line of -8 is "-8: 2 sums: 3 + 5, 5 + 3" (expected: one sum, 3 + 5).  `Repeated` is
that second sum; `FindsFirstBlock` says that with one thread it is the only difference
from the expected sums, and `omp_tests` shows the difference.

### HelloThreads

`main` and `create_threads` in one sequence (`main`, `index`), and the threads'
`run`.  A failed creation goes on to join every index below `thread_count`: the join
of a handle that `calloc` zeroed either returns an error or ends the process
(`crashed`).  `error` is what `main` will return.

### HttpText and WebServer

The server has one thread, so its state is one connection (`client`, `file`,
`input`, the fields of `HttpRequest` it uses, `output`) plus what `TcpServer`
keeps (`listener` is `connectionRequestSocket`) and the process's descriptors
(`open`).  `pc` is the function it is in: `TryAddress` is one turn of
`openConnectionRequestSocket`, `Receive` one `recv` of `readLine`, `Body` one
`recv` of `Socket::read`, `Send` one `::send`; every one of these calls may fail.
An exception that `start` catches goes to `Exit`; one that nothing catches, and
SIGPIPE, to "terminated".  One of those is `CloseThrows`: `SharedSocket::close`
writes to the log before it forgets its descriptor, and it is called by a
destructor.

A request is a sequence of symbols (`RequestText`), each one piece of text: the
words of the request line, `\r`, `\n`, the two parts of a field, the bytes of the
body.  `wire` is what the server has not received of it, and `recv` takes any prefix, whether
the client sent it before or only now, so a segment may end between any two symbols.  A segment that ends
inside a word behaves as one that ends before or after it: the request line lacks
a word, the line of the rest has no colon, or the version is not HTTP/1.0, which
only decides who closes the connection.  `getline` on what is left of the buffer is
`Line`: up to `\n`, or all of it.  A response is four pieces.  Clients connect once,
and leave at any moment, in order, with the request cut short, or with a reset, or
never; they may never send either.

Not in the model: the size of the receive buffer (requests are shorter than its
65535 bytes), the content of a request's body (nothing reads it) and pages (one
piece).

## 3. Runs

| Run | What it asks | Bounds |
|---|---|---|
| `semqueue` | the semaphore and the mutex make a blocking FIFO without lost wake-ups | 2 producers, 3 consumers, 4 pushes |
| `pipeline` | delivery, stop order, lifetime of queues, termination of the simulation | (packages, consumers) in (0,0) (1,0) (0,2) (4,1) (3,2) (2,3) (1,4), 4 targets |
| `blocks` | blocks are disjoint and cover the input, with failures of creation and allocation | up to 5 numbers, 3 threads, `size_t` of 8 values |
| `blocks_few` | (violated) only the last thread handles the remainder | same |
| `pool` | the list stays a list; numbers and rows are taken together, each once | up to 3 numbers, 3 threads, 3 nodes |
| `pool_empty` | (violated) `queue_dequeue` is called on a non-empty queue | same |
| `sums` | every row is the expected line, while two threads use the table and without a table | ten inputs of one to three numbers up to 38 with the table, four without; rows of 71 characters, INT64_MIN = -64 |
| `omp` | who touches the shared variables, what the loops find, and that the program ends | twelve inputs of none to two numbers up to 34 on up to three threads, a default team of 2 |
| `omp_tests` | (violated) the counts are those of test 1 | 10 on two threads, -8 on one |
| `webserver` | descriptors, responses and progress of the web server | 2 clients, 4 pairs of requests, up to 2 addresses, a backlog of 1 |
| `webserver_complete` | (violated) a request is complete when it is handled | same |
| `hello` | main outlives its threads and tells whether they ran | up to 4 threads |

Why the bounds are enough for the questions: three consumers are one more than
can share two items, so a claim can be stolen; four pushes let a producer start
a second push while its first is not yet signalled by the other; packages and
consumers are taken with one more of either side, with none of either, and with
as many consumers as targets; five numbers on three threads have remainder 2,
four have 1, three have none, two and one are fewer than the threads.  The
inputs of `sums` put two threads on the same entries (13 and -13), let one go on
with the table the others filled, and contain squares, doubles and triples of
primes; a third thread adds no kind of access to an entry.  71 characters hold
the line of -21 with its final zero and not those of -27 and -33, and the largest absolute
value is that of a negative number, of a positive one, or of -64; no number or count in
`sums`, `omp` and `omp_tests` reaches 1000, so `Powers` is {10, 100}.  In `pool`
three threads can pass the test for one number, and as many nodes as numbers are
enough because nothing is appended once the threads have started to dequeue.  The numbers of `omp` give fewer iterations than threads, as many, and a
remainder, with num/2 even and odd; the empty input and those of small numbers
have a table without a second entry.  The web server
handles one connection at a time, so two clients show what one leaves to the
next; a request has at most eleven symbols, in any segments, and the requests
differ in what the parser distinguishes.

Deadlock checking is on in `omp`, `omp_tests` and `hello`, where the end of the
process is a step of its own (`Over`), so that TLC shows that nothing else stops
them.  It is off in the others: consumers of a bare queue wait for ever when
producers stop, and the programs end.  That no program waits for ever is
stated as `Termination` there.

**Fairness.** Weak fairness of each thread and of main: the operating system
schedules every runnable thread, and the code has no priorities.  It is enough
because each mutex is taken finitely often in a run.  In `SemQueue` nothing
obliges a producer to start a push, but a push that has started goes on, and
consumers call `pop` again (`consumeForever`).  In `WebServer` only the server is fair,
and only while it does not wait (`Blocked`): a `recv` returns when its client sends or
leaves, which nothing obliges it to, and there are no timeouts and no second thread.
`ConnectionsEnd` therefore has premises: a client at which the server waits does not
stay silent for ever with bytes of its request still to send (`Silent`), nor waits for ever
for its response when bytes of its body came with its header (`BodyMissed`).  Either of
them stops the server for everybody (TLC finds it when the premise is dropped); the property shows that
nothing else does, and in particular that a client that has sent its request need not
leave.  `::send` returns although the client does not read, since a response is smaller than
the system's buffer.

**What the runs found.** Four statements of the repository that the code does
not keep ("findings" in `PROJECT.json`): the last thread alone takes the
remainder (goldbach_pthread), the queue is not empty in `queue_dequeue` (goldbach_optimization), test 1 of
goldbach_omp (a sum of 10 is lost on two threads, and the sum of -8 is repeated on one,
both because the body changes the loop variable), the completeness of a request that is
handled (http).

## 4. Proofs

`SemQueueProofs` proves for all finite sets of producers and consumers and every
bound that `SemQueue` keeps `TypeOK`, `SemaphoreAccounting`, `FrontDefined` and
`RemovesWhatItRead`, and that it implements `BlockingFifo`.  The assumptions are
those of `SemQueue`: producers and consumers are finite and disjoint, and there
are no more pushes than SEM_VALUE_MAX.

None of these is inductive alone.  The inductive invariant `IInv` adds:

* `MutualExclusion`: the owner of the mutex is exactly the thread between its
  lock and its unlock (so nobody changes the head between `front` and `pop`);
* `QueueBound`: items in the queue and pushes about to add one are at most the
  pushes started (so the semaphore is below SemMax at every signal, and the
  signal is not lost);
* `InHand`: what a thread holds at the steps that use it is an item.

The accounting gives, for a pop past its wait, at least one item in the queue;
with mutual exclusion that gives that the item read is the item removed.  There
is one lemma per action; cardinalities change through `CardinalityGains` and
`CardinalityLoses`.  For the refinement, `PushItem` is the abstract push,
`PopRemove` the abstract take and `PopUnlock` the return.

The first part of `GoldbachPoolProofs` proves for any users, nodes and values that the
queue alone (`QueueSpec`) keeps `ListIsWellFormed` and `NoWildPointer`; it assumes only that
NULL is no node and that the free mutex has no user.  `ListIsWellFormed` speaks of
the moments when no call is under way, so the inductive `QueueInv` says what holds
between any two stores:

* `MutualExclusion`: the owner of the mutex is exactly the user inside a call;
* `Chained`: the nodes of the list are distinct and each points to the next;
* `Ends` and `Between`: where head, tail and the last pointer are, and how they
  differ while a call is between two stores, or has unlinked the last node and
  not yet forgotten the tail;
* `Allocated`, `NoLeak` and `Apart`: what is allocated is in the list or in the
  hand of one call, never both.

There is one lemma per action; the ones that store nothing share
`MemoryUntouched`.

Its second part, about the program, assumes that the users of the queue are the threads and main,
that its values are the numbers and that there are as many nodes as numbers
(`PoolAssumption`).  It first shows that every step of `GoldbachPool` is a step of
`QueueSpec` (a crash is `ProcessDies`), from the invariant that no more numbers are
counted than stdin has: so the list of the program is well formed, for any number of
threads, and `QueueInv` is at hand for the rest.  `PoolInv` says, on top of it:

* `CallsInPlace`, `MainInOrder`, `SharedMutex`: which call is made at which step, what
  each phase of `main` says of the threads, and that `can_access_shared` is held from
  the loop's condition to its unlock;
* `StillEmpty` and `StillNumber`: what a thread found out of the queue is still so.
  After `main` has read the input nobody appends, so an empty queue stays empty; a
  queue with a number keeps it only when no other thread was created, which is why
  the assertion of `queue_dequeue` is safe for one thread and not for two;
* `Counted`: rows given out, a number being taken, the list and the number being
  appended add up to `total_num`, unless an append failed;
* `NumbersInOrder`: place i of the list has number `id_num + i`, the number being
  taken counted: the FIFO order and the row index advance together;
* `RowsTaken` and `RowsWritten`: two threads never have one row, a row is empty until
  its thread writes it, and a row given out is complete or has a thread.

`TypeOK`, `RowsFollowInput`, `NoCrashAlone` and `PrintsCompleteRows` follow.
`NumbersAreInOnePlace` has a second invariant, `PlaceInv`: no number is in two of
queue, hand of main, hand of a thread and row (`NoNumberTwice`), and each one that
was stored is in one of them (`NoNumberDropped`).

`GoldbachBlocksProofs` assumes that the counts are below the number of values of
`size_t`.  Lemma `Blocks` is the arithmetic: for 1 to `total_num` threads, the
blocks `First(t) .. Last(t)` do not overlap, cover the rows and are computed without
wrapping, whatever the remainder.  The invariant says where a created thread is in its
block (`InBlock`), and that each row of the block is complete before that point and
empty after it (`RowsOfStarted`, `RowsOfOthers`).  The rows need no lock because
of it: `RowsAreOwned`.  The types are proved for every thread count, the
others for the use in which nothing is undefined (`WellUsed`).

`HelloThreadsProofs` has the one assumption that the bound is a number.
`CreatedInOrder` and `JoinedInOrder` say that the threads created are those below
`index`, and that the joins leave none running behind them; the handle that was never
created is the error path that `StatusTellsTheTruth` is about.

`PipelineProofs` is about the whole simulation, for every finite set of command lines
and every width of `target` (`ArgumentsAssumption`).  Its inductive invariant `IInv`
relates all the threads:

* `RolesInOrder`, `MainInOrder`: which steps each role takes, and what the phases of
  `main` say of the threads (those started are a prefix, those joined too, and nothing
  is deleted before all have been);
* `Signalled`: the length of a queue is its semaphore plus the taker past its wait
  plus the pusher before its signal (so `front` is never called on an empty queue);
* `SignalsBound`: each message the producer signals has at most one descendant at a
  time in the dispatcher and each consumer, which bounds every semaphore (its type);
* `StopInOrder`: a stop message is the last of its queue, is there only after its
  sender has left its loop, and a thread that has left has an empty queue;
* `LogInOrder`: the line in the stream is that of the holder of the mutex, and the
  complete lines are those of the threads that have ended;
* `KeysRegistered`, `SentInOrder`: targets fit in their 16 bits when the consumers do;
  the packets sent have all the numbers, ascending in each stream;
* `QueueInOrder`, `StreamInOrder`: the dispatcher's queue holds exactly the packets
  that were not handed on, ascending; `received`, the queue of the consumer and the
  hands of the dispatcher are a prefix of `sent`, followed by the stop message only.

The step that carries the order is the dispatcher's (`FrontIsNext`): the packet at the
front of its queue is the next one of its stream, because an earlier one that
was not handed on would be in the same queue with a smaller number, that is, before the
front.  There is one lemma per group of actions and conjunct.  From `IInv` follow the
six invariants and, with one lemma for each kind of step (`ProduceDelivers`,
`ConsumeDelivers`, `StepDelivers`), the refinement of `Delivery`.  `InOrderExactlyOnce` and
`AllDeliveredAtExit` are stated with quantifiers over the positions of `sent`, since a
filter of a sequence (a recursive definition) cannot be reasoned about here.

`GoldbachOmpProofs` assumes that each case is a list of numbers and a thread count.
`SharedByOne` holds because of arithmetic and not of any lock: the first block has
the 2 (`Block`), so the other threads ask about even numbers from 4 on
(`OthersAreEven`), no such number is a prime, and only the thread with the first
block goes past the first question of the body.

With nobody else inside, the counter and the array behave as if they were that
thread's own.  `FindsFirstBlock` has the invariant `FindInv`: `LoopsFind` says where
that thread is in the body and that the sums counted and listed so far are exactly
those of its block before that place (its jump from 2 to the odd numbers skips no
prime, and in the last turn may go one past num/2, which is why an even number can
have a sum twice, in both orders), and `RowsInOrder` that the rows left behind are
lines of such sums.  With one thread the first block has the expected sums and the
repeated one, and no other (`OneThreadHasAll`).  The lemmas from the list to the text of a row (`AddSum`,
`RowIs`) are stated for any set of sums; those of `GoldbachSumsProofs` are their
counterparts for the partitions.

`WebServerProofs` is for any clients, any requests they may send, any number of
addresses and any capacity of the queue (`ServerAssumption`).  `OpenFiles` says which
descriptors are open at each step, on every path out of an error; the lowest free
descriptor (`NewFileIs`) is 3 for the listener and 4 for a connection.  What the
clients are sent has a second invariant, `AnswerInv`:

* `TurnsInOrder`: a client is in one place of the queue or is served, once; before
  its turn nothing of its request was read, and the buffers start empty;
* `ParserInOrder`: for a client that waits and whose segments were whole lines, the
  buffer joined with what is still in the network is the request from the line on
  that the parser expects (`HeaderTexts`), and the buffer holds whole lines;
* `SendsInOrder`: what was sent, joined with what is still to be sent, is the
  response, however `::send` cuts it;
* `AnswersInOrder`: the statement about all the clients, of which those served before
  keep theirs.

The two lemmas that carry the parser are `RequestIs`, a request's text is its first
line and the rest, and `FirstLine`, `getline` on whole lines finds exactly the first
line of buffer and network together, so that the network's cuts do not show.  The
texts are joined by an operator of their own, `Joined`, because the provers expand a
concatenation into its elements.

`GoldbachSumsProofs` is for any numbers, any threads, any room in a row and any
INT64_MIN below -5 (`SumsAssumption`: an input is a version and a list of numbers that
is not empty; the table of `goldbach_optimization` holds 2, as the program fails before
the threads otherwise) and any powers of ten (`PowersAssumption`: a finite set of
positive numbers).  It proves `TypeOK`, `TableTellsTheTruth`, `SumsAreThePartitions` and
`CrashesOnlyWithoutRoom`.

* The number theory: an odd number with a divisor has an odd one whose square is not
  above it (`TrialDivision`), no even number above 2 is a prime (`PrimesAre`), so the
  stride of the loops, 2 and then the odd numbers, steps over no prime, and the
  partition a loop leaves out has a first or second number that is none.
* `TableInOrder`: an entry that says prime is right.  A thread writes there only the
  answer of the division, and such a write spoils no other thread's answer
  (`TableKeeps`): the race on the table loses work and never a result.  What a thread
  reads twice is still "prime" the second time.
* `ThreadsInOrder` has the invariant of the loops, `LoopsInv`: the place where they are
  is one they can be at (`InLoops`), the sums counted are exactly the partitions before
  that place (`SumsBelow` a first prime, `SumsBefore` a first and a second), and the
  array lists those, in order (`Listed`).  There is one lemma for each way the loops go
  on; a sum found is the next one (`AddSum`).
* `RowsInOrder`: a row in work has one thread and holds its number only; a row that
  was left holds the line of its number.  That needs the text: the loop over the array
  gives back the sums that were listed, grouped and separated as the definition says
  (`GroupsAre`, `RowIs`).
* `Room`, for the row's buffer: if a thread has written past a row, then the row's
  number is above 5, or below -5, and its line does not fit.  A thread that prints has
  listed all the sums of its number, once each (`Listed`), so its text is that line
  (`PrintedFits`).  `TextFits` counts the characters of the text without an induction on it: each place of a character is one of the first two pieces, of a
  comma, of what is fixed around a prime, or of a digit of a prime, and each kind has
  no more places than `RowLength` has for it.  For the digits this needs that a sum has
  one place in the list (`SumsApart`).  `MinIntFits` is the row of INT64_MIN.

`Mayor` is a CHOOSE; that an input has a largest absolute value is proved with a least
counterexample (`WFMin`), since an induction theorem cannot be instantiated.

Proving corrected the model in four places: `TypeOK` of `GoldbachSums` forgot that the
loops of INT64_MIN start at 2 even when no number of the input reaches 2; the set of pairs of thread and queue behind
`NoUseAfterDelete` attributed the producer's signal to the iterator of the dispatcher,
`NoCrashAlone` was stated for one thread only, without the bad pointers and rows
that no number of threads can reach, and `CrashesOnlyWithoutRoom` did not say that the
number is one whose sums are looked for (its length of a text was a recursion, now a count of places).

**Only model-checked.**  `EveryItemIsTaken`, `ConnectionsEnd` and the `Termination`
properties: liveness under fairness is out of the prover's reach.  Every invariant and
every refinement of a passing run is proved.

## 5. Not modelled

Wording and layout of output other than the rows of the Goldbach tasks, HTML,
random numbers' distribution, delays.  `Assembler`, `TcpClient`, `queue_destroy`,
`queue_free`, `Log::start`, `Log::stop` and the extraction operators of `Socket`
are used by no program of the repository; the signaling activity is ten lines of
pseudo-code and a Petri net that no build compiles, and Actividad 1 is a stub.
Some failures are left out: the exception of
`std::thread` when no thread can be created, allocations of the sums' arrays in
goldbach_pthread and goldbach_optimization, and in `GoldbachBlocks` the join of an
index whose thread was never created (the count is lowered first).  INT64_MIN is in `GoldbachSums` and
not in `GoldbachOmp`.
The race inside the C++ random engine, the missing final zero of `HttpRequest`'s
buffer and the silent client that keeps the others waiting, are hazards without a property, for
the reasons given in `PROJECT.json`.
