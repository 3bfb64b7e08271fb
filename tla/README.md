# Verification of fast_io

TLA+ models of the parts of fast_io whose correctness is a matter of state:
buffers in front of handles that take or give only part of what is asked,
retry loops, locks and offsets, adapters that convert in pieces, processes and
the names and descriptors they share, and containers with blocks or nodes. The
modules are checked by TLC on small instances; theorems about all of them but
the ordered set are checked by TLAPS for every value of the constants.

fast_io is a header-only C++20 library (`src/include`). Most of its lines are
overload selection at compile time, tables, and conversion of values to text;
what runs underneath, for every program that uses it, is the input and output
engine this project is about.

## 1. The system

### Components, their state and their operations

Paths are under `src/include/`; `operations` is
`fast_io_core_impl/operations`.

| component | code | state | operations | what makes it correct | here |
|---|---|---|---|---|---|
| output half of `basic_io_buffer` | `fast_io_freestanding_impl/io_buffer/{output,destroy,io_buffer}.h` | `buffer_begin/curr/end`, the handle | write_some, write_all, char_put, flush, minimum-size prepare, close, reopen, destructor | nothing accepted is lost, repeated, overtaken or sent to another handle; the put area is never overrun | `OBuffer`, `ByteSink` |
| input half of `basic_io_buffer` | `io_buffer/input.h` | the same for the get area | read_some, read_all, scatter reads, underflow, reopen | every byte once and in order; a short read is no end of data; a character is never split | `IBuffer` |
| tied streams (`basic_iobuf`) | `io_buffer/mode.h`, `input.h:137-220` | both halves | a refill flushes first | peers that talk through buffers do not wait for each other | `TiedIO` |
| write and read operations | `operations/writeimpl`, `operations/readimpl` | loop variables | (scatter_)(p)write_all, (scatter_)(p)read_all | an "all" returns only when all is done, once, in order, at its place, or says truly that the data has ended | `ScatterWrite`, `ScatterRead`, `Descriptors` |
| positions | `operations/common.h`, `operations/seek.h`, `writeimpl/scatterpbytes.h` | a saturating offset, the position of a handle | fposoffadd, fposoffmul, positional write by seeking | no wrap-around; position restored | `Positions`, `SeekFallback` |
| transmit | `operations/transmitimpl` | staging buffer, two locks | copy n, copy some, copy until the end | what is read is written, once, and the result says how much | `Transmit` |
| lockable streams | `fast_io_core_impl/io_lockable.h`, `operations/lockguard.h` | a mutex beside the handle | lock around one operation | one operation is one piece; always unlocked | the guard in `ScatterWrite`, `ScatterRead`, `SeekFallback`, `Transmit` |
| printing | `operations/printimpl/print_freestanding.h` | put area, capture buffer, list of descriptors | print, println of five kinds of arguments | text in order, enough room for each argument, one write where promised | `Printing` |
| transcoding | `operations/transcodeimpl/{output,input}.h` | public area, remainder, scratch storage, engine state | read, write, flush, finish, cancel | every byte in one place, true ends, no reader kept waiting | `Transcode`, `TranscodeOutput`, `TranscodeInput` |
| end-of-line conversion | `operations/transcodeimpl/eol.h` | `pending_character` | encode, decode, finish | independent of where windows end | `EolPipe` |
| scanning | `operations/scan_freestanding.h`, `scanners/line_scanner.h` | scanner state across chunks | scan, refill, rewind at the end | independent of where chunks end | refill loop in `IBuffer` |
| hash contexts | `fast_io_crypto/hash/md5_sha_hash_context.h` | block, offset, counter | update, do_final, reset | the digest of the padded message, however it is cut | `HashContext` |
| named pipes | `fast_io_hosted/process/ipc/posix` | path, lock file, socket, count of references | create, copy, accept, disconnect, close, unlink | one living holder of a name; a dead one keeps nobody out | `NamedPipe` |
| processes | `fast_io_hosted/process/process/posix.h` | child numbers, error pipe, descriptor table | start by fork or vfork, wait, detach, move, destroy | errors of a child are heard; a child is owned once; descriptors come back | `Spawn`, `VforkSpawn` |
| deque | `fast_io_dsal/impl/deque.h` | blocks on a controller, two ends | push, pop, insert, erase, reserve, resize, assign, copy, ... | a sequence, inside its blocks | `Deque` |
| ordered string set | `fast_io_dsal/impl/str_btree_set.h` | nodes of a B tree | insert, erase, find, iterate | a set, in order, balanced, linked both ways | `BTreeSet` |
| other containers, decorated streams, dynamic output buffer, numbers, time, Unicode, ciphers, other platforms, drivers, legacy bridges | the rest | | | | not modelled, see section 6 |

### How they interact

A program calls a public operation on a stream. The operation takes the
stream's lock, if it has one (`stream_ref_decay_lock_guard`), and works on the
unlocked reference. A buffered stream offers its put or get area: what fits is
copied there. What does not goes through the overflow or underflow
customisation of the buffer, which makes one gathered call on its handle,
through the same generic operations, this time without a buffer. These run the
retry loops over the partial results of the system calls, or, where the handle
has no positional call, seek and seek back. print, transmit and the
transcoding adapters are written on top of the same operations. An exception
leaves all layers; each must then be in a state from which the next call can
go on. With `buffer_mode::tie`, and in a duplex transcoder, the input side
flushes the output side before it blocks. All calls are synchronous;
concurrency is several threads on one stream, file, descriptor table or
process handle, and several programs on one socket or one name.

### What is hard

1. *Partial success.* Every system call may do part of its work and then
   report it, or fail. It is rare on files, usual on sockets and pipes, and
   hardly reached by tests.
2. *Exceptions between two steps*: a failed flush, a failed reopen, an engine
   that throws in the middle of a block, a seek that cannot be undone.
3. *Borders*: exact fits, empty descriptors, windows that end in the middle
   of a character or between CR and LF, the ends of blocks and nodes, limits on
   descriptors.
4. *Interleavings*: threads between two system calls of one logical
   operation, forks between two steps of another thread's fork, servers that
   take over a name while another gives it up or dies.
5. *Waiting for each other*: tied buffers, copies in opposite directions, an
   error pipe that a stranger's child keeps open.

`PROJECT.json` lists the hazards line by line.

## 2. The modules

Each variable and action names the code it stands for; `PROJECT.json` ("map")
gives the lines. One system call is one step, with all the outcomes it can
have; what a thread does between two calls, and nobody else can see, belongs
to the step before or after.

### Buffered streams

**`ByteSink`** is the abstract promise of a buffered output stream: what the
target received is never taken back, what was queued stays in order in front
of what comes next, a failed call may have sent a prefix of the queue and
keeps the queue, a stream that changes its target has delivered everything to
the old one, and only the destructor may give up.

**`OBuffer`** is the output half. `pend` is `[buffer_begin, buffer_curr)`,
`alloc` says whether the put area exists, `dev` is what the handle received.
The characters are numbered in the order the program hands them over. The
actions are the public operations: `WriteAll`, `WriteSome`, `CharPut`,
`Flush`, `PrepareMinimum`, `Close`, `Reopen`, `Destroy`; inside each, one
disjunct per path of the code. `ShortGather` says whether the handle may stop
inside the buffered part of a gathered `write_some`, as a pipe or socket may.

**`IBuffer`** is the input half. `chunk` and `curr` are the get area, `rd` the
bytes taken off the handle, `avail` those that have arrived so far: the data
may end and go on later. `read_some` is one step. `read_all`,
`scatter_read_all` and `scatter_read_some` begin with what the get area covers
(`Start`) and then take one step per round of their loops (`Round`). A context
scanner runs over the chunks with one step per chunk, per refill and at the end
of the data, where it may give back a part of its token. `width` is the size
of a character in bytes, and `InSize` the number of them that the get area's
bytes make room for.

**`TiedIO`** puts two programs with tied `basic_iobuf`s on the ends of a
socket of limited capacity. Only numbers of characters are kept. `Write` and
`Read` are the calls, `Push` one round of a write or flush, `Receive` one
round of a read; a peer blocked in either has no step.

### Operations on handles

**`Descriptors`** is what lists of descriptors have in common: a list is given
by its edges, so that empty descriptors are equal edges; `Position` is
`scatter_size_to_status`.

**`ScatterCalls`** declares the calls threads make with them.

**`ScatterWrite`** and **`ScatterRead`** are the loops of
`scatter_[p]write_all_bytes` and `scatter_[p]read_all_bytes` with the inner
`write_all` or `read_all` of a descriptor the kernel stopped in, run by several
threads that share one file. Two variables that never change choose the
operation: `positional` and `locked` for writes, `byOffset` and `mutexed` for
reads; `Ways` says which combinations there are. The bytes of the file that is
read are numbered, so each place of a destination tells where its content
comes from.

**`Positions`** is the saturating arithmetic on `intfpos_t` and the scan over
descriptors that advances an offset, with widths of a few bits as constants.
**`SeekFallback`** is a positional write of a handle that can only seek: ask,
seek, write in pieces, seek back, with other threads' plain writes in between
unless there is a mutex.

**`Transmit`** has threads that copy from stream to stream through a bounded
staging buffer, holding first the output's and then the input's mutex.

**`Printing`** follows print and println through a list of arguments: leading
runs are put together in the put area, in a capture buffer or as one gathered
write, others are drained window by window. The characters of the text are
numbered, and a list of arguments is given, as lists of descriptors are, by
edges: of the text and of the storage each argument may use. `medium`, which
never changes, says whether the stream has a put area and of what size.
Writes do not fail here.

### Conversions

**`TranscodeOutput`** and **`TranscodeInput`** are the two adapters over *any*
engine that keeps to the protocol: what it takes it may keep for a while, up
to `Hold` bytes, and it throws when it likes. It translates nothing, so order,
loss and ends can be seen. Every loop of the adapters is a chain of steps
(`stage`), one per engine call or call on the stream below. `Transcode` has
what both share: the constants, characters numbered byte by byte and cut to
whole units. `exact`, a variable that never changes, says whether the source
gives whole characters.

**`EolPipe`** is the CR LF encoder and decoder, put in sequence, in windows of
any size. `loop` is the call of `process()` that is under way: what is left of
its window and of its destination, and whether it has moved anything. Each round
of its loop is a step, with an action for each way through it (`EncodeFirst`:
only the CR of a CR LF fits; `DecodeLast`: a CR at the end of the window), so
calls of any length are chains of small steps. What it is compared with are
definitions of a whole text at once, by places and not by recursion: a unit of a
text goes to its index plus the number of LFs up to it (`At`), and of a stream
all units stay but the CRs before LFs (`Stays`).

**`HashContext`** is the block buffer of the md5/sha family. The compression
function is replaced by the record of its input, so that any stale or missing
byte shows.

### Processes

**`NamedPipe`** has several processes with several handles at one name. Every
call that opens the lock file gets a serial number, which stands for its lock,
its socket and its lifetime object. System calls fail, and a process may die
between any two of them (`Crash`): the kernel then drops its lock and sockets,
and the path stays.

**`Spawn`** starts children by fork with the error pipe, and follows their
numbers through wait, detach, move and destruction; `took` remembers that a
wait on an empty handle has taken somebody's child. **`VforkSpawn`** exchanges
descriptors 0, 1 and 2 in the parent's own table around a vfork, while other
threads go on.

### Containers

**`Deque`** keeps `seq`, what a sequence would hold after the same calls, next
to the blocks and the controller `d`. `type`, one of `Types`, never changes: it
says what the queue is instantiated with (elements of a block, bytes of an
element, slots its allocator gives beyond the request, whether elements are
relocated and whether their constructors throw) and which operations are called
with how many elements. **`BTreeSet`** keeps `set` next to the
nodes, each with its parent and its place there.

### Proofs and TLC modules

Eight modules `..._proofs` hold the theorems. Seven modules `MC...` put the
components into families, one run for each; they extend the components whose
theorems are listed, so that a run checks the very definitions that are proved
about, and instantiate the others and the variants with other constants
(`MCProcesses` and `MCConversions` extend all of their three, `MCWrites` all of
its four, `MCContainers` the deque; this is why those components name their parts
`HashInit`, `CopyNext`, `ReadSpec`, `InNext`, `dequeVars` and so on). A variable
that never changes
(`about`, in `MCContainers` `used`) says which component, with which constants,
a behaviour is about, and all others stay as they begin: the states of a family
are the sum of the states of its parts, not their product.

| family | parts |
|---|---|
| `MCBuffers` | put area; put area over a handle that stops a gathered write anywhere; get area with one-byte and with two-byte characters |
| `MCStreams` | two tied peers; three copies that share streams without a circle, and three with a circle, of the same six threads |
| `MCWrites` | positional writes by seeking; scatter writes and scatter reads, each with a mutex, without, and with offsets; print and println to a bare handle, to a put area, and to one that says how small a write always fits |
| `MCCounters` | positions; hash contexts |
| `MCConversions` | output adapter over an engine of characters and over one of bytes; input adapter over a source of whole characters and over one that cuts anywhere and fails; the CR LF engines |
| `MCProcesses` | named pipe; fork; fork with waits on empty handles; vfork alone with every redirection; two overlapping vforks |
| `MCContainers` | one deque of three types: elements that relocate, elements whose constructors throw, elements moved one by one; set of nine keys on two levels, of seventeen on three |

## 3. What is checked

| run | shows |
|---|---|
| `buffers` | the areas are not overrun and nothing strays into the next handle even with short gathered writes (`AreasHold`); no accepted character is lost but by a destructor whose flush failed (`NoLoss`, `SealedNoLoss`); once and in order until the handle fails (`InOrder`), after that perhaps again but never overtaken (`ResendInOrder`); handles are kept apart (`NoStray`); the stream implements `ByteSink` (`SinkSpec`). Input comes once and in order and its end is true (`InputInOrder`); a rewind stays in its token (`RewindWithinToken`); calls come back (`CallsReturn`) |
| `streams` | no character is lost between tied peers (`Conserved`), none waits while a needed one lies in a put area (`NobodyHoldsBack`); copies write what they read, once, in one piece under a mutex, with true results (`CopiesDeliver`); they wait for each other for ever only in a circle (`StuckOnlyInCircle`); every request is answered and every copy outside a circle ends (`AllGetOn`) |
| `writes` | behind a mutex a positional write by seeking leaves the stream's position (`StreamKept`) and its bytes are at their offset (`Placed`); scatter writes are complete, in order, whole, at their offset (`ScattersInOrder`); scatter reads fill in order with what nobody else got and end only at the end (`ReadsInOrder`); what is printed is in order, in enough room, and one write where promised (`PrintsInOrder`); calls come back and free the mutex (`CallsReturn`) |
| `counters` | arithmetic of positions is the sum or the end of the type (`PositionsAreTrue`), the running offset is what was moved (`Tracks`) and never goes back (`NeverBack`); blocks plus buffer are the message and the digest is that of the padded message (`DigestOfMessage`) |
| `conversions` | every byte is in one place and in order on both sides (`OutputInOrder`, `InputInOrder`), flush leaves nothing behind (`FlushShows`), a duplex adapter flushes before it waits and reads whole characters (`ReadsInTurn`), the CR LF engines do in windows what they do at once (`EndsOfLines`), and calls end (`ConversionsEnd`) |
| `processes` | a name leads to its one living holder, through crashes, failures and shared handles (`NamesAreKept`); constructed handles have a running child and thrown ones none, a number in a handle is that of a child nobody waited for (`ChildrenAreKnown`); constructors end (`ConstructorEnds`); descriptors are what was asked for in the child and what they were in the parent (`DescriptorsAreKept`) |
| `containers` | a deque holds what a sequence would (`DequeHolds`), within its blocks, with its ends where `back()` and `empty()` look (`DequeIsSound`), and allocates nothing below a reserve (`DequeKeepsPromise`); a set iterates its keys in order both ways (`SetHolds`) and is balanced and linked (`SetIsSound`) |
| five violation runs | the findings below |

For each property of a passing run `PROJECT.json` names a mutant: a plausible
bug in one definition, written next to the definition in the module, under
which TLC finds the property violated.

### Findings

1. `buffered_output_loses`, `io_buffer/output.h:47-49` and `:71-72`. When a
   gathered `write_some` stops after k characters of the put area, the code
   keeps the *last k* characters instead of those behind the first k.
   Reproduced with the headers and a handle that stops early.
2. `buffered_input_splits`, `io_buffer/input.h:96` and `:101`. When a read of
   wide characters ends inside one, the odd byte is forgotten; all later
   characters are assembled from the wrong halves. `readimpl/basis.h:263`
   states, and implements for the unbuffered path, that the character must be
   completed. Reproduced with `char16_t` over a pipe.
3. `transcode_input_end`, `transcodeimpl/input.h:659`. A refill that already
   holds assembled characters reads on; if the source ends there, the adapter
   is `finished`, and `read_some` (`:756`) then says the stream has ended while
   characters are still in the get area.
4. `deque_prepend`, `deque.h:1708`. When a range of several blocks is
   prepended and the back has more free blocks than needed, the deque borrows
   as many as were asked for and takes blocks that hold elements.
5. `btree_underflow`, `str_btree_set.h:783`. Erasing a key above the leaves of
   a tree of three levels repairs from that leaf's *parent* on; the leaf keeps
   too few keys, and after the next erase iteration meets a key that is gone.

`DeepErase` and `Touched` keep finding 5, and `Tame` (at the front fewer
elements at once than a block has) finding 4, out of the passing runs; `ShortGather`, `Exact` and `Width`
do the same for the first three.

Met while modelling, and excluded by a constant or a guard instead of being a
run of their own, because no line of the repository promises the contrary:

* `posix.h:727`: a child that dies before its exec without reporting is taken
  for started (`BuiltHasRun` therefore says "or was killed on the way").
* `posix.h:1007`: `wait` on an empty handle waits for any child
  (`WaitsOnEmpty`); it may take the child of another handle.
* `input.h:659`/`:599`: a typed read of a byte engine blocks until its range is
  full, and characters already assembled wait with it (`PromptFirst` is
  claimed of `Exact` adapters only).
* `str_btree_set.h:618`: with order 2 a node may have no keys (`Order` is 4).
* `deque.h:2670`, `:2344`: a constructor that throws on a new block leaves the
  end at the block's border, where `back()` does not look for it; a copy that
  throws leaves raw elements. `Tame` leaves the former out, and `Copied` is a
  copy that succeeds.
* `deque.h:1560`: erasing the only element, of a type that is not relocated,
  may leave both ends behind its block. Every call goes on from there but
  `reserve_back`, which moves the front to the next block and not the back:
  `empty()` then says false of a queue of size 0, and the destructor destroys
  what is not there. Reproduced with the headers; found when the invariant of
  the proof had to hold of that queue. `Tame` lets such a type erase or
  reserve, not both.
* `deque.h:1787`: `reserve_front` counts bytes; `unit` shows it, and no promise
  is claimed.
* A standard descriptor that is itself the source of a redirection keeps its
  close-on-exec flag while a vfork is under way, and two vforks at once see
  each other's exchange: `Overlap` claims only that no descriptor is lost.
* `scatterpbytes.h:240`: an exception between the two seeks leaves the
  position moved (`StreamKept` excludes just that).
* `scatter_read_some` over a get area loses its count when a later
  descriptor's read throws.

### Bounds, and why they are enough

* `OBuffer`: put area of 3, requests of 1 to 4, 6 characters, 2 failures, one
  reopening: a request can be shorter than, equal to and longer than the room
  left and the whole area. The proofs remove the bounds.
* `IBuffer`: get area of 2 bytes (2 narrow characters or 1 wide one),
  requests and descriptors up to 3, 8 bytes: a request can end before, at and behind the get area,
  need three reads, and be met by the end of the data at any byte.
* `ScatterWrite`, `ScatterRead`: two threads, lists of one to four descriptors
  with empty ones in front, between and at the end, two descriptors per call,
  one failure, files of 0 to 6 bytes: every position of a stop occurs.
* `SeekFallback`: two threads, two offsets, lengths 1 and 2, four plain bytes.
* `TiedIO`: messages that fill one, or overflow a, put area, a socket smaller
  than a put area, two requests under way, four in all. `Transmit`: three
  threads with a circle and three without, blocks of 2, counts that are no multiple of it, a greatest position
  of 2 so that the sum saturates, one failure.
* `Printing`: all lists of up to three of ten arguments and of four of five,
  lengths around the window, the hint, the capture buffer and the put area.
* `Positions`: positions of 4 bits, lengths up to beyond both types.
  `HashContext`: blocks of 4 with a length of 2, messages up to three blocks
  and a half, a counter that wraps.
* `TranscodeOutput`, `TranscodeInput`: two-byte characters, areas of two to
  three bytes or characters, engines that hold one to four bytes, 8 or 9 bytes
  in all: every area fills and empties more than once. `EolPipe`: all texts of
  up to 5 and streams of up to 6 letters of CR, LF and another, windows 0 to 3.
* `NamedPipe`: two processes with two handles each, four serial numbers, two
  failures and two crashes. `Spawn`: two threads, two numbers, so that one is
  used again; one failure, one death. `VforkSpawn`: every redirection of three
  descriptors with as many free numbers as needed, and two threads at once.
* `Deque`: blocks of 2 (every border) and 4, controllers with no and one slot of
  slack, up to 6 elements (`most`), which is three blocks. `BTreeSet`: order 4, all
  orders of up to 14 calls on nine keys, and eleven on seventeen.

### Fairness

Threads that can go on are scheduled; nothing is owed to a failure, to the
arrival of data or to a new call.

* `IBuffer`, `ScatterWrite` and `ScatterRead` (with a mutex, without, and with
  offsets), `Transmit`, `TiedIO`: each thread
  takes its next step when it can, and system calls make progress; the code
  relies on this itself (a handle that takes nothing without an error keeps
  `readimpl`'s and `writeimpl/basis.h:506`'s loops spinning). A blocked call
  has no step. A thread that waits for a mutex gets it if it stays free.
* `Printing`, `EolPipe`, `TranscodeOutput`, `TranscodeInput`: the one thread
  goes on; the adapters repeat a call until its phase is complete, and the
  source answers. Engines make progress as their protocol demands.
* `Spawn`: threads run on, and a child reaches its exec or its exit; the
  programs it starts need never end, which is the point of `ConstructorEnds`.

`CHECK_DEADLOCK FALSE` is set where a system comes to rest: all calls made, all
bytes moved.

## 4. What is proved

By TLAPS, for all values of the constants that satisfy the named assumptions.

**`Buffers_proofs`** about `OBuffer`: `TypeCorrect`; `HandlesKeptApart` (`NoStray`);
`NothingLost` (`NoLoss`), `SealedIsComplete` (`SealedNoLoss`) and
`DeliveredInOrder` (`InOrder`) under `~ShortGather`. One inductive invariant,
`IInv` (theorem `Invariance`): `TypeOK` and `NoStray`, which needs
`base <= next`; `lost => hstate = "dead"`, without which a stream that had lost
characters could be closed and seal an incomplete handle; and, under
`~ShortGather`, the three properties together, because what `Close` seals is
complete only by `NoLoss`. All writing steps go through two lemmas,
`AcceptPreserves` and `RejectPreserves`. `~ShortGather` enters in one step,
`WrotePartOfBuffer`: it is finding 1, and without it the theorems are false.

`ResentInOrder` (`ResendInOrder`) needs no such hypothesis: finding 1 loses
characters but overtakes none. What has been received consists of *records*,
each greater than all before it, and repetitions (`Records`); the put area
increases and its first new character follows the greatest received
(`Increasing`, `Follows`); the three together are `Orderly`, and every way the
code sends pieces of the put area and of a request keeps them.

`Implements`: under `~ShortGather`, `Spec => SinkSpec`, with `out <- dev`,
`queue <- pend`. It rests on `IInv` and on a closed stream being empty, which
makes reopening one a stutter. Writes and flushes map to `Forward`, calls that
throw to `Fail`, close and reopen to `Rebind`, the destructor to `Retire`.

**`Buffers_proofs`** about `IBuffer`, for every size of the get area and of a character, any
amount of data and any number of failures: `GetAreaTyped` (`InTypeOK`),
`CharactersInOrder` (`InputInOrder`) and `RewindKeepsToken`
(`RewindWithinToken`). `InputInOrder` is not inductive for two reasons, and
the invariant `Sound` has a part for each. A scanner's rewind moves `curr` back
over characters already handed out, which gives them out again rightly only
because the get area still holds the *last* characters taken off the handle,
used or not (`HoldsLast`). And the rewind is bounded by what the code knows, the
part of the chunk behind `active_chunk_begin`; that this is no more than the
token has taken is the relation of `op.begin`, `op.from` and the number of
characters used, which every refill has to re-establish (`CallIs`). The rounds
of `read_all` and of the scatter reads add that a call stands at a descriptor
of a list that does not fall. Wide characters have types and bounds proved, and
no order: finding 2 is what becomes of it.

**`Buffers_proofs`** about both together: `AreasAlwaysHold` (`AreasHold` of
`MCBuffers`). For the put area with short gathered writes, an instance of
`OBuffer` with variables of its own, it proves anew what does not depend on
them: types, sizes, and that characters stay with their handle (`ShortHolds`).
`ShortGoesOn` is what almost every step comes to; a stop inside the put area
keeps a part of it, if not the right one (`ShortStops`).

**`Writes_proofs`** about `ScatterRead` and `ScatterWrite`: `ReadsAreInOrder` and `WritesAreInOrder`
(`ReadsInOrder`, `ScattersInOrder`), for any threads, lists of descriptors,
kernel limit and way of calling. Both first show what a step does whichever
loop it is in (`GatherGoes`, `FinishGoes`: so many bytes go, and the call is
left before a descriptor, inside one, or done), and then that every such step
keeps the invariant (`GoesKeeps`). That `Position` finds the descriptor a
status stands for (`PositionIs`) is proved by a greatest element, since
induction over the list is not to be had. For reads the invariant adds where a
call is in its list (`Where`), that what was read lies before the place it
reads from next (`BehindPlace`), that an offset has moved by what was read
(`OffIsTrue`), who has the mutex (`MutexHeld`), and that under it the last byte
read ends at the position (`EndsAtCursor`); without that `OnePiece` is not
inductive. For writes: the file is written up to the position and not beyond
(`UpToCursor`), what the call under the mutex has written goes on up to it
(`GoesOn`), and an offset follows what is sent (`OffFollows`).

**`Writes_proofs`** about `SeekFallback`, with a mutex (`Locked`): `FallbackKeepsStream` and
`FallbackPlaces`. The inductive invariant says that only the owner of the
mutex is inside (`OwnerOnly`), that the position is the owner's while it writes
(`Positional`), what it remembers (`Remembers`) and how far its bytes reach
(`Fresh`, `Reaches`). Without the mutex both are false.

**`Streams_proofs`** about `Transmit`: `StuckOnlyWhereCircular` (`StuckOnlyInCircle`) from
`MutexStates`, which mutex each thread has at each point: a thread that waits
for its output's mutex holds none, so in a set that waits for itself those
that wait for their input's are the circle. `CopiesAreDelivered`
(`CopiesDeliver`): the block is the end of what was read (`Staged`), the sum
and the number left are the count of it (`Counted`), a copy that met the end
has nothing ready (`Ended`), and the thread in a mutex is the latest writer of
its stream, without which `OnePiece` is not inductive. The counting of a
thread's places in a shared output is done with cardinalities.

**`Streams_proofs`** about `TiedIO`: `CharactersConserved`, that every character of every message
is in exactly one place, from the relation of the cursors of the two areas and
of the socket; and, with `Tie`, `TiedHoldsNothingBack`, from the invariant that
a peer inside a refill has flushed.

**`Writes_proofs`** about `Printing`: `PrintedInOrder` (`PrintsInOrder`), for every list of
arguments, storage, put area and smallest window. What was handed on, the put
area and the capture buffer are in a row the text up to the place `Reached`
(`UpToThere`), which the stage, the argument whose turn it is and the
characters it has made so far determine; this needs which argument stands at
which stage, that the capture buffer holds text only while a run is captured,
and that nothing has been made of an argument before its turn (`Course`). That
nothing is written beyond its storage (`Stored`) rests on a text being no
longer than the storage of its arguments, for any run of them (`TextFits`, by a
least counterexample), and on the capture buffer being as large as the largest
run of static bounds (`CaptureSizeIs`). A simple line to a bare handle is not
begun, or done in one write (`OneGo`).

**`Conversions_proofs`** about `TranscodeOutput`: `BytesInOrder` (`OutputInOrder`) and `FlushIsShown`
(`FlushShows`), for every engine that keeps to the
protocol, taking bytes or characters, every unit, put area, put area below and
scratch storage, with failures. The invariant adds to `OutputInOrder` which
stages and operations go together (`Course`), which places are empty by then
(`Emptied`: the public area once it has become a source, the remainder in
every typed operation and for engines of bytes, what is kept once the drain is
complete), that the put area and a typed range are whole characters
(`Storage`), and that what reached the stream below can be completed to what
was given (`Gapless`), which unlike the order of the places outlives a failure
and a cancellation. Each step is an equation between the places in a row; the
lemmas from `AreaThrough` to `Taken` are these equations, `CommitIs` says that
all three ways to the stream below come to the same, and `GapsNotJumped` that
what a throwing call has handed on is still a beginning. Concatenation goes by
the name `Then` there, because the provers get lost inside it.

**`Conversions_proofs`** about `TranscodeInput`: `SourceInOrder` (`InputInOrder`) and
`ReadsKeepTurns` (`ReadsInTurn`), for every engine that keeps to the protocol,
every unit, get area and scratch storage, however characters and bytes are read
by turns and whatever fails. `InputInOrder` says that the bytes read, those in
the get area, the scratch storage and the engine are in a row a beginning of
the source. That is not inductive because the adapter moves characters between
its places in ways that depend on what it is doing: the invariant, `ReadSound`,
adds which places a stage may have filled (`ReadParts`, `Reading`, `Cleared`),
when it may say that the source has ended (`Ends`: over a source of whole
characters only with nothing left but what finding 3 hides, hence `exact`),
that a place of whole characters holds whole characters and begins where one
begins (`Wholes`), and that each is within its storage (`Fits`). `ReadsInTurn`
follows from the same, as what is read first begins a character.

**`Conversions_proofs`** about `EolPipe`: `LinesEndAlways` (`EndsOfLines`), for
all texts, streams and windows. First what the definitions of a whole text do
when one unit is added: `EncodedGrows`; `DecodedGrows`, unless the unit is the LF
of a CR, and then `DecodedJoins`; a longer text begins with what its beginning
becomes (`EncodedStarts`, `DecodedStarts`, the latter only if the border is not
between CR and LF, `Apart`); and `BackAgain`, that decoding undoes encoding, by a
least counterexample among the beginnings of a text. The invariant, `EolSound`,
then says that what the encoder has made together with the LF it owes is what the
units it has taken become (`Encodes`), and of the decoder that it has a CR of
which it does not know what it is, and has made what comes before that becomes,
or it has made all that it has taken becomes, and what follows is not the LF of
its last CR (`Settled`). `RoundTrip` needs both: a decoder may be one CR short of
an encoder which itself owes an LF. `Moves` follows from what a call has before
its first round (`Underway`).

**`Processes_proofs`** about `NamedPipe` and `Spawn`: `NameIsKept` (`NamesAreKept` of `NamedPipe`), for any
processes, handles, failures and crashes. All that handles belong to is the
one server whose serial number has the lock (`OneServer`), of one process
(`OneProcess`); a call that builds or takes down a server is alone
(`AloneIsAlone`); its reference count is the number of handles, those letting
go included, and its descriptors are those of listening handles and one
(`RefsCount`, `DescCount`, `DescAlone`); the path is its, or a dead server's
(`Paths`). `ChildrenStayKnown` (`ChildrenAreKnown` of `Spawn`): a child being
started is its thread's alone (`Owned`), has not run before its exec (`Young`),
and keeps its error pipe until it has reported or run (`Piped`). All three end
when a wait on an empty handle takes a stranger, which is why `took` is in the
property: from then on only types and `NoStray` remain.

**`Processes_proofs`** about `VforkSpawn`: `DescriptorsStay` (`DescriptorsAreKept`), for any
threads, any descriptor table the program may have and any redirections of it,
as long as 0, 1 and 2 are open and inherited, redirections name open
descriptors, and pipes have their ends elsewhere (`VforkAssumption`). The
invariant: what each thread has remembered, opened and given away so far
(`Layout`); that what it keeps aside is in nobody else's hands (`Places`,
`Usable`), and what it opened is open (`Opened`). These hold for threads that
overlap. While one works alone, moreover, each of its steps leaves the table
between what it was (`Kept`) and what the child is to have (`Given`), in the
order of the code (`OneStarts`); and the child has at least what was asked for
(`ChildHasAsked`) and at most what it would have had anyway (`ChildHasNoMore`).

**`Containers_proofs`** about `Deque`: `DequeHoldsAlways` (`DequeHolds`),
`DequeIsSoundAlways` (`DequeIsSound`) and `PromiseKept` (`DequeKeepsPromise`),
for every size of a block and of an element, every slack of the allocator, any
choice of operations and counts and any number of elements. The hypothesis is
`Tame` of every type: what the findings above are about does not happen. `containers`
checks that its types are such, and TLC finds counterexamples to `DequeIsSound`
where a clause is dropped; the first one is no stricter than it has to be, as
ranges of exactly a block already go wrong at the front. That the three properties hold now
says too little about the next call: a place outside the elements might hold
one, free blocks might be of another number than the ends suggest, and a place
between two blocks has two names. The inductive invariant, `DequeInv`, says of a
queue that has blocks (`Good`) that the blocks are in the controller and the ends
in the blocks (`Framed`); that the ends are in the blocks of the first and the
last element, so that equal places are equal pointers (`Ended`); that the
elements of `seq` are between the ends, in order, and all else is raw
(`Filled`); and of what `reserve_back` has promised that there are as many free
places behind the elements (`Prepared`). Or the queue is one of those without an
element behind a block (`AtBorder`), from which every call but `reserve_back`
comes back. There is a lemma for what each part of a call makes of such a queue:
borrowing blocks (`BorrowBackIs`, `BorrowFrontIs`), growing and shifting the
controller (`RebalanceIs`, `GrowToIs`), setting an end (`SetEndIs`), rearranging
elements (`RearrangedIs`), erasing (`ErasedIs`, `ErasedLastIs`), shrinking and
copying (`TightIs`, `CopiedIs`); `RegularStep` and `BorderStep` put them together
for the calls. Places are products and remainders by a block size that is a
constant, of which the prover knows nothing but what the lemmas on division say.

**`Counters_proofs`** about `HashContext`: `DigestIsOfMessage` (`DigestOfMessage`), for every
size of block, length field and counter and every cut of every message. The
invariant (`Holds`) says that what was compressed is whole blocks, that they
and the staged bytes are the message, and that the counter is the number of
bytes compressed, in its width. `Padding` is then compared with the definition
of the padded message, in one block or two. A third of it is division
with remainder, which the prover knows little of.

**`Counters_proofs`** about `Positions`: `PositionsTyped`; `SumSaturates`, that `fposoffadd` is
the sum or the end it is beyond; `ArithmeticSaturates` (`PositionsAreTrue`), the
same of all sums and products with what the state says of the position; `PositionTracks` and `PositionNeverBack`. The
strengthening, `ScanIsTrue`, says what a half-done scan over descriptors has
added up, and that the greatest position is kept once reached.

**`Basics_proofs`** has what several of these need: least and greatest elements
of sets of numbers, products and quotients, pieces and joints of sequences, and
that `Position` of `Descriptors` finds the descriptor a status stands for.

Assumptions on constants are only what the code's types and lists give (no
thread is `NoMover`, a list of descriptors begins at 0 and does not fall, sets
of processes are finite). Proving `ReadsAreInOrder` showed that `Gives` of
`ScatterRead` had let a read give nothing where the file goes on; it follows
`read` now.

Only model-checked: every liveness property (fairness and ENABLED are beyond the
prover); `SetHolds` and `SetIsSound`, because `BTreeSet` has RECURSIVE operators,
over which the prover loses its SMT solver; and what recursive functions compute
for all inputs, since the induction theorems of the library take operators as
parameters, which the installed provers cannot instantiate (the least element of
a set of numbers stands in where it can).

## 5. Plan

The modelling follows the first plan up to its last item. What is left, in
order:

1. `LockedStream`: life of the owned mutex and handle (move, close, reopen).
2. Extensions of `OBuffer` (width of characters, moves between two streams) and
   `IBuffer` (minimum-size prepare, positional reads).
3. The decorated streams (`io_deco_filter`) over `EolPipe`, and the growth of
   the dynamic output buffer.

Abstract specifications: `ByteSink` exists; worth adding are `ByteSource` for
`IBuffer` and `ScatterRead`, and one atomic write for `ScatterWrite` under the
mutex.

## 6. Not modelled

* Parsing, numeric, time and Unicode conversion, ciphers and tables are pure
  functions over large domains, and by far the most lines of the repository;
  it tests them against references and a model checker would add little. The
  same holds for the compile-time selection of overloads: the models follow the
  choice that a POSIX handle and a `basic_io_buffer` make.
* Other platforms publish the primitives modelled from POSIX. Drivers and
  legacy bridges depend on foreign code. Files, mmap and directories are thin
  owners of objects of the operating system.
* list, forward_list, vector, string, bitvec and priority_queue are sequential
  and small; the unit tests fit better.
* In `Printing`: semantic nodes (pack, cond, width), compile-time strategies for
  fixed views, retained static scatters. In the transcoding adapters: the
  reference plumbing, SIMD paths, stateless end-of-line schemes, and a
  synchronising flush of the CR LF decoder between CR and LF.
* In the read operations: adapters between typed and byte descriptors and the
  fallbacks through seek. `input_stream_seek_bytes` over a get area
  (`seek.h:406`) subtracts characters where bytes are meant, which tells for
  wide characters; the only streams here that have a get area and a seek are
  the bridges to the C library.
* `io_lockable.h:257-268` (move assignment of the owned mutex), the minimum-size
  prepare of the get area (`input.h:53`, `:254`; used by one stream of the
  library), `write_some` of wide characters (`output.h:43`).
* The allocators the library ships end the program when memory runs out, so
  that is no outcome of any action. An interrupted system call is an exception
  like any other. Data races on unlocked streams are the program's error.
