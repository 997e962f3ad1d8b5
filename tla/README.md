# teachserver: a verification project

`teachserver` is the server of an electronic classroom. Teachers, students and
whiteboards connect over TCP; the server authenticates them against a database,
keeps track of who is in which room, and relays messages between the clients of
a room. This directory holds TLA+ models of it, the configurations TLC checks
them with, and theorems that TLAPS proves about them.

Paths below are relative to `src/`.

## 1. The system

### 1.1 Threads and what they share

`ProcessManager::run` (`ProcessManager.cpp:83`) starts the ten workers of a
`ThreadPool` and pushes three tasks, each of which keeps one worker for ever:

| thread | runs | reads | writes |
|---|---|---|---|
| Evloop | libev callbacks `accept_cb`, `recv_cb`; on a failed receive `closefd`, which calls `CRoomManager::del_client` | sockets | `recvqueue`, pool, rooms, `sendqueue` |
| RecvTask | one handler per message, found by type | `recvqueue`, rooms, database | `sendqueue`, pool, rooms |
| SendTask | `send` to the descriptor in the Buf | `sendqueue` | sockets, pool |

`Single` holds the pool (1000 Bufs) and both queues. Each has a mutex of its own.
**Nothing else is synchronised**: rooms are read and written by Evloop and by
RecvTask with no lock in common, and a Buf belongs to whoever holds its pointer.

### 1.2 Components

`PROJECT.json` lists all of them with their status.

| component | state | operations | correct when |
|---|---|---|---|
| Evloop (`Evloop.cpp`, `Sock.c`) | connections, watchers | accept, receive, close | a message reaches `recvqueue` whole or its connection is closed; resources of a closed connection are given back |
| pool, queues, Bufs (`Single.h`, `PoolT.h`, `QueueT.h`, `Buf.h`) | FIFO of free Bufs; two queues; per Buf a block, a length, a descriptor | malloc, free, enqueue, dequeue, reset, setfd | a Buf is in one place; a message that waits is not overwritten |
| RecvTask, post functions (`RecvTask.cpp`, `HandleMessage.cpp`) | the Buf in hand | dispatch, forward, broadcast, query | each Buf is forwarded or freed exactly once; every message is handled |
| SendTask (`SendTask.cpp`) | the Buf in hand | send, release | each queued message is sent or dropped |
| rooms, login, classroom handlers (`room.cpp`, `roommanager.cpp`, `LoginCheck.cpp`, `HandleClassRoom.cpp`) | per room: teacher, whiteboard, seats by descriptor | enter, log in, leave, disconnect | a client is in one room; a closed descriptor is in none; no student is told states that are not current |
| puzzle (`HandlePuzzle.cpp`, `puzzle.cpp`, `room.cpp`) | per room a map from descriptor to clock | start, end one, end all | the scores are those of the students who played |
| house building (`HandleBuildHouse.cpp`, `makehouse.cpp`) | groups, a list of nodes in layers | start, add, delete, move, layers, share | all members see the same list |
| ThreadPool (`ThreadPool.cpp`) | workers, queue of tasks | start, push | each task gets a worker of its own |
| ProcessManager (`ProcessManager.cpp`) | lock file | start, stop | one server per directory; a stop reaches it and nobody else |
| course list (`room.cpp`, `HandleClassRoom.cpp`, `HandleMessage.cpp`) | per room a list of courses | select, read, reset | the list is the last selection; an answer is about one selection |
| database, configuration, records | | I/O, getters | not modelled |

### 1.3 What is hard about it

Section "hazards" of `PROJECT.json` lists each hazard at its line. In short:

* **Who owns a Buf.** Some eighty handlers each end by forwarding, freeing or
  forgetting the Buf, and six post functions take part in the decision.
* **Memory that outlives its owner.** `handlePuzzle_GameStart` reads a Buf it has
  freed; `update_all_student_status` copies one Buf object over another and so
  makes two Bufs share a block for good: of the notices of one disconnect, all but the
  first are zeroed before they are sent.
* **Unsynchronised maps.** Evloop erases students from a map while RecvTask has an
  iterator in it, and the other way round.
* **Late requests.** A request that is still queued when its client disconnects is
  handled afterwards, for a descriptor the kernel may give to somebody else.
* **Exhaustion.** Each disconnect costs one Buf; the process aborts when none is
  left; most mallocs are not tested.
* **One sender for all.** A client that does not read holds up every other one.
* **Maps that drift apart.** A room keeps students, puzzle clocks, a building group
  and courses in containers of their own; a disconnect or a reset clears some of them,
  and `operator[]` puts NULL into others.
* **Streams.** Messages are cut into segments by the network, received with a budget
  of 500 microseconds, and sent in as many parts as the socket likes, to descriptors
  that change hands.
* **Two steps where one is meant.** A start takes the lock and then writes its id; a
  stop tests the lock by taking it.

## 2. Modules

| module | what it models |
|---|---|
| `Pipeline` | the life of a Buf through pool, queues and the three threads |
| `ClassRoom` | teacher, whiteboard and seats of the rooms, and the two threads that walk over them |
| `QueueT` | the blocking queue: mutex, condition variable, timeout |
| `BlockingQueue` | abstract: an atomic queue; `QueueT` implements it |
| `ThreadPool` | workers and tasks; extends `QueueT`, which is the queue of tasks |
| `Framing` | how Evloop makes messages of bytes |
| `Channel` | abstract: a channel of whole messages; `Framing` implements it |
| `Delivery` | how SendTask makes bytes of messages, while descriptors change hands |
| `Puzzle` | the puzzle game; extends `ClassRoom` |
| `BuildHouse` | the game of building a house; extends `ClassRoom` |
| `Courses` | the course list of a room |
| `ProcessManager` | start and stop of the server, the lock file |
| `MCPipeline`, `MCClassRoom`, `MCPuzzle`, `MCBuildHouse`, `MCThreadPool` | constraints, views and constants for TLC |
| `PipelineProofs`, `ClassRoomProofs`, `GameProofs`, `CoursesProofs`, `ThreadPoolProofs`, `FramingProofs`, `DeliveryProofs`, `ProcessManagerProofs` | theorems and proofs; those of `Puzzle` and `BuildHouse` are in `GameProofs`, those of `QueueT` in `ThreadPoolProofs` |

How they fit together: a client's bytes become messages in `Framing`, whose promise
(`Channel`) is what `Pipeline` and `ClassRoom` take a connection for. Messages go
through two queues, whose promise (`BlockingQueue`) is what `Pipeline` takes them for,
with the workers that `ThreadPool` shows to be there. What requests do to rooms is in
`ClassRoom`; `Puzzle` and `BuildHouse` add a game each to all of its steps, while
`Courses` has a small room of its own, since the course list does not depend on
seats. What `Pipeline` transmits in one step is sent byte by byte in `Delivery`.
`ProcessManager` surrounds them all.

The two models overlap in one place, the walk over a room's students that takes
a Buf per student. `Pipeline` models the Bufs and lets the list of students be
any ascending list; `ClassRoom` models the list and leaves out the Bufs.

### 2.1 Pipeline

*State.* `pool`, `recvqueue`, `sendqueue` are the three containers of `Single`.
`fd[b]`, `ptr[b]` are fields of Buf `b`; blocks are numbered as the Bufs they were
built with, and `text[k]` says which Buf's message block `k` holds (0 after
`reset`). The text itself does not matter to any property; whether it is still the
one that was written for this message does. `conn` and `stalled` are the clients
that are connected, and those whose socket buffer is full. Each thread has a
program counter and the Bufs in its hands. `lost` and `shared` are history: Bufs
nobody will free, and blocks that two Bufs have shared.

*Steps.* A step ends where a thread takes or gives back a Buf or touches a queue.
Between two such points a thread works on Bufs of its own. The handlers fall into a
few ways to dispose of the Buf (`Forget`, `Reject`, `Finish`, `Forward`, `Post`), and the
operators from `postMessage` to `Puzzle` say which of them each post function and
each group of handlers can take. `Post` starts a loop, one malloc and one enqueue
per receiver (`PostMalloc`, `PostSend`), that ends in `PostedZero`, `PostedFree`,
`PostedSend` or `PostedStart`. On the Evloop thread, a failed receive starts the walk
over the rooms (`NextRoom`, `TeacherGone`, `WhiteGone`, `StudentGone`) with a loop of the
same kind (`NotifyMalloc`, `NotifySend`, `NotifyDone`).

*Undefined behaviour.* After `PostedStart` the handler reads the descriptor of a Buf
it has freed: `StartGames` takes the value that is there now. `memcpy (pp, p, cLen)`
over a Buf copies at least its first field, the pointer (`CopyOf`); descriptor and
length are set again afterwards. If SendTask has zeroed the block meanwhile, `cLen` is
0: nothing is copied, and the Buf, with a block of its own, is a message of no bytes. For more than two students the copy reaches
past the object, which the model leaves out. `sendToOtherStudent` reads the
length of its memcpy from the pointer field of the Buf, which faults (`HouseShare`).
A NULL from an untested malloc stops the process (`EvloopOom`, `PostOom`).

*Left out.* Text and sizes of messages; SQL; bytes (a message arrives whole or not
at all, and is sent whole or breaks off); the picture of `handlePuzzle_GetPic`, whose
path `~/pic/p3.png` does not open.

### 2.2 ClassRoom

*State.* Per room `teacherFd`, `teacherName`, `whiteFd` and `seat`, a function from
descriptors to what others see of a `CStudent`: its id and whether it is online. A key
mapped to NULL is the entry `Null`. `conn`, `backlog` are open connections and clients
with a request in `recvqueue`. `view[f]` is what the last list of states sent to `f` says,
or `Torn` if its text was lost before it was sent; `shared` says whether two Bufs have had
one block (`Pipeline` says which).
Each thread has a program counter, a room, the list it sends, and `rtAt`, `evAt`, the
key its iterator is at. `strays` and `overlap` are history (section 4).

*Steps.* One operation on a map is one step, and so is each element of a walk.
When the element an iterator is at has been erased by the other thread the
iterator dangles, and `EvDangling`, `RtDangling` allow a crash, the end of the walk, or
any later element. A step of the other thread inside a single map operation is
not modelled: red-black trees are not.

*Lists.* A list of states goes three ways. `login_student` and `teacher_disconnect` write
each message into a Buf of its own (`RtSend`, `EvSend`): it arrives as it was built, unless
`shared` blocks are about, when it may be torn (`Show`). `update_all_student_status` makes
all its messages share one block, which SendTask zeroes with the first one it has sent, and
`p->reset ()` at the end of the walk (`EvTell`): the first student gets the list or a torn
one, the others a torn one.

*Left out.* Rooms' course lists (`Courses`), puzzles (`Puzzle`) and groups
(`BuildHouse`); scene type and state, which nothing sets. The puzzle is the only code
that puts NULL into a seat, so the NULL branches of the walks are reached in `Puzzle`
only. A client in `backlog` has one or more requests
waiting; which one is next gets chosen when it is handled.

### 2.3 QueueT, BlockingQueue, ThreadPool

What a thread does while it has the mutex is one step of `QueueT`: `Push` and `Take`
with the test before them, `Wait` with the release of the mutex. The signal is a step
of its own, for `enqueue` sends it after it has unlocked, and so is the end of a wait
(`Expire`), after which `dequeue` returns without another look (`GiveUp`): in between
an element may come, and its signal finds nobody waiting, although an expired thread, or
one that has been woken by nothing (`WakeUnasked`), has not yet gone on. `IsBlockingQueue` maps
queue and results onto `BlockingQueue`; liveness included, since whoever returns with
nothing asks again.

`ThreadPool` extends `QueueT`: the main thread is its only producer, the
workers are its consumers. A worker asks until it has a task (`Asks`). The pool has ten
workers in the code; four are enough to have more workers than tasks. `stop` has no
caller and `kill` stands behind an endless loop, so neither is modelled.

### 2.4 Framing and Channel

A byte is its place in the stream of its connection, and a message is where it begins
and how long it is. `Recv` is one call of `recv`, of any part of what has arrived.
`RecvEnds` stands for `select` returning 0 and for the end of the stream; it can
only happen when there is nothing to read, so time itself is not in the model: the budget
may be used up whenever the stream is empty. `HeadRead` reads the length *at the place
where the callback stands*: if that is not the beginning of a message any length may
come out, and `Aligned` says that it always is. `Channel` has whole messages only.

Left out: a client that lies about its length, and lengths beyond the 5120 bytes of a Buf (`Buf.h:10`).

### 2.5 Delivery

`posts` are the messages in the order in which they were put on `sendqueue`, `conn`
says which connection has a descriptor now, and `stream[c]` is every byte that `send`
has taken for connection `c`. `Accept` takes the lowest free descriptor, as the kernel
does. `Send` takes any part that fits into the socket; if it is full (EAGAIN) the loop
waits. `GivesUp` covers the other errors, which for a TCP socket mean that the
connection is closed or reset; a message that comes for a descriptor in other hands
goes to whoever has it now. `heirs` is history: connections accepted in the middle of a
message for their descriptor.

### 2.6 Puzzle

`Puzzle` extends `ClassRoom` and adds `clock`, the map `m_puzzle_map` of each room. The
start broadcasts first, with the walk of `ClassRoom`, then asks the freed Buf for its
client (`Started`: any room, see `PipelineStart`), then walks again (`StartClock`). The end walks over
the clocks and looks each student up with `operator[]`, which inserts NULL
(`EndClock`), or dereferences a NULL clock (`EndNull`), which `end_puzzle_by_fd` has inserted
(`EndOwn`). All steps of `ClassRoom` go on beside it. `deserted` and `bystander` are
history. The text of the scores is a set of students, without times. They are sent to
the whiteboard only, in a message that concerns no other variable.

### 2.7 BuildHouse

`members` is the group of a room: every start uses the key 1, and `map::insert` leaves
the first group alone (`AddGroup`). Nodes are known by id and by the descriptor of
their maker; positions are left out. `WildCopy` is what `sendToOtherStudent` does in a
group of two or more: it writes over memory, and the model stops there. So the
operations proper, `AddPic`, `DelPic`, `UpdateNode` and `ChangeLayer`, have an effect
that lasts only in a group of one. `layers` stays empty in every behaviour, as
`m_node_layer_list` does in the code, to which nothing is added; what the swaps of
`layer_down` would do to a list is undefined (`std::swap (*iter, *(iter++))`), and
`LayerDown` allows any order.

### 2.8 Courses

An element of the list is the number of its selection and its row. One operation on
the list is one step: the erasing walk of `handleSetCourseGroup` and `reset`, an added
row, a step of a reading walk. `reset` removes the students before this walk, the teacher
and the whiteboard after it, so a student who selects the room in between stays.
Evloop's `reset` on the disconnect of a teacher is a process of its own, and an iterator
of either thread whose element the other one has erased may crash, end, or go anywhere.
`Erase` takes out the element at the iterator, as `erase (it)` does. The database may break
off at any row. `Params` is the number of parameters of the query for course items, four in
the code, two in the run. That the connector throws for a parameter too many or one that is
missing is taken from how the code catches `SQLException`.

### 2.9 ProcessManager

A step is a system call of a process; processes are known by their id. A start is
`lock`, `truncate`, `write`, `init`, `up`; a stop tries the same lock, and with it writes
its own id and unlocks, or else reads the file (`Cat`) and kills whom it names (`Kill`). `open`,
`ftruncate` and `write` may fail (`Faults`). The kernel gives ids of dead processes to
others, servers, stops or other programs, and delivers signals later. `found` is
history: the server that was up when a stop read the file. The file may hold any id
at first, as a server that died leaves it.

Left out: the children that `system` forks, which hold the descriptor of the lock for
a moment; the directory of logs; `-v`.

## 3. What TLC checks

| run | bounds | shows |
|---|---|---|
| `Pipeline` | 2 clients, 1 room, 2 Bufs, 2 messages per post | `TypeOK`, `OneOwner`, `IntactUnlessShared`, `FinitelyManyDisconnects`, `ReceivedIsHandled`, `SentIfClientsRead` |
| `ClassRoom` | 2 clients, 2 rooms, 1 teacher's name, 1 account; one stray, one waiting request, one room with a teacher or a whiteboard at a time | `TypeOK`, `SeatUnique`, `GoneIsForgotten`, `CurrentUnlessOverlap`, `DanglesOnlyInOverlap` |
| `Puzzle` | 2 clients, 1 room; one waiting request, no strays, no whiteboard | `PuzzleTypeOK`, `NullSeatNeedsDeserter`, `NullClockNeedsBystander`, `WalksEnd` |
| `BuildHouse` | 2 clients, 1 room, 2 pictures, no whiteboard; one waiting request, one stray | `HouseTypeOK`, `IdsAreFresh`, `AllSeatedJoin`, `OrphansNeedHeir` |
| `Courses` | 2 clients, 3 selections of 0, 2 or 3 courses, 2 parameters | `TypeOK`, `ListIsSelection`, `CrashNeedsOverlap`, `AnswersAreWhole` |
| `ThreadPool` | 4 workers, the 3 tasks | `TypeOK`, `SomebodyLooks`, `IsBlockingQueue`, `TasksRun` |
| `Framing` | 2 connections, 2 messages each, of 2 or 3 bytes with a head of 2 | `TypeOK`, `Aligned`, `WholeMessagesAreKept`, `IsChannel` |
| `Delivery` | 2 descriptors, 3 connections, 2 messages of 1 or 2 bytes, sockets for 2 bytes | `TypeOK`, `WholeAndInOrder`, `OnlyHeirsGetTails`, `EveryPostEnds` |
| `ProcessManager` | 3 processes, all faults | `TypeOK`, `LockNamesServer`, `StopsTheServer`, `StopWorks` |

Why these are enough. With two Bufs the pool runs dry in every loop, and a copy exists
beside its original; that the three invariants hold for any number is proved (section 4).
A second client is needed for whatever one client does to another; a third adds only
more of the same, since a walk treats its elements alike. Two rooms are needed for a
client to be in two; `strays` and `overlap` do not tell rooms apart.

In `Framing` a head of two bytes can be cut in the middle, and so can the body; a message
of 2 bytes has an empty one. Three connections on two descriptors let one descriptor be
inherited twice, or each once; a socket that is full makes the loop wait, and a message
of two bytes is cut in the middle. Four workers and three tasks are what it takes for
an element to come without a signal while somebody sleeps. `recvqueue` and `sendqueue`
are queues of several producers and one consumer: for them there are the theorems about
`QueueT`, of any producers and consumers. Three processes are a server and two others, so
a stop can race a start, or two stops each other. Selections of 0, 2 and 3 courses are
shorter than, as long as, and longer than the query.

The runs `ClassRoom`, `Puzzle` and `BuildHouse` use a VIEW. It leaves out variables on
which neither a step's guard, the variables it keeps, nor a property of that run depends.
In the two games these are the lists students were sent and who was in the rooms at the same
time; in `ClassRoom`, which tells lists apart by who is online in them, they are the lists and
states of students once the threads have overlapped, for nothing more is claimed of them
then (`ListsInTurns`). What the type invariants say of these variables is checked in the
states TLC keeps, and proved for all (`TypeCorrect`, `PuzzleTypeCorrect`,
`HouseTypeCorrect`). The constraints of the runs cut behaviours off, so the liveness checked
under one (`WalksEnd`) is about behaviours within it.

Every property above has at least one mutant in `PROJECT.json`: a change to one
definition, of the kind a slip in the code would make, that violates it.

Some properties deserve a word.

* `OneOwner`: pool, queues, threads' hands and `lost` partition the Bufs.
* `IntactUnlessShared`: a message in `sendqueue` still has its own text, unless its
  block went through a disconnect notice. The exception is the fault of
  `content/room.cpp:102`; the invariant says it is the only one.
* `FinitelyManyDisconnects`: a server whose clients keep disconnecting ends.
* `GoneIsForgotten`: after a disconnect no room knows the descriptor, but for
  `strays`: requests handled after the disconnect, whiteboards that had a seat in
  the same room, and numbers a room was built with. These are faults of the code,
  each at its line in "hazards"; the invariant says there are no others.
* `CurrentUnlessOverlap`: a list of states that comes through agrees with the room, as
  long as no login and no disconnect were ever processed at the same time. That lists get
  lost, overlap or not, is what `ClassRoomNotice` shows; this property is about those that
  do not: none is an old one, or one of another room.
* `SomebodyLooks`, `TasksRun`: `enqueue` signals on an empty queue only. With one consumer,
  as `recvqueue` and `sendqueue` have, no element waits for a timeout; with several, as in
  the pool, it may, and `TasksRun` holds because of the timeout alone.
* `WholeMessagesAreKept`: the budget of 500 microseconds cuts only clients whose message
  has not arrived entirely. That it does cut those is how the code works.
* `WholeAndInOrder`: whatever is closed, accepted and partly sent, a client that has found
  the beginning of a message finds all others, none twice and none left out.
  `OnlyHeirsGetTails` names the one case in which it begins with the tail of another
  client's message: it was accepted while that was being sent.
* `NullSeatNeedsDeserter`, `NullClockNeedsBystander`: the two ways in which a NULL that
  `operator[]` inserts is dereferenced, and that there are no others.
* `AllSeatedJoin`: the group has everybody who sat there from the beginning of the walk to its
  end, although Evloop erases students meanwhile; the exception is a walk whose own
  position was erased.
* `OrphansNeedHeir`: a picture whose maker has gone is moved only by a client with the same
  descriptor, or one the room has not forgotten.
* `ListIsSelection`, `AnswersAreWhole`: with the two named exceptions; after either, the next
  selection starts afresh.
* `StopsTheServer`: a stop that read the file while the server was up does not signal
  another process, though ids are reused. If the server dies in between and its id is given
  away, the stop does hit somebody else, which no program of this kind can avoid.

### What the code's own words say and does not hold

Three runs each check one statement of a comment, and TLC finds it violated.
`PROJECT.json` quotes the lines under "findings".

| run | statement | what happens |
|---|---|---|
| `PipelineStart` | the teacher's start begins the game of that room | the Buf is freed, refilled by Evloop for another client, and only then asked for its client |
| `ClassRoomCurrent` | every student is sent the current states; here: no list that comes through is outdated | the list of a login overlaps that of a disconnect |
| `ClassRoomNotice` | the same; here: the list comes through, if nothing overlaps | two students log in, a third client disconnects: the first student's copy is sent and its block zeroed, and the second student's copy has that block |

`ClassRoomNotice` has three clients, one room and one account, rooms that were built without
a descriptor in them, and a SendTask that keeps up (`PromptSender`): each message is sent before
anybody else uses its block, so that what is torn is torn by the copies of its own walk.

Other statements are at odds with code that does the same whatever comes before, so that
no run is needed to see it. The modules model what the code does:

* `test/Buf_unittest.cc:23`: a copied Buf has its own memory; after `content/room.cpp:102` it has not
  (`CopyOf` in `Pipeline`).
* `Evloop.cpp:182`: a client that is silent for long is disconnected; the call is commented out.
* `handler/HandleClassRoom.cpp:320`: a room in use is refused; a teacher with another name gets it.
* `handler/HandleClassRoom.cpp:335`: teacher and students leave a room; only the teacher can
  (`LogoutClassRoom`).
* `protocol.h:360`: a state message is a count and that many entries; that of
  `teacher_disconnect` has no count (`Bare` in `ClassRoom`).
* `protocol.h:168`: the end of the puzzle goes to the whiteboard and all students; it goes to the
  whiteboard.
* `content/makehouse.h:65`: a change of layer moves the picture; no picture is in the list of layers
  (`LayerDown`).
* `protocol.h:129`: the other students of a group are told; the Buf object is taken for its message
  (`WildCopy`).
* `handler/HandleMessage.cpp:363`: items of all selected courses are answered; only if these are as many
  as the query has parameters (`ItemsThrow`).
* `ProcessManager.cpp:35`: a start is refused because a server runs; a stop that holds the lock for a
  moment is enough (`Refused`).
* `ProcessManager.cpp:61`: the command that kills succeeds; it fails when the lock is taken before the id
  is written, or when the process has gone (`NothingToKill`).

### Fairness

Weak fairness of each thread, and nothing for clients. The three tasks are endless
loops on threads of their own; a dequeue waits with a timeout of three seconds and
tries again, and no mutex is held while waiting. The threads do not depend on each
other's progress but for SendTask, which waits for the client it sends to: hence the
premise of `SentIfClientsRead`.

`ThreadPool`: the main thread and each worker are scheduled, and a worker that has found
nothing asks again, as its loop does. The deadline of a wait (`Expire`) is part of that.
`QueueT` by itself assumes the same of its callers.

`Framing`: a callback runs on, the network delivers, and strong fairness of `Readable(c)`, since the
watcher of a connection is disabled while a callback for another one runs; libev calls all
watchers that are ready in a round of its loop, so none is passed over for ever.

`Delivery`: SendTask runs, and a client that neither reads nor leaves does not stay
that way (`Read`): without this `EveryPostEnds` is false, and that is the hazard of
`SendTask.cpp:37`.

`Puzzle`, `BuildHouse`, `Courses`: Evloop's and RecvTask's steps, as in `ClassRoom`; nothing for requests.

`ProcessManager`: a process makes its next step and signals are delivered. Nothing makes a server
die by itself, or anybody start or stop one.

## 4. What TLAPS proves

For every value of the constants (Bufs, clients, rooms, names, accounts and posts; producers, consumers and
elements; workers and tasks; connections and sizes of messages; descriptors and room in sockets;
process ids and faults; sizes of selections; pictures of a house):

| theorem | statement |
|---|---|
| `PipelineProofs!TypeCorrect` | `Spec => [](TypeOK /\ HandsMatchPc)` |
| `PipelineProofs!EveryBufHasOneOwner` | `Spec => []OneOwner` |
| `PipelineProofs!MessagesStayIntact` | `Spec => []IntactUnlessShared` |
| `ClassRoomProofs!TypeCorrect` | `Spec => [](TypeOK /\ ThreadsInPlace)` |
| `ClassRoomProofs!OneSeatPerClient` | `Spec => []SeatUnique` |
| `ClassRoomProofs!GoneClientsAreForgotten` | `Spec => []GoneIsForgotten` |
| `ClassRoomProofs!OverlapExplainsDangling` | `Spec => []DanglesOnlyInOverlap` |
| `ClassRoomProofs!RosterIsCurrent` | `Spec => []CurrentUnlessOverlap` |
| `GameProofs!PuzzleTypeCorrect` | `PuzzleSpec => [](RoomsTypeOK /\ ThreadsInPlace /\ PuzzleTypeOK)` |
| `GameProofs!DeserterExplainsNullSeat` | `PuzzleSpec => []NullSeatNeedsDeserter` |
| `GameProofs!BystanderExplainsNullClock` | `PuzzleSpec => []NullClockNeedsBystander` |
| `GameProofs!PuzzleForgetsTheGone` | `PuzzleSpec => []GoneIsForgotten` |
| `GameProofs!HouseTypeCorrect` | `HouseSpec => [](RoomsTypeOK /\ ThreadsInPlace /\ HouseTypeOK /\ HouseInPlace)` |
| `GameProofs!IdsAreNotReused` | `HouseSpec => IdsAreFresh` |
| `GameProofs!EverybodySeatedJoins` | `HouseSpec => AllSeatedJoin` |
| `GameProofs!OrphansAreLeftAlone` | `HouseSpec => OrphansNeedHeir` |
| `GameProofs!HouseLeavesRooms` | `HouseSpec => [](SeatUnique /\ GoneIsForgotten)` |
| `CoursesProofs!TypeCorrect` | `Spec => [](TypeOK /\ CoursesAreOld)` |
| `CoursesProofs!SelectionReplacesList` | `Spec => []ListIsSelection` |
| `CoursesProofs!OverlapExplainsCrash` | `Spec => []CrashNeedsOverlap` |
| `CoursesProofs!AnswersNameSelection` | `Spec => AnswersAreWhole` |
| `ThreadPoolProofs!TypeCorrect` | `Spec => []TypeOK` |
| `ThreadPoolProofs!WorkIsLookedFor` | `Spec => []SomebodyLooks` |
| `ThreadPoolProofs!ImplementsAtomicQueue` | `Spec => Atomic!Init /\ [][Atomic!Next]_Atomic!vars` |
| `ThreadPoolProofs!TasksAreLookedFor` | `PoolSpec => [](TypeOK /\ SomebodyLooks)` |
| `ThreadPoolProofs!PoolHasAtomicQueue` | `PoolSpec => Atomic!Init /\ [][Atomic!Next]_Atomic!vars` |
| `FramingProofs!TypeCorrect` | `Spec => []TypeOK` |
| `FramingProofs!StreamsStayAligned` | `Spec => []Aligned` |
| `FramingProofs!NoWholeMessageIsLate` | `Spec => WholeMessagesAreKept` |
| `FramingProofs!ImplementsChannel` | `Spec => Queue!Init /\ [][Queue!Next]_Queue!vars` |
| `DeliveryProofs!TypeCorrect` | `Spec => []TypeOK` |
| `DeliveryProofs!MessagesStayWhole` | `Spec => []WholeAndInOrder` |
| `DeliveryProofs!TailsAreForHeirs` | `Spec => []OnlyHeirsGetTails` |
| `ProcessManagerProofs!TypeCorrect` | `Spec => []TypeOK` |
| `ProcessManagerProofs!LockIsTheServers` | `Spec => []LockNamesServer` |
| `ProcessManagerProofs!StopHitsTheServer` | `Spec => StopsTheServer` |

Assumptions. `PipelineAssumption` and `ClassRoomAssumption`: descriptors and student ids
are positive numbers and the empty name is no teacher's. `QueueAssumption`: no thread is
producer and consumer of one queue, and there is a consumer. `PoolAssumption`: the main
thread is the producer, and the tasks are different and no more than the workers.
`FramingAssumption` and `NoConnAssumption`: a head has at least one byte, no message is
shorter than a head. `DeliveryAssumption`: no message is empty. `ProcessManagerAssumption`: which calls may fail. `CoursesAssumption` and `BuildHouseAssumption`:
descriptors are positive, the other constants natural numbers.

*OneOwner* is inductive together with `HandsMatchPc`, which ties the program counter
of a thread to the Bufs in its hands: a handler may free its Buf because it has one.
Each action then moves one Buf from one part of the partition to another. Lemmas
about `Append` and `Tail` of sequences without repetitions carry the proof.

*IntactUnlessShared* is inductive with *OneOwner* and `BlocksApart`: a block that was
never shared is the block of one Buf, and the copies a thread is about to queue have
their own text too. A step that writes a text does so to a Buf that one thread holds,
and *OneOwner* keeps that Buf out of the queues.

*SeatUnique* needs only types: a student enters a room in one step in which no room
knows the descriptor, and all other steps erase or update. *GoneIsForgotten* is not
inductive: between the close and the end of the walk over the rooms some rooms still
know the client. `ForgottenBehind` says which: those the walk has not passed. For
*DanglesOnlyInOverlap* the strengthening is `TurnsKeepIterators`: without overlap one
thread is out of the rooms, so an iterator stays on an element of its map.

*CurrentUnlessOverlap* is about students whose last list is not torn, and speaks of the moment
when both threads are out of the rooms, so its strengthening has to follow a list from the login or disconnect that makes it to the last
student it is sent to. `ToldOrOnTheWay` says of every student who has logged in that what it was
told last is torn or what the room is now, or a thread is on its way: about to collect the list,
or at an iterator not yet past that student (`OnTheWay`); and that the list under way is
that of the room (`ListsAreCurrent`). The step that matters is one of a walk: the iterator moves
to the least key behind it, so nobody between is missed (`AfterIsNext`), and whoever was told
sits in this room and in no other (*SeatUnique*). Nobody else changes the map meanwhile, by
`TurnsKeepIterators`.

The types of `Puzzle` and `BuildHouse` are those of `ClassRoom` (`RoomsTypeOK`) with the game's
own, and a step of either spec is one of `ClassRoom` or one of the game (`PuzzleSteps`,
`HouseSteps`), so what a classroom step keeps is proved once. *NullSeatNeedsDeserter* needs that
without a deserter every clock that was started is that of a student with a seat, and no seat is
NULL (`PlayersAreSeated`); and that the walk over the clocks is at a key that is still there
(`ClocksStay`), since otherwise the end of a game would invent one. *NullClockNeedsBystander* is
inductive with `ClocksWereStarted`. *GoneIsForgotten* survives the seats that `m_student_map[...]`
inserts because such a client is connected or becomes a stray; *SeatUnique* does not survive
them: a client that has changed rooms after a reset is given a NULL seat in the old one.
*IdsAreFresh* needs only that the numbers given are below the counter (`HouseInPlace`).
*AllSeatedJoin* follows from `SeatedAreJoining`: who was there at the start, and still is, has been
taken into the group or is not behind the iterator. *OrphansNeedHeir* is *GoneIsForgotten* read
from the other end: a request moves a picture only if `get_room_by_fd` finds a room.

*ListIsSelection* and *AnswersAreWhole* are inductive with `CoursesAreOld` and `TurnsKeepCourses`.
The first says that a row that is yet to be added is not in the list, so that the list never
has a course twice (part of `TypeOK`) and an iterator is known by the course it is at. The second says, for each
place RecvTask can be at and as long as nothing broke off or overlapped, what the list holds: the
rest that a clearing walk has not come to, the rows of the selection added so far, or for an
answer the part that has been read.

*SomebodyLooks* is inductive together with the types of `QueueT`: an element that enters
an empty queue puts its producer at the signal, the signal wakes one consumer, and a
consumer goes to sleep only over an empty queue. An element that enters a queue with
elements in it changes nothing. The refinement maps `Push` to `Put`, `Take` to `Take`, and
the beginning of a dequeue to `Drop`; all other steps leave queue and results alone.
`ThreadPoolProofs` shows that a step of the pool is one of its queue or leaves it alone, so
that both carry over.

*Aligned* needs to know what the callback has read. The invariant of `FramingProofs` says
that the messages of a stream lie one after the other (`Laid`), that nothing is read that
has not arrived and nothing arrives that was not sent (`Bounded`), that inside a callback
the place is in the message that begins where the callback began, and what is wanted is
what is left of its head or body, and that there is something to read when a callback begins
(`InMessage`), and that the messages received are those
before that place, in order (`Prefix`). Lemmas about prefixes of sequences carry
`ImplementsChannel`: a message is complete when the last part of its body is read, and
that is the step that maps to `Channel`'s.

*WholeAndInOrder* compares neighbours in a stream, so its step is `Send`, which appends to the
stream of the receiver: the invariant must say how the last byte there is related to the message
SendTask is at. `LastByte` does: it is the byte before `ptr` in that message, or the last byte of
the last message for that descriptor. It speaks of clients that have not left, since for others
the loop ends in the middle of a message. That no two descriptors share a connection and that a
new connection has received nothing (`OneDescriptor`) keeps a stream from changing hands.
*OnlyHeirsGetTails* follows in the same step from `EmptyIsHeir`: who has the descriptor in the
middle of a message and has received nothing was accepted since that message began.

*LockNamesServer* needs to know who has the lock in between: whoever is past `flock` and not yet
past `unlock` (`Holds`); that the file is empty before the write and names the holder after it,
or stays empty if the write failed (`Names`); and that nobody has reported a failure before its
write (`Silent`). A stop that has read the id of a server holds that id (`Reads`), which is all that
*StopsTheServer* adds.

TLC checked the strengthenings of `ClassRoom`, `Puzzle`, `BuildHouse` and `Courses` on the
instances of section 3 before they were proved.

Only model-checked: liveness, which is out of the prover's reach (`ReceivedIsHandled`,
`SentIfClientsRead`, `FinitelyManyDisconnects`, `WalksEnd`, `TasksRun`, `EveryPostEnds`,
`StopWorks`), and with it the fairness in `IsBlockingQueue` and `IsChannel`. Every invariant and
every action property of a passing run is proved.

## 5. Plan

Done: the components of section 1.2 but for the last, two refinements (`QueueT`, `Framing`),
and the theorems above. Left, in the order of their worth:

1. Proofs: `CurrentUnlessOverlap` while games are played, for which the types of `StepTells` have
   to be freed from RecvTask's place.
2. `Delivery` as an implementation of `Channel`, for a client that is not an heir.
3. `Server`: `Pipeline` and `ClassRoom` composed, with descriptors reused by the kernel;
   implements each of the two.

### Not modelled

Database and configuration: I/O with MySQL and Lua, whose results are inputs of the
handlers. Records of courses, teachers and grades: getters and setters. Code that is not
compiled into the server. Sizes of the buffers for scores and states
(`content/room.cpp:387`, `content/LoginCheck.cpp:158`): the code bounds neither names nor students, so
there is nothing to check a bound against.

## 6. Running it

    tlc -workers 2 -config Pipeline.cfg MCPipeline
    tlapm PipelineProofs.tla

`Pipeline*.cfg` go with `MCPipeline`, `ClassRoom*.cfg` with `MCClassRoom`, `Puzzle.cfg`,
`BuildHouse.cfg` and `ThreadPool.cfg` with the MC module of their name, all others with the
module of their name. The longest runs, `ClassRoom`, `Pipeline` and `ProcessManager`, take
about three minutes.
