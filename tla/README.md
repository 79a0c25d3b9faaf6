# Verification of EZ_FileServer

TLA+ models of the file server in `src/`, model-checked with TLC, and proofs checked with TLAPS.
Paths below are relative to `src/`; numbers are lines of `event/myevent.cpp` unless a file is named.

## The system

| component | code | state | operations |
|---|---|---|---|
| main loop | `fileserver/fileserver.cpp` `waitEpoll` | the local pointer `event`, `isStop` | report of a descriptor → event object → `appendEvent` |
| thread pool | `threadpool/threadpool.cpp` | `m_workQueue`, `queueLocker`, `queueEventNum` | constructor, `appendEvent`, `worker`/`run` |
| acceptance | `AcceptConn::process` | – | one `accept`, `addWaitFd` |
| reception | `HandleRecv::process` | a `Request` per descriptor | `recv`, state machine INIT/HEAD/BODY/COMPLATE/ERROR, upload of a file |
| sending | `HandleSend::process` | a `Response` per descriptor | build, send head, send body, finish |
| tables | `event/myevent.h` 38–43 | `requestStatus`, `responseStatus`: static maps keyed by descriptor | `operator[]`, `erase`, `find` |
| registrations | `utils/utils.cpp` | epoll's interest list | `addWaitFd`, `modifyWaitFd`, `deleteWaitFd`, `setNonBlocking` |
| file directory | `filedir/` | the files | list, download, delete, upload |
| pages and headers | `getFileVec`, `getFileListPage`, `getMessageHeader`, `html/` | – | reading the directory, text building |
| header parsing | `message/message.h` `Request` | a static `istringstream`, the options of a request | `setRequestLine`, `addHeaderOpt` |
| signals | `addHandleSig`, `setSigHandler`, `epollAddEventPipe` | `isStop`, a socket pair | nothing in `main.cpp` calls them |
| startup | `main.cpp`, `create…` | – | a sequence of calls that may each fail |
| logging | `utils/utils.cpp` `outHead` | – | – |

The main thread waits in `epoll_wait`, makes one event object per reported descriptor and appends it to the pool's
queue. A worker pops it and calls `process()`. Events of one connection share state only through the two tables and
through the socket. `HandleRecv` hands a request over to `HandleSend` by writing `responseStatus[fd].bodyFileName` and
re-arming the socket for output; `HandleSend` re-arms it for input when it is done. The listening socket is edge
triggered; a client's socket is edge triggered and one-shot, and its re-arming in the handlers is the only thing
that lets the next event of the connection happen. Connections meet each other in four places: the descriptor table of the process, the
tables keyed by descriptor, the files in `filedir`, and the stream all header parsing shares.

**What is hard.** The re-arming comes before the end of the handler, so two workers can be inside handlers for the same
descriptor. Descriptors are used again as soon as they are closed, and the tables are keyed by them. Clients leave at any
moment. Requests arrive in pieces of any length. Files grow, appear and disappear while they are sent and listed. `setNonBlocking` (`utils/utils.cpp:111`) passes `F_GETFL` where
`F_SETFL` is meant and so sets nothing: **all sockets stay blocking**, no call returns `EAGAIN`, and every branch for
`EAGAIN` is dead. The models follow the code in this, not the comments. `PROJECT.json` lists the hazards, line by line.

**What makes the components correct.** Pool: no event lost, doubled, used after `delete`, or popped from an empty queue.
Main loop and handlers: a connection is always in exactly one hand, and belongs to the descriptor it was reported for.
Reception: the file gets the content of the upload, whatever the pieces, and the next request is found where it begins. Sending: each client gets its own answer, once
and whole, with the length that was announced; files are closed once. Startup: a loop that runs has all it needs. All: requests are answered, lost connections closed.

## The modules

| module | models | refinement / use |
|---|---|---|
| `EventQueue` | the abstract hand-over: first come first served, one worker per event | target of `ThreadPool`; the queue in `Reactor` has its `Hand` and `Take` |
| `ThreadPool` | `appendEvent`, `run`, and the pointer handling of `waitEpoll` | implements `EventQueue` |
| `Reactor` | main loop, the three handlers, tables, epoll, sockets, descriptor table, clients | composes the components |
| `RequestParser` | `HandleRecv::process` on one descriptor, byte by byte, for several requests, sent one after the other or ahead | looks closely at what `Reactor` has in one action per line |
| `Delivery` | the abstract answer: a head that announces a length, that many bytes, an end | target of `FileService` |
| `FileService` | `HandleSend::process` with its split, lengths and counts; the directory, its files and their contents; the saving of uploads | implements `Delivery`; looks closely at what `Reactor` has as head, body and one bit of file |
| `Lifecycle` | `main`, the pool's constructor, `create…`, `waitEpoll` with `isStop`, signals in any thread | the frame around `ThreadPool` and `Reactor` |
| `HeaderLines` | `Request::addHeaderOpt` on the static stream | – |
| `ThreadPoolProofs`, `FileServiceProofs`, `LifecycleProofs`, `RequestParserProofs`, `ReactorProofs` | – | theorems about the module of that name |
| `FileContentsProofs` | – | theorems about what files and lists contain in `FileService` |
| `ReactorCustodyProofs` | – | the theorem about the hands of connections in `Reactor`, with any number of workers and whatever clients do; extends `ReactorProofs` |
| `ReactorSoloProofs` | – | theorems about `Reactor` with one worker, whatever clients do; extends `ReactorCustodyProofs` |
| `MC…` | – | instances for TLC |

Operators whose comment begins with "Slip:" are not part of any specification: each is a plausible mistake in the operator
that follows it, and shows that the properties notice it when it takes that operator's place.

### ThreadPool

One action per call: `Report` (`new` in `waitEpoll` 228–259), `AppendLock/Push/Unlock/Post` (`appendEvent` 52–80), and for a
worker `SemWait`, `Lock`, `Pop`, `Unlock`, `Process`, `Delete` (`run` 95–134). `heap` records `new` and `delete`.
`AppendPost` includes `event = nullptr` (265), which only the main thread can see. `Process` is a stutter on the pool's
state; the handlers are in `Reactor`. The errors of `pthread_mutex_*` are left out (a default mutex does not report any), and
`sem_wait` is interrupted only in `Lifecycle`, since `main.cpp` installs no handler.

### Reactor

Handlers are cut into actions at the points where another worker can see or change what they work on: after each system
call, and before each later access to the tables.

| action | code |
|---|---|
| `ReportListen`, `ReportClient` | `waitEpoll` 228–266, and the one-shot disarming |
| `Take` | `run` up to `process()` |
| `Accept` | `AcceptConn::process` 7–23 |
| `RecvBegin` | 25–33: the entry is created |
| `RecvPiece` | one turn of the loop 36–322 up to the next `recv`, or up to and including the `modifyWaitFd` (133, 173, 305, 316) |
| `RecvComplate` | the assignment after the `modifyWaitFd` (134, 174, 306, 317) |
| `RecvLost` | 41–56 |
| `RecvEnd`, `RecvErase` | 325–339; 340 |
| `SendNothing`, `SendBuild`, `SendPage`, `SendResume` | 348–352; 357–502; the page of a list, for which the descriptor of `filedir` is open already; a Response that was built before |
| `SendPart`, `SendEmpty` | a turn of 504–625 |
| `SendEnd`, `SendRearm`, `SendTail` | 628–631 and 646–653; 632; 656–659 |
| `Throws`, `OutOfMemory` | 119 with `message/message.h` 84–126, and 366–380: an exception, or undefined behaviour, that ends the process; 691–699 without a page |
| `Connect`, `Ask`, `SendPiece`, `Read`, `Leave` | the clients |

Choices and why they are sound:

* *One report per `ReportClient`.* `epoll_wait` returns up to a thousand reports at once, and the loop appends them one after
  the other. A report disarms its descriptor in the kernel when it is collected; harvesting and appending in one action
  differs from the code only in how late the event is appended, and a disarmed descriptor cannot change hands meanwhile.
  Several connections that arrive before a `ReportListen` make one report; each arrival after it makes a new one.
* *One piece per `recv`.* A `recv` that returns several pieces has the effect of several in a row: the handler goes through the
  same states. Within a line the cuts are immaterial here; `RequestParser` has them all.
* *Parsing up to `modifyWaitFd` is one action.* Until the re-arming no other worker works on this descriptor's entries, unless one is
  still behind an earlier re-arming; its steps are actions of their own, so they interleave before or after.
* *`RecvEnd` closes, `RecvErase` erases*: the descriptor is free in between; `shutdown`+`close`+`DEL` are taken as one: what is
  visible of them is the free descriptor.
* *Descriptors run out.* `Fds` are those the process may still open. Accepted connections, open downloads and the `DIR` of every list
  (owner `"dir"`, never closed) take them; without one `accept` fails, a download is redirected, an upload is given up, a list reads a null
  `DIR` (the process ends) or, when only its page cannot be opened, never comes back (`"lost"`).
* *Clients* send the next request when they have the answer (no pipelining); a request that was answered by a redirection is
  over for the model.
* *Sends* are whole: on a blocking socket `send` returns when all is copied. A client that closed answers with a reset, at once
  or later; the send after a reset raises SIGPIPE and ends the process (`alive`). A reset that was not reported yet is returned as an error once.
* *Uninitialised fields* (`bodyType`, `fileMsgFd` of a `Response` nobody has built, read at 656) are those of the memory the object is created in. An entry that the worker at 656 creates
  itself gets, with `Recycles`, the memory that worker has freed last (631), as glibc hands it out. Of an entry another worker has created (130) nothing is known, whatever the allocator does: `bodyType` may be any, among them
  `FILE_TYPE`, which zeroed memory means, and any descriptor may be closed. Closing one outside `Fds` (0, the listening socket, epoll's) is a step without effect in the model.
* *Exceptions.* Nothing catches one, so each ends the process. A `malformed` request has a header that `addHeaderOpt` cannot take (`pop_back` of an empty string, `stoll` of what is no number, `substr` behind the end); a `blank` one has an empty resource, and so has
  an entry that 656 has left behind, if a handler should meet it (`substr(1)`, 380). While two workers are at header lines the shared stream may make any line malformed (`HeadersMixed`); which options it mixes up is the matter of `HeaderLines`.
* Data races inside `std::unordered_map` are not modelled: accesses are atomic.

`job[w].held` and `job[w].conn` are history variables: whether the worker has not given the connection back yet, and for
which connection its event was reported. The code has neither.

### RequestParser

Symbols stand for the texts the code compares with: CR, LF, the boundary line, `--`, a line of each kind, and any other
byte. The terminator `\r\n--boundary--\r\n` is six of them. `Recv` returns a piece of any length; `RequestLine`, `HeadLine`,
`Body`, `BeginFlag`, `FileHead`, `Open`, `FileContent`, `FileEnd`, `End` follow the sections of 69–341. `FileContent` is one turn of the writing loop
236–296; `SaveLen` is the number of bytes it writes. `Again` begins with the next request: on the same connection behind what the handler has left
unread, or, after `RecvLost`, on a new connection with the same descriptor. With `Pipelined`, `SendAhead` puts the next request behind the present one while the handler is at work, so that `recv` (38) may return bytes of both, and `End` erases them with the Request (329); `Again` then begins with
what the socket still holds, if anything. `recvFileName` is kept as the list of `filename` headers it was
built from, since the code appends to it; `framed`, `ahead` and `before` are history variables.

### FileService and Delivery

Every job is a request that has its own worker, so that any two steps of handlers may come in any order. A file is an inode, a
sequence of pieces tagged with the upload that wrote them; a name points to an inode, and an open file keeps it. One action per system call:

| action | code |
|---|---|
| `OpenDir`, `ReadDir`, `BuildPage` | `getFileVec`, `getFileListPage`, 384–408 |
| `OpenFile`, `StatFile` | 417–459 |
| `RemoveFile`, `BuildRedirect`, `Throw` | 461–502; `substr` of an empty resource |
| `SendHead`, `SendBody`, `SendEmpty`, `SendFails`, `Finish` | 504–660 |
| `Receive`, `Write`, `ReceiveLost` | 227–296, and the lost connection |

`Operation` is the split of the resource (`SearchEnd`, `HasFile`), including the wrap of `size() - 1`. The counts of `sendfile` are any number up to
`MaxChunk`; `Rest` is what is left of the announced length or of the file, whichever is shorter. `readdir` returns what is there all the time and may or
may not return what comes or goes meanwhile. The resource of a job is a sequence of words, among them names of regular files only. A job ends with its
answer; that the file is closed once although the code asks an erased entry for it is the matter of `Reactor`. SIGPIPE is a choice
(`SendFails` leaves `alive` open). `scan[j].always`, `scan[j].ever` and `original[j]` are history variables. The module has no fairness: clients may stop reading.

`Delivery` says what one answer is to its client. The mapping takes `head` and `got` for what is announced and received.

### Lifecycle

Each step of `main` is an action that goes on or returns the step's code. Connections arrive from `listen` on; signals come at any moment, to the main
thread (an interrupted `epoll_wait` goes round the loop) or to a worker (an interrupted `sem_wait` ends it). A pool whose constructor throws is freed under its own threads
(`UseFreed`); the member that main compares with `nullptr` afterwards was never set, so that main may go on (`PoolFailed`). `Handled` is `{}` for `main.cpp` and the
set of `addHandleSig()` for a caller that installs the handlers before the loop. An event is a connection's report, and a handler one step.

### HeaderLines

One action per call on the stream: `str`, `>>` with `pop_back`, `get`, `getline` with `pop_back`, and the store. A bad stream stays bad, as the code never clears it.

## What is checked

Passing runs:

| run | instance | shows |
|---|---|---|
| `pool` | 3 workers, 4 events | type and scope of pointers; semaphore = queue; no empty `pop`; mutual exclusion; custody of event objects; the pool implements `EventQueue`; one worker that returns serves everything |
| `one_worker` | 2 clients that may close, 3 descriptors, 1 worker, downloads and uploads | every answer is the client's own, once and whole; `HandleSend` always finds a Response; every request is answered; every connection that was closed is closed here |
| `departures` | 2 clients with FIN and RST, 3 descriptors, requests never finished, uploads that cannot be saved, lists that use up the descriptors, malformed headers and empty resources | one hand per connection, right descriptor, files closed once; the process ends only by a client that left, for want of descriptors, or at such a header or resource |
| `workers` | 2 clients that may close or reset, 2 workers, 2 descriptors, deletions | accept never blocks; a connection is in one hand and an event with its connection, although handlers overlap, until a worker closes a connection it has already let go of (339, 658) |
| `uploads` | all contents of ≤ 3 symbols, of 4 and 5 those that begin as the terminator does, all cuts, 2 requests, the second sent when the first is answered, or before, so that `recv` returns bytes of both | no byte lost, only content saved, all of it when answered; an answered GET or upload was received to its last byte, and what is then unread is the request behind it; a request that lost its beginning to the one before saves nothing wrong and is not answered; the loops end, and every request that begins where it should and is sent to its end is answered |
| `files` | 3 jobs on 1 name: list, download, delete, upload in all combinations, 2 descriptors, clients that go away | what each client gets is the file as it was when its length was taken; uploads mix but lose nothing; lists are right; descriptors; the split; the sending implements `Delivery` |
| `startup` | 3 workers, 3 signals of 4 numbers, 3 connections | a loop has all it needs; no worker and no return without reason; connections that come early are reported; a stop is heard at the next report |

Violated, each one against a sentence of a comment or of the repository's README (quoted in `PROJECT.json`):

| run | workers | the code |
|---|---|---|
| `slow` | 1 | stays in `recv` after half a request |
| `burst` | 1 | leaves the second of two simultaneous connections in the accept queue |
| `lists` | 1 | keeps a descriptor per list, until there is none for the next |
| `erase_race` | 2 | erases the next request of the connection |
| `header_mix` | 2 | saves an option from a line of another request |

More of what the code does against its comments appears in instances that have no run of their own:

| instance | fails | because the code |
|---|---|---|
| `MCReactor`, `Clients = {c1}`, `Workers = {w1, w2}`, `Kinds = {"list"}`, `Departures = {"close"}`, `PromptSpec` | `LeftClosed` | overwrites ERROR by COMPLATE (134) and leaks the descriptor |
| `MCReactor`, `Clients = {c1, c2}`, `Workers = {w1}`, `Kinds = {"list"}`, `Departures = {"abort"}` | `RightAnswer` | keeps the Response of a failed send (519), which the next client on the descriptor receives |
| `MCReactor`, `Clients = {c1}`, `Workers = {w1}`, `Kinds = {"list"}`, `Departures = {"close"}` | `alive` (becomes FALSE) | dies of SIGPIPE (512) |
| `MCReactor`, `Clients = {c1}`, `Workers = {w1}`, `Kinds = {"unsavable"}`, `Departures = {}` | `Tokens(fd) = 1` for a connected `fd` | forgets a connection whose upload cannot be saved (234); `OneToken` names this exception |
| `MCReactor`, `Clients = {c1}`, `Workers = {w1, w2}`, `Kinds = {"other", "download"}`, `Departures = {}` | `FilesAccounted` | asks at 656, after the erase, whether there is a file to close, and finds the next Response: the file that was sent stays open, against the comment at 655 |
| `MCFileService`, a download whose client goes away | `file[j] = NONE` | marks the wrong table (519, 592) and returns at 647 without closing the file, against the comment at 651; `DescriptorsAccounted` counts these files (`FailedDownloads`) |
| `MCReactor`, `Clients = {c1}`, `Workers = {w1}`, `Kinds = {"download"}`, `Recycles = FALSE` | `FilesAccounted` | decides by uninitialised fields which descriptor to close (656) |
| `MCRequestParser`, `Kinds = {"form"}` | `framed` | leaves the body of a redirected POST in the socket (171), where it is read as the next request line; `FrameKept` leaves it out |
| `MCRequestParser`, `Kinds = {"get"}`, `Pipelined = TRUE` | `framed` | erases with a request what it has already received of the next one (329), against `event/myevent.h:7`; only the end of that request is left in the socket |
| `MCFileService`, resource `<<>>` | `alive` (becomes FALSE) | lets `substr` throw (377) |
| `MCLifecycle`, a stop before `StartLoop` | `isStop` stays | forgets it (`fileserver.cpp:213`) |
| `MCLifecycle`, signal 14 | – | takes SIGALRM, and nearly every other number, for a stop: it tests a bit of `SIGINT` or `SIGTERM` (`fileserver.cpp:193`) |

Found by reading, since the head in `FileService` has only the length and the type: the head of a download has the last byte's number where the redirection's
address belongs (445; the comment at 743–744 has the order of the parameters), 2^64−1 for an empty file, and no range.

A repeated upload appends to what the first one left (`before` in `RequestParser`): `AnsweredIsSaved` says `file = before \o content`, not `file = content`.

**Why the passing runs are smaller than the system.** Because of these behaviours most of the properties do not hold of the code without
restriction, and each run's instance is the largest kind of environment in which its properties hold:
`RightAnswer` needs one worker (`erase_race`) and clients that do not reset (the half-sent answer reaches the next client). `OneToken` and `OwnConnection` hold with one worker; with several,
`HandsKept` says what is left of them: only the two late closes (339 after another worker's ERROR, and 658 by what 656 finds) can break them, and the step that does so is named. `FilesAccounted` needs one worker (line 656, in the table above), and so does `StaysUp`, since a handler of several may meet an entry
that 656 has created, or a stream another worker reads from. `Answered` is for requests that are sent to the end, on connections that were accepted
(`slow`, `burst`), and in `Reactor` without lists (`lists`). The runs with `Recycles = TRUE` assume the allocator gives a thread the memory it has just freed for an object of the same size.
`FileService` gives each job a worker and takes the tables for granted, so that what it says of answers holds as far as `Reactor`'s properties do.

**Bounds.** Two clients and two descriptors are enough for a descriptor to be used again by another client, three for one of them to be a
download's file or a list's directory as well. Two workers make every pairwise overlap of handlers. Each client connects once; how often it asks is not bounded, so
the state spaces of `Reactor` are finite without any cap. A content of up to `MaxContent` − 2 = 3 symbols is any;
longer ones, up to `MaxContent` = 5, begin with CR and consist of the terminator's symbols, among them the terminator without its last symbol, the longest false start there is; contents of at most `MaxRepeated` = 2 symbols are followed by a second request (`Attempts` = 2), which finds what the first left, in the socket and in the file. The second request may also be sent while the first is handled; it then is the one that has lost its beginning.
In `FileService` three jobs are one that reads, one that deletes or uploads meanwhile, and one that uploads with both; uploads of two pieces come between each other's pieces; a file of up to one piece
and `MaxChunk` = 1 make a download of the file before, during and after an upload, in as many calls as pieces; two descriptors are fewer than the jobs want. `Events` in `ThreadPool` bounds the number of allocations;
`MaxArrivals` and `MaxSignals` in `Lifecycle` give every thread a signal, or the main thread one before, in and after its wait.
Deadlock is checked for the pool, whose main loop can always turn again; the other models may stop, when all clients have left
(or wait behind half a request), all attempts or jobs are done, or the process has ended; `Answered` is what says that they do not stop with work to do.

**Fairness.** Main thread and workers are scheduled by the operating system and keep running (`WF` of their steps; a worker waits only in `recv`, `accept`, for the mutex and for the
semaphore). In `ThreadPool`, `Process` has no fairness: `process()` may wait in `recv` for a client. `OneWorkerSuffices` states its assumption, that one worker's handlers return, itself.
The clients of `Reactor` read what they are sent; `PromptSpec` adds that they send the rest of what they began, `FairSpec` does not, and no specification says that a client asks or leaves.
`RequestParser`: the worker runs and bytes on the way arrive. `Lifecycle`: the main thread runs; neither failures nor signals nor connections have to come, so `StopAtNextReport` is about a stop with a report that waits.

## What is proved

For every value of the constants, from the assumptions the modules state about them (`PoolAssumption`, `ServiceAssumption`, `ResourceAssumption`, `ParserAssumption`, `ReactorAssumption`, the two
`NoneAssumption`, `LifecycleAssumption`), the hypotheses in the last column, and nothing else:

| module | theorem | property | hypotheses |
|---|---|---|---|
| `ThreadPoolProofs` | `TypeCorrect` | `TypeOK` | |
| | `PointersValid` | `PointersInScope` | |
| | `SemaphoreCounts` | `SemaphoreExact` | |
| | `PopFindsEvent` | `NoEmptyPop` | |
| | `QueueIsExclusive` | `MutualExclusion` | |
| | `EventsInCustody` | `Custody` | |
| | `PoolRefinesQueue` | `ImplementsEventQueue` | |
| `ReactorProofs` | `TypeCorrect` | `TypeOK` | |
| | `AcceptNeverBlocks` | `AcceptCovered` | |
| `ReactorCustodyProofs` | `OnlyLateClosesHarm` | `HandsKept` | |
| `ReactorSoloProofs` | `OneHandAlone` | `OneToken` | `OneWorker`, `Recycles` |
| | `NoStrangersAlone` | `OwnConnection` | the same |
| | `SendsAlone` | `SendFindsResponse` | the same |
| | `FilesClosed` | `FilesAccounted` | the same |
| | `EndsOnlyThenAlone` | `StaysUp` | the same |
| | `OwnAnswerAlone` | `RightAnswer` | `OneWorker`, `Recycles`, `NoResets` |
| `RequestParserProofs` | `TypeCorrect` | `TypeOK` | `~Pipelined` |
| | `ContentConserved` | `Conserved` | the same |
| | `SavesContentOnly` | `SavesOnlyContent` | the same |
| | `AnswersAreSaved` | `AnsweredIsSaved` | the same |
| | `RequestsReadToTheEnd` | `FrameKept` | the same |
| `FileServiceProofs` | `TypeCorrect` | `TypeOK` | |
| | `AnswersAreWhole` | `AnswersWhole` | |
| | `SendfileHasMore` | `NeverPastTheEnd` | |
| | `ListsAndFailuresLeak` | `DescriptorsAccounted` | |
| | `SplitsRight` | `SplitRight` | |
| | `ImplementsDelivery` | `DeliversAnswers` | |
| `FileContentsProofs` | `ListsAreRight` | `ListsFiles` | |
| | `UploadsKept` | `PiecesKept` | |
| `LifecycleProofs` | `TypeCorrect` | `TypeOK` | |
| | `LoopComplete` | `LoopHasAll` | |
| | `EndsJustified` | `EndsForAReason` | |

The hypotheses on `Reactor` are those of the runs, for the reasons given above. `Recycles`: without it line 656 asks fields nobody has written which descriptor to close. It is about an entry that the worker at 656 creates itself, and is used with one worker only, where there is no other. `OneWorker` says that there are no two;
it puts no bound on clients, descriptors, kinds of request or departures. `NoResets` leaves clients that close as departures: after a reset the half-sent answer stays for the next client.
`~Pipelined`: the client sends its next request when it has the answer. Of a client that does not wait, the properties are checked by TLC only (`uploads`, `Pipelined = TRUE`); there `FrameKept` no longer says that every request begins where it should, which is false, but only what an answered request has left.

*ThreadPool.* `Inv1` = types, scopes and `SemaphoreExact` is inductive as a whole: that `Pop` finds an event (needed for the types) follows from the count, since a worker at
`pop` is one of the claimants the count includes (`ClaimMeansEvent`); how the set of claimants changes is the lemma `ClaimantsAfter`. `MutualExclusion` is inductive on top of the
types. `Custody` needs both: a push adds an event that only the main thread holds, a pop moves the head, and the lemmas on members and duplicates say what both do to
the queue. The refinement maps `m_workQueue`, `curEvent` and the freed objects to `EventQueue`'s variables; `AppendPush` is `Hand`, `Pop` is `Take`,
`Delete` is `Finish`, everything else a stutter. That the handed event is new is where custody is needed.

*Reactor, any workers.* `Types` is inductive alone; it is stronger than `TypeOK` where the tables have entries nobody has built. `Covered`: accepting workers, queued reports and the kernel's report are together never more than
the connections that wait, and it takes a count of the queue's places to say so (`At`, `AtAppend`, `AtTail`); that no `accept` waits is one of its consequences. `Custody` is what the re-arming before the end of a handler would break: a worker holds its connection only at certain steps
(`Phases`); epoll knows a descriptor exactly while a client owns it (`Registered`); epoll's report, the queue and the workers' hands exclude each other and each has the descriptor at most once (`OneHand`); and a hand's descriptor
still belongs to the connection of its event (`Rightful`). Every step of a worker passes its hand on, drops it, re-arms, closes or accepts (`Effect`, `WorkerEffects`), which leaves one lemma per effect instead of one per action. `Custody` is preserved by every step that closes no descriptor that is not the worker's own
(`ClosesOwn`). That is the argument for `HandsKept`, without any hypothesis about clients, requests or memory: `Types`, `Phases`, `Registered` and `FewHeld` (finitely many workers hold an event, so that hands can be counted) are inductive whatever is closed; in a state where every connection is in
the right hand they give `Custody` (`HandsCounted`), and a step either keeps it, which is `InRightHands` again (`HandsTold`), or is one of the late closes. The property is about steps and not states, since after such a close nothing can be said of the descriptor's next owner.

*Reactor, one worker.* `Alone` says it whatever clients do: `Solo` is what the handler has made sure of at each step, and holds because nobody else can undo it; `FreshResponses` and `FileUsers` (an open file has one user, and a user an open file) say
that what line 656 reads from an entry it has just created is nothing, so that the file is closed once; a connection is in a hand or was given up. `StaysUp` rests on the same invariant: a step that ends the process is the SIGPIPE of a send after a reset, the null `DIR` of a list, the end of the memory, or an exception (`EndingSteps`); of the exceptions `HeadersMixed` takes two workers, and a Response without a resource
(`EmptyResource(w, NONE)`) is never due to be sent: the invariant has a name in each that is (`Named`), because the next request's handler fills in what 656 has created before it asks for the output.

`RightAnswer` follows from `Serving`, which follows a request from its first piece to the last part of its answer. `Conversations`: what lies in a client's socket is the rest of its request, in order, and nothing was received or answered before the connection
was accepted. `Connections`: a connection is in one place of the backlog or has one descriptor, and is dropped only after the client has left. `Served` has three states of an accepted connection: the server is `Listening` and its Request is exactly what the pieces received so
far make of one; it is `Answering`, and its Response `Suits` the request and has sent what its status says; or it has `Finished`. Which of them may hold depends on whether a sending handler is due or at work (`Busy`); `Over` is the Response that has been sent and not yet erased, when
the client may already have asked again. `Tidy` says what a connection leaves in the tables when its descriptor goes to the next one: no Request, and no Response that was begun, because without resets no send fails (`SendsNext`). A Response that was not begun may stay; it is the next request's `operator[]` that
finds it, and overwrites what it says (`RecvPieceOwn`). Each step of a handler touches one descriptor's conversation and leaves the others' alone (`OthersStep`).

*RequestParser.* `Inv` = `Types`, `Place`, `Saved`. At each step of the handler `Place` says what is unread, in the buffer and still to come: a known end of the request (`Whole`, `AfterFirst`, …, `Text`, what `content` has left before the terminator),
or the handler is `Astray`, in what a redirected POST has left, and answers nothing. The lemmas say what searching and cutting do to such an end whatever the pieces were: a line is found only when its CR LF is there and then what follows is the next end (`TakeLine`);
`SavesContent` and `CutsContent`, that what `SaveLen` takes is content although content may look like the beginning of the terminator, rest on the terminator being found nowhere in the content (`FindsTerminator`) and on its symbols (`TerminatorSymbols`).

*FileService.* `Inv` = `TypeOK`, `JobInv`, `Balanced` is inductive; `Balanced` counts the descriptors by the jobs that hold a file or a `DIR`. `Held` says on top of it which jobs hold a file, by their step: those at work on one, and the downloads that failed; so `DescriptorsAccounted` follows. The types need the count: that `free` stays below `Descriptors` when a file is closed follows from the
closing job being one of those the count includes (`CanReturn`). `JobInv` says for each job that its Response (length, head, count of what was sent, text) fits the body it was built
for (`AnswerOf`), that the client has a beginning of that body (`SentTo`), and that a job that is about to open something has nothing open (`NotOpenYet`). The point is
the file of a download: its body is a *beginning of the file*, not the file, and stays one, because other jobs only make files longer (`DataGrows`; a deleted file keeps its inode). So what
`sendfile` adds is the next part of the body whatever its counts (`SendsWhatComesNext`), and there always is one (`SendfileHasMore`). For the
descriptors a step moves one job into or out of the set of those that hold one (`TakesOne`, `GivesOne`). The refinement maps
`SendHead` to `Announce`, `SendBody` to `Deliver` or, when `send` had nothing to take, a stutter, `Finish` to `Complete` while the client is there, `Break` to `BreakOff`, and everything else to a stutter; that the number received is the
announced one at the end, and never more before, is `SentTo`.

*Contents.* Two more invariants, inductive relative to `Inv`. `ListInv`: what a reader of the directory has listed is what `readdir` returned, without repetition, and changes of the directory only shrink `always` and widen
`ever`; when `readdir` is done, `always` is listed. `UploadInv`: only pieces below the upload's `next` are in a file, each in one place, in order; `Write` adds the piece `next`, which is in no file yet and
greater than all of its upload, at the end of one file, and nothing else writes (`PieceWritten`, `NothingWritten`).

*The split.* `FindsOperation`: for a resource of any length the search for the second "/" finds an operation exactly when the resource is "/", the operation, "/" and a name; the wrap of `size() - 1` matters only for the empty resource, which `substr` rejects.
`ResourceAssumption` is the form in which words stand for characters: the code passes over the first character of a resource without looking at it.

*Lifecycle.* `Inv` = `TypeOK`, `PoolMade`, `SocketMade`, `SignalsFirst` says what `main` has done by each of its steps; each action moves `main` over one boundary.

The inductive invariants of `Reactor` and `RequestParser` were checked with TLC on an instance before they were proved. Two attempts at a proof corrected a model: the arms of the `CASE` in `Open` overlapped, so that TLC took one of them where the definition leaves both open; and nothing said
what a resource is made of, without which the split is wrong for resources that cannot come.

Only model-checked: all liveness (`OneWorkerSuffices`, the `Answered` properties, `LeftClosed`, `StopAtNextReport` and their like): temporal properties that need fairness or `ENABLED` are out of the
prover's reach. A run that expects a violation has nothing to prove. No module has a `RECURSIVE` operator.

## Not modelled

* The text of pages and heads, `html/fileitem.html` (nothing reads it) and logging (`outHead`): wording. The order of the head's arguments at 445 with it, see above.
* The characters of header lines: `HeaderLines` has what a call on the stream does to lines, `RequestParser` their kinds.
* The steps inside `std::unordered_map`: two workers may insert and rehash at the same time. The outcomes of that are the library's, not this code's, and any of them could end the process.
* Pipelined requests in `Reactor`, and the body a redirected POST leaves behind. `RequestParser` has both on one connection: the action `SendAhead`, and what `rest` still holds at `Again`; but there the handler that sends the answer, and may be reported before or after the next input, is not in the model.
* Descriptors outside `Fds`: a close of 0, of the listening socket or of epoll's descriptor by line 658 has no effect in `Reactor`.
* A `filename` without a closing quote (207), and an upload's options that another worker's header line has garbled: the first is undefined behaviour, the second only ever seen in `HeaderLines`.
* Reports of epoll with HUP or ERR alone: `waitEpoll` makes no event for them (232–259), and the code's descriptors always ask for input or output.
* The event pipe: `epollAddEventPipe` cannot return 0, and nothing reads the pipe but `waitEpoll`; `Lifecycle` has its failure, not its bytes.
* The end of the process after `main` has returned: the static maps are destroyed while detached workers may still run.
* Errors of `pthread_mutex_*`, which a default mutex does not report.

## Plan

1. Pipelined requests in `Reactor`, with what a redirected POST leaves in the socket.
2. The maps as sequences of steps on buckets, for the outcomes that do not end the process.
