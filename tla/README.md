# StreamMonitor in TLA+

StreamMonitor polls the list of live broadcasts once a minute, keeps viewer
counts and titles in a SQLite file, and shows them in an MFC program that talks
to a push server through an SSH tunnel. Both services exist twice: in C++, which
is in operation, and in Python, the reference implementation that is kept for
tests and for going back to. This directory models the four services and the MFC
client as TLA+ modules, checks them with TLC on small instances and proves their
safety properties with TLAPS, for every value of the constants.

## The system

| Component | State | Operations | Interacts with |
|---|---|---|---|
| collector `sm_collector` (`cpp/collector/main.cpp`) | `g_stop`, time of the last purge, the poll under way, an open transaction | poll (pages, record, commit), hourly purge, sleep, signal | live-list API (may fail, rank moves between pages); SQLite |
| database (`cpp/common/db.h`) | `viewer_samples`, `stream_info`, `channels` | the collector's statements, the server's queries | written by the collector, read by the server, two processes |
| push server `sm_push` (`cpp/push/main.cpp`) | connections by descriptor, input and output buffers, timer, signal | accept, read lines, reply, flush, ping, time out, stop; queries | epoll, clients, SQLite (reads) |
| stream client (`mfc/StreamClient`) | `running_`, `connected_`, socket, `sock_mutex_`, ssh process and job, receive buffer | start, stop, requests (UI thread); tunnel, connect, receive, reconnect (its own thread) | ssh, push server; posts messages to the dialog |
| chart dialog (`mfc/MainDlg`) | channel list, rows, selection, filter, mode, replies shown, hover index | list and query buttons, mode, timer, replies, mouse, paint | stream client (calls, posted messages) |
| Python collector (`collector/monitor.py`) | as `sm_collector`; one connection whose implicit transaction stays open over a failure | as `sm_collector` | as `sm_collector` |
| Python push server (`push/push.py`) | set of writers; per client a reading and a pinging task and a stream buffer | read, answer, query in an executor thread, ping, shutdown | asyncio, clients, SQLite (reads) |
| OAuth tokens (`collector/chzzk/auth.py`) | access and refresh token, token file | refresh, save, load | |
| settings, logging, MFC shell, deployment | read once, or output only | | |

What is hard here: a process may die or be stopped at any step, and is started
again within the same minute; every request or statement may fail; the clock
moves while a poll is under way; the ranking moves between two pages, so that
one poll lists a channel twice; a reply is put together from two `SELECT`s with
a commit in between; the events epoll returns together go stale while they are
handled; a TCP stream is cut anywhere; three asyncio tasks write to one stream
and wait for it; two threads share a socket; replies carry an id nobody looks at
and meet a dialog that has moved on; one hover index points into samples that
are replaced. `PROJECT.json` lists these hazards at their lines.

What makes each part correct:

* collectors: the database is what whole polls reported, minus what expired (in
  Python: what a poll that ended well reported is there for as long as it should
  be); the title history has
  changes only; every channel keeps a title and its current count; a poll and
  the process end.
* queries: the titles a client finds in a reply are those that were reported,
  and the channel list has one current count, taken from its week.
* push servers: every line is answered once, in order, whole; buffers are
  bounded; time-outs are kept; descriptors come back; a stop ends them.
* stream client: lines are not mixed, of two threads or two connections;
  nothing is left after `stop()`; `stop()` returns; a lost connection comes back.
* chart dialog: rows and selection point to what they mean; a reply is shown
  where it belongs; a query is answered in the end; the rows are calendar weeks
  and the tooltip is of the sample under the mouse.

## Modules

| Module | What it is |
|---|---|
| `MonitorDb` | the three tables as sets of rows; the collectors' SQL statements and the title lookup as operators |
| `ViewerLog` | the abstract promise of the collector: polls are atomic, rows are never rewritten, only expired rows go |
| `Collector` | the collector's process over `MonitorDb`, its crashes, clock and signals; implements `ViewerLog` |
| `Readers` | `Collector` composed with the push server's queries, statement by statement |
| `MonitorPy` | the Python collector over `MonitorDb`, whose transaction outlives a failed poll |
| `LineService` | the abstract promise of a push server to each client |
| `Messages` | the replies among what a push server sends, without pings and bye |
| `PushServer` | the epoll loop, connections, buffers, timer and end of the push server; implements `LineService` |
| `PushPy` | the asyncio tasks of the Python push server; implements `LineService` |
| `StreamClient` | the two threads of the client, the tunnel and the network |
| `ChartDialog` | the dialog's list, modes, requests and replies |
| `ChartHover` | the time scale of both charts and the tooltip |
| `CollectorProofs` (with `Readers`), `MonitorPyProofs`, `PushServerProofs`, `PushPyProofs`, `StreamClientProofs`, `ChartDialogProofs`, `ChartHoverProofs` | the theorems of each component and their proofs |
| `CommonProofs` | facts about numbers, orders and sequences that several of them use |
| `MCCollector`, `MCReaders`, `MCMonitorPy`, `MCPushServer`, `MCChartDialog`, `MCChartHover` | definitions for the small instances |

Definitions whose comment begins with "Mistake:" are variants of the code, each
with one plausible bug. No specification uses them; they show that a property
notices the bug.

### Collector

One variable per piece of state of the program (`ts`, `lives`, `last_purge`,
`stop`); `pc` says between which two calls the process is. `BeginPoll` to
`Commit` are `run_once`: time stamp first, then one step per page, `BEGIN`, one
step per broadcast, `COMMIT`. `BeginPurge`, `DeleteSamples` and `DeleteInfo`
are `Store::purge`, two transactions. `FetchFails`, `RecordFails` and
`PurgeFails` are the catch of the main loop: all that follows in the loop body
is skipped, so a failed poll skips the purge. `Kill` may happen anywhere and
leaves the committed database. `observed` is a history variable: what committed
polls reported. A pair of category and title is one value; display names are
left out.

### Readers

It extends `Collector` by the state of one request: what was asked, and the rows
the first `SELECT` of `Queries::samples` returned. The second one sees the
database of its own start, after any steps of the collector (WAL mode). The
properties speak of what the client would find in the reply if the second
`SELECT` ran now: `Shown` is the search of the tooltip in its rows. The channel
list is one statement, hence a function of the database. Keys and grouping are
kept, the order of rows and the texts are not.

### MonitorPy

The same loop and tables as `Collector`. `tx` is what the connection sees: the
committed database unless a transaction is open. `Record(lives, n)` is
`record()` that returns, or fails after its n-th write; what it wrote stays in
`tx` over the sleep, the next poll and the purge, until a commit or the end of
the process. Nobody else sees an open transaction, so one action per call is
enough. The pages of a poll are abstracted to the list that `fetch_top_lives`
returns, which may name a channel twice.

### LineService

What `PROTOCOL.md` promises a client, in four variables per client: the replies
its lines deserve, those produced, those read, and whether the connection is
over. Replies come in the order of the lines and none is left out or produced
twice; what was produced and not read may be lost with the connection, what was
read stays.

### PushServer

The handlers (`accept_all`, `on_tick`, `on_signal`, `on_conn`) are one action
each, as the process has one thread. `Wait` is `epoll_wait`, which returns
`MaxEvents` of the ready events at most (`evs[64]`): which ones, when more are
ready, is any choice (`Batches`); that epoll goes round the ready descriptors is
not modelled. The events of a batch are handled in any order, and between two of them clients, clock and
kernel move, which is what makes events stale. A client's stream is a sequence
of pieces: a `part` has no newline, any other piece ends a line; so a line can
be cut at any point. Buffers count pieces and reply lines instead of bytes.
`QueryFails` is the `DbError` that nobody catches before `main`. What a query
replies is in `Readers`. A clock tick makes the timer readable at once. The
refinement maps the bytes sent to the replies deserved (`Replies`), and the
buffers, the kernel and the client together to the replies produced.

### PushPy

A task of asyncio runs alone up to the next `await` that has to wait; an action
is such a stretch. `task` and `ping` are the places of `on_client` and `ping`,
`goodbye` the place of `shutdown`. `Write`, `paused`, `Close` and `Resumed` are
what the tasks need of asyncio's streams: a write sends what the kernel takes
and buffers the rest, a full buffer makes `drain()` wait, a second `drain()` in
Python 3.8 fails an assertion, which ends the task. Kinds of pieces are those of
`PushServer` where the tasks tell them apart: `other` is a request that is
answered without a query, `junk` is no JSON object and answered without a
`drain()`. The queries are those of `Readers`. For the refinement, `Lines` splits
what a client sent into the answers of its complete lines and an unfinished
rest, which `Answers` counts as a line once the client has closed its side.

### StreamClient

Each thread is a program of its own: `ui` and `rx` are the places in `stop()`
and `run()`, `sending` is a call of `send_line`, which both threads make. A
line is sent in two parts, so that the mutex matters. Every read or write of
shared state (`running_`, `connected_`, `sock_`) is a step of its own; the copy
of the socket that `run` uses after the unlock is the variable `cur`. The ssh
process, the server and the network fail at any step.

### ChartDialog

One action per message handler. A request is a record in `pending`; a reply
carries the same channel and window. A lost connection drops the replies that
were not in the message queue yet. Points and titles of a reply are left out,
and the time zone offset is 0; `ChartHover` has both.

### ChartHover

`week0`, `multi_from` and the samples are those of `ChartDialog`; here they
carry points, which are times. `MouseMove` is `update_hover` on the rectangles
of the last paint, with its integer division of pixels to seconds, the lower
bound and its neighbour. `WeeksReply` and `DayReply` may be late: a reply
belongs to any earlier request. `hover_idx` is the code's `hover_idx_` plus 1,
so 0 means none. Viewer counts, the y axis and the layout are left out; of the
layout remains that a paint with another number of rows in the multi chart
(`MainDlg.cpp:691`) puts any of them under the resting mouse (`RowsMove`).

## Runs

A module's `TypeOK` is checked as an invariant or as a part of another one
(`RowsValid`, `ConnectedHasSocket`, `RowsAreWeeks`). `expect` is `pass` unless it says
otherwise.

| Run | Shows | Instance |
|---|---|---|
| `collector` | `OnlyChanges`, `CurrentKnown`, `TitleObserved`, `TitleKept`, `TypeOK`, `RoundBounded`; the steps implement `ViewerLog` | two channels, two titles, two broadcasts per poll, three minutes |
| `readers` | `ShownObserved`, `ShownIsTitleAt`, `CurrentInWindow`; `ImplementsLog` with two viewer counts; `StopHonoured` | one channel, pages that overshoot `TopN`, two ranges |
| `collector_untitled` | violation: after a purge some kept samples have no title | one channel, two titles |
| `monitor_py` | `OnlyChanges`, `CompletePolls`, `KeptWhileYoung` | one channel, listed up to twice, two viewer counts, two titles, failures after every write, three minutes |
| `push_lines` | `ImplementsService`, `NothingHeldBack`, `BuffersBounded`, `TypeOK`, `DescriptorsReturned`, `RequestsServed`, `StopEnds`, `StopBounded` | one client, three pieces of every kind but a hello, a send buffer of one reply |
| `push_fds` | `TimersServed` | two clients, two descriptors, at most a hello from each, hello time-out and pings due at every tick, batches of two events |
| `push_stale` | violation: a stale hang-up event closes the next connection with that descriptor | two clients |
| `push_py` | `ImplementsService`, `RequestsServed`, `StopEnds` | one client, three pieces, room for one line |
| `client` | `LinesWhole`, `LineOfOneConnection`, `NothingLeft`, `ConnectedHasSocket`, `StopReturns`, `StopBounded`, `Reconnects` | two socket handles, four lines on the wire, two parts of input |
| `dialog` | `RowsValid`, `MultiOfListed`, `SelectionStays`, `QueryShown` | two channels that fade or a list that is empty, one channel in the multi chart, a week boundary |
| `dialog_twoweeks` | violation: a day's reply is shown as the two weeks of the single chart | four lists |
| `chart` | `RowsAreWeeks`, `TipTracksMouse` | two channels, two histories, a week boundary |

`push_lines` leaves the hello and the bad request out: both are answered like a
query, without a query's failure, and `push_fds` has the hello.

### Bounds

* Time: `PollSec` = 2 gives a step inside a minute; `Retain` = 2 and
  `PurgeEvery` = 1 make every kind of row expire within the three or four
  minutes of `MaxNow`. A poll may start in one minute and commit in a later
  one, be retried in the same minute after a restart, and be followed by
  several purges. In `readers` all three are 1, which packs a title change, a
  purge of the row in force and a poll between two statements into two ticks.
* `TopN` = 2 with pages of one broadcast is the smallest poll that lists a
  channel twice or two channels; pages of two broadcasts exceed it.
* The ranges of `readers` begin before, at and after a change of the title.
  `Window` = 1 lets the current sample leave the week.
* `monitor_py`: a poll of two broadcasts has six writes, and fails after each
  of them; the statements treat each channel for itself, so one is enough. A
  channel's count changes alone or with its title, so that a poll without a new
  title has something to commit.
* `push_lines`: `MaxSend` = 3 with `MaxLine` = 2 passes the input limit with and
  without a complete line; `SndBuf` = 1 fills on the first reply and
  `MaxOutBuf` = 1 is exceeded by the third line, a ping included, so both limits
  of `BuffersBounded` are met. Two peers and
  two descriptors (`push_fds`, `push_stale`) are needed for a descriptor to be
  used again within a batch.
* `MaxEvents`: at most the descriptors, the listener, the timer and the signal are
  ready at once. `push_fds` has room for two of these five, so that events stay
  behind; `push_lines`, with one descriptor, for all four. `StopBounded` and the
  liveness properties are checked there: with less room they would rest on
  epoll's order.
  The 64 of the code have room for 61 connections.
* In `push_fds` `PingInterval` = 1 and `HelloTimeout` = 1 let one tick owe a
  connection both its ping and its time-out, twice within `MaxNow` = 2.
* `push_py`: `High` = `Low` = 0 pauses the writers as soon as the kernel takes no
  more, so that reading task, ping and shutdown meet in `drain()`. Clients share
  nothing but the shutdown, which passes them one after another.
* `MaxWire` = 8 is four lines per connection: hello, channels and two requests.
  The client never has more than one socket open; two handles tell an old one
  from a new one.
* Two channels with `MultiCount` = 1 let a channel leave the multi chart.
  `Day`, `Week` and `Tolerance` are 3, 9 and 2, which keeps their order;
  `MaxPending` = 3 is a refresh of the multi chart. In `dialog` a week begins at
  27, the last value of the clock, so that a reply meets the next week.
* `chart`: days of four seconds with an offset of one; weeks begin at 39, 67 and
  95, and the clock goes from 94 to 95. Rows have four pixels for 28 or 4
  seconds, which makes the mouse hit samples exactly, nearly and not at all.

Symmetry (channels, titles, peers) is used in runs without liveness
properties only.

### Fairness

* `Collector` (also within `Readers`): requests and the database wait have
  time-outs and the sleep ends, so the process takes its next step; the clock
  advances. Restarts are not assumed.
* `PushServer`: the loop gets to its next handler, and a client reads what
  arrives (`RequestsServed` cannot hold otherwise). Clients need not send
  anything, hang up or be well behaved.
* `PushPy`: the event loop runs what is ready, a query in an executor thread
  returns, and clients read. Here `StopEnds` needs the clients to read, too:
  `shutdown` waits in `drain()` without a limit of time (`push.py:189`), where
  the C++ server makes one attempt.
* `StreamClient`: each thread takes a step it can take. The receiving thread gets
  the mutex if it is free again and again (strong fairness): the UI thread holds
  it for one line, and asks after user input or a message, not in a loop. Under
  weak fairness a UI thread that asks for ever keeps the receiving thread from
  noticing a dead connection. Of an ssh that is started again and again
  one attempt succeeds (strong fairness of the success branch); `Reconnects`
  assumes that the server stays up and ssh no longer dies.
* `ChartDialog`: posted messages are dispatched, and the periodic timer fires
  again and again (strong, as it cannot ask while the bound on `pending` is
  reached).

`CHECK_DEADLOCK FALSE` is used for the collectors only (`collector`,
`collector_untitled`, `readers`, `monitor_py`): the clock stops at `MaxNow`, and
a sleeping process is then the end of the behaviour.

## Proofs

The proofs use the named assumptions of the modules (`ConfigAssumption`,
`RangesAssumption`, `PyAssumption`, `ServerAssumption`, `PushPyAssumption`,
`ClientAssumption`, `DialogAssumption`, `ChartAssumption`), which TLC evaluates
in the runs, and nothing about the sizes of the instances. Each inductive invariant was an
invariant of a TLC run before it was proved.

### Numbers, orders, sequences (`CommonProofs`)

The library's induction theorems take an operator as a parameter, which the
provers cannot instantiate. `Least` and `AllNumbers` are induction with a set in
the place of the predicate, from the well-foundedness of the naturals.
`Recursion` is the existence of the function a recurrence defines; every
recursive function of the models gets its type and its equations from these two.
`Ranked` numbers the members of a finite set of naturals in their order, and
`EveryRank` those of any finite set under a strict order. `Prefix` relates what
was delivered, answered and asked; `WithoutConcat` says that the replies among
the messages may be picked part by part.

### Collector (`CollectorProofs`)

* `TypeCorrect`: `TypeOK` always holds. It is not inductive: cutting the result
  to `TopN` must not cut it below `row`, so `TypeInv` adds that `row` is 0
  outside of `record`.
* `Inductive`: the invariant `IInv`. It says, of the committed database and of
  the image an open transaction works on, that `stream_info` has its key, every
  listed channel has a newest title, the history has changes only, the spans
  cover the samples and titles were reported (`Consistent`); and that no row is
  later than the time stamp of the poll under way (`Dated`). The last part is
  what carries the argument: the time stamp is older than the clock, but not
  older than any row, because time stamps do not go back (`FloorMonotone`).
  Therefore a new title row is the channel's newest, and the comparison with
  the newest row is a comparison with the neighbour in the history.
* `HistoryOfChanges`, `CurrentIsKnown`, `TitlesObserved`, `TitlesKept`: the four
  safety properties of the collector, from `IInv`. There is one lemma per
  property for a recorded row (`RecordNewest`, `RecordChanges`, ...) and one for
  each statement of the purge.
* `Implements`: every behaviour of `Collector` is one of `ViewerLog`. `LogInv`
  adds that samples were counted, that what was reported in the current minute
  is still there (a purge stops short of it because `Retain >= PollSec`), and
  how the transaction's image differs from the database. A `Commit` is then
  `Poll(ts)`, the two statements of the purge are `ForgetSamples` and
  `ForgetTitles`, a tick is `Advance`, and everything else stutters.
* `RoundIsBounded` (`RoundBounded`): each step of a round lowers `StepsLeft`. A
  page that does not end the list adds a broadcast to it (`PageBounded`), and
  the list is shorter than `TopN` there (`Bounded`), so the server cannot
  prolong a round by pages. A step that fails or is killed skips part of the
  round and is nearer to its end too (`SleepNearer`, `GoneNearer`).

### Readers (`CollectorProofs`)

The theorems are about `ReaderSpec`, whose steps are those of `Collector` or
leave the database alone, so `IInv` and `LogInv` hold there too.

* `HeldInvariant`: the rows of the first `SELECT` may be gone from the database
  when the second one runs. What survives is `HeldInv`: they are not later than
  a poll under way, and the title found for a held row is one that was reported
  for its minute, as if the row were still there. A purge keeps this because it
  can take away the title in force but never lets an older one show through
  (`PurgedTitle`).
* `ReplySuffices`: the client's search in the rows of the reply finds what the
  definition of the title at T finds in the whole table, from the shape of the
  two halves of `info_` alone. `ShownWasObserved` follows from both.
* `CurrentIsInWindow`: `Consistent` has a sample at `last_seen` that is not older
  than any sample of the channel, hence as young as the one for which the
  channel is listed; that it is the only one follows from the primary keys of
  samples and channels, which statements and purges keep (`KeyInv`).

### Python collector (`MonitorPyProofs`)

Two databases are to be kept here: the committed one and the image of the
connection, which may hold the beginning of a failed poll over many later calls.
`IInvariant` proves `IInv`:

* `DbInv` of both: `Consistent`, as in `Collector`; `Dated`, that no row is later
  than the minute of the clock, so that the next title row of a channel is its
  newest, committed or not; and `Complete`, that of every broadcast of a poll that
  returned the channel is listed up to its time, that there is a sample of its
  minute if the minute is not older than the retention (`Sampled`), that the
  title found for the minute was reported in it (`Settled`), and that one is
  found unless a newer row has superseded it and it was too old (`Titled`).
* `SamplesReported`, that every sample, of whichever poll, holds a count reported in its
  minute: a sample that was there before keeps its count (`INSERT OR IGNORE`).
* `PollsPast` and `PollInv`: polls that returned are not later than the minute of
  the clock, and during a poll neither they nor any row of the two databases are
  later than its time stamp. They may have the same one: a poll that is retried in
  its minute meets the rows of the failed one.
* `Young`: the open transaction has deleted no committed sample that is younger
  than `Retain`, which a commit needs for `KeptWhileYoung`.

`Written(d, t, l, n)`, the first `n` writes of `record()`, is a recursive
function; `WrittenRecursive` is its recurrence, `WriteKeeps` says for each of the
three statements what it keeps, `WrittenKeeps` is the induction. A call that
fails after any write is thereby no case of its own. From `IInv` follow
`HistoryOfChanges` (`OnlyChanges`), `PollsAreWhole` (`CompletePolls`) and
`YoungSamplesKept`, the action property `KeptWhileYoung`.

`CompletePolls` asks for the rows of a poll that returned without a condition
other than age: the span for ever, the sample while its minute is younger than
the retention, a title unless its row was too old and another followed. A purge
moves the cutoff on (`CutoffMovesOn`), which only weakens this (`CompleteAges`);
a commit must not lack any of it, and that it lacks nothing an earlier poll had
is why `Complete` is kept of both databases.

### Push server (`PushServerProofs`)

* `ServerInvariant`: `IInv` is the types, that the descriptors of `conns_` are
  those of open connections and a process that is gone has none
  (`Connections`), and the time and the limits of each connection (`Timers`,
  `Buffers`). `TimersServed` and `BuffersBounded` hold for the descriptors
  between two batches; the invariant has them for every connection and state
  in which the timer is not due.
* Each operation of a connection has a lemma of its own (`ReceivedBounded`,
  `FlushOrCloseBounded`, `HandledBounded`, `TickedInTime`), each step of the
  process puts them together (`OneHandled` for those of one connection). The
  type of `Replies` (`RepliesType`) and that accepted connections get distinct
  descriptors (`Ranked`) need induction.
* `ServerTypes`, `BuffersStayBounded`, `TimerMissesNobody` follow.
* `ContentKept` is the invariant the content of the replies rests on. What the
  server has read is what the client sent less `rcvq`; while the connection is
  open, `in` is the unfinished line of that and the replies in `out`, the kernel
  and the client are together `Replies` of it; afterwards they are a beginning
  of it. The step is that `Replies` may be taken read by read: of `in` with a new
  read appended it is what follows for the new complete lines, and the rest is
  again `Unfinished`. The identity of a reply, its first piece, survives because
  a line that is cut stays at the front of `in`.
* `NothingIsHeldBack` (`NothingHeldBack`) is what `Content` says of open
  connections, with `EPOLLOUT` on exactly while something is buffered.
* `ServerImplements`: every behaviour of `PushServer` is one of `LineService`
  under the refinement mapping (`ImplementsService`). For each
  client (`Moved`) a step is one of its actions or a stutter; a timer, an accept
  or the end of the process is a step of several clients at once.
* `StopIsBounded` (`StopBounded`): once the signal is pending or `stop_` is set,
  a handler takes one event from a finite batch (`HandlerNearer`), and the one
  `epoll_wait` that may still come returns the signal and at most an event per
  descriptor and three more (`ReadyBounded`, `WaitNearer`), provided `evs` has
  room for all of them (`AllFit`, `AllTaken`): else the signal could be left
  behind. `Requests` adds to
  the invariant that a process that is gone left no batch and no request.

### Python push server (`PushPyProofs`)

* `PyInvariant`: `IInv` says of each connection (`Good`) that while `on_client`
  reads or waits in `drain()` and the connection stands, what the client asked
  for is what was answered, followed by what the unread pieces deserve; during a
  query the line in hand comes in between (`Waiting`). Once the task has ended
  or the connection is over, what was answered is a beginning of what was asked.
  The unfinished rest of what was sent is that of the unread pieces, which makes
  the next piece, or the end of the stream, add the same answer to both sides
  (`WaitingMore`, `WaitingEnd`).
* `FirstEndCuts` and `LinesAfterLine` are the facts about lines: `readline()`
  cuts off a whole line or takes the rest, and the lines after a complete one are
  those of what follows it, for every cut into pieces. `ReplyWritten` is the step
  that answers.
* That three tasks write to one stream costs nothing once `Write`, `Sent`,
  `Close` and `Resumed` are seen to keep the order of the stream (`SentStream`,
  `WriteAppends`); a message of `ping` or `shutdown` between two replies is no
  reply (`NoteAdvanced`). What is buffered is lost only with the connection: in
  a reset, and when the process ends (`TakenMoved`).
* `PyImplements`: for each client every step is one of `LineService`'s or a
  stutter (`Moved`), which is `ImplementsService`.

### Stream client (`StreamClientProofs`)

`ClientInvariant`: `Types`; `Control`, which says what the flags, the open
handles, the tunnel and the job are at each place of the receiving thread;
`Sends`, that a thread between two parts of a line holds the mutex; `Stream`,
that the parts in the receive buffer, on their way and to come alternate, once
`run` has cleared what an earlier connection left. From it `LinesAreWhole`,
`LinesOfOneConnection`, `ConnectedWithSocket` and `NothingIsLeft`. The last one
rests on `Control`: the only open handle is the published one or the one in
`cur` right before it is published, so a thread that has ended left none, also
when `stop()` looked for the socket before it was there.

`StopIsBounded` (`StopBounded`): while `stop()` waits, each step of the receiving
thread lowers `StepsLeft`, the places still to pass and the steps of the line in
hand (`RxNearer`, with `CallNearer` and `SendNearer` for a line). The flag is
tested on the way back to the top of each loop, so there is no step upwards, at
whatever place `stop()` met the thread.

### Chart dialog (`ChartDialogProofs`, `ChartHoverProofs`)

* `SelectionIsKept` is an action property and follows from each step alone: the
  list is rebuilt by `fill_channels` only, which looks for the channel that was
  selected before it touches anything. No invariant is needed.
* `MultiRepliesAreListed`: `MultiOfListed` is inductive itself.
* `RowsAreValid` (`RowsValid`): the rows of the list are channels of the list,
  each in one row, and the selected row is one of them. The part about `view` is
  that sorting and filtering number the members of a finite set (`EveryRank`,
  `RowsAreChannels`); the types of the replies under way are needed because a
  list that arrives replaces `channels`.
* `RowsAreCalendarWeeks`: week starts are multiples of seven days in the shifted
  time zone (`Division`, `Monotone`, `WeekOf`), for any offset and length of a
  day. `RowsInv` relates the scale to the latest request.
* `TipStaysAtMouse` (`TipTracksMouse`), with `TypeCorrect` and
  `SamplesInvariant`: samples are in the order of their time and none is twice
  (`SamplesInv`); the lower bound of `update_hover` and the interval of a reply
  are then what their names say (`LowerBoundOf`, `WithinOrdered`), and the sample at the bound or its
  predecessor is nearest to the mouse among all of the row (`NearestOf`), not
  only among the two that are compared. What replaces the samples in the single
  chart also searches again; in the multi chart neither a reply nor a paint with
  another number of rows does, which is the exception `OtherRows` that the
  property makes.

### Model-checked only

All liveness (`StopHonoured`, `DescriptorsReturned`,
`RequestsServed`, `StopEnds`, `StopReturns`, `Reconnects`, `QueryShown`):
liveness under fairness and `ENABLED` are out of the prover's reach. Of
`StopEnds` in the C++ server and of `StopHonoured` and `StopReturns` the
part that depends on the code's control is proved: `StopBounded` and
`RoundBounded` bound the number of steps. What is left to TLC is that a thread
that is not done can take a step (no deadlock) and, by fairness, does.

## Where the code and its documents differ

* `README.md:79` defines the title at T as the newest row not after T. The
  purge (`collector/main.cpp:181`) also deletes the row that was in force at
  the cutoff when a newer one exists; samples between the cutoff and that newer
  row have no title (`collector_untitled`).
* A stale hang-up event reaches the connection that inherited the descriptor
  (`push/main.cpp:239`, `push_stale`).
* A reply for the multi chart whose channel has left it is taken for the single
  chart's (`MainDlg.cpp:364`, `dialog_twoweeks`).

`README.md:25` calls the Python programs a reference implementation of the same
behaviour. Where the models show them to differ:

* a failed poll is rolled back in C++ and stays in the open transaction in
  Python (`monitor.py:103`); the history keeps its form either way;
* complete lines that arrive together with the end of the stream are dropped by
  the C++ server (`push/main.cpp:253`) and answered by the Python server, as is
  an unfinished last line; `LineService` allows both;
* the hello time-out counts from the connection in C++ and from the last line
  in Python;
* the input limit counts the whole input in C++, complete lines included, and
  each line in Python;
* in Python 3.8 a ping and a reply that wait for the same stream end one of the
  two tasks: a client may stay connected without pings.

Not stated as properties, visible in the models: the hourly purge waits for a
poll that succeeds; a request of the UI thread can precede the hello, which
`PROTOCOL.md:11` calls the first message (`StreamClient.cpp:277`); in the multi
chart new samples, or another number of rows, under a resting mouse leave the
tooltip's index where it was until the mouse moves (`OtherRows` in
`TipTracksMouse`).

## Not modelled

* Texts: JSON, HTTP and SQL as strings, display names, the push server's `stats`
  query (four counts), the title above the chart.
* Painting, placement of labels, layout (also what a change of the window's size
  moves under the mouse), axis steps, the order in which epoll serves, and the ownership of the
  objects that posted messages carry.
* OAuth tokens: the services use only the client headers of `auth.py`; the cycle
  of refresh and save is used by the manual test `test_auth.py` alone.
* Settings (they are the constants; values outside the documented ranges are
  excluded by the assumptions), logging, the MFC shell, tests and deployment.
* A clock that is set back, and replies to the multi chart that are later than
  the tolerance of 300 s.

## Plan

Done: all modules above, and the proofs of all safety properties. What would come
next:

1. `StreamClient` composed with `PushServer` over one TCP connection.
2. A clock that is set back, in `Collector` and `ChartDialog`; late replies.
