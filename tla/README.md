# movactl in TLA+

movactl controls televisions and receivers over serial lines. A daemon
(`movactld`) owns the lines; clients connect to it over TCP or local sockets to
send commands, to ask for a status, or to listen for changes. This directory
holds TLA+ models of the daemon and of the programs around it, TLC runs on small instances of them, and TLAPS
proofs about them.

    tlc -config MainLoop.cfg         MCMainLoop
    tlc -config LgeStatus.cfg        MCLgeStatus
    tlc -config MarantzStatus.cfg    MCMarantzStatus
    tlc -config ApiServer.cfg        MCApiServer
    tlc -config ApiServerMissed.cfg  MCApiServer       (ends with a violation)
    tlc -config Movactld.cfg         MCMovactld
    tlc -config Bos.cfg              MCBos
    tlc -config Listener.cfg         MCListener
    tlc -config Theatre.cfg          MCTheatre
    tlc -config Movactl.cfg          MCMovactl
    tlc -config CliNotify.cfg        MCCliNotify
    tlc -config CliNotifyTwo.cfg     MCCliNotify       (ends with a violation)
    tlapm BackendDeviceProofs.tla; tlapm DriverProofs.tla; tlapm DaemonProofs.tla; tlapm ApiServerProofs.tla
    tlapm MovactldProofs.tla; tlapm MovactlProofs.tla; tlapm ClientProofs.tla; tlapm TheatreProofs.tla

## 1. The system

Everything in the daemon runs on one thread, as callbacks of one libevent loop;
a callback runs to its end before another starts. What makes it hard is what may
come between two callbacks, and the places where a callback changes the data
structure it was called from.

| Component | State | Operations | Interacts with |
|---|---|---|---|
| Output list, `backend_private.hh` 34-86 | a `forward_list` of messages, two iterators | push, pop, to_send, inptr, clear | owned by a backend device |
| Backend device, `backend.cc` | the line, the input buffer, the output list, the write timer | open, close, send, writecb, readcb, remove_output | the line; its driver's `update_status`; the main loop through `event_loopexit` |
| LGE driver, `lge_status.cc` | none but the output list: what it wrote and is waiting for | send_command, send_status_request, update_status | device below, notify chain above |
| Marantz driver, `marantz_status.cc`, `marantz_command.cc` | the last values, which automatic status layers are on, which fields are known | the same, and open, which asks for a layer | the same |
| Notify chain, `status.cc` | a `forward_list` of callbacks, newest first | start_notify, stop_notify (by a token's destructor), notify | drivers call notify; callbacks are `api_ss_conn`'s |
| API serverside, `api_serverside.cc` | per socket a name and `disabled`; per connection its buffer and a map from code to token | accept, eight commands, hangup | clients; notify chain; driver |
| Main loop, `daemon.cc` | `running`, libevent's pending timers and signals | reopen all devices, dispatch, sleep, quit on SIGTERM | all |
| BOS supervisor, `bos.cc` | the child's pid, the exit code | spawn, run, reap | parent of the daemon or of the listener |
| Listener, `listener.cc`, `spawn.hh` | what it believes of devices and receiver, a socket to check the playstation, timers of the links, the airplay connection and its buffer | update, switch_from, the check, connecting again, sessions | movactl children, mii-tool, serial port, TCP |
| CLI, `cli.c` | the lines it is connected to, the candidates left | filter by QCMD, SEND, SENA, SDIS | the serversides |
| Client notifications, `cli_notify.c` | its subscriptions, the conversation's state | ask (QSTS), subscribe (STRT), end (STOP) | the serverside |
| Completion, `complete.c` | the candidates left, the words read | complete | CLI and `cli_notify.c` |
| base64, `base64.c` | none | integers of 24 bits to four characters and back | `notify` writes, `cli_notify.c` reads |
| launchd, `smart_*`, `osx_system_idle.c`, scripts | none or an OS handle | system calls | |

What makes each correct:

* Output list: the iterators never dangle, though the allocator reuses addresses.
* Device: what is sent is written once, in order, with the rest each command
  asks for between writes, and nothing stays behind without a timer to write it; what
  comes in is cut into the packets the other side sent.
* LGE driver: the written part of the list tells what the television has still to
  answer, so that half an answer is completed to the right command.
* Notify chain and serverside: every node belongs to one token of one live
  connection; every subscriber is told every report once; a query is answered.
* Marantz driver: a status layer that was asked for is not switched off by asking
  for another one.
* Main loop and BOS: a lost line or a dead child is replaced, once; a termination is final
  and comes to its end.
* Listener: what it believes follows the links and the receiver, and no device takes
  the receiver from another when it goes off; the television goes off with the receiver.
* Clients: every wait has an answer that ends it, and a device is told only a command that was
  meant without doubt.
* Completion: pruning a list word by word finds the names that fit best.
* base64: what is read is what was written, as far as 24 bits hold it.

The behaviours that are hard to test are listed under `hazards` in
`PROJECT.json`, each at its line.

## 2. The modules

| Module | Models | State | Actions |
|---|---|---|---|
| `OutputList` | class `output_list`, as operators on a record | (list, send_iter, insert_iter) | `Push` `Pop` `ToSend` `PopN` |
| `OutputLine` | the abstract promise of a device: an ordered line | `line awaiting unsent resting` | `Open Send RestOver Answer Stop` |
| `BackendDevice` | class `backend_device` on an `OutputList` | `output write_ev loopexit daemon` | `Reopen Send WriteTimeout Packet Eof Exit Tick` |
| `MainLoop` | the main loop and `readcb`, extends `BackendDevice`: one device with its input, and others whose lines end | adds `running asleep sigterm exit_timer hung wire saying input clean` | `ReopenDevices ReadCb EndOfLine LoopExit GoToSleep EndNormally Fail QuitEvent Signal MainSend MainWriteTimeout MainTick HangUp Says` |
| `LgeStatus` | the LG driver, extends `BackendDevice`, with the television as its environment | adds `inflight` | `LgeSend LgeWriteTimeout Answer Stray LoseAnswer LgeReopen LgeEof LgeExit LgeTick` |
| `MarantzStatus` | the Marantz driver, extends `BackendDevice`, with the receiver as its environment | adds `auto_status_feedback_layer mask incoming inStep` | `MaOpen MaSend MaWriteTimeout UpdateFeedback UpdateValue UpdateNull Report LosePacket MaEof MaTick MaExit` |
| `ApiServer` | `api_serverside.cc` on `status.cc` | `disabled server partial codes notify_chain owed alive` | `Accept Receive ReceivePart Hangup Answer Report LoseAnswer Reopen Crash Terminate` |
| `Movactld` | the serversides on the LG driver: extends `LgeStatus`, instantiates `ApiServer` | `LgeStatus`'s and `server codes notify_chain said orphans` | `Accept Receive Hangup TvAnswers TvStrays TvForgets DeviceWriteTimeout DeviceTick DeviceEof ReopenDevice Terminate` |
| `Bos` | the supervisor, with its children and the signals as environment | `bos sig child state exiting exit_code proc ending` | `Spawn SpawnFails Sigwait Took Poll Signalled ChildEnds ChildStops` |
| `Listener` | the listener on its io_service, with the links and the receiver as environment | `session values socket connecting armed ready link stereo reports` | `Start SessionEnds Dies HearSource Line LinkChanges TimerExpires RunLink ConnectDone RunCheck UserSelects Answers` |
| `Theatre` | the listener with the receiver's power and source, the television, the airplay connection, and people | `up values conn buffer power source tv reports unasked playing wire mid stray torn` | `Start SessionEnds HearReport Line Receive ConnectionEnds Reconnects AirplayChanges AirplayGoesOn UserSelects UserSwitches Answers` |
| `Sources` | the tables of `listener.cc`, for `Listener` and `Theatre` | | |
| `Values` | a value on its way: the drivers' update functions, `base64.c`, the callbacks of `cli_notify.c` | | `LgeValue` `MaValue` `Base64Int24` `Debase64Int24` `Payload` `Shows` |
| `CliNotify` | `movactl status` and `listen`, the connection and the serverside's side of it, with `Values` | `client argi notifies shown toServer toClient codes disabled owed alive` | `Ask Reply Listen Eof Handle DeviceAnswers LoseAnswer Report SetDisabled DaemonEnds` |
| `Cli` | `movactl` once it has its candidates, on several lines of a daemon | `asked left client fd answers request toServer toClient alive disabled` | `Completed Ask Reply Decide Send Handle SetDisabled DaemonEnds` |
| `Complete` | `complete.c` | `names args cands argi argo read returned` | `ReadWord Finish` |
| `Movactl` | `main()` of `cli.c`: composes `Complete` and `Cli` | those of both | those of both |
| `BackendDeviceProofs` `DriverProofs` `DaemonProofs` `ApiServerProofs` `MovactldProofs` `MovactlProofs` `ClientProofs` `TheatreProofs` | theorems, section 4 | | |
| `MC*` | the instances TLC checks | | |

`LgeStatus` composes the driver with the device by extension: each of its actions
is an action of `BackendDevice` and says what happens on the television.
`BackendDevice` implements `OutputLine` under the refinement mapping `Abs`. `Movactl` extends `Complete` and `Cli`, whose
variables are disjoint: `Completed` takes the candidates when complete() has returned, and `Decide` the
number of arguments that are left. `Movactld` uses the handlers and the notify loop of `ApiServer` as functions of
the state, in which `owed` is what the driver's list has of requests.

How the models correspond to the code:

* **Addresses.** An iterator of a `forward_list` is the address of a node, so nodes
  carry addresses and `Send` puts a node at any free one, one that an iterator may
  still hold included. An iterator of an absent node has no position, and the
  operators say nothing of what using it does. `PopN` is the closed form of n
  calls of `remove_output`, `PopNIsRepeatedPop` proves it.
* **Time.** `write_ev` counts down in ticks to the timer's expiry; `Tick` is the clock,
  `WriteTimeout` the callback, which may come late. A rest of 0 still arms the
  timer, as it does in the code. `rest` is a history variable, kept apart
  from the timer: how long the device must still be left alone.
* **Packets.** `Packet(n)` is a call of `update_status` that retires n written messages.
  One `readcb` may call it several times; in `LgeStatus` other callbacks may come in
  between, which allows more than the code does. In `MainLoop`, `ReadCb(k, n)` reads k bytes and
  retires n messages for all the packets there are. A report is two halves and a separator, any of
  which the line may garble to a NUL. `clean` is history: nothing excuses the first packet from being whole.
* **End of file.** `event_loopexit` ends the loop after the turn it is called in, by a timer of its own:
  `Eof` sets `loopexit`, callbacks may still run, then `Reopen` closes and opens
  every device. With several devices, the end of file may be another one's. `MainLoop` has the timer
  (`exit_timer`), the sleep in which no callback runs, and the lines that have ended (`hung`), which
  are read again as long as they are open: whether once more in the turn in which the timer fires depends on libevent, and
  `LoopExit` has both. SIGTERM is caught at any time and dispatched by the next `event_dispatch`. `Fail` is any error that ends the
  daemon, an exception out of a callback included.
* **The television** reads what is written in order and answers in order. It may
  lose an answer or say something nobody asked for; a reopening does not reach it.
  `aligned` and `lossless` are history variables that say when a promise holds.
* **The receiver** takes a message when it is written or misses it, answers and
  reports into `incoming`, where packets may be lost; a reopening may find old packets
  there. `inStep` is a history variable: the mask and the belief can agree only if the
  answer to the last request it took was not lost.
* **A callback that sends.** `ma_status::open` and `update_status` send in the same
  callback as they close, open or retire messages, so `MaOpen` and `UpdateValue` are one step
  each, and are not steps of `BackendDevice`; `MaInv` has `BackendDevice`'s `Inv` to be
  shown anew. A packet with no code the driver knows retires what was written and does
  nothing else, like a code of layer 0.
* **The digit.** `Digit` is what the code makes of a hexadecimal digit: A to F count from
  0, where 0 to 9 are read as they are. A mask of 10 or more is so believed
  to be a smaller one, and the next request switches the forgotten layers off;
  `NoLayerDropped` therefore speaks of masks below 10.
* **Null.** Codes like CUR are in the table without an update function and
  `update_status` calls it: `UpdateNull` ends the daemon, as a call to address 0 does.
* **Messages** are model values with a first and a second letter; the codes
  `lge_notifies` has for them are a function. What their arguments mean is in `Values`.
* **The serverside.** `Handle` and the handlers are functions of the part of the state
  they change, since a hangup runs a handler and then erases the connection.
  `disabled` has any initial value, because no constructor sets it. A QURY
  is always a subscription: both drivers' `query` return STATUS_UNKNOWN. `"short"`
  stands for every line the handlers drop with a warning.
* **The loop in `notify`.** The callback of a one-shot subscription erases its token,
  which removes its node from the chain while the loop is at it; the loop's next
  step reads freed memory. `AfterErase` is the set of outcomes a build may have:
  it `continues` to the node that followed, it `stops`, or it `crashes`.

* **The supervisor** never blocks a signal, so one that comes outside `sigwait()` takes its
  default action: TERM, INT and HUP kill the parent, SIGCHLD is dropped. For one that comes in
  `sigwait()` the outcome depends on the system (`InSigwait`). A child may end at any time,
  of a signal it was sent or not; its pid is free again once it was waited for. `missed`,
  `stray` and `asked` are history. `WIFSIGNALED` is applied to the pair `reap()` returns
  (`bos.cc` 141), whose first member is then true: with the C library's macros for any
  object that reads as signalled, and `CodeOf` says so.
* **The listener's queue.** `ready` has the handlers of operations that are complete; cancelling
  an operation does not take its handler out, so a handler finds the socket there is when it runs. A
  handler that needs a socket and finds none ends the program (`Die`), as using a null pointer does; a
  socket that outlived its io_service may end it too. `values` and the socket survive a
  session, not the process. The night, in which `power_on` does nothing, and the computer's
  idle time are choices in `PowerOn` and `SwitchFrom`. The receiver reports every selection in order.
* **The living room.** `Theatre` has the receiver and the television as they are, beside what the listener has heard of them. A
  `movactl` that fails is not noticed, so each command may be lost. `stray` and `torn` are history: why the television, or what is
  believed of airplay, may be wrong. A line of airplay is two halves; a line that was glued together may be about
  airplay, with a value that is not "on", or about nothing.
* **The television's clients.** In `Movactld` an answer ends queries when it is well formed and the driver takes it for
  one to their code. That no client disables a serverside here is an assumption
  (`DaemonAssumption`), and a crash in the loop over freed nodes is `Terminate`; `ApiServer` has both. `orphans` is history: nodes whose answer was lost, malformed, or may have been taken for another's.
* **The client.** `args` is the command line after completion: per argument the codes it may mean.
  `Reply(n)` reads n lines, uses the first as the answer and drops the others, as
  `filter_notifies` does with its own `evbuffer`; that the last one read may be part of a line
  is left out. `Listen` takes one line. The daemon's `notify_chain` is here only the set `codes`, which
  `ApiServer` has in full. `dropped`, `refused` and `lost` are history: why a promise may not hold.
* **Values.** A character is its code, and a kind is the way in which an update function reads an argument.
  `kind` gives each code of the device one, so that the state has what the device says (`said`), the STAT that is
  written, and what the client shows, the number for a value of an enumeration too. `notify` is called with an
  `int`; its cut to 24 bits is `Base64Int24`, and `Clipped` is the definition it is compared with.
* **SEND without a newline.** `cli.c` 156 passes `writev` one element less than it filled in. `Readable` is when the
  serverside has a line: a SEND only once the client has ended, from `errorcb`. `fd` is the line that the client's
  loops over its descriptors are at. All lines belong to one daemon.
* **Codes.** A command has a name for the user and a code on the line. `CodeOf` is the code in its device's table and
  `Wire` the four letters the client writes of it; `Whole` has the commands for which they are the same. Two commands
  may have one code (`clear` of the receiver and `colour_value` of the television, both CLR0), so a line answers and
  gets codes, and which command it carries out is what its driver finds with that code and that many arguments (`Meant`).
* **Completion.** A name is a sequence of words and a word one of letters; `name_off` stands behind the
  words read so far, in every candidate the same number, so candidates are names and `read` has the words. The
  list is a set: what complete() leaves does not depend on its order.

`PROJECT.json` maps every definition to its lines. A definition whose comment says
"Mutant of" is a plausible mistake in the definition after it and is used by no
specification: each property fails when its mutant takes the place of the original.

## 3. The runs

| Run | Instance | What it shows |
|---|---|---|
| `backend_device` | `MainLoop`: two devices, 2 addresses, one command with a rest of 1 tick, two bytes on the line and two in the input | the packets handed to the driver are what was sent (`PacketsAreSent`); `IteratorsValid`, `RestRespected`; the refinement `ImplementsOutputLine`, fairness included; `TerminationEnds`, `LineComesBack`, `SettlesDown` |
| `lge_status` | 3 addresses, commands ka, ma, kc, ma answering two codes; at most 3 unanswered | what the driver makes of answers, lost ones and stray ones |
| `marantz_status` | 2 addresses, requests for volume and menu and a cursor command, codes of layers 1, 2, 4 and one without function; every mask | what the driver believes of the layers while requests, answers and reports cross |
| `api_server` | 2 connections, 2 serversides, one code the device knows and one it does not, 3 node addresses, every `AfterErase` | ownership of nodes, owed answers, deliveries, disabling |
| `api_queries` | `Movactld`: 2 connections to a television with one request and one command whose answers begin alike, 2 addresses each for messages and nodes, a rest of 1 tick, a loop that continues | `AnswersReachSubscribers`; every query ends but for named reasons |
| `api_listener_missed` | 1 serverside, 1 code, a loop that stops | **violation**: a listener is not told |
| `bos` | 2 pids, exit codes 0 and 1, two ending signals, both behaviours of `sigwait` | the supervisor's ends, restarts and exit codes |
| `listener` | the playstation and one switched device, one retry of a check | belief against link, socket and receiver; `LinkSettles`, `CheckEnds` |
| `listener_sources` | `Theatre`: a console and airplay, one source selected by hand, two halves of a line on their way | who takes the receiver from whom; `TelevisionFollowsReceiver`, `AirplayIsBelieved` |
| `cli_notify` | one argument (of a code the server has, has not, either, both) or two (the same code twice, two codes); a code of each kind with two or three values; a server disabled and enabled at any time | the server's subscriptions are the client's; `status` ends, and a question has an answer; `ShowsTheLatest`: what was shown last is the driver's value of what the device said last |
| `movactl` | one, two or six commands of one or two words from a, b, ab, of which two share a code and one has a longer code than is written, besides the client's own names; up to two arguments of one or two words, empty ones included; two lines that have one command in common and others of their own | `CandidatesAreBest`: the list is what the direct definition `BestOf` says; `ToldWhatWasMeant`; from the arguments to the device, `NamedCommandIsDone` |
| `cli_notify_two` | two arguments, a server never disabled | **violation**: a STAT is taken for an answer |

Bounds and why they are enough:

* Two addresses in `MainLoop` hold a message that awaits its answer and one that waits to be written, or a new one at the address
  of one popped before; they tell their order apart. `LgeStatus` has three, and rests of a message's own. `MaxBytes` = 2 bounds
  the bytes on the line and those left in the input: with the halves of a report told apart, a packet that is a part of one, or of two, is
  seen. Two devices are the one that is looked at and the one whose end of file comes in between.
* `MaxReports` = 1 in `Theatre`: outside waits while more than one report of the receiver is unread, and a step may
  add up to four. `MaxBytes` = 2 halves of airplay's lines. The console's switching on selects three inputs in a row. Two devices are one that
  is asked about and one that may be on.
* Two connections to the television have a query and a listener of the same code, in either order; `MaxInflight` = 2 lets an
  answer be taken for an older message. `CodesDiffer` excludes that an answer notifies two codes.
* Three commands have the two collisions that matter: ka and ma share their second
  letter, ka and kc their first. `MaxInflight` is the constraint `Bounded`; three
  unanswered commands allow an older match, the right one and a younger one.
* The Marantz device rests for one tick after a write. Two addresses hold a request that waits to be written behind one
  that waits for its answer; `MaxIncoming` = 2 bounds the packets on their way (constraint
  `Bounded`): an answer that an older one or a report precedes. Layers 1, 2 and 4 give
  masks on both sides of 10.
* Two connections and one contested code give every order of two clients' nodes in the
  chain; the third address lets a replacement exist next to both. `MaxOwed` = 2
  bounds the status requests of a code by the clients that ask. `ClientLines` leaves
  out QCMD, which does what QSTS does but for the table it reads, and STRT of the code the device does not know, which
  a QURY occupies as well. `PartLines`
  is what may wait in a buffer at a hangup: a query, which calls the device and adds a node.
* Two pids are a child and the one before it, abandoned or waited for. The listener's
  `MaxChecks` (15 in the code) is 1, so that there is a first, a repeated and a last check;
  `MaxReady` = 2 queues a link's handler around a check's, and a cancelled check may be
  behind both; one or two reports in flight make the known source lag.
* Two arguments have a STAT of one cross the questions about the other, and two subscriptions to one
  code; a third code the server does not have tells no match from one. `MaxLines` = 2 bounds
  what the device reports by itself while lines are unread; answers it owes are not bounded. Two values of a kind tell a
  late one from the latest; among them are those of a refused answer, no sound (`Least`), negative ones and letters.
* Two lines have every way for candidates to be told apart: by one, by the other, by none. Two words of which
  one begins the other, and names one of which begins another, are the cases `complete` treats differently; all six
  commands at once let one be dropped for a second that a third outlives. One of the commands takes an argument, and
  shares its code with one of the other line that takes none, as the two CLR0 do.
* Symmetry is used on addresses and connections in runs without liveness only.

Deadlock is not checked: the daemon may end, and nothing follows.

Fairness: `MainSpec` assumes that the clock goes on and libevent runs what is due or readable, that `sleep` and
`event_dispatch` return and the loop goes on, each weakly; and strongly that a caught signal is dispatched, since libevent looks for
one in every turn of every session, while a session may end again and again. Nothing is assumed of clients, lines or
signals. `DaemonSpec` of `Movactld` assumes the clock, due timers, and that the television answers what it
has read or the answer counts as lost; without it a query may wait for ever, as it does in the code for a silent device. `BosFairSpec` assumes that
the parent is scheduled and nothing of children and signals. `ListenerFairSpec` assumes that the loop runs what is
ready, timers expire, a connect has some result, and a session or program that ended starts again.

`CliFairSpec` of `CliNotify` assumes that client and daemon are
scheduled, and that an answer the device owes comes or is lost. `MovactlFairSpec` assumes that the client runs, and
the daemon while it does not end; nothing of other clients, who may disable a server at any time.

### Findings

`api_listener_missed`: `USAGE` promises that `listen volume` waits for volume
notifications while `status volume` asks once. Where the loop of `status::notify`
ends at the node its callback freed (`status.cc` 80; a `forward_list::remove` that
moves the node to a list of its own before it frees it has that effect), a listener
that subscribed before another client's query is not told that report (`EveryListenerTold`).
`ReportsReachListeners` is what holds in every build that survives; the crash is
the action `Crash`.

`cli_notify_two`: `cli_notify.c` 175 calls a reply that is not to QSTS unexpected and ends. Since the client
subscribes to one argument before it asks about the next, a STAT for the first may
come there; `listener.cc` 63 asks for three. If it comes just behind the answer it is lost instead, and
a `status` waits for ever (`dropped` in `StatusEnds`).

What else the work showed, of `MainLoop`: an end of file that is read twice leaves a timer of `event_loopexit`
behind, and the next session ends for nothing (`SettlesDown` says that this does not go on); a NUL ends a packet, so that
one garbled byte gives the driver two halves of a report (`excused` in `PacketsAreSent`). Of `Theatre`: the beginning of a line that is read
behind a whole one is thrown away, and what is left in the buffer when a connection ends is put in front of the
next one's first line (`torn`); after a restart of the session a receiver that went off, on and off again is believed "off" throughout,
so that the television stays on (`stray`). A message whose answer is lost has the next answer that begins alike taken for its own, whichever client
asked for that (`orphans`). And: a `status` whose STRT meets a server that was just disabled
waits for ever, and one that waits for the answer to QSTS when the daemon ends spins
(`refused` and `~alive` in `StatusEnds`); the receiver's seven channel statuses are among the notifications,
and nobody is ever notified of them, so that a `status` of one waits for ever too (`"silent"`);
`cli.c` writes four letters of a code, to ask for it (190) and to send it (145), while 27 commands of
the receiver (`surr_mode_auto` and most like it, `dc_trigger_1_on` and `_off`) have codes of five: no device answers for the four, so that
`movactl` neither lists these commands, as `USAGE` 5 says it does, nor sends them (`Whole` in the properties of `Movactl`);
where the loop of `notify` stops at a freed node, newer queries of others may have a query wait for ever, so that `QueriesAnswered` is
checked with a loop that continues;
no sound and a refused answer, INT_MIN both, are shown as -8388608; `RestRespected` needs `wrote`, since the first write after
a reopening may fall in the rest of the write before it; `AnswersFindTheirCommand`
needs `aligned`, since a stray answer empties the list.

## 4. The proofs

The theorems hold for every value of the constants that satisfies the named ASSUMEs of the modules (`IteratorAssumption`,
`ThrottleAssumption`, `LettersAssumption`, `MarantzAssumption`, `BosAssumption`, `MainLoopAssumption`, `ApiAssumption`,
`LinesAssumption`, `CompleteAssumption`, `CliAssumption`, `NamesAssumption`, `CliNotifyAssumption`, `ListenerAssumption`,
`TheatreAssumption`, `CodesAssumption`, `CodesDiffer`, `DaemonAssumption`), and on nothing else; the runs evaluate all of these. They say of which kind a constant is, that some set is
not empty, that a default is among the values, or that no two codes of the driver's table have the same letters. Each safety property is proved from an inductive invariant that is
defined beside it in its module and that TLC checked on the instance of that module's run before it was proved.

* `BackendDeviceProofs`. First the list: `WellFormed` (distinct addresses, insert_iter last, send_iter in the
  list or end()) is preserved by push, to_send and pops of written nodes, and each of these does to the sequences of
  written and unsent messages what it should; `PopNIsRepeatedPop`. Then the device: `Inv` is inductive. It adds to the properties what they
  need of each other: a `send_iter` that is not `End` implies an armed timer (so that
  `send` knows whether a timer will come), the timer covers the rest, and once it has
  gone no rest is left; outside a session list and timer are empty, so that a start
  meets no timer of before. `TypeCorrect`, `IteratorsNeverDangle`, `NoMessageStranded`
  and `RestAlwaysRespected` follow; `DeviceIsOutputLine` proves that every step maps to
  a step of `OutputLine` or a stutter (`StepsOfOutputLine`, the safety half of `ImplementsOutputLine`).
* `DriverProofs`, the LG driver. `LgeIsBackendDevice` proves that the driver with its television is
  a `BackendDevice`, so all its theorems carry over (`LgeKeepsThePromises`).
  `LgeListIsWhatTvOwes` is by induction from `Inv`, `ListIsWhatTvOwes`, and that
  the head of the list is then the first match of the answer; `LgeNamesAnswersRight` reads off it under which codes an answer is notified.
  When answers are lost the list has more than the television owes. `Remembered`
  says that what it owes can be found in the written part of the list in its order: there is an increasing map from the one to the
  other. Losing an answer leaves a place out of the map (`OneLost`); an answer is matched no later than where the map has it
  (`FrontAnswered`), so that what it retires is owed no longer. `LgeRemembersOwedAnswers` and
  `LgeAnswersFindTheirCommand` follow.
* `DriverProofs`, the Marantz driver. `MaInvHolds` proves `MaInv`. `Inv` is kept
  by `SendOn` from a popped list and from a new one (`SendOnInv`, `MaOpenInv`), since `open` and `update_status` send. The
  belief is inductive with `LastAnswerTrue`: the last @AST answer on its way has the
  receiver's mask, so that whatever is taken from the front, the belief is right when the
  last one is taken; the `Agree...` lemmas say so of each change of `incoming`.
  `BeliefAlwaysFollows` follows, `MainLayerAlwaysKnown` with
  `FirstLayerRead` (the misreading of A to F keeps the lowest bit), and `NoLayerEverDropped` with `LowMaskRead`: a mask below 10 is read as it
  is, so that what the next request asks for has all of its layers.
* `DaemonProofs`, the supervisor. `BosInv` is inductive. `ChildKnown` says where the parent has a child that it
  has not given up, `ReasonKnown` what the signal it took stands for; without it
  `HealthyChildSpared` is not inductive. `TerminationIsFinal` follows.
* `DaemonProofs`, the main loop. `MainIsBackendDevice`: however sessions end for other devices' sake, the device in its loop
  is a `BackendDevice` (`MainKeepsThePromises`). `MainInv` adds `BytesUnderWay`: the bytes kept in the input and those on the line are, but for garbled
  ones, consecutive in what the device says (`Place`), up to where it is now, and they begin at the beginning of a report while
  `clean`. What lies between two separators is then a report or a garbled one (`PacketIsReport`), and
  `PacketsAlwaysSent` follows, for any reports and any number of bytes in a read.
* `ApiServerProofs`. `ApiInv` joins the two invariants of the run with `TypeOK`, `TokenOfNode` (a node says whose token it is, so that
  two tokens never share one, though addresses are used again) and `OrphansAreOldest`: a node whose answer was lost
  is older than every query of its code whose answer was not. `QueriesAreOwed` needs this: an answer uses up a request and always serves
  the newest query, which is one that counts on it, if any does (`AnswerServes`). `StartNotifyKeeps`, `StopNotifyKeeps` and `NotifiedKeeps` are
  the three functions of `status.cc`, and the handlers are put together from them as in the code. `Without`, which takes a node out of
  the chain, is by the rank of the nodes that stay, a form that can be reasoned about. Besides `NodesAlwaysOwned` and `QueriesAlwaysOwed` the action properties follow:
  `ReportsAlwaysReach` under each outcome of `AfterErase`, `ListenersAlwaysStay` and `DisabledServersAlwaysIdle`.
* `MovactldProofs`. `DaemonDrivesLge`: whatever clients ask, the driver in the daemon is that of `LgeStatus`, so its theorems hold.
  The lemmas of `ApiServerProofs` about the handlers and about `notify` are used through an instance, in which `owed` is what
  is on the driver's list: `OneMore` and `OneLess` count its requests when a message is sent and when an answer retires one.
  `DaemonInv` joins the invariants of the driver and of the chain, and says that once the list is out of step all nodes are
  `orphans`. What remains to show of an answer is that it ends as many queries as requests: `FrontAnsweredFor`, while list and
  television are in step, and `NobodyCounts` otherwise. `AnswersAlwaysReach` follows from `NotifiedKeeps`, for every
  `AfterErase`: where the loop may stop at a freed node, it promises the answer to those up to the first one-shot subscription, since listeners
  behind it are missed, as the run `api_listener_missed` shows of `ApiServer`; the run `api_queries` has it continue. Where it crashes the daemon is gone, which is
  one more way to `Terminate` here.
* `MovactlProofs`. `KeptIsBest` says what one pass of `complete` does to `BestOf`; it needs that all candidates left have
  the same words in full, which is the second part of `CompleteInv`. `MovactlCompletes` proves that `Movactl` implements
  `CompleteSpec`, so that `CandidatesAreBest` holds inside the client (`MovactlFindsTheBest`). `CliInv` adds to the types `PhaseKnown`, what is on its way on each line
  at each stage of the conversation; its core is `Covered`, that what is left has whatever a line supports of the candidates whose code is written whole, unless the line
  refused the question. `CodesAssumption` (no two commands share a code and a number of arguments) then makes the command that is
  carried out the one that was left, and `AlwaysToldWhatWasMeant` follows, whatever servers are disabled meanwhile.
* `ClientProofs`, the notification library. `RoundTrip`, for every integer: `TablesInverse` says that the tables are inverse and that only the
  letters of base64 pass; the rest is arithmetic on digits. The decoding of the drivers is shown to give values of the right kind
  whatever bytes come in; its recursive functions are typed by the least argument at which they would not be. `CliInv` says
  how the two ends of the connection stand to each other: the server's subscriptions, with the STRTs and STOPs still on their way, are the
  client's (`SubscriptionsFollow`), a question is under way exactly once (`Asking`), and of all the STATs and values under way the last one is what the
  device said last (`LatestUnderWay`). `AlwaysSubscribed` and `AlwaysShowsTheLatest` follow.
* `ClientProofs`, the listener. `ListenerInv` is inductive, for any subset of the devices and any `MaxChecks`.
  `SocketKnown` (a socket of this session means a playstation that is up, an old one has no
  handler) is what makes a late handler harmless; `LastReportTrue` makes the belief right when the last report
  is read. `ReallyUpAlwaysWasUp` follows.
* `TheatreProofs`. `TheatreInv` has three parts besides the types. `LinesUnderWay`: what is in the buffer has no end of a line; of the halves in
  the buffer and on the connection, an end follows its own beginning, and behind the first end beginnings and ends
  take turns, from the first half on while no line is `torn`; the last one is what plays now.
  `ReportsFollow`: of the reports not read yet the last one of the power, and of the input, is true, and where there is none the belief is.
  `OffIsNews`: a television that is on will hear of a receiver that goes off. It is what `TelevisionFollowsReceiver`
  needs when the receiver goes off, on and off with all the reports unread. `AirplayAlwaysBelieved`, `TelevisionAlwaysFollows` and `OffAlwaysTakesItsOwn` follow.

So every safety property a passing run checks is proved. Only model-checked is

* liveness, which is beyond TLAPS: `TerminationEnds`, `LineComesBack`, `SettlesDown`, the fairness half of
  `ImplementsOutputLine`, `TerminationCompletes`, `DeathNoticed`, `LinkSettles`, `CheckEnds`, `StatusEnds`, `NamedCommandIsDone`, `QueriesAnswered`.

The type invariants are parts of the invariants above; the runs list what says something by itself.

## 5. Not modelled, and the plan

Not modelled for good: `line.c`, `launchd.c`, `osx_system_idle.c`, the `smart_*`
wrappers, the sockets' set-up, scripts and packaging: calls of the operating
system with no protocol of their own.

Left out of modelled parts: the volume the listener sends the television (`atoi(value) + 72`, which for the value of no sound is
far below zero) and the television's input; the arguments of SEND; an info entry without an update function is called through a null pointer
(`UpdateNull` ends the daemon, and no document says that it should not); two names in one argument of which one
begins the other (`complete.c` 111).

Next, in this order:

1. The arguments of SEND through `Values`, and the decoding of answers in `Movactld`.
2. The Marantz driver below the serversides.
