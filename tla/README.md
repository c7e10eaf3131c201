# A verification model of RemoteTestService

RemoteTestService lets a tester use an Android phone from afar. A Windows
program next to the phone, the Test Agent (TA), relays between the phone and
one Test Client (TC, a Java applet) at a time; on the phone run a screen daemon
(TD) and a service application. This directory holds TLA+ models of the parts
whose correctness depends on the order of events, the TLC configurations that
check them and the proofs that TLAPS checks.

## 1. The system

| Component | Source | State | Operations |
|---|---|---|---|
| TA session | `TA/rui/rui_thread.cpp`, `rui_client.cpp`, `rui_main.cpp`, `rui_socket.cpp` | `m_state`, listening socket, `m_clientSock`, `m_clientTempSock`, thread handles, reservation window, pending re-initialisation | listener and client threads, one-second timer, start, stop, ReInit |
| TA client output | `rui_client.cpp`, `rui_socket.cpp`, `rui_frame.cpp` | send buffer and its index, `m_clientOutputMutex` | add, flush, write; direct writes |
| TA frame pipeline | `rui_frame.cpp` | frame buffer and mutex, update event, screen options | request, receive, encode, send |
| TA device channels | `rui_thread.cpp`, `rui_main.cpp`, `rui_tdc.cpp`, `rui_event.cpp` | sockets of the screen daemon, the event injector and the device service; retry counters | connect, restart, receive, send a command and wait |
| TA file relay | `rui_file.cpp` | `m_ftp` | forward requests to the device and data to the client |
| TA logcat | `rui_log.cpp` | process, pipe, filter | start, stop, read |
| TA reservation client | `rui_poc.cpp` | none of its own | ask for a reservation, report states |
| TA video | `rui_video.cpp`, `RUIServerPeer.cpp`, `TA/skvideo/RUILib` | peers, buffer lists, encoder thread | start, stop, stream |
| TA dialog | `TA/TA/TADlg.cpp` | enabled controls | Start, Stop, preview |
| TD daemon | `TD/ruicapsvc/main.cpp`, `framebuffer.cpp`, `ftp.cpp` | client socket, screen buffers, one file transfer | answer screen requests, upload, download |
| Device service | `TA/skrc_android/src` | rotation, wake lock, packages | answer the device channel |
| TC | `TC/src/com/skplanet/skrc2` | connection thread, screen, dialogs | connect, show, send input, transfer files |

TC and TA speak over one TCP connection (and a second one for video). TA speaks
to TD and to the device service through ports that adb forwards. Inside TA
everything is a field of one object, class `RA`, which the listener thread, the
client thread, the timer, the two device threads and the user interface thread
share. A few mutexes guard the output to the client, the output to the screen
daemon and the frame buffer; nothing guards the session's own fields.

What is hard, component by component, and what makes it correct:

- *Session.* Six threads change `m_state`, the sockets and the thread handle by
  plain loads and stores; handles are closed as soon as they are stored, so that
  nothing is ever joined; a start pumps window messages and runs a Stop click
  inside itself. Correct means: one client at a time; a thread uses the
  connection it was made for; a session ends when its reservation does; READY is
  told only when a client can be served; a device is rebooted after sessions,
  not under them.
- *Client output.* Several threads write messages to one socket. Correct means
  that messages are not interleaved and that what a failed session left in the
  buffer does not reach the next one.
- *Frame pipeline.* A request is dropped when the output to the daemon is busy
  for 100 ms, a capture may fail, the daemon answers several requests with one
  picture; none of this may stop the screen or take a touch with it.
- *Device channels.* Restarts are bounded; a channel is reopened or the service
  is declared in error; a command's answer goes to the caller who waits.
- *File transfer.* One transfer at a time over three programs; a cancelled or
  broken transfer leaves no half file on the device and loses no whole one.
- *Logcat.* One process at a time, stopped with the session.
- *Video.* Frames are put together from numbered fragments that may be lost.
- *Algorithms.* The packed date arithmetic of the reservation and the version
  test.

`PROJECT.json` lists the places where this bites, line by line, as hazards.

## 2. What exists

| Module | Contents |
|---|---|
| `TASession` | the session: state, one action per access to shared state, fairness, properties |
| `ServeOne` | what the session promises: take, publish, withdraw, release, one client at a time |
| `MCTASession` | sets of connections and events for TLC |
| `TASessionProofs` | typing, the inductive invariant, the theorems, the refinement of `ServeOne` |
| `ClientStream` | everything that writes to the client: five kinds of threads, two mutexes, the send buffer, the report of the device's state |
| `MCClientStream` | sets of connections, readers and device states for TLC |
| `ClientStreamProofs` | typing, the inductive invariant, framing, state reports, whole frames, the order of the mutexes, the refinement of `ServeOne` |
| `FileTransfer` | one file transfer after the other over client, agent and daemon |
| `MCFileTransfer` | files for TLC |
| `FileTransferProofs` | typing; no file that is only read is removed |
| `FileTransferWholeProofs` | downloads are whole; no half upload is left |
| `DeviceFiles` | what the transfers promise about the device's files: opened, taken whole and closed, or removed |
| `FileTransferStoreProofs` | the refinement of `DeviceFiles` |
| `ScreenLink` | the way of a picture from the daemon to the client, with lost requests, failed captures and restarts of the daemon |
| `TouchRelay` | what agent and daemon promise about touches: in turn, none twice, none lost but with the connection |
| `MCScreenLink` | the instance for TLC |
| `ScreenLinkProofs` | typing, the invariant of the touches, the refinement of `TouchRelay` |
| `Reservation` | the packed dates, the time shown to the client, the version test, with their theorems |

`TASession` and `ClientStream` meet in `ServeOne`: both implement it, the first
with every step of the session, the second with a session reduced to what moves
`m_clientSock`. What `ClientStream` assumes of the session is what `TASession`
shows. `ScreenLink` implements `TouchRelay`: the touches on the path from TA's
client thread to the daemon's injection are its pending ones. `FileTransfer`
implements `DeviceFiles`: the open descriptor and the form of each file (as it
was, a part of an upload, the whole of one, removed) are its state.

### TASession

*State.* `mState` is `m_state` with the numbers of `rui.h`, because the code
compares them with `<` and `>` (and the error states are greater than the stop
states). `listenSock` holds the number of the listener thread that bound the
socket, `clientSock` and `clientTempSock` a connection or `NoConn`, `hclient`
tells whether `m_hclientThread` is set. `conn[c]` is TA's end of connection `c`:
new, open or closed. The reservation window of the negotiated client is
abstracted to whose window it is (`validOf`), and time to the set `over` of
connections whose window has passed; `initRequired` and `initOf` are the
pending re-initialisation.

*Control.* Each listener thread (`lpc`), each client thread (`cpc`) and each
caller of start and stop (`pc`: the dialog, a click dispatched inside the
dialog's start, the timer, the screen thread) has a control point. An action is
one access to shared state, or several that no other thread can tell apart; the
test of a field and a later store that depends on it are two actions. In
particular the listener's `m_hclientThread = CreateThread(...)` is `ListenSpawn`
then `ListenAssign`, the timer's close and forget are two actions, and the
client thread's test of `m_state` and its store of READY are `ClientSettle` and
`ClientReady`, with a report to the reservation server in between.

*Inputs.* What comes from outside is a choice: which connection is accepted,
every failure of the negotiation (`refuse`), the client's own farewell or the
break of its connection (`ClientServe`), the end of a reservation (`Expire`),
the clicks, and the failures named in `Events`: a start that fails at any of its
steps, a bind that fails, a device channel that is lost for good, a daemon that
cannot be launched again, and a key that the event injector does not confirm
(`KeysFail`): `key_checkok` then restarts the injector, and when that fails
`init_evt` calls `stop_ta_service` in the client thread, which goes on with its
session afterwards (`StopReturnsToClient`). `now` is the `dwCurrent` of the
timer, read before it tests `m_state`: which reservations had ended by then.

*Left out.* Reports to the reservation server, log lines, the video server, the
sockets of the device channels (they matter to the session through `m_state`
only), the start nested in a start, the forced re-initialisation of the preview
button, `exit_ra`; the timer's own `key_wake` (`rui_main.cpp:374`, not compiled
into the released build; `rui_client.cpp:438` and `446`, right before its stop)
and the preview's (`DlgPreview.cpp:362`). Two client threads that stop the
service at once share the actor `cli`, one after the other. The user's
disconnect and `onExitClient` close `m_clientSock` and forget it in one step
(`CloseClientSock`); the timer's close and forget are two.

*Bounds.* `Conns` (each connection is used once) and `MaxStarts`, the calls of
`start_ta_service`. Both are parameters; the proofs hold for all of them.

*The first run.* The listener clears `m_hclientThread` when it starts, and a
stop leaves the old threads running. Several properties therefore hold until
the service is stopped or started again: `FirstRun` says so, and a stop that
returns at its first test does not end the first run.

### ClientStream

*Threads.* `cli` is the client thread, `fbc` the screen thread, `tim` the timer,
`app` the thread that installs a package, `tdc` the device thread (it writes
nothing but sets the device's state); each member of `Readers` is one
`ruilogcatThread`. Each has a control point (`pc`), the kind of message it is
writing (`kind`) and the socket it was given as an argument (`arg`).

*Messages.* A message is written at once (`Single`), as header and body with two
reads of `m_clientSock` (`Pair`), or through `write_sendbuffer` (`Buffered`),
which gets the socket by value and puts its header into `m_sendBuf`. `Acquire`,
`Call`, `AddHeader`, `Flush`, `Head`, `Body`, `Release` are the steps; a thread
that is not in a message does the steps of its own handler (`OnUpdateComplete`,
`onFBC_screendata` with `OnStateChanged`, `logreceiver`, ...). The installer
enters a message without `Acquire` and leaves it with `Release`, as
`res_AppInst` does; so does the client thread when no file can be made for the
package (`InstallRefused`).

*The stream.* `due[c]` is what the reading thread of the client, which takes
twelve bytes for a header and then as many as the header says, expects next: a
header, the body of a message of one thread, or it is out of step for good. The
bytes themselves are left out. `blame[c]` remembers what has disturbed the
stream: a write that timed out (`lag`), an installation (`install`), or a change
of client while a thread owned the output mutex (`handover`).

*Bounds.* Each connection is used once; at most `Cardinality(Readers)` log
readers exist at the same time; one package is installed at a time;
`m_sendBufIdx` is counted in headers and 2 stands for two and more. A header and
a body are each written in one step, because writes of different threads to one
socket are excluded by the mutex, except for the result of an installation, which is blamed
anyway. The wait of a second for the frame buffer is a test: the frame may be
given up whenever the buffer is taken.

*Left out.* The stop of the service (`TASession` has it), what the client asks
of the device, the one-second wait for a new frame in `OnUpdateComplete`, the
video server's own connection. `onFBC_screendata` has a `catch (...)`
(`rui_frame.cpp:280`) that would return with `m_fbBufferMutex` owned; nothing in
its `try` throws a C++ exception (the calls are Win32, the C library and
libjpeg, which is C), and the project is not built to catch structured ones, so
no step of the model goes there.

### FileTransfer

*Actors.* In TC the user (`Connect`, `Start`, `Cancel`, `Break`), the task of the
dialog (`worker`) and the thread that reads from TA (`ReadData`, `ReadError`); in
TA the client thread (`Forward`, `ExitClient`) and the screen thread (`Relay`,
then `RelayClear`, because the answer is written before `m_ftp` is cleared); in
TD the loop of the daemon (the `On...` actions, named after the functions of
`ftp.cpp`) and one thread for each download (`Download(j)`).

*State.* `buf`, `stopJob` and `status` are the fields of `FTPDlg` with these
meanings, `mFtp` is `m_ftp`, `name`, `fd` and `ftpThread` are the fields of
`svcInfo` that all transfers share. The four connections are queues of at most
`Cap` messages; a writer waits when the queue is full. `waiting` counts the
messages that are in the reader's buffer already: `RUIService.run` takes one
message per readable event. `link` says that TA is connected to a daemon. A file
on the device is removed, as it was, or holds a number of blocks of an upload.

*Ends of a task.* `doInBackground` ends before it has sent anything when the
local file is missing or cannot be opened (`StartFails`), in the middle of an
upload when it cannot be read (`PutFails`: neither a cancel nor an end is sent),
in a download when it cannot be written (`GetFails`), and on a cancel. `done()`
says "Done." after all of them but a cancel or an error of the device (`Finish`).

*Faults.* `Events` names them: errors of the device (`deviceError`) or of the
local disk (`localError`), a path that `ConvertPath` refuses (`badPath`), a
client too slow for its one-block buffer (`slowClient`), the end of an upload
that is not sent because the file's time does not fit an int (`lostEnd`), a
`cancel`, a broken connection to the client (`break`), a next transfer before
the last has come to rest (`hasty`), a daemon whose fields are not initialised
(`freshDaemon`), the loss of the daemon or of TA's connection to it (`link`:
`LinkLost`, then `RestartFbc` connects to a new one), a writer that gives up on a
full connection and goes on as if it had written (`lag`: `GivesUp`), and answers
that arrive together (`merged`). A writer that gives up after a part of its
message leaves the reader out of step for good; `LinkLost` and `Break` stand for
that.

*Blame.* No message names its transfer, so an answer belongs to whatever is under
way. What this may mix up is recorded in `blame` when it happens, and each
property lists what it does not survive:

| Blame | Set when |
|---|---|
| `answers`, `requests`, `openFile` | a transfer starts while answers or requests of another one are on their way, or its file is open |
| `oldName` | the daemon refuses a path, and the name of the transfer before stays |
| `slow` | the reader has waited 100 ms and puts an end in place of data (`FTPDlg.java:129`) |
| `arming` | the answer was faster than the task, which then declares the buffer empty (`:259`) |
| `wiped` | the task declares the buffer empty over an end that the reader has put there (`:284`) |
| `unopened` | the local file is missing or cannot be opened: nothing is sent (`:188`, `:194`, `:218`) |
| `unread` | the local file cannot be read any more: neither an error nor an end is sent (`:253`) |
| `local` | the write to the local file failed (`:288`) |
| `lostEnd` | the end of an upload is not sent (`:252`) |
| `lag` | a writer gives up on its message (`rui_socket.cpp:140`, `RUIService.write`) |
| `link` | the daemon or its connection is lost during a transfer, or a message meets no daemon |

A blame stays for the rest of the behaviour: what a property promises after an
accident is what it promises of behaviours that have had only the others.

*Bounds.* Two transfers and two clients let one transfer meet the next, in one
session and in two; two files let data of one reach the other. In `transfer_all`
`Cap` is 1: it is the smallest that lets a writer run ahead of its reader, and
four connections of one message each already put every answer behind the next
request. `transfer_live` has two blocks and `Cap` 2, so that a loss or a cancel
finds a transfer in its middle with messages on the way, and two transfers of
one client, so that the second meets what the daemon's loss left of the first.

*Left out.* The directory listings; the second error message when the local file
cannot even be closed after a cancel (`FTPDlg.java:286`).

### ScreenLink

*Actors.* In TD the loop `clientInput`, which holds an 'h' for a millisecond and
takes further ones for the same request (`TDHold`, `TDSwallow`, `TDOther`,
`TDProcess`, `TDWindowEnds`); in TA the screen thread (`SelectTimeout`,
`ReadHeader`, `StoreFrame`, `GiveUpFrame`, `Leave`, the restarts) and the client
thread (`GetScreenBuf`, `OnUpdateComplete` as `UpdateWait`, `UpdateTake` and
`UpdateSend`, touches); in TC the thread that shows a picture and asks for the
next (`OnScreenBuf`), and the user. `update_req` is a procedure of both threads of TA (`upd`):
`UpdTest`, `UpdReset`, then `UpdSend` or `UpdGiveUp`.

*State.* A picture is a version of the screen, its size and whether all of it
has come; `picture` is `m_fbcHandle`, `unseen` says that the two frame counters
differ, `fullReq` is `m_bFullSizeRequest`, `svc` is `m_state` reduced to what
`update_req` and the screen thread tell apart. `touching` is the touch that is
written with `m_fbOutputMutex`, for which `update_req` waits 100 ms. The wait for
`m_fbBufferMutex` is the guard of `StoreFrame`. `screenOn` is the bit
`TDC_STATUS_SCREENON` of `m_devStatus`, which the device thread stores
(`Report`): with it clear `UpdateSend` sends an empty answer with idx 0 instead
of the picture. `late` is a message that TC has read together with the one
before it: `RUIService.run` takes one message per readable event, so it stays in
the buffer until something else arrives (`Deliver`, `OtherArrives`).

*Faults.* Failed captures, a daemon that dies in any place of its stream, a
header that `ProcessFBCMessage` takes for more than a megabyte (`ReadTooBig`,
after which the connection is given up), a restart that fails, a frame that is
given up, the device's screen going off or on, a Stop: together with the user's
actions at most `MaxEvents`. One budget for all lets two of any kind meet.

*Abstractions.* The socket to the client is written in one step (`ClientStream`
has its steps); a client is connected in one step (`TASession` has the
negotiation). The threads that `stop_ta_service` terminates go on in the model,
where they find the sockets closed. The screen thread's `OnStateChanged`, which
writes the device's state to the client, is in `ClientStream`; here it is one of
the things that arrive and let a late message go on.

*Left out.* A second capture that is asked for before the first has arrived: the
code then forgets the first one's file.

*Bounds.* One change of the screen, one client and two events: every property
speaks of one client's pictures, and two events are a fault and a user's action
or two faults. `MaxQueue` keeps the timeout from adding requests while one is
unanswered; `RetryMax` is 1 for the code's 30, so that both the restart and the
end of the restarts happen. The theorems hold for all of them.

### Reservation

Operators without state: `Packed` is `timedateToDword`, `Difference` the result
of `timedateDwordMinus` (the date in the upper bits, the time left beyond whole
days in the lower sixteen), `ShownTime` what the client reads from it, `Refused`
the version test. The bitwise operations are sums, divisions and remainders by
powers of two; the fields do not overlap until the year 2108. `Difference`
assumes what `CTime` does without a change of the clock between the two dates.

### Properties and runs

| Run | Instance | Shows | States |
|---|---|---|---|
| `session_serve` | 2 connections, 2 starts, failing starts and binds; connections symmetric | `OneClient`, `TempSockOwned`, `ClientSockOwned`, `RebootsStopped`, refinement `ServesOne` | 4.1M |
| `session_all` | 1 connection, 1 start, 2 overlapping stops, all events | `TypeOK`, `ReadyMeansFree`, `NoOrphan` | 4.1M |
| `session_live` | 2 connections, 1 start, no failure, fairness | `ExpiredIsDropped`, `AcceptedIsSettled`, `ReinitHappens` | 112k |
| `session_reject` | 2 connections | violation of `RejectMeansBusy` | |
| `session_stopped` | 1 connection, lost device, Stop | violation of `StoppedMeansClosed` | |
| `session_overtaken` | 2 connections | violation of `ReinitAfterSession` | |
| `stream_framed` | 2 connections and 2 device states, symmetric; file answers, frames | `Framed`, `StateKnown`, `WholeFrame`, refinement `ServesOne` | 5.7M |
| `stream_all` | 1 connection, 1 log reader; file answers, installation, end of the reservation | `TypeOK`, `Framed` | 4.3M |
| `stream_live` | 1 connection; frames, writes that time out; fairness | `LocksInOrder`, `EveryWaitEnds` | 97k |
| `transfer_all` | 2 clients, 2 files of 1 block, 2 transfers, all events but `lag`, `link`, `merged`; files symmetric | `TypeOK`, `NoHalfFile`, `SourcesKept`, `DoneIsWhole`, refinement `FilesKept` | 3.7M |
| `transfer_live` | 1 client, 1 file of 2 blocks, 2 transfers; `deviceError`, `localError`, `cancel`, `break`, `lag`, `link`, `merged`; fairness | `SourcesKept`, `NoHalfFile`, `DoneIsWhole`, `UploadSettles`, `ScreenResumes`, `CancelEnds`, `ThreadsEnd` | 443k |
| `screen_all` | 1 client, 1 change, 2 events, 1 restart; fairness | `TypeOK`, `CommandsKept`, refinement `TouchesRelayed`, `ScreenArrives`, `LinkRepaired`, `CaptureSaved` | 569k |

Two connections let one be served while the other is rejected, or be accepted
after the first has gone. Two starts let a re-initialisation start the service
again, over whatever the first has left, and fail. `session_all` has a single
connection because it is there for the interleavings of start, stop, click,
timer, screen thread and the client thread's own stop with one session. There
`MaxStops` lets the dialog, a click, the screen thread or the client thread begin
a stop only while fewer than two are under way, beside those the timer or a failed
start makes: all overlaps of two, without the product of four. The theorems hold
for every value of it.
`session_overtaken` needs both of its connections: with one it finds nothing.

`transfer_live` repeats three invariants of `transfer_all` because it has the
accidents that the other leaves out for its size; the proofs have all of them at
once.

In the stream runs two connections let one client meet what another has left
behind; the events are divided over the runs because all of them together exceed
what TLC can do in minutes, and the proofs cover them together. The second
device state is needed for a report that is overtaken by the next. `Framed`
would hold trivially of a stream that is always blamed: the run without `lag`
and `install` can only be excused by a handover.

The runs keep deadlock checking off: the service comes to rest when the bounds
on starts, connections, transfers and events are used up, and in the code the
threads simply wait for the next client or message.

*Fairness* (`FairSpec`) is weak fairness of each thread: Windows schedules every
runnable thread, reads have timeouts and the waits for adb are bounded. It is
not assumed that a client connects (the listener at `accept` may wait), that a
client leaves (a client thread that serves must go on only once its socket has
been closed), that a reservation ends, or that anyone clicks. One timer thread
runs all ticks (`WT_EXECUTEINTIMERTHREAD`), so the timer and the ReInit it calls
are one fair process.

`ClientStream` assumes weak fairness of each writing thread (a write to a socket
ends, at the latest when `WriteExact` gives up after its timeout) and of the
screen thread once it has a message. For the two mutexes it assumes strong
fairness of the threads that wait with `INFINITE`: a Windows mutex is given to
its waiters in the order they came, so one that becomes free again and again
reaches each of them.

`FileTransfer` assumes weak fairness of every thread of the three programs: the
task, the reader, TA's client and screen thread, the loop of the daemon and each
download thread. Nobody has to start or cancel a transfer, no connection has
to break, a lost daemon need not come back, and nothing else has to arrive for an
answer that waits in TC's buffer.

`ScreenLink` assumes weak fairness of the daemon's loop and of the end of its
millisecond, of the screen thread and of the client thread, and strong fairness
of `StoreFrame`, for the reason above: the mutex of the frame buffer goes to its
waiters in the order they came, and the client thread gives it back each time.
Nobody has to touch, to leave, or to end a transfer, the screen of the device may
stay off, and nothing has to arrive for a picture that waits in TC's buffer.

### What the code does and says otherwise

- *Rejected for ever.* The listener stores the thread handle after `CreateThread`
  returned; a client thread that is refused at once may have cleared it by then.
  The handle stays set, and every later client is rejected with "serve only one
  client" though none is served (`RejectMeansBusy`).
- *Stopped but listening.* When the screen thread has put the service into
  `TA_STATE_ERR_START_SERVICE`, `stop_ta_service` returns at its first test, and
  the dialog says "RA Stopped" while the listener goes on accepting
  (`StoppedMeansClosed`).
- *Re-initialised under a client.* ReInit, "after client session", uninstalls
  packages for 30 seconds before it stops the service. The session before may end
  and the next client connect in this time; that one is served and then cut off
  by the reboot, though its own reservation is still running
  (`ReinitAfterSession`, with two clients).

Behaviour that no document of the repository speaks about, met while modelling
and kept in the models as it is:

- Files: a transfer whose local file cannot be opened, read or written is called
  "Done.", because `done()` overwrites "File Read Error." and "Local File
  Error."; an upload that cannot be read any more sends neither a cancel nor an
  end, so that `m_ftp` stays 1 and the file open until the client leaves; when
  the daemon is replaced during a transfer `m_ftp` stays set, a download waits
  for ever, and a cancel is not seen until the client leaves, because the task
  looks at it only when data have come; an upload request that is lost, because
  its writer gave up, and whose data arrive makes the daemon remove the file it
  has sent last; a reader that has
  waited 100 ms for a slow disk ends the file early, and the dialog says done; a
  cancel can be wiped from the buffer, after which the task waits for data that
  does not come, as it does when the device refuses a download that has been
  cancelled; an upload of a file whose time, cut to an int, is not positive
  never ends on the device, and `m_ftp` stays set with the screen frozen; the
  first cancelled download of a daemon whose fields are not initialised may
  remove its source (`ftp.cpp:293`); an upload whose file cannot be opened has
  set the name already (`ftp.cpp:285`), so that its first block fails to be
  written and the old file of that name is removed.
- Screen: a request for a picture of full size can be forgotten by the reset in
  `update_req`, by its 100 ms, or by a smaller frame that is stored over it, and
  the client is not told; a frame is counted before it is stored, so that a
  client may get the one before; with the screen of the device off an empty
  answer takes the place of the picture, and TC shows the bytes of the last one
  again; a picture that TC has read with the message before it is shown when
  something else arrives, which may be never; a new client's first picture may be the last
  one of the session before; a frame that breaks off is stored as if it were
  whole, because `ReadExact` returns 0 and the test is `< 0`; one failed restart
  ends the screen thread whatever is left of its 30 retries; each saved picture
  leaves one more request under way for good.
- Arithmetic: whole days of the time that is left are dropped, odd minutes add 64
  seconds, and a newer client with a smaller minor or build number is refused.

### What is proved

`TASessionProofs` proves, for every set of connections, every number of starts
and every set of events, from `NoConn \notin Conns` and
`MaxStarts \in Nat \ {0}`:

- `Typing`: the type invariant;
- `ServesOneClient`, `TempSockIsOwned`, `ClientSockIsOwned`, `ReadyIsFree`,
  `NothingOrphaned`: the safety invariants of the runs;
- `ServesInTurn`: the session implements `ServeOne`;
- `RebootFindsSocketClosed`: `RebootsStopped`, from the further assumption
  `Undisturbed`: of the events only failing starts and failing binds happen.

None of the invariants is inductive alone. The listener's test of
`m_hclientThread` excludes a second thread only because the flag is up whenever
a thread lives, except between the creation of the thread and the store of its
handle, and in that gap the one listener cannot accept. `IInv` says this
(`Flag`, `Spawning`), with what it needs: one listener thread in the first run
(`Started`), no client thread before the loop (`Early`), a connection is handed
over once (`Fresh`), the client socket belongs to a thread between adoption and
drop (`Sock`), no READY while a thread is busy (`NotReady`), what a leaving
thread has closed (`Settled`), and that the timer stands at its close only after
a reservation has ended (`TimerQuiet`).

The proof treats the actions by kind. A step of a client thread is shown to be a
`Moves(c, to)`, which keeps `IInv` (`Move`); steps of the timer, of a start or
stop, of the dialog and of the device are shown to be `Keeps`, which does so
too (`Frame`); the steps of the listener and the creation of a listener thread
are treated one by one. The same kinds give the refinement: `ListenSpawn` is
Take, a move of a client thread is Publish, Withdraw, Release or nothing, the
end of the first run is End.

`RebootsStopped` says that when the timer re-initialises for the first time, the
listening socket has been closed before the service starts again. The stop that
comes before does nothing in the states above `TA_STATE_SERVICE_STOP`, so the
proof must show that the timer meets one of them only when the socket is closed
already. Its invariant, `RebootInv`, says who can move (`Still`: the dialog until
the service runs, then only the timer), that no client has asked for a
re-initialisation before the socket is bound (`Unused`), and that the socket is
closed whenever the state makes a stop return, the listener has given up, or the
timer is past its stop (`Closing`). Without the restrictions the property is
false: TLC finds that a lost device, a failed relaunch or a stop by the user or
by the client thread each let a stop of the timer return early; and from the second start on, a listener
thread of the first run, still leaving, can set `TA_STATE_ERR_START_SERVICE`
between the re-initialisation and its stop.

`ClientStreamProofs` proves, for every set of connections, log readers, device
states and events, from `NoConn \notin Conns` and from the readers being
different from the other names:

- `Typing`: the type invariant;
- `Framing`: `Framed`, with all events together;
- `StatesArrive`: `StateKnown`;
- `FramesWhole`: `WholeFrame`;
- `MutexesInOrder`: `LocksInOrder`, by which the two mutexes cannot deadlock;
- `SessionServesOne`: the reduced session implements `ServeOne` too.

`Framed` says nothing of the middle of a message, so it is not inductive.
`StreamInv` says, for a client that nothing has disturbed, how far the message
is: the owner of the output mutex has written nothing yet and the buffer is
empty, or it has put one header into the buffer, or its header has been sent and
its body is due; and without an owner a header is due. It needs that every
writer but the one of an installation's result owns the mutex inside a message (`Mutex`), what control
points say about messages (`Shapes`), that nothing has been written to a
connection before it became the client (`Fresh`), and what the session promises
(`SessionInv`). The seven steps of a message are treated one by one; the others
are shown to leave messages alone (`Quiet`). `WholeFrame` follows from the
ownership of the frame buffer (`Buffer`), `StateKnown` from `Told`: a state
report on its way carries the last state, or another report is to follow.
`LocksInOrder` is the safety half of `EveryWaitEnds`; it needs the converse of
`Buffer` too, that nobody owns the frame buffer without using it (`Owned`).

`FileTransferProofs` proves, from the bounds being natural numbers and the names
being different:

- `TypeCorrect`: the type invariant;
- `SourcesAreKept`: `SourcesKept`, for all files, lengths, clients, transfers and
  events.

A file is removed by the shared name, which an upload's request sets and a
download's request sets too, so the proof must know which transfer the name
belongs to. The invariant `Kept` says of a transfer that nothing has mixed up:
on the way to the device its request comes before everything else; only an upload
sends data; during a download no file is open; during an upload the name is that
of a file somebody asked to upload, unless the request is still to come or was
refused. A cancelled download then finds no descriptor and removes nothing, and
a daemon that is lost takes name and descriptor with it, so that data left over
from its upload meet an empty name.

`FileTransferWholeProofs` proves, from the same assumptions and for all events:

- `DownloadsAreWhole`: `DoneIsWhole`;
- `NothingIsHalf`: `NoHalfFile`.

Both count blocks. `Fetch` says of a download that nothing has spoilt where its
blocks are: stored, in the dialog's buffer, on the two connections to the client,
or still to be read by the one download thread; together they are the file's,
and the end comes behind the last. The download passes through four stages: its
request is on the way (`Asked`), the thread opens the file (`Looking`), it sends
(`Serving`), it is through (`Served`). `Upload` says the same of the way up:
blocks written, on the way and not yet sent are the file's, and while something
is written the name is the open file's and `m_ftp` is set or the end is on its
way, so that whoever leaves has the daemon told. Both need the order on the way
to the device (`Path`: a request before its data, nothing behind an end but the
end of the connection) and who is there (`Session`). A local file that cannot be
read leaves an upload without its end and the file open; `Path` holds until
another transfer meets that file, a writer gives up or the daemon is lost
(`Strayed`), and `NoHalfFile` survives, because `m_ftp` stays set and the
client's leaving cancels it. `Transfers` is their
conjunction and is inductive; with it goes `DoneIsWhole`, because a task that
leaves on the end in its buffer has all blocks by `Fetch`.

`FileTransferStoreProofs` proves `FilesAreKept`: `FilesKept`, the transfers
implement `DeviceFiles`. The start of an upload is `Ask`; the daemon's upload
request is `Begin`, because a request on its way finds no file open (`Kept`), and
the block that completes the contents is `Complete`; an error of the client or of
a write is `Remove`, of the open file, because the name is still its own. The end
is `Close`: by `Transfers` the blocks written, on the way and not yet sent are
the file's, and behind the end nothing is on the way (`EndWhole`). `NoHalfFile`
speaks of the state when everybody has gone, `FilesKept` of every step.

`ScreenLinkProofs` proves, for every bound:

- `TypeCorrect`: the type invariant;
- `TouchesKept`: `CommandsKept`;
- `TouchesInTurn`: agent and daemon implement `TouchRelay`.

Typing needs that no more touches are made than there are events, and that a
touch is being written exactly when the client thread stands there (`Touching`).
The invariant (`Kept`) says that the touches on the path, which are the one the
daemon holds, those in the queue and the one being written, are in the order they
were made and younger than the one injected last, over losses and restarts of the
daemon too; and while the connection lasts, they are all that have not been
injected. It needs that the daemon holds a command other than an 'h' only when it
is about to carry it out. The same invariant gives the refinement: to carry out a
touch is `Inject`, because the one that is held or at the head of the queue is
the oldest; the steps that end the connection are `Lose`, and so is the write of a
touch to a connection that has gone.

`Reservation` proves of its operators, for all arguments:

- `PackedKeepsOrder`: packed dates compare like dates, up to the even second;
- `TimeShown`: by how much the client's count is off;
- `OlderIsRefused`, `NewerMayBeRefused`: what the version test refuses.

Every invariant, action property and refinement that a run checks is proved.
Only model-checked are the liveness properties (`ExpiredIsDropped`,
`AcceptedIsSettled`, `ReinitHappens`, `EveryWaitEnds`, `UploadSettles`,
`ScreenResumes`, `CancelEnds`, `ThreadsEnd`, `ScreenArrives`, `LinkRepaired`,
`CaptureSaved`), because TLAPS has no proof rule for `ENABLED`, on which fairness
rests, and `RebootsStopped` under the events that `Undisturbed` excludes fails, as
said above.

## 3. Not modelled, and what could follow

- *The device channel's commands* (`rui_tdc.cpp`) and the waits of their callers:
  `m_tdcBuff` is shared without a lock, which a model of the bytes would show.
  That the start counts an answer in the last round of its wait as a failure
  (`rui_main.cpp:913`) is within what the session model allows a start to do.
- *Further runs of the service.* Properties of `TASession` that speak of the first
  run say nothing of what a stop and a new start find.
- *What the log readers share*: `m_chBuf` and the process behind the pipe.
- *The H.264 path* (`rui_video.cpp`, `TA/skvideo`, `VideoService.java`): a port
  and buffers of its own, most of it third-party codecs.
- *The preview of TA's dialog* as a third caller of `update_req`; it asks for
  pictures as the timeout does.
- *The client's part of the negotiation* and its watchdog: the models of TA have
  connection, refusal and departure as choices.
- *adb, the reservation server's HTTP requests, Android's services*: external
  programs whose answers are choices.
- *User interfaces, drawing and scaling, vendored code* (libjpeg, the Intel
  headers, AES, G.723): no protocol state. They are most of the repository's
  lines.

## 4. Running

    tlc -workers 2 -config TASession_serve.cfg MCTASession.tla
    tlc -workers 2 -config ClientStream_framed.cfg MCClientStream.tla
    tlc -workers 2 -config FileTransfer_all.cfg MCFileTransfer.tla
    tlc -workers 2 -config ScreenLink_all.cfg MCScreenLink.tla
    tlapm TASessionProofs.tla

and so on for the other configurations and proof modules. The longest runs take
about two to three minutes with two workers; a proof module takes at most three.
