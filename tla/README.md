# CapiSuite in TLA+

CapiSuite is a daemon that turns an ISDN card into an answering machine and a fax
machine: a C++ core talks CAPI 2.0 to the driver, and Python scripts, run inside
the core, decide what is done with each call. This directory holds models of its
core, the TLC runs that check them on small instances, and theorems about them that
TLAPS checks for every instance.

(`connection.cpp`, `capi.cpp`, ... without a directory are files of
`src/src/backend/`, `src/src/application/` or `src/src/modules/`.)

## 1. Inventory

The system has three kinds of threads and no lock shared between them:

* the **message thread** (`Capi::run`), which takes one CAPI message after another,
  finds the `Connection` it belongs to and runs the handler; handlers call back into
  the module that is registered as `CallInterface`;
* the **main thread** (`CapiSuite::mainLoop`), which looks at the queue of waiting
  calls every 100 ms and starts a script for each;
* one detached **script thread** per call, and one for the idle script, which run
  Python and through it the call modules and the public methods of `Connection`.

| component | state | operations | interacts with | hard parts | correct when |
|---|---|---|---|---|---|
| `Connection`, states (`connection.cpp`) | `plci_state`, `ncci_state`, `keepPhysicalConnection`, `service`, `our_call`, `call_if` | handlers of CONNECT/DISCONNECT and B3 messages; `connectWaiting`, `acceptWaiting`, `rejectWaiting`, `disconnectCall`, `changeProtocol`, `registerCallInterface`, destructor | driver (messages both ways), modules (callbacks), `Capi` (registration) | handlers and methods interleave between a test and the change of state; messages of both sides cross; every put may fail | what `getState` says is true; callbacks come in order; each end of a call is noticed, final and answered; a disconnect and a delete end |
| `Connection`, sending (`send_block` and callers) | `file_to_send`, `send_buffer` ring, `buffer_start`, `buffers_used` | `start_file_transmission`, `stop_file_transmission`, `data_b3_conf`, `disconnect_b3_ind` | driver reads the buffers | parts run without `send_mutex`; busy waits; confirmations that never come | no buffer in use is written; handles match; whole files are sent; the waits end |
| `Connection`, receiving and DTMF | `file_for_reception`, `received_dtmf` | `data_b3_ind`, `start/stop_file_reception`, `facility_ind_DTMF`, `getDTMF`, `clearDTMF` | modules poll | a digit between read and clear is lost | every byte and digit arrives once |
| `Capi` (`capi.cpp`) | `connections`, `messageNumber`, `DDILength`, ... | `readMessage`, `connect_req`, the other requests, `unregisterConnection` | driver, all Connections | the map and the counter have no lock; a pseudo PLCI stands for a call until CONNECT_CONF | each message reaches the Connection it is for |
| `CapiSuite` (`capisuite.cpp`) | `waiting`, `finish_flag`, `idle` | `callWaiting`, `mainLoop`, `reload` | message thread pushes, main thread pops | queue without a lock, calls that end while queued | each call gets one script |
| `IncomingScript`, `IdleScript` | `conn`, `active`, error counter | `run`, `requestTerminate`, `activate` | Python, `Connection` | who deletes the Connection, scripts that fail | each Connection is deleted once |
| call modules (`modules/`) | `finish`, `timeout`, counters | constructor, `mainLoop` and callbacks of each | `Connection`, message thread | waiting with time-outs, registration before the constructor is over, callbacks between two waits | a command returns, closes what it opened, and its result fits what happened |
| Python binding (`capisuitemodule.cpp`) | the call reference | one wrapper per command, destruction of the reference | modules, Python | which exceptions are caught where | every command ends in a value or a Python exception |
| process (`capisuite.cpp`, `main.cpp`) | `finish_flag`, the interpreter and its lock, Capi | constructor, signals, destructor | all threads | detached threads, cancellation, order of destruction | nothing deleted is used, the process ends |
| fax queue (`fax.py`, `fileutils.py`, `idle.py`, `capisuitefax`) | spool directories, lock files, job files, counter | enqueue, abort, send, retry, move | several processes and threads on one file system | crashes between two renames, locks whose file is removed | a job is sent once and never lost |
| scripts (`incoming.py`, `voice.py`) | menu position | answering machine, remote inquiry | call modules | hang-up anywhere | recordings are kept |
| configuration, mail, descriptions | none of interest | parsing and formatting | - | - | - |

The hazards these parts are exposed to, each at its line, are in `PROJECT.json`
with the properties that speak of them.

## 2. The modules

```
CapiDriver            the driver and the network, as one call sees them (not in src/)
   |
Connection            class Connection: the states of one call
   |-- MCConnection        instances for TLC
   |-- CallState           what a user of Connection may rely on (abstract)
   |-- ConnectionProofs    theorems, with the refinement of CallState
                           (with QueueLemmas: facts about queues)
FileTransmission      class Connection: sending a file through the ring of buffers
   |-- MCFileTransmission  instances for TLC
   |-- FileTransmissionProofs   theorems     (with QueueLemmas)
CallDispatch          class Capi, the main loop and the script threads: several calls
   |-- MCCallDispatch      instances for TLC
   |-- CallDispatchProofs  theorems          (with QueueLemmas)
ScriptCommands        what a script can ask for: modules and wrappers as records
   |
CallModules           how a command runs: a module over its Connection, two threads
   |-- MCCallModules       instances for TLC
   |-- CallModulesProofs   theorems
Daemon                the process: main thread, idle script, script threads, Python lock
   |-- MCDaemon            instances for TLC
   |-- DaemonProofs        theorems          (with QueueLemmas)
FaxQueue              the files of a send queue and the processes that change them
   |-- MCFaxQueue          instances for TLC
   |-- FaxQueueProofs      theorems
   |-- JobLife             what a user sees of a job (abstract)
   |-- JobLifeProofs       the refinement of JobLife  (with FaxQueueProofs)
```

`map` in `PROJECT.json` gives the lines of every definition. Operators that a comment
marks as a slip are wrong variants of the operator that follows; with one of them in
its place each property fails, which shows that it would notice such a mistake.

### Connection, with CapiDriver and CallState

*State.* `plci_state`, `ncci_state`, `keepPhysicalConnection`, `service`, `our_call` are
the members of that name. `registered` is the entry in `Capi::connections`; `call_if`
says whether a `CallInterface` is registered, `heard` which callback it got last.
`capi_pc` and `app_pc` tell where each thread is inside a handler or method, `arg` and
`our_disconnect_req` are its argument and local variable. `closing` is history: how the
script last asked for the end of the logical connection.

*Actions.* There is no lock around the states, so a handler or method is cut where the
other thread can see the difference: into the test of the state, and each change of a
state with the message put next to it. `readMessage` takes the next message and makes
the test of its handler; a failed test is an exception, logged by `Capi::run`, and the
message is lost. Then follow the steps of the handler: `connect_active_ind` tests P1
again, for CONNECT_B3_REQ and N01, and `connect_active_ind_active` sets PACT, whatever
`disconnectCall` has done in between; `disconnect_b3_ind` sets N5,
`disconnect_b3_ind_callback` calls the module if it was N4 that was read,
`disconnect_b3_ind_resp` sets N0 and answers, `disconnect_b3_ind_rest` looks at
`keepPhysicalConnection`. A method starts with its
`call...` action (test, exceptions included) and goes on with `connectWaiting`,
`rejectWaiting`, `acceptWaiting`, `changeProtocol`, `disconnectLogical`,
`disconnectKeep`, `disconnectPhysical` or `destroyed`. `TryPut` is a `Capi` method:
the message is put or, if `PutMayFail`, it throws.

*Environment.* `CapiDriver` keeps the state of the line and the link as the network sees
them and the two queues of messages. It is modelled from how `connection.cpp` uses CAPI:
it confirms requests, refuses the ones it may refuse, offers and clears links, and
repeats nothing. A script is any sequence of public methods.

*CallState* is the contract: the state `getState()` reports and the callbacks, with
nothing of PLCI, NCCI or messages. `ImplementsCallState` says that `Connection` refines
it, with `state <- getState`.

### FileTransmission

The ring of seven buffers is `buffer_start` and `buffers_used`, as in the code; a file is
`file_to_send` (the pointer is not NULL) and the bytes `left`; `handed`, `size` and
`complete` are history. `send_block` is an operator used by every caller, with both
outcomes of `data_b3_req`. `start_file_transmission` is cut at every place where the
code holds no `send_mutex`: test (`start_file_transmission`), `start_open` (which may
find a file it can not read), `start_check`, `start_lock`, and then one `start_send` per round of its loop, in which
the lock is held. `data_b3_conf`, `data_b3_conf_send`, `disconnect_b3_ind`,
`disconnect_b3_ind_stop` and `disconnect_b3_ind_wait` are the message thread, the
last of them the busy wait of `stop_file_transmission`. `crashed` stands for a use of the
null pointer.

### CallDispatch

Several calls share the PLCIs of the driver and the numbers of our messages.
`connections` is the map of `Capi` by PLCI (the entry 0 is the one a refused call gets),
`requested` the part of it under pseudo PLCIs, by message number. Of each Connection it
keeps `plci_state`, `plci`, `call_to` and whether it is `deleted`; `P4` stands for every
state of an answered call, which module `Connection` looks at in detail. `waiting` is the
`std::queue` of `CapiSuite`; `scripts` counts the owners of a Connection and `started`
the scripts started for it. `corrupt` says that a deleted Connection was used; nothing is
modelled of what the program does then.

`connect_req` is cut at its three uses of `messageNumber`; `disconnect_ind` between
`P0` with DISCONNECT_RESP and `unregisterConnection`. `mainLoop` takes one waiting call,
`capisuitemodule_destruct_connection` is the end of a script. `Ring`, `Dial` and `Clear`
are the caller and the driver, which uses a PLCI again when it has seen
DISCONNECT_RESP. An installation (`config`) is chosen at the start: `DDILength`,
`DDI_stop_numbers`, whether digits come one by one, whether threads overlap, whether
requests fail.

Abstractions: push and pop of the queue are atomic (the code has no lock there);
creation of threads and of Python interpreters does not fail; a request is taken by
the driver at once, though what it answers stays in a queue.

### CallModules, with ScriptCommands

*ScriptCommands* has the call modules as records (which callbacks set `finish`, what the
`throw()` declarations let through, which service the constructor wants) and the wrappers
of `capisuitemodule.cpp` with their `catch` clauses, one operator per class or function.
`Outcome(e, w)` says what a script sees of an exception. An exception that no clause
catches (only `capisuite_switch_to_faxG3` has none for `CapiMsgError`) leaves through
the C code of the interpreter (`pc = "escaped"`); nothing is modelled after that.

*State.* Of the Connection: both states, `service`, `keepPhysicalConnection`, whether a
file is open in either direction, how many digits `received_dtmf` holds, and what is
registered as `call_if`: nobody, a module whose base constructor is running (its virtual
functions are those of `CallModule`), a module, or one that is gone. Of the module under
way: `finish`, `timed`, `call_finished`, and the counters of `ReadDTMF` and
`AudioReceive`. `pc` and `cmd` are the script, `capi_pc` the callback the message thread
is about to make. `blocks`, `quiet`, `packets`, `typed` and `given` are history:
packets in the file, silent ones at its end, packets received, digits dialled, digits
returned.

*Actions.* A handler is its change of state followed by the callback as a step of its
own. A DISCONNECT_IND that comes before N0 is refused and lost, as in the code
(`disconnect_ind_refused`; `gone` says so), and nothing comes after it.
`start_file_transmission` is cut between its test, the opening of the file, and the
second test in `send_block`, which throws with the file open; `Stopped` is the end of the
wait in `stop_file_transmission`. A command is: registration, the test of
`checkConnection`, the constructor of the subclass, then `mainLoop`, cut where it sleeps
and where it reads or changes the Connection. There is no clock: a wait with a timeout
may end at any time, one without ends by `finish` or a digit. `Return` and `Throw`
deregister the module; the exception of `CheckConnection` does not, as no destructor
runs. The end of a script is one more command, `capisuitemodule_destruct_connection`,
followed by the destructor of the Connection. `config.overlap = FALSE` lets the message
thread handle messages only while the script sleeps, which it does nearly always.

Left to the other modules: what crosses inside a handler, such as a `disconnectCall`
between the steps of `connect_active_ind`, and failing puts of handlers (`Connection`),
the buffers of a transmission (`FileTransmission`), several calls (`CallDispatch`).

### Daemon

The main thread goes through the constructor of `CapiSuite`, its loop and its destructor;
`callWaiting` is the message thread, `finish` and `reload` the signal handlers. Python
code runs under one lock (`lock`), commands of the module `capisuite` without it.
`IdleStep` is the thread of the idle script, `ScriptStep` the one of a call, with
everything `run()` does when the interpreter, the reference or the arguments can not be
created. Cancellation is what POSIX says: it is acted on where a thread may block, the
cleanup handler deletes the script object, nobody releases the lock. `wild` says that a
deleted or never created object was used; nothing is modelled after that, nor after the
process has ended. The last reference to a call is given up with the lock (`run()`
ends, or has no arguments: `destruct`) or without it (there is no interpreter:
`disconnect`). The wait for the disconnect that follows lasts until `Destructed`; with
the lock, everybody else who wants Python waits as well. What goes on in that wait is in
`CallModules`.

### FaxQueue and JobLife

A queue is three directories of fax and control files, the counter `fax-nextnr`, and lock
files. `linked` says which file (inode) a lock name stands for and `holder` who has locked
a file: `_releaseLock` unlinks lock files, so that two processes may hold "the same" lock.
Clients (`capisuitefax`) enqueue and abort, the idle script sends, retries, moves to
`done` or `failed`; one action is what happens between two accesses to files. A file that
is rewritten is `Truncated` between open and close. `Crash` ends a process at any point:
its locks go, its files stay. `broken` is a script file that can not be read or parsed:
only that counts in the error counter of `IdleScript`, since `PythonScript::run` logs the
exceptions of Python and does not throw. A failing converter still gets a control file, a
job with a fax that is missing or belongs to somebody else is skipped in each round.

A call has three ends: idle() takes it for a success, counts a try, or never learns of it.
The causes it takes for a success are those of a normal end, and `sendfax` returns
`(cause, 0)` for a call that was never established, so that a call may be a success
whether the fax arrived or not (`Result`; `succeeded` counts them). `sendfax` catches
`CallGoneError` only: a `BackendError` of `call_faxG3`, `fax_send` or `disconnect` leaves
`idle()` with no try counted (`RaiseUncounted`; `uncounted` counts them), and the job
stays as it is.

`config.overlap = FALSE` excludes two moments of a few microseconds: one process opens a
lock file while another that has it open is between unlocking and unlinking it, or the
like (`Apart`), and clients ask for numbers one after the other.

*JobLife* is what `storage.py` promises of an item: one place at a time, done only after
a call that `idle()` takes for a success, failed only after `send_tries` calls. `ImplementsJobLife` says that
the files of the queue implement it, with `place` read off the control files.

## 3. The runs

Passing runs:

| run | instance | what it shows |
|---|---|---|
| `conn_races` | calls of both origins, threads overlap, puts fail | types; `DownIsReal` and `UpIsReal`: what `getState` says is true of the network, or will be corrected by a message already queued; `CallbackOrder` |
| `conn_orderly` | both origins, one thread at a time, no failing put, fairness | `ImplementsCallState`; `DownIsFinal`; `LogicalOnlyKeepsLine`: the two kinds of disconnect do not get mixed up; `IncomingHangupNoticed`, `DisconnectClears` |
| `file_races` | files of 0, 4 and 11 bytes in blocks of 2, threads overlap, puts and confirmations fail | types; `NextBufferIsFree`; `StoppedMeansUnused` |
| `file_orderly` | the same files, one thread at a time, nothing fails, fairness | `HandleIsValid`; `CompleteMeansHanded`; `DisconnectB3IndReturns`, `FileIsSent` |
| `dispatch` | two calls, in or out, two PLCIs, five installations, fairness | `ReachesItsConnection`, `OneScriptPerCall`, `NoUseAfterDelete`, `CallIsDeleted`, `LongNumberIsServed` |
| `callmodules` | six scripts of three to five commands with one failing request or none, four with overlapping threads, both services and origins, fairness | `FilesAreClosed`: however a command ends (a file being sent, with overlap, is excepted); `DigitsAreKept`; `CutsSilence`: the silence that `AudioReceive` cuts off is silence; `DisconnectedIsDown`; `DownEndsCommand`, `DisconnectEnds`, `TimeoutEndsCall`: commands end, the last two unless DISCONNECT_IND was refused |
| `daemon` | two calls, with and without idle script, one failing step or none, signals at any time, disconnects that wait with the lock, fairness | `FinalizedIsLeft`: nobody is in the interpreter when it is finalized or later; `NothingDeletedIsUsed`; `FinishEnds` |
| `faxqueue` | two clients and the idle script, two documents, one crash, a call that raises, or an unusable script, two tries, fairness | `SendsItsJob`: the files of a job do not change while it is sent; `TriesAreLimited`: a call more for each crash and each exception only; `SentOnce`: no call after one that counts as a success; `ImplementsJobLife`; `JobLeavesQueue` |

Runs that end with a counterexample, one for each disagreement between the code and
what its comments say (quoted in `PROJECT.json`):

| run | what happens |
|---|---|
| `conn_hangup_unnoticed` | DISCONNECT_IND arrives while CONNECT_B3_REQ of a call of ours is unconfirmed (N01): `disconnect_ind` throws, nobody answers, the call is never seen to end |
| `dispatch_two_scripts` | `DDI_length` and base number set, no stop numbers: the bare base number is complete, so is the next digit; two scripts for one Connection |
| `module_dangling` | the call ends before a command registers its module: `CallModule::CallModule` registers and then throws, the next callback goes to an object that is gone |
| `fax_same_number` | three clients in `uniqueName`: the second waits for the lock of a file the first unlinks, the third creates a new one; two documents get one number |

What else is known not to hold, without a run of its own:

* With overlapping threads `connectWaiting` may replace P0 by P4 (`DownIsFinal`), and
  DISCONNECT_B3_IND may be handled before `disconnectCall(LOGICAL_ONLY)` has set
  `keepPhysicalConnection` (`LogicalOnlyKeepsLine`).
* `FileIsSent` fails when a confirmation carries an error: `data_b3_conf` throws before
  it frees the buffer, the next confirmation has the wrong handle (`HandleIsValid` fails
  as well), and the window fills up. `NextBufferIsFree` still holds.
* `CompleteMeansHanded` fails when DATA_B3_REQ fails: the block is lost and the file goes
  on. If it fails for the last block, `file_to_send` is set to NULL and then closed
  (`NoNullDereference`).
* A block sent while `disconnect_b3_ind` is under way leaves the message thread waiting
  for a confirmation only it could read (`DisconnectB3IndReturns` with overlap).
* Two threads in `connect_req`: the number sent is not the key saved
  (`ConfirmationIsMatched`).
* `connect_active_ind` may replace the P5 of a `disconnectCall` by PACT.
* With overlap the link may end between the two tests of `start_file_transmission`:
  `send_block` throws and `file_to_send` stays open (connection.cpp:861, 867, 808); nobody
  closes it (`FilesAreClosed` without its exception).
* After a refused DISCONNECT_IND (`conn_hangup_unnoticed`) the call is never DOWN: the wait
  of `CallOutgoing` after its timeout (calloutgoing.cpp:46) and `DisconnectModule` never
  end.
* The destructor of a call of ours that was refused, or not confirmed yet, waits for ever:
  `disconnectCall` does nothing in P01. A CONNECT_CONF with an error leaves `CallOutgoing`
  waiting for ever. When the request that clears a call after its timeout fails, nobody
  gets the Connection (`pc = "lost"`).
* `ReadDTMF::call_finished` is never initialised: `capisuite_read_DTMF` may return fewer
  digits than the minimum though the call goes on (`ReadsMinimum`).
* A module may hear `callConnected` for a call that is already being disconnected
  physically (P5); `CallState` allows it.
* A failing DISCONNECT_RESP or CONNECT_REQ leaves a dangling entry in the map; with
  overlap, a script may delete the object between `plci_state=P0` and
  `unregisterConnection`.
* A caller who hangs up before an extension is complete leaves its Connection undeleted:
  no script is ever started for it.
* With an idle script, SIGTERM need not end the process: the cancelled thread may keep the
  Python lock the destructor waits for (`FinishAlwaysEnds`). SIGHUP after that script has
  deleted itself uses it; Capi is deleted while the threads of calls still use it; one
  failing thread, interpreter or reference makes a Connection be deleted twice
  (`NothingDeletedIsEverUsed`).
* A crash in `writeCounter` leaves an empty counter, and `uniqueName` raises ever after; a
  crash between opening and writing a control file leaves one that ends every round of
  the idle script at this job. `moveJob` writes back the tries it has read, not the ones
  that `idle()` has counted.
* A `BackendError` in `sendfax` (fax.py:260 catches `CallGoneError` only) ends the round with
  no try counted: a call that raises in every round, such as a refused CONNECT_REQ, is
  made for ever, and a fax that arrived before `disconnect` raised is sent again
  (`JobLeavesQueue` is stated without exceptions, `TriesAreLimited` allows for them).
* A call that was never established and has the cause of a normal end (0x3400, 0x3480,
  0x3490, 0x349f) counts as sent: its job goes to `done` (fax.py:255-257, idle.py:131-132).

## 4. Bounds, and why they are enough

* `QueueBound = 3`: a script calls no method while three messages are queued in either
  direction; the driver and the handlers may add more. The shortest race needs one of
  each. With 4 and 5 both passing runs pass as well (2.9 million states), and the theorems
  hold for every bound.
* One call in `Connection`: handlers and methods of different objects share only the map,
  the message number and the queue, which are in `CallDispatch`.
* `conf_send_buffers = 4` and seven buffers are the code's numbers. `BlockSize = 2` stands
  for 2048: what matters is whether the last block is full, short or empty. Lengths 0
  (empty file), 4 (two whole blocks, then an empty read) and 11 (six blocks, more than
  the window, the last one short; two files go once round the ring).
* Two calls and two PLCIs: enough for messages of one call to meet the state of the
  other, and for a PLCI to be used again by the next call. Two message numbers: each
  number is used once, as with sixteen bits between two wraps.
* `CallModules`: one call, as commands of different calls meet only in `CallDispatch`.
  `SilenceLimit = 2` is the least with something to cut; four packets make a recording
  with sound before, between and after the silence; two digits tell none, some and all.
  Three to five commands let each follow each of its configuration, with a call that ends in
  between; one failing request, at any place. The theorems hold for all values.
* `Daemon`: two calls, so that one waits while the other runs or fails; one failing step.
* `FaxQueue`: two documents and two clients (three of each for the shared number), two
  tries, two errors that disable the idle script (ten in the code), one crash, one call for a
  document that ends in an exception (`MaxErrors`). The theorems hold for every number.
* Numbers are `5` (base) and `1` (extension): shorter than the base, the base alone, a
  stop number, the whole number.

Deadlock is not checked: a script may stop calling and both sides may have nothing to
do. The liveness properties say where the system may not stop.

## 5. Fairness

Only steps the code or the driver cannot refuse are fair: `Capi::run` reads on and a
handler it entered goes on (`WF` of the message thread); a method that was entered goes
on; the driver takes what was put, confirms the data it has got and clears a link or
line it was asked to clear. In `CallDispatch` the main loop looks at its queue again
and again (it sleeps 100 ms between), and each script ends some day: its Connection
is disconnected and deleted then (`capisuitemodule_destruct_connection`); so it is in
`Daemon`, where the wait for it is fair (`Destructed`): the calls come in, and for
those `Connection` shows it (`DisconnectClears`). In `CallModules` a command that was started goes on, but what the other side does (answer,
hang up, talk, dial) is never fair. No script has to call anything, no caller has to dial
or hang up. Weak fairness suffices there since only one thread can take each of these
steps, and nothing disables them for ever and again.

Strong fairness is used where a step waits for something that others take and give back
again and again: the Python lock in `Daemon` (the interpreter gives it up every hundred
instructions and a waiting thread gets it some day), and a process of `FaxQueue` that
`Apart` makes wait, where in the code it would just go on. In `FaxQueue` the clock goes on
to the start time of a job, and the administrator sends SIGHUP when the idle script was
disabled; nobody has to repair the script (`JobLeavesQueue` says so).

## 6. Theorems

Every safety property and every action property of a passing run, and both refinements,
are proved by TLAPS for every value of the constants that satisfies the named
assumptions. `~Overlap` and `~config.overlap` say that no thread runs inside a method of
another, `~PutMayFail` that requests reach the driver, `~ConfMayFail` that no
confirmation reports an error. Each is a hypothesis only where TLC refutes the property
without it or the property itself has it, but for two theorems of `FaxQueueProofs`.

**ConnectionProofs**

* `TypeCorrect`: `ConnectionTypeOK`, from `TypeInv`: the queues (`InboxOK`, `OutboxOK`),
  the plain variables (`PlainOK`), and `ArgumentOK`: the argument of a method has the type
  its method needs, or `service` would lose its own.
* `CallbacksInOrder`: `CallbackOrder`, with overlap and failing requests. It speaks of
  steps and needs `CallbackInv`, which ties the last callback to `ncci_state` and the place
  in the handlers. The least obvious part is `NoLinkYet`: in P01 and P1 there is no logical
  connection, because the called side alone gets CONNECT_B3_IND (`CallerGetsNoB3Ind`);
  without it `connect_active_ind` could reset the state of a link that is up.
* `DownIsTrue`: `DownIsReal`, with overlap and failing requests, from `DownInv`: once
  DISCONNECT_IND is queued, handled or was answered (P0), the network has cleared the call
  (`EndIsReal`), and no CONNECT_REQ that it has yet to read brings it back
  (`ConnectReqFirst`).
* `UpIsTrue`: `UpIsReal`, with overlap and failing requests, from `UpInv`: a link that is
  not active has its DISCONNECT_B3_IND behind every CONNECT_B3_ACTIVE_IND in the queue
  (`EndFollows`, `StartIsReal`), so that the handler of the start never has the last word.
* `DownStaysDown`: `DownIsFinal` without overlap, failing requests or not. `FinalInv` has
  two parts: what a method has tested still holds when it acts (`TestsHold`), and a call
  that is down has no link, nor a message that would give it one (`DownHasNoLink`).
* `CallStateImplemented`: `ImplementsCallState` without overlap, failing requests or not.
  `HandlerStarts` says in which state each handler goes on after its test; then each step
  is one of `CallState`, or changes neither `getState`, the registration nor the last
  callback. `WaitingHasNoLink` separates WAITING from the states with a link.
* `LineIsKept`: `LogicalOnlyKeepsLine` without overlap and failing requests, both needed.
  `ClosingIsKnown` ties `keepPhysicalConnection` to what was asked for.

**FileTransmissionProofs**

* `FileTypeCorrect`: types, among them `buffers_used` never beyond `conf_send_buffers`.
* `HandlesAreValid`: if no confirmation carries an error, the handle test of
  `data_b3_conf` never throws, from `RingInv`: the confirmation in hand, the ones queued and
  the blocks unconfirmed are, in this order, consecutive places of the ring from
  `buffer_start` on (`RingIsQueue`), as long as the link is not ending, and nothing is left
  of the old link when the next one comes (`NothingLeft`, `EndMeansCleared`, `EndIsLast`).
* `BuffersAreFree`: `NextBufferIsFree`, without hypotheses. A confirmation with an error
  breaks the order of `RingIsQueue`; `WindowInv` asks for less: while the connection is up,
  the handles on their way are different from each other, and each is one of the
  `buffers_used` places from `buffer_start` on (`BlocksFit`, `ConfsFit`, `HandFits`). Freeing
  the oldest buffer then cannot free one of them, and the next block's place is behind them.
* `CompleteFilesAreHanded`: `CompleteMeansHanded` if no request fails, with overlap and
  wrong confirmations. `BytesInv`: what was handed over and what is left make up the file
  while it is open.
* `StoppedFilesAreUnused`: `StoppedMeansUnused`, without hypotheses. `StillUsed`: the
  confirmation in hand, those queued and the blocks unconfirmed are never more than
  `buffers_used`; it is an inequality, for a refused block and an error in a confirmation
  make `buffers_used` too high, never too low.

**CallDispatchProofs**

* `DispatchTypeCorrect`: types. They are not inductive as they stand: a PLCI in use must
  have a call (`LineType`), or the driver's messages would name none, and the handler that
  unregisters a call must know which.
* `MessagesArrive`: `ReachesItsConnection`. `OrderInv`: the entry of a PLCI (`Entry`, gone
  with DISCONNECT_RESP) and its messages in the queue belong to one call, the first opens
  it and DISCONNECT_IND is the last, and a free PLCI has neither. `ReachInv` (no overlap):
  a PLCI in use has its entry or the message that opens it in the queue (`Attached`), and
  the numbers of confirmations are below those to come (`OneRequester`, `NumbersInOrder`).
* `OneScriptEach`: `OneScriptPerCall`, with overlap. A call rings once and completes its
  number once (`DialInv`, `DialsOnce`), and is queued only then.
* `NobodyUsesDeleted`: `NoUseAfterDelete`. `OwnerInv`: a Connection that is not deleted
  belongs to one of the thread that makes it, the confirmation, the queue, or one
  script (`OneOwner`); whoever else may name it finds it alive.

**CallModulesProofs**

* `ModulesTypeCorrect`: types for every set of commands. The bounds of the counters need
  `PacketType`: a packet whose callback is still to come is not counted yet.
* `NoFileIsLeftOpen`: `FilesAreClosed`, for a recording with both threads interleaved at
  will, for a file being sent while no thread runs inside a method of the other. `FileInv`
  says where a file can be open at all: while the module that opened it is between the
  opening and the end of its sleep; without overlap the link is still up at the second
  test. `PlaceInv`
  ties the places inside `mainLoop` to their classes.
* `EveryDigitIsGivenOnce`: `DigitsAreKept`, for threads that do not overlap (with overlap
  a digit between `getDTMF` and `clearDTMF` is lost).
* `OnlySilenceIsCut`: `CutsSilence`, from `SilenceInv`. `LineInv` says what the two states
  say of each other and of messages the network owes; with it `RecordInv` shows that no
  new link can begin while a recording sleeps, so that packets are written as long as
  packets come; `OpenInv` that counting starts at zero when the file is opened, and
  `CountInv` that the packets counted are the last ones of the file, one behind while the
  callback is still to come.
* `DisconnectMeansDown`: `DisconnectedIsDown`. `EndInv`: a `DisconnectModule` that sleeps
  with `finish` set is in P0. That needs `HearsInv` (from the constructor of the subclass on
  the callbacks are its own, which ignore the logical end), `ArgumentInv` (no timeout and no
  digits wake it; from `DisconnectAssumption`: commands that disconnect are those the
  wrappers build) and `DownInv` (the physical end is reported in P0 only).

**DaemonProofs**

* `DaemonTypeCorrect`, `InterpreterIsLeft` and `OwnedUntilUsed`: types, `FinalizedIsLeft`
  and `NothingDeletedIsUsed` for any number of calls. The first two say that the lock has
  one owner and that the owner is the only one inside; the last that a call is queued
  once, belongs to one script from then on, and that the script gives up `conn` when it
  deletes the call.

**FaxQueueProofs** and **JobLifeProofs**, for any number of clients, documents, tries and
crashes. `EnoughInodes` says that who opens a lock file finds a free inode, as on a file
system that is not full.

* `QueueTypeCorrect`: types, with overlap; no control file counts more than `send_tries`
  tries.
* `TheJobIsSent` (`SendsItsJob`), `NumbersAreUnique` (`NumbersDiffer`, which the run
  `fax_same_number` refutes with overlap), `CallsAreLimited` (`TriesAreLimited`) and
  `SuccessIsLast` (`SentOnce`), all from `JobInv`, which is inductive without overlap only
  as a whole:
  `LockInv`: a lock name stands for what its users have opened, and who unlinks it is alone
  with it (`LeavesAlone`), so that one process holds it;
  `NumberInv`: the counter is past all numbers given, but for the client about to write it;
  `FileInv`: the files of a job are in one directory, but for the one the idle script moves
  (`OnePlace`), and no client fills or aborts the job that is being sent (`NobodyFills`,
  `AbortsJob`);
  `CallInv`: the tries in a control file are the calls made, less one for each crash and each
  call that raised at most (`TriesAreCounted`), and a document whose call was a success is
  in the queue only while its job is being moved, or after a crash.
  With overlap TLC refutes the first two and `ImplementsJobLife`; of `TriesAreLimited` and
  `SentOnce` it finds no violation, but their proof needs `LockInv`.
* `JobsAreStored`: `ImplementsJobLife`. The place of a job is read off the control files;
  by `OnePlace` the rename that moves a job is the step of `JobLife`, and no other step
  changes a place.

*QueueLemmas* has the facts about queues these proofs share: what `Append` and `Tail` do
to the messages in a queue, to their order (`FollowedBy`, `PrecededBy`, `NoneAfter`) and to
the messages of one kind.

Only model-checked: the liveness properties (`IncomingHangupNoticed`, `DisconnectClears`,
`DisconnectB3IndReturns`, `FileIsSent`, `CallIsDeleted`, `LongNumberIsServed`,
`DownEndsCommand`, `DisconnectEnds`, `TimeoutEndsCall`, `JobLeavesQueue`, `FinishEnds`):
they rest on fairness and thereby on `ENABLED`, which is out of the prover's reach. Nothing
is assumed but the named assumptions about the constants.

## 7. Not modelled, and why

* `getNumber`, `buildBconfiguration`, `convertToCP437`, the tables of error texts and
  `getInfo`: encoding and texts, pure functions of their arguments with loops over
  characters.
* `incoming.py`, `voice.py`, `core.py`: one thread each that gives commands one after the
  other. `CallModules` has every sequence of commands of a configuration, so what such a
  script could do to the core is covered; the menus have no shared state. The numbers of
  their recordings come from `uniqueName`, which is in `FaxQueue`.
* Configuration files, command line, mail, sound conversion: input and output. Where their
  failure changes what goes on it is a choice (`readConfiguration`, `Convert`, `Mail`).
* A race inside `std::queue` (pushed by the message thread, popped by the main thread
  without a lock) has no outcomes one could enumerate; push and pop are atomic in both
  modules that have the queue.
* Worth proving next: the safety half of the liveness properties, that a thread which waits
  for a flag or a state finds it set as soon as what sets it has happened (no wake-up is
  lost), so that TLC's part is fairness alone.
