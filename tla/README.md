# Mobly in TLA+

Mobly runs test classes against devices: it calls user code (setup, tests,
teardown, hooks), turns what that code raises into result records, writes them
to a summary file, and makes sure that devices are released. This directory
models that program, model-checks it with TLC on small instances and proves
theorems about it with TLAPS. Paths below are relative to `src/mobly/`.

## The system

| component | code | state it keeps | operations |
|---|---|---|---|
| result records | `records.py` | `TestResultRecord` (result, termination signal, extra errors, parent), `TestResult` (lists requested, executed, failed, passed, skipped, error), the summary file | `test_*`, `add_error`, `update_record`, `add_record`, `add_class_error`, `is_all_pass`, `+`, `TestSummaryWriter.dump` |
| test class execution | `base_test.py`, `runtime_test_info.py`, `signals.py` | `results`, `current_test_info`, the local state of `run` | `run`: `_pre_run`, `_setup_class`, `exec_one_test` (with retry, repeat), `_skip_remaining_tests`, `_teardown_class`, `_clean_up` |
| expectations | `expects.py` | one global recorder: the record it holds, an error count | `expect_*`, `expect_no_raises`, `reset_internal_states` |
| controller registry | `controller_manager.py` | registered objects by module, in order | `register_controller`, `get_controller_info_records`, `unregister_controllers` |
| test runner | `test_runner.py` | added test classes, total results, one summary writer | `run`, the SIGTERM handler |
| suite runner | `suite_runner.py`, `base_suite.py` | selected tests, the verdict | `run_suite`, `run_suite_class`, `compute_selected_tests` |
| Android devices | `controllers/android_device.py` | serial, `_build_info`, `_is_rebooting`, the services | `create`, `destroy`; `handle_reboot`, `handle_usb_disconnect`, `build_info` |
| service manager | `.../service_manager.py`, `services/base_service.py` | services by alias, in order | register, unregister, start, stop, pause, resume |
| logcat | `.../services/logcat.py`, `.../logcat_processor.py` | the adb subprocess, the file, last connection time; listener thread, queue, deque | start, stop, pause, resume; listen, wait_for, tail |
| snippet client | `snippet/client_base.py`, `.../snippet_client_v2.py`, `services/snippet_management_service.py` | server process, socket, ports, uid, id counter and lock, event client | initialize, stop, rpc, restore, callbacks |
| callbacks | `snippet/callback_handler_base.py` | none of its own | `waitAndGet`, `waitForEvent`, `getAll` |
| instrumentation tests | `base_instrumentation_test.py` | the current block, reported tests | one step per output line |
| adb, fastboot, apk utilities | `.../adb.py`, `fastboot.py`, `apk_utils.py` | a lock | commands; installation with one retry |
| sniffer, iperf, attenuators | `controllers/` | a capture or server process, a telnet session | start, stop, wait |
| configuration, logger, utilities | `config_parser.py`, `keys.py`, `logger.py`, `utils.py` | loaded configuration, handlers | pure functions and I/O |

`PROJECT.json` lists all of them with what is modelled and what is not.

**How they interact.** `run_suite` makes a `TestRunner` for each test bed; the
runner makes an instance of each test class and calls its `run`; all of them
write to the bed's summary file. A test class calls user code, and user code
calls back: it registers controllers, fails expectations (through the global
recorder, which holds a reference to a record), raises signals. Records are
shared by reference among `current_test_info`, the recorder and the lists of
results, so whoever holds one can change a record that was already filed. The
registry calls the controller modules; for Android devices these stop
services, which talk to processes, sockets and files.

**What is hard.** Every callback may raise anything, in particular the abort
signals, which travel through a dozen `except` and `finally` clauses that each
treat them in their own way. A record passes through many hands before and after it is
filed and written. One class, bed or controller failing must leave the others
intact. Farther out: RPCs and callbacks of several threads, a log file read while
it is written, devices that reboot, processes that die.

**What makes each component correct.**

* Records: a record is in the list of its result, an executed one in exactly one;
  the file shows what the results hold; `is_all_pass` forgives just what a passing
  retry makes good.
* Test class: every requested test is reported; no error is lost and none is
  filed as a pass; after an abort signal no test starts; the class always tears
  down; retry and repeat counts and thresholds are kept.
* Controllers: what was created is destroyed, whatever any destroy raises.
* Runner and suite: totals, SUMMARY and exit status agree with the file, and the
  program ends.
* Services, device: what was live before a reboot or disconnect is live after it,
  or the failure is reported; a cache is not older than the boot; the devices
  `create` returns are served, and of those it made none is left when it raises.
* Snippets: a response answers its own request; nothing allocated by `initialize`
  outlives `stop` or a failed start; an event reaches its handler.
* Logcat: no matching line is lost or dispatched twice within the documented
  bounds; no line of a pause is lost.
* Instrumentation: each test of the output is filed once, also when it ends early.
* Selectors: what is run is what they name, in whatever order they come.

## Modules

| module | what it is |
|---|---|
| `TestRecords` | records, results and file as pure operators on a *ledger*: `records` (the record objects, in order of creation), `results` (lists of indices into them: the references of the code) and `file` (entries with the result shown when they were written) |
| `TestClass` | the state machine of one `BaseTestClass.run`, extends `TestRecords` |
| `TestRun` | several class runs under a runner for each bed, in `run_suite` or in `run_suite_class`, extends `TestClass` |
| `TestSelectors` | what the selectors of the command line select, as operators |
| `Instrumentation` | the parser of instrumentation output, as operators on its state and a line |
| `DeviceServices` | one Android device: its service manager, the reboot and USB-disconnect contexts, the `build_info` cache |
| `Devices` | the Android devices of a test bed, from their configuration to their destruction |
| `EventQueue` | abstract: a queue of events that threads take from |
| `SnippetRpc` | RPCs of several threads on one connection and the callback handler's calls over them; implements `EventQueue` |
| `SnippetClient` | the life of snippet clients and their event clients, and what they hold on host and device |
| `LogcatReader` | `wait_for`, a listener and `tail` reading a file while it is written |
| `LogcatService` | the logcat service with its process, its file object and the device beside it |
| `MCTestClass`, `MCTestRun`, `MCInstrumentation`, `MCDeviceServices`, `MCDevices`, `MCSnippetRpc`, `MCSnippetClient`, `MCLogcatReader`, `MCLogcatService` | instances for TLC |
| `TestRunProofs` (with `TestClass` and `TestRecords`), `DevicesProofs`, `DeviceServicesProofs`, `EventQueueProofs`, `SnippetRpcProofs`, `SnippetClientProofs`, `LogcatProofs`, `ParsingProofs` (with `TestSelectors` and `Instrumentation`) | theorems |

### TestClass and its code

`pc` names the foreign code that is running; an action is one return from it
with everything the framework does until it calls out again. How the code ended
is the action's input: `out` (the exception: `ok`, `fail` for a `TestFailure` or
`AssertionError`, `error` for any other exception, `skip`, `pass`, `abort_class`,
`abort_all`) and `x` (did an expectation fail in it).

| actions | code |
|---|---|
| `PreRunFails`, `PreRunReturns` | `_pre_run`, the beginning of `run` |
| `SetupClassPasses`, `SetupClassAborts`, `SetupClassRaises`, `SetupClassExpects`, `ClassOnFailAborts`, `ClassOnFailReturns` | `_setup_class` |
| `SetupTest`, `TestMethod`, `TeardownTest`, `Procedure` | `exec_one_test`; `Procedure` is the on_fail, on_pass or on_skip hook and files the record |
| `Advance`, `BeginIteration`, `Again`, `Invalid` (operators) | the loop of `run`, `_exec_one_test_with_retry`, `_exec_one_test_with_repeat` |
| `SkipNext`, `SkipDone` | `_skip_remaining_tests`, one requested test a step, then out of the `try` |
| `TeardownClass` | `_teardown_class` |
| `GetInfo`, `InfoRecorded`, `Destroy`, `FinishCleanUp` | `_clean_up` with both loops of `ControllerManager` |
| `Register` | `register_controller`, called from user code |

`info` and `recorder.rec` are references: the record of `current_test_info`, and
the one the expects recorder was last reset to. They differ in `pre_run`, which
does not reset the recorder. `exc` is the exception in flight, `crash` the
`ValueError` of a bad count or the `Error` of an unresolvable name. `raised` is a
history variable: the abort signals user code raised.

A *plan* is what a class is asked to run: the requested names, the tests
they resolve to with their repeat count, threshold and retry count, and whether
every name resolves. What `generate_tests` and test selection produce is thus an
input.

### DeviceServices and its code

One thread uses the manager and enters the contexts; other threads read
`build_info`. A call into a service returns or raises; after one that raised
`is_alive` may be either. `is_alive` itself does not raise.

| state | code |
|---|---|
| `registry`, `alive` | `_service_objects`, `is_alive` of each |
| `call` | the loop of the manager that is running: the services left, who called it |
| `frames` | the contexts entered, each with its `live_service_names` |
| `rebooting`, `cache`, `reader` | `_is_rebooting`, `_build_info`, a thread between its check, `getprops` and its assignment |
| `current`, `faulty`, `nested`, `late`, `before` | history |

| actions | code |
|---|---|
| `Register`, `Unregister`, `CallAll` | `register`, `unregister`, the beginning of `start_all`, `stop_all`, `pause_all`, `resume_all`, `unregister_all` |
| `Tolerate`, `UnregisterNext` | one service in a loop that records errors and goes on |
| `ListNext`, `Listed` | `list_live_services` as a context is entered, one service a step, then the loop that stops or pauses them |
| `Insist`, `InsistRaises` | one service in `start_services` or `resume_services`, which end at the first error |
| `EnterReboot`, `BodyBegins`, `Reboot`, `BootCompletes`, `BootTimesOut`, `ContextEnds` | `handle_reboot`; the body may reboot any number of times |
| `EnterUsb`, `LeaveUsb` | `handle_usb_disconnect` |
| `Destroy`, `Destroyed` | `destroy` |
| `ReadHere`, `ReadMisses`, `ReadFetches`, `ReadStores` | `build_info` |

`CacheFresh` states what the comment in `handle_reboot` explains, also of a reboot
that timed out, with its two limits as exceptions: nested reboots, and a thread
that stores after the boot what it fetched before it. `ContextRestores` compares what the contexts leave
live with what was live when the outermost one was entered.

### TestRun, TestSelectors, Instrumentation

`TestRun` wraps the steps of `TestClass`: `InClass` is one of them, `EndClass` what
`TestRunner.run` makes of a class that ended, `WriteSummary` its `finally`,
`EndBed` the fold of `run_suite`. With `mode = "suite_class"` the run begins with
`SetupSuite`, where the suite adds classes, and ends with `TeardownSuite`, the
`finally` of `run_suite_class` that writes SUITE_INFO; both call user code that may
raise.

`TestSelectors` follows `_parse_raw_test_selector`, `compute_selected_tests` and
`add_test_class`. A selector is its name, parted at `_`, and a test; `SelectsNamed`
is the reference definition, by sets.

`Instrumentation` is the automaton of `_parse_line`: a state with the block being
read, the block before it and the records, and one operator for each kind of
line in each state. Lines are kinds with the keys and codes the automaton looks
at. `Output` writes the lines of a run with given tests, each of which ends in a
given way or not at all; `Deserved` is what its records should be.

### Devices and its code

| state | code |
|---|---|
| `mode` | what `adb devices` and `fastboot devices` list |
| `pc` | the function that runs: listing, constructing, `load_config`, starting services, user code, `destroy` |
| `configs`, `serials`, `i` | the configuration, the serials listed so far, the index of the loop |
| `ads`, `bound` | the device objects made; whether `ad` of `get_instances_with_configs` is bound |
| `alive` | devices whose logcat process runs |

| actions | code |
|---|---|
| `DeviceMoves` | a device comes, goes or reboots to its bootloader, at any step |
| `Create`, `PickAll`, `ListAll`, `ListAdb`, `ListFastboot`, `ListRaises` | `create` with `get_all_instances`, `_validate_device_existence` and the lists |
| `Construct`, `LoadConfig`, `ConstructRaises` | `get_instances_with_configs` |
| `StartServices`, `StartNext`, `StartRaises` | `_start_services_on_ads`: the process may have been started before start raises |
| `Registered` | `register_controller` with `min_number` |
| `StartLogcat`, `StopLogcat`, `Destroy`, `DestroyNext`, `Destroyed` | user code; `destroy` |

### SnippetRpc, EventQueue and their code

Threads share a connection, as they share the event client of a snippet. A call
is `waitAndGet`, `waitForEvent` or `getAll`; `pc` is where it is in `_rpc`: before the
lock, at the read with the lock held, or after the lock with a response to look at.

| actions | code |
|---|---|
| `Begin` | a call of the callback handler, with the timeout it asks for |
| `SendRequest` | id and lock, `_client_send` |
| `Receive`, `ReceiveTimesOut`, `ReceiveFails` | `_client_receive`, the release of the lock, decoding with the check of the id |
| `Return`, `TimeOut`, `RaiseApiError`, `Accept`, `Reject` | what the handler makes of a response: events, the message of a timeout, which it translates, or any other error, which it lets through; the loop of `waitForEvent` with an open predicate |
| `Tick` | a unit of time passes, counted down in each timer |
| `Occur`, `ServeAll`, `ServeEvent`, `ServeTimeout`, `ServeError`, `Close` | external: the snippet server, which may be as slow as it likes and report an error to any request |

The refinement mapping takes the threads in a call, for each thread the events in
the response on its way to it (`InTransit`), and `Faulty` (a read timed out or the
connection was closed) to the variables of `EventQueue`.

### SnippetClient and its code

`job` is the call of the service that runs: the clients it has still to come to,
and the steps left of the method of the present one. A step is one call into
adb, a socket, a process or the device, so that each may raise: `Initialize`,
`Stop`, `CloseConnection`, `Restore` are the sequences of steps of those methods, in
the order of the code, with what a `finally` or an `except` does of them when one
raises (`Caught`, `Leave`).

| state | code |
|---|---|
| `managed` | `_snippet_clients`, in order |
| `client`, `eventOf` | of each client object its connection, `host_port`, subprocess, event client |
| `forward`, `server` | adb's table of forwarded ports; servers on the device |
| `async` | per thread where it is in `handle_callback` |
| `dropped` | objects nothing refers to, until the collector runs their finalizer |

| actions | code |
|---|---|
| `Add`, `RemoveClient`, `ForAll`, `Reconnect`, `NextClient`, `MethodReturns`, `JobEnds` | the service manager and `restore_server_connection` |
| `PreCheck` ... `HandshakeEvent` (17) | the steps, when they return |
| `RaisesNeeded`, `RaisesByFault`, `StartServerRaises`, `StopCommandUnexpected` | the steps, when they raise: because they must, or by a fault |
| `CloseSocketRaises`, `DestroyEventRaises` | `_conn.close()` raises, in `close_connection` of the client or of its event client |
| `Async`, `CreateEvent`, `AsyncConnect`, `AsyncHandshake`, `AsyncRaises`, `HandOut` | `handle_callback`, of several threads |
| `FinalizeClient`, `FinalizeEvent` | `__del__` |
| `Disconnect`, `OtherForwards` | the device is disconnected; another program forwards a port |

When `_conn.close()` raises, the `finally` of `close_connection` stops the forwarding
before the exception goes on. `CloseSocketRaises` does both in one step and leaves
open whether the forwarding was removed or its commands raised too: between
listing the ports and removing one nothing else happens that these two outcomes
do not cover. The socket stays in `_conn`, dead; a client so left counts as
alive, and `resume` passes it over. The finalizers, which call the same
methods, do not raise in the model.

### LogcatReader and its code

The file is a sequence of pieces: whole lines, or a head and the rest. A scanner
opens the file, reads line by line to its end, keeps the offset after the last
line it parsed and closes it (`_iter_lines`); `wait_for` and the listener's thread
do that again and again.

| actions | code |
|---|---|
| `Write` | external: adb appends a piece |
| `Open`, `EndOfFile` | `_iter_lines` |
| `WaitFor`, `WaitReads`, `WaitTimesOut`, `Expire` | `wait_for`, in order or in any order |
| `Listen`, `Enter`, `Exit`, `Exited`, `JoinTimesOut`, `ListenReads`, `ThreadEnds`, `GetNextEvent` | `LogcatListenerContext` |

`GetLines` and `TailLines` are operators, over the lines that `LineIn` finds
and `Match` keeps, and over blocks (`TailBlock`); `TailSound` compares them in every file
that `Write` makes.

### LogcatService and its code

The device logs lines 1, 2, ...; a time of the device is the number of lines logged
by then. The process is started, then attached by adb, then writes line by line.
(`ServiceInit`, `ServiceNext`, `ServiceSpec`: its theorems stand beside those of
`LogcatReader`.)

| actions | code |
|---|---|
| `Start`, `OpenFile`, `OpenTimesOut`, `Stop` | `start` (with the wait for the file), `stop` |
| `StartRaises` | `start` or `resume` raises in `_start`: enabling logpersist, creating the directory or starting the process fails, after the log was cleared |
| `Pause`, `NoteTime`, `Resume` | `pause` stops the process, then asks the device for its time |
| `UpdateConfig`, `Query`, `CreateOutputExcerpts` | the rest of the service |
| `DeviceLogs`, `ShellOpens`, `Attach`, `ProcessWrites`, `AdbDies` | device, shell and adb |

## Runs

| run | instance | what it shows |
|---|---|---|
| `class_run` | 5 plans (two tests; retry 2; repeat 2 picked by a regular expression; an invalid retry count after a test; an unresolvable name), 1 controller, all 7 outcomes, expectations failing or not; 733 634 states | filing, reporting, abort and clean-up properties for every way in which each callback ends; the class ends, torn down once |
| `iterations` | retry 3; repeat 4 with threshold 2; repeat 2 with threshold 0, then a retried test; a negative threshold; a test asked for twice; outcomes ok, fail, skip; 68 408 states | when retry and repeat loops stop, and that `is_all_pass` is right for every pattern of iterations |
| `test_run` | two beds, with two classes and one, or a suite of up to two classes; retried, repeated and invalid tests; ok, fail, abort_all; 1.46 million states | totals, SUMMARY, SUITE_INFO, exit status, termination. Before anything runs: what every sequence of up to three selectors selects, and what the parser makes of up to three tests that end in every way |
| `device_services` | two services, every call into one may raise; contexts nested two deep in every combination; a thread that reads `build_info` at any time; 5.35 million states | services live before a reboot or disconnect are live after it, or it raised; no failing service keeps another running; the cache is not older than the running system |
| `devices` | every configuration of two devices, and three entries with one serial twice, required or optional; devices come, go and fail at any step; 468 108 states | no logcat is left when devices are destroyed or `create` raised; what it returns is served |
| `snippet_rpc` | two threads, two events, calls begun until two RPCs were made, timeouts 1 and 3 with 2 as the longest RPC, a server that is slow, silent, gone or reports errors; 751 775 states | calls do not disturb each other, wait as long as asked, end, and implement the queue of events |
| `snippet_client` | two clients, two ports, two threads, four calls of the service, two faults; 4.09 million states up to symmetry | stop gives back what was acquired; no forwarded port is forgotten; handlers survive a disconnect |
| `logcat_reader` | three pieces, a queue of one, two listener threads; 746 961 states | `wait_for` finds the first matches; the listener dispatches each line once, in order, and none after its exit; `tail` agrees with `get_lines` |
| `logcat_service` | three lines, four written to a file; a start or resume may fail anywhere; 3.9 million states | no line of a pause is lost or written twice; excerpts part the log |
| `abort_all_claim`, `controllers_claim`, `crash_claim` | small | what the documentation says and the code does not do, see Findings |

**Bounds.** A stage interacts only with the record before it (the stale
recorder), its own, and the exception in flight, so two tests, or one with two
iterations, show every pair of neighbouring stages; the iterations run adds the
patterns that counting depends on (a threshold reached first, in the middle and
last, a reset by a success). Two controllers would only lengthen two loops whose
steps are independent; that any number is destroyed is proved. In `test_run` the
outcomes are cut to three, because a bed sees of a class only its results and
how it ended, and all endings (returned, abort_all, crash) occur. Counts are
bounded by the plans, so these runs need no state constraint.

In `device_services` one service that fails and one that does not are every
case of one failing beside another; two contexts make the four ways of nesting,
and one more reader is enough for a store that comes late. `MaxDepth` bounds the
nesting. As services do not read the cache, `ReadsBesideOne` leaves out states in
which `build_info` was read beside two services: that would multiply the states of
the one with those of the other.

In `devices` two serials give one before and one after the device that fails, and
the third entry is for a serial configured twice.

In `snippet_rpc` the timeout 3 is longer than an RPC may last, so `waitForEvent`
asks again; two events let one be rejected and one accepted, or two callers
compete. In `snippet_client` one fault may hit a method and another the clean-up
that answers it; four calls are, for instance, add, pause, resume and stop;
`HandlersBesideOne` leaves out two threads with handlers beside two clients, which
share nothing but the ports. In
`logcat_reader` a head, its rest and a whole line are three pieces, and the queue of
one overflows. In `logcat_service` three lines are one before, one in and one
after a pause; `MaxWritten` leaves room for one to be written twice.

**Fairness.** `FairSpec` of `TestClass` and `RunSpec` assume weak fairness of the one
next step: every callback returns or raises at some time. The framework has one
thread and no waiting of its own here, so nothing else is needed; a test that
hangs hangs Mobly too. `Register` is bounded by the set of controllers.

`SnippetRpc` assumes that time passes (weak fairness of `Tick`) and strong fairness
of each thread: the lock is taken and released again and again, and a thread
that finds it free again and again gets it, which `threading.Lock` does not
promise to the letter but operating systems provide. Nothing is assumed of the
server: `CallsEnd` holds of one that never answers, because the read times out.

`LogcatReader` assumes weak fairness of the scanning threads only, not of adb, of
the user or of the deadline.

**Deadlock** is checked where the system goes on: class runs, programs and the
logcat service; a finished run or program stutters in an action of its own
(`Finished`, `Exited`). The other configurations leave it out, since there the system
may stop: a destroyed device, threads that make no more calls, a caller of
`wait_for` that has its answer.
`DeviceServices`, `Devices`, `SnippetClient` and `LogcatService` have no liveness
property: a service call, a boot, an adb command last as long as user code and
the device let them, and the code sets no bound to most of them.

### Findings

* `NoClassAfterAbortAll`: `asserts.abort_all` promises to abort all tests of all
  classes, and the SIGTERM handler relies on it. Raised in `pre_run`
  (`base_test.py:372`) or in a controller's `get_info` or `destroy`, or replaced by
  an `abort_class` of `teardown_test`, it does not.
* `ControllersAlwaysReleased`: a controller registered in a `pre_run` that then
  fails is never destroyed, nor one registered in `pre_run` when a requested name
  does not resolve.
* `CrashRaisesTestError`: when the process of an instrumentation run dies while it
  writes a status block, `_parse_method_block_line` calls `_parse_result_line`, which
  does not exist (`base_instrumentation_test.py:798`). The `AttributeError` replaces the
  promised `TestError`, and the test in progress is in no record.

**What the properties had to leave out.** A property's exceptions say where the
code does less than one might expect; each was found as a counterexample of the
property without it.

* `ErrorsReported`: an error is lost in three more places: a failed expectation in
  `pre_run`, whose recorder still holds the record of an earlier stage, and those in
  a `setup_class` or `teardown_class` that then aborts.
* `IterationPolicy` says what permits a further iteration, not that a permitted one
  takes place: a loop that stops too early would not violate it.
* Repeated tests: one that ran is also reported as skipped when its class is
  aborted, because its iterations have other names (`base_test.py:1050`, `:1059`).
* `TimeoutKept`: a `waitForEvent` asked to wait longer than the longest RPC gives
  up at the first RPC that times out, and each is given at most that maximum
  (`callback_handler_base.py:228`). Its docstring says that it raises when there was
  no such event "after timeout seconds". The property exempts a timeout of an RPC
  that was given the maximum; any other call waits as long as asked.
* `ForwardsKnown`, `StopReleases` (`lost`): `restore_server_connection` without a pause
  before it overwrites `host_port`, and the old port stays forwarded. With a
  `port` that is in use, the client keeps the number and later removes a forwarding
  that is not its own. The properties exempt these ports, so they do not catch what
  becomes of them.
* `StopReleases` speaks of a `stop` that returns, and of what the client refers to. A
  reconnect without a pause drops the reference to the subprocess
  (`snippet_client_v2.py:841`), which `proc` models: a process that is then still
  running is not seen by the property.
* `HandlersSurvive` (`broken`): when `stop` raises before it reaches the event client, or
  a connection of it fails after it was stored, later callbacks get a handler on a
  client that is not connected. Of two threads in `handle_callback` at once each
  makes an event client; the finalizer of the superfluous one removes the forwarding
  in use, which the comment of `_destroy_event_client` says does not happen, and a
  handler on it is not covered by the property. So the property is about the
  event clients that were connected and stored, and does not catch these
  outcomes.
* The loops of `SnippetManagementService.stop` and `pause` end at the first exception,
  although `BaseService.stop` asks that all be cleaned up (`base_service.py:61`).
* `WaitSound`, `WaitFinds`, `DispatchedOnce` (`halves`): a line of which only the head was
  written, and whose head parses, is consumed without its rest.
* `QuietAfterExit` (`abandoned`): a thread that does not end within two seconds goes on
  when the context is entered again. Each entry reads from the listener's first
  position, so lines of an earlier entry are dispatched again.
* `wait_for` reports a timeout without a last look at the file.
* `PauseKeepsLines`: lines between the end of the process and the `date` command of
  `pause` are lost; a second `pause` notes a later time, and a failing `date` makes
  resume start at the last line. Lines between the return of `start` and the attach
  of adb, which asks for the last line, may be lost. `stop` after `pause` returns
  before it forgets the noted time, and the next `start` uses it.
* `PauseKeepsLines` again: a `resume` whose process does not start has used up the noted
  time (`logcat.py:471`), so that the next one starts at the last line and those of the
  pause are lost; a `start` that fails after its clear has lost what it cleared.
* `ExcerptsPartition`: with `output_file_path` set, `resume` closes the file object and
  nothing opens another one, so the log goes on without excerpts. `_open_logcat_file` seeks the
  end, its comment says the beginning. A `start` that times out waiting for the
  file leaves its process running.
* `NothingLeftBehind` (`unkilled`): `Logcat._stop` swallows a failed kill and forgets the
  process.
* `RequiredServed` says nothing when `create` raises, which it also does for optional
  devices: when one is not reachable, or its constructor is the first to raise, so
  that `ad` is unbound in the handler (against the comment at `android_device.py:65`).
* `SelectionSound`: a class whose name has a `_` cannot be selected, and the test
  `cls_name in self._test_selector` of `base_suite.py` never holds, as keys are pairs.
* `InstrumentationSound`: text between blocks that is not blank makes a record of an
  ERROR for a test that does not exist; output that ends in a test leaves it in no
  record, and `TestError` is raised.

## Theorems

TLC checks instances; the theorems are for every value of the constants. They
assume only what the modules say of their constants:

| assumption | what it says |
|---|---|
| `PlansAssumption`, `ResolutionAssumption` | a plan is made of sequences of names and of tests with integer counts; each test comes from a requested selector, a test's name gives that test alone, an unresolvable name gives none (`_get_test_methods`) |
| `InputsAssumption` | outcomes are those of the signals, controllers are finitely many |
| `DevicesAssumption`, `DeviceAssumption` | serials are finitely many; the built-in services are registered under different aliases |
| `RpcAssumption` | timeouts and bounds are natural numbers |
| `ClientAssumption` | bounds are natural numbers; the other user of `adb forward` is no client, `None` is nothing else |
| `ReaderAssumption`, `LogcatAssumption` | there is a thread, a pattern and room in the queue; bounds are natural numbers |

None of them says anything of lengths, of counts or of how often code fails. The
invariants of the runs were checked by TLC on their instances before they were proved.

### Class runs (`TestRunProofs`)

* `TypeCorrect`, `FilingCorrect`: `[]TypeOK` and `[]FiledByResult`. `FiledByResult`
  is not inductive: a later write to a filed record could change its result, and
  what code writes to is known only through two references. `Inv` adds
  `Unfiled` (neither reference is filed while code runs that writes through it),
  `StageRecord` (what kind of record the stage holds; in particular the one
  exception, the record of a failed `setup_class` which is filed before `on_fail`
  runs, is an ERROR and stays one) and `CurrentTest`. The argument has a lemma for
  each action, on lemmas for the operators of the ledger.
* `FinalStays` (the action property `RecordsFinal`) and `ErrorsNotPassed`
  (`NoErrorFiledAsPass`): each operator of the ledger is described once by
  `Writes(l, m, touched, new, shown)`, that is, which records it writes to, which it
  files and which it shows in the file; each action is then one `Writes` with records
  that `Unfiled` says were not filed.
* `FileTrue` (`FileShowsResults`): `StageOf` ties a stage to the record it holds and
  `Shown` says that the file has each filed record once with the result it has,
  but for that of a failed `setup_class` between its filing and its entry.
* `NoErrorLost` (`ErrorsReported`): a record with an error is `Settled`: filed,
  or in hand at a stage that will file it, or one of the three that the property names.
  `HoldsDefault` follows the record that the recorder still holds in `pre_run`.
* `AllReported` (`EveryRequestReported`): `Progress` says of each test of the plan
  before the loop's index that it was tested, and of each after it that
  `_skip_remaining_tests` will reach it; `Covered` that the names requested are those
  of the plan's tests.
* `AbortsRemaining` (`NoTestAfterAbort`), by `AbortInFlight`: from the callback that
  raised it until `_skip_remaining_tests` an abort signal is in `exc`, where only an
  abort signal replaces it.
* `VerdictCorrect` (`VerdictSound`): `is_all_pass` subtracts from the failures and errors
  the length of the chain of RETRY links behind each passed record. `Chain` says how
  records are linked: a retry has the record made just before its own as parent, of the
  same test and filed as a failure. So the recursive `RetryDepth` counts the records right
  before a passed one (`DepthCounts`), two such walks share none (`WalksApart`), and the
  difference is zero just when the walks cover every failure.
* `IterationCorrect` (`IterationPolicy`), by `Iterating`: during an iteration the
  records before it are those of the earlier iterations, in order, and `streak` counts the
  failures at their end. What each step makes of records (none, a plain one, a
  first iteration, a next one) is `StepMakes`. The property says of each record
  of an iteration what allowed it (`Permitted`); an earlier form, which compared
  numbers of records with counts, was false for a test that is asked for twice.
* `ReleasesControllers` (`ControllersReleased`), by `Held`: what is alive is in the
  registry, during `destroy` in the part the loop has not reached, and a class that
  began goes through `_clean_up`.

### Programs (`TestRunProofs`)

* `SummaryTold` (`SummaryClosesFile`), `SuiteInfoLast` (`SuiteInfoClosesFile`) and
  `RunFilingCorrect`, for any number of beds and classes. The invariant of a class run
  holds of all class runs of a program, although they share the recorder, which may
  hold a record of an earlier class that `pre_run`'s expectations then write to.
  `Apart` says that such a record is an ERROR already, so that it stays what it was
  counted and shown as; `Told` that the file shows what was counted; `Order` which
  marks the file bears in each phase.
* `ExitCorrect` (`ExitSound`), for any number of beds and classes, as `run_suite` or
  `run_suite_class`. The runner judges the sum of its classes' results, so `Summed` has
  `Chain` and the counts of `VerdictCorrect` over all records of a bed, with the
  class that runs on top of those already counted, and `clean` is what the file of
  each bed that ended shows.

### Selectors and instrumentation (`ParsingProofs`)

* `SelectsAsked`: for any classes, test names and list of selectors, what is run is
  what `SelectsNamed` says by sets. `Collected` says what the dictionary of
  `_parse_raw_test_selector` holds after each selector: one entry for each class
  named so far, in the order of the first selector that names it. `SelectionCorrect`
  (`SelectionSound`) is its instance.
* `FilesEach`: for any number of tests of a device, any names and any way each of them
  ends, the parser of an instrumentation run files each test once with the result it
  had. By induction on the tests: between two of them the parser is `Idle`, or it is
  `Pending`, when the test before was begun and not ended and its record is owed.
  `InstrumentationCorrect` (`InstrumentationSound`) is its instance. It leaves
  out an output that is torn inside a block, see Findings.

### Devices (`DevicesProofs`, `DeviceServicesProofs`)

* `CleansUpDevices`: `Spec => []NothingLeftBehind`, for every finite set of serials,
  all configurations and values of `min_number`. The invariant is `Owned`: wherever
  `create` or `destroy` is, what is alive belongs to a device object that is still in
  the list, in `destroy` to the part the loop has not reached, or could not be killed.
* `ReturnsRequired`: `Spec => RequiredServed`, an action property. `Progress` says of
  each required device before the loop's index that it is there, or served, so the
  step in which `register_controller` returns has it of all of them.
* `TypeCorrect`, `OthersStopped` (`StopsOthers`), `DestroyLeavesNothing`
  (`NothingLeftRunning`), `ContextsRestore` (`ContextRestores`), `CacheNotStale`
  (`CacheFresh`), for any services and any depth of nesting. `Accounted`: what runs
  out of the registry has raised. `Remembered`: each context's list has what was live
  when it was entered, or the loop that lists has it before it; it must hold of
  all contexts on the stack, since only the innermost changes. `Restoring`: what the
  list of the context being left holds is running or still to be started.
  `CacheDisabled`: from the body of `handle_reboot` until the boot is complete
  `build_info` does not use the cache.

### Snippets (`EventQueueProofs`, `SnippetRpcProofs`, `SnippetClientProofs`)

* `EventsConserved`, `EventsTakenOnce`: the abstract queue loses no event before the
  connection fails and never gives one twice, for any threads and number of
  events. They need that an event in the queue or taken has occurred and that
  neither holds one twice.
* `TypeCorrect`, `CallsUndisturbed` (`FailsByFaultOnly`): `Holds` (the thread that
  reads has the lock) and `Conversation` (before a fault, the connection carries
  nothing but the request of the thread with the lock, or the response to it) give
  that the response read is its own.
* `WaitsItsTime` (`TimeoutKept`): `InTime` adds up what a call has waited and what it
  has left.
* `CallsImplementQueue` (`Spec => ImplementsQueue`): every step maps to a step of
  `EventQueue` or none. It needs that responses on the way differ in their ids
  (`Numbered`), are addressed to the thread that waits for the id (`Addressed`), and
  that a thread that has nothing on its way is `EmptyHanded`, so that `InTransit` is
  a function of the state (`TransitIs`).
* `CallsLoseNothing`, `EventsToOneCaller`: by that refinement the theorems on the
  queue hold of the calls.
* `ForwardsRemembered` (`ForwardsKnown`), `HandlersWork` (`HandlersSurvive`) and
  `StopReturnsAll` (the action property `StopReleases`) of `SnippetClient`, for any
  clients, ports and threads, whatever raises. One invariant gives the three.
  `Jobs`: the steps left of a method are an end of its program, so that their number
  tells what was done; `Stages` says what: with fewer than four calls left of a
  `stop` the port is given back, with one left the server does not run, and so on,
  although a fault may have come between. `Owners`: an event client belongs to one
  client, which is managed or being worked on. `Handlers`: the event client
  of a connected client is connected to its port, unless it is in `broken`, the method
  that runs on the client has calls left, or a thread is connecting it (`Connecting`);
  `HandshakePorts` keeps the port right between a thread's two steps. Of a `stop`
  only the step that destroys the event client leaves no call (`StopEnds`), and before
  it `Stages` has all the rest; that the port is not forgotten is `ForwardsKnown`.

### Logcat (`LogcatProofs`)

* `WaitsSoundly` (`WaitSound`), `DispatchesOnce` (`DispatchedOnce`): by `Tracks`: of the
  lines between the place where a thread's scan began and its place in the open
  file, those for its pattern were read in part. Then `Found` and `Looked` say what
  lies before a match and before the scan, `Dispatched` what was dispatched.
* `QueueInOrder` (`QueueFifo`): `Fifo`, what the queue and the deque hold of what
  was dispatched, for queues of any size.
* `ExitQuiets` (`QuietAfterExit`), by `Joins`: a context that was left has no
  thread, or one that was abandoned.
* `PauseLosesNothing` (`PauseKeepsLines`), with starts that fail (`FailKeeps`): `Owing` says where a line still owed will
  come from: the process has it before it, or one that is being started will begin
  before it, or the time that `pause` noted lies before it. `Fresh` says the
  opposite of what was written, so that none of it is written again.
* `ExcerptsPart` (`ExcerptsPartition`): `Taken` says that the file object is at a
  place of the file the process writes and that the excerpts are what lies before
  it.

* `TailCorrect` (`TailSound`): for any block size and number of lines `tail`, reading
  backwards, returns the end of what `get_lines` returns. `Remainder` parts the file
  at an end of line, and the lines of a file so parted are those of its parts; by
  induction on the blocks, those collected are the last lines from there on.

**Recursive functions.** `RetryDepth`, the loop over lines or selectors, `Matches` and
`TailLines` are recursive functions over positions. The library's induction theorems
take an operator, which the provers cannot instantiate; but a set of natural
numbers has a least element (`Least`), and a set with 0 that goes from each position
to the next has them all (`Upwards`). With these it is proved first that the recursive
equation has a solution, then what it computes.

**Only model-checked.** The liveness properties `CleansUp`, `RunExits`, `CallsEnd`,
`WaitFinds` (fairness and ENABLED are out of the prover's reach). Every invariant and
action property of the passing runs is proved.

## Not modelled

* In the modelled components: `KeyboardInterrupt` and `SystemExit`, which no
  `except Exception` catches; expectations failing in threads that outlive their
  callback; `record_data`; a summary writer that fails; details, signatures and
  times of records; the equality of errors. A registration that fails changes
  nothing and is no step. SIGTERM is an `abort_all` raised by the code that is
  running.
* In `DeviceServices`: bootloader mode; `for_each` with user functions and excerpts;
  `start_services` and `resume_services` called by users; manager calls of several
  threads. What a service keeps while paused is its own and not the manager's.
* In `Devices`: bug reports, screenshots, debug tags, what `load_config` sets. A device
  that is unplugged while its logcat runs keeps the process, as adb waits for it.
* In `SnippetRpc`: the format of messages, callbacks with several event names; RPCs
  other than `getAll` stand for each other. In `SnippetClient`: what the precheck looks
  at, user ids, the shell command, the check that packages differ, finalizers that
  raise; `_kill_process_tree` raising when a child has ended is one of the faults.
* In `LogcatReader`: levels, tags, the syntax of lines, the time filter, lines split
  by a carriage return, the offset `tail` returns with a line. In `LogcatService`: a
  failing clear, log levels, the deprecated arguments, an unkillable process after
  `_stop` forgot it.
* In `TestSelectors`: how the suite class is found, listing of tests. In
  `Instrumentation`: class names and prefixes, texts, timestamps.
* Snippet client v1 is a base class for other projects, with the protocol of
  `SnippetRpc`.
* Concurrent writers of the summary file: one critical section around one write.
* Sniffer, iperf server, attenuators, shells, logger, configuration, adb and fastboot
  wrappers: sequential code around a command, a file or a session, whose state is a
  flag.

## Plan

1. Done: `TestRecords`, `TestClass`, `TestRun`, `TestSelectors`, `Instrumentation`.
2. Done: `DeviceServices`, `Devices`.
3. Done: `SnippetClient`, `SnippetRpc`, `EventQueue`.
4. Done: `LogcatReader`, `LogcatService`.
5. Done: theorems on class runs, programs, devices, snippet clients, RPCs and logcat.
6. Done: theorems on iterations, verdict and exit code, selectors, the
   instrumentation parser and `tail`, with which every safety property is proved.
7. Left: an abstract contract of a class run (begin, report, release) that
   `TestClass` implements.
