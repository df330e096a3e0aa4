# Verification of rpi-robot

rpi-robot is three C++ programs and a web application: a **robot** (`service/`:
motors, servo, distance sensor, gamepad), a **registry** (`registry/`: HTTP
server, PostgreSQL, telemetry from MQTT, Prometheus) with its React pages
(`registry/www/`), and a **monitor** (`monitor/`) that reports temperatures. This
directory holds TLA+ models of the parts with state and concurrency, the TLC
runs that check them and proofs checked by TLAPS. All paths below are relative
to the repository's root. The event bus, scheduler, joystick and IoT platform
are in the `core-utils` submodule, whose sources are not in the repository;
they are modelled from their use.

## 1. Inventory

| Component | State | Operations | What is hard | What makes it correct |
|---|---|---|---|---|
| HTTP worker, `registry/src/http/HttpWorker.cpp` | one acceptor, one socket, `_buffer`, `_parser`, `_response`, `_requestDeadline` | `start`, `accept`, `readRequest`, `process`, `visit`, `checkDeadline`, `shutdown`, as completion handlers of one thread | a handler already queued when the socket is closed or the timer moved; slow peers; shutdown in the middle | one operation at a time, one timer wait, no mixing of connections, a deadline per client, nobody starves |
| REST controllers and dispatch, `HttpRequestHandler.h`, `HttpRequestHandlerManager.cpp`, `RestRepositoryController.h` | the request being handled | routing, `handleGet/GetOne/PostOne/PutOne/DeleteOne` | requests without id, ids in address and body | a reply says what happened; nothing is deleted that was not named |
| Repositories, `registry/src/service/**/*Repository.cpp`, `db/` | tables, sequences, one cached connection per thread | `findAll`, `findOne`, `insert`, `update`, `deleteByFilter` | several transactions per request, commits in doubt, broken connections, ids from a script and from sequences, unescaped strings | lists agree with the tables, keys hold, no row is written over |
| Telemetry subscriber, `registry/src/main.cpp:37` | the event in hand | look-up by name, insert | races with deletes | a row belongs to the device that had the name |
| Software PWM, `service/src/gpiod/pwm.cpp` | `_value`, `_range`, `_thread`, the thread's locals, the line | `setup`, `write`, `shutdown`, `process` | unlocked reads, threads that are never stopped, a line that cannot be set | no negative time, the line follows the value |
| DC motors, `service/src/DCMotor.cpp` | four direction lines, two PWMs | the joystick subscriber, `postConstruct`, `preDestroy` | six writes that anything may interrupt, integer scaling, PWM lines that are never requested | direction before speed, the last event is obeyed |
| List pages, `registry/www/src/pages/` | React state: parameters, rows, count | search, choose, page, refresh, delete, answers | answers to older renderings, deletes by index, a page and a count from two statements | what is shown is what was asked for last |
| Servo, `service/src/i2c/I2CServoMotor.cpp` | registers of the PWM chip | `postConstruct` (`setPWMFreq`), the joystick subscriber (`setServoPulse`, `setPWM`) | every I2C access may fail and no result is looked at; a position takes two writes | after a set-up without failure the chip is awake and the last event that got through decides the pulse |
| Distance sensor, `service/src/Srf05Sensor.cpp` | `_shutdown`, the thread, two lines | the measuring thread, the close subscriber | busy waits without a limit, a join | the close returns |
| Edit forms, `registry/www/src/pages/registry/Registry.tsx`, `devices/Device.tsx` | the form's React state, `updated` | load, change, apply, close | the form may lack fields, answers cross changes | what was applied is saved |
| Web session, `registry/www/src/App.tsx`, `routes/`, `store/reducers/auth.ts`, `modules/` | token in `localStorage`, Redux store, address, requests of pages that are gone | sign in, register, sign out, profile, redirects, reloads | tabs share the token; answers reach unmounted pages | who has signed in gets to the application; nobody is signed out by surprise; the preloader ends |
| Web layout, `store/reducers/ui.ts`, `utils/helpers.ts`, `modules/main/` | the ui slice, the class list of the `#root` element, the window's size | render a page, mount `Main`, toggle a sidebar or an option, resize | one class list with many writers (renderings, effects, services, reducers), and options kept twice | the page that is shown has its classes and no others; sidebars and options agree with the store |
| JSON-RPC (`JsonRpcHandler.cpp`), Prometheus exporter, monitor, LCD, template pages | see `PROJECT.json` | | | not modelled, section 7 |

Interaction: the pages call the REST routes; the HTTP worker runs the
controllers on the thread of the `io_service`; controllers and the telemetry
subscriber share the tables, each thread with its connection; the event bus
calls the telemetry subscriber, the Prometheus subscriber, the motors and the
servo. `PROJECT.json` lists the hazards line by line, with the properties that
watch them.

## 2. Modules

| Module | What it is |
|---|---|
| `HttpSession` | abstract: what a client of the HTTP worker may rely on (in order, one at a time, a sequence of answers that is empty or is the one to its own request) |
| `HttpWorker` | the worker, handler by handler, over a reactor; refines `HttpSession` |
| `HttpWorkerProofs` | the inductive invariant of `HttpWorker`, its safety and the refinement |
| `RegistryStore`, `MCRegistryStore` | controllers, repositories, tables, telemetry subscriber, connection cache; refines `RegistryTables` |
| `RegistryTables` | abstract: the tables as one set of rows, to which one fitting row at a time is added or renamed, and from which rows go that nothing refers to |
| `RegistryStoreProofs` | the inductive invariants of `RegistryStore`: rows, attribution, deletes, replies, lists; the refinement of `RegistryTables` and the integrity of the tables |
| `SoftPwm` | `soft_pwm`: an owner and the threads it has started |
| `SoftPwmProofs` | types of `SoftPwm`, the safety half of its liveness, and what happens on a line nobody requested, for any range and any number of threads |
| `DCMotor`, `MCDCMotor` | the motor service over two instances of `SoftPwm` |
| `DCMotorProofs` | the inductive invariant of `DCMotor` for every range and every event; that each wheel is a `SoftPwm`, whose frames never end |
| `Servo`, `MCServo` | the servo on its PWM chip, access by access |
| `ServoProofs` | the inductive invariant of `Servo` for all positions of the axis |
| `Srf05` | the measuring thread, its sensor and the close subscriber |
| `ListPage`, `MCListPage` | the three list pages, one `kind` of page per behaviour |
| `ListPageProofs` | the inductive invariants of `ListPage`: what was asked for, and what a page and a delete show |
| `EditForm` | the forms of one registry or device, with the server's rows |
| `EditFormProofs` | that nothing the forms send is ever saved |
| `WebSession` | a tab's store and router, the token that tabs share, the Gatekeeper service |
| `WebRouter` | extends `WebSession` by the entries that the router pushes |
| `WebShell` | composes `WebSession` (by INSTANCE) with the ui slice and the class list of `#root` |
| `WebShellProofs` | the inductive invariant of `WebShell` for any options |

Operators named as "Mutant" in a comment are plausible bugs of the definition
next to them. Nothing uses them; replacing the definition by its mutant makes
TLC report the property that `PROJECT.json` pairs it with, which shows that the
property depends on that code.

### HttpWorker

`op` holds each asynchronous operation: `started` when the code initiates it,
`ok` or `err` when the reactor has completed it and its handler is queued, and
`idle` again when the handler runs. So a handler that is queued cannot be
recalled: closing the socket (`Closed`) turns only `started` operations into
`err`. The timer is `waits` (an `async_wait` in progress), `fired` (its handler
queued) and `left`, the time to its expiry; `ExpiresAfter` and the branch of
`CheckDeadline` cancel waits by queueing their handlers, as `expires_after` and
`expires_at` do. Time is relative: `left` counts down and `age` counts up to
`Timeout`, so the state space is finite without a bound on the clock.
`buffer`, `parser` and `response` say whose bytes they hold.

`handling` is the request handler: it runs on the same thread, so no other
handler runs meanwhile, but time passes. `Respond` covers the outcomes of
`process` (string, file, 404 and 400), which all start one write. `Shutdown`
closes the acceptor at any time, also while a request is handled. `got[c]` is
the sequence of answers on c's connection, so that an answer sent twice is seen.
`Connect`, `AcceptCompletes`, `BytesArrive`, `ReadCompletes`, `WriteCompletes`,
`Fails` and `TimerExpires` are peers, kernel and Boost.Asio; any started
operation may fail. The call of `_socket.shutdown` before `accept()` in the
handler of a write has no effect of its own, since `accept()` closes the socket.

### RegistryStore

A state of `http.pc` is the SQL statement a request stands before; every
statement is a transaction of its own (`pqxx::nontransaction`, or a
`pqxx::work` with one statement). Between statements the telemetry subscriber,
an operator with SQL and a restart of the database interleave. Rows keep the
columns that filters and keys see. An insert draws its id before it can fail.
`Commit` that breaks the connection reports a failure, with the rows stored or
not. A `Restart` breaks every cached connection, and `getConnection` never
replaces one (`DataSource.cpp:17`). `INSERT` and `UPDATE` of a device always
fail (`registry_id` is missing, `createdAt` is no column), and `DELETE` of a
device works on `registry` (`DeviceRepository.cpp:108`): the model does what the
code does.

`Script` is what `resources/database.sql:65-85` inserts, with ids that it gives
itself: `Init` has those rows and sequences that have not advanced, so the first
ids drawn may be there already, and `Storable` refuses the row on the primary
key. The operator runs an `INSERT` of the script again (`Provision`, `ON
CONFLICT DO NOTHING`); that is the only way to a device. The script names a
table `registryId` that it drops and never creates; the model takes it for
`registry`, the table the repositories use.

A string is put between quotes as it is (`SqlBuilder.h:37-49`). `Raw` stands for
all strings that have an apostrophe. What follows it is read as SQL, so a
statement with `Raw` in it is refused, or a condition selects any rows
(`Selected`, `Fetched`, `Targets`) and a value is any other (`Literal`). Text
that makes several rows or another kind of statement of it is outside the model.
The properties about tables and telemetry hold with `Raw`; `DeletesAtMostOne`,
`ReplyIsTrue` and `ListIsSnapshot` are stated for requests without it, since
with it the code keeps none of them.

`disturbed` is a history variable: somebody else committed since the request
began. A body that is not JSON or lacks a field is `Malformed`. The second query
of devices (their configurations) is a read that changes nothing the properties
see; it is left out, as are the requests with malformed numbers.

### SoftPwm and DCMotor

`setup` and `shutdown` test `!_thread`, the opposite of what a stop needs: a
thread is never cancelled, and `pthread_cancel` is called when there is none,
which is undefined. The model chooses between the outcomes a build can have: the
process dies (`alive`), or the calls return an error and the code goes on. The
thread's loop has one step per access: the two reads of `_value`, then `rise`
and `fall`; the sleeps between them are pauses of any length. Reads and writes
of an aligned `volatile int` give the old or the new value. Sleeping is always a
multiple of 100 us, so the busy-waiting branch of `delayMicroseconds` is not
reached. `set_value` throws when the line cannot be set, nothing catches it in
the thread, and the process ends (`Set`); on a line that was not `Requested` it
always does. `Crash` is whatever else in the process ends it.

`DCMotor` composes two `SoftPwm` instances that share `alive`. A joystick event
becomes `cmd`, and the subscriber's six writes are six steps; the event bus
calls it with one event at a time, also after `preDestroy`, as nothing
unsubscribes. C++ division truncates (`Quotient`). The PWM lines are handed to
`setup` without a request (`DCMotor.cpp:73` and 79), so both instances have
`Requested <- FALSE`: the drive's process ends when one of its threads first has
a pulse or a space to give. The handler's properties say what it writes until
then, and `SteadySpeedIsFatal` that this end comes. Destruction of the object
under its threads is not modelled.

### Servo and Srf05

A step of `Servo` is one I2C transaction. It succeeds, or it fails, with or
without having been carried out; a failed read gives -1, in which the SLEEP bit
is set. `chip` has what the properties see of the registers: SLEEP of MODE1,
PRESCALE, and the two bytes of the end of channel 0's pulse (its start is always
0). The chip itself is external: it takes PRESCALE only while asleep. Before the
program starts it has just been powered on or was left by any earlier run, one
whose accesses failed included: asleep or awake, with either prescaler and the
bytes of two positions. `Width` is the pulse that comes out: by the chip's data
sheet one of its 4096 steps takes `(PRESCALE + 1) / 25` us. The
arithmetic is the code's, in integers: microseconds truncate to an int and then
to 1/4096 of the period. `faulty` is history, the accesses that failed. The
subscriber is called by one thread, one event at a time.

`Srf05` keeps the thread's program counter, the echo line and the sensor that
drives it. The thread looks at the line when it is scheduled, so it can miss a
pulse and wait for ever; the values measured are left out, for nothing depends
on them. The subscriber assigns 0 to `_shutdown`, the value it has already
(`Srf05Sensor.cpp:64`).

### EditForm

`EditForm` has the form's state as a record whose fields may be missing, as in
JavaScript. `findOne` answers an object with the field `data`, the list pages
take it out, and the two forms do not: they spread the answer itself. `chosen`
and `applied` are history. Of the columns it has those that a PUT must send; the
name is changed as the status is. The request of a form that was left stays in
flight (`left`); its answer reaches nobody.

### WebSession and WebShell

`WebSession` renders `PublicRoute` as `App.tsx` uses it: around every address,
those of `Main` included, which count as one address "/". `Render` is what a
change of address or of `isLoggedIn` does, and what a resize does, because `App`
keeps the window's size and renders its routes again; only then is the token of
`localStorage` read again, so `authed` is history that may be out of date.
`Reload` is also the first visit. Requests of a `Main` that is unmounted are
counted in `stale`: their answers still sign the user out when the token is not
accepted. `main` goes through the states of `fetchProfile`: the request, the
second of `sleep`, the application. A form can be left while its request is in
flight and the answer still signs in. `WebRouter` adds the entries that
`Navigate` pushes, because a redirect from "/" to "/" changes nothing else:
`Push` is one, `Act` whatever the user does, `Wait` the rest. React Router and
the Gatekeeper service are not in the repository and are modelled from their
use.

`WebShell` takes every step of the session and adds what it does to the layout.
`root` is the class list of `#root`, as a set. `setWindowClass` replaces it in
the rendering of a public page (`PageClasses`), the three effects of `Main` add
and remove classes (`Mounted`, `Effects`), the services of the sign-in remove
those of their form when the answer comes (`SignedIn`), and each reducer of an
option writes its own (`Toggle`). What is typed into a form is its own state, so
that page alone is rendered again (`FillIn`); the buttons of the sidebars exist
once `Main` has replaced the preloader (`AppShown`). A dispatch, its rendering
and the effects of that are one step: React renders these updates before the
next event, and no other writer runs in between. The model keeps two things the
code does: `toggleLayoutFixed` removes its class when the option comes on
(`ui.ts:76-83`), and a public page erases the classes of options that stay on in
the store, for instance `layout-footer-fixed`, which `ui.ts` sets when it is
loaded (`Login.tsx:84`). The properties say exactly that. `Initially` is that
class.

### ListPage

The pages are one module: `Deps` gives the dependencies of the effect of each,
and some handlers exist on some pages only. `Render` sends a handler's direct
request with the parameters of the rendering it was created in, then the
effect's request if a dependency changed. `wanted`, `shown`, `failed` and
`alone` are history. A list request is answered with two statements:
`PageQueried` fetches the page, `ListAnswered` counts and answers;
`OthersChange` may come in between, and then `steady` is FALSE. `Offered` are
the pages that the pagination lets the user choose: those counted, and the one
before the present page, which may be beyond them. Telemetry always has a
device, from its address. Requests are answered in the order they were sent: the
production build uses the registry's own origin (`utils/axios.ts`), and the
registry serves one connection at a time in the order of the listen queue. If
answers could overtake each other `Fresh` would not hold, so this assumption is
part of the result. `Before` counts the rows before a row in the server's order,
`Rows` takes those of the page by that count, as `order by`, `limit` and
`offset` do. Requests that fill the selector or a heading are left out.

## 3. Runs

| Run | Instance | Shows |
|---|---|---|
| `http_worker` | 3 clients, Timeout 2 | type, `OneOperation`, `OneWait`, `Isolation`, `Covered`, `AbortedInTime`, the refinement of `HttpSession`; live: `SocketFreed`, `BacklogMoves`, `DrainsAfterShutdown` |
| `http_deadline` | 2 clients, Timeout 2 | counterexample to "Request must be fully processed within 60 seconds." |
| `registry_store` | 2 ids per table, rows of the script with ids that the sequences meet, 2 names and one with an apostrophe, pages of 1, 22 requests | `Attribution`, `ListIsSnapshot`, `NoDeviceMeansGone`, `DeletesAtMostOne`, `ReplyIsTrue`, the refinement of `RegistryTables` |
| `registry_device_delete` | same | counterexample: a DELETE of a device answers success and the device stays |
| `soft_pwm` | range 2, 2 threads, a line that is requested and may fail | `LevelSettles`, `FramesSettle` |
| `dc_motor` | range 2, Span 4, 7 events at ends and middle of the axes | `SpeedAfterDirection`, `DrivenUnlessReversing`, `Obeyed`; live: `SteadySpeedIsFatal` |
| `servo` | 8 positions of the axis, a chip left by any earlier run | `SetUpDone`, `InPosition` |
| `srf05_close` | one sensor | counterexample: the close joins a thread that nobody has told to stop |
| `list_page` | 3 rows, pages of 2, 3 requests in flight | `Fresh`, `DeletedIsRemoved`, `EmptyOnlyBeyond` |
| `edit_form` | 2 rows, 3 requests in flight | counterexample: a change that was applied is not saved, since the form sends the wrapped answer back |
| `web_session` | `WebRouter`, 2 stale requests | counterexample: a user who has signed in and only waits is redirected from "/" to "/" for ever and never sees `Main` |
| `web_shell` | 3 options, 4 sizes of the window, 1 stale request | `PageDressed`, `SidebarAgrees`, `OptionClasses`, `OptionsKept`, `SignedOutOnlyLate`; live: `PreloaderEnds` |

What the less obvious properties say:

- `OneWait`: `checkDeadline` re-arms itself while the accept handler moves the
  deadline and thereby cancels its wait. However these fall together there is
  exactly one wait or queued handler, so the deadline cannot be lost.
- `Covered` and `AbortedInTime`: a client has its whole timeout and no more than
  that, although handlers of earlier deadlines may still be queued.
- `Isolation`: what one client sends never reaches the answer of the next, not
  even what it sent after its request.
- `ImplementsSession`: `got` is mapped to the answers of `HttpSession`, so a
  second answer on a connection, one to nobody or one out of turn is no step of
  it.
- `Attribution`: look-up and insert are two transactions; what saves them is
  that the id of a device never comes back with another name, since devices come
  from the script only (`FromScript`), that names are not changed through the API
  (the UPDATE of a device always fails) and the foreign key.
- `ImplementsTables`: `TableRows` is all tables as one set of rows. Whatever a
  request takes in statements, whatever others commit between them and whatever
  an apostrophe does, each step adds or renames one row that fits the others,
  removes rows that nothing refers to, draws an id, or changes nothing. No row is
  written over, also when a drawn id is one that the script gave.
- `ListIsSnapshot` with `NoDeviceMeansGone`: when nobody else commits, page,
  devices and total belong together; when somebody does, a row listed without
  its device has been deleted since.
- `FramesSettle` with `LevelSettles`: frames can be torn while the value
  changes, and are whole again once it stays, whatever thread made them.
- `SteadySpeedIsFatal`: the threads of the drive live only as long as every frame
  is torn into one without pulse and space; once a speed stays, the next whole
  frame sets a line that nobody requested.
- `SetUpDone`: the chip ends awake only because MODE1 is cleared before it is
  read back, so `oldMode` has no SLEEP bit even on a chip just powered on.
- `InPosition`: after a set-up without failure, two writes that get through leave
  the servo with the pulse the event asks for (`Width`), whatever an earlier
  event or run has left. Two positions are mixed in the registers between the
  writes, and longer if the second fails; the next event that gets through undoes
  that, because it writes both bytes whatever they were. The 20 us are truncation
  and the prescaler, 122, which is one too high. Nothing is said of a servo whose
  set-up failed: its chip may sleep, or run at the frequency of power-on.
- `Fresh`: handlers send requests with stale parameters on purpose or not; the
  answer that stays is the one to what the user asked for last.
- `EmptyOnlyBeyond`: a filter or a delete can leave the user on a page that no
  longer exists, which shows nothing; that, or a row that comes or goes between
  the server's two statements, is the only way to an empty table, because
  `Math.ceil(total / pageSize)` and the server's pages agree.
- `PageDressed`, `SidebarAgrees`: after any order of renderings, effects, late
  answers, resizes and toggles the class list is the one of the page that is
  shown. What saves `Main` is that both its effects run when it is mounted and
  remove all they may have added, and that the answer of a form takes away the
  classes of that form only.
- `OptionClasses`, `OptionsKept`: no option that is off has an effect
  (`layout-fixed`: none while it is on), and an option shown as the store has it
  is only ever lost when a public page replaces the list.
- `SignedOutOnlyLate`: since who is signed in is kept away from `Main`, and so
  from its sign-out (see `web_session`), they can lose the store's `isLoggedIn`
  only by the failure of a profile request that an earlier `Main` has left, or
  because another tab removed the token.
- `SignedInSeesMain` is about a user who from some moment on only waits; so
  reloads and clicks are no excuse, and an `App.tsx` without `PublicRoute` around
  "/" would satisfy it. In the trace the router does `Push` for ever.

The five violations are listed under "findings" with the lines that disagree.

## 4. Bounds

`Timeout` 2 lets a timer handler be queued before, at and after an expiry, and
three clients fill socket, accept handler and queue. Two rows per table are
enough for every pair that matters (a row and another with its name, its owner
or its id) and, with pages of one row, for a page that is full, partial and
empty. `MaxId` bounds the ids: an insert is not taken beyond it. The script's
rows have the ids 1 and 2, so that both of a sequence's draws may meet one, and
one of the two devices cannot be converted. The run has no POST of a device,
which is always refused and only draws ids; the proofs have it. `PwmRange` 2 has
an inner value, so that a torn frame differs from every whole one; `MaxThreads`
bounds the calls of `setup`: the motors make one, so 1 in `dc_motor`; `soft_pwm`
has 2, for threads that compete for a line. `Span` 4 makes the truncating
divisions inexact, as 32767 does; the events have the stick at its ends and
middle, and the trigger pressed and not. `MCAxes` has the ends and the middle of
the servo's axis and the positions around 8192, where the high byte changes.
`MaxQueue` 3 holds the two requests of one handler and one from before.
`MaxStale`, 2 in `web_session` and 1 in `web_shell`, bounds the profile requests
of unmounted pages; one is enough for the races they cause, and the
counterexample needs none. A form has one request in flight at a time. `Options`
has one of each kind: on when the application is loaded, inverted, and plain;
the other two behave like the plain one.

`CHECK_DEADLOCK FALSE` is set for the PWM and motor runs and for `srf05_close`,
where the process may die or the thread be joined, and for `edit_form`, whose
user may stop.

## 5. Fairness

- HTTP: the `io_service` runs queued handlers, a request handler returns, time
  passes and an expired timer is noticed: weak fairness. `CheckDeadline` has
  strong fairness, for it is disabled again and again by request handlers, but
  the queue of an `io_service` is served in order; `AcceptCompletes` has strong
  fairness, which assumes that errors of accept do not repeat for ever. Nothing
  is assumed of peers.
- PWM and motors: the scheduler runs every thread and the event bus finishes a
  handler. Nothing is assumed of the gamepad, nor of the owner of a PWM.
- `Srf05`: the thread is scheduled and the sensor ends the pulses it begins;
  the property itself assumes that measurements come to an end.
- `WebRouter`: the router follows a `Navigate` that is rendered, the service
  answers and the timer of `sleep` expires. `WebShell` needs only the last two.
  Nothing is assumed of the user; `SignedInSeesMain` itself is about users who
  wait.
- The store, the servo, the lists and the forms have safety properties only:
  that a request is answered rests on the worker.

## 6. Proofs

`HttpWorkerProofs`, for every set of clients and every timeout > 0:
`TypeCorrect`, `OneOperationAlways`, `OneWaitAlways`, `IsolationAlways`,
`CoveredAlways`, `NoEarlyAbort` and `Refinement`. The invariant is `IInv`: the
five checked invariants and `Coupling`, which ties operations to data. It is
needed because `Isolation` alone is not inductive: one must know that `arrived`
is set only while an accept handler is queued, that a read or write is started
only on an open socket, and that buffer, parser and response then hold that
client's bytes at most. The proof goes action by action; `AcceptIInv` treats
`accept()` once for the four handlers that call it. In the refinement a
connection is current from the moment the kernel hands it over (`arrived`)
until its socket closes, so that the deadline's close is `Finish` and the late
completion handlers stutter.

`DCMotorProofs`, for every range and every span larger than it, any set of
events and any number of threads: `TypeCorrect` (the scaling never leaves the
PWM's range, mark and space never become negative), `DrivenAlways`,
`ObeyedAlways` and `DirectionFirst`. `QuotientBound`, `StickBound` and
`TriggerBound` bound the arithmetic; `Progress` adds what each of the six
program points knows of the lines and speeds written so far. `WheelsArePwms`
shows that the drive implements two instances of `SoftPwm`, so the theorems of
`SoftPwmProofs` are taken over by INSTANCE: `WheelsNeverTurn` says that on
neither wheel's line a frame with a pulse or a space ever comes to its end.

`ServoProofs`, for every set of 16-bit positions: `TypeCorrect` (what is written
to a register is a byte), `SetUpDoneAlways` and `InPositionAlways`. `PulseRange`
and `Bytes` bound the arithmetic over the whole axis, where TLC has 8 positions;
so `InPosition` is proved with its 20 us for every one of them. `SetUpSoFar`
says what each access of `postConstruct` knows of the chip if the ones before it
succeeded, whatever chip an earlier run has left, `WrittenSoFar` that between
the two writes of an event the low byte is already its own.

`RegistryStoreProofs`, for all names, scripts, requests, sizes of a page and
numbers of rows, all its checked properties: `TypeCorrect`, `AttributionAlways`,
`DeletesAtMostOneAlways`, `ReplyIsTrueAlways`, `NoDeviceMeansGoneAlways` and
`ListIsSnapshotAlways`. Every action is first shown to be a `Change` of the
tables: it draws an id and no more, `Adds` a row that is `Storable`, `Renames` a
registry to a free name, `Removes` rows that nothing refers to, or leaves all as
it is. What the theorems say of the tables is then shown once, of a `Change`.
The invariant has three parts. `HttpOK` says which statements a request can
stand before (`insert` and `update` never for telemetry, `deleteByFilter` never
without an id). `DataOK` and `FromScript` give rows their columns, telemetry the
ids of its sequence, and devices the rows of the script. `Held` is what makes
`Attribution` inductive: the device found for an event may be gone before the
insert, and may come back, but only with the name it had. The foreign key
(`Deletable`) does the rest. The lists need two more, each inductive on top of
it: `Listed` (a row of the list that is still in its table has its device in
`refs`, because `Attribution` holds between the two queries) and `Snapshot`
(while nobody has committed, the rows are the page that is in the table now);
the replies need `VerbOK`.

`Refinement` shows that `RegistryStore` implements `RegistryTables`. The mapping
`TableRows` turns the three tables into one set of rows, and each kind of
`Change` into a step of the abstract tables (`RefuseStep`, `InsertStep`,
`RenameStep`, `RemoveStep`). `Storable` is what makes an added row
fit: a drawn id may be one that the script gave, and then nothing is stored. So
the refinement needs nothing of values with an apostrophe; they decide which row
is stored or selected, never whether it fits. `IntegrityAlways` (keys, unique
names, foreign keys) is then proved of the abstract steps alone and carried over.
`Requests` is any set, so these hold for every sequence of requests, and
`DevicesUntouchedAlways` says of the DELETE in the findings that no request of
any kind ever changes a device.

`SoftPwmProofs`, for every range and any number of threads: `TypeCorrect`;
`StepType` has the torn frames. `SettledStaysAlways` is the safety half of
`FramesSettle` and `LevelSettles`: while nobody writes, frames that fit the
value are followed by such frames, and the line does not leave the level that
the ends of the range ask for. What is left to TLC is that every thread ends its
torn frame. `UnrequestedLine` is the safety half of `SteadySpeedIsFatal`: on a
line that nobody requested only a frame without pulse and space comes to its
end.

`ListPageProofs`, for all finite sets of rows, names, owners, sizes of a page and
numbers of requests, all its properties: `FreshAlways`, `TypeCorrect`,
`DeletedIsRemovedAlways` and `EmptyOnlyBeyondAlways`. The strengthening for the
first is `OnItsWay`: the list request sent last asks for what the user wants, or
none is in flight and that is shown or has failed. `SendList`, `SendOther` and
`Answered` say what the ends of the queue do to the request sent last;
`EffectAsks` and `DirectAsks` treat the two ways in which a handler asks. The
others rest on `Ranks`: the number of rows before a row runs through
`0..n-1`, each once. It is shown by cardinalities of sets, without induction
over a sequence; `RowsOK` concludes how long a page is and that its rows are
distinct, and `Multiples` that `Math.ceil(total / pageSize)` is the last page
that is not empty; `EmptyOnlyBeyondAlways` needs `steady`, under which the table
is still the one of the first statement. `StillThere` says that the row of a
delete sent with nothing else in flight is at its index until the answer.

`EditFormProofs`, for any rows and any number of requests in flight:
`NothingSavedAlways`. The invariant says that neither the form nor a body in
flight ever has all the fields of a row, so the finding is not one unlucky order.

`WebShellProofs`, for any set of options and any number of requests left behind:
`TypeCorrect`, `PageDressedAlways`, `SidebarAgreesAlways`,
`OptionClassesAlways`, `OptionsKeptAlways` and `SignedOutOnlyLateAlways`, and
`LockedOutAlways`, the finding of `web_session` in every reachable state. The
invariant ties the session to the page (`SessionInv`: `Main` is there exactly at
"/" for whoever was not authenticated at the last rendering) and the class list
to the page and the store (`LayoutInv`). `RenderedLayout` treats the rendering
once for all the steps that render, from any list that lacks at most the classes
of a form, which is what the sign-in service leaves.

Assumptions are the named ASSUMEs of the modules: `TimeoutAssumption`,
`NeverAssumption`, `NoClientAssumption`, `BoundsAssumption`,
`ScriptAssumption` (the script's rows keep the keys), `RawAssumption`,
`RequestsAssumption`, `RangeAssumption`, `DriveAssumption`, `EventsAssumption`,
`AxesAssumption`, `OptionsAssumption`, `StaleAssumption` and `PageAssumption`
(the set of rows is finite and a page has at least one).

Every safety property of the passing runs is a theorem. Only model-checked: the
liveness properties (`SocketFreed`, `BacklogMoves`, `DrainsAfterShutdown`,
`LevelSettles`, `FramesSettle`, `SteadySpeedIsFatal`, `PreloaderEnds`), since
fairness is defined with ENABLED, which the provers do not handle; the safety
half of the three about the PWM is proved. The properties with counterexamples
(`AnsweredInTime`, `DeviceDeleted`, `CloseReturns`, `AppliedIsSaved`,
`SignedInSeesMain`) cannot be; three of them have a theorem that says how far
the defect goes.

## 7. Not modelled

`PROJECT.json` gives the reason for each part.

- Pure I/O: static files, resources, the sensors of the monitor, the LCD.
- JSON-RPC: one request, one answer, no state; its outcomes are a table.
- The Prometheus exporter: a counter per status event. Which statuses come, and
  in which order, is decided in `core-utils`.
- The mDNS service, which nothing creates, the mock server, which is commented
  out, and the service worker, which `index.tsx` unregisters.
- Template pages with fixed contents, the menu and the search in it; of the ui
  slice the fields that only become an attribute of a child.
- The configuration tables, which are only read, and requests with malformed
  numbers.
- SQL text behind an apostrophe that makes several rows or another kind of
  statement of a query.
- The `core-utils` submodule, which is absent.

After shutdown the handler of accept calls `accept()` for ever
(`HttpWorker.cpp:46`); the model has that loop, but whether it matters depends
on how the absent `Application` stops its `io_service`.

## 8. Plan

Order of the work, most important behaviour first; all but the last are done.

1. `HttpWorker` with `HttpSession`, safety, liveness, proofs.
2. `RegistryStore`, statement by statement; proofs.
3. `SoftPwm` and `DCMotor`, composed; proofs.
4. `ListPage`; proofs.
5. `Servo` with proofs, and `Srf05`.
6. `EditForm` and `WebSession`.
7. `WebShell` over `WebSession`; proofs.
8. Findings met on the way: the deadline, the DELETE of a device, the close of
   the sensor, the forms, the redirect of the signed in.
9. Proofs of all safety properties, `RegistryTables` and its refinement, and
   the safety halves of the PWM's liveness.
10. Left: the safety halves of the worker's liveness, and the exporter and the
   monitor, once the sources of `core-utils` say what they are sent.
