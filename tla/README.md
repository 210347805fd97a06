# Verification of plugdata-ofelia

plugdata-ofelia embeds Lua and openFrameworks in Pure Data. It is split into two
processes: the **host** (the Pd plugin, `Source/Objects`, sources compiled with `PD`
defined) and the **runner** (`Source/Runner`: an openFrameworks application with one
Lua state). They talk over four local TCP connections (`Source/Shared`). Everything
hard about this program is in that split: what used to be a function call is now a
message, handled by another thread of another process at another time. Everything
below takes the program as its build does, with `TARGET_EXTERNAL` defined
(`Resources/Makefile/config.make:19`).

This directory holds TLA+ models of the split, the TLC configurations that check them
on small instances, and proofs that hold for every value of the constants.

- [1. The system](#1-the-system)
- [2. The modules](#2-the-modules)
- [3. The runs](#3-the-runs)
- [4. What the runs found](#4-what-the-runs-found)
- [5. The proofs](#5-the-proofs)
- [6. Not modelled, and why](#6-not-modelled-and-why)
- [7. Plan](#7-plan)

To run a model: `tlc -config ReturnPipe.cfg MCReturnPipe`. To check the proofs:
`tlapm X_proofs.tla`, for X one of `Sockets`, `Shutdown`, `ReturnPipe`,
`HostDispatch`, `AudioRing`, `Callbacks`, `RunnerLua` and `ObjectCall`.

## 1. The system

```
  host process                                     runner process
  ------------                                     --------------
  Pd / audio thread(s)   --- pipe, port p+1 --->   receiving thread -> queue -> main
  timer thread (3 ms)    <-- pipe, port p   ----   main, clock threads (Lua bindings)
  (inside timer thread)  --- returnPipe p+3 ---->  whichever Lua thread waits
                             returnPipe p+2        opened, not used for requests
```

Threads of the host: Pd's (under Pd's own lock, `sys_lock`), and the timer thread of
the message manager. Threads of the runner: main (60 frames a second, takes messages
off the queue and runs Lua), the receiving thread, and one thread per `pdClock`.

| Component | State | Operations | Talks to | What is hard | What makes it correct |
|---|---|---|---|---|---|
| Socket framing (`TcpSocket.cpp`, `ofxOfeliaStream.cpp`) | the socket, nothing else: no buffer and no lock | `sendData`, `receiveData`, `openConnection`, `acceptConnection` | both processes | several threads write to a socket; partial `send` and `recv`; a message larger than the buffer; a peer that ends | messages arrive whole, in order, once |
| Start-up (`initialise`, `bind`, `get`, `Semaphore`, `main`) | `instances`, `initWaits`, the four sockets | `initialise`, `bind`, `get`; the runner's constructor | the launcher, every new object | taken ports, refused connects and their retries, failing `accept`, several waiters on one latch | no object uses a manager that is not bound; both processes meet; everyone who waits gets on |
| Timer thread (`TimerThread`) | `running`, `callbackLock`, the thread | `startTimer`, `stop`, the loop | `timerCallback`; the manager's destructor; Pd, through its lock | a receive that blocks under a lock; a dispatch that waits for Pd's lock under two others; members destroyed before the thread is stopped | no callback after `stop`; `stop` returns; messages are polled |
| Dispatch and object lifetime (host `ofxOfeliaMessageManager`, `ofxOfeliaLua`, `freeWrapper`) | `listeners`, `listenerLock` (recursive) | `addListener`, `removeListener`, `timerCallback`, the `receiveMessage` of manager and objects | Pd, the runner | objects freed and made during dispatch; addresses used again; two locks in two orders | no call into a destroyed object; each message reaches its object once; every message is handed on |
| Requests and replies (`ofxOfeliaPdBindings.h`, `waitForReturnValue`, both host `receiveMessage`s) | nothing: a reply names no request | the bindings of `pdCanvas`, `pdArray`, `pdValue`, `ofxOfelia` that want a value | pipe and returnPipe | a missing or surplus reply; two callers at a time, on one socket and one buffer without a lock; objects and arrays that go | a call returns, with the answer to its own question |
| Runner Lua engine (runner `ofxOfeliaLua`) | `ofxLuaInstances` (by address, never erased), `package.preload` and `package.loaded` (by name), `isChunkRun`, the Lua stack | `createInstance`, `setName`, `doString`, `doFunction`, `doFreeFunction`, `getVariableByArgs`, `setVariableByArgs`, `require`, `getByName` | host objects | names and addresses used again, edits that fail, the lag of the pipe | a call runs the script its object has; one owner per name |
| Audio ring (`ofxOfeliaSignal`) | `RingBuffer`: `buffer_`, `head_`, `tail_`, `count_` | `perform` (pop), `receiveAudioSamples` (push) | audio thread, timer thread | no lock, no atomic | what comes out is what went in, later |
| Runner main loop and quit (`ofxOfeliaMain.cpp`, runner `ofxOfeliaMessageManager`) | the queue, `shouldQuit`, the window's loop | `run`, `dequeueMessages`, `update`, destructor | host, Lua engine | a blocked receive at shutdown; a loop that spins when the host is gone; messages queued behind `ofx_quit` | the runner ends when it is told to, after what it was sent before |
| Message codec (`ofxOfeliaStream.h`) | none | `writeToStream`, `parse` | everything | symbols, empty strings, atoms; senders and handlers that differ in their fields | `parse` gives back what was written |
| Object methods (host `ofxOfeliaDefine`, `ofxOfeliaLua`, `ofxOfeliaSignal`; runner `doFunction`, `doFunctionEnd`) | the Lua stack, `isChunkRun`, what is on the way | every inlet message, the audio call, every way of a result to an outlet | Pd, the runner's Lua code | results of any number and kind; errors; methods that fall through | the function that was meant, with the arguments that were meant; outlets that say what was meant |
| Object arguments and inlets (`argParse`, `ofxOfeliaIO`) | inlets, outlets, `av` | `argParse`, `newControlIO`, `newSignalIO`, `doList`, `setInlet`, `setInlets` | Pd | up to nine outlets and eight rings; one array for arguments and passive values | lists are spread over the inlets as given |
| Event listeners (`ofxOfeliaEvents`) | vectors of pairs of an instance and a priority | add, remove, sort, the callbacks | window events, Lua | changed while gone through; pointers to replaced instances | each listener is called once per event |
| Windows and clocks (`pdWindow`, `pdClock`) | the window, who owns it, the clock's thread | create, destroy, collection; set, delay, unset | Lua engine, listeners | one window for all objects; Lua that runs inside `exit()`; Lua run by two threads | the owner keeps its window; `exists` says whether there is one |
| Text buffer, log, generated Lua and OpenGL bindings, dock icon | - | - | - | file and GUI calls, tables of constants | - |

The hazards, each at its line with the properties that look for it, are listed under
`hazards` in `PROJECT.json`.

## 2. The modules

| Module | Models | Abstracts |
|---|---|---|
| `FifoChannel` | the promise: messages come out whole, once, in order | everything else |
| `TcpFraming` | one direction of one connection: any number of threads in `sendData`, the kernel's byte stream, one thread in `receiveData` | payload bytes are tokens `<<message, offset>>` |
| `TcpFramingInv` | the inductive invariant of `TcpFraming` | |
| `Sockets_proofs` | the theorems about `Startup` and `TcpFraming` | |
| `ReturnPipe`, `ReturnPipe_proofs` | the fifteen bindings that send a request, the replies of manager and objects to each, `waitForReturnValue` and its `receive` in several Lua threads, a patch that is edited meanwhile | what a handler does to the patch, values other than sizes |
| `MessageCodec`, `ObjectCall`, `ObjectCall_proofs` | a define object from an inlet to the Lua call and from Lua's results and bindings to outlets, inlets and receivers: the host's methods, `doList`, the runner's handlers with the depth of the Lua stack, `doFunctionEnd`, the host's handlers; both ways through `writeToStream` and `parse` | numbers, strings and userdata are model values; what Lua computes |
| `Startup` | `initialise`, `bind`, the latch, `get` in several threads; the runner's four `openConnection`s with their trials | time, except for one assumption (below) |
| `TimerThread` | the loop of the thread, `callbackLock`, Pd's lock and `listenerLock` as far as a dispatch needs them, the order of destruction, the runner that sends and ends | what a message does |
| `RunnerLoop` | the runner's receiving thread, queue, `shouldQuit`, `main()`, the window's loop and the destructor | the queue's implementation, drawing |
| `Shutdown`, `Shutdown_proofs` | `TimerThread` composed with `RunnerLoop`: both processes from `bind` to their ends; the theorems about both | as in the two |
| `HostDispatch`, `HostDispatch_proofs` | `listeners` under `listenerLock`, the lock of Pd, `newWrapper` and `freeWrapper` in their steps, the loop of `timerCallback` one listener at a time, the runner that sends to addresses | messages other than into the patch (`pd_send_*`) and to an outlet (`pd_outlet_*`) |
| `RunnerLua`, `RunnerLua_proofs` | the host's names (`initSym`, `bindSym`), the messages from `ofx_lua_init` to `ofx_lua_do_free_function`, the runner's instances and module tables | what scripts compute; a script compiles and runs, fails, or does not compile |
| `EventListeners` | one vector of listeners with its memory, changed by Lua code while an event goes through it | the kinds of events, which are alike |
| `PdWindow`, `PdClock` | the objects that share the window, and `exit()` with the Lua code it calls; the thread of a clock | what is drawn; time |
| `Callbacks`, `Callbacks_proofs` | the three composed: events of the window reach listeners, a clock's thread uses the same Lua state | what two threads in one Lua state do to it |
| `AudioRing`, `AudioRing_proofs` | `push` and `pop` sample by sample, with `count_` loaded and stored at any point the compiler may choose | one ring; the block's way through the runner is a delay |
| `MC*` | the instances for TLC | |

`TcpFraming` implements `FifoChannel` (run `framing_one_writer`, theorem
`ImplementsChannel`). `ReturnPipe`, `HostDispatch`, `TimerThread` and `RunnerLua`
use that promise, and so do `RunnerLoop` and `ObjectCall`: in them a pipe is a
sequence. They leave out what happens on it when the framing is damaged; section 4
says when it is. `TcpFraming` has one receiving thread, as both pipes and the host's
end of the return pipe have. The runner's end of the return pipe has as many as wait
for a value, and what they do to each other's frames is in `ReturnPipe` itself.

How state and actions correspond to the code:

- **TcpFraming.** `stream` and `read` are the kernel's buffer and the read position;
  `pc[s]` is where thread `s` is in `sendData` (before the header, inside the loop over
  the payload), `rpc`, `messageLength` and `buffer` are the locals of `receiveData`.
  `SendHeader` and `SendHeaderShort` are the `send` of the header and its two outcomes,
  `SendBody` one turn of the loop, `ReceiveHeader` and `RejectHeader` the two outcomes of
  the tests at lines 140-146, `ReceiveBody` one turn of the loop. `recv` into
  `messageLength` may return part of a header; the value is then anything.
  `faults` is a history variable that says which of the four things that damage the
  framing have happened.
- **ReturnPipe.** `Binding` is a table from the Lua call to the message its code really
  sends (`setSize` sends `pd_array_get_size`, `getDollarZero` sends `canvas_get_dir`) and
  whether `waitForReturnValue` follows. `ManagerReplies` and `ObjectReplies` are the two
  `switch` statements, with the fall-through after `canvas_get_index` and the early
  returns. `receive()` is three steps of a thread (`at`): the header, the payload into
  `buffer`, which all threads share, and the copy. While another thread is between
  header and payload, what a thread takes for a length is some number and what it takes for a
  payload is some part of the bytes that are there (`ReceiveSplit`); from then on nothing
  is known of the stream. `slips` records when replies and requests no longer match.
  `embraced` is the host's timer thread waiting for Pd's lock in a handler of values or
  arrays while Pd waits for `listenerLock`.
- **Startup.** `hostPc`/`hostAt` walk through `bind`, `runnerPc`/`runnerAt`/`trials` through the
  runner's constructor. `accept` may fail, a port may be taken (then `listen` fails
  and `bind` goes on to the next socket, as the code does).
- **ObjectCall.** One action for each host method and each handler. A message is a record
  of its type, its fields and, as history, what it was meant to bring about; the
  receiver takes the fields apart by the types its `case` parses (`HostKinds`), which are
  not always those that were written. `DoList` is the array that `doList` fills, index by
  index; `depth` is `lua_gettop` between messages, and `left` what the named paths are
  known to leave there. `call` and `delivery` show what the last step called in Lua or
  brought into the patch. The flags of `argParse` are the constant `IOs`.
- **TimerThread.** It has no run of its own: `Shutdown` EXTENDS it. `Quit`, `DestroyMembers`, `ClearRunning`, `StopLock` and `Join` are
  the destruction in C++ order: body of the derived destructor, members, base class.
  A receive on destroyed streams either returns or is the end of the process.
  A dispatch is two steps. `Receive` returns a message and takes `listenerLock`; `Dispatch`
  is done with it at once (`"dispatch"`: the objects' handlers and `pd_log`) or as soon as
  Pd's lock is free (`"sys_lock"`: most handlers of the manager). `sysLock` says who has Pd's
  lock: nobody, Pd, Pd that waits for `listenerLock` in `addListener` or `removeListener`, or
  the thread that destroys the manager, which may or may not hold it.
- **RunnerLoop, Shutdown.** `rpc` is where the receiving thread is in `run()`, `mpc` where
  the main thread is between `main()`, a frame's `update`, its `dequeueMessages` and Lua
  code (`"lua"`, or `"wait"` for an answer). `shouldQuit` is set by the receiving thread when
  it has `ofx_quit` in hand. `hostUp` is a definition of `Shutdown`: the host's ends of the
  connections are open until its streams are destroyed or its process ends. A step of one
  process that the other sees (`HostPosts`, `HostQuits`, `LuaAsks`, `RunnerExits`, ...) is one
  step of both.
- **EventListeners.** `slots` is the vector's memory beyond its `size`, `at` and `end` the
  iterators taken before the first call, as `callEventListeners` takes them. `erase` moves
  elements down, `push_back` moves everything when the capacity is used up (`moved`).
- **PdWindow, PdClock, Callbacks.** `owner[w]` and `exists` are the members of `pdWindow`
  (`exists` is static), `attached[w]` the window its callbacks are registered with.
  `exit()` is two steps, because its listeners are Lua code that may use the window: `Destroy`
  or `CloseBegins` enters it, `ExitEnds` is what it does after its listeners have returned.
  `leaving` is the stack of objects inside it, for an exit listener may call `destroy()`
  in turn, and `closing` says that the first was called by the window's loop.
  `thread` is where a clock's thread is. `LuaStep` is what Lua code may do to all three,
  whether a message, an event or the clock runs it.
- **HostDispatch.** `generation` tells apart the objects that have had an address; a
  message carries the generation it was meant for. `fate = "iterator"` is the
  undefined behaviour after the list was changed under the loop by the same thread
  (the lock is recursive), and the model stops the timer thread there.
- **RunnerLua.** `object`, `bound` are the host's side, `instance`, `preload`, `loaded`
  the runner's. A "call" stands for every message that begins with `require`. Each call
  carries, as history, the script that was in force at its object when it was made.
- **AudioRing.** `areg`/`treg` are the register copies of `count_`; `aseen`/`tseen` its
  value when it was loaded.

## 3. The runs

Bounds are the CONSTANTS of each `.cfg`; every module names its bounds in its
declaration of constants.

| Run | Question | Bounds, and why they are enough |
|---|---|---|
| `framing_shared_pipe` | Two threads share a pipe and the kernel does what it likes. Is there a way to damage messages other than the four in `Faults`? `TypeOK`, `FramingHolds` | Two writers and two frames give every overlap of two frames; lengths 0 (rejected), 2 (fits) and 3 (as large as the buffer); a kernel buffer of 4 is smaller than a frame, so that `send` blocks inside frames |
| `framing_one_writer` | With one writer and messages that fit: FIFO channel, and delivery. `ChannelSpec`, `Delivery` | Four frames through a kernel buffer of 3, smaller than any frame of length 2 |
| `return_pipe` | Are answers mixed up, or callers stranded, other than by the five slips? Does every call return? `TypeOK`, `OwnAnswer`, `CallsReturn` | Two Lua threads, all bindings, three requests: one to cause a slip, one to suffer from it, one of the other thread. One object and one array that come and go, so that Pd may wait for `listenerLock` |
| `startup` | Does anyone get an unbound manager; do the processes meet; does everyone get on? `StartupTypeOK`, `GetAfterBind`, `GetReturns` | All subsets of taken ports, each `accept` may fail, two getters (the least for a lost wake-up), three trials |
| `shutdown` | From `bind` to the end of both processes. `TypeOK`, `NoCallbackAfterStop`, `DeadlockOnlyIfCaught`, `StopReturns`, `Polls` of the host; `AllRunBeforeQuit`, `NothingToWake` of the runner; `FairSpec`, the abstract specification `TimerThread` with its assumption about the runner | Two messages each way: one that is being handled and one behind it. `ofx_quit` comes at any point, the host or the runner may go at any point, Pd takes and leaves its lock and edits the patch at any point |
| `object_call` | From an inlet to Lua and from Lua to outlets. `TypeOK`, `ArgumentsArrive`, `StackBalanced`, `OutletsAsMeant` | Objects with 1 to 3 inlets, 0 to 2 outlets, control and signal, one of them with a ring less than outlets (the flag allows nine outlets and the code has eight rings); lists of 0 to 3 atoms of all types, the empty symbol among them: as many as there are outlets and one more; one message under way each way, so that the inlets change between sending and arrival; two slots left on the stack |
| `callbacks` | What Lua code does from inside events, messages and a clock. `TypeOK`, `EachOnce`, `NoDanglingCall`, `ExistsHasOwner`, `KeepsWindow` | Three objects (a vector of three grows twice and has an element before, at and after the iterator), each replaced once, two priorities, two window objects, two windows, six operations of Lua code: three to add listeners and three to change them, or a window created, destroyed, and once more of each inside `exit()`. Objects are alike, and so are windows (symmetry: the models tell addresses apart, and no more) |
| `callbacks_unset` | Does `unset` cancel the call? `NoCallAfterUnset` (violated) | One of everything |
| `host_dispatch` | Objects made and freed while messages are handed on. `TypeOK`, `NoDeadObject`, `HalfBuiltOnlyByReuse`, `ExactlyOnce`, `HandedOn` | Two addresses, each used twice (the least for reuse), two messages, every initial list |
| `runner_lua` | Does each call run the script of its own object? `TypeOK`, `OwnScript`, `SoleOwner`, `OwnOutlet` | Two addresses that want one name, three objects (one more than addresses, so that one address is used again), two scripts with three outcomes each, three messages under way (the most that one action sends) |
| `runner_lua_clients` | Does a call of `ofelia get` or `ofelia set` reach the define object? `ClientsCall` (violated) | |
| `audio_ring` | `push` and `pop` without a lock. `TypeOK`, `CountIsExact`, `DelayLine` | Ring of four, blocks of two: full, empty and wrapped around within five ticks |

What the properties with exceptions mean: `FramingHolds`, `OwnAnswer`,
`CallsReturn`, `GetReturns`, `DeadlockOnlyIfCaught`, `StopReturns`, `Polls`, `AllRunBeforeQuit`,
`HandedOn`, `OwnOutlet`, `ArgumentsArrive`, `StackBalanced`, `OutletsAsMeant`, `EachOnce`,
`NoDanglingCall`, `ExistsHasOwner`, `KeepsWindow`, `CountIsExact` and `DelayLine` hold
*unless* one of a short list of named events has happened. The events are real behaviours
of the code, reached in the same runs; each property says that there are no others.

### Fairness

- `TcpFraming`: a thread inside `sendData` or `receiveData` goes on (WF). Both are plain
  loops on threads of their own; calling `sendData` is not assumed.
- `ReturnPipe`: the timer thread polls every 3 ms and a thread in `receive()` goes on when
  there are bytes (WF of `Dispatch` and, per thread, of `Receive`). Making calls is not
  assumed, and nothing gets the host out of `embraced`.
- `Startup`: both set-ups go on and a getter that is not asleep runs (WF). A spurious
  wake-up is possible and not assumed. One assumption about time is built into
  `Refused`: the runner does not use up its trials at a socket while the host is on
  its way to the next `accept`, because the trials take 2.75 s (50 ms, 100 ms, ...
  of sleep) and the host has one `listen` to call. How long the host takes to
  *call* `bind` is not bounded, and there the runner does give up.
- `TimerThread` (`FairSpec`): SF of the thread, because Pd's lock is free again and again
  and the operating system's lock does not starve a waiter for ever; SF of Pd leaving its
  lock and WF of its going on with a free `listenerLock`, for Pd's scheduler does not keep
  the lock for good; WF of the destroying thread, and of a runner that was told to quit
  ending. The last is an assumption about another process, and
  `shutdown` discharges it: `Shutdown` assumes the same of the host's threads and Pd's, WF of the runner's
  two threads and of a process that has left `main`, each a thread that the operating
  system schedules; Lua code returns; an *answer* from the host is not assumed to come.
  That FairSpec is a property of it says that the runner ends when told although its Lua code
  may wait for a host that is being destroyed (`recv` returns when the host's end closes).
- `Callbacks`: WF of the clock's thread, which sleeps for a finite time and is not waited
  for by anybody. Only the run that refutes `NoCallAfterUnset` needs it, so that the
  call after `unset` is no accident of a system that stops; the properties that hold are
  safety.
- `HostDispatch`: WF for Pd inside one call, SF for the timer thread, because Pd takes
  and releases its lock again and again and the operating system's lock does not
  starve a waiter for ever.
- `RunnerLua`, `ObjectCall`, `AudioRing`: safety only.

`CHECK_DEADLOCK FALSE` is set where the system really may stop: all bounded input is
used up, or a thread waits for ever, which is then what a property is about.

## 4. What the runs found

Recorded as findings, each with a run in which TLC violates the documented property:

- **`ofelia get` and `ofelia set` do nothing** (`runner_lua_clients`). `isChunkRun` is
  per instance in the runner, and only the instance that was sent a script has it.
- **`unset` of a clock does not cancel the call** (`callbacks_unset`). It clears a flag of
  the thread, and `threadedFunction` sleeps and calls without looking at it.

Shown by the exceptions of the properties that hold:

- Two threads in `sendData` on one socket interleave frames (`faults = {"interleaved"}`):
  the runner's main thread and its clock threads do so on the pipe, Pd's audio thread
  and its message thread on the other direction.
- A request that no listener answers (`canvas_get_args` of a top-level patch, the size
  of an array that is gone, any request of an object that has been freed) leaves the
  caller in `recv` for ever; a surplus reply (`canvas_get_index`, `pd_get_sys_info`
  with no or several objects) shifts all later answers by one.
- Two Lua threads that wait for a value at a time share the socket and the buffer of the
  return pipe without a lock. One may take the header of a reply and the other its payload,
  or the header of the next: then lengths are read from payloads, and a thread waits for ever for
  bytes that nobody sends (`slips = {"race", "split"}`). Or one copies what the other has
  received since.
- The timer thread takes Pd's lock while it holds `listenerLock` and `callbackLock`, and Pd
  takes `listenerLock` while it holds its own: `Embrace` in `HandedOn`, `Polls` and
  `StopReturns`, `embraced` in `CallsReturn`. Later messages are not handed on, a caller in
  the runner gets no answer, and `stop()` waits for `callbackLock`. The same happens
  to `stop()` when the thread that destroys the manager holds Pd's lock
  (`HeldByDestroyer`).
- A message into the patch that makes or frees an ofelia object changes `listeners`
  under the loop that delivers it: `fate = "iterator"`.
- `stop()` may take `callbackLock` between the thread's look at `running` and its
  `lock()`; it then joins a thread that waits for the lock it holds.
- `receiveData` returns 0 for a message larger than its buffer, as its comment says, and
  leaves the payload in the stream, where the next call takes payload for a header
  (`faults = {"oversize"}`).
- `setSize` of an array asks for the size; nobody takes the answer, which becomes the
  answer to the next request. `Semaphore::release` wakes one of the threads that wait for
  a latch that stays open, so that a second waiter sleeps on.
- Once the host has died without `ofx_quit`, the runner's receiving thread gets nothing at
  once, again and again: it spins, and the runner stays. The destructor's `pipe.quit()`
  writes to the connection it reads from and could not wake the thread; it never has to
  (`NothingToWake`), because only that thread sets `shouldQuit`, on its way out.
- `get()` also returns when `accept` has failed for every socket: `bind` of a stream
  always returns true.
- `getByName` takes the first instance with a name, and instances are never erased.
  The outlet of a define object then belongs to a client of that name or to an
  object that is gone, if its address sorts first (`namesake`); and when that address
  is used again, the outlet's pointer dangles.
- A client that is freed stays bound to its name, so that the host may find another
  object under that name.
- `outletSymbol` sends its string as a `pd_outlet_float` (the example `misc/main.pd:52`
  uses it); the host's handlers of `pd_send_pointer`, `pd_send_list` and
  `pd_send_anything` parse a string that the bindings do not send, so that fields are
  read as others: the message is lost, goes to another receiver, or ends the host.
- The host overwrites the last character of each symbol in a list, and the byte before the
  buffer for an empty symbol. A pointer in a list meets an assertion of `writeToStream`.
- `pd_outlet_list` is the one outlet message that does not look whether there is a
  control outlet. Nine outlets of `-s` meet eight rings.
- The cases of the canvas's index and position end without a `break` and fall through:
  asking for the position, or setting it, writes to a passive inlet and, for the former,
  moves the patch to what was read past the end of the message.
- Two slots stay on the Lua stack for every value that fits no variable of a set, and the
  other results stay when one of several is a userdata, until the next script. A
  function as a value in a table derails the loop over it, and results of `perform` that
  are not all tables raise an error outside the protected call.
- Removing or sorting listeners from inside a listener skips one or calls one twice; adding
  one may move the vector's memory under the loop (`fate = "moved"`). A listener or a clock
  that was left behind by an object whose address is used again is a dangling pointer.
- Lua that collects the owner of the window leaves `exists` set for ever: no object can
  create a window any more (`abandoned`). `create` right after `destroy` takes over
  the window that is about to close, and loses it with it (`hurried`). `destroy` calls the
  exit listeners before it clears `owner` and `exists`: one that destroys the window and
  creates another is undone when the outer call goes on, and another object's window has
  then an owner while `exists` says there is none (`reentered`).
- A clock's thread runs Lua without a lock while the main thread does (`fate = "raced"`). A
  `delay` from the clock's own function is refused, since the thread has not ended
  (`startThread` of openFrameworks, external): the metro example fires once.
- The ring drops a block that does not fit, and a race on `count_` shifts the delay for
  good.

## 5. The proofs

TLAPS checks the following for all values of the constants that satisfy the named
ASSUMEs of the modules (`HeaderLenAssumption` and its like: sizes are numbers, a
header is not empty and fits the kernel's buffer).

**`Sockets_proofs`** - of `Startup`, any number of getters and trials, any taken ports; of
`TcpFraming`, any number of senders, any lengths, any buffers, any number of frames.

- `StartupTypes` (`[]StartupTypeOK`), `NobodyEarly` (`[]GetAfterBind`) from `StartupInv`: the types;
  `SocketsInv`, a set-up that is busy is at one of its four sockets; `LatchInv`, the
  latch is open exactly when `bind` is through, and who is past it has seen it open.
- `TypeCorrect`: `Spec => []TypeOK`.
- `FramingIntegrity`: `Spec => []FramingHolds`. `FramingHolds` is not inductive: it
  speaks of finished messages only. `FramingInv` (module `TcpFramingInv`) adds, for as
  long as no fault has happened: `FramesInv`, frames follow each other without gaps;
  `WritersInv`, at most one thread is inside a frame, that frame is the last, and the
  stream ends where the thread has got to; `StreamInv`, every byte is where its frame
  puts it; `ReaderInv`, the reader stands at a frame's beginning or has exactly a
  frame's first bytes. One lemma per kind of step (`SendHeaderStep`, `SendBodyStep`,
  `OtherSendSteps`, `ReceiveHeaderStep`, `ReceiveBodyStep`, `ReceiveFailsStep`)
  shows that it is kept or a fault recorded; the key fact is `NextHeader`, that
  bytes which read as the header of a frame at the reader's position are the header
  of the frame that is due.
- `ImplementsChannel`: under `OneWriter` (one thread writes, messages are smaller than
  the buffer, the kernel hands over headers whole) `Spec => ChannelSpec`. `CalmInv`
  adds to `FramingInv` that no fault happens; a step that appends a frame maps to
  `Send`, one that completes a message to `Deliver`, all others stutter.

**`Shutdown_proofs`** - any number of messages, any lag between the two processes. First the
timer thread alone, then the composition.

- `TypeCorrect`, `CallbacksEnd` (`[]NoCallbackAfterStop`), `OneDeadlock`
  (`[]DeadlockOnlyIfCaught`) from the inductive `TimerInv`: the types, `LockInv` (who
  holds `callbackLock` is where the two threads are), `StopInv` (a cleared
  `running` stays cleared, and a thread that was not caught sees it) and `MessageInv`
  (a message that is being handed on is one that was sent).

- `ImplementsTimerThread`: `ShutdownSpec => Spec`, the specification of `TimerThread`:
  each step of the host is the same step there, a step of the runner that ends the
  process or sends is that of the abstract runner, and all others stutter. Its theorems
  carry over (`CallbacksEndHere`, `OneDeadlockHere`).
- `NothingLeftBehind` (`[]AllRunBeforeQuit`) and `NobodyToWake` (`[]NothingToWake`) from
  `ShutdownInv`: `RunnerTypes`; `FlowInv`, what the host has posted is what the runner
  has run, then what its main thread holds, its queue, what the receiving thread
  holds, and the pipe, in this order; `LastInv`, nothing is posted after `ofx_quit`;
  `QuitInv`, `shouldQuit` is set by the receiving thread with `ofx_quit` in its hand;
  `MainInv`, the destructor is reached through `shouldQuit` only. That nothing is posted
  after `ofx_quit` rests on `ToldInv`, about the host alone.

**`ReturnPipe_proofs`** - any threads, bindings and sizes, any finite set of objects, any
number of requests.

- `AnswersMatch`: `Spec => []OwnAnswer`. Nothing in a reply says what it answers, so the
  argument is about how much is under way: until something has slipped (`ReplyInv`), one
  thread waits; its request is the last on the pipe with the return pipe empty, or its
  reply is the only one on the return pipe, or its bytes are in the buffer (`StepInv`, which
  also says where in `receive()` the thread is). That nobody else is inside a reply then
  (`InStep`) rules the split out. The content of replies is not used: how many there are is
  what `slips` records.
- `PipeTypes`: `Spec => []TypeOK`. It is about the content: `ValuesType` says that whatever
  binding, object and array are concerned, what is replied is a sequence of sizes. A
  request for the system's information is answered by every listener; that there are
  finitely many rests on `ObjectsAssumption`, which a program's memory justifies.

**`HostDispatch_proofs`** - any finite set of addresses, any number of messages and objects.

- `TypeCorrect`, `DeadAreLeftAlone` (`[]NoDeadObject`), `HalfBuiltIsReused`
  (`[]HalfBuiltOnlyByReuse`) and `HandedOutOnce` (the action property `ExactlyOnce`) from
  `DispatchInv`: the types; `ListInv`, the list holds each object once, and holds
  exactly those between `addListener` and `removeListener`; `PdInv`, what is at the
  address Pd's thread is at; `GenInv`, every generation that is named on the pipes or
  known to the runner was announced, which that of an object in its constructor is not
  (`AnnouncedStays`); `LoopInv`, `listenerLock` is held through the loop, and `hits`
  counts the listener at the address of the message if it has been passed.
  `SetToSeqFacts` and `RemoveAtFacts` say what the sequence operators do to the list.

**`AudioRing_proofs`** - any capacity, any block, any number of ticks.

- `WithinRing` (`[]TypeOK`, with it that `count_` does not wrap) and `ExactCount`
  (`[]CountIsExact`) from `RingInv`: the stores of one thread only lower `count_`, those of
  the other only raise it, so that what either has loaded remains a bound (`AudioInv`,
  `TimerInv`); without a race, `count_` lacks what is not stored and nothing else
  (`CountInv`).
- `HalfRingLater` (`[]DelayLine`) from `DelayInv`: from the reader's place round to the
  writer's the ring holds, in order, the half ring behind the reader's samples and
  those in use; a push lands on none of them as long as no more than half is in use.

**`Callbacks_proofs`** - any objects and windows, any integers as priorities
(`PrioritiesAssumption`), any number of steps of Lua.

- `OneOwner` (`[]ExistsHasOwner`) and `OwnersKeep` (`[]KeepsWindow`) from `WindowInv`: the
  types; `ClosingInv`, the window whose `exit()` the loop has called is about to go; and,
  until an owner is collected or an exit listener creates a window (`Orderly`), `OwnerInv`,
  at most one object owns the window, `exists` is set exactly then, and the owner is
  attached to it, and `LeavingInv`, whose `exit()` is under way is the owner or there is
  none, so that what it clears is its own or clear. `AskedInv`, who has asked for the window
  and not given it back owns it, holds as long as nobody was hurried either. One lemma per
  operation of `pdWindow`.
- `LoopTypes` (`[]TypeOK`) and `EventsCallEachOnce` (`[]EachOnce`) from `ListenersInv`: the
  types; `LoopInv`, the iterators stay inside memory that was the vector's; `VecInv`, the
  vector holds each listener once with the priority it asked for last; `EventInv`, while
  nobody disturbs an event its elements stay where they are, in order, and those up to
  the iterator have been called. Each operation has a lemma that says where it moves the
  elements (`PushBackMoves`, `EraseMoves`, `ResortMoves`, `ResortOrders`). That a stable
  sort permutes the vector would be an induction; here the place of an element is a
  cardinality, that of the elements not after it, so that places grow with the order
  (`PlaceGrows`), are different, and, the vector being finite, all taken (`FromPlace`).
- `NoCallOfTheDead` (`[]NoDanglingCall`) from `CallInv`, which adds `ForgetInv`: until an
  object is replaced that left a listener or a clock, every element of the vector, every
  element an event may still come to (after a removal these are not the same) and the
  clock's target is the instance that is alive at its address.

**`RunnerLua_proofs`** - any addresses (positive numbers), any number of objects, scripts,
outcomes and messages on the pipe.

- `Agreement`: `Spec => []LuaInv`. The runner lags behind the host by what is on the pipe, so
  no relation of the two states of a moment is invariant. `LuaInv` says instead that there
  is a *plan*, a function that gives the state of the runner before each message on the
  pipe and after the last (`Planned`), such that each message leads from one to the next
  (`After`) and `Fits` the state it will meet, and that the last one agrees with what the host
  believes (`Agrees`). To send is to append to the plan (`PlanAppend`, with one lemma for
  each group of messages that is sent together), to take a message is to drop its first
  state (`PlanTail`, `RunnerAfter`). With it come `HostNames`, `initSym` gives no two define
  objects a name, and `Good`, what `SoleOwner` and `OwnOutlet` say, which every message that
  fits keeps (`AfterGood`).
- `LuaTypes` (`[]TypeOK`), `ScriptsAreOwn` (`[]OwnScript`), `OwnersAreSole` (`[]SoleOwner`),
  `OutletsAreOwn` (`[]OwnOutlet`) follow from it.

**`ObjectCall_proofs`** - any flags, so any number of inlets, outlets and rings, any values and
lists, any number of messages on the way.

- `ObjectInvariant`: `Spec => []ObjectInv`. What arrives is decided by the fields a message
  was written with, so the invariant speaks of the messages under way: `RunnerQueue` and
  `HostQueue` say that each message is *right*, that its handler, reading the fields by its
  own types, will call or deliver what was meant (`RunnerRight`, `HostRight`). To send is to
  show that the new message is right (one lemma for each kind: `ListMessage`,
  `ReturnedTable`, `OutletAnything` and their like), to handle is to use it (one lemma for each
  handler). What is said of a message depends on nothing but the flags, so that it stays true
  while the message waits (`RightStays`, `HostRightStays`): this is why a change of the
  inlets between sending and arrival does no harm.
- `ParseOne`, `ParseTwo` and `ParseThree` say that `parse` gives back what was written with
  the types it asks for; `DoListIsRight` that `doList` puts the passive values behind the
  arguments, each in its place; `DistributeIsRight` that the handler's loop calls the outlets
  that `Spread` means; `SetOneFits` and `SetInletsFits` that an inlet only ever takes a value
  of its type. `StackAfter` counts what a call leaves.
- `ObjectTypes` (`[]TypeOK`), `InletsReachLua` (`[]ArgumentsArrive`), `StackIsBalanced`
  (`[]StackBalanced`) and `ResultsReachOutlets` (`[]OutletsAsMeant`) follow.

Only model-checked: all liveness (`Delivery`, `CallsReturn`, `GetReturns`, `StopReturns`, `Polls`,
`HandedOn`) and the fairness in `FairSpec`. Liveness and ENABLED are out of the
prover's reach. Every other property of the passing runs is the subject of a theorem.

## 6. Not modelled, and why

- What scripts, patches and openFrameworks do. Lua's effect on the two processes is in
  the bindings; who calls `initialise` and launches the runner is in plugdata.
- Scripts that `require` each other, and the second inlet of `ofelia get`, which changes a
  name that the runner is not told of. In `ObjectCall`, the leak of `getVariableByArgs`,
  which only get objects reach (section 4: their calls run nothing).
- Coercions of Lua (a string that reads as a number), commas and other bytes of symbols,
  and the lengths of strings: data that no property tells apart.
- The setup event that `create()` sends after it has set `owner` and `exists`: its listeners
  are Lua code like the rest of what called `create()`. The nested `loopOnce` of the
  destructor of a window, and a clock that is destroyed with its thread running: how
  openFrameworks nests its loop and ends a thread is not in this repository.
- An object whose `freeMethod` has begun but which is still in the list of listeners may be
  called (`"dismantled"` in `HostDispatch`): `NoDeadObject` speaks of objects that are gone.
- `outlet_*` on the timer thread without Pd's lock: the state that is raced for is Pd's.
- `MessageManager.cpp:23` sets `instance` after the thread was started that may use it; the
  window for it is the length of one store, and what reads it comes with the first message.
- A second `initialise` for the same Pd instance, which replaces the manager.
- `addDsp` and the arrays of rings and vectors of a signal object.
- Text windows and files, logging, the dock icon: input and output, with no state to go
  wrong over several steps.
- Generated and vendored code. Of the 236,000 lines that count as implementation, about
  230,000 are SWIG wrappers for openFrameworks, GLM, OpenGL and Pd in several copies
  (`Libraries/ofxLua/src/bindings`, `Source/Runner/ofxOfeliaPdBindings.cpp`,
  `ofxOfeliaGL.cpp`), `Resources/scripts/common/glew.h` and `concurrentqueue.h`. The wrappers
  are tables and one-to-one calls of the functions that *are* modelled; the queue is used
  as a FIFO queue with one producer and one consumer, and is one. The share of lines the
  project maps is therefore low and would stay low if every line that was written for this
  program were modelled: those are some 6,400, and about 2,800 of them are mapped.
- Crashes of the host by undefined behaviour are ends of the process where they matter
  to another actor (`ArrayGetCrash`, `ReceiveFromNothing`, `Quit` before `bind`),
  and otherwise not in the models.

## 7. Plan

The components are modelled as far as the sections above say, and what the passing runs
check besides liveness is proved. What is left: the second inlet of `ofelia get` and scripts
that `require` each other, in `RunnerLua`.

Related questions share a run: a new module gets one passing run with all its
properties, and a run of its own only for a documented property that fails.
