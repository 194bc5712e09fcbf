# SA Essentials: a TLA+ verification project

SA Essentials is a pack for modding GTA San Andreas: Lua libraries and scripts
for MoonLoader, SDKs and demo plugins for CLEO and SAMPFUNCS, and many vendored
libraries and data files. There is no single program. What can be modelled are
the parts with state and control of their own: a reliable datagram protocol, a
coroutine scheduler, libraries that live inside the game (hotkeys, hooks,
reloading of scripts), the plugins, and the containers and utilities of the
SDK. This directory holds TLA+ modules for them, TLC runs on small instances,
and theorems checked by TLAPS.

Paths below are relative to `src/`; `L/` is `moonloader/lib/`, `SDK/` is
`SAMPFUNCS/(for developers)/SAMPFUNCS SDK/SF Plugin Template/SFPlugin/game_api/sdk/`
and `CLEO/` is `CLEO/(for developers)/cleo_sdk/demo_plugins/`.

## 1. Inventory

| Component | State | Operations | Interacts with | Hard behaviour | Correct if |
|---|---|---|---|---|---|
| **SNET** (`L/SNET`) reliable datagrams over UDP | per object: next id, window of received ids, queue of unconfirmed packets, status; server: table of clients with time last heard, blacklist | `send`, `process`, `block_address`, `unblock_address` | peers through UDP; application through `onReceivePacket`, `onClientUpdate` | loss, duplication, reordering, resends against late confirmations, timeouts, restart | nothing is handled twice while near; what is confirmed was handled; resending ends; the server's tables agree |
| **SNET byte streams** (`bstream.lua`, `bcoder.lua`) | bytes, read and write position | write and read of each type | the data of SNET packets | widths, signs, reading behind the end | values come back in order |
| **copas** (`L/copas.lua`) coroutine scheduler | reading/writing sets with FIFO queues per socket, timer logs, sleepers, lethargic threads, servers | `addserver`, `removeserver`, `addthread`, `receive`, `send`, `connect`, `sleep`, `wakeup`, `step`, `loop` | sockets, `select`, coroutines | two threads on one socket, wake-ups, timers shared per socket, autoclose | no waiting thread is lost; watchdogs are watched; waits end |
| **copas.limit** (`L/copas/limit.lua`) bounded task set | count, queue, running, waiting | `addthread`, `removethread`, `next`, `wait` | copas sleep and wake-up | removal of queued or running tasks, wake-up of waiters | the count is the number of tasks in `running`; room is used; tasks and waits end |
| **rkeys** (`L/rkeys.lua`) hotkeys | pressed keys in order, hotkeys, active hotkeys | key messages, focus loss, register, change, unregister | window messages | keys released elsewhere, removal while iterating | no stuck key; a hotkey fires once when its keys are pressed |
| **mimgui_hotkeys** (`L/mimgui_hotkeys.lua`) | hotkeys by name, active keys, the hotkey being edited | register, edit, show, remove, messages | window messages, frames | edit, removal and re-registration meet; keys released behind another window | an edit ends with sound keys or the backup; no key is stuck that went up before the window |
| **hooks** (`L/hooks.lua`) | code bytes, saved bytes, list of hooks | `vmt/jmp/call.new`, `start`, `stop`, termination | game code | hooks on one place, calls through hooks | every call passes each hook once; termination leaves the original code |
| **AutoReboot** (`moonloader/AutoReboot.lua`) | modification time by file | poll, reload, load | scripts, files | a write during a pass | the last writing is loaded |
| **ltn12** (`L/ltn12.lua`) | index, top, retry of a chain, state of a pump | `filter.chain`, `source.chain`, `sink.chain`, `pump.step`, `pump.all` | filters, sources and sinks of programs | filters that keep data back or give more than one chunk; a source or sink that fails in between | nothing lost, doubled or reordered; errors are reported, the end is told once |
| **FileSystemOperations** (`CLEO/FileSystemOperations`) | open searches, files | delete, move, copy of files and directories | Win32, other programs | early returns of recursive operations | the whole tree and only it |
| IntOperations (`CLEO/IntOperations`) | - | fourteen integer opcodes | CLEO | - | not modelled, see section 9 |
| **dense hash table** (`SDK/google/sparsehash/densehashtable.h`, under `CFastHashMap`) | buckets, counters, deleted key | insert, erase, find, resize, copy, swap, clear, iteration | user containers | tombstones, probing, rebuilds, threshold arithmetic | it is a set; probes end |
| **sparse table** (`SDK/google/sparsetable`) | groups, bitmaps, counts | get, set, erase, resize, iteration, file I/O | - | offsets by counting bits, partial groups, broken files | it is an array with holes |
| **CRanges, CMappedArray** (`SDK/SharedUtil.Misc.h*`) | map of ranges; vector and counting map | set, unset, query; push, pop, erase, remove | - | cutting and joining of ranges; two views of one content | the two agree with what was asked |
| **CThreadResultValue, clock, timers** (`SDK/SharedUtil.Time.hpp`) | double ring of values; 32-bit and 64-bit counts | set, get; count, add, reset | threads | torn reads; wrap, clock set back | a value that was current; time that passed |
| **CBufferReadStream, CBufferWriteStream** (`SDK/SharedUtil.Buffer.h`) | bytes, position | read and write of strings, buffers, numbers | network | length markers, short data | what is read was written |
| **CVehicleColor** (`SDK/SharedUtil.Game.hpp`) | two arrays, two flags | get and set in both representations | - | which array is stale | one of them is right |
| **MemAccess** (`SDK/SharedUtil.MemAccess.hpp`) | page protections, handle | open, write, close | game code | ranges over several pages | no fault; no page left open |
| **SString, UTF-8** (`SDK/SString.h*`, `UTF8.h`, `UTF8Detect.cpp`) | - | splitting, replacing, trimming, formatting; conversion, detection | - | positions at the end, overlaps, overlong forms | exact results |
| mimhotkey, bind, mimtoasts, imgui_notf, samp.events, lanes, IniFiles, ReloadAll, SF Integration, wrappers (requests, socket, ssl, RakLua, effil, mimgui), data and vendored code | - | - | - | - | not modelled, see section 9 |

## 2. Structure

| Modules | Model | Composition and abstract specification |
|---|---|---|
| `SnetProtocol`, `SnetClient`, `SnetServer`, `Snet` | SNET | `Snet` composes clients, server and network; it implements `SnetMessenger` |
| `ByteStream` | SNET's `bstream`, `bcoder` | reads back what was written, proved |
| `CopasSleeping`, `Copas` | copas | `CopasSleeping` is the list of sleepers as operators |
| `CopasLimit` | copas.limit | over `CopasSleeping` and a dispatcher |
| `DenseHashTable`, `DenseHashIteration` | dense hash table, loops that erase | implements `HashSet`, proved |
| `SparseTable`, `SparseTableFile` | sparse table and its files | implements `SparseArray` |
| `Ranges`, `MappedContainer`, `ThreadResultValue`, `TickCount`, `BufferStream`, `VehicleColor`, `MemAccess`, `SStrings`, `Utf8` | the SDK classes of the inventory | - |
| `FileSystemOperations` | the plugin and the Win32 calls it makes (external) | - |
| `Rkeys`, `MimguiHotkeys`, `Hooks`, `AutoReboot`, `Ltn12` | the components of these names | - |
| `MCSnet`, `MCSnetLoop`, `MCCopas`, `MCContainers`, `MCUtilities`, `MCPlugins`, `MCScripts` | instances for TLC | see below |
| `SnetProofs`, `CopasSleepingProofs`, `CopasProofs`, `CopasLimitProofs`, `DenseHashProofs`, `SharedUtilProofs`, `ContainerProofs`, `ScriptsProofs` | theorems | section 8 |

Components that share no state are checked side by side in one run. Their MC
module instantiates several component modules, often more than once with
different constants, over the union of their variables. The variable `part` is
chosen in the initial state and says which of the instances takes all the steps
of the behaviour; what belongs to the others keeps its initial value. So one
run explores each instance exactly as a run of its own would, and its
properties are those of the component modules, guarded by `part` where the
instance must be the one that runs. Several properties of one component are
joined into one named property in the MC module; the parts have their names and
comments in the component module, beside the code's translation.

A module's type invariant, where it has one, is a conjunct of one of the joined
properties.

Operators whose comment begins with "Mutant:" are plausible errors in the
definition that follows them. None is used by a specification: replacing the
definition by its mutant makes the property named in `PROJECT.json` fail, which
shows that the property depends on that line of the code.

## 3. SNET

### How the modules correspond to the code

`SnetProtocol` has what `client.lua` and `server.lua` contain twice: ids,
window, queue, resending, confirmations. `SnetClient` and `SnetServer` have one
action per operation; `process()` is one action split by what is received:

| Code | Action |
|---|---|
| `client:send`, `server:send` | `ClientSend`, `ServerSend` |
| `process()` with nothing to receive, or not an SNET datagram | `ClientPoll`, `ServerPoll` |
| `process()`, id in `last_ids` | `ClientDuplicate`, `ServerDuplicate` |
| `process()`, new id | `ClientFresh`, `ServerFresh` |
| `process()`, sender blacklisted | `ServerRefuse` |
| `block_address`, `unblock_address` | `BlockAddress`, `UnblockAddress` |
| `os.time()` advances | `ClientTick`, `ServerTick` (each machine has its clock) |
| program ends, server program restarts | `ClientStop`, `ServerRestart` |
| UDP loses a datagram | `Lose` |

Each `process()` action ends with what the code does last: the server forgets
silent clients (`ServerHousekeeping`), then every due packet is resent.
The order inside a receive is that of the code: blacklist, confirmation,
duplicate check, window, client table and events, removal of the confirmed
packet.

Abstractions:

* A datagram is its header, the kind of its packet id (`data`, `confirm`,
  `block`) and the id a confirmation names. Payload bytes are left out here, with
  the NUL that `send_packet` appends and `receive_packet` leaves in the payload;
  `ByteStream` (section 6) is about them.
* `packets` is a set: entries have different ids, and nothing depends on their
  order, since the network reorders anyway.
* Instead of `last_time` a packet has `due`: the clock moved since it was sent.
  `clients[k]` becomes an age, capped at the timeout beyond which it is not told
  apart; `blacklist[i][2]` becomes the seconds left. The clock is read once per step.
* `times` stays 0 for SYSTEM packets, whose count the code never reads.
* Each peer makes one object: objects of one Lua state share `packets`,
  `last_ids`, `clients`, `blacklist` and `events` (the tables of the class), which
  is listed as a hazard and not modelled.
* Handlers that send or block are actions of their own right after the step; the
  header comments of `SnetClient` and `SnetServer` say why that is the same.
* `life` counts restarts of the server in messages. It is not on the wire and no
  action reads it; it lets properties tell two messages with one id apart.
* `handled`, `acked`, `sSession`, `sLog`, `cLog` are histories no action reads.

### Bounds

| Constant | Code | Runs | Why enough |
|---|---|---|---|
| `Window` | 10 | 1, 2 | with `MaxId` above it ids are evicted and come back |
| `IdSpace` | 4294967295 | 3, 4 | in the part `wraps` of `snet_loop` ids wrap, elsewhere they do not (`NoWrap`) |
| `MaxId` | - | 2, 3, 4 | BOUND on ids taken. What an end would send beyond it counts as lost, so receiving never blocks |
| `HighTries`, `MediumTries`, `LowTries` | 20, 10, 5 | 1, 2 | a packet is resent and given up |
| `Timeout`, `BlockQuiet` | 60, 60 | 1 | one tick suffices for a timeout between any two steps |
| `History` | - | 1-4 | BOUND on the ids `cLog`, `sLog` keep; above `Window` where the duplicate check is the question |
| `MaxRestarts` | - | 0, 1 | BOUND; one restart shows both lives of the server |
| `FreeId` | - | - | BOUND: an id is not reused while its packet is queued (2^32 sends in the code) |
| `Duplication` | - | TRUE for safety | any datagram ever sent may arrive any number of times or never, which contains every loss, delay and reordering |

### Runs

* `snet_dedup`: `NoNearDuplicate`, no message is handled twice while its id is
  in the window, and `SessionsAgree`, the table of clients, the windows and what
  the application was told agree, after any loss, duplication, reordering,
  timeout and reconnect.
* `snet_acks`: `AcksSound`, a packet taken out of a queue as confirmed was handled by the other
  end: a client's across a server restart (`ClientAcksSound`), the server's in its first life
  (`ServerAcksSound`).
  `TypeOK` is the type invariant of `Snet`.
* `snet_messenger`: `Snet` implements `SnetMessenger`, a bag of pending messages
  that are handled, acknowledged or given up.
* `snet_loop`: four instances. In `server` and `client` the programs call
  `process()` for ever: `PacketsLeave` (limited packets leave the queues, SYSTEM
  packets for a client that ended do too) and `ClientsForgotten` (ended and
  blocked clients leave the table). In `wraps` ids wrap around and in `both` two
  clients share an address: `StaysSafe`.
* `snet_fair_network`: a connected client's SYSTEM packets are handled.
* `snet_timeout_comment` (violation): `examples/lua/server.lua:7` says that after
  the timeout the server stops resending. It stops only SYSTEM packets, after one more
  resend; HIGH, MEDIUM and LOW packets use up their tries.

What does *not* hold, and why the properties are as they are: a message may be handled twice
once its id has left the window, or after a timeout cleared the window; a
server that was restarted reuses ids its clients remember, so they confirm its
first packets and drop them (`ServerAcksSound` is stated for `sLife = 0`); a
client never returns to disconnected, so its SYSTEM packets to a dead server are
resent forever (no liveness property for them but `SystemPacketsHandled`).

### Fairness

`LoopFairness`: programs call `process()` in an endless loop while they run (both
examples do) and clocks advance, hence weak fairness of each end's `process()`
and tick. Nothing is assumed of sends, blocks, stops, restarts or losses.
`FairNetworkSpec` adds strong fairness of the server's receiving a given
message: of infinitely many copies one arrives. The liveness runs use a network
without duplication, in which a datagram in flight is received at most once.


## 4. copas and copas.limit

`Copas` models `L/copas.lua` coroutine by coroutine. A thread runs until it
waits for a socket, sleeps or ends; `copas.addthread` resumes the new thread at
once, so resumes nest and `stack` is the stack of `_doTick`. One turn of
`copas.step` is: resume one sleeper whose time has come (`_sleeping_t.tick`),
`select` with the time `getnext` leaves, then one resume for each event in the
order in which the code goes through them, ready sockets and elapsed timers.
Which sockets are ready is chosen freely; the code's own bookkeeping (the sets
`_reading` and `_writing`, their FIFO queues, the two timer logs) is as in the
source. Times are kept as what is left of them. `CopasSleeping` has `push`, `pop`,
`getnext` and `wakeup` of `_sleeping` as operators; `CopasLimit` uses the same
ones, with a dispatcher reduced to sleepers, since tasks and drivers of
`copas/limit.lua` meet there only.

The run `copas` has three instances: `plain` (a server, a client, two threads
with a timeout, naps of 1 and without end, wake-ups; the loop has a timeout),
`ssl` (LuaSec's `wantread` and `wantwrite`, timeouts 0 and 2) and `sleep` (three
threads that only sleep, for no time, for 2 and for ever; a loop without a
timeout). `MCCopas` extends `Copas`: the constants of the configuration are those of
`plain`; `ssl` and `sleep` are instances of it. `NobodyLost`, `TimerWatched` and
`ClosedAtEnd` are those of `Copas`, for the first two; `WaitsEnd` joins the liveness of all
three with `NobodyLost` of the third. TLC has checked the inductive invariant `CopasInv` of
`CopasProofs` on the first two instances and on one with three threads and two clients
(1.4 million states). Two handlers and one client are enough
for two threads to wait on the two directions of one socket, for nested resumes, for a
timer that outlives its wait and for a client that comes back after it was
closed; `MaxNesting` bounds resumes in one another.

The run `limit` has four tasks, one that may be removed (queued, running, twice, by
itself), a driver that adds, removes and waits, and `maxt = 2`: the queue holds
tasks while two run. `RunnerConsistent` joins the invariants, `TasksEnd` says
that tasks run to their end and that `wait` returns. TLC has checked the inductive invariant
`LimitInv` of `CopasLimitProofs` on the same instance.

Fairness of `Copas`: the loop is never left, so `Dispatch` and the attempts on
sockets are weakly fair; a thread that runs in the end leaves the processor for
good (sleeps or ends), which is strong fairness of `Leaves`, since copas has no
preemption and a program whose thread never yields stops everything. Nothing is
assumed of sockets. Of `CopasLimit`: weak fairness of the dispatcher, and strong
fairness of each task's `Finish` and each driver's `Exit`, which excludes threads
that nap again and again for ever.

The properties hold for programs in which no thread reads a socket another one is
reading (`Shared` is FALSE), and waits end when the loop has a timeout; section 7
lists what happens otherwise.

## 5. Containers and utilities of the SDK

### Run `containers`

| Part | Instance | Why enough |
|---|---|---|
| dense | 4 keys, two with one hash, two deleted keys, tables of 4 to 64 buckets | probing wraps, marks are reused and squashed, tables grow and shrink, the deleted key changes while marks are stored |
| loops over it | every such table, loops that erase as they go | erases of visited, current and coming keys, insertions between loops |
| sparse | groups of 3, up to 7 indices, bitmap elements of 1 bit | three groups, the last one partial; resizing to boundaries and inside a group |
| ranges | a number space of 7 | holes inside, at both ends of and across ranges |
| mapped | 3 items, up to 5 places | an item several times, removal of one and of all |

`DenseHashTable` keeps the buckets themselves, so `KeysFound` in `TableSound` is about probe
sequences: at least half of the buckets are empty (marks count as used), so a
probe ends, and a stored key is where its probe gets. `ImplementsSet` is
refinement of `HashSet` (a set, a deleted key, an answer) and `ImplementsArray`
refinement of `SparseArray`; both refinement mappings are at the end of their modules.
`MaxDoublings` bounds the size of a table, and with it the number of entries by
`MaxItems`, one less than half of the largest table: insertions that could need a larger
table are not made. `MCContainers` extends the modules of the dense table with its loops, the sparse table, the
ranges and the mapped array, so that what is checked here and what section 8 proves are the same definitions;
the sparse table with a file has other bounds and is a part of the run `plugins`. `SparseExact` says that counts, packed values and bitmaps agree
(`CountsAgree`) and that iterators meet what is assigned (`IterationExact`).

### Run `utilities`

| Part | Instance |
|---|---|
| value | one writer, one reader, a ring of 4, values of two words; one action per access to shared memory |
| clock | a counter of 8 values instead of 2^32, calls 1, 3 or 5 apart, the wall clock put back, one timer |
| stream | two values of a byte instead of 256, buffers of three items, cut anywhere |
| color | two slots, colours 0 to 4, a palette with ties |
| memory | eight pages of three blocks, two blocks written often |
| string, endings | strings of up to six letters; a dot, a letter in two cases; CR and LF |
| bmp, ucs4 | up to three characters and four bytes at the boundaries of the encoding, wchar_t of 16 and of 32 bits |

Widths are scaled with what depends on them: a byte of two values makes the
two-byte length run over at 3, so a buffer of three bytes has the long form; the
counter of 8 wraps within a run; `MAX_DELTA` stands for 600 seconds. The pure
functions (`SStrings`, `Utf8`) are compared, for every input up to the bound, with
what they should return: parts that join to the string, each occurrence replaced
once from the left, decoding that undoes encoding and takes no other form of a
character, a detector that agrees with the decoder.

`ValueCurrent`, `ClockExact`, `ColorsKept`, `CodeProtected` and `ReadsBack` are the definitions of their modules, which
`MCUtilities` extends. `ValueCurrent` assumes that at most `MaxLead` = 3 values are
begun by the writer during one `GetValue`, with a ring of four; the code has no protection against a writer that goes
round (section 7). `ReadsEnd` rests on weak fairness of the writer's and the
reader's steps: the threads run. `TextExact` joins strings and UTF-8.

The run does not check for deadlock: some instances stop by themselves, as a
stream that was read to its end does.

## 6. Plugins and scripts

### Run `plugins`

`FileSystemOperations` has one action per Win32 call that matters and the
recursion of `DeleteDir` and `CopyDir` as `levels`, one for each call under way, innermost last; its first
part says what the Win32 calls do to a tree (external). `InitialTrees` maps the trees to begin with to how often other
programs may create, delete and open files between any two calls. One tree has a read-only file and a
nested directory, which are deleted, moved and copied, into each other too, and is left alone; the other one is smaller,
and is changed twice meanwhile. `TreesExact` is safety, `OpcodesEnd` rests on weak fairness of the plugin's steps
(`Work`): an opcode runs until it returns. `MaxPath` is the longest path Windows accepts, here 4 names,
and is what ends a copy of a directory into itself. Two things are simpler than with Windows. Only files have the
read-only attribute: `DeleteDir` clears it of files alone (`FileSystemOperations.cpp:65-67`), so a read-only
directory is one that `RemoveDirectory` refuses. And a path that is too long is a call that fails, while the
code first prints the path into a `char[MAX_PATH]` (58, 201-202), which that path no longer fits into.

The second part, `table file`, is not about plugins: it is the sparse table of section 5 with a file (`SparseTableFile`),
which `MCPlugins` extends. Its groups have 2 indices, the table up to 3 and two values, so that the last of two groups is
partial; writing may stop anywhere, the file may lose its end or turn out to be another one, and every such
file is read into every table.

### Run `scripts`

| Part | Instance | Assumed of the program |
|---|---|---|
| keys | a key, a mouse button, a Ctrl key, two hotkeys for the key alone, with Ctrl, and with the button in both orders, all types, blocking; the focus may be lost | one of the two Ctrl keys is used |
| dialogue | two hotkeys, two special keys, one plain key; the focus may be lost | while a hotkey is edited no button is clicked, and the program leaves that hotkey alone |
| careless dialogue | the same with one special key | only that each call gets a table of its own, with at most one key for a hotkey made for one |
| hooks | a function, a call and a vmt slot, one hook each, stop and start | stop and start between calls |
| chain | up to three hooks on a function and on a call | no trampoline on top of a hook; hooks that share a place stay on |
| reboot | two scripts, three writings at any moment | nothing is written before `init` |
| filters | one to three filters, doubling, holding back, giving piecewise; source and sink, which may fail at any call | the contract of filters in `ltn12.lua` |
| bytes | three values of a byte, three items | - |

`Rkeys` and `MimguiHotkeys` contain the keyboard and the focus: a key goes down and up, the
window gets a message for it or, without the focus, none. So "no stuck key" is about
the real key and not about messages. `rkeys` empties its list when the focus goes; `mimgui_hotkeys` does not,
so there the keys that went up behind another window are the ghost `lost`, until they come down again or the
list is emptied: no other key may be stuck. `Ltn12` has the pump around the chain: a source may
answer any call with an error, and a sink refuse any chunk, also the end. `Hooks` runs calls of the game through the
hooked places; hooks are stopped and started, and the script ends, between
such calls. A callback may call the original or not, on each visit anew. `AutoReboot` has an editor, other scripts and the
user beside the polling loop, one action per step of it.

Fairness: `Reloaded` needs weak fairness of AutoReboot's step (its loop waits half
a second and goes on for ever) and `OutputExact` weak fairness of the filter
loops; the others are safety. The run does not check for deadlock: after the
script that owns the hooks has ended, after the pump has returned, and after a stream was read to its end,
nothing is left to do.

## 7. What the checks show

### Runs

| Run | Distinct states | Shows |
|---|---|---|
| `snet_dedup` | 410232 | no message is handled twice while its id is near; tables agree |
| `snet_acks` | 443212 | what is confirmed was handled, also across a restart |
| `snet_messenger` | 10742 | SNET implements the abstract messenger |
| `snet_loop` | 32148 | packets leave the queues, silent clients are forgotten; ids wrap, an address is shared |
| `snet_fair_network` | 33858 | SYSTEM packets get through |
| `snet_timeout_comment` | - | violation: the server resends after the timeout |
| `copas` | 62546 | nobody is lost, timers are watched, waits end |
| `limit` | 8408 | the runner is consistent, tasks end |
| `containers` | 50990 | containers are what they count; refinement of set and array |
| `utilities` | 807984 | values between threads, clock, streams, colours, page protections, strings, UTF-8 |
| `plugins` | 308263 | directory trees exact, opcodes end; what is read of a sparse table is what was written |
| `scripts` | 687916 | hotkeys fire and no key is stuck, dialogues, hooks, reloading, filters and their pump, byte streams |

Runs that explore several instances count the states of all of them. Every bound
is a constant with the word "bound" in its comment, or is named above.

### Where the code differs from what it says

The violation run shows one divergence as a counterexample. The following were met while
modelling. Each is excluded by a guard or a constant that is named here, and the
properties are claimed for the rest.

*SNET.* After a server restart ids start at 0 again and clients drop the first new packets
as duplicates, confirming them (`client.lua:42`): confirmations to the server are claimed
sound in its first life, and the messenger is implemented without restarts.

*copas.* With two threads reading one socket, `tick` (`copas.lua:679-706`) takes the
socket out of the set and resumes one; the other stays in a queue nobody looks at, against
"adds a FIFO queue for each value in the set" (76) (`Shared` = FALSE). `_doTick` (566) closes the socket
of the last resume; a handler that slept last leaves its client open, against 68
(`ClosedAtEnd` speaks of handlers that never slept). Without a sleeper and without a timeout
of the loop `select` blocks (781-787) and timeouts of sockets are not looked at, against
742-744 (`LoopTimeout`). `wakeup` (165-181) puts a sleeper that is due behind the others, and
one that is woken up again and again never runs, against 718 (`WakeTimed` is FALSE in the
liveness instance of sleepers).

*copas.limit.* `removethread` (`limit.lua:36-52`) frees the place of a running task that goes on, so
more than `maxt` tasks can run, against 3-4 (`AtMostMaxt` counts tasks that are not removed). `wait` (79) may
return when a task added after the wake-up is running, against 73.

*rkeys.* `unRegister` by keys collects positions first and removes in ascending order
(`rkeys.lua:328-330`), so later removals hit other hotkeys, and `compareKeys` (358-367) takes a
beginning for equal. Type 3 fires at the release of any key (187-193; 37 says the last). After
`WM_KILLFOCUS` (215-217) a hotkey that was active swallows the first press (35), and so does
one whose keys are changed while it is active: `FiresOnPress` is claimed of ids that are not `stale`.
A hotkey without a modifier does not fire while one is down (173), which 35 does not say: of those `FiresOnPress`
is claimed when none is; hotkeys with a modifier must fire whatever else is down. `isBlock` (182) consumes every key-down message while the hotkey is active
(38 says the last key's). With both Ctrl keys down the release of one takes `VK_CONTROL` out
of the list (194-204; 30), so the instances have one and the theorems assume it (`OneOfEachModifier`).

*mimgui_hotkeys.* The handler does not look at `WM_KILLFOCUS` (`mimgui_hotkeys.lua:168-236`): of Alt and Tab
the press of Alt arrives (message 260) and its release does not, so Alt stays in `ActiveKeys`, the plain key
pressed next fires its hotkey with Alt, and a dialogue takes Alt into the new keys, until Alt is pressed and
released once more or a dialogue begins: `NoStuckKey` and `FiresWhileDown` except the keys in `lost`, and only those.
A hotkey that the program sets (108-119) or registers again, or that is clicked, while it is edited can get a
key twice or keep special keys alone; `TypeOK`, `SoloHasOneKey`, `OnePlainKey` and `Restores` are claimed for
programs that do not (`Careless`). One that is removed while it is edited makes the next key that
the dialogue takes an error (191, 194, 207, 217).

*hooks.* A hook with a trampoline on another hook copies the older jump to another address without
adjusting it (`hooks.lua:79-82`; the warning at 114 calls the old hook disabled): `TrampolineOnTop`. At the end
hooks are stopped in the order they were made (156-160), so with two on one place the older's
jump stays, against 153: `HooksDeleted` is claimed for one hook at a place. To stop or start the
older of two puts its own bytes over the newer's jump (104-111): `~(Shared /\ MayStop)`. That a place
with a call instruction or a slot carries hooks of that one kind (`OneSort`) is what 123 looks for and 42 takes for granted.

*AutoReboot.* Scripts loaded after `init` (`AutoReboot.lua:60-70`) are not watched, against 5.

*FileSystemOperations.* Opcode 0B02 with a directory, or with a missing file, answers true without moving
(`FileSystemOperations.cpp:124-128`; 114). `CopyDir` of a missing source creates the target and succeeds (197; 228, 235).

*CRanges.* `GetRangeOverlappingPoint` (`SharedUtil.Misc.hpp:206-207`) says that a range found "can't overlap the
point"; one that begins at the last number of a hole does, and stays whole (`CallsSharingStart` = FALSE).
*CMappedArray.* `remove` with a reference to an element of its own list removes another item's occurrences
afterwards (`SharedUtil.Misc.h:373`); callers are taken to pass a copy.

*SharedUtil.Time.* A writer that comes round to the slot being read can make both copies mix
the same two values (`SharedUtil.Time.hpp:120`; 85): `MaxLead`. With fewer values set during a call than there are
slots the copies are always alike, so the comparison is never what saves a reader; with as many, it does not. Gaps are cut to 600 seconds (58-60), though 42 says
that gaps below 24 days are counted: `CountExact` is claimed for shorter ones.

*SharedUtil.Buffer.* `ReadString` does not look at the result of reading the length (`SharedUtil.Buffer.h:250`; 228)
and returns true and an empty string. With `bDoesLengthIncludeLengthOfLength` `WriteString` writes one or two
bytes more than the text has (370, 378): such strings are not among the items.

*CVehicleColor.* `SetRGBColors` compares with colours it has not validated (`SharedUtil.Game.hpp:72-76`), so setting
just the stale ones does nothing (155).

*SString.* `SubStr` adds position and count as `int` (`SString.hpp:423`) and throws for sums that overflow, against "Fault
tolerant" (414). `vFormat` cuts the last character of a text of exactly 220 (112). With one line
feed in the text `ConformLineEndings` removes lone carriage returns (384; 379).

*UTF8Detect.* A sequence cut off at the end of the input is not counted as invalid (`UTF8Detect.cpp:84-86`).

*sparsetable.* A file that ends behind the magic number leaves a table half read (`sparsetable:1385-1391`; 1381 clears
in the like case): `ReadIsWhole` is about readings that return true.

*MemAccess.* A write from a protected page into an unprotected one trips the assertion at
`SharedUtil.MemAccess.hpp:146`, and closing would protect both (`Mixed` = FALSE).

## 8. What is proved

TLAPS checks the following for every value of the constants that satisfies the named
assumptions.

### SNET

The assumptions are those of `SnetProtocol` and `SnetServer`: the server is no client;
tries, window and timeouts are positive; priorities are 0 to 4.

| Theorem | Module | Argument |
|---|---|---|
| `SnetTypeCorrect` | `SnetProofs` | `TypeOK` is inductive; one lemma per action |
| `SnetNoNearDuplicate` | `SnetProofs` | `NoNearDuplicate` alone is not inductive. `Watched` adds that the window holds the youngest ids of the log, as many as fit, in the same order; so an id that passes the duplicate check is not among the last `Window` of the log. Holds with wrap-around too |
| `SnetSessionsAgree` | `SnetProofs` | inductive with `TypeOK`: `Agree` holds of the tables that housekeeping is given, and clearing all three for the same clients keeps it |
| `SnetAcksSound` | `SnetProofs` | `AcksInv` speaks of `Sent`, all datagrams in flight or in a queue: a confirmation in it names a handled message, since the confirming end either handles the message in the same step or finds its id in its window, and windows hold ids of handled messages only. The server's queue is searched by id whoever confirms, so its ids must name one message each: true until they wrap or the server is restarted |
| `SnetImplementsMessenger` | `SnetProofs` | under `NoWrap` and `MaxRestarts = 0`; `MessengerInv` adds that a client's next id is new. `Waiting` is what the queues hold, and its messages are the messenger's `pending`. A fresh confirmation is an `Acknowledge` (or a `Handle` if its packet is gone), a send is a `Send` or, for BYPASS, a stutter, and everything else only gives up |

The invariants were model-checked on the instances of `snet_acks`, `snet_dedup` and
`snet_loop` before they were proved.

### Other components

| Theorem | Module | Assumes | Argument |
|---|---|---|---|
| `CopasNobodyLost`, `CopasTimerWatched`, `CopasClosedAtEnd` | `CopasProofs` | `CopasAssumption`: finitely many clients, apart from the server; times are naturals, `wantread` and `wantwrite` the only wants; no two threads use a socket the same way at once (`~Shared`) | see below |
| `LimitRunnerConsistent` | `CopasLimitProofs` | `LimitAssumption`: `maxt` is positive, tasks and drivers are apart, drivers are finitely many | the inductive invariant `LimitInv` has four parts: the queue holds different tasks that sleep without a time and do not run (`Fits`, with the list of sleepers well formed); where the code of a thread stands tells whether it may sleep (`Placed`); there is no queue while there is room; and who waits is among the sleepers. The last two are lost by `addthread`, `removethread` and the end of a task until `next` has run, so `Served` says what `next` leaves of a state in which only `Fits` holds. It wakes up tasks one by one: `WakeSeqIs` is an induction over that sequence |
| `DenseTableSound`, `DenseImplementsSet` | `DenseHashProofs` | `HashAssumption`: hashes are naturals; keys, marks of deleted entries and the empty key are apart; the default size is 4 doubled some times; calls keep to the largest table (`MaxItems`) | see below |
| `LoopVisitsEveryKey` | `DenseHashProofs` | the same | with the invariant of the table: the iterator is at the end or at a bucket with a key, and `pending` is what is stored from there on (`From`). An erase leaves a mark where the key was and moves nothing |
| `RangesStayExact` | `SharedUtilProofs` | `RangesAssumption`, no call with a hole that ends where a range begins (`~CallsSharingStart`) | the inductive invariant is that ranges are disjoint, not empty and cover `numbers` pointwise. One lemma for each step of the code on any map of that kind: the range that reaches over the start, found at one neighbour, is the only one; cutting it at both ends and erasing what lies between removes exactly the hole; `LastNumber` does not overflow within the calls |
| `CodeStaysProtected` | `SharedUtilProofs` | `MemAccessAssumption`, writes cover pages of one kind (`~Mixed`) | `AtRest(p)` is what page `p` should be between writes. While a handle is open exactly its pages differ, and the one protection it keeps is right for each of them; blocks still to be written are open. Needs integer division of blocks by pages (`PageBounds`, `PageMonotone`) and that a block outside the code is in no page of it |
| `ClockStaysExact` | `SharedUtilProofs` | `TickCountAssumption`: an even width, differences cut at half of it or less, steps back of a quarter of it or less | `uiWas` is the counter less some `d`, modulo `WRAP`, where `d` is how far the clock has moved since the last call, less what it was put back (`Drift`); so what a call adds is at most the time that went by, and just that while the clock is called often enough (`DeltaIs`, from uniqueness of remainders). `Lag`, what the count has lost, never shrinks, and a timer shows what went by less at most what was lost since its `Reset` (`TimerInv`) |
| `ColorsStayRight` | `SharedUtilProofs` | `TableAssumption`: a table of colours that is not empty | at most one of the two arrays is marked wrong, and the one that is not marked is what the slots were set to; a conversion of all slots keeps that |
| `ValueStaysCurrent` | `SharedUtilProofs` | `ResultValueAssumption`, fewer values set during a call than slots (`MaxLead < BUFFER_SIZE`), a count that grows (`Growing`) | the slot published last holds the last value, the next one what was written so far (`WriterInv`). A slot being copied is `Ahead` slots behind the last published one, which with a writer at work makes at most the calls that overlap (`CopyInv`), so the writer is never at it (`NotOverwritten`): both copies are the whole value, and it is one that was published during the call or was the last before it |
| `SparseAlwaysExact`, `SparseImplementsArray` | `ContainerProofs` | `SparseTableAssumption`: groups and bitmap elements are not empty, the default is a value | see below |
| `FileReadsWhole` | `ContainerProofs` | the same | see below |
| `MapAlwaysCounts` | `ContainerProofs` | `MappedAssumption` | the map is `CountsOf` the list: its domain is what occurs, and `Times(s, k, x)` counts `x` in the first `k` places. Taking out the item at any place, or putting one in, changes one count by one (`OftenInserted`, an induction over the places behind it); what `remove` keeps has no place left for the item and the counts of the others (`KeptIs`) |
| `HooksStayExact` | `ScriptsProofs` | `HooksAssumption`, no trampoline on a hook (`~TrampolineOnTop`), hooks that share a place stay on (`~(Shared /\ MayStop)`) | see below |
| `RebootStoredIsLoaded` | `ScriptsProofs` | - | `StoredIsLoaded` needs that all stored and seen times are at most the clock, so that a later writing has another time, and that what is about to be stored was loaded unless the file has changed since (`SeenLoaded`) |
| `StreamReadsBack` | `SharedUtilProofs` | `BufferAssumption`: a byte has two values or more; `ItemsFit`: texts and buffers are as long as their lengths can say, and no text counts the size of its length | see below |
| `BytesReadBack` | `ScriptsProofs` | `ByteStreamAssumption`: a byte has two values or more; types have at least one byte, `bool` one, and `bool` and strings have no sign | see below |
| `TreesAreExact` | `ScriptsProofs` | `FileSystemAssumption`: arguments are paths, and every path of an initial tree is at the top or in a directory of it | see below |
| `KeysStayHeld`, `HotKeysFireOnce` | `ScriptsProofs` | `RkeysAssumption`: the kinds of keys differ, combinations are made of them; `OneOfEachModifier`: not both the left and the right key of a modifier | see below |

The dense table's invariant `DenseInv` says that for some number of buckets `n` the table is
`Healthy`: `n` is a size, the two counters count the used and the marked buckets, at most half of the buckets are in
use, and every key is where a search for it arrives (`Layout`, `Arrives`: the
probes before it meet neither the key nor an empty bucket). The argument:

1. The first `n` probes of a search visit every bucket (`ProbesCover`). Two of them, `i < j`, meet only if
   `2n` divides `(j - i)(j + i + 1)`; one factor is odd, and what an odd factor
   multiplies to a multiple of a power of two is one itself (`OddFree`), but both
   factors are smaller than `2n`. So `n` probes differ, and there are `n` buckets.
2. Since a bucket is empty, each search ends, and where it ends tells whether the key is
   stored (`FindPositionIs`).
3. Putting a key into the first marked or empty bucket of its search keeps `Layout`
   (`PutIs`): it fills a gap no other search ended at before its key. A mark over a key keeps it too (`MarkIs`).
4. A copy is built bucket by bucket (`CopyStep`); what it has taken so far is a table of the
   new size that holds the keys met so far. `ShrinkIs`, `GrowIs` and `RemarkIs` put rebuilt tables together.
5. Each operation changes the keys held as the operation of `HashSet` does, and answers like it (`NextTells`).

The sparse table's invariant `SparseInv` says that every group is `GoodGroup` (as many packed values as bits, and it
counts them), that no bit is set behind the size, and that the table counts its assigned indices. The argument:

1. The place of a value in its group is the number of bits below its index (`Rank`), although the code adds
   up whole elements of the bitmap and then a part of one (`PlaceIs`: `RankOver` splits a rank at an element's border).
2. Setting a bit moves the ranks above it by one (`RankAdded`), as the insertion moves the packed values
   (`SetIs`), and erasing undoes it (`EraseIs`): each other index keeps its value.
3. An index is one row and one column (`OnePlace`), so changing a group changes one index of the table (`PutIs`)
   and the table's count by what the group's count changes.
4. `resize` to fewer indices drops groups and erases what is left behind the size one index after the other
   (`ErasedIs`, an induction along the code's loop); the new count is the sum over the groups (`SumCounts`).
   Growing adds empty groups: no bit comes back, since none was set behind the size.
5. Each operation changes `Contents` as the operation of `SparseArray` does.
6. An iterator at row `q` and column `c` `Denotes` the assigned index that has `Before(q) + c` others before it.
   `advance_past_end` skips the rows that add nothing to `Before` (`AdvanceIs`), so an increment adds
   one to that number and a decrement takes one away; the walk of `IterationExact` follows by induction.

For its files, `FileInv` says that unless the last operation failed the table is right, and that a file of its own is the
beginning of what is written of some table that is right (`FileOf`), of the one written last if it is whole:

1. `Metadata` and `Data` put the groups one behind the other; where each part lies follows by induction (`JoinsAre`).
   The values of group `k` lie behind as many as are assigned in the rows before it (`Upto`).
2. Cutting the file leaves a beginning that is no longer whole (`ShorterFile`).
3. Reading returns true only if the file is as long as its own header says. Then the groups get the bitmaps and counts of
   that table (`HeadersRead`), whatever they were, and each value is read from where it was written (`ReadBack`).

The dispatcher's invariant `CopasInv` puts what three properties need into one induction, for
any number of threads and clients and any nesting of resumes:

1. `Stacked`: the running threads are those on the stack of resumes, each once. So a thread that
   ends or yields is nowhere else on it.
2. `Asleep`: who is suspended outside a call is in the list of sleepers or lethargic, and nobody
   else is. That `push`, `pop` and `wakeup` keep the two lists of `_sleeping` parallel, sorted and without
   repetition (`Sound`) is proved in `CopasSleepingProofs`, for `copas.limit` as well.
3. `Standing`, for reading and for writing: a queue is empty or holds the one thread that waits
   for this socket in this direction, and then the socket is in the set. `tick` takes the socket
   out of the set and resumes the first in its queue; only because there is no second one does nobody
   remain in a queue that `select` no longer looks at. So `Standing` needs
4. `Apart`: two calls on one socket go different ways and, without LuaSec, wait in different
   queues. It is where `~Shared` is used; without it the theorem is false (section 7, `copas.lua:684`).
5. `Watched`: the timer of a waiting call is in the log of its direction with what it has
   left, or its event is among `evs`. A resume that comes back to the same queue logs the time anew.
6. `Handling`: a handler that has never slept was resumed with its own client and waits for no
   other socket, so that the socket `_doTick` closes at its end is this one.
7. `Phased`: events are left only while they are handled, and nobody is on the stack when the loop has ended.

Each action is one change of one thread (`Becomes`), one of the queues, the sleepers or the stack, and
a lemma for each pair says which part of the invariant it keeps.

The invariant of the hooks, `HooksInv`, is about any number of hooks and any depth of calls, and so must
say what a place holds while callbacks have hooks taken out:

1. `Remembers`: what a hook replaced is the hook before it at its place, or the game's own content.
2. `Held`: a place holds the newest of its hooks that are on and not taken out by a call under way (`Out`).
3. `FrameInv`: while the callback of a hook without a trampoline runs, just the newer hooks of its place, and
   not its own, are taken out by the calls up to it (`Suspended`). So when it takes its own out, what it
   remembers is the newest that is left (`NewestBelow`), and when it returns and puts it back, it is
   the newest again. Neither holds if some of the hooks at a place could be off.
4. `Passed`: a call that goes down by way of callbacks has passed all hooks from the newest to the one it is in.

TLC checked `HooksInv` as an invariant of both instances of `scripts` before it was proved.

The invariant of SNET's byte streams, `BytesInv`, gives every value written its place in the stream:

1. `Laid(at, items, bytes)`: item `k` of those written lies from `at[k]` on, just up to `at[k + 1]`, the
   first at 1 and the last up to the end, where the writer stands. Appending keeps what lies there (`LaidNext`).
2. `Reads`: the reader stands at `at[k + 1]` after `k` results, so what it takes out are the bytes of the next value;
   behind the last one it takes nothing, and `NothingIsZero`.
3. `RoundTrip`: a value of a type comes back from its bytes. The partial sums of the bytes' weights are the
   remainders of the value (`BytesCount`, an induction along the bytes); all bytes give its remainder by the
   number of values of the type, and that is the value, or exceeds a negative one by that number.

The invariant of the SDK's buffer streams, `StreamInv`, is about what is left to read, in either byte order:

1. `LaidOut(at, is, bs, net)`: item `k` of those not yet read stands behind place `at[k]`, its length before its
   data (`Code`), as far as there are bytes. Writing adds bytes behind (`LaidOutNext`), reading drops the first place
   (`LaidOutTail`), and cutting off the tail keeps it, since it claims nothing of bytes that are gone.
2. The reader `Stands` before the next item, and while the buffer is whole the last place is its end. Or the
   buffer was cut, and either a read has failed, or at most one byte is left: for `ReadString` succeeds with an
   empty text when its length is missing, and reading may go on from there.
3. `ItemRead` says for each type that an item that is all there is read as written, and one that is not gives
   nothing; the long form of a length, behind the marker 65535, is never taken for the short one (`BufferItem`).
   From one byte no reader makes anything (`LostRead`), so what follows a missing length is not misread.
4. A number comes back from its bytes (`NumberBack`, from uniqueness of remainders), also reversed (`PutNumber`).

Positions are `int` in the code and numbers in the model: the theorem is about buffers below 2 GB.

The invariant of hotkeys, `KeysInv`, has three parts:

1. `Listing`: the list of pressed keys has each key once and holds the keys the window saw going down, with their
   modifiers (`Shown`). `PressedListed` is that statement; it is what makes `removeKey` take out the right entry, as with
   a key that is not listed `table.remove` takes the last one. It is why each modifier needs to be one key:
   otherwise two keys share the entry of the modifier.
2. `Registry`: different hotkeys have different ids, up to the last one given. `KeysHeld` alone is not inductive: ids
   stay active when a hotkey is unregistered, also by position when the wrong one goes, and must not become those of
   another one. Removing positions, right or wrong, only leaves fewer hotkeys (`RemovedAre`).
3. `Acting`: what fired and is held since is active and of type 1, so `Fires` refuses it; what is active and not `stale`
   has its keys in the list. The last key of a combination in the list is listed (`LastKeyListed`), so it cannot be
   pressed while its hotkey is active. So a hotkey whose last key is pressed has not fired, and `Fires` lets it,
   with a modifier among its keys or with none down: `FiresOnPress` excludes what `Fires` does on purpose and
   hotkeys that are `stale`, nothing else.

The invariant of recursive deletion and copying, `TreesInv`, is about trees of any depth:

1. `TreesBase`, whatever others do: `Chain` says that each level works on an entry the one before it has seen, one name
   deeper, and at the corresponding place of the new directory; so all of them are inside the directory of the call,
   and no step changes anything outside the new one (`WorkOutside`). Every level has its search open, the innermost one only
   between FindFirstFile and FindClose (`Counted`), so no search is left when the first one returns.
2. `Deleting`, if nobody else changes anything: what is still in the directory of a level is listed and was not yet
   returned, or is the entry it is busy with. When the search ends there is nothing left, and RemoveDirectory succeeds;
   only a file that is held open stops the deletion (`DelEnds`).
3. `Nesting`: a copy of a directory into itself does not succeed. The entry that leads to the new directory is there
   when the directory is listed, and must be gone down into, at this level and at every deeper one, until
   CreateDirectory fails. That is why `CopyIsExact` needs no assumption on the two paths.
4. `Copying`, for any other copy: the tree is the old one and copies at corresponding places (`Copies`), and what a level
   was given has its copy except the entry it is busy with. At the end all of the tree has one, and by `Onto`,
   which takes a path from under one directory to under the other and back, nothing has two origins.

The trees stay trees under every Win32 call, MoveFile with a whole directory included (`TreeMoved`, `MovedTree`).

TLC checks the same properties on small instances in `copas`, `limit`, `containers`, `utilities`, `plugins` and `scripts`;
`StoredIsLoaded` is a part of `Reloaded` in `scripts`.

### Only model-checked

* Liveness (`PacketsLeave`, `ClientsForgotten`, `SystemPacketsHandled`, `WaitsEnd`, `TasksEnd`,
  `OpcodesEnd`, `ReadsEnd`, the last parts of `Reloaded` and `OutputExact`): it rests on fairness, which
  is out of the prover's reach.
* What recursive definitions compute on strings (`SStrings`, `Utf8`) and with folds. The induction
  theorems of the library take an operator as parameter, which the installed provers cannot
  instantiate; where a definition is a recursive function over an interval, the lemma `NatInd`
  (a set of numbers with 0 that is closed under successor holds every number) takes their place.
* The other properties, on the bounds above.

## 9. Not modelled

* **SNET**: several objects made in one Lua state (they share the tables of the class), handlers
  that raise errors, and errors of sockets the code ignores.
* **copas**: UDP (`receivefrom`, `sendto`), `receivePartial`, `dohandshake`, `removeserver` with
  `keep_open`, the object wrappers and error handlers. UDP servers take the same path without accepting.
* **rkeys**: mouse wheel, double clicks, `onHotKey`, and callbacks that change the hotkeys while the
  handler goes through them.
* **ltn12**: sources and sinks that wrap a file, a table or a string.
* **IntOperations**: each of the fourteen opcodes is one C operator on the arguments, and a model would repeat the
  operators. The two forms of an operation differ for MOD and SHR of negative numbers: the first computes with `int`,
  the second on a `DWORD` (`IntOperations.cpp:95`, `109`; `187`, `199`).
* **sparse table**: iteration over all buckets, the destructive iterator, values that are no plain data,
  and `sparsehashtable.h`, which probes like the dense table. **dense table**: `set_resizing_parameters`.
* **strings**: `WString.hpp` (the same code over `wchar_t`) and operators handed through to `std::string`.
* **mimhotkey, bind**: older dialogues of the kind of `mimgui_hotkeys`, with drawing and input in one
  function. **mimtoasts, imgui_notf**: drawing. **samp.events**: a table of formats without state between
  packets. **IniFiles**: one or two Win32 calls per opcode. **ReloadAll, SF Integration**: no state.
* **lanes, requests, socket, ssl, RakLua, effil, mimgui**: the Lua side of C libraries whose source is not here.
* Headers of Windows, Direct3D and the SDKs (almost all C lines of the repository), generated
  tables, fonts, data and third-party libraries: declarations without behaviour. This is why the
  modelled lines are a small share of all lines.
