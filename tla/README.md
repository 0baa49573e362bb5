# SnowRunner tools menu: a TLA+ model

The program puts back SnowRunner's own developer menu. A Windows tray
application (`src/src/app`) injects a module (`src/src/dll`) into the running
game. The module scans the game's image for the functions it needs
(`src/src/scanner`), patches 14 bytes of a function the game runs every frame,
and from there turns the menu on and off on the game's own thread. When the tool
closes, everything has to be undone while the game goes on running: the menu
off, the bytes back, the module unmapped, and no thread left that would execute
one more instruction of it.

Paths below are relative to the repository's root (so `src/dll/module.cpp` is
the file in its directory `src/`).

## 1. Inventory

### Components, their state and their operations

| Component | Source | State | Operations |
|---|---|---|---|
| Frame hook | `src/dll/frame_hook.cpp`, `detour.asm` | the bytes of the site, `g_patched`, `g_site`, `g_stolen`, `g_trampoline`, `g_trampoline_pages`, `g_active_detours`, the suspended threads | `InstallFrameHook`, `RemoveFrameHook`, `WaitForModuleQuiescence`, `RestoreFrameHookBytesOnly`, the detour |
| Menu ownership | `src/dll/tools_menu.cpp` | `g_configured`, `g_created_menu`, `g_gate_set`; the game's menu slot, gate byte and world pointers | `ConfigureToolsMenu`, `SetToolsMenu`, `ToolsMenuOwned` |
| Command queue | `src/dll/module.cpp` | `g_queue_state`, `g_queued_enable`, `g_queued_status`, `g_queue_done`, `g_queue_lock` | `RequestSetMenu`, `DrainQueuedCommand` |
| Module life | `src/dll/module.cpp`, `dllmain.cpp` | `g_running`, `g_scan_stop`, `g_scan_again`, `g_status`, `g_report`, the worker thread | `StartModule`, `WorkerThread`, `RequestRescan`, `DetachModule`, `OnFrame`, `DllMain` |
| Pipe server | `src/dll/pipe.cpp` | the pipe instance, the count of failures in a row | accept, `Handle`, reply, unload |
| Application link | `src/app/link.cpp` | the wishes of the window (`want_*`), the shown state, the last pid, module present | the poll, `Ask*`, `DetachAndWait`, `StopLink` |
| Injector | `src/inject/injector.cpp`, `tools/inject` | the target process, the remote page, the loader thread | find, inject |
| Autostart | `src/app/autostart.cpp` | the registry's Run and StartupApproved values | `AutostartEnabled`, `SetAutostart`, `RefreshAutostartPath` |
| Tray and window | `src/app/main.cpp` | the single-instance mutex, the message of a second copy, the window's visibility, the device | start, hand off, show, hide, settings, exit |
| Scanner | `src/scanner/pattern.cpp`, `image.cpp`, `tools_menu_scan.cpp` | the report of the pass under way; the image, which others write | `FindAll`, decode, cross-check, sample |
| Wire protocol | `src/protocol/protocol.h` | none | request, response and status values |
| Command-line scan | `tools/scan` | the copy of the game or file | snapshot, map, scan, print |
| Build identity | `src/scanner/build_identity.cpp` | none | read and print |

`third_party/imgui` is vendored. The repository has no tests, so its claims are
those of `README.md`, `docs/design.md` and the comments.

### How they interact

```
window ──wishes──> link worker ──pipe──> pipe thread ──slot, event──> game thread
                     │                    │  DetachModule              │  detour
                     └── injector ──> DllMain ──> worker ── scan ──> InstallFrameHook
```

Three threads live in the module. The *worker* scans until the build resolves,
installs the hook and ends, or parks until it is asked again. The *pipe thread*
serves one request after the other; it puts a menu command into the single slot
and waits two seconds, or it detaches: it stops the worker, takes the menu off
through the slot, clears `g_running`, removes the hook, waits for the last
thread to leave, answers, and unloads the module it runs in. The *game's
threads* come through the hook, drain the slot and poll the hotkey. The
application polls the pipe every 300 ms, injects when nobody answers, and on
exit asks for the detach.

### What is hard, and what makes each part correct

* **Unloading code other threads may be in** (frame hook). A thread between the
  patched jump and the locked increment, or between the decrement and the jump,
  is in the module and counted nowhere; a thread that holds the trampoline's
  address needs the page after the patch is out. Correct: nobody is inside when
  the image goes, no thread stands under a rewrite, every thread in the detour
  finds its trampoline, calls end, and a detach that had to wait can be
  completed by repeating it.
* **Somebody else's bytes and menus** (frame hook, menu ownership). Another tool
  may hook the same function, and the game's level scripts raise menus. Correct:
  a site that is not what the scan saw is left alone, a foreign menu is not removed,
  and what is ours is remembered, whatever the game does in between.
* **One slot, a timeout and two sides** (command queue). The caller's timeout
  races the drain's claim. Correct: a command runs once and in order, a caller
  is told of its own command, a command given up before it was claimed never
  runs, the slot is freed again.
* **Stopping three threads in the right order** (module life). The worker may
  outlast the wait for it, commands may be refused, the site may be refused.
  Correct: the unload finds everybody out, "Detached" is true and stays true,
  the menu does not outlive the module without a reason, and every detach is
  answered.
* **Two processes that each may die** (link, pipe, injector): a missed poll, the
  gap between two pipe instances, a loader thread that outlives its wait.
* **Shared registry values and one instance** (autostart, tray). Copies from
  different folders, Task Manager and the window write the same two values, and
  copies start, hand their click over, leave and die in any order. Correct: one
  copy at most gets to the game, every click is answered, no window opens that
  nobody asked for, and Windows starts the tool exactly if the user wants it.
* **Reading an image that changes** (scanner). The game decrypts its code and
  fills its slots while it is scanned, and other tools patch it. Correct: what a
  report calls usable is real, a pass over memory that stands still is exact, the
  hook goes only over the function it was meant for, and a request for another
  look is never lost.

`PROJECT.json` lists each hazard at its line, with the properties that would
catch it.

## 2. Plan

| # | Modules | Content | State |
|---|---|---|---|
| 1 | `FrameHook`, `HookContract`, `FrameHookProofs` | the hook and what it promises | done |
| 2 | `ToolsMenu`, `ToolsMenuProofs` | whose menu it is | done |
| 3 | `CommandQueue`, `CommandContract`, `CommandQueueProofs` | slot, event, timeout, and what they promise a caller | done |
| 4 | `ModuleLifecycle`, `ModuleLifecycleProofs` | the three threads, from scan to unload; composes 1-3 by their promises | done |
| 5 | `AppSession`, `AppSessionProofs` | the link's poll and wishes, the way out, the pipe's server loop, the injector's loader thread and reference count, the death of either process; composes 4 by its endings | done |
| 6 | `Scanner`, `ScannerProofs` | one pass of the scan over an image that changes under it, and the worker's loop around it | done |
| 7 | `TrayApp`, `TrayAppProofs` | the copies of the application: autostart, the mutex, the click that is handed over, window and device | done |
| 8 | a thread model of `SuspendOtherThreads` | the heap lock held by a suspended thread (`frame_hook.cpp:134`) | open |
| 9 | the start of the module | a `StartModule` that fails half-way (`module.cpp:327`) | open |

Abstract specifications: `HookContract`, which both `FrameHook` and
`ModuleLifecycle` implement, and `CommandContract`, which `CommandQueue`
implements. Worth stating next: what the two programs promise a user (a menu
command is carried out once, refused or reported; the game is whole after an
exit), which `AppSession` should implement where the promise holds. Worth proving
next: the condition under which `LeavingRestores` is true, and that the commands
of `ModuleLifecycle` keep `CommandContract`.

## 3. What is modelled

### FrameHook

The frame threads are instruction pointers: `pos[t]` is the place in the game,
at the site, in the detour of `detour.asm` (`entry`, `drain`, `call`, `exit`,
`released`) or on a trampoline page, with one action per instruction that
matters. `Claim` and `Release` are the locked increment and decrement,
`LoadTrampoline` the read of `g_trampoline` into R11. The controller is the
caller of `InstallFrameHook` and `RemoveFrameHook`, one call at a time as
`module.cpp` makes them; a call is several actions, because threads run between
the snapshot, each suspension, the write and the publication.
`SuspendNext`, `SkipExited`, `NotSafe` and `ResumeThreads` are
`SuspendOtherThreads` and `ResumeThreads`. `Install*` and `Remove*` are the two
calls, `Quiesce*` is `WaitForModuleQuiescence`, `Unload` is the end of the
module. Between the first and the last byte of a write the site is `torn`.
`Foreign` is another tool at the same function: it writes its own bytes or the
game's at any time, over the original bytes or over this module's jump, also
between `InstallBegin` (the comparison with the sample), `InstallCopy` (the copy
into `g_original` and the trampoline) and the write. `Start` is a thread of the game
that may come while a suspension is under way; `late` is history and marks those that
no snapshot has. `meddled` is history too: another tool wrote after the removal
itself had written or read.

`HookContract` is what `frame_hook.h` promises in three variables: the hook goes
in while nobody is inside, threads get in only through it, the module goes when
the hook is out and nobody is inside. `FrameHook` implements it under
`hooked <- (site = "patched")`, `inside <- {t : pos[t] \in Inside}`.

### ToolsMenu

`SetToolsMenu` runs on the game's thread, one call at a time, but
`docs/runtime-discovery.md:567-568` records a level script that raises the menu from
a worker thread. A call is therefore three steps: `SetToolsMenu` observes and decides,
`EnableReturns` or `DisableReturns` is the binding, and `EnableSucceeds`,
`EnableFails`, `DisableSucceeds` or `DisableFails` observes again; a binding that
raises (`EnableFaults`, `DisableFaults`) ends the call. A binding may do all of its
work, the first half of it or nothing (`EnableEffect`, `DisableEffect`). The game, its
level scripts and other mods act between any two of these steps; its heap may use an
address again. `menuBy` and `gateBy` are history: they record who made what is there,
for the properties, and no action of the module decides by them: "module" and "lost"
of ours, "lost" if the call was answered as failed, "game" and "mistakable" of the
game's, "mistakable" if the menu came while a call was on its way or lies at the very
address the module remembers. `StillCreated` and `StillGateSet` are the ownership
tracking of `tools_menu.cpp`; `Follow` and `Record` are what an observed refusal
leaves.

### CommandQueue

`RequestSetMenu` in nine places and `DrainQueuedCommand` in five, split where
the other side can come between. Each request has a number, taken as it comes
through the critical section; slot and status hold the number of the request
they belong to, so that a mixed-up answer can be told from a right one.
`executed` is the sequence of numbers `SetToolsMenu` was called for. Frame
threads may be several: the hooked function is the game's.

`CommandContract` is what `RequestSetMenu` promises, without lock, state word,
event or threads: commands are asked for one at a time, claimed only while they
are open, run at most once and never after a newer one, recorded before their
outcome is told, and a caller is told one thing only. `CommandQueue` implements it
under `open <- Open` (from the caller's turn until a frame claims the command or
the caller takes it out), `active <- Active` (from the claim until `Done` is
stored), `ran <- executed`, `told <- answers`. The order and the uniqueness of
what runs (`InOrderAndOnce`) is a consequence, and a theorem of its own.

### ModuleLifecycle

The worker (`BeginScan` to `ScanAgain`), the game's thread (`EnterHook` to
`LeaveHook`) and the pipe thread (`Receive*`, `Ask*`, the `d_*` places of
`DetachModule`, `Reply`, `Unload`), each at the granularity at which the others
can see a difference. `InstallFrameHook`, `RemoveFrameHook` and `SetToolsMenu`
are single steps that succeed or are refused; a caller of the slot gets its own
answer. Both are what modules 1 to 3 establish. `excused` is history: the
reason, if any, why a menu may outlive the module.

### AppSession

Two processes that each may end at any point. In the application, the link's
worker (`worker` is its place in `WorkerLoop`: `WorkerFinds`, `WorkerAsks`,
`WorkerHears`, `WorkerPublishes`, `WorkerMisses`, then `FindsLoaded`,
`StartsLoader`, `CannotInject` and the two ends of `InjectLibrary`) and the main
thread (`app`: clicks while it is `up`, `asking` and `waiting` in
`DetachAndWait`, `stopping` in `StopLink`). They share `g_view` and the wishes,
which the worker takes before it knows whether the exchange will succeed. In the
game, the server loop of `pipe.cpp` (`gap` between two instances, `listen`,
`serve`, `reply`, `leave`), the loader threads that have yet to run
`LoadLibraryW`, and the module's reference count. `Kill` ends the application
wherever it is: its loader becomes a `stray` one. `Restart` is a new start of it.
What happens in the module is reduced to `hook`; a detach ends as
`ModuleLifecycle` shows: unloading, warm (with a worker that may still be on its
way to the hook), or refused.

`left`, `lost`, `seenAbsent` and `excused` are history: that the module told this
application it unloads, that a poll since then did not find the game, that the view
was blank during the wait of the way out, and that a loader was left behind or the
snapshot of the modules failed. `menuOf` marks a menu
request with the game that was shown when the user asked for it; the code does
not carry it, and no action reads it.

### Scanner

The image is a set of places in code and a set of slots in data. A place is what
the scanner can tell of it: the signature it matches (`sig`), where its call, load
or `lea` leads (`ref`), and where its tail jump goes (`tail`). A `build` is such an
image, decrypted and started; memory shows it chunk by chunk (`Decrypt`), with its
slots empty until `FillSlots`, and with another tool's jump over the functions in
`patched`. `Code` and `Data` are `Image::At`: the module reads the game itself,
`tools/scan` its copy, which `CopyChunk` and `CopyData` take range by range and
`MapFile` lays out from a file, encrypted or not.

`Look` is `FindAll` one chunk further, up to the second match; `Resolve` ends a
signature's search, keeps its match only if it is the only one, and decodes what it
leads to (`AccessorSlot`, `DirectSlot`, `TailJump`); after the last of the seven,
`Check` compares (`Agreed`) and `Sample` reads the bytes once more. `PassFails`,
`Install`, `LookAgain` and `RequestRescan` are the worker around the pass: the loop
until the deadline, `memcmp` of the bindings and of the hooked function against their
samples, and the parked wait. `ForeignPatch` and `ForeignRestore` have no guard but
that the hook is not in yet: another tool comes in the middle of a pass as well.
`steady` and `cutIn` are history: nothing has changed since the pass began, and a tool
hooked FrameTick after it was matched and before its sample was read. `Supported` and the `Ref`
operators are the reference definition of a supported build that
`StablePassIsExact` compares a pass with. A pass of `ModuleLifecycle` has either
outcome; this module says which.

### TrayApp

One user starts copies of the application, by clicks from any folder (`Click`) or
at logon through the Run value (`Logon`). A copy's main thread goes through
`RefreshRead` and `RefreshWrite` (`RefreshAutostartPath`), `TakeMutex`, and then
either `HandOff` or `CreateTheWindow`, `FirstShow`, the message loop, `LeaveLoop`
and `Finish`. In the loop it takes messages: another copy's click
(`DispatchShow`), the tray icon and its menu, close, exit, and the box "Start with
Windows": `TickBox` and `ClearDisable` are the two writes of an enabling, `UntickBox`
is a disabling. Mutex handles, the two registry values and the
broadcast are shared; `TaskManager` is its Startup tab. `Kill` ends a copy at any
point. `MayBeDenied` are the copies `CreateMutexW` may refuse. `chosen`, `overruled`,
`waiting`, `missed`, `denied` and `asked` are history: what the user last decided,
whether an accident has undone it since, the clicks owed an answer, those of them that
met nothing but a copy on its way from the mutex to its window, the copies that were
refused, and the copies started at logon whose window somebody wanted. `OneRunner` is what allows `AppSession` to have a single application.

## 4. What the runs show

Passing runs:

| Run | Instance | Shows |
|---|---|---|
| `frame_hook` | 2 threads, which end and start at any time, 2 pages, 2 passes of the wait, every call refusable, another tool at the site | nobody in the module when it goes (`UnloadIsSafe`), no thread of the snapshot under a write, trampoline there for every thread in the detour, "verified" true, the contract implemented, calls end with nobody left suspended, a repeated detach finishes |
| `tools_menu` | 3 addresses, used again | the module knows all it has to undo but for what it said had failed, a foreign menu is not removed, "Ok" and "MenuForeign" are true answers, an own menu can always be taken off |
| `command_queue` | 2 callers, 2 draining threads, 3 requests | the contract is implemented (commands run once and in order, one true answer each), answers are the caller's own, what was withdrawn never runs, calls return, the slot is freed |
| `lifecycle` | 2 passes per scan, a worker that may outlast the wait, a site that may refuse | unload finds everybody out, "Detached" is true, the hook goes in at most once, a menu outlives the module only for a reason, every detach is answered, every scan reaches a verdict, a repeated detach unloads |
| `app_session` | two sessions of the game, two keys, every failure of the injector and the pipe, a loader that may outlast its wait | a module that left is not put back (`LeftStaysLeft`), a game gets the module once (`LoadedOnce`), a menu command never reaches another game, the way out never waits idly for a detach nobody asks for; a detached module goes though its reply is lost, a game with a window gets its module or a complaint, the chosen key arrives, the way out ends |
| `scanner` | a supported build and eleven that differ from it in a place or two or in headers that do not parse, 11 places, 5 slots, 3 chunks, scanned in the game, from a copy and from a file | a usable report is real whatever changed during the pass (`LayoutHolds`), a pass over memory that stands still is exact, only FrameTick's own bytes are hooked, whoever asks again gets a look that counts |
| `tray` | three copies from two folders, one of which may be refused the mutex | one copy at most of those that could have the mutex gets to the game, windows are asked for and can be drawn, autostart is what the user chose last but for three accidents, every click is answered but those of `tray_missed` |

Runs that find a documented sentence violated, each with its finding in
`PROJECT.json`:

| Run | Sentence | What happens |
|---|---|---|
| `tools_menu_fault` | from the gate's write on there is something to undo, whatever the rest of the call did (`tools_menu.cpp:198-199`) | a binding that raises after its writes leaves gate or menu unowned; so does one after which the menu is up and the gate not 1 (`tools_menu.cpp:202`) |
| `queue_overtaken` | a drain does not write into a request that has been replaced (`module.cpp:371-373`) | a caller between `Done` and `SetEvent` is woken by the event of the command before its own |
| `lifecycle_back` | after a warm detach the bytes are back (`pipe.cpp:108`) | a worker that outlasted the wait installs the hook afterwards |
| `app_exit` | leaving restores the game (`main.cpp:598-599`) | an exit between the injection and the first answered poll takes the module for absent, asks for no detach, and the module hooks the game afterwards |
| `tray_missed` | a second copy does not exit in silence but asks the first to show itself (`main.cpp:498-501`) | the first was started at logon and is between `CreateMutexW` and `CreateWindowExW`: the broadcast reaches nobody, and no window ever opens |

Some sentences are looser than the code and have no run; where a property excuses
what they leave open, TLC finds the violation as soon as the excuse is dropped.
`frame_hook.cpp:92-93` says that suspending the other threads keeps one from being
inside the 14 bytes; a thread that starts after the snapshot (106) is not suspended and
may be caught by the write (`NoThreadUnderWrite` excuses exactly these, `late`).
`frame_hook.cpp:280-282` says that comparing the bytes keeps a patched build from being
written to at all. It does not if the other tool writes between the comparison (287) and
the copy (304), or hooks over our jump, which a removal overwrites (389); nor if it cuts
in between the match of the signature (`tools_menu_scan.cpp:213`) and the sample (310),
so that its jump is the sample (`HooksOnlyTheSignature` excuses exactly this, `cutIn`).
`autostart.h:22` and `autostart.cpp:61-62` promise that an enabling is refused aloud or
clears Explorer's disable; a disable that cannot be deleted is left without a word, one
the user chose between the two writes is deleted with the old one, and a refresh (144,
157) brings back an entry that was deleted between its read and its write
(`EnabledAsChosen` excuses these three until the next choice, `overruled`).
`link.cpp:69-72` keeps `g_detached` so that a detached module is not put back; a poll whose
process snapshot fails (`injector.cpp:46-48`) clears it (`link.cpp:223-227`), and the
module comes back into the same game (`LeftStaysLeft` excuses this, `lost`).
`README.md:24-25` says that
closing the tool leaves the menu off; `DetachModule` ignores whether the off
command succeeded (`module.cpp:397`), and `MenuStaysOnlyExcused` names the
reasons why a menu then outlives the module. `main.cpp:393` speaks of three
minutes where the scan's deadline is 30 s (`module.cpp:42`). `docs/design.md:143`
says that a hidden application holds no device; it has none until the first show
and keeps it afterwards. "Exactly once" is judged on what is decrypted when the
pass looks: a second match that is decrypted later is not seen, which is why
`LayoutHolds` and not `Supported` is what an unsteady pass guarantees.
In `protocol.h`,
`MenuPresent` (line 67, "this module did not make it") is also the answer for a
menu of the module's own, and `HookStalled` (line 72, "never drained it") is also
told of a command that was claimed in time and is carried out afterwards.

### Bounds, and why they are enough

* Two frame threads: every hazard of the hook is between one thread and the
  controller, or between a thread that is counted and one that is not; a third
  adds no new pair. The proofs remove the bound.
* `MaxTrampolinePages = 2` of two addresses: one page left warm, one in use,
  and the limit (4 in the code) is reached. `MaxPasses = 1` allows two passes of
  the quiescence wait: a pass that fails and one that follows it.
* Three requests of two callers: one given up while claimed, one that finds the
  slot busy or reuses it, and one after both. `MaxRequests` stops a behaviour;
  deadlock is still checked, since hook and drains go on.
* Three menu addresses: menu of ours, menu of the game in its place, and a third
  after both; each may be given out again.
* `MaxAttempts = 2` passes before the scan's deadline, the least that has a
  first, a middle and a last look at the clock.
* Two sessions of the game: wishes, answers and a g_detached of the first can
  meet the second. Two keys: the module's default and another. The reference
  count stops at two, which is as bad as three. All stray loaders are one; a
  second one would need a second kill or a second wait that ran out, and what
  one of them does already excuses the rest. `app_exit` needs one session and no
  failure, which is the point of it.
* Scanner: two chunks of code, so that functions of one binding lie in both and
  are decrypted apart, and one of data, which must not be searched; a slot that is
  read-only. The builds differ from the supported one by what each decision is
  for: a doubled function, a match in data, a FrameTick the slot does not lead to,
  crossed jumps and calls, read-only slots, two wrong places that agree with each
  other, one of them decrypted late, and headers that do not parse; a missing
  function is one that is still encrypted. The proofs hold for any build.
  271,000 states.
* Three copies: one that runs, one that hands off or starts while it leaves, and
  one after both. Two folders: the exe moved. 250,000 states.
* `CHECK_DEADLOCK FALSE` in the runs of the lifecycle, the scanner and the tray:
  an unloaded module, a scan that is through and the last copy really stop.

### Fairness

`FairSpec` of `FrameHook` asks only that the controller's thread is scheduled
while it is in a call: its waits have deadlines. Frame threads owe nothing; the
game may leave one inside a call for ever, and `CallsReturn` holds all the same.
`RepeatedDetachFinishes` and `RepeatedDetachUnloads` carry their own premises,
named `HostRepeatsDetach`: the application asks again, the system stops refusing,
the game's threads go on and are at some point not suspended when they could
leave. They are premises of these two properties and not of the specification,
because the code does not guarantee them. In `CommandQueue` a caller's thread
and a drain that has begun are scheduled; nobody is obliged to start a frame. In
`ModuleLifecycle` worker and pipe thread are scheduled, the game's thread is not.
In `AppSession` the worker, the main thread on its way out, the pipe thread and
a loader in the game are scheduled: they are threads of running processes, and
every wait in them is bounded or ends with the other process. `WF_poll(Worker)` and
the others are weak fairness on the thread's own variables, which each of its steps
changes; only a poll that finds no game after one that found none does not, so that
process snapshots do not fail for ever. Users, games,
kills and restarts owe nothing. `HotkeySettles` has its premise in the formula:
the user stops choosing and clicking and the module goes on answering. In
`Scanner` only the module's worker is scheduled, whose waits have deadlines; game,
tools and user owe nothing, and the premise of `TryAgainResolves` (the startup is
through and the shared functions are left alone) is in its formula. In `TrayApp`
each process is scheduled until it ends, and its loop empties the message queue before
it draws the next frame, so that no message is overtaken for ever by clicks in the
window; nobody has to click.

## 5. What is proved

All theorems hold for every value of the constants that satisfies the modules'
named assumptions, and every proof has the same shape: an inductive invariant,
that `Init` gives it, that each action keeps it, and that it implies the
property. The type invariant of every module is proved (`TypeCorrect` in each), and
no run spends its time on it.

* **`FrameHookProofs`.** `TypeCorrect`, `UnloadSafety`, `WriteSafety`,
  `TrampolineSafety`, `Refinement`. `UnloadIsSafe` alone is not inductive: one
  needs that `activeDetours` is the number of threads in counted places (a
  cardinality over a finite set), that a suspended thread stands outside what is
  forbidden, and that a thread in an uncounted place can be there only while the
  site is patched or no cold answer was given. `UnloadSafety` holds with late
  threads and refused calls included, for a reason the proof makes visible: by
  the time quiescence is sampled the patch is out, so a thread that was not in
  the snapshot has no way in. `WriteSafety` adds that whoever has been visited
  stands outside the stolen bytes until he is resumed (`HeldOutside`, `AllVisited`),
  and that no thread of a snapshot is caught in original bytes that are gone
  (`StolenIsWhole`), refused calls and other tools' writes included.
  `TrampolineSafety` and `Refinement` need `~ReinstallWhileWarm`, which `SingleInstall`
  below discharges. `VerifiedIsTrue` follows the bytes from what the install saved to
  what the removal reads, with another tool at the site at any time: "verified" is an
  observation and not a memory. `BoundedCalls`: every step of the
  controller in a call lowers `StepsLeft`, no step of another thread changes it, and
  it is at most `LongestCall`, a number of the threads and the length of the wait.
* **`ToolsMenuProofs`.** `TypeCorrect`, `Ownership`, `ForeignSafety`, `TrueAnswers` and
  `OwnMenuGoes`, with bindings that raise or do half their work, addresses used again,
  and the game between any two steps. The invariant follows a call: an enable that goes
  to the binding found the slot empty and remembers nothing (`EnableFoundNothing`), a
  menu that is "module" is the one remembered but in the step between the binding and
  the second look, a menu that is "game" lies elsewhere (`ForeignIsElsewhere`). What the
  four properties excuse is in their statements, as states and not as conditions on the
  constants: what the caller was told had failed ("lost"; `tools_menu_fault` shows what
  becomes of it), and a menu the module cannot tell from its own ("mistakable").
* **`CommandQueueProofs`.** `TypeCorrect` without a condition; `AnswersAreOwn`, `OrderedOnce`, `SlotIsKept` for any
  number of callers, draining threads and requests, under `~OvertakesDrain`
  (`queue_overtaken` shows the need). The invariant says who holds the slot at
  each place: the holder of the lock is the newest request, from `take` to
  `publish` no drain is active, at most one drain is, and the event being set
  while a caller waits means that its command is done.
  `Refinement`, under the same condition: every step is a step of
  `CommandContract` or a stutter, which needs beside that invariant who has been
  told what already (`ToldOnce`). Three results hold even if a drain is overtaken.
  `WithdrawnStaysGone`: what is pending belongs to the caller inside the critical
  section, and that caller takes it out before it leaves. `BoundedCalls`: a call
  takes eight steps of its own thread at most and leaves the lock.
  `SlotIsNeverAbandoned`: an occupied slot has its caller at it while the command
  is pending and a frame at it while it runs, and a drain takes five steps at most.
* **`ModuleLifecycleProofs`.** `TypeCorrect`, `UnloadSafety`, `DetachedIsTrue`, `SingleInstall`,
  `MenuExcused`. The invariant ties the places of the pipe thread to the facts
  each of them has established: a detach beyond `d_halt` has `running` cleared, a
  cold answer comes with the worker gone and the game's thread out, and a worker
  that is gone stays gone.
  `Refinement`: the three threads implement `HookContract`, with the same meaning of
  its variables as in `FrameHook`, so that the module keeps what the hook needs of
  its caller and offers the game what the hook offers it. `BoundedScan` and
  `BoundedAnswers` bound a scan by the deadline's passes and a request by nine
  steps; the one step that waits for another thread, the join of a detach, waits for
  a worker that was told to stop (`JoinsTheStopped`) and is not brought back.
  `BytesStay` is the other side of `lifecycle_back`: under `~WorkerMayOutlast` the
  sentence of `pipe.cpp:108` is true and stays true, so a worker that outlasts the
  two seconds is the only thing that makes it false.
* **`AppSessionProofs`.** `TypeCorrect`, `SingleLoad`, `CommandsArrive`,
  `NobodyWaitsIdly` and `LeftForGood`, for any number of sessions and keys and whatever fails. The
  invariant says who may hold what: a loader of the worker's is waited for, a
  stray one excuses; a server is mapped, a game the worker does not know yet is
  bare (no module, no loader), a menu wish is for the game shown or meets a bare
  one. `LeftForGood` adds that a detach under way is noted in `g_detached` before
  it is sent, and that the answer "unloading" stays true until the game ends.
  It ends with the first poll that does not find the game although it runs: a process
  snapshot that fails is taken for the end of the game (`link.cpp:223-227`) and clears
  `g_detached`. That is `lost`, and the only way.
  `NobodyWaitsIdly` follows the detach of the way out from the wish to the request,
  the answer and back, and needs that a worker looking for a game to attach to shows
  no module. `BoundedExit`: the way out is three steps of the main thread, and six of
  the worker it joins. `DetachIsFollowedThrough`: the pipe thread is through with a
  request after three steps, and from the answer "unloading" on nothing but the end
  of the game keeps it from the unload, whether the reply is heard or lost.
* **`ScannerProofs`.** `TypeCorrect`, `LayoutReal`, `StablePassExact`,
  `OnlyTheSignatureIsHooked`. `LayoutReal` rests on monotony: code in memory is
  blank, overwritten or the build's own, so whatever a read finds (a signature, an
  accessor, a target) the build has there too, whenever it was read; what two reads
  agreed on is then agreed in the build. `StablePassExact` carries, signature by
  signature, that what the search has found so far is what the chunks behind it hold
  as long as memory is as it was, and that what is kept of a signature already
  searched is what the reference finds.
  `OnlyTheSignatureIsHooked` rests on the sample being that of a place that was
  matched: unless a tool hooked it in between (`cutIn`), the sample is the build's own
  bytes, and `memcmp` finds out any tool that comes later. `BoundedPass`: a pass
  takes `4 + 8 * (LastChunk + 1)` steps of the scan at
  most, and nothing that happens to the image meanwhile makes it longer.
* **`TrayAppProofs`.** `TypeCorrect`, `OneRuns`, `WindowAskedFor`, `AutostartAsChosen`,
  with copies that are refused the mutex, enablings that do not clear the disable or are
  killed half-way, and choices in the middle of a refresh. A copy past the check holds a
  handle or was refused one, and whoever comes to a mutex with a handle on it hands off;
  a copy started by a click, and a message in a queue, are noted as somebody asking for
  the windows they may open; what is turned on has a Run value, and it is disabled only
  between the two writes of an enabling or by one of the three accidents. `NoClickIsLost`:
  a click that is owed an answer is in the hands of the copy it started, in the queue of
  one that has not left its loop, or that of a copy somebody clicked which is about to
  open its window; or it is one of those `tray_missed` shows, and nothing else takes it.
  `BoundedLives`: each step of a copy's own answers a
  message or takes it nearer its end, and no more than eight do the latter.

Every invariant and every action property that a passing run checks is proved, and
so are the three refinements. Only model-checked is what needs fairness, because
`ENABLED` and liveness are out of the provers' reach. For most of it the argument's
other half is proved: a measure that every step of the scheduled thread lowers and
that nobody else raises, so that only "the thread is scheduled" is left to TLC.

| Checked under fairness | Proved for every instance |
|---|---|
| `CallsReturn` (hook) | `BoundedCalls` |
| `CallsReturn` (queue) | `BoundedCalls` |
| `SlotIsFreed` | `SlotIsNeverAbandoned`, `BoundedCalls` |
| `ScanReachesVerdict` | `BoundedScan` |
| `DetachIsAnswered` | `BoundedAnswers`, `BoundedScan` for the join |
| `DetachedModuleGoes` | `DetachIsFollowedThrough` |
| `ExitEnds` | `BoundedExit` |
| `TryAgainResolves` | `BoundedPass`, `StablePassExact` |
| `ClickIsAnswered` | `NoClickIsLost`, `BoundedLives` |
| `RepeatedDetachFinishes`, `RepeatedDetachUnloads` | `BoundedCalls`, `BoundedAnswers`; their premises are about the game and the user |
| `GetsIn`, `HotkeySettles` | nothing: they rest on a poll that is repeated until the pipe is met listening |

## 6. Limits

* *Frame hook.* Another tool is assumed to jump nowhere but to code of its own and to
  put back nothing but the game's bytes: a tool that kept this module's jump, called
  through it and put it back later would lead threads into a module that is gone, and no
  detach could know. Its write is one step, and does not fall inside a write of ours. The
  model does not say that a tool keeps the hook it wrote: the code does not promise it
  once the bytes were compared. A `FreeLibrary` by somebody
  else, concurrent calls of install and remove, instruction encodings, page
  protections and the counters for the report are left out. `g_trampoline_memory`
  is folded into `trampoline`.
* *Menu.* Whether an address is readable is the availability of the world; the objects a
  call works with outlive it (`TearDownWorld` leaves the world loading while a call is
  under way). A binding writes the gate before the menu and raises no menu into a slot
  that is taken, as `docs/runtime-discovery.md` has it. Whose menu is in the slot cannot
  be told from its address: one the game raises at the address ours had, or while a call
  of ours is on its way, is taken for ours ("mistakable") and goes with the next off
  command.
* *Command queue.* The pipe serves one client, so two callers are more than
  today's code has; the lock is there for them.
* *Module life.* A `StartModule` that fails half-way, the end of the server
  thread after twenty failures, the value of the hotkey and the report's text
  are not modelled. `menu_on` may be stale after a map reload until the next
  command.
* *Session.* A process id stands for a session and is never given out twice. The
  game's existence, its window and the module's presence are looked at in one
  step with the attach that follows; a game that ends inside it is a game that
  ends before it. The command-line injector (`tools/inject`) is not a second
  client. A reply of another protocol version, the registry that keeps the
  hotkey, a stored key of zero (which `link.cpp:287` never pushes) and the report
  are left out. A detach that meets the moment between two pipe instances is
  consumed and lost (`link.cpp:257`, 303-309) and the wait of the way out then
  ends because the module looks absent; `WaitingAsks` excepts it by `seenAbsent`.
* *Scanner.* Another tool patches a function whole, and its jump takes the call of
  a binding with it but not the tail jump behind it. A pattern's text and the bounds
  of an image are left out: a pattern that does not parse is a pass that fails, and so
  is an image whose headers do not (`Malformed`). The three samples are read in one step.
  What the game does to a copy or a file once it is read is nothing to the scan. Overlapping matches are places of
  their own. The deadline of the pass is a choice of `PassFails`; that it comes is
  `ScanReachesVerdict`.
* *Tray.* A message box is answered when it appears. A logon may come among
  whatever runs. Turning autostart off is one step; a path longer than `MAX_PATH` is
  a refresh that is refused. A value in `StartupApproved` that cannot be read counts
  as absent. One session of Windows. A copy that is refused the
  mutex, as one of less right than the first, goes on all the same (`main.cpp:497`), and
  `OneRunner` does not count it; that the two then fight over the game is what the code
  accepts there. A click that finds only copies on their way out is not answered
  (`main.cpp:497-505`), and `ClickIsAnswered` excepts it; one that finds a copy without a
  window yet is `tray_missed`.
* *Not modelled.* `build_identity.cpp` reads a file for the report and decides
  nothing. `tools/inject` is a second client of functions `AppSession` has. The heap
  lock (`frame_hook.cpp:134`) belongs to the C runtime, and whether a suspended
  thread holds it is nothing this code can see. A `StartModule` that fails half-way
  ends before `ModuleLifecycle` begins. Drawing is I/O; `third_party` is vendored.
