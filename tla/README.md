# A TLA+ model of Cyder

Cyder runs classic Macintosh applications by emulating the 68k processor
(Musashi, external) and implementing the Mac OS Toolbox in native C++. This
directory holds TLA+ modules that model its control logic, the TLC runs that
check them, and proofs (TLAPS) of the properties that matter most.

## The system

Two threads. The UI thread (`emu/main.cc`) polls SDL, queues input and, when
the window closes, stops the emulator thread and joins it. The emulator thread
runs the application: `Emulator::Run` executes 68k code up to the next A-trap,
`TrapManager` saves registers and dispatches it, `TrapDispatcher` pops the
arguments and calls a manager. Everything but the event queue, the debugger's
flag and `is_running` belongs to the emulator thread alone.

| Component | State | Operations | What is hard |
|---|---|---|---|
| Event Manager `emu/event_manager.*` | three event lists, `mouse_move_enabled_`, `is_shutting_down_`, a mutex and a condition variable | Queue*, GetNextEvent, WaitNextEvent, EnableMouseMove, Shutdown | the three critical sections of WaitNextEvent against the UI thread; methods that queue without notifying |
| Threads `emu/main.cc` | `is_emulator_running`, position of both threads | SDL loop, emulator loop, shutdown | joining a thread that may be anywhere: asleep, in a modal loop, at a prompt |
| Debugger `emu/debug/debugger.*` | `should_enter_debug`, breakpoints | Prompt, Break | a signal that must hit a read; a flag written by both threads |
| Emulator core `emu/emulator.*` | native functions, the pending one, the exit-function stack | Run, HandleInstruction, CallFunction | nesting: native code calls emulated code that traps into native code |
| Trap Manager `emu/trap/trap_manager.*` | patched trap addresses, stack and registers | PerformTrapEntry/Exit, Get/SetTrapAddress | register save/restore around patches, address tables |
| Memory Manager `emu/memory/memory_manager.*` | bump pointer, handle table, metadata | NewPtr, NewHandle, RecoverHandle, the move of AppendResMenu | stale metadata, bounds of heap and handle table |
| Memory region `core/memory_region.*` | where a view begins, its size, its maximum | Create, Read/Write, operator<< | nesting: offsets, the size that may be lied about, what the watcher is told |
| Memory map `emu/memory/memory_map.*` | restricted records, A5 world, initialized bytes | CheckReadAccess, CheckWriteAccess, LogRegionAccess, SetA5WorldBounds | a restriction removes another; sums of 32 bits |
| Debug manager `emu/debug/debug_manager.*` | tagged and counting spans | RecordWrite, TagMemory, PrintMemoryMap | merging while the span grows, order of nested spans |
| File Manager traps `emu/trap/trap_dispatcher.cc` | one buffer, one offset | Open, Read, Write, Close, ... | the offset nothing resets, the parameter block written back |
| Resource Manager `emu/rsrc/*` | cache resource to handle, loaded file | GetResource, ByName, Save/Load | cache against the memory manager; two files |
| Segment Loader `emu/segment_loader.cc` | jump table in the A5 world | Create, Load | rewriting entries in place, loading twice |
| Window Manager `emu/window_manager.cc` | window list, hilite flags, regions | New, Show, Select, Move, Dispose, Invalidate | order of list, flags, regions and queued events after a long sequence of calls |
| Dialog Manager `emu/dialog/dialog_manager.cc` | item lists in memory | GetNewDialog, ModalDialog | drains the queue of every event |
| Menu Manager `emu/menu_manager.cc`, `menu_popup.cc` | menus, open popup, hilited item | InsertMenu, MenuSelect | xor drawing must be undone exactly once |
| Region algebra `emu/graphics/region.cc` | none | Union, Intersect, Subtract, Offset | scanline encoding |
| Bitmaps `emu/graphics/bitmap_image.*`, `copybits.h` | bytes of an image, clip region | FillRow, FillRect, FrameRect, FillEllipse, CopyBits, TempClipRect | masks of a row's first and last byte, shifted copies, nested clips |
| Pictures `emu/graphics/pict_v1.cc` | none | GetPICTFrame, ParsePICTv1 | packed runs, three rectangles per band |
| Ports `emu/graphics/quickdraw.cc` and the QuickDraw traps | ports, the current port, the open region | about forty traps | two coordinate systems of 16 bits, a region recorded over master pointers |

Fonts, the code generators (`gen/`), the command-line tools (`bin/`) and logging
keep no control state and are left out altogether.

How the parts interact:

- *UI thread → Event Manager.* `HandleSDLEvents` queues input; the tail of
  `Main` calls `Shutdown`. The queue, `is_running` and the debugger's flag are
  all the threads share.
- *Emulated code → managers.* Every call is an A-trap: exception →
  `PerformTrapEntry` → (a patch, then) `PerformTrapDispatch` → `TrapDispatcher`
  → manager → `PerformTrapExit` for system traps. One stack, the emulated one,
  carries all of it.
- *Managers → emulated code.* `Emulator::CallFunction` pushes the address of a
  native stub and runs the emulator until the stub is reached; the emulated
  function may execute traps, whose handlers may call functions again.
- *Managers → managers.* The Resource Manager copies resources to handles of
  the Memory Manager; the Segment Loader asks the Resource Manager; the Window
  Manager queues update and activate events and keeps its regions in handles;
  QuickDraw keeps a port's regions in handles and a region it records through one;
  the Dialog and Menu Managers draw over what the Window Manager drew and run
  event loops of their own.
- *Everybody → memory → Debug Manager.* Every byte written, by the emulated
  processor, by a trap or by a manager through a region made for it, is reported
  by a watcher that only knows offsets.

## Modules and how they correspond to the code

`X` ← `Y` says that X EXTENDS or instantiates Y.

| Module | Code | Role |
|---|---|---|
| `EventManager` ← `EventStream` | `event_manager.cc` | the queue with its locks and condition variable; the refinement mapping |
| `EventStream` | – | what the queue promises: an ordered set of pending events |
| `MCEventManager` ← `EventManager` | – | TLC instance |
| `Cyder` ← `EventManager` | `main.cc`, `debugger.cc`, the modal loops of three managers | both threads |
| `CyderProofs` ← `Cyder` | – | theorems about the queue, among them the refinement, and about both threads |
| `MemoryManager`, `MemoryManagerProofs` | `memory_manager.cc`, memory traps | heap, handle table; theorems |
| `TrapManager`, `TrapManagerProofs` | `trap_manager.cc`, `trap_helpers.h`, `emulator.cc` | entry, dispatch, exit, patches, CallFunction; theorems |
| `ResourceManager` | `rsrc/` | lookup, shadowing, cache |
| `SegmentLoader` ← `ResourceManager` | `segment_loader.cc` | jump table and the code that calls through it |
| `RegionLines` | `region.cc`, one row | Union, Intersect, Subtract, one action per loop iteration |
| `Region` ← `RegionLines` | `region.cc` | RegionOp, NewRectRegion, Offset |
| `WindowManager` | `window_manager.cc` | procedures of the manager as operators |
| `DialogManager`, `MenuManager` ← `WindowManager` | `dialog_manager.cc`, `menu_manager.cc`, `menu_popup.cc` | the same for dialogs and menus |
| `Toolbox` ← both | traps of `trap_dispatcher.cc` | an application that uses all three |
| `MemoryRegion`, `DebugManager` | `memory_region.*`, `debug_manager.*` | regions and spans as operators |
| `MemoryMap` ← both | `memory_map.cc`, `emulator.cc`, `BlockMove` | the memory, its watcher and what restricts it |
| `FileManager` ← `MemoryMap` | File Manager traps | with parameter blocks in that memory |
| `Rects` | `graphics_helpers.h` | rectangles and points of 16 bits |
| `BitmapImage` ← `Rects` | `bitmap_image.cc`, `copybits.h` | drawing and copying, byte by byte |
| `Pictures` ← `BitmapImage` | `pict_v1.cc` | unpacking pictures |
| `QuickDraw` ← `Pictures` | `quickdraw.cc`, QuickDraw traps | ports, drawing, recorded regions |
| `Graphics` ← `QuickDraw` | `bitmap_image.h`, `menu_popup.cc` | the screen: temporary clips and pop-ups |
| `SegmentLoaderProofs`, `RegionProofs`, `MemoryMapProofs`, `ToolboxProofs`, `GraphicsProofs` | – | theorems |

`PROJECT.json` maps each definition to its lines. The choices behind them:

**EventManager.** `activate_events`, `input_events`, `update_events` are the
three lists. Every method holds `event_mutex_` throughout and is one action,
except `WaitNextEvent`, whose three critical sections are `WaitNextEvent`
(first probe), `StartWait` (shutdown test and `wait_for`'s first look at its
predicate) and `Retry` (second probe); `Wake`, `NotifiedWake` and `TimeOut` are
what may happen inside `wait_for`. `notified` is the effect of a `notify_all` on
a thread already waiting, and nothing else: a notification with nobody waiting is
lost, as in C++. Which methods notify and which do not is taken from each of
them. An event is its type, one argument (window or mouse click) and the stamp
of the order in which events were queued, which stands for `NowTicks`: the code
reads the clock before it takes the lock, so that two stamps may be out of order
by the time between the two, which no property looks at. Event number 0 is not
posted (`EventAssumption`): `WaitNextEvent` would take such an event off the
queue and go on as if there were none.

**Cyder.** `main` is the program counter of the UI thread (polling, then the four
steps of the tail of `Main`), `emu` that of the emulator thread (loop test,
debugger prompt, a read of the console, a timeslice of emulated code, the three
modal loops). A trap that queues or takes an event is one step of the guest, a
blocking one several. The mouse has several buttons and
`main_loop` looks at none of them: each press and each release of any button is queued as
the Macintosh's one. Clicks (presses and releases) are numbered in the order the user
made them and an event carries its number, so that "the release that ends a drag" can be said;
`held` has the presses whose buttons are down, and the history variable `alone` those during
which no other button was. SDL's handler for
SIGINT is external: the model takes from `main.cc` that the signal interrupts a
console read in progress and does nothing else. Break lists (`break trap`, `break event`) are
left out; they set `should_enter_debug`, as F10 does. F10's write to
`should_enter_debug` is a data race with the emulator thread; the field is one
byte and the outcomes, one or the other value, are the two orders of the steps.

**MemoryManager.** Addresses are naturals; a handle is its address in the table.
`master` is the memory of the master pointers, `handle_to_metadata` the map,
`blocks` a history of everything handed out. A failed CHECK sets `halted` after
whatever was assigned before it. What blocks contain is abstracted.
`Deallocate` is modelled although no code calls it; `TrapSpec` leaves it out.

**TrapManager.** The emulated stack is a sequence of slots that know what they
are (a return address with its level, the arguments of a trap, a saved register,
a stub's address), so that a slot too many or too few shows at the next use.
Emulated code is nondeterministic: it executes any trap, patches, chains by jump
or by call, and returns from patches and functions. `frames` is a history of what
each call in progress should return to. An exception, the RTE at
`kTrapManagerEntryAddress` and the native function behind it are one step,
because `Emulator::Run` calls it before it executes anything else.

**ResourceManager, SegmentLoader.** A file is the sequence of its resources, a
handle the index of the copy made. An entry of the jump table keeps the three
things its eight bytes hold, among them the word `Load` reads and overwrites.

**RegionLines, Region.** The loops are modelled iteration by iteration, with the
readers' positions and the local variables. `Half` is 2^15 in the code; Offset
wraps.

**WindowManager, DialogManager, MenuManager, Toolbox.** The screen is a column of
rows, row 0 the menu bar; a region is a set of rows, which `Region` justifies. A
row shows the desktop, the menu bar, a menu, or a window, erased or drawn; the
set `inverted` is what exclusive-or drawing has left. The managers' state is one
record `wm`; each procedure is an operator from state to state, so that a trap is
the composition of the calls the code makes, in its order. `DragWindow` and
`MenuSelect` follow the mouse and take several steps. The byte `hilited` keeps
its width: 0xFF where `SelectWindow` writes it, 0x01 after a record was read and
written back.

**MemoryRegion, DebugManager, MemoryMap, FileManager.** A region is where it begins
in memory, its size, its maximum and the offset it reports; `SubRegion` is
`Create` behind its check. `memory_tags_` is the set of its spans because the
code sorts it after each change; `Sorted` gives the vector back where the order
matters. `store` is everything a write changes: bytes, spans, initialized
addresses and the history `log` of where writes landed, in their order. `restricted` and `last`
are history too. A trap is one action that reads its block, sets in it what its handler
sets (`ioResult`, and in Read, Write and Allocate `ioActCount`, in Open `ioRefNum`, in
GetVolInfo `ioVFrBlk` and `ioVAlBlkSiz`; `hasColorQD` alone in the SysEnvRecord), does its
work and writes all of the block back field by field, as `WithType` does. A field is a byte, at
an offset that is a constant; a transfer takes its count from `ioReqCount`, while where
`ioBuffer` and `ioNamePtr` point is free, because a byte holds no address, and the blocks
of the File Manager have one size. The whitelisted globals are a constant. What ends the process sets `halted`.

**Rects, BitmapImage, Pictures, QuickDraw, Graphics.** A byte is the set of its
bits that are 1, `CHAR_BIT` of them; the masks, rotations and shifts of the code are
operations on these sets. Images are drawn and copied in the bytes of `mem`,
never pixel by pixel: the properties compare them with shapes defined pixel
by pixel. A clip region is a set of pixels, which `Region` justifies; `Ranges`
gives back the ranges the code goes through. What the code reads and does not
own (the byte behind a picture, a pattern at a negative index) is `junk`, any byte. The products in
`FillEllipse` are ints and wrap around (`Int32`), as they do in its builds, though C leaves
that undefined; a row's ends become 16 bits where `FillRow` takes them. Master pointers are
kept in halves of 16 bits because the record of an open region is written over them
in such halves; `framed` is history. A behaviour calls traps of
one family (ports and drawing, regions, geometry, the screen), which share no
state that another family's properties are about.

## Runs

States are distinct states found.

| Run | States | Questions |
|---|---|---|
| `event_queue` | 92066 | the queue under every interleaving of the two threads |
| `threads` | 365505 | both threads, the modal loops and the debugger |
| `heap` | 293004 | every sequence of allocator calls in a small heap |
| `traps` | 3179482 | traps, patches and function calls nested four deep |
| `segments` | 16080 | calls through the jump table, resources in every order |
| `regions` | 503332 | every pair of small regions under every operation |
| `toolbox` | 186484 | windows, dialog and menus over each other, and redrawing |
| `memory` | 104252 | every sequence of three operations on the memory |
| `graphics` | 225881 | every shape, copy, port and clip on images of a few bytes |
| `quit_in_modal_loop`, `system_chain`, `open_region` | | what the code says of itself and does not keep; see Findings |

**`event_queue`.** `NoLostWakeup`: a sleeper nobody notified has nothing to find.
`RetryFindsEvent`: one woken by the predicate does find something. Both relate
three pieces of code: the predicate, the probe, and who notifies.
`ImplementsStream` is refinement of `EventStream`: whatever the lists, masks
and probes do, callers are handed the first admitted event by class and age, none
twice, none lost, and null only when nothing is admitted or the queue is closed.
`WaitsEnd` (`EventEndsWait`, `ShutdownEndsWait`): no wait depends on its timeout.
Bounds: four events queued in a behaviour, with masks for everything, for window events,
for a tracking loop, and for keys with updates. Four is enough for an event
skipped, one taken in front of it and behind it, and one of another class.

**`threads`.** `UsesEventManager`: the two threads together make only steps that
`EventManager` allows; in particular no `WaitNextEvent` runs while mouse moves
are enabled, which is what excuses `OnMouseMove` for notifying nobody.
`EachPressHasItsRelease`: for an application that takes all events, a drag or menu ends
with a release made after its press, and with the release of that press if no other button was
down with it. With a second button the release may be the other one's: the user still holds the
first and the drag is over. `ReleaseEndsTracking`: once all buttons are up it does
end, also when its own release went to another drag. `OnlyTheUserDelaysTheEnd`: closing the window ends the process except in
a modal loop or at a prompt, and if the SIGINT was in time, not
even a prompt keeps it alive. Bounds: two buttons, four clicks (a left-over release of the
first press against a drag of the second, and two buttons pressed and released in every order) and
four events.

**`heap`.** `BlocksApart` and `HandlesAgree` are invariants over
all sequences of allocation, moving a menu, recovering and dropping handles;
`FullHeapIsReported` and `BlocksStayPut` are about steps. The heap has 8
addresses, 4 of them for the table with room for two handles, and begins at 2 so
that offsets and addresses differ. Three master pointers overflow the table,
blocks of 0, 1 and 2 bytes fill the heap exactly, by one too few and one too
many. The run may stop: after a failed CHECK nothing happens.

**`traps`.** `ReturnsToCaller`: every call returns to the right place with its
stack and registers. `HandlersFindTheirArguments`: also through patches.
`CallsNest`: the one exit stub serves nested calls innermost first. Trap
words of each kind: auto-pop, saving A0, returning A0, LoadSeg, Get and Set. Four
levels are a trap in a function called by a handler of a trap chained to from a patch.
Patches leave a D1 with bit R set or clear. `PerformTrapExit` reads the trap word from
D1, and nothing keeps a patch of a system trap from using that register: with another
bit R there the exit pops a slot too many or too few, and the model ends `Astray`.
`ReturnsToCaller` says that only this (`Misled`) sends control to a slot that is
no address, and that everything else returns. It says nothing of A0: the comment
at `trap_helpers.h:32-36` says that A0 is returned when bit R is 0, and the code
(`ShouldSaveA0`, line 75, with `trap_manager.cc:116` and `:153`) restores the
caller's A0 exactly then. The two disagree, the callers of NewPtr (0xA11E, bit R set)
need what the code does, and the model does what the code does. Bound reached, calls
only return.

**`segments`.** `JumpTableIsRight`: loading rewrites exactly a segment's own
entries to the routine's address. `CallsArrive`: a call through any entry gets to
its routine. `OneCopyOfTheRightOne` and `HandlesStay`: cache and shadowing, in
whatever order resources were asked for by number and by name. Three segments and five
entries, one segment in the middle of the table; application and System file
with a resource of the same number. CODE resources are well formed, and a file has
one group per type.

**`regions`.** `RowsAreSets`: each loop computes the set operation on a row's
columns, in canonical form. `RegionsAreSets`: the same of regions and pixels;
equal regions come out as equal lists, which RegionOp relies on to leave out
repeated rows; the bounding rectangle holds and is tight (bottom excepted); coordinates
have 16 bits. All canonical regions of one row of five columns (adjacent,
nested, overlapping and separate ranges, two or three of them) and of three rows of
two columns, and rectangles without pixels; moved by an offset that fits and one that
wraps.

**`toolbox`.** `NoGhosts`: each row of the screen shows the foremost window that
has it. `DrawnWhenQuiet`: a window with no update event pending shows its content,
which a frame drawn later may have erased. `NothingStaysInverted`: outlines and
menu highlights are undone. `ClicksGoWhereTheyShould`: where FindWindow answers, it
answers what is visible; where it meets a dialog without regions on the way there
it does not answer (`Answers`), and the action `FindWindow` ends the program. `TheFrontWindowIsActive`: list, flags and events agree. Two windows and a dialog of different heights at two
places, so that they cover one another partly, wholly and not at all; two menus,
one longer than the other. The application takes events before it calls
more traps (`Backlog`), redraws between BeginUpDate and EndUpDate and nowhere
else, and ignores events of windows it has disposed of. What a dialog draws
itself is exempt from `NoGhosts`: `DrawDialogWindow` heeds nothing in front of it.

**`memory`.** `WritesAreAccounted`: whatever was written, through whatever region,
is marked and counted where it landed, in counters that neither overlap nor touch.
`MapShowsNesting`: the printed map indents a span under those around it.
`RestrictionsInForce`: restricting a record frees no other that does not overlap it.
`NothingLeavesItsPlace`: no region reaches out of memory, no accepted A5 world
out of its place. `BlockMoveCopies`, `TheTapeOnlyMovesOn`: what a
trap leaves in memory. `ParametersSurvive`: of its block a trap changes the fields it returns
there and no others, also where a Read delivers over it, and `ioActCount` is how far the tape
moved. The memory has 20 bytes with every section in it, words
are of 5 bits so that sums wrap, a region nests in a region, records overlap, touch and
nest; three operations are two writes and the one that joins them, or two
restrictions and the one that overlaps both.

**`graphics`.** `PortsDrawWhatTheyName`, `ScreenDrawsWithinClip`: exactly the
pixels of the shape in the clip are drawn, each with the pattern's bit.
`PicturesArriveWhole`: the same of pictures, shifted, packed, cut and overlapping.
`PopupsLeaveNoTrace`: copy out, draw, copy back is nothing. `CoordinatesAreRight`:
rectangles are sets of pixels while they fit 16 bits, and a port's two rectangles
move together. `TheRegionIsRecorded`: `CloseRgn` delivers, except after what
`open_region` shows. `ScreenStateOK`: types, and nested clips are undone.
Bytes of three pixels and rows of five and four: a row begins and ends in one byte, in
two, at a byte's edge, and spans a full byte. Rectangles reach over every edge, are
empty and in disorder. Frames and ovals without pixels and frames one pixel thin are
excluded (`Proper`): the code draws the former and inverts the latter twice. So are
rectangles that leave 16 bits as a port's bitmap counts (`Fits16`): they wrap around.
And so are ovals whose products may leave an int (`FitsInt`), from about 430 by 430 pixels on:
the code draws other rows than the ellipse's, down to the middle row alone. Here an int is in -200..199,
which the largest oval leaves: without `FitsInt` the property is violated.

## Fairness

`EventManager`: weak fairness of `StartWait`, `NotifiedWake` and `Retry`: the
operating system schedules the emulator thread, and `notify_all` wakes it.
Nothing is assumed of timeouts, spurious wakeups or the user. `Cyder`: weak
fairness of each thread, whose disjuncts leave out console lines, input, closing
the window and timeouts; a command follows only on an interrupted read.
`SegmentLoader`: the processor goes on. Heap, traps, regions, toolbox,
memory and graphics are checked for safety only.

## Findings

- `quit_in_modal_loop`: closing the window during a drag, a menu or a dialog leaves
  the emulator thread in a loop that tests no flag; `join` does not return.
- `system_chain`: the CHECK in `PerformTrapDispatch` cannot hold for the system
  stubs, so a patch cannot chain to a system trap's handler.
- `open_region`: `OpenRgn` keeps a handle where `FrameRoundRect` expects a pointer,
  so the region's record is written over master pointers, and the next use of
  one of these handles fails a CHECK.

Reproduced by the models, without a run: `HasSpaceForAllocation` compares an
offset with an address, so blocks end above `kHeapEnd`; SelectWindow of the active
window is not a no-op; a dialog has no regions until some window is invalidated, and
disposing of it, moving or dragging it before that fails a CHECK, and so does `FindWindow` at
any point no window in front of it has; a stray mouse move left queued
after tracking; RecoverHandle writing past the handle table and returning a handle
without metadata; Get traps that miss patches of the other table; `ResErr` never
cleared; `RecoverHandle` and `NewHandle` differing on a full table; F10 lost
against a "run"; BlockMove smearing a block moved up over itself (trap_dispatcher.cc:139); a restriction that
removes only the first one it overlaps (memory_map.cc:339); processor writes of several bytes of
which only the first is checked (emulator.cc:172); an A5 world assigned before it is
refused, in a sum of 32 bits that may wrap; a file offset that nothing resets and nothing
bounds; a nested TempClipRect that replaces the outer clip and does not cut it; empty frames and
ovals that are drawn outside their rectangle; lines to the left that draw nothing
(trap_dispatcher.cc:1443); a packed band that is drawn at the frame's left edge wherever it
belongs (pict_v1.cc:162); rows found by `PixelWidthToBytes` though
`row_bytes` may be larger (bitmap_image.cc:194); `SectRect` answering TRUE for no intersection
(trap_dispatcher.cc:1287); the reset of `region_save` behind a `return`
(trap_dispatcher.cc:1519).

Seen while reading and not modelled: `SetWTitle` draws over
windows in front; the `DragGreyRgn` trap leaves its outline; `FindWindow` leaves
the application's variable as it was on the Close box; `memory_region.h` says of
`Create` with size 0 what only `Create(offset)` does; `timeout * 16` overflows;
`InitPort` leaves the pen and `region_save` as they were (quickdraw.cc:86);
`NextString` checks only the length byte; a packed row's length is read as 8 bits
(pict_v1.cc:43); offsets in a saved resource file are 16 and 24 bits and may wrap;
`debug_manager.h` declares `TagMemory` with a size and is given an end.

## Proofs

Each theorem module holds one inductive invariant: the properties and what they need
to be kept by every step, with one lemma for each action or group of actions.

`CyderProofs` begins with the queue by itself (from `EventAssumption` alone: any masks, windows, places
and number of events): `NoWakeupIsLost`, `WakingFindsAnEvent` and `TypeCorrectness`.
`NoLostWakeup` is not inductive: `has_event_pred` returns the result of the
input search without looking at update events, so it must be known that a caller
inside `WaitNextEvent` has no update event in its mask. `WaiterSawWindowEvents`
says so: the first probe found none, and only the emulator thread, which is
inside the call, queues them. It also has mouse moves disabled, because
`OnMouseMove` queues without notifying. `NotifiedOnlyBlocked` ties the notification to
a sleeper. The module begins with what searching, removing and appending do to a list.
The next theorem is `TheQueueIsAStream`: every step of the
queue is one of `EventStream` or invisible to it. `EventStream` promises no progress,
so this is all of `ImplementsStream`. The abstract set is ordered by definition; of the
lists it must be shown that each is in the order its events were queued, and that
whatever is queued is younger than everything in the three. A call inside
`WaitNextEvent` keeps a mask of `Masks`.

About both threads (from `CyderAssumption`: any application masks, presses, windows and raw
events, debugger or not) it proves `TheQueueIsUsedAsSupposed`: each thread's step is a
step of `EventManager`. What makes that true is that the emulator thread is in a call
only in guest code and that moves are enabled exactly in the modal loops
(`CallsAndScopes`). The invariant of the queue therefore holds in the whole program too,
and with it `NoWakeupIsLostInCyder`. `EachPressEndsWithItsOwnRelease` needs the story of one
mouse (`Story`): the list keeps presses and releases in the order the user made them, and there is
a release to come for each press that is queued or tracked, no two with the same (`Paid`): a
younger one that is queued, or that of a button still held. A drag takes the oldest release
queued; if that was meant for another press, the other one is left with the drag's. For a press
made alone everything before it is paid with older releases, so nothing can take its own, the
click after it. It is proved for applications that take presses and releases alike
(`PairsTaken`) and post neither (`NoMousePosted`): one that takes presses only
leaves a release behind, which ends the next drag at once. The run's application takes all
events and posts none, which satisfies both.

`MemoryManagerProofs` (from `HeapAssumption`) proves `NoByteIsHandedOutTwice`,
`HandlesAlwaysAgree`, `LookupIsAlwaysSound`, `HeapTypeCorrectness`,
`FullHeapIsAlwaysReported` and `BlocksNeverMove`. Its inductive invariant adds that blocks end at or
below the bump pointer, that master pointers lie below `handle_offset` (so a new
handle is new), that the blocks of two handles are apart, and that `end` is exact or
at or below `start`, which is why the stale `end` that UpdateHandle leaves
makes lookups miss and never err.

`TrapManagerProofs` (from `TrapsAssumption`: any trap words, patches and depth) proves
`EverythingReturns`, `HandlersAlwaysFindTheirArguments`, `CallsEndWhereTheyBegan`
and the invariant itself, `TrapManagerInvariant`, for patches that leave anything in
the registers: where one has misled `PerformTrapExit` the run is `Lost`, and it gets there in
no other way. The idea of the invariant is that `frames` determines everything else.
The stack below the running code is `CodeStack`, which each frame extends by what its entry
pushed; the suspended native handlers and the exit functions
are those of the function frames, in their order; and the program counter names the
innermost frame, or a handler of its trap on the way in or out (`Located`). Addresses that Get
has returned and that a patch may chain to later are a patch or the stub of the same trap
(`HeldAddresses`). So a step pushes or pops exactly what the next step of the same call relies on.

`SegmentLoaderProofs` (from `ResourceAssumption` and `CodeAssumption`: well-formed CODE
resources, entries of distinct routines, any number of files, segments and
entries) proves `OneCopyEverybodyGets`, `TableIsAlwaysRight` and `HandlesAlwaysStay`.
The invariant says of the cache that each copy in the heap is of the resource a
search for its number finds and is the one the cache names for it (a name finds
nothing its number would not find); of the jump table that each entry is as `Create` wrote
it or jumps to its own routine, the entries of a segment together; and of the
processor that it is at the LoadSeg trap only of an entry as `Create` wrote it. So `Load`
never reads an offset from a word it has overwritten.

`RegionProofs` (from `RowsAssumption` and `RegionsAssumption`: rows whose ranges
are in order and apart, each possibly without columns) proves `EveryRowIsRight`. Each loop has an invariant that says which columns the
result, the range held and the ranges read account for; columns are compared one by
one, so no induction over rows is needed. Subtract needs most: the overlap held is
the last one read, everything before it ends where the current range starts or
earlier, and what is left of the current range begins at `current_start`.
`RegionsAreSetsOfPixels` is the same of whole regions. `RowAt`, the columns of a row, is that of
the last scanline at or above it; the invariant of `RegionOp`'s loop says of each row passed that
what has been written has the columns the operation gives for it, and that the line written last
has what the operation gives for the two read last. That a scanline is written only when it
differs from the one before keeps the result canonical, and because canonical rows with the same columns
are equal it loses nothing. Edges of the result are edges of the operands, so they keep 16 bits and the box is tight.
`Offset` is proved for offsets with which no coordinate leaves 16 bits.

`MemoryMapProofs` (from `SectionsAssumption`, `TagsAssumption`, `RequestsAssumption`,
`SizeAssumption`, `FileAssumption` and `FieldsAssumption`: any sections, stack size, requests, tags, code
resources and files, the size of memory a multiple of a dump line) proves every property of the
run `memory`:

- `RestrictionsStayInForce`: an entry of the map leaves it only when a new one overlaps
  it, so a watched address stays watched by the newest entry.
- `NothingEverLeavesItsPlace`, of which `RegionsAlwaysStayInside` and `A5WorldAlwaysFits` are
  parts: `data + maximum` is the size of memory and `base` is `data`, whichever order
  regions were made from one another; the dump ends inside a region because its offset
  and its size are both multiples of a line.
- `BlockMoveAlwaysCopies`, `ParametersAlwaysSurvive`: what the loops that write a byte at a
  time leave in memory, from the value after each iteration; the latter also from
  `FieldsAssumption`, that `ioResult` is no other field and `ioReqCount` is not `ioActCount`. The smear of a block
  moved up over itself is the case where an iteration reads what an earlier one wrote.
- `TheBufferIsATape`: the buffer behind the offset is still zero, because a transfer writes
  where none has written; so nothing is rewritten and a Read finds only zeros.
- `WritesAlwaysAccounted`: counters are apart (`Sound`) and each has counted its
  writes (`Accounted`). `RecordWrite` goes through the spans in their order and merges while
  the span it holds grows; the invariant of that loop (`Gathered`) is that what it holds is the
  union of the write and of the counters met so far that meet it, that those not merged
  stay apart from it because they come in order, and that the counts add up.
- `TheMapAlwaysShowsNesting`: `Sorted` lists each span once, in order, because a span's place is
  its rank and ranks are distinct; the stack of `PrintMemoryMap` then holds exactly the
  spans met so far that enclose the one printed (`Depth`, `Prints`). This needs outer spans
  first among those with the same start, which is what `MemorySpan::operator<` does.

The loops of `MemoryMap` are folds, which the library defines by a recursive function that the provers
know nothing of. `UnfoldingExists` shows that it exists on the subsets of `1..n`,
by induction over `0..n` as a least counterexample, and `LoopInduction` that an invariant of the
loop's steps holds at its end. A loop is named by a record (`LoopStep` says what its body
does) because a lemma with an operator for a parameter could not be used.

`ToolboxProofs` (from `WindowAssumption`, `DialogAssumption` and `MenuAssumption`: any
windows of any heights, with and without title bars, at any places, any dialogs, menus and
`Backlog`) proves every property of the run `toolbox` and the invariant itself,
`WindowsAreInOrder`. None of the properties is inductive: each is about what the screen
shows, and what it shows next depends on regions, on the order of the list and on the
events pending. The invariant (`Invariant`) is about the screen with the menu closed
(`AllClosed`: what `Close` would restore) and says

- of each window in the list, that its structure and content regions are where its
  record is, or empty for a dialog nothing was invalidated after;
- that its visible region is what of its content no window in front has, and that its update
  region is the same, which is also its clip between BeginUpDate and EndUpDate;
- that a row shows the first window that has it, and its content is drawn unless an
  update event for that window is pending or under way; rows a dialog has drawn over are exempt;
- that one window at most is hilited, with only dialogs in front of it;
- that during a drag the rows inverted are the symmetric difference of the edges where the
  record is and where the outline is, which is what ending the drag inverts once more; and that
  the rows under an open menu are saved as they were, with the item hovered inverted.

Most traps change the list or a place and then call `InvalidateWindows`. One lemma,
`InvalidateOrders`, serves them all: whatever was done before, regions and screen are
in order afterwards if the rows that no window will have show the desktop. What remains for a
trap is that condition (`Background`), and it is the reason why MoveWindow and
DisposeWindow must repaint the desktop first and from the old regions. `TheFrontWindowIsActive` is
also about steps: `FrontToldOf` says of each trap that a new front window is sent its activate event.

`GraphicsProofs` (from `HalfAssumption`, `BitmapAssumption`, `PortAssumption`, `InputAssumption` and
`ScreenAssumption`: bytes, coordinates and patterns of any size, any number of ports, handles, clips and
menus, bitmaps that lie in memory; what the Toolbox draws has a height of 16 bits, and so have menus, which
have an item) proves six properties of the run `graphics`:

- `TheScreenStaysWellFormed`: `ScreenStateOK`. Inductive with it (`GraphicsInv`) are that the outermost
  saved clip is the whole screen, that an open port has both its regions and a known pen mode, and that
  the regions of ports are handles that were allocated.
- `CoordinatesNameThePixels`: what the traps on rectangles do to sets of pixels, and that SetOrigin
  moves both rectangles of a port by the same amount modulo 16 bits, in which the amount cancels.
- `TheFramedRectangleIsKept`: `Recorded` says that the master pointers from the open region's handle on are the
  record of the rectangle framed last. What breaks it is what the property exempts.
- `TheToolboxDrawsWithinTheClip`: `FillRect` runs over rows, `FillRow` over ranges of the clip in
  the row, and each of these over the bytes from its first to its last. `Paints` says of a step that it changes
  exactly the pixels of a set, as ink and mode say. `PaintsMany` composes steps whose sets are disjoint, so
  each level only has to name its parts. At the bottom (`RowMask`, `PlaceInRow`) it is shown that the mask
  of each byte, the first and the last included, holds just the bits between the two edges, also when
  they are in one byte, and that a pixel lies in one byte of one row. A frame's sides and corners
  are disjoint when it is two pixels wide and high (`Proper`).
- `PortsDrawTheirShapes`: `PortsDrawWhatTheyName`, by the same lemmas, and `InvertedEitherWay`: white with NotXOr
  is black with XOr. For ovals it remains that the code's search names the pixels of the ellipse. It goes
  outwards from the middle row and starts each row where the last two let it. `EllipseReach` says that it stops exactly at
  the last pixel of the ellipse; the induction shows that the start is never short of it, because an ellipse is
  convex (`MiddleIsWithin`), and at most one pixel beyond the row before, so that no product leaves an int when
  `FitsInt` holds (`OneFurtherFits`). The rectangle of the trap and that of the image are the same as long as neither its
  coordinates nor its sizes leave 16 bits (`Fits16`).
- `MenusLeaveNoTrace`: `PopupsLeaveNoTrace`. `CopyBitsPaint` says the same of copies: the ink is the bit of the
  source that is as far from its corner (`Carried`), by whatever number of bits the two are shifted
  (`ShiftedIs`: each byte comes from two neighbours). What `SavedBitmap` keeps and `PutBack` draws are then two
  translations, one undoing the other (`SavedIs`, `PutBackIs`). `Story` is the invariant: outside the menu the screen is
  what it was with the title and at most the hovered item inverted, and what belongs under the menu
  is in its bitmap. It needs that nothing else draws while a menu is open, which the code ensures by tracking
  it in a loop of its own: the application's traps (the other families) are not called. A menu without items
  is excluded: its rectangle has no height, and its frame is drawn outside the rectangle that is put back.

Only model-checked:

- Liveness (`WaitsEnd`, `ReleaseEndsTracking`, `OnlyTheUserDelaysTheEnd`, `CallsArrive`) is out of the
  prover's reach.
- `PicturesArriveWhole`: runs are unpacked by a recursion over the data, and bands overlap, so
  their order counts.

## Plan

The order so far: the event queue and the threads (the only concurrency), the
heap (everything else lives in it), traps, resources and segments, regions,
windows with dialogs and menus, the memory with its watcher and the File Manager, QuickDraw.
What could come next:

1. Dialog items and what the mouse hits, InsertMenu and AppendResMenu,
   `SetWTitle`, the Close box.
2. A theorem about pictures (`CopyBitsPaint` is the lemma it needs).

## Not modelled

Fonts (glyphs are drawn by the same `CopyBits` as pictures; what remains is a
table of widths), controls (one drawing procedure without state), parsing and saving resource files (single
passes over a mapped file), code generators and command-line tools (they run at
build time or on files alone), logging, and the 68000 interpreter (external).
