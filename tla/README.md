# HooksOfSavior in TLA+

HooksOfSavior is a set of DLLs ("tools") that are injected into a running game
client, patch some of its functions so that calls lead to the tool's own *hook
functions*, and restore them when the DLL is ejected. This directory models the
parts of it that carry state, model-checks them with TLC on small instances, and
proves the central properties with TLAPS for every instance.

## The system

| Component | State it keeps | Operations | Interacts with |
|---|---|---|---|
| `NtHookEngine.dll` (binary) | a table of hooked functions; the first bytes of the client's functions | `HookFunction`, `UnhookFunction`, `GetOriginalFunction` | called by HookEngine; stays loaded when a tool is ejected |
| `HookEngine` | the global `engine`, its queue `patches`, the `Patch` structures | `new`, `hook`, `unhook`, `unhook_all`, `get_original_function` | every tool calls it; keeps its patches in a BbQueue |
| Tool life cycle (`DllMain`, `startInjection`, `endInjection` of each tool) | the mapped image, the injected thread | attach, hook the functions of its plan, detach | the injector starts both ends; the client's threads run the hooks |
| `PacketLogger` | `packetHandlersHooked`, `handlersHooked`, mutex, output files | hooks of `NetEncrypt`, `CNetUsr::Recv` and of each packet handler it meets | HookEngine, BbQueue, dbg |
| `DisableEncryption` | none | a hook that takes `NetEncrypt`'s place | HookEngine |
| `CameraOfSavior` | the saved matrix | a hook of `SetViewTM` | HookEngine |
| `LuaSavior` | `hLua`, `originalHook` | catches the client's Lua state, runs a script on it | HookEngine, the client's Lua threads |
| `BbQueue` | length, first and last child; children with data, next, prev | add, push, pop, positions, search, replace, ... | the container of all the others |
| `MemProc`, `Scanner` | chunks of a process's memory with their matches | dump, search, get results | Win32Tools, BbQueue, Ztring |
| `Ztring` | a BbQueue of characters; plain C strings | concatenation, search, replace, base64 | Scanner |
| `Win32Tools` | none of its own | wrappers of Windows calls, pattern search, masks from files | MemProc, Ztring, BbQueue |
| `dbg` | the global `_output` | choose an output, print, dump a buffer | PacketLogger |
| `Console`, `Utils`, `PacketType` | none | wrappers, macros, a table of names | |
| `HooksOfSavior`, `getClientPacketBuilders` | none | one-off research tools on the same life cycle | HookEngine |

What makes the system hard to test: three parties act on the client's code at
once (the injected thread that hooks, the loader that ejects, the client's own
threads that call), nothing synchronises them, and the library's table outlives
each injection. What makes each component correct:

- *HookEngine and the tools*: a jump into a DLL is always one its ejection will
  undo, and leads to a mapped image; a hook finds the original of the function it
  was entered by; the client cannot tell a hooked function from the original
  unless the hook replaces it on purpose.
- *PacketLogger*: however many handlers the client uses, and in whatever order,
  every packet reaches the handler it was for.
- *BbQueue*: a doubly linked list at all times; positions, first occurrences and
  ends mean what they mean on a sequence; no child is lost.
- *LuaSavior*: the script runs on the state it was loaded into; the injected
  thread gets its handler.
- *The packet log*: a dump goes to the file of its packet, the output is put back
  after every detour, and logging never keeps a packet.
- *MemProc and Scanner*: a search reports each occurrence inside a chunk, once; a block
  tells what the memory at its address held.
- *CameraOfSavior*: every view after the first is the one kept, whichever threads set
  views while it is being kept.
- *Ztring, Win32Tools*: a search answers with a place where the thing is; cutting,
  replacing, encoding and reading lines lose and repeat nothing.

`PROJECT.json` lists the hazards line by line with the property that covers each,
or the reason why none does yet.

## The modules

| Module | Models |
|---|---|
| `NtHookEngine` | the library, external: what its callers rely on |
| `HookEngine` | `HookEngine.c` in the steps between which other threads run |
| `HookTool` | a tool's DLL from injection to ejection, again and again, while the client calls |
| `CallThrough` | the abstract promise to the client: a call runs its own code once |
| `HookToolProofs` | the theorems about `HookTool` |
| `SharedQueue` | `bb_queue_add` of several threads, read by read and write by write |
| `PacketHandlers` | `CNetUsr__Recv` and the packet handler hooks, thread by thread, on two shared queues |
| `PacketHandlersProofs` | the theorems about `PacketHandlers` and `SharedQueue` |
| `CameraView` | CameraOfSavior's hook: the flag and the matrix kept, copied part by part |
| `CameraProofs` | the theorems about `CameraView` |
| `BbQueue` | `BbQueue.c` at the level of pointers, a call at a time |
| `BbQueueProofs` | the theorems about `BbQueue` |
| `WalkLemmas` | induction on the natural numbers, what walks along links meet, sequences without their last element or without one |
| `BbSequence` | what each call does, on a sequence of data without children |
| `BbHeader` | what `BbQueue.h` says of the queue and of four calls, where the code does something else |
| `LuaSavior` | LuaSavior's thread, its hook of `lua_gettop`, its ejection |
| `LuaSaviorProofs` | the theorems about `LuaSavior` |
| `PacketLog` | the global output of `dbg.c`, PacketLogger's mutex and files |
| `PacketLogProofs` | the theorems about `PacketLog` |
| `MemPattern` | the search of a pattern in a buffer, as operators: `Win32Tools`, `Scanner`, `MemProc` |
| `MemSearch` | MemProc's dump, search, results and update, Scanner's conditional search |
| `MemSearchProofs` | the theorems about `MemSearch`, and what the operators of `MemPattern` find |
| `Ztring` | the string and file functions of `Ztring.c`, as operators |
| `PatternFile` | `create_mask_from_file` and `hex_to_dec` of `Win32Tools.c`, as operators |
| `LibraryCalls` | a caller that passes texts through all of these |
| `LibraryDocs` | what two comments say of searches, where the code does something else |
| `MCHookTool`, `MCPacketHandlers`, `MCCameraView`, `MCLuaSavior`, `MCPacketLog`, `MCBbQueue`, `MCBbHeader`, `MCMemSearch`, `MCLibraryCalls`, `MCLibraryDocs` | finite instances for TLC |

Definitions whose comment begins with "Mutated:" are not part of the models. Each
is a plausible bug in the definition after it; replacing that definition by it
makes one of the properties fail (`PROJECT.json`, "mutants").

### NtHookEngine, HookEngine

`table` is the library's table, oldest entry first, `code[f]` what the first
instruction of function `f` leads to: its own code, a hook in an image, or the
bridge that `UnhookFunction` sends it to. Three facts about the binary matter and
are stated in the module: entries are never removed, a function already in the
table keeps the hook it was first given, and the original of a hook is that of the
first entry with its address. A bridge is named by the function whose code it runs.

`engine`, `patches` and `heap` are HookEngine's global, its queue and the patches
at their addresses. `HookEngine_hook` is four steps (allocate, queue, register,
jump), `HookEngine_unhook_all` three per patch (pop, unhook, free): between any two
another thread may run. Changes to the queue by different threads are atomic in
`HookEngine`, and so is the writing of a jump; the code guarantees neither.
`PacketHandlers` models additions to the same queue without that assumption.

### HookTool

Actors: the injector (`Attach`, `Detach`), the injected thread (`spc`, `si`, `sp`:
the step, the place in the plan, the patch in hand), the ejection (`dpc`, `dp`) and
the client's calls (`gpc`, `fn`, `via`, `orig`). `Plan` is the list of
`HookEngine_hook` calls of a `startInjection`; `Replaced` the functions whose hook
does not call the original (DisableEncryption). A hook's address is its name and the
base its image was loaded at. `crash` says how the client died: calling NULL,
following the NULL engine, or executing an image that is gone. All of these can
happen in the code, and in the model nothing happens after them; the properties
say what holds until then, and exactly why a crash happens where the code's design
allows one.

An ejection that begins before `startInjection` has ended (`early`) leaves the tool
no chance to be right, and is excluded from the properties that it would break by
name. A tool is attached again only after the injected thread of the earlier
injection is over; the injected threads of the modelled tools end by themselves.

### SharedQueue, PacketHandlers

`ends`, `next` and `prev` are the fields of the two queues that the client's threads add
to without a lock: `packetHandlersHooked` ("met") and `engine->patches` ("patches").
`step[t]` is thread t's place in `bb_queue_add`: the test of the length, each store to a
link, each end, and the load and the store of `len++` are steps of their own, and
`q->last` is read anew where the code reads it anew. Children are numbered as they are
allocated; `holds` says what each holds. `bb_queue_exists` sees what a walk from the
first child meets (`Listed`), `HookEngine_unhook_all` what popping from the last takes
off before the length is 0 (`Poppable`), or before `bb_queue_pop` follows a NULL pointer
(`PopFaults`): after two additions that overlapped, the length may count more children
than the links lead to. Nothing is claimed of `unhook_all` then but that no child comes
twice (`NoCircle`). A walk by `bb_queue_exists` is one step, an
abstraction: it sees the links as they are at one moment.

`handlersHooked` is the other static variable of `CNetUsr__Recv`. Each thread tests
`Listed("met")`, adds, loads and stores the counter, and runs the steps of
`HookEngine_hook`; then it runs the original `Recv`, which sends packets to the handler
through whatever its first instruction leads to. The model starts where
`startInjection` has hooked `Recv`, and nothing is ejected in it (that is HookTool's
question). `overlapped` and `countRaced` are history: which queue two threads were
adding to at a time, and whether two incremented the counter at a time.

### CameraView

`init` and `original` are the static flag and the matrix, shared by the threads that set
views. A `memcpy` copies one part of a matrix after the other; a thread reads the flag in
one step, writes the matrix in many and sets the flag in another, as the compiled code
may. `view[t]` is the matrix of a call, which the hook overwrites before it calls the
original. `kept` (the views of the calls that found the flag unset) and `late` (the
calls that began after the last of them was done) are history.

### LuaSavior

On top of `HookEngine`, with one function and one hook. The injected thread (`spc`)
hooks `lua_gettop`, reads `hLua` until a call has left its state there, removes the
patch from the queue and unhooks the function, then loads `script.lua` on `hLua` and
calls it, again for each keypress of the user. `chunks[L]` counts the scripts that lie
loaded and uncalled on the stack of state `L`: a call on another state than the load
is visible as a missing one. The client's threads (`gpc`, `self`) call `lua_gettop`,
each with the state it runs; in the hook they write `hLua` and run the original
through the patch's bridge. An ejection may begin at any step. Its `unhook_all` and the
thread's own unhooking take from the same queue.

### PacketLog

`_output` is `dbg.c`'s global, `mutex` its owner, `pc` and `kind` a thread's step in the
hook of a received or sent packet or in `CNetUsr__Recv`'s note of a new handler,
`where` the files its latest text went to. `_dbg` is three steps (it tests `_output`, stores
the console in it if it was NULL, and reads it again to print), since another thread may
set the output between any two; `_buffer_print` is a step for each piece that it prints, and
reads `_output` for each. `file` and `closed` are the packet files:
`fopen` may fail, and a closed file may still be the output for a moment, in which a
thread that does not hold the mutex writes to it. Such a write is lost or kills the
client, at random. `startInjection` builds the paths of its two files with a format that
wants one more argument than it gets; either file may therefore be one that does not
open, and the initial states cover all four cases. When the output is NULL, `_dbg`
turns it to the console and `_buffer_print` does not, which is the other way to die. A thread
that has found it NULL may store the console late, over a packet file that another thread
put there under the mutex, or when nobody borrows the output any more. Both are in the
code; `DumpsPlaced` and `OutputRestored` allow the console for just these cases (`Stray`),
and no other place.

### BbQueue and BbSequence

`next`, `prev` and `data` are the fields of the children, `allocated` the addresses
in use. Each action is a whole call; `call` and `ret` record it and its answer, so
that refinement to `BbSequence` compares both the answer and the sequence.

`BbSequence` is written from the code. On four points the code contradicts what `BbQueue.h`
says of it: inside the queue `bb_queue_add_nth` inserts one place further than asked for
(the header says that this was mended), `bb_queue_insert_before` inserts behind the item,
`bb_queue_put_last` and `bb_queue_put_first` take the only item of a queue for the one asked
for (the header has them be a remv and an add or a push), and `bb_queue_get_nth` removes the
first item equal to the one at the position. `BbHeader` states the header's side of each, and
that the queue is a doubly linked list, which `bb_queue_add_nth` at the last place breaks.
`broken` remembers which of the five statements some call did not keep: were one of them true, no
sequence of calls could break all, and `HeaderRightSomewhere` would hold. The trace TLC finds
refutes them one by one. Beyond these, the length is the last place, an absent item is
fatal to the insertions, and `bb_queue_insert_before_bb_child` does insert before. NULL is
not among the data: `memproc_search` does queue offset 0, and whoever takes it out cannot
tell it from an empty queue but by the length, which is what MemProc looks at.
`bb_queue_bubble_sort` follows the
data as pointers to integers, so the data are integers here. Its rounds are run over the
children; `BbSequence` says only that the items are rearranged in ascending order.
`Careful` says that no caller passes `len - 1` to `bb_queue_add_nth`, the one call
after which the queue is no longer well linked.

### MemSearch

`mem` is the other process's memory, which it may write at any step; `memchunks` the
chunks of the last dump, each with the buffer it was read into and the matches not yet
taken. A dump is a step per region, which is copied (`DumpRegion`) or left out by the caller's
`boolean_function` (`PassRegion`; the filter of `memproc_dump` and `memproc_dump_sections` takes
every region), and an update a step per block, since the process
runs between them; a search and the taking of results touch buffers only and are one
step. A read may fail, and leaves zeros in a new chunk and the old bytes in a block; it
fails as a whole, which is what the code does for regions of up to 128 KB (a longer one
may be read in part). `find_pattern` looks behind the end of a buffer, so `Behind` is
what may lie there, chosen anew by each search. A match that the end cuts off makes the
remaining size wrap around: the search then cannot stop before it faults, and the model
has it crash at once. A block is remembered until the caller starts a new search or
dump. `asked` and `of` (which searches the matches and the blocks come from), `changed`
and `fresh` (what was written since) are not in the code; the properties need them.

### MemPattern, Ztring, PatternFile, LibraryCalls

The functions without state are operators, as the code computes them: `Counted` is the
loop that `str_n_pos`, `str_pos_reverse` and `str_replace` share, with the letter that
ends a partial match not compared again; `str_bet` computes with a missing end as if it
were a place; `find_pattern_process` tests an offset as if it were an address. Strings
are sequences of bytes and positions count from 0. `LibraryCalls` is their caller: it
holds one text, which serves as a string, a file and a process's memory, and makes one
call after the other; a result may become the next text, so that functions are composed
in every order. `reader`, `place` and `lines` are a file or string that is being read
line by line. `result` remembers the last call with its arguments, text and value.
A char takes byte 255 for EOF, in the functions that keep `fgetc`'s result in one.
`mem_search` and `find_pattern_process` read behind the memory they search as far as
the mask goes: `Behind` is what may lie there. `find_pattern_process` copies the memory first,
and answers 0 where `malloc` or the read fails (`copied`), but also for a match at the start.
The comment above it says that 0 is an error, and `Ztring.h` that `str_pos` works like the
function of PHP: `LibraryDocs` states both and remembers, as `BbHeader` does, which was broken.

`str_replace` is the code's two phases: all places and the length of the result first
(`Places`), then the filling of a buffer of that length, each part from and to places
that the replacements before it have shifted (`Filled`). Its value is the whole buffer with
its NUL, so that a letter left unset (`Unset`), lost, or written behind the end shows.

Three functions do not end what they allocate. `str_b64_encode` writes no NUL and
`str_repeat` without a repetition writes nothing: what the heap holds there (`Leftover`) is part of
their value, and a caller that keeps it has it up to the first NUL (`Terminated`).
`str_explode` writes each part's NUL one byte behind the part's buffer. That may hit nothing
or damage the heap: the model has both outcomes, and goes no further after the second
(`Damaged`). `create_mask_from_file` calls it for each of its lines.

## What TLC checks

| Run | Instance | Shows |
|---|---|---|
| `HookTool_client` | plan of two hooks, one of which replaces, one injection, two calls at a time, two patch addresses | `JumpsCovered`, `PatchesOwned`, `OwnOriginal`; refinement of `CallThrough`; `DetachCompletes` |
| `HookTool_reinject` | the same plan, two injections at two addresses, a table with room for one hook | `JumpsIntoImage`, `LookUpFailsAfterRebase` |
| `PacketHandlers_race` | two threads, two handlers, two declared hooks, three children per queue | `ClientSurvives`, `OwnHandler`, `NoCircle`, `SameBothWays`, `HandlersCovered`, `NullCallOnlyIfHookedTwice` |
| `PacketHandlers_unique` | one thread, two handlers more than declared hooks | *violated* `UniqueHook` |
| `LuaSavior_script` | two client threads, two Lua states, one keypress, an ejection | `JumpLeftOnlyMidway`, `SettledForGood`, `ScriptRuns` |
| `PacketLog_files` | two threads, each receiving, sending, and one new handler; `capture.txt` and `handlers.txt` open or not | `DumpsPlaced`, `OutputRestored`, `PassedOn` |
| `BbQueue_calls` | up to four children, two data, positions -2 to 5 | `WellLinked`, `OnlyAddNthLeaks`, refinement of `BbSequence` |
| `BbQueue_header` | three children, two data, positions 0 to 2, callers not `Careful` | *violated* `HeaderRightSomewhere`: a sequence of six calls refutes five statements of `BbQueue.h` |
| `MemSearch_dump` | two regions of three and two bits, patterns of one and two with and without a "?", two searches before their results are taken, one write | `MatchesLeftmost`, `BlocksInside`, `BlocksTellMemory`, `OverrunOnlyAtTheEnd`, `CondAnswered` |
| `Library_calls` | all texts of up to five letters out of four, of up to four odder ones, mask files of up to three lines | `SearchesSound`, `PartsDelimited`, `RewritesFaithful`, `LinesRead`, `MaskOneByteLate` |
| `Library_docs` | texts of up to three letters | *violated* `DocsRightSomewhere`: `str_pos` passes an occurrence by, and 0 answers a match at the start of the memory |
| `Camera_view` | two threads, matrices of two parts with two values | `OneView`, `ViewSettles` |

The bounds. A plan of two functions has a first, a last and, after a failed hook, a
missing entry; with two patch addresses one is free again while the other is queued.
Two calls are enough for one to be inside a hook while the other enters it; no
property relates three calls. Two injections are the first at which the library's
table is not empty, and a table of one entry makes `HookFunction` fail at either
place of the plan. Four children are the first queue length with two inner children,
where the walks from both ends differ; two data values make duplicates. `BbQueue_header`
refutes, for which three children are enough. With two
handlers and two hooks each race on the counter (the same hook twice, two hooks for
one handler, a hook past the last) happens, and three children per queue (`MaxChild`) are enough to
lose the second of two additions to a queue that is empty or holds one.

In `Library_calls` a search string of three letters with a period of one and one of two
occur at the start, at the end, next to each other, overlapping and behind a partial
match in texts of five. A base 64 group of three bytes is followed by an incomplete one.
Results longer than three bytes (`MaxKept`) are not kept: each text that is kept multiplies
the texts that follow, and the texts to begin with are longer. The heap behind an unterminated
result holds a NUL at once, or six bytes before one, letters of base 64 among them (`Leftover`). In `Camera_view` two parts can be
copied from two views; three threads were checked once, with nothing new.

In `LuaSavior` two threads are the fewest with which one call can still be on its way
to `hLua` after another has set it, and two states the fewest that differ; one keypress
(`MaxReloads`) gives a second load and call. In `PacketLog` one new handler
(`NewHandlers`) is enough for a detour of the output to overlap one under the mutex; a
third thread would only wait for the mutex or do what the second does.

In `MemSearch` a buffer of three holds two occurrences of one byte pattern side by side
and an overlapping pair of a two-byte one; the two regions are adjacent, so that a
pattern may lie across them, and each has an image in which one is cut off. Two searches
without taking the results (`MaxSearches`) are the fewest that mix lengths.

Fairness (`HookTool!Fairness`): the scheduler runs the injected thread, the thread
of the ejection and every call in progress, since nothing in the code blocks them.
The injector need not eject, and the client need not call. `LuaSavior` adds that the
client keeps calling `lua_gettop`, as a client that runs Lua does; the thread has
nothing else to wait for. `CameraView` assumes that a thread in the hook runs on, which
nothing in the hook can stop; no thread need call it. In `PacketLog` a thread that runs is weakly fair, and taking
the mutex strongly fair: Windows serves the waiters of a mutex in turn. Deadlock is not checked
where the client may crash or the heap be damaged: the model stops there.

## What is proved

Every invariant, action property and refinement that a passing run checks of `HookTool`,
`PacketHandlers`, `SharedQueue`, `CameraView`, `LuaSavior`, `PacketLog`, `BbQueue` and
`MemSearch` is also a theorem, for every value of the constants. What follows names, for each
component, the inductive invariant the theorems rest on and why it is needed.

**HookTool** (every plan with distinct functions and hooks, any number of calls, load
addresses, patch addresses and injections).

- `TypeCorrect`: `Spec => []TypeOK`.
- `OwnOriginalCorrect` and `CallThroughImplemented`, from the inductive invariant
  `Attribution`. `OwnOriginal` alone says nothing of a call that has not looked up
  its original yet: the invariant adds that each entry of the table and each jump of
  a function names a hook planned for that function (at some address), and that a
  call inside a hook is inside one planned for the function it called. Since a plan
  has distinct hooks, the first table entry of a hook can only be that function's.
  Every step of `HookTool` then is a step of `CallThrough` or leaves it unchanged.
- `JumpsCoveredCorrect`, `JumpsIntoImageCorrect` and `PatchesOwnedCorrect`, from the
  inductive invariant `Coverage`: which patch is where in each phase of hooking and
  unhooking (`Phases`, `Pending`), who owns an allocated patch (`Ownership`), and
  that a jump belongs to a registered function (`JumpsRegistered`), without which
  `UnhookFunction` would ignore it.
- `LookUpFailsAfterRebaseCorrect`, from `LookUps`: a call in a hook was led there by a
  jump, so the library knows its function, and one whose lookup failed is in a hook that no
  entry has.

**PacketHandlers and SharedQueue** (any threads, handlers and declared hooks, any number
of children; every interleaving of unlocked additions).

- `TypeCorrect` proves `TypeOK` with `InPlace` (a thread in `bb_queue_add` is there for
  the step of `CNetUsr__Recv` it is at), `LengthBounded` and `CountBounded`: a length or a
  counter is no more than what was added, also when a store overwrites another one's.
  Without these two, `len` and `handlersHooked` would have no bound.
- `OwnHandlerCorrect`, with `NumbersOwned` (while no two threads count at a time, no number
  is given to two handlers) and `CodeGiven` (a handler's jump is one it was given).
- `HInvInductive`: `HookedOnce`, `MetOnce` and `HeldHandlers` follow a handler from its
  first meeting to its patch, `MissedTwice` says that a lookup that found nothing was that of
  a handler hooked twice, and `CrashExcused` that only this kills the
  client, besides a handler without a hook. `NullCallOnlyIfHookedTwiceCorrect` and
  `ClientSurvivesCorrect` follow.
- `QueuesInductive`: as long as additions to a queue never overlapped, the queue is a list
  of consecutive children, or one with a single addition in the middle (`TidyAlone`,
  `TidyBut`), and the patch of every handler with a jump is in it (`PatchQueued`).
  `SameBothWaysCorrect` and `HandlersCoveredCorrect` follow by walking that list.
- `NoCircleCorrect`: even when additions overlap, no links close a circle. The children can be
  ranked by when they became the last one, such that `next` links lead up and `prev` links down
  (`RanksExist`); a walk that only climbs makes no more steps than there are children
  (`RankedWalkEnds` of `WalkLemmas`). It does not follow that the loop of `unhook_all` comes to
  its end: that one counts the length, and `SameBothWays` excludes a NULL pointer in its way
  only where no two additions overlapped.

**BbQueue** (any addresses, data and positions, for callers that are `Careful`; without
them `WellLinked` is false, as the last call of `BbQueue_header` shows).

- `IInvInductive`: some list of allocated children is the order of the queue (`Ordered`):
  the ends are its ends, and each child's links are its neighbours in the list.
  `WellLinked` says this of the walks; as an invariant it would need the walks of the
  next state in every step. With a list, a call that links a child is an insertion into
  it (`InsertLinked`), one that frees a child a removal (`RemoveLinked`), and
  `bb_queue_put_last` and `bb_queue_put_first` are one after the other.
- `WellLinkedCorrect`, since the walk from either end meets the list
  (`WalksMeetChildren`), and `TypeCorrect`, since a list of distinct children is no longer than
  there are addresses. `bb_queue_bubble_sort` is part of it: each round swaps data of children only.
- `OnlyAddNthLeaksCorrect`: what is allocated and not in the list stays the same in every
  other call.
- `ImplementsSequenceCorrect`: `BbQueue` implements `BbSequence`, which is the code's meaning of each
  call, not always the header's (`BbHeader`). Each lemma about a change of the
  links also says what the children hold afterwards, in order (`Holding`): an insertion into the
  list of children is one into the items (`InsertedItems`), a removal one from them. The walk
  of `Items` meets the list in every state (`OrderedIsMet`), before a step and after it, so
  each call is the one of that name on the sequence (`NextSeen`), with the same answer. Two things
  are needed besides `IInv`: that no item is what a freed child held (`HoldsData`, which each call
  keeps), and that a search by data, from the front, and one by position, from the nearer
  end, find the child at the place the sequence gives (`PlaceFacts`, `AtFacts`).
- The sort is part of it (`SortSeen`). A round is a chain of exchanges (`RoundIterates`), each of
  which rearranges the items (`SiftedRearranges`) and brings the greatest so far one place
  further (`SinkStep`), unless it has come to the places settled before, which stay. So each round
  settles one more place (`RoundSeen`), and `len` rounds all of them.

**CameraView** (any threads, views and number of parts). `OneViewCorrect`
(`Spec => []OneView`) and `SettledForever`: a matrix that no call is about to write, with
the flag set, is never written again. `OneView` speaks of calls that are about to set a
view; the inductive invariant `IInv` follows the copying there: a call that keeps
its view has filled the parts before its place with parts of views kept (`Keeping`), no
part is the default one once the flag is set or about to be (`Filled`), a call that
replaces finds the flag set and has filled its view from views kept (`Replacing`), a
call that began after the matrix settled finds it settled still (`Lasting`), and each
copy begins with the first part (`Starting`). `KeepPartStep` and `ReplacePartStep` are the
two steps that copy.

**LuaSavior** (any threads, Lua states, patch addresses and reloads). `TypeCorrect`, with
`ChunksBounded` (a load adds one chunk to a stack, a call takes it); `SettledForGoodCorrect`,
the action property that once the hook is gone and no call left in it, `hLua` stays the same;
`JumpLeftOnlyMidwayCorrect`, from `IInv`: there is one patch, and it is the thread's
(`OnePatch`); the ejection comes after the hooking unless it is early (`InOrder`); the jump is
written for a live patch that was queued first (`JumpOfPatch`); and as long as it is there,
somebody holds its patch (`JumpHeld`), but for the one step of the thread's own unhooking
between taking the patch from the queue and unhooking.

**PacketLog** (any threads and new handlers; `_dbg` and `_buffer_print` in their single reads and
writes of the output).

- `TypeCorrect`, and `OwnedCorrect`: mutual exclusion.
- `OutputRestoredCorrect`, from `KnownInductive`: the last thread to give the output back gives
  back the default, in whatever order they lent it. A thread that has found no output stores the
  console later, perhaps after all borrowings are over. The invariant therefore says why one may find
  none (`NullExplained`): `capture.txt` did not open, `handlers.txt` did not and a handler was
  met, or a thread is stuck with a packet file that did not open and dies of it.
- `DumpsPlacedCorrect`, which needs both and `OutputHeld`: until the first new handler is met, the
  thread that owns the mutex finds the output as it left it, or the console if a thread without
  the mutex had found no output before; what was printed went there, piece after piece.

**MemSearch** (any regions, patterns, memory images and bytes behind the buffers, any number of
searches and writes).

- `ScanFacts` says what `Scan` finds, by `UpTo` over the place a search has come to: increasing
  offsets of occurrences, each at least a pattern after the one before, and no occurrence
  between that end and the next match. A search that is not cut off by the end of its
  buffer therefore answers a `Leftmost` set (`SearchedLeftmost`), and `LeftmostUnique` says that
  there is only one. `MatchesLeftmostCorrect` follows.
- `TypeCorrect` is the inductive invariant `Typed`: besides the types, each chunk is the copy of a
  region (`ChunksTyped`), a dump has made a chunk of each region it has come to, and nothing is searched before it ends (`InCall`), and
  each match lies whole within its buffer for one of the patterns asked, the last of which
  gave `mask_len` (`MatchesFit`). `TypeOKCorrect` is its first part. `BlocksInside` alone is not
  inductive: it says nothing of matches of which no blocks were made yet. With `MatchesFit`, if
  all patterns asked have one length, all matches fit with the length that `memproc_get_res` takes.
- `BlocksTellMemoryCorrect` needs `ChunksTell`, the same of the chunks: until memory is written, a
  chunk that could be read holds it. A block is a part of one (`TakenFrom`).
- `OverrunOnlyAtTheEndCorrect`: what a match promises of the bytes in front of the buffer's end.
- `CondAnsweredCorrect` brings these together: the blocks of a search are those of the
  leftmost occurrences in all chunks (`BlocksOfFacts`), `scan_search` makes one group of each
  run of "?" in the mask (`GroupsFacts`), and the first accepted one is returned.

The assumptions are the named `ASSUME`s of the modules. `MemoryAssumption` says that regions and
patterns are not empty and that behind a buffer there are at least as many bytes as a
pattern has: what the heap holds there is arbitrary, and reading it is taken not to fault (where it did, the
program would end). `HandlerAssumption` says of the
declared hooks that they are distinct and that neither `CNetUsr__Recv`'s hook nor NULL is
among them: they are functions of one DLL. `Careful` is the hypothesis of the theorems
about `BbQueue`, not an assumption.

The library's induction theorems range over operators, which the provers cannot
instantiate. `WalkLemmas` has induction over sets instead: every set of natural numbers with an
element has a least one (`LeastNatural`, from the library's well-foundedness of finite sets), so
a set closed under successor holds all numbers up to a bound (`UpTo`). With it the
recursive functions of the models are shown to exist (`WalkExists`, `WalkForever`,
`IterationExists`), and what they return is proved place by place.

Only model-checked:

- liveness (`DetachCompletes`, `ScriptRuns`, `PassedOn`, `ViewSettles`), which the prover cannot
  do. `SettledForever` and `SettledForGood` are the parts of it that say how long.
- `LibraryCalls`: `Ztring`, `PatternFile` and it declare recursive operators, which the
  prover cannot take.

## Not modelled

- The bytes of a jump and of a packet, files and their text, the injector programs
  and the client: external, or data no property looks at.
- `Console`, `Utils`, `PacketType`, the LuaJIT headers: no state, or third-party.
- `HooksOfSavior` and `getClientPacketBuilders`: the same life cycle with hooks that
  only log. The hooks of `HooksOfSavior` that keep state (`lastCmd`, `alreadyCalled`) are
  in the code and not installed: the calls that would hook them are comments.
- What two threads do to one Lua state at once, and what the mutex's waiters are told
  when its owner dies: inside other people's code.
- In `Ztring`: the `ztring_*` calls (BbQueue calls on letters), buffers, copies and pointers into
  strings, wrappers of file calls. `str_cat` never copies its first argument
  and appends to memory fresh from `malloc`. `str_explode`, `str_b64_encode` and `str_repeat` do not
  end what they allocate either; the models have what a caller may see of it (above), not what
  becomes of a damaged heap. `str_trim` may move bytes from behind the final
  NUL, which do not reach its result. What either reads there is not defined.
- In `Scanner`: `memscan_buffer`, `memscan_string` and `memscan_buffer_mask`, whose size is an address,
  the first two with a mask that has no end; `memscan_search_buffer` and `memscan_search_string`,
  whose mask has none either, where `memproc_search` takes its length. What they answer depends
  on the heap.
- In `Win32Tools`: the wrappers of processes, windows, modules and bitmaps; the walks of a
  PE file's import and export tables; hooks by import table; `injectDLL` and `EjectDLL`. Nothing in
  the repository calls them, the tools are injected by an external program, and HookTool
  models what an injection and an ejection do to the tool.
- In `BbQueue`: `copy`, `reverse`, `concat` and `concat_nth` walk one queue and add to another;
  the walk and the additions are modelled on one queue.
- Most of the repository's lines are headers of third parties (LuaJIT), declarations of Windows
  structures, and the table of `PacketType.c`: there is no behaviour in them.

## Plan

Every safety property the passing runs check is a theorem, but those of `LibraryCalls`. What is left
is more of the code under models: `Ztring`'s `ztring_*` calls over `BbQueue`'s, the two-queue calls of
`BbQueue`.
