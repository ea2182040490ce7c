# A formal model of dismember

dismember is an interactive disassembler. A user opens a binary, points at
addresses, and asks for them to be analysed, undefined, named or given a data
type; a background thread follows the code, creates instructions and data, links
them with cross references and names them. This directory holds TLA+ modules of
that core, TLC configurations that check them on small instances, and proofs.

Paths below are relative to `src/client/`.

## 1. The system

### Components

| Component | State | Operations | Talks to |
|---|---|---|---|
| Run queue (`run_queue.cpp`) | priority queue of jobs, mutex, condition, `m_done`, `m_currentTask`, `m_taskRunning` | `submit`, the worker's loop, destructor; unlocked readers | executes jobs, is polled by the monitor |
| Memloc table (`memlocmanager.cpp`) | ordered map and hash table of memory locations ("memlocs") | insert, find, remove, iterate | project model |
| Memlocs (`memorymodel/memlocdata.cpp`) | address, length, `m_prev`/`m_next`, `m_explicit` | construct, destroy, link lazily | look each other up in the table |
| Project model (`memorymodel/memorybackedprojectmodel.cpp`) | the table, symbols, xrefs, comments, segments, hooks | create and remove memlocs, create xrefs and symbols, notify hooks | everything below |
| Cross references (`xrefmanager.cpp`) | master list, two multimaps | create, count, iterate; never removed | project model |
| Flow analysis and undefinition (`program_flow_analysis.cpp`) | locals of a job | decode, continue, submit branch targets; remove what follows | run queue, project model |
| Symbol analysis (`symbol_analysis.cpp`) | an iterator into the table | name memlocs that are referred to | project model |
| Symbols, comments (`symlist.cpp`, `comment.cpp`) | hash tables, lazily sorted vectors | set, get, enumerate | project model, views |
| Segments, addresses (`memsegment*.cpp`, `address.cpp`) | buffers, ordered set | add, locate, read; arithmetic, order, validity | everything |
| ARM decoding (`arch/arm`) | none | opcode to flow, target, data reference; and once more to text | creates instructions, lists them |
| Code blocks (`codeblock.cpp`) | blocks and edges | build from memlocs and xrefs | Python only |
| Search (`search.cpp`, `qt/searchwidget.cpp`) | results list, finished flag, pattern buffer, queue of abandoned results | search job; poll, next, previous, stop | run queue, segments |
| GUI refresh (`qt/runtimemodel.cpp`, `qt/guiproxy.cpp`) | `m_updated`, `m_dirty`, line index, last line found | post, time out, rebuild, line to address and back | hooks, views |
| Code view (`qt/codeview.cpp`) | selection, stack of jumps, counted modifiers | keys, mouse, menus and dialogs; analyze, undefine, setSymbol, setDataType, setComment | run queue and project model |
| Terminal (`qt/pythonterminalview.cpp`) | command, cursor, history, counted modifiers | line editing, history, paste, execution | Python |
| Run queue monitor (`qt/runqueuemonitor.cpp`) | a flag and a label | poll | run queue |
| Workspace (`document.cpp`, `qt/application.cpp`) | owns the above | create, replace | all |
| Loaders (`loaders/`) | none that lasts | recognise a file, read and check it, add segments and symbols | project model |
| Data types, Python, other views, file helpers | registries, widgets | create instances, bind, paint | project model |

### How they interact

Two threads share a project without a lock: the **GUI thread** (commands, views,
timers) and the run queue's **worker**. Only the queue itself has a mutex.

* A command either calls the project model directly (`setSymbol`,
  `setDataType`) or submits a job. `analyze` submits two: a flow analysis
  (priority 20) and a symbol analysis (priority 0).
* A flow analysis calls `createMemlocDataAt`, which inserts the instruction,
  creates xrefs, and for a data reference calls itself again; then it submits
  a job for the target of a direct branch. An exception ends the job; the worker
  catches it and goes on.
* Opening a file makes a fresh workspace and asks every loader how well it matches; the
  best one reads the file, on the GUI thread.
* Every change is announced to hooks (the line index marks itself dirty), and a
  job ends with `postGuiUpdate`, which raises a flag that a GUI timer polls.

### What is hard

1. *Interleaving.* Each job takes several calls, and the user may change the
   project between any two: check-then-create in both analyses, looked-up
   pointers and iterators that outlive what they point to.
2. *Order.* That symbols are up to date after an analysis rests on priorities
   and on jobs that submit jobs.
3. *Partial failure.* An insertion throws after it has erased; a job ends with
   its instruction inserted and its branch target not submitted; a data reference
   to an invalid address ends the naming of everything behind it.
4. *Redundant state.* Map and hash table; neighbour links; function entry flags;
   xrefs that outlive memlocs; sorted vectors, the line index and its cache.
5. *Boundaries.* Adjacent segments, data that starts outside its segment,
   instructions inside instructions.
6. *Wakeups and termination.* A worker that sleeps on a condition; a job queue
   that feeds itself; a widget that polls a flag.
7. *Two descriptions of one thing.* An instruction is decoded twice, from two tables;
   a place in the listing is a row here and an address there; an image's size is added
   up in one loop and used up in another.
8. *Long sequences of events.* History, jump stack, modifiers and search queue depend
   on all that was pressed before.

`PROJECT.json` lists these hazards line by line, with the properties that cover
them and those that are still open.

### What makes each component correct

| Component | Properties |
|---|---|
| Run queue | no lost wakeup; each job once; a job starts after everything of higher priority submitted before it, and what that submitted; the flag and the pointer agree; queued jobs run; the worker leaves when told to |
| Memloc table and memlocs | both tables equal; no overlap; a look-up finds what covers an address; links lead to living, contiguous neighbours and back |
| Analyses and project model | no loose ends once the queue is dry; branches have xrefs; names up to date; the user's names kept; undefinition spares explicit memlocs; termination |
| Symbols, comments | one table, seen from outside; vectors equal the table when read |
| Segments, addresses | disjoint; locating is inverse to the value; reads stay inside |
| GUI refresh | every change is eventually shown; lines and addresses are inverse |
| Search | results are occurrences, once and in order, of what is in the box; the first is shown; nothing deleted is used |
| Loaders | the best one reads; memory is what an accepted file says; a refused file leaves nothing |
| ARM decoding, data types | both decoders and the datum agree; what writes the program counter does not continue |
| Code view, terminal | the user keeps his place where a refresh can know it; the history is not read out of range |
| Workspace | nothing is used after its workspace is deleted |

## 2. Modules

| Module | Models |
|---|---|
| `RunQueue` | `run_queue.cpp`: every lock, wait and unlocked access a step |
| `JobExecutor` | what the clients of the run queue rely on, as a service without threads: the abstract specification of `RunQueue` |
| `RunQueueMonitor` | `RunQueue` with `runqueuemonitor.cpp` and the unlocked readers |
| `MemlocManager` | `memlocmanager.cpp` and `memlocdata.cpp` |
| `Analysis` | the three jobs, the project model's calls and the user's commands |
| `GuiUpdate` | `guiproxy.cpp`, the timer of `runtimemodel.cpp`, the selection of `codeview.cpp` |
| `MemSegments` | `memsegment.cpp` and `memsegmentmanager.cpp`, as operators |
| `TextLoaders` | the hex and S19 loaders, as operators on lines of digits |
| `ObjectLoaders` | the ELF, Mach-O and bFLT loaders, as operators on headers and tables |
| `Loading` | opening a file: choice of the loader, its effects one by one, the refresh |
| `ArmTable`, `ArmDecode` | the table of `disasm.cpp`; both decoders, as operators on the bits of a word |
| `Listing` | an instruction and the datum it refers to, created and listed; strings and constants |
| `SymbolTable`, `SymbolService` | what a symbol list stands for, as a function and as a service to two threads |
| `SymbolList` | `symlist.cpp`, `comment.cpp` and their callers on both threads |
| `Search` | `search.cpp` and `searchwidget.cpp` |
| `Terminal`, `CodeView` | the line editor; the view's keys, mouse, menus, dialogs and refreshes |
| `Input` | `Terminal` and `CodeView` under one keyboard, with files opened meanwhile |
| `RunQueueProofs`, `MemlocProofs`, `GuiUpdateProofs`, `LoadingProofs`, `AnalysisProofs`, `SymbolListProofs`, `SearchProofs` | theorems about the module each is named after |
| `ViewProofs` | theorems about `Input` and about `Listing` |
| `MCRunQueue` and so on | instances for TLC |

They stack. `Analysis` takes from `RunQueue` that jobs run one at a time, to
their end, highest priority first (`JobExecutor`, shown by refinement; `run_queue.cpp:28` and 137
give that order and `analyze()` relies on it, while `run_queue.h:97` says of `submit()` that it adds "to the bottom of
the queue", which is a finding), and from
`MemlocManager` that the tables hold the same memlocs, do not overlap and find
what covers an address (`TablesAgree`, `NoOverlap`, `FindsCover`, proved), which
is why it can have the memlocs as one function from addresses. What an opcode
decodes to, a constant in `Analysis`, is worked out in `ArmDecode`. `GuiUpdate` abstracts
the jobs of `Analysis` to what a refresh sees of them: memlocs come and go, each
with a notification at its place, and a job ends with a post or an exception.
`CodeView` takes from `GuiUpdate` that a finished rebuild lists the items as they
are, and keeps of it the rows; between rebuilds it counts lines through the items as they are
by then, as `GuiUpdate` does. `Loading` fills the segments the others start from;
it takes from `SymbolTable` what a name does, and `SymbolList` implements that
(`ImplementsTable`, proved). The table does nothing for a name that another address has, as the code;
`symlist.h:132` promises otherwise, and that is a finding.

### RunQueue

`lock` owns `m_jobFifoMutex`; `jobs` is the priority queue as a set; `waiting` is
true while the worker sleeps in `wait()` and has not been notified, so that
`wait()` releases the mutex and falls asleep in one step (`WaitOrGo`) and takes
the mutex again in another (`WakeUp`), possibly without a notification
(`SpuriousWakeup`). `pc` follows the loop statement by statement: `CheckDone`
(line 125, without the mutex), `LockFifo`, `Fetch`, `WaitOrGo`, `UnlockFifo`,
`SetCurrent`, `SetRunning`, `EndExec`, `ClearRunning`. `exec()` returning and
throwing lead to the same statement and are one action. `submit()` is four
steps per thread and may be called by clients, or by the worker inside
`exec()`: `Parent` says which jobs a job submits. The destructor takes part,
though nothing calls it at this commit; it does not join the worker.
`ahead` and `execs` are history variables, for `DrainedBeforeBegin` and
`ExecutedOnce`.

A job is a value that is submitted once; several equal jobs are several values.
Which of the jobs of equal priority is popped is left open, as the heap does.
`run()` and `stop()` are empty functions.

### RunQueueMonitor

The monitor's timer fires between any two steps of the queue. `Timeout` reads
`m_taskRunning` and does nothing while the answer is the one it knows; `TaskName`
reads flag and pointer again, without the mutex, and has a reference to the job's
name; `CopyName` copies it, and records in `freed` whether the job was gone by
then. `MonitoredSpec` is `RunQueue` with these steps; the run `run_queue` checks it, so that
every property of the queue is checked with a reader beside it.

### MemlocManager

An object (`Objs`) is a constructed `MemlocData`, with its segment, offset and
length. `memdata` and `hash` are the two tables as sets of objects; insertion and
removal compare by value in the one and by segment and offset in the other, as
the code does. `Construct` is the constructor, which links the object before it
is in the tables; `Insert` is `insertMemloc`, with the erasures it has done when
it throws; between the two a thread has an object in `fresh`. `Remove` is
`remove_memloc`, with the destructor; `LinkPrevious` and `LinkNext` are the lazy
look-ups of the two getters. `next` and `prev` of overwritten or rejected objects
stay as they are: those objects are never deleted.

`disturbed` is a history variable: some insertion threw, or another call came
between a constructor and its insertion. `LinksSound` is about the runs where
neither happened; without that restriction (`LinksAreContiguous`) one thread suffices
for a link to a memloc that is in no table.

Abstractions: a call on a table is one step (unsynchronised calls on one
`std::map` are a data race whose effect on the tree is not modelled); a write
through a dangling link is confined to the dead object; strings are left out,
because their constructor passes an uninitialised length to the base class. The
segments are disjoint and no object starts at a negative value
(`MemlocAssumption`); what the segment manager does about the first is in
`MemSegments`.

### Analysis

`memlocs` maps start addresses to kind, length and the two flags; `xrefs`,
`symbols` and `queue` are the rest of the project and the jobs. The worker's steps
are cut where the code makes a call that changes the project:

| Action | Code |
|---|---|
| `Begin` | the worker pops a job of the highest priority |
| `FlowLook` | `isValid()`, `lookup_memloc()`, `instantiate()` |
| `FlowInsert` | `insertMemloc()`; an exception ends the job |
| `FlowJump` | `create_xref()` to a branch target, `mark_fn_ent()` |
| `FlowData` | `create_xref()` to a datum and the creation of the datum |
| `FlowSubmit` | `mark_explicit()`, the job for the target, the next instruction |
| `UndefinePop`, `UndefineRemove`, `UndefineEnd` | the loop of `undefine()`, up to, in and after `remove_memloc()` |
| `NameLook`, `NameCreate`, `NameEnd` | the loop of the symbol analysis, up to, in and after `create_sym()` |
| `UserAnalyze`, `UserAnalyzeSymbols` | the two submissions of `analyze()` |
| `UserUndefine`, `UserDefine`, `UserName` | the other commands |

What the bytes at an address decode to is the constant `Decode`. `m_explicit` is
not initialised by the code: `Spared` is nondeterministic unless it was set. When
the GUI thread erases the entry under the symbol analysis' iterator, the iterator
is dangling (`lost`) and may go anywhere.

Abstractions: names are generated per kind and address and never clash with each
other or with the user's (clashes are in `SymbolList`); symbol
properties other than "generated" are left out, and that one is set in the step of `create_sym()` (in `SymbolList`
it has its own); data are one byte or a word, the lengths that have a name of their own (any other length gets the name
that was in the buffer, a finding); bytes do not change.

### GuiUpdate

`index` is `m_blocks`, with the first line of each block for `m_lclookup`; `m_lc` is
where the last block ends. `cache` is the line `getLineAddr()` found last, `row` the
selected row. `memlocs`, `dirty` and `updated` are shared with the worker.

| Action | Code |
|---|---|
| `UpdateTimeout` | the timer's handler up to the view's, which asks for the address of the selected row |
| `UpdateBegin`, `UpdateLine`, `UpdateEnd` | `GuiProxy::update()`: the test of `m_dirty` and the reset; one line of the walk; the reset of `m_dirty` |
| `Flush` | the view is reset and selects the line of that address |
| `ClearUpdated` | the handler's last line |
| `Paint`, `Select`, `Jump`, `Define` | a line is drawn, selected, jumped to, given a data type |
| `WorkerInsert`, `WorkerNotify` | `createMemlocDataAt()` up to and after the insertion; either may throw |
| `WorkerAnnounce`, `WorkerRemove` | `remove_memloc()`: notification, then removal |
| `WorkerBegin`, `WorkerEnd` | a job; it ends with `postGuiUpdate()` |

The loops of `getLineAddr()` and `getLineAtAddr()` are the function `Forward`. One turn of them (`NextLine`) looks
a memloc up by its exact start, so that an address inside one moves by 1; the test of `insertMemloc()` looks for what covers an address (`Covering`). `LinesInverse`
compares both with a definition without blocks, cache or loops (`LineStarts`).
When the worker erases the entry the walk's iterator is at, the iterator is
`Dangling`, the length read through it is any length, and it may go anywhere.

`unseen`, `unmarked` and `unposted` are history: a change that the walk has not
seen; one whose mark in `m_dirty` was cleared, or which was made after its mark or
without one; one whose post in `m_updated` was cleared. The code has all of these
windows: changes during a walk, a removal after its notification, a job that
throws, a post during the handler. `ChangesAnnounced` says there are no others.

Abstractions: an exception on the GUI thread ends the program (`main.cpp` catches
it outside the event loop); segments do not change and memlocs do not reach
behind their segment; a view resets its selection with its model and accepts any
row its model makes an index for, as Qt's item views do.

### MemSegments, TextLoaders, ObjectLoaders, Loading

A segment is its start, its length and its bytes; a byte nobody wrote is `Unset`.
`Clash` is the overlap test as it stands, `Inserted` the ordered set that drops an
equal start. A line of a text file is a record of digit pairs, read by `Read8` and
`ReadNumber`, in which a character that is no digit counts as zero, and of how the line
ends, since the loaders cut off its last character: of a line without an end, as the file's
last may be, a digit of the sum is lost, and its last byte is taken for the sum (`DataOfLine`, `SumOfLine`).
`HexStep` is one hex record, `S19Push` one byte of an S record:
base records begin a chunk, data records fill one, S records choose it by the
distance to the last byte. An ELF file is its header, sections, symbols and
relocations; words have four bytes of `Base` values, and reads go through the order of
bytes the code takes for the file's. What the ELF loader knows while it reads is one
record, `elf`; `Measured` and `WithSection` are what one section does in the two passes that lay the image
out, `Extracted`, `Calculated` and `Relocated` the switches of a relocation, and `WithReloc` all of one. `HostAddr` is
where a section is in the loader's memory.

In `Loading` every loader ranks the file (`Match`), the best is chosen (`Choose`), reads and checks
(`LoadElf` and so on) and leaves a list of effects, which go into the project one
after the other (`AddSegment`, `AddSymbol`, `AddLabel`, or `LeaveOut` for a symbol the loader skips), for an overlap throws between
them. The loaders of text read line by line (`ParseHex`, `ParseS19`) and S records byte by byte (`PushS19`),
with the chunks as a variable, which `LoadHex` and `LoadS19` turn into effects. The ELF loader checks the header (`ReadHeader`)
and goes over the sections three times: for the size of the image (`MeasureSection`, then `AllocateImage`, which chooses
where `malloc()` puts it, if anywhere), to put them into it (`PlaceSection`, then `ResolveSymbols`), and to relocate
its words, one in a step (`RelocateWord`, `LeaveSection`). Mach-O makes the
effects of one load command before it reads the next (`LoadCommand`). `Timeout` is the refresh, which an event loop calls and which does nothing until an update is posted; in a fresh
project the first is posted at the end of `open()`, or with the error message. `dirty` is set in the same step as the
segment: both happen in one call on the one thread there is.

Abstractions: layout of headers, tables of constants; of the bytes of a file only the
fields the loaders read; a short read is a section that is not `present`; a line of text has the fields its type asks for
(`FilesAssumption`), though perhaps not as many data as it says.

### ArmTable, ArmDecode, Listing

A word is the set of its bits that are one, so that both tables are the code's masks
and values. `PcFlow` is `decode_pcflow()`: the first test that holds decides the class, the
rest follows its branches. `DataRef` is `decode_data_refs()`. `Textual` is `get_textual()`: the first
row that matches, and its operands in place of text (registers, immediates,
addresses, literals, symbols; registers of a block transfer as a set of ranges). `Listing` takes one address through the calls
in the order the project makes them: `Instantiate`, `MarkFnEnt`, `CreateDatum` for what the
instruction refers to, `ShowCode`, `ShowDatum`; or defines a constant or a string
there. Strings end at the first zero byte or the end of the segment.

`BranchesAgree` is about lines with `b` and `bl`. The row `blx` with a target (`disasm.cpp:125`) is for words that
`decode_pcflow()` takes for undefined (`BlxJumps` fails). `PcWritersStop` is about the instructions that
`decode_pcflow()` asks about the program counter: not about the listed registers of `mrs`, `clz`, `ldrd`,
`mrrc` and the saturating ones, which must not be the program counter, nor about `blx`.

Abstractions: one segment, at value 0; spacing and punctuation of the text.

### SymbolTable, SymbolService, SymbolList

`objs` are the symbols that exist, `byName` and `byAddr` the two maps to them, `nameOrder` and `addrOrder` the
vectors, sorted by `UpdateDirtyVectors` when they are next read. A call on the list has a
beginning and an end, so that the other thread may be in one at the same time; the
worker holds on to the symbol it created and writes properties to it
(`WorkerProperty`), one of which marks it as generated (`generated`); the analysis replaces a generated name, and no other
(`WorkerName`). What the code does not guard against, two calls at once, a use of a
deleted symbol, a row the vector does not have, sets `broken`, and the
properties are about what happened before. `SymbolService` allows exactly that:
atomic calls on one table, until something breaks.

### Search

The job is cut at each start address (`Try`); the results are a list the widget may
read at any time and delete. `searches` keeps for each search the bytes that were
submitted (`sought`), which is history: the code keeps a pointer into `bytes`, the widget's
buffer, of which the end is used, and `Try` compares with what is there then.
`Translate` turns the text into bytes, decimal, hexadecimal or as they are. `Timeout` is the timer's handler.
Editing stops a search; stopped ones wait in `queue` until their jobs are finished.

Abstractions: appending to a list while another thread reads it is one step; a result
is an address, jumping to it belongs to `CodeView`.

### Terminal, CodeView, Input

`Terminal` has one operator per editing command and the table of bindings; the
screen is left out. `CodeView` lists two kinds of lines: an address, or an item of two.
The items are `defined`, changed by the jobs the view submits (`Work`). The rows are those of the last refresh (`shown`,
`Rows`), but which address a row has, and which row an address, is counted through the items as they are (`NextLine`,
`Walk`): `LineAddr` is `getLineAddr()`, which starts at the line it found last (`last`) if that is not behind the row, and `LineAt` is
`getLineAtAddr()`, which goes on until it is not before the address, so that the inside of an item has the row behind it.
A question for a row that there is not is an assertion that fails (`Abort`). `changed` is history: the lowest address where an item
came or went since the last refresh. A refresh (`Flush`) asks for the address of the row first, with the old rows and the new items,
and then rebuilds (`RowAfter`). Painting a line asks for its address, and is remembered (`Paint`). `row` is the selected row, `stack` the places
jumps left, each with the file it belongs to, for opening a file does not clear the stack. A menu or a
dialog (`modal`) keeps its address while the listing changes under it; the sources it lists are `xrefs`, which are never
removed. `Input` gives keys and releases to the widget with the focus, and opens files.

Abstractions: `Target` says where an item refers to, and all sources and targets are
decided by it; what Python does with a command; the text on the screen.

## 3. What TLC checks

| Run | Question | Instance | Distinct states |
|---|---|---|---|
| `run_queue` | is the queue what its clients rely on, with a reader beside it? | 4 jobs of three priorities, one submitted by another; one client; destructor; monitor; at most one submission per job | 118,896 |
| `memlocs` | do the tables stay right? | two adjacent segments of 4 bytes, 5 objects, 2 threads | 24,640 |
| `memloc_overlap` | are overlaps rejected whatever the objects? | 3 objects, one behind its segment | violated |
| `analysis` | what do the jobs leave behind? | 16 addresses, 7 instructions that matter, 3 commands | 266,281 |
| `fn_entries` | is each callee marked? | as `analysis`, 1 command | violated |
| `gui_update` | is what is shown right, and finally up to date? | segments of 4 bytes and 1 byte, memlocs of 2, blocks of 3; 3 changes | 91,041 |
| `gui_row` | does each row that is asked for exist? | 4 bytes, 2 changes | violated |
| `loading` | is memory what the file says? | 7,596 files of every kind | 246,575 |
| `listing` | do the decoders and the data types agree? | 18,875 words, addresses and types | 101,456 |
| `symbols` | is the list one table? | 2 addresses, 3 names, 3 calls, 2 threads | 1,570,000 |
| `search` | are results right, alive and shown? | 3 memories, 4 texts, 3 searches | 117,442 |
| `input` | is the history ever read out of range, and when does the user keep his place? | 6 addresses, 15 keys, 2 texts to paste, the mouse, the menu and the dialogs, 4 events | 1,407,228 |

**Run queue.** The jobs have the shape of the program's: a flow analysis that
submits another, a symbol analysis, a search. Four is enough for a job to be
overtaken both by one submitted from outside and by one submitted from the
running job. More clients add only further instances of `submit()`; the theorems
of section 4 hold for any number.

**Memlocs.** The objects meet, overlap, nest and spill from one segment into
the next; each can be created, overwritten, rejected, removed and created again.

**Analysis.** The program has a forward and a backward call, a loop through two
functions, a load of a word behind the code, a load of a word from the byte before the
other function, which covers its start, a load of a byte inside an
instruction, an address in the middle of an instruction that decodes to a load
from behind the segment, and a segment without contents. `MaxCommands` bounds
what the user does; three commands are an analysis, an undefinition or a
definition that interferes with it, and one more. The queue is not bounded by a
constant: it stays finite because the analysis does.

**GUI refresh.** `MaxChanges` bounds what the worker and the user create and remove. Three
changes are a memloc that is rejected after it has erased one, or a change before,
in and after a rebuild. Blocks are smaller than a segment, so that a rebuild
closes one in its middle and a look-up starts in the second.

**Loading.** All text files of up to two lines out of good and bad ones, of three good
ones, and some of four: with the base changed and changed back, addresses that
meet, leave a gap or go down, wrong sums, lengths and digits, and a last line without an
end. ELF files in both orders of bytes, relocatable and executable, with every relocation type,
two symbols, aligned and not, cut short and not, with segments and load address; with two relocations of one word and of two words,
a branch that is just in reach or beyond it, and a relocation of a section that is not allocated. Mach-O files with every pair of
commands; overlapping segments among them. `Near` = 3 stands for 0x100 and `MatchChars` = 20 for 255, so
that short lines reach both; `AddrMod` = 2^24 + 1 stands for 2^32, and one record reaches it; `Base` = 16 and `Imm12` = 64 keep a word in TLC's integers. `Hosts` are two places
of the loader's memory; nothing checked depends on which, as the theorem shows for all.

`TextImageKept` and `ElfImageKept` have conditions, which the code needs: runs of a hex file that lie
apart, S addresses that ascend, ELF sections whose sizes are multiples of their
alignment. Of a relocated word something is claimed if it is `Linkable`: relative to the program counter (`PC24` or `REL32`; an
absolute one contains the address in the loader's memory), the only one of its word,
against a symbol of a section in the image, and, for a branch, within the reach of 24 bits. Section "What the code does not do" says what happens without.

**Listing.** Opcode bits take all values, register fields r0 and the program counter, the
low bits the values that tell rows of the table apart; all conditional and
unconditional branches forwards, backwards and out of the segment; loads from before
and behind; text with quotation marks, controls and several zero bytes. Two of the twenty addresses have
a symbol.

**Symbols.** With three names on two addresses names clash, move and come back; three calls are one
for each caller.

**Search.** One memory without a segment, one with one byte, one with three segments and occurrences that overlap,
follow each other, begin after a part of themselves, lie at the end and across a
border. Three searches are one that runs, one stopped behind it and one current.

**Input.** Four events are enough for a modifier to be pressed in one widget and released in another, for
a history that is gone through while a command is begun, for a jump, a command, the way back and one more, and for a menu that is open across a
refresh; jobs, refreshes and painted lines are not counted. `MaxText` bounds a command that is typed into. Two items refer to a
third, so that a menu has several sources, and that one to the inside of the first.

`PlaceKept` has conditions, which the code needs. A refresh keeps the user at his address if a line begins there before and after, and if
nothing came or went above it since the last one, or his line was the last one looked up, before that. Without either, the row is
counted through items that are not those the rows were made of, and he is moved. The way back leads to the line of the address
on the stack if a line begins there and nothing came or went above it that is not yet shown. A refresh whose address is inside an item
moves him to the line behind it. Painting the visible lines looks other lines up, so the second condition of a refresh is met seldom in
practice; both are findings.

**Fairness.** `RunQueue`: weak fairness of the worker's loop, of each thread
inside `submit()` and of the destructor once begun: all are threads with no
wait but the mutex and the condition, which the operating system schedules. It
includes that `exec()` returns. Nobody is obliged to submit or to destroy, and
`wait()` need not return spuriously; nor is the monitor obliged to ask. `Analysis`: weak fairness of the worker,
which is what `RunQueue` shows of a queue that is not destroyed; the user is not
obliged to do anything. `GuiUpdate`: weak fairness of the refresh, which the timer
starts every 250 ms; the worker need not go on. `Search`: weak fairness of the worker and of the widget's timer,
which fires as long as it is active; the user need not do anything. The other specifications state no fairness and
only safety is checked of them. Deadlock is not checked where the system may stop: no
commands, changes or events left, or the worker or the program gone.

### What the violations show

* `memloc_overlap`: a load may refer behind the end of its segment, and
  `create_xref` creates the datum there without a test. If its value is an address
  of the next segment, it is the map entry before that segment's addresses, and
  the look-up that guards against overlaps gives up on it.
* `fn_entries`: the function entry flag is set by the call that finds its target
  decoded. The analysis decodes a forward call's target after the call.
* `gui_row`: an address inside a memloc has the line behind that memloc. Behind the
  last one there is none, the view selects it all the same, and the next question
  for its address fails an assertion.

### What the code does not do

Some modules state properties one would expect and the code does not have. They are in no
configuration; each is violated when put in place of the others in the one named.
`PROJECT.json` lists them as findings with the lines of the code.

| Property | Module | Configuration | Why it fails |
|---|---|---|---|
| `LinksAreContiguous` | `MemlocManager` | `MCMemlocManager.cfg` | rejected and overwritten memlocs stay linked |
| `LinesHaveAddresses` | `GuiUpdate` | `MCGuiUpdate.cfg`, segments of 4 and 2 bytes | memlocs of later segments are skipped with those of earlier ones |
| `NameLives`, `LabelTold` | `RunQueueMonitor` | `MCRunQueue.cfg` | readers without the mutex; a flag that does not tell jobs apart |
| `LiteralsAgreeAlways` | `Listing` | `MCListing.cfg` | the listing ignores the up and pre-index bits |
| `RowsAreReached` | `Listing` | `MCListing.cfg` | earlier rows of the table match first |
| `NothingBreaks` | `SymbolList` | `MCSymbolList.cfg` | no lock; row -1 |
| `AllReported`, `JobsFinish` | `Search` | `MCSearch.cfg` | an address is skipped after a result; an early return |
| `CursorInCommand` | `Terminal` | `MCInput.cfg` | the cursor stays when the command shrinks |
| `ModifiersKnown` | `Input` | `MCInput.cfg` | releases go to another widget |
| `BlxJumps` | `Listing` | `MCListing.cfg` | the row `blx` is for words the flow decoder has no jump for |
| `MenusDeleted` | `CodeView` | `MCInput.cfg` | a shadowed variable |
| `WorkspaceLives` | `CodeView` | `MCInput.cfg` | a workspace deleted under its jobs |
| `PlaceKept` without its conditions | `CodeView` | `MCInput.cfg` | rows are counted through items that changed; the inside of an item has the line behind it |

The third window of `ChangesAnnounced`, a post during the handler that is lost and
not just delayed, is a finding as well, and so are the overlap that `addSegment()` misses, what it
takes to lose bytes of an S file, and the relocations that come out wrong.

## 4. What is proved

TLAPS checks the eight modules named `...Proofs`, for every value of the constants
that satisfies the assumptions named in the modules that declare them. Most say of what kind
a constant is (`GuiAssumption` also that the markers for no address are none, `FilesAssumption` that a text file is a list of lines with the fields, in digits, that their loader finds in them, and that
an ELF file is lists of sections, symbols and relocations, the words of a section lie within it, and a relocation names a word of a
section that goes into the image and symbols and sections that there are, which the loader takes unchecked; `WordAssumption` that 256 is a multiple of
four and two 12-bit fields make one of 24 bits). Those that say more are in
`MemlocAssumption` (segments that do not meet, no
memloc at a negative value), `AnalysisAssumption` (what decodes is at an address, and its
targets are numbers), `SymbolAssumption` (the names differ and none is empty, and what they are sorted by
is a sequence of them),
`SearchAssumption` (a segment has all its bytes or none) and `ClipboardAssumption` (a pasted
text has at least one line, as `QString::split()` returns).

Where the model computes with a recursive function (the lines of a block, the value of a match, the
bytes of a listing), the proofs follow it by the least counterexample: a set of naturals that is not empty
has a least member (`LeastNat`), so a statement that holds at zero and is handed from each
number to the next holds of all (`AllNat`).

**RunQueueProofs.** `TypeOK`, `NoLostWakeup`, `ExecutedOnce`,
`DrainedBeforeBegin` and `RunningTaskIsCurrent` are invariants of `Spec`, and `Spec`
implements `JobExecutor`. None is inductive alone. `IInv` adds who owns the mutex at
which program counter (`Mutex`), what the worker knows of its job (`WorkerJob`), what
a thread in `submit()` holds (`Submitting`), and two facts that carry the argument:

* `EmptyBeforeWait`: a worker that found the queue empty holds the mutex until it
  sleeps, so the queue is still empty then. Hence no lost wakeup.
* `AheadSubmitted`: what a job waits for was submitted and has a higher priority.
  A popped job has no queued job above it, so all it waits for has ended; a job
  the running job submits is ahead only of what the running job was ahead of.
  Hence `DrainedBeforeBegin`.

**MemlocProofs.** `TInv` is `TypeOK`, `TablesAgree` and that a thread's fresh object
is not in the tables nor another's; it holds with any objects. The objects erased
by value and by address are the same because the tables agree. `NoOverlap` and
`FindsCover` are proved under one more assumption, that every memloc starts in its
segment (`AllInSegment`), which `memloc_overlap` shows to be needed. The argument:
in a table without overlaps the entry nearest before an address, in the same
segment, is the only one that can cover it; so if the insertion's look-up finds
nothing, nothing that starts before the new memloc reaches it, and what starts inside it has
been erased. `LinksSound` is false in the middle of an insertion, which sets the links
before the table: `LinksInv` says of such an insertion that the links are right for the table it will make,
if it does not throw, and that linked neighbours meet, so that what is found covering the byte before
a new memloc ends there.

**GuiUpdateProofs.** `ChangesAnnounced`, `TypeOK`, `BlocksCover` and `LinesInverse` are invariants of `Spec`.

* `ChangesAnnounced` alone says nothing of the states inside a job or a refresh, so `IInv` says
  where a change is before it is marked (`Marked`: between the insertion and its
  notification) and before it is posted (`Posted`: in a job).
* `BlocksCover`: every address is in one block and the blocks' lines follow each other.
  `BlocksInv` says of a build in progress that what lies before the walk, or before the block it is building, is in one block each
  and the rest in none, and that the open block ends where the walk is.
* `LinesInverse`: in the first segment, the number of a line is the number of lines that begin before it. `LinesInv` says that each
  block begins with a line and counts those in it, that the walk is at a line and its iterator has passed none
  of the memlocs to come, and that the remembered line is remembered with its address; all that
  while the index has seen every change (`Seen`), and memlocs lie apart at any time (`Apart`).

**LoadingProofs.** `RefusedLeavesNothing` and `IndexShowsSegments` are invariants of `Spec` for any set of files, whatever
the loaders make of them. The first needs that nothing is in the project before the
effects begin; the second that a changed set of segments is marked dirty (`AddSegment`) and that a
file counts as accepted only with an update posted, which are the conjuncts the inductive
invariants add. `ApartUnlessWithin`: if segments lie apart, what
`addSegment()` accepts lies apart from them or within one of them, so that case is the only
one its test misses. `LocateIsInverse`: among segments that lie apart
an address is located where it is. `BestLoaderReads` needs that every loader so far was asked with the
file at its start (`Asked`), and that the binary loader's rank is always zero, so that there is a best one.

`TypeOK` follows the effects from the loader that makes them to the project: `Typed` says that the
chunks are a list, and of each effect and each segment that its bytes are numbered from zero to its length. `TextImageKept` speaks of the end only; `TextRead` says at
any time how far a file has been read:

* hex (`HexRunIs`): each chunk holds the lines of one run, those under the same base records, its offsets are those that the lines read so
  far name, and for each of them the last line that names it is right (`SaysLast`);
* S records whose addresses ascend (`S19RunIs`): each byte pushed so far is in a chunk where its record says,
  nothing else is, and every chunk lies behind the one below it on the stack;
* `Adding`: once the lines are read, what is in the project or on the list of effects are the segments made of the chunks, and none
  is missing unless two have the same start. Runs that lie apart, and chunks behind each other, have different starts and no common
  address, so that an address is located in the one segment that has its byte (`HoldsThere`).

A hex line begins a chunk, fills the last one or changes nothing; that the one it fills is its run's needs that
the last chunk is always that of the run being read, even one without data. That a finite set of offsets has a least and a greatest one is shown from a bound (`ExtremesAre`).

`ElfImageKept` too speaks of the end only, and `ElfSoFar` says for each pass what it has done:

* the layout (`MeasuredSoFar`, `LaidOut`): each section ends before the next begins, and what the second pass has placed ends, if the
  sections are padded, within the size the first one had after the same sections. The loader does not keep those sizes, so
  they are a witness of the invariant (`SizesAre`). They are needed because the passes round differently, the first behind a
  section, the second in front of it (`PlaceKeeps`);
* the words (`WordsKept`): those of the sections read so far are in the image, but for the words of relocations made (`Touched`);
* the relocations (`RelocKeeps`): a word made by a relocation that is the only one of its word leads to its symbol, and no later one
  changes it. The host address is in the place of the symbol and in that of the word, and cancels (`LinkIs`); a branch in reach is the same
  after it was cut to 24 bits and extended again (`BranchReaches`);
* the effects (`ElfAdding`): the segment made of the image is the first effect, and the only segment.

**AnalysisProofs.** `TypeOK`, `UserSymbolsKept` and `BranchesHaveXrefs` are invariants of `Spec`
and `UndefineSparesExplicit` holds of its steps. `TypeInv` says in addition to `TypeOK` that the step in
progress has an address and an instruction that decodes (an instruction is entered only
where one does), and that only an undefinition pops a stack. Then:

* a branch is new only in the step that is followed by its `create_xref()`, and no xref is
  ever removed: hence `BranchesHaveXrefs`, although memlocs come back after they
  were removed;
* between the look-up and `create_sym()` only the user names an address, which `raced` records
  (`NamingSpares`): hence `UserSymbolsKept`;
* between the look-up of an undefinition and its removal only the user changes the table, and what he
  defines is data, not an explicit instruction (`Removing`): hence `UndefineSparesExplicit`.

`FlowClosed` and `SymbolsCurrent` speak of the moment when nothing is left to do. The
invariants behind them say at any time where what is missing will come from. `NoLooseEnds`: what an instruction
continues with, branches to or refers to is reached, or the worker is at the instruction or on its way there,
or has a job for it; what was covered once stays settled (`SettledStays`), for the user who takes it away is
recorded. `FlowsPending` and `NamedSoFar`: a symbol analysis follows while there is flow to analyse, and else every memloc
has its name or the analysis has still to come to it.

**SymbolListProofs.** `Spec` implements `SymbolService` (`ImplementsTable`), by the mapping that reads the
table off `byAddr`. The set of names in use is then the domain of `byName` only if the two maps
are inverse (`TwoWay`), which is `MapsStayInverse`. That needs that a symbol's number is not given to another
(`Fresh`) and that a call of `set_symbol()` has the list for itself (`Alone`), for as long
as nothing broke; the two hold because a call that meets another sets `broken`. `ListShowsTable`: clean vectors list the table of names (`VectorsRight`), and as the
maps are inverse that is the table of addresses; that there is a sorted listing at all, for `std::sort()` to
make, is shown by taking the least of what is left (`OrderExists`).

**SearchProofs.** `ResultsLive`: a list of results is deleted only when its job is over. The job a worker has
and those it will get are not over (`JobsBusy`); what the timer deletes was stopped, is in the
queue once and is not what the widget shows (`QueueOnce`, `CurrentLives`). `ResultsRight`: the current search has its bytes at the end of the buffer, whatever older ones
were written before them (`BytesKept`); its results are in order and apart, end before the place the
worker has come to, and report every occurrence before it (`Progress`).

**ViewProofs.** Of `Input`: `HistoryInRange` is inductive with the types of the command, the saved command, the history and
the offset. That the offset is never positive keeps the command a string when it is edited; that the
place moves with what is prepended keeps it in range. `PlaceKept` rests on `Places`: items lie apart, in the project and in the rows; below
`changed` the two have the same items; and the line remembered is the one that a walk from the first line leads to (`LookRight`) as long as
nothing came or went above it. A walk over items that lie apart stops at every line and nowhere else
(`WalkTo`, `LinesAscend`), so that it numbers an address where a line begins by the lines before it (`LineAtShows`), and the address of a row is right
if no change is above it (`LineAddrRight`) or if it is what is remembered (`LookedLast`). The lowest change is a least element of a set that has one (`LeastChange`).

Of `Listing`: `ListInv` says that the instruction, its line and the datum's line are made of the same word, address
and memory, so that `DecodersAgree` and `PcWritersStop` become statements about operators, for every word:

* A row of the table matches a word when its bits say so (`Row1`, `Row3` and so on), and the row it is listed by is
  the first that does (`RowOfIs`; that there is a first one is well-foundedness of `<`, `LeastNat`). In the same way a word's class is
  that of the first test of `decode_pcflow()` that holds (`ClassIs`).
* The rows that a property speaks of are found by name (`RowsNamed`), and of each it is shown which test is the first to
  hold for a word listed by it (`BranchClass`, `AluClass` and so on). That the earlier rows did not match is used: a
  multiplication, a swap or the transfer of a half word would otherwise pass for data processing.
* A value is a sum over the bits 0 to 31 (`Number`). What the decoders compute in two ways is the same:
  the rotation of an immediate, twice four bits or five bits without the lowest (`ImmediatesAgree`); the offset of a branch,
  shifted before or multiplied after (`OffsetsAgree`); four bytes read upwards or shown downwards (`BytesAgree`). The first two need that
  shifting the bits multiplies the number (`NumberDoubled`), for which the induction is over the places of bits
  and an instance of well-founded induction (`ByInduction`).

**What proving changed in the model.** `FlowClosed` was false as first stated: data that
starts before a branch target and covers it, undefined again, leaves the branch without its target and
the history did not record it, for it held the first addresses only. `gone` now holds every
address that an undefined memloc covered, and the instance of `analysis` has such a word. An
instruction whose analysis an exception cut off counted as cut off for ever; `cut` now forgets it when it is
inserted again. A refresh of a project without segments began a walk at an address that does not exist.
The text loaders were folds over all lines in one step; they now read a line or a byte in a step, as
the code does, so that an invariant can say how far they are. That brought two things the folds had passed over: addresses of S records
wrap at 2^32, which `Ascending` excludes, and of a last line without an end the loader takes the last byte for the sum. The passes of the ELF loader were
folds over the sections as well, with the host address a constant; they are steps now, and `ElfImageKept`, which spoke of one relocation in a file,
says of every one what it depends on. The number of a set of bits was a fold over the set; it is a recursive function over the places of bits, and
the ranges of a block transfer are a set, so that both can be reasoned about.

**Only model-checked.** Liveness (`QueuedJobRuns`, `WorkerExits`,
`AnalysisTerminates`, `ChangesShown`, `FirstResultShown`): the prover has no rule for fairness. Every other property of a
passing run is a theorem. The run queue's are theorems of `Spec`, and the run checks `MonitoredSpec`; that this implements `Spec`
is `MonitorObserves`.

## 5. Not modelled

Left out:

* *Painting and widgets*: no state of the project.
* *Python bindings and interpreter*: what a script does is a sequence of calls that are modelled;
  the interpreter and its lock are outside the repository.
* *Code blocks* (`codeblock.cpp`): a pure function on memlocs and xrefs that only the
  bindings call, and on which nothing depends.
* *XML and base64 helpers*: no callers, third-party code.
* *Registries* of data types and loaders: filled at start-up.
* *Strings as memlocs*: their constructor passes a length it has not yet initialised to the
  base class (`stringconstant.cpp:127`), so that their neighbour is arbitrary; `Objs` of
  `MemlocManager` has none.
* *The wrap of addresses at 64 bits* (`memlocmanager.cpp:29`): excluded by `MemlocAssumption`; reaching it takes a datum at a
  negative offset of a segment at value zero.
* *What a data race does* to a tree or a vector: recorded where it can happen, not followed.
