# Verification of FOAM (ForthLib)

TLA+ models of the parts of this Forth system whose correctness depends on more
than one step of one function: the fiber scheduler and the locks and semaphores
built on it, system threads, the block file buffers and the input streams that
interpret blocks, exceptions, the compiler of control structures and conditional
compilation, the dictionary with its search order and forgetting, client and
server, and reference counts with the containers. TLC checks the models on small
instances, TLAPS proves theorems about them for every value of the constants.
All paths below are relative to `ForthLib/` unless they start with another
directory.

    tlc -config MCLocksWorkers.cfg MCSoftLocks     model-checks one run
    tlapm BlocksProofs.tla                         checks the proofs of a module

Most modules of proofs are checked in a minute or two, ControlProofs,
CollectionsProofs and CollectionLinksProofs in ten to twenty minutes each.

`PROJECT.json` lists the runs, which source lines each definition models, the
mutations that each property is known to catch, and the hazards of the code.

## 1. Inventory

### The system's parts

| part | where | state | operations | what makes it correct |
|---|---|---|---|---|
| fibers and their scheduler | Thread.cpp, Engine.cpp | run state, wakeup time and join list per fiber; index of the active fiber; InnerLoop's own `pActiveFiber` | yield, and start, stop, exit, join, sleep, wake on any fiber; done and error results; ExecuteOps entering the loop again | the fiber that runs may run and is the one the thread calls active; nobody who waits is forgotten; ready fibers get turns |
| soft locks and semaphores | Thread.cpp | holder, depth and deque of waiting fibers; count and deque | grab, tryGrab, ungrab; init, wait, post | exclusion, hand-over in order, no lost wakeup, no stray token |
| Threads, async locks and semaphores | Thread.cpp, Engine.cpp | run state and handle of a system thread; the engine's table of threads; a system mutex or semaphore | start, RunLoop, exit, join, create, destroy | a join returns after the run it waits for; no state of one thread is changed by another in mid-use |
| table of fibers | Thread.cpp | mFibers and each fiber's mIndex | CreateFiber, DeleteFiber | mIndex is the place in mFibers, the active index names a live fiber |
| block file buffers | BlockFileManager.cpp | buffers with block number, update mark, LRU order; current buffer; length of the file as first seen | block, buffer, update, save-buffers, flush, empty-buffers, thru's length query; destructor | behaves as an array of blocks; announced changes are not lost |
| block input streams | BlockInputStream.cpp, InputStack.cpp | stack of streams; blk; next and last block of each stream | thru, evaluate, refill, end of stream, reset after an error | source can edit and load blocks while it is read from them; blk is the block being read |
| exceptions | ForthOps.cpp, Engine.cpp | chain of frames on the return stack; RP, FP, IP | try[ ]catch[ ]finally[ ]try, throw, SetError | control goes where the text says, locals are the word's own again |
| inner interpreter | ForthInner.cpp, assembler | stacks, IP, variable mode | opcodes | each opcode's stack effect |
| outer interpreter | OuterInterpreter.cpp, ParseInfo.cpp, NumberParser.cpp | compile state, dictionary pointer | tokens | tokens are looked up in order and compiled or run |
| opcode compiler, control stack | OpcodeCompiler.cpp, ControlStack.cpp, ForthOps.cpp | opcodes that may still be combined, open control structures, continuations | compile, combine, the control words, break and continue | a definition does what its text says; what is well structured is accepted and nothing else leaves branches open |
| vocabularies, forgetting | Vocabulary.cpp, VocabularyStack.cpp, Forgettable.cpp | operations, symbols, search order, chain of forgettables, loaded files | define, find, forget, also, only, definitions | nothing points to what is forgotten, and nothing older is forgotten with it |
| shell, conditional compilation | Shell.cpp | control stack tags, flags | #if, #else, #endif, lines | the right part of the text is skipped |
| client and server | Client.cpp, Server.cpp, Pipe.cpp | a socket, a stack of open files on each side | messages | every request has one answer of its type, files nest in step, a session ends |
| memory manager | MemoryManager.cpp | chains of free pieces | allocate, free | a piece has one owner |
| objects and containers | Object.h, OList.cpp, OArray.cpp, OMap.cpp ... | reference counts, links, cells, cursors | methods, object variables | counts are the references there are; objects are freed in time; lists are in one piece |
| classes, types, sockets, files, GUI, MIDI, DLLs, main programs, Scripts | rest | | | translation of text and thin wrappers of the system |

### How they interact

*Engine::ExecuteOps* makes the main fiber ready and calls *Thread::InnerLoop*,
which runs one fiber with the inner interpreter until an op sets the core state
to kYield, kDone or kError. The ops of class Fiber, Lock and Semaphore change
run states and, mostly, set kYield; so the loop's switch happens after every one
of them, with what the op left behind. Fibers are cooperative: within a Thread
the interleaving is one of ops, not of instructions. Several Threads do run in
parallel and share the dictionary, the memory manager and any object.

The shell reads lines from the top of the *InputStack* and hands them to the
outer interpreter. A block stream does not copy its text: it reads the buffer
that *BlockFileManager* gave it, and the words it executes use the same manager.
*evaluate* and *thru* push streams; the end of a stream pops it and sets blk.

An exception frame lies on the return stack, and *Engine::RaiseException*
redirects the IP to the handler. If the frame was made under a nested
interpreter (evaluate), the exception is kept pending until the input streams
above are popped.

Between `:` and `;` the outer interpreter runs the control words while
*OpcodeCompiler* keeps the addresses of the opcodes it may still combine; a
control word keeps what it owes on the control stack, and so does a section of
conditional compilation. What is defined becomes an operation number, a symbol
of the definitions vocabulary and room in the dictionary; forgetting cuts all
three, the search order and the shell's list of loaded files back together.

A server interprets what a client reads: its *ServerInputStream* asks for a line
and *load* asks for a file, so each side has a stack of files, and only the
messages keep the two in step.

A release that takes the last reference deletes the object, and its delete
method releases what it holds: a deletion runs on through lists, arrays, maps and
iterators from inside the loop of another method.

### What is hard

* interleaving of fibers: a fiber that blocks comes back long after, when the
  lock, the deque and the join lists have been changed by others;
* two ideas of the active fiber (`pActiveFiber` and `mActiveFiberIndex`);
* the intrusive join list, with one link per fiber;
* a join against an exit in another system thread, and the deletion after it;
* eviction from the buffers while the source text is read from one of them;
* writes that fail, and programs that end without saving;
* exceptions in handlers, in finally sections and out of called words;
* control structures in one another, combined opcodes across branch targets,
  chains of tests, sections left out of a definition;
* operation numbers that are used again after forget, vocabularies deleted while
  they are on the search order;
* two tables of messages and two stacks of files, kept in step by hand;
* deletions that run through loops over what they change.

`PROJECT.json` lists these hazards at their lines, with the properties that
would catch them going wrong, or the reason why none does yet.

## 2. Modules

| module | models | proofs |
|---|---|---|
| Fibers | run states, InnerLoop, class Fiber | SoftLocksProofs, part one |
| SoftLocks, extends Fibers | class Lock and Semaphore | SoftLocksProofs, part two |
| Threads | class Thread, the Engine's list of threads | ThreadsProofs |
| BlockStore | abstract: an array of blocks with a durable copy | |
| BlockBuffers, refines BlockStore | BlockFileManager | BlocksProofs |
| BlockStreams, extends BlockBuffers | thru, evaluate, refill and the stack of streams | BlocksProofs |
| Exceptions | try blocks, throw, calls and returns | ControlProofs, part one |
| Compiler | opcode compiler, control words, conditional compilation, and the run of the result | ControlProofs, part two |
| Vocabularies | operations, symbols, search order, forgetting, loaded files | VocabulariesProofs |
| ClientServer | both main loops, their messages and stacks of files | ClientServerProofs |
| Lists | object variables, reference counts, List, ListIter | |
| Arrays, extends Lists | Array, ArrayIter | |
| IntMaps, extends Arrays | IntMap, IntMapIter | |
| Collections, extends IntMaps | programs with all of them | CollectionsProofs, CollectionLinksProofs |
| MCFibers, MCSoftLocks, MCBlockStreams, MCCompiler, MCVocabularies, MCCollections | what TLC runs: programs, families of words, symmetry | |

### Fibers

One step is one op of the fiber that runs together with what InnerLoop does when
the op returns. `Program[f]` is the set of ops that fiber f's code may use, and
any order of them is a behaviour. `SwitchFiber` is the switch in InnerLoop: the
cyclic scan for a ready fiber that starts behind the active one
(`IsNextReady`), else the sleeper that wakes first (`IsNextSleeping`) with the
sleep of the whole thread until it is due, else the same fiber again
(`RunSameFiber`). An intrusive list is two functions, `joinHead` and
`nextJoiner`; what a walk visits is `Joiners(t)`. `fellThrough` is a history
variable: InnerLoop once found nobody to switch to.

Errors. `Fail` is an op that puts an error into its own core (CoreSetError, or
RaiseException without a frame): InnerLoop ends if that was the main fiber, and runs
the failed fiber again if it was another. `Report` is an op that calls
Engine::SetError, which puts the error into the *main* fiber's core, whichever fiber
runs (Engine.cpp:1540, 365): another fiber goes on with its next op, and the loop ends
after the next yield (Thread.cpp:756), whatever fiber has been switched to then and
whatever the main fiber waits for (`mainError`, `GoOn`). `ExecuteOps` is the shell
that starts over: Engine::ErrorReset resets the cores of all fibers (Fiber::Reset,
Thread.cpp:285); locks, deques, join lists and every run state but the main fiber's
stay as they are, and mActiveFiberIndex is still that of the other fiber.

Two history variables say when the loop has lost track of its fibers
(`~OnTrack`): `fellThrough`, it once found nobody to switch to, and `leftAway`, it
once ended while another fiber than the main one was active. From `leftAway` on,
things do go wrong: join and exit act on another fiber than the one that runs, and
the main fiber, made ready again while it is still in a join list or a deque, runs
where it should wait and gets a lock handed to it behind its back. From there on only the
types, the coherence of a lock and, of polite programs, the tokens of a semaphore are
claimed. The states up to there, with `mainError` set, the failed
worker running on and the main fiber blocked or linked, are in the runs and in the
theorems.

`usleep(sleepMilliseconds * 1000)` (Thread.cpp:746) multiplies in an int:
`AfterUsleep` lets a sleep of more than `MaxUsleep` end at any time up to the one
that was asked for.

`Polite` is what programs owe the scheduler and the code does not check: no
start, stop, exit, sleep or wake on a fiber that is blocked or has exited, and no
init of a semaphore that is waited for. Without the first, a fiber woken out of a
join list stays linked in it. A fiber may make the main one exit, or return: the loop
then ends where it stands.

### SoftLocks

Adds `lockHolder`, `lockDepth`, `lockQueue`, `semCount` and `semQueue`. A fiber
that finds a lock taken is appended to the deque and blocked; `HandOver` gives
it the lock. `grabs` is a history variable: how often a fiber has grabbed a lock
and not ungrabbed it, from the fiber's own point of view. `MutualExclusion` says
that this view agrees with the lock.

### Threads

One step is what a system thread does between two accesses to something it shares: the
steps of `Join` (lock, test, wait, lock again, unlock) and of `Exit` (lock, set,
broadcast, unlock) are actions of their own, and a wait can end without a reason, as
POSIX allows. What the Thread's fibers do is left to chance. `Creators` are the
threads that create and delete Thread objects; the list `mpThreads` has no lock, so
`ListHasThreads` is claimed for one creator; the other proofs hold for any number.
`MaxStarts = 1`: a second start after the exit leaves mRunState as the first run left
it until the new system thread gets to run, and a join in between returns at once
(Thread.cpp:858). `OwnExit`: a program calls Thread.exit only on the Thread it runs
in. `Exit(u, t)` is the method for any t: on another Thread it marks t as exited while
t runs on, and it is the caller that ends (Thread.cpp:1054, 880), never marked; a join
of t then returns early and one of u never. The run and the theorems have `OwnExit =
TRUE`. A Thread may join itself, and waits for ever.

### BlockStore, BlockBuffers

BlockStore is the promise of the help texts (Scripts/system/helpdeck.fs): blocks
with a content and a durable copy; announced changes stay until they are durable
or given up, others may vanish. BlockBuffers has the manager's variables and one
action per method that a word calls. 1024 bytes are one value. `Faulty` lets
reads fail, and writes fail in the two ways that differ in the code: SaveBuffer
notices (Save leaves the buffer marked) or fclose loses the data unnoticed.
`Restart` ends the program through the destructor, `Crash` without. `recent` is
a history variable, the blocks in the order of use.

A program asks for blocks that are in the file or in a buffer, or that it uses
as scratch (`Fresh`): GetBlock on a block beyond the end of the file is an error
in the code, which hands out the buffer all the same.

The refinement mapping: a block's content is that of its buffer, else the
file's; the durable copy is the file; the announced blocks are those of the
buffers marked updated.

### BlockStreams

A stream is its buffer, the block it was given, the next and the last block. The
stack has the stream being read first. A word on blocks (`BlockWord` ...) is
the manager's action plus the address rule: a program stores only where block or
buffer just pointed. `ReadBlock` is used by thru, by the end of a block and by
refill, and goes through the same GetBlock as the program's words. `StartAgain`
ends the program wherever it is, with the destructor or without it. `UpdateWord`
marks the buffer that is current: if text read from blocks in between has moved it,
another block than the program last asked for (BlockFileManager.cpp:137).

### Exceptions

A word is at most one try block with text before and after it, and a place in its code
is the section the IP is in: start, body, handler, cleanup (just before _doFinally),
finally, end. Any section may call any word, recursively, and throw. In the run and
the theorems every word with a try block has locals: one without returns through a
cell that a frame has left there, once an exception has come out of a word it called
(ForthOps.cpp:1883, section 3). The return stack has cells for return addresses, saved
frame pointers and the words of an exception frame; `PopAddress` takes whatever is on
top for an address, as the code does. `activations` is a history variable: the words
being executed as the program text says it. `ControlIsStructured` compares the two.

`Careful` leaves out exceptions that escape a finally section and a throw of 0
outside a try body. In a finally section that was entered with an exception, the
code's own comment (Engine.cpp:1914) expects that SetError and RaiseException
call each other without end.

### Compiler

The words of a definition are steps: each compiles its opcodes through the
peephole (`dict`), and pushes, patches and pops the control stack (`ctl`) and the
stack of continuations (`cont`). When the definition ends it is run: `run` has
the place of the interpreter in the opcodes and the place of a reader in the
words. A test comes out either way, the same for both, and both have to do the
same (`RunsAsWritten`). Data is only that: the outcomes of tests, a literal as
opposed to an op, a store or fetch prefix as opposed to a variable.

`AcceptsStructured` and `NothingUnresolved` compare what the control words accept with
the structure of the words: what is well structured compiles without an error, and a
definition that compiled has no branch that goes nowhere. `MixedChains`, `ListsOfIf`
and `OpsBeforeContinue` admit three forms that do not work, see section 3. The last is
a continue: straight behind a word that is compiled as an opcode the peephole may
join: continueDefineOp takes the current address for the destination and leaves the
peephole as it is (ForthOps.cpp:1460 to 1472), so that `continue: until` joins the
opcode before with the branch of the until (OpcodeCompiler.cpp:274) and the
destination lies behind that branch. The runs have all three FALSE; the theorems that
need it say so. Conditional compilation (`shell`, `sections`) leaves out lines by #if
and words by [if]; what the text is after that is `words`. Directives stand on lines
of their own, structures do not cross # sections (their marker lies on the control
stack) but may cross [if] sections.

### Vocabularies

`ops` is the table of operations with the address where each begins, `dp` the
dictionary pointer; code is left out but for its room. The unit is half an opcode:
`StartOpDefinition` and create align dp before the entry (`AlignDP`), and `Allot`
stands for allot, the comma words and ialign and lalign, which move it by any number
of units between definitions. A loaded file has the dp at which it was opened and, as
history, its first operation and whether that began right there (`atStart`).
`LoadedFilesAreDefined` says that no file counts as loaded when words are gone that it
was loaded upon, and claims the same of its own first word only where `atStart`: a
file that begins with data, or is opened at an odd dp, has a startDP below its first
word, and forgetting that word leaves the file marked as loaded (Shell.cpp:2132; such
behaviours are in the model). A definition
that is open takes room by `Bodies` and `Semi`; a negative allot is left out. `ForgetSymbol` is the whole of the method of that name:
vocabularies are deleted by address (Forgettable::ForgetPropagate), symbols by
operation number, the search order and the definitions vocabulary are reset, files are
dropped from the shell's list, dp moves back. An error in a definition drops the
unfinished operation (`ErrorReset`), wherever its code has got to (`Bodies`).
`AnyAlias` lets a program give an older word a second name: that puts a symbol with an
old number behind newer ones, and cutting at the first older symbol
(Vocabulary.cpp:430) then leaves symbols of operations that are gone, though forget is
for a word "and all newer definitions" (helpdeck.fs:962). The run and the proofs have
`AnyAlias = FALSE`.

### ClientServer

`srv` is where the server is: in accept, in Run, in a line, or waiting for the
answer to a request. `stack` and `inputStack` are the two stacks of files. The
requests are sets by the answer they have in each side's code (`ClientReply`,
`ServerExpects`): two tables kept in two files. Clients come one after the other;
streams an earlier client left on mpInput are `first = FALSE`. `astray` is a
history variable: the session did something for which the protocol has no message,
listed in section 3; the properties are about the sessions before that.

### Lists, Arrays, IntMaps, Collections

A step is what a method does between two releases. A release may delete: `calls`
is the stack of the loops that wait for a deletion below them, in delete, clear,
load, resize and remove. `refers` has every reference that counts: object
variables, elements and the parents of iterators; the cells of the data stack do
not count. `stack` is the object that the next method takes from the stack or the
last one left on it: a method that takes and leaves none asks for `stack = NoObject`,
which says nothing about the rest of the stack. `below` is an object that lies there
while any methods run above it (`Leave`), clear, removeHead, resize, remove and oclear of
the variable it was fetched from among them. If one of them releases its last
reference it is deleted where it lies, and TLC reaches that; a program can only drop
it then (`DropGone`), and goes on with it (`TakeUp`) only as long as it was not deleted,
or another object has come to be at its address: that much a program owes, as the
cell does not tell. `order` is a history variable, the links that a list should
have, and `clones` has the lists without a tail (see section 3). A cell of an
array or map is `Beyond` when it is not in use. What the code holds in freed memory
is forgotten, since nobody may look at it.

A program owes its iterators that it removes no link and no key that another one
stands at (`Unseen`, `KeyUnseen`): nothing tells them. It uses containers that its
variables hold, searches for nothing that it has only on the stack (`Sought`) and
loads nothing that the load itself would delete (`Survives`). `Programs` are
bounds: what kinds of objects a program makes, and how many.

## 3. Runs

| run | bounds | distinct states | shows |
|---|---|---|---|
| fibers_polite | 3 fibers, any ops, time 0..2 | 38,381 | the active fiber is the same to all and may run, no joiner gets lost, exits are final |
| locks_workers | main and 2 workers, 1 lock to depth 2, 1 semaphore | 139,752 | a lock has one holder and no stale waiters, waiters do not run or get lost, no token is held back |
| locks_fair | main and 3 fibers, 1 lock to depth 2; fairness | 668 | a ready fiber gets its turn, a queued fiber gets the lock |
| threads | main and 2 Threads, started once; fairness | 23,659 | a join means that the run is over, no wakeup is lost, nothing is used after it was deleted, the list has all Threads, joiners return |
| blocks_lru | 3 buffers, 4 blocks, faults, crashes | 21,840 | one buffer per block, the LRU list is a permutation, the blocks used last stay |
| streams_nested | 1 buffer, 3 blocks, 2 values, 3 streams, restarts and crashes | 27,422 | the buffers under nested streams still are an array of blocks |
| exceptions | 3 words, 2 with a try block and locals, 12 cells | 386,242 | structured control, frames are the open try blocks, own locals |
| compiler | 7 families of words, up to 8 words | 319,277 | code does what the text says, structured text is accepted, nothing stays unresolved, continuations belong to loops |
| compiler_ifdef | #ifdef of a symbol that is defined | violated | #ifdef pops the control stack of the definition it stands in |
| vocabularies | 4 vocabularies, 2 names, 3 operations, 3 symbols, search order to depth 3, 1 file, data of one unit at a time | 900,706 | no symbol of a forgotten operation, nothing older forgotten, a live search order, vocabularies go with their names, loaded files are there |
| client_server | 2 files, 1 file of the server, 2 messages ahead; fairness | 308,399 | lines are of the right file, answers fit, clients get away |
| collections | 8 programs, see below | 1,169,284 | counts are right, objects live as long as they are held, links form lists, cursors are at home |

Why the bounds are enough:

* Three fibers are the least for a join list with two members, a choice of the
  scan and a bystander. Four in locks_fair make a deque of two behind a holder,
  where order matters. With time 0..2 a sleeper is due or not, two sleepers can
  have equal or different wakeup times, and a sleep of 2 overflows (`MaxUsleep` 1).
  The two runs stop at the first state that is not `OnTrack` (CONSTRAINT), which is
  checked itself: their properties claim nothing behind it.
* Depth 2 tells the last ungrab from another. A count of -1 and 1 covers both
  branches of post and wait, MaxCount 1 the boundary.
* Two Threads beside the Engine's are joined and deleted in either order, from the
  middle and the head of the list; both may join each other or themselves.
* Three buffers have a first, a middle and a last place in the LRU list, four
  blocks force eviction. Contents matter only to the refinement, which runs with
  two values.
* streams_nested has a single buffer so that every access evicts: the text being
  read is always recycled from under its stream. With two buffers and three
  streams TLC does not finish in minutes; order among buffers is blocks_lru's,
  and the theorem covers every number.
* Twelve cells hold three nested try blocks: an exception that leaves a handler,
  passes a second try block and is taken by a third.
* The families of the compiler put words together that meet in the same state:
  what the peephole joins before and after branches, chains of tests, loops with
  breaks and continues, case with and without ofif, everything in one another,
  conditional compilation among the rest, two sections deep. Four words tell all
  combinations of opcodes around a branch, eight a chain of three tests with an
  else.
* Two vocabularies beside forth and root can be named in one another; three
  operations are one kept and two forgotten. Data of one unit makes the next word
  skip one; data may reach as far as 3. The theorems hold for every number.
* Two files nest, and one is loaded again while it is open. Three files with one
  message ahead (1,471,629 states) show no more.
* Three links let one be taken out of the middle of a list, three objects let a
  deletion run on in a third, two variables hold a container and an iterator. The
  programs of `collections` have two objects and three links; an item or list, three
  objects and two links; three arrays of two cells; three maps of two keys; and all
  kinds of container in one another with one link and one cell each. Three more
  programs, of an item and a list, array or map, two objects in all, leave an object
  on the stack under their methods. Variants with lists alone have four objects, two
  links and three variables (784,357 states), and two objects and four links
  (153,042).

Fairness. `FairFiberSpec` says that whatever fiber runs yields again and again
(weak fairness of Yield), and `FairSpec` that the shell enters the loop again after an
error (weak fairness of ExecuteOps): the scheduler is cooperative, and a fiber that never
yields starves the rest by design. `FairSpec` of SoftLocks adds that a fiber that
comes to hold a lock again and again ungrabs it (strong fairness per fiber, lock
and depth), without which nobody behind it can be promised anything. Neither says
anything about the scheduler itself: which fiber runs is InnerLoop's choice.
`FairSpec` of Threads is the operating system's: a thread that can go on does, and
a mutex that is free again and again goes to each that wants it; nobody is made to
exit. `FairSpec` of ClientServer has both processes go on and, since a file can
load itself for ever, the user at the console say bye in the end (strong fairness
of `Bye`).

The runs of Compiler, Threads, Fibers and ClientServer are not symmetric: the scan
goes by fiber number, and TLC checks liveness without symmetry. Names and the
vocabularies other than forth and root are interchangeable, and so are objects and
variables in `collections`.

### Where code and documents disagree

One violation run, `compiler_ifdef`, and its finding in PROJECT.json: what
Docs/LanguageFeatures.txt:66 to 75 shows of #ifdef works for #if; but Shell::PoundIfdef
leaves the marker that #else and #endif look for only when the section is skipped
(Shell.cpp:1957), so that they are refused as unexpected when the symbol is
defined. #if leaves it either way.

Other disagreements, modelled as they are, without a run of their own:

* Forth.h:353 says that a sleeping fiber sleeps until its wakeup time is reached;
  InnerLoop looks at sleepers only when nobody is ready (Thread.cpp:719).
* src/README.md:152 says that each Thread has one active fiber; InnerLoop and
  mActiveFiberIndex can have two ideas of it (Thread.cpp:668), and join blocks
  the wrong one. README.md:154 says that a fiber that has to wait becomes
  inactive; with nobody to switch to it goes on (Thread.cpp:727), into the
  critical section.
* helpdeck.fs:1605 says that flush writes the updated buffers; one that cannot
  be written is unassigned all the same (BlockFileManager.cpp:289).
* Scripts/ansi2012/TODO.txt:13 says that evaluate restores blk; it becomes the
  number of the block to be read next (InputStack.cpp:92).
* ForthOps.cpp:1880 says that _doEndtry unwinds the exception frame; it adds the
  frame's size to an RP that RaiseException did not reset (Engine.cpp:1934), and a
  word without locals then returns through some other cell. The tests of try
  blocks in Scripts/tests/forthtest.fs all have locals, whose exit op resets RP.
* ForthMessages.h:37 and help.fs:389 have loaddone end the file being loaded at
  both ends; the stream of a file of the server is above the client's, and PopStream
  makes the client drop its own (Server.cpp:850).
* Docs/Code.txt:449 has chains of andif and orif; with both in a chain without an
  else the last failing test jumps behind the wrong place (ForthOps.cpp:946;
  `MixedChains`). Several of and ofif clauses that share a body need a drop that
  the ofif does not compile (ForthOps.cpp:1183; `ListsOfIf`).
* Docs/Notes.txt:3518 has continue: define the destination of the continue branches;
  straight behind an opcode that the peephole joins with what follows, it defines one
  in the middle of a pair (ForthOps.cpp:1470, OpcodeCompiler.cpp:274). In
  `begin continueIf op continue: until` the continue leaves the loop without a test:
  MCCompiler with `Families <- MCContinue` and `OpsBeforeContinue = TRUE` shows it in
  eight steps, as a violation of RunsAsWritten.
* Docs/Notes.txt:125 has unref of a variable clear it; ForthInner.cpp:2770 does
  not, the assembler (InnerInterpAmd64.asm:3166) does. Not modelled.

Noticed and modelled as they are: an error that a worker's op reports ends the loop
in the main fiber's name, after the worker has gone on (Engine.cpp:1540); a long sleep
is cut short (Thread.cpp:746); a fiber run after the thread slept for it stays
kSleeping (Thread.cpp:749); a fiber that stops itself with nobody else to run goes
on (727); a lock is handed to a queued fiber that somebody made exit (1683); the
number of blocks is looked up once (BlockFileManager.cpp:97). An error (as against
a throw) in a try body sets kError and never reaches the handler, and a handler
runs with the frame pointer of the word that threw: the model of exceptions has
both, as `SetError` and in what `LocalsAreOwn` leaves out. The first user operation
cannot be forgotten (op > 1), and `only` leaves the search order empty.

Conditional compilation: a line's first token alone is looked at while lines are
skipped, so an #if that follows its condition on the same line, as in chess.fs:140,
is not counted in a skipped section; an #else in the middle of a line lets the
rest of the line be interpreted; the skip flag outlives the file.

Client and server, as far as `astray` marks them: the end of a file of the server,
or refill at the end of a file, pops one side only (Server.cpp:516, 850); so does a
throw out of a load (InputStack.cpp:112); GetWorkDir has no answer (Client.cpp:654);
the end of the console and fatal errors end a session without GoAway; streams of
earlier clients stay on mpInput.

Lists: a clone has no tail (OList.cpp:162), so that what is appended to it is lost and
its last link cannot be removed from the head (`AddTail` and `HasHead` leave these
out); a list split in the middle keeps a pointer from its head into the old one
(OList.cpp:911; `Split` leaves it out); atHead assigns instead of comparing
(OList.cpp:688; modelled); findNext of a list starts behind the cursor, of an array at
it; odrop runs the delete method of an object and never frees it ("lost"). Arrays:
load with objects does not end, since its index is unsigned (OArray.cpp:480), so only
load without any is modelled, as `Resize`; prev of an iterator beyond a shrunk end
reads out of bounds (OArray.cpp:826; `ArrayPrev` leaves it out). Maps: load of two
pairs with one key drops the first object without releasing it (OMap.cpp:935), so one
pair is loaded here; remove of an iterator increments an erased std::map iterator
(OMap.cpp:1151) and is left out, as are steps over the ends; the iterator class of Map
deletes itself in its delete method (OMap.cpp:486) and is then freed again.

Noticed and not modelled: SetError of a worker while the main fiber has an exception
frame open raises an exception in the main core as it stands (Engine.cpp:1548); a
block's text is read on from a recycled buffer (BlockInputStream.cpp:215); reading a
block that fails leaves the last one's bytes (BlockFileManager.cpp:239, in the model
with `Faulty`); a pending exception reaches its handler with the number of an older
error, because pCore->error is not set (Engine.cpp:1944, 1964); wakeup times wrap
after 49 days (Thread.cpp:836); the deques of Lock and Semaphore are shared by fibers
of several Threads without the mutex being held at every access (Thread.cpp:1583),
whose RunLoop never calls SetActiveFiber (538); waking a joiner can run a delete
method (358); the chains of the memory manager have no lock (MemoryManager.cpp:168);
the client's stack of 16 files is not checked (Client.cpp:285); a branch offset that
does not fit in the 12 bits beside the opcode it is combined with is cut off unnoticed
(OpcodeCompiler.cpp:378, Forth.h:627).

## 4. Proofs

The proofs hold for any number of fibers, locks, threads, buffers, blocks, streams,
vocabularies, operations and messages, for definitions of any length, and for any
program; they rest on the assumptions about the constants, which TLC evaluates in
every run, and on the hypotheses named here.

* **SoftLocksProofs, part one** (Fibers), for `Polite` programs. Three facts hold as
  long as the loop is `OnTrack`, whichever fiber fails and whatever the main fiber's
  core has been told: the fiber that runs is the active one, may run, and is the main
  one whenever the loop has ended (`SchedulerInv`); a fiber in a join list is blocked,
  in no other, and waits for one that has yet to exit (`JoinInv`); and every blocked
  fiber is in a list. What a walk along a list visits is the least set that has its
  head and is closed under mpNextJoiner, so the lemmas about links (`JoinersSame`,
  `JoinersPush`, `JoinersEmpty`) need no induction. `FiberNextEffect` says what any op
  does to those who wait, in terms that part two can use: it leaves a fiber alone that
  is blocked elsewhere. `ActiveMayRun`, `JoinersAreKept` and `ExitedStaysExited`
  follow; `ActiveAgrees` has an invariant of its own (`SyncInv`) and holds of any
  program, after falling through, too: only the end of the loop in another fiber
  spoils it.
* **SoftLocksProofs, part two**. `TypeCorrect` and `LocksAreCoherent` hold for any
  program: a fiber of this Thread is active after every switch, deques hold fibers, a
  lock is held exactly while its depth is positive and a free lock has no queue. For
  `Polite` programs the invariant adds to SchedulerInv and JoinInv that a queued fiber
  is blocked, in that deque only and once (`QueueInv`; otherwise ending one wait would
  let it run in the middle of another), and that the grabs of a fiber are the depth
  for the holder, one for a queued fiber and none for the rest (`GrabsInv`; otherwise
  nothing ties the lock to what the fiber thinks after HandOver, which keeps the
  depth). From it: `LocksExclude`, which is MutualExclusion, `WaitersAreNotRun` and
  `WaitersAreKept`, whose places are bounded by a pigeonhole argument (`DequeLength`).
  `TokensAreHandedOn` needs the types and, for init, politeness only.
* **ThreadsProofs**, for Threads that are started once (`MaxStarts <= 1`) and that
  only they themselves exit (`OwnExit`). The inductive invariant adds to the
  properties who holds a mutex (`MutexHasHolder`, both ways: without it two threads
  might be between lock and unlock), that a Thread whose run state is exited has ended
  or is about to (`ExitedIsOver`), and that nobody but those in a run of their own
  touches a Thread that is not live (`OnlyLiveIsUsed`). From it: `ThreadsTypeCorrect`,
  `JoinReturnsAfterRun`, `ExitWakesJoiners`, `DeletedIsUnused`. `ListIsComplete` is
  ListHasThreads for one creator (`OneCreator`): the list is a chain, without a link
  back to its head or two links to the same Thread (`Chain`), so taking one out cuts
  off no other; and a Thread that is made but not yet linked points to what is still
  the head (`LinkingIsNext`), which is what a second creator would spoil.
* **BlocksProofs**. For the buffers, the inductive invariant `IInv` is TypeOK,
  OneBufferPerBlock and LRUIsPermutation, with two parts no run needs to name:
  `RecentIsLRU`, which ties the order of the LRU list to the blocks used last, without
  which nothing is known of the buffer at its end that eviction takes; and
  `CurrentIsAssigned`, without which a current buffer might be one that is free.
  `UpdateLRUPermutes` is the lemma about the shifting loop. From IInv:
  `BlocksTypeCorrect`, `BlockHasOneBuffer`, `LRUKeepsBuffers`, `RecentlyUsedStays`,
  all with failing reads and writes. The second part of the module is for a file that
  does not fail (`~Faulty`). The invariant is IInv and UpdatedIsAssigned
  (`UpdatesHaveBlocks`). `BuffersImplementStore` shows that every step is a step of
  the array of blocks or a stutter: a hit is a stutter, a miss settles what it evicts,
  flush, save-buffers and restart settle everything, empty-buffers and a crash give
  up. With `Faulty` it does not hold: a failed read leaves a buffer assigned with
  another block's bytes, a failed write drops changes. The third part is about the
  streams, also for `~Faulty`. `SInv` adds that every stream on the stack ends within
  the file, which with the file only growing is what lets nested streams go on
  reading. `StreamsTypeCorrect` and `StreamsImplementStore` follow, with programs that
  end and start again anywhere.
* **ControlProofs, part one** (Exceptions), for `Careful` programs whose words have
  locals wherever they have a try block (`Trying \subseteq Locals`; RaiseException
  resets neither RP nor FP, so a word without locals returns through whatever the
  frame left there: the hypothesis is what the code needs, not what the proof needs).
  The properties are about what the program text says, the steps about cells, so the
  invariant ties both to the activations: `FramesFit` says which activation each frame
  belongs to and that an exception on its way out of a block meets no finally section
  (`EscapesSafely`), and `StackFits` that the return stack is the cells of the
  activations one upon another: the return address is where the caller is, a word with
  locals has its saved FP next and at least a frame's cells above it while it is in
  its try block. Without the last, nothing says that _doEndtry pops only cells of the
  word it is in; without the addresses, that `_exitL` returns to the caller. From it:
  `ExceptionsTypeCorrect`, `StructuredControl`, `FramesOfOpenTries` and `OwnLocals`,
  which are all three properties of the run, for any depth.
* **ControlProofs, part two** (Compiler), for any families of words and any depth of
  sections. What is proved of words that were accepted is proved with the forms
  admitted that do not work (`MixedChains`, `ListsOfIf`, `OpsBeforeContinue`), with
  one exception: `BranchesAreResolved` assumes `~OpsBeforeContinue`, for behind an
  opcode that is joined later the destination of a continue is not the start of an
  opcode. Without that, `BranchesAreFixed` still says that no branch is left open.
  Several words lie between a branch and the word that fixes it, and meanwhile the
  peephole may take opcodes back, so the invariant `CompilerInv` says who owes what.
  `CodeIn`: an opcode whose branch is still open, or a place kept for one, is owed by
  an entry of the control stack or by a continuation; without it nothing is known of
  the opcodes behind `;`. `EntriesIn` and `ContIn`: an address that an entry keeps,
  and without OpsBeforeContinue one that a continue: keeps, is the start of an opcode
  that can no longer be joined with what follows (`PeepIn` says which opcodes still
  can); without it a branch could lead into the middle of what is joined later.
  `ControlGood` and `ContGood`: the saved continuations are as many as the open loops,
  and the count of breaks and continues is what lies above the last saved one, so that
  EndLoopContinuations takes its own and no others. `ShellGood`: the skip flag and the
  counts of nested sections are those of the sections around the first that does not
  apply; without it #endif could end the wrong one. The lemmas about the peephole say
  what one CompileOpcode may take back, those about the fixes (`ElseFixes`,
  `EndifFixes`, `LoopFixes`) that they settle what is owed to them and leave the rest
  alone. From it: `LoopsHaveContinuations`, `BranchesAreFixed`, `BranchesAreResolved`,
  and `SkipsWhatIsLeftOut`, on which every other claim about text with sections rests.
  The run of a definition changes nothing of all this, so the recursive function in
  `Quiet` is never unfolded.
* **VocabulariesProofs**, for `AnyAlias = FALSE`. Forgetting cuts three orders at one
  point: operations by number, code and vocabularies by address, symbols from the
  newest on. The invariant says that the three agree: `OpsInOrder` (numbers and
  addresses), `SymbolsInOrder` (symbols and numbers), `OpsHaveSymbols` (a symbol in a
  vocabulary no newer than the operation), `NamesBeforeVocabularies` (a vocabulary
  begins one cell behind its name), `FilesInOrder` (what a file was loaded upon lies
  below its start, what it defined at or above it, its first word right there if
  `atStart`). Data between words, and units skipped to align them, only move addresses
  apart. From it all five properties of the run and the types.
* **ClientServerProofs**. `TurnsOK`: while the server waits, its question is the last
  message on its way or the only answer is one it can read, and else nothing but
  messages without an answer is under way. `StacksOK`: in a session that has not gone
  astray the two stacks of files are the same but for the answer under way. From them
  `ClientServerTypeCorrect`, `EveryAnswerFits` and `EveryLineIsOwn`.
* **CollectionsProofs**. `Count(r, o)` is the number of holders of o under the
  references r; the lemmas say what it becomes when one holder refers to something
  else (`CountOne`), when references change places (`CountMoved`, for insertion and
  removal in the middle of an array, reverse, rotate and swap) and when many cells are
  filled at once (`CountAdded`, for clone and toList): Cardinality of the holders is
  never counted by induction. `CollectionsInv` says, besides CountsMatch and
  LiveWhileHeld in terms of the counts (`LiveByCount`), that only what is allocated
  refers to anything (`OwnersOnly`: else a new object would be born with
  references); that an array's elements are in its first cells (`ArraysAreDense`);
  that an iterator's parent is a container of its kind until the iterator is deleted
  (`ParentsFit`); that a cursor is what its methods take it for (`CursorsFit`); and
  that every loop on `calls` has released what it has passed and still works on what
  it was started for (`LoopsFit`): without that an object would be freed with
  references left in its cells, or a load would store what a deletion below it freed.
  Each method and each step of a loop is shown to be one of a few kinds of step:
  one that only looks (`LookStep`), starts a loop (`StartStep`), goes on with or ends
  one (`SeekStep`, `EndStep`), exchanges one reference for another (`ExchangeStep`),
  leaves an object on the stack (`UnrefStep`), or makes an object (`MakesOf`). The steps
  that leave an object on the stack under the methods, or take it up, change nothing else
  (`StackChanges`); a method does not look at what lies below (`MethodInv`).
* **CollectionLinksProofs**. `LinksInv` says what `order` has to do with the
  pointers: LinksFormLists, that a cursor is on the list its iterator is for
  (`CursorsLinked`), and for every loop where it stands (`LoopsLinked`): a walk is at
  the head of what is left and the link at hand is off its list; a list that is
  emptied by clear or load has no iterator in it; a search is at a link of its list;
  a clone has no tail yet and its link at hand is its last; and no two loops on
  `calls` have a link or a list in common, so a deletion below a loop leaves its list
  alone. The two invariants need each other: swapping the elements of neighbours
  keeps the counts only as both links are allocated, which LinksInv says, so they are
  proved together (`NextInv`). From them: `CollectionsAreTyped`, `CountsAreRight`,
  `NeitherEarlyNorLate`, `ListsAreWhole` and `CursorsStayOwn`, all four properties of
  the run, for any number of objects, links, variables and cells and any `Programs`.

Type invariants are proved, and not checked by a run besides, where there is a
theorem. Only model-checked: the liveness properties (out of the prover's reach), and
two properties of Compiler. `RunsAsWritten` compares the run of the opcodes with that
of a reader who finds the place to go by searching the words, an induction over
both texts. `AcceptsStructured` relates the control stack to the owner of a word,
which is found by counting openers and closers: an induction over the words, too.
The theorems cover what both rest on: no branch is lost and no structure's
continuation is another's.

## 5. Not modelled

Of the modelled parts:

* Fibers: creating and deleting them, and InnerLoops nested in a delete method.
* Threads: a second start, AsyncLock and AsyncSemaphore (each method is one call of
  the system), fibers of several Threads on one Lock, systems without POSIX threads.
* Streams: the position within a block; save-input and restore-input.
* Exceptions: those that cross a nested interpreter; leaving a try block by exit.
* Compiler: goto and labels, csPick and csRoll, words with a squiggle offset, member
  variables, the switch AnsiControlOps, the widths of branch offsets; [if] and #if
  outside definitions.
* Vocabularies: forgetOp and marker (which puts the search order back reversed),
  types, extensions and global objects as forgettables, local and struct
  vocabularies, a search order at its limit of 256, :noname.
* Client and server: contents, lines over 1023 characters, a connection that
  breaks (the client then spins in ReceiveBytes, Pipe.cpp:284), mUseLocalFiles.
* Containers: sort, ref, base, fromMemory and toArray; the readers for JSON; unref and
  append of an object variable; delete methods written in Forth; reference counts
  of several Threads (ATOMIC_REFCOUNTS); Deque, strings, streams, arrays of numbers
  and maps with other keys, which have the methods of the ones modelled or no references.

Of the rest: the opcodes, number and token parsing, code generation for classes,
and the wrappers of system calls are sequential translation of data, better served
by tests. They are most of the source's lines.

## 6. Plan

Done, in this order: Fibers and SoftLocks with their proofs, BlockStore,
BlockBuffers and its proofs, BlockStreams and its proof, Exceptions and its proofs;
Compiler, Threads, Vocabularies and ClientServer with their proofs, conditional
compilation, Lists, Arrays and IntMaps with their proofs, the proofs of Compiler.

To do, in this order:

1. *Compiler*: AcceptsStructured as a theorem, which needs a theory of matching
   brackets (which opener a word belongs to) beside the invariant.
2. *Exceptions*: exceptions across nested interpreters (kPendingException,
   FlushToDepth, ContinueException) with the input stack.
3. *FiberTable*: CreateFiber and DeleteFiber against the scan, with mIndex.
4. *MemoryPools*: the chains of free pieces under several Threads.

Modules with proofs use no recursive operators, only recursive functions. Runs of
related questions are merged where one instance answers both.
