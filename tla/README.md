# Verification of the INAOS Common C Library (inac-ce)

TLA+ models of the library under `src/`, the TLC runs that check them, and
theorems about them that TLAPS proves. Every definition is translated from the
C code; `PROJECT.json` maps each one to its lines, lists the runs, the bug each
property would catch (`mutants`), the hazards of the code and the theorems.

## 1. The system

A C library for single threaded programs: memory pools, linked lists, strings,
return codes, the start and end of a program, command line options. There are
no tests in the repository; the reference besides the code are the headers and
`doc/manual.md`. Code that is compiled only with modules absent from this
repository (hashtable, cio, cpu, log) and the Windows branches are left aside.

| Component | State | Operations | What makes it correct |
|---|---|---|---|
| Memory pools (`memory.c` 13-38, 111-515) | per chunk: `pos`, `end`, `m`, `current`, `parent`, `child`; the registry `__pools`, an intrusive list through the pools | init, destroy, new, free, merge, shrink, clear, reset, info, dalloc, nalloc, ralloc | granted blocks never share a byte and lie in live memory; every chunk stays reachable from an open pool; the registry lists the open pools; failures change nothing; handed-out memory is zero where promised |
| Shared memory pools (`memory.c` 520-612) | the POSIX object and its name, a user count in its first word, per process fd, mapping, pool | open, size, map, count, close, unlink; clear and reset of the pool | the count is the number of users; one exclusive creator; nobody shrinks what the creator uses; the name goes with the last user |
| Linked lists (`list.c`) | `next`/`prev` of the nodes, `head`, `count`, node pool, recycling array | new, free, node_new/free, 4 inserts, remove, remove_data, concat, sort, resize, foreach, find | a list is the sequence of data put in; links, count and tail agree; recycled nodes are in no list |
| Library lifecycle (`lib.c` 253-374, `lib.h` 116-128) | init and destroy guards, `__cleanup`, atexit registration | ina_init, ina_app_init, ina_exit | initialised exactly once, cleaned up exactly once, also after a failed init |
| Signals (`lib.c` 64-78, 376-382, 619-740) | handler map, `signaled`, exit code | register, handler | a signal ends the program after the client's handler, at any point of it |
| Options (`lib.c` 15-52, 80-251, 337-343, 384-535, 589-616) | lists of long and short options (NOMALLOC lists) | parse, isset, get_string/int/float, get_key_value, usage, free | no undeclared option is taken for a declared one or the other way round; every record is freed; parsing ends |
| Error codes (`error.c`, `error.h`) | `__rc`, dictionary callback and message of each thread | set, reset, user bits, accessors, strerror | unpacking returns what was packed, whatever is reset or marked, and by whom |
| Strings (`string.c`) | header (size with pool bits, len), data; bookmarks, positions and token arrays of the algorithms | new.., free, ncpy, ncat, trim, truncate, case, print, substr, compare, buffers of the caller; split, tokenise, wildcard match | len, capacity and terminator agree; the text is what the calls say; the algorithms match their definition and leak nothing |
| Aligned allocation (`memory.c` 40-95) | address of the block before the block | alloc_aligned, realloc, free | aligned, and freed as allocated |

How they interact. `ina_init` creates the registry of pools. Every list has a
growing pool for its nodes, and the registry of pools is itself a list
(NOMALLOC, nodes inside the pools): `ina_list_concat` merges pools,
`ina_mempool_free` unlinks from a list. Strings may live in pools and rely on
pool memory being zero. The options are NOMALLOC lists of strings. `ina_exit`
walks the option lists with callbacks that free the nodes, then destroys the
pools. Signal handlers call `exit`, hence `ina_exit`, from anywhere. Processes
meet in shared pools only.

Where it is hard. (a) *Long sequences of legal calls*: grow, reset, merge,
resize, and then a call that assumes the initial shape. (b) *Partial failure*:
malloc or a system call failing in the middle. (c) *Aliasing*: two handles, two
lists or a list and a recycling array refer to one piece of memory. (d)
*Processes* interleaving between system calls, and dying. (e) *Boundaries*:
`size_t` wrap around, blocks that exactly meet. (f) *Signals* that arrive
between any two steps and call `exit` there.

Fairness. Pools and lists are sequential code that the client calls, with no
scheduler, queue or retry for a fairness assumption to rest on; their modules
claim no liveness, and a call that never returns, such as a walk over a cyclic
list, is recorded as a fault `"hang"`. `Lifecycle` assumes weak fairness of
`Library`, the steps a process takes by itself once main or the signal handler
is in the library, the C library or the kernel: the kernel lets a process run
that is not stopped. Clients and senders of signals promise nothing. `ina_app_init`
reading its arguments and `ina_exit` freeing its lists (`Choosing` in
`MCProgram`, `WF_optVars(OptNext)` in `Options`) and the wildcard match
(`Matching` there, `WF_wildVars(WildNext)` in `Wildcard`) are loops of one thread:
weak fairness of their steps says that this thread keeps running. The other
string functions, return codes, pools and lists claim no liveness.

### Departures from the documentation

Shown by a run (`findings`): `ralloc` in a pool that grows returns overlapping
memory (`MemPoolSpill`); `__ina_shm_close` unlinks memory in use (`ShmRace`);
the wildcard match misses matches when `?` or a repeated character follows an
asterisk, such as "aaab" with "*a?b" (`WildcardWrong`); `INA_RC_ERROR` loses the
top bit of the code, so that the switch of manual.md:465 never meets
`INA_ERR_INVALID` (`ErrorSwitch`); an argument that is a declared option faults
where `ina_app_init` looks it up, as `ina_list_find` never sets the node it has
found (list.c:387) and `__ina_opt_get` follows the NULL it had put there
(lib.c:474), where lib.h says that it returns `INA_SUCCESS` (`OptionCrash`).

Modelled as the code does it, without a run of their own. Pools, lists, start
and end: `ina_mempool_destroy` frees no pool, as `ina_list_foreach` passes
`node->data`, which is NULL for pools (`Destroy`); `ina_mempool_clear` zeroes
the user count of a shared pool (`Clear` in `ShmPool`, excluded by the ghost
`scribbled`); `ina_init` after a failed `ina_init` reports success without
having done anything (the exception in `PoolsReadyUnlessRetried`); free leaves
the caller's pointer set (manual.md:95); `shrink` reports the state before the
shrink (mempool.h:123) and may free the root; a failing malloc leads to a write
through NULL or a read of the freed struct (memory.c:158-169); `reset` and
`clear` followed by growth lose chunks; a free after `ina_mempool_destroy`
follows the NULL that is left of the registry (`FreeCrash`); a `ralloc` that
gives back part of a block which an earlier overrun left beyond the end of the
memory zeroes there too (`ZeroesBehind`); `merge` drops
the children of `src`; `nalloc` ignores a failed growth; `insert_head` does not
make the node the head; `sort` leaves the head without a tail; `resize` leaves
the list on freed nodes; `node_free` writes behind the recycling array; a signal
that arrives in `ina_exit` before the cleanup handler is called ends the process
without it; after one signal that a client's handler has ignored all others are
ignored, and a fault is then repeated for ever; SIGBUS gets the handler but has
no case in it and aborts; `ina_exit` without a registry (after a failed init, or
on a signal during init) reads through NULL; in INA_DEBUG builds a second init,
or the explicit `ina_exit` before the one that atexit calls, fails an assertion,
where release builds return.

Strings: `new_fromblk_using_pool` leaves the length 0 and the text without a
terminator, `new_fromcstr_using_pool` leaves out the terminator (both rely on
zero pool memory); the mark of pooled strings is decimal where a mask was meant,
so `ina_str_free` keeps heap strings whose capacity has one of its eight bits,
and strings in pools never grow but are written beyond their end; `toupper` and
`tolower` flip every byte of the letter's block, not only letters; `sprintf` of
an empty text returns NULL; end 0 of `substr` is position 0, not the end
(string.h:559); `assign_buf` takes 16 bytes for the header, and writes its
terminator behind a buffer of just 16; `release_buf` hands back text that is not
terminated; a print longer than its limit keeps the
whole text, where string.h:656-658 and 681-684 say that the characters beyond the
limit are discarded (`PrintWhole` in `StrText` follows the code), and one that
fails for want of memory leaves cut text with the old length; a string that has
to grow and finds no memory is stored through NULL (string.c:49-51); a capacity
that has bit 30 is read without it (string.c:43), so that the string is resized to
too little and written beyond its end; `substr` from 0 to `SIZE_MAX`, the whole
range, gives an empty string; `split` does not cut a separator of one character
that ends the text, and its memcmp may read behind the terminator when the
separator has more than three; `tok` asks its map with a signed char, so that
bytes from 128 read in front of it; a second `tok` after a last token that ended
the text reads behind the terminator, and so does the match with an empty string
or where a bookmark meets a literal question mark ("a?" with "*?").

Options: since every lookup that finds a name faults (`OptionCrash` has the
first of them), the values of options are never reached, `isset` and `get` never
return `INA_SUCCESS`, and a start succeeds only when
no argument has a dash that counts; a name longer than the buffer for it is
written beyond its end; an unknown option prints the
usage for ever; options without a value are complained of and accepted; a dash
anywhere before a `=` makes an argument an option; `get_key_value` takes short
records for long ones; the short records of options without a short name are in
no list and never freed; `ina_exit` reads each record it has freed.

Return codes: `strerror` builds its type from the code and a user bit instead of
the negation, so that NOT_A and NOT_ENOUGH never stand before the subject, and
24 codes and the subject `INA_ES_SOCKET` have no word; `INA_RC_VER` masks three
of seven bits; the major version is shifted out of the code; only the thread
that called `ina_init` has a buffer for messages, and strerror faults in the
others; `INA_ERR_UNAVAILABLE` expands to a name that does not exist. The module
comments say where.

## 2. Modules

| Module | Models | State |
|---|---|---|
| `MemPool` | private pools, one action per call and outcome | done |
| `Arena` | what an arena allocator promises | done |
| `MemPoolArena` | the refinement mapping from `MemPool` to `Arena` | done |
| `MemPoolProofs` | type correctness of `MemPool`, for all constants | done |
| `MemPoolSafety` | the inductive invariant, blocks, bump pointers, zero fill, that `MemPool` implements `Arena`, and blocks beside overrun chunks | done |
| `MemPoolChains` | the chains of chunks, leaks, failed calls, the registry and what info counts, for all constants | done |
| `ShmPool` | shared pools of several processes, one action per system call | done |
| `ShmPoolProofs` | `ShmPool` for any number of processes: types, the count, exclusive creation, size, name | done |
| `InaList` | lists with their heap: nodes, pools, recycling array | done |
| `ListSeq`, `InaListSeq` | a list is a sequence; the refinement mapping, which takes a list that a call has broken for one freed by that call | done |
| `ListSort` | split, merge and merge sort, as functions of the places they work on | done |
| `InaListProofs` | lists beside broken ones for any number of lists, nodes and calls: links, members, tail, recycled nodes, what a call spares, that `InaList` implements `ListSeq`, and that the merge sort sorts | done |
| `MCMemPool`, `MCShmPool`, `MCInaList` | symmetry sets, named values, operators for TLC only | done |
| `Lifecycle` | init, exit, guards, atexit, signals at any point | done |
| `Options` | the two option lists, arguments, lookups, usage, release | done |
| `ErrorCode` | the fields of a return code, the codes of threads, strerror | done |
| `ProgramProofs` | the three above, for any calls, signals, options, arguments, threads and errors: cleanup handler, exit status, registry; answers and records; return codes | done |
| `MCProgram` | all modules of `lib.c`, `error.c` and `string.c` side by side for TLC | done |
| `StrHeader` | the capacity of a string: the mark of pooled strings, the mask | done |
| `StrBuf` | strings on the heap, in pools and in buffers, one action per call | done |
| `StrText`, `StrBufText` | what string.h promises of a text, but for prints beyond their limit; the refinement mapping | done |
| `StrBufProofs` | heap strings are sound, hold their text and compare, for all bytes, lengths and calls | done |
| `StrTok` | the tokenizer | done |
| `StrSplit` | split with failing allocations | done |
| `Wildcard` | the wildcard match | done |
| `StringProofs` | the three algorithms for all texts, separators and patterns: verdicts, tokens, cuts, room and release | done |

`MemPool`, `ShmPool` and `InaList` abstract from one another where one is the
other's client: `InaList` knows a pool as the owner of nodes (`home`), and the
registry in `MemPool` is a sequence with the nodes each list call touches
(`TouchedByInsert`, `TouchedByRemove`). `Arena` is what the client side of that
cut relies on. What the cut leaves out: that the merge in `ina_list_concat` leaves
`src` in the registry and loses the children of its pool (memory.c:222) is in
`MemPool`, not in `InaList`, whose `Concat` moves every node to the other list's
pool (`Rehomed`).

### MemPool

`chunk` are the `ina_mempool_s` structs with the memory `m`; `pools` is
`__pools`; `handle` the client's variables; `rc`, `info` what a call returns.
Ghosts: `held` (which variables stand for an open pool), `blocks` (what the
client was granted and has not given up), and in a chunk `zeroed`, `lo`, `hi`
(which bytes may have been written since the memory was last all zero) and
`root`. The first undefined behaviour sets `fault` and no call follows.
Each entry point is one action per outcome, so that each early return of the
code is an action or a disjunct: `AllocHere`, `AllocGrow`, `AllocFull`,
`AllocCrash`, `DallocNoStruct` are `ina_mempool_dalloc` (k = "d") and
`ina_mempool_nalloc` ("n"); `RallocInPlace` .. `RallocRefused` are
`ina_mempool_ralloc`; `NewPool`, `NewRejected`, `NewNoStruct`, `NewCrash` are
`ina_mempool_new`, and so on. Sizes are integers modulo `SizeMod`. malloc gives
an address nothing refers to (`Reusable`), so that a dangling pointer stays
visible as one; the cost is that reuse of an address under a dangling pointer
is not explored, as the use before it already is a fault.

### ShmPool

One action per system call or atomic update, of any process: `Open` (shm_open),
`Truncate`, `Map`, `Increment`, `Decrement` (with munmap and close, which
concern only the process itself), `Unlink`, the failing variants of ftruncate
and mmap, `Reset` and `Clear`, and `Scribble` for a client that writes to
memory it was granted. `Killed`, `BusOnIncrement` and `BusOnClear` are the ends
of a process. `names` and `object` are the kernel's; a count keeps its value
when a process dies, an object without name and users is gone. Ghosts: `lost`,
`abandoned`, `scribbled` in an object. Of `pos` and `end` only the fate of the
first word is kept (`first`). Arithmetic of blocks is `MemPool`'s.

### InaList

`cell` are the nodes with their real `next` and `prev`, `list` the list structs.
A node has a `home`, the pool it was granted from or the client; a pool bears
the name of the list that owns it, and `Concat` moves the homes. Ghosts: `use`
and `of` (what the client believes about a node) and `taint` (a call was made on
the list that breaks it: insert_head on a list with nodes, resize of one, an
insert of a node from another list's pool, or a concat with such a list). `Walk`
follows `next` as foreach, find, remove_data, resize and sort do; `After` is the
pointer the walk ends with, and decides between the end of the list, freed
memory and a cycle. Both come from `Trail`, the pointers met. `SortedWalk` says
with `Rank`, the number of nodes that come before one, what sorting returns
without recursion; `SortsAsMergesort` compares it with the merge sort of
`ListSort` on every list a client can build. There the recursive calls of the C
functions are the values of a function of the places the arguments start at (or
of the first and last place of the part to sort), since the nodes themselves are
only relinked. The comparison function is that of the naturals, so equal data is
possible.

### Lifecycle

There are two contexts, main and the signal handler above it, each with a
position `pos`. An action is a step of `ina_init`, `ina_app_init`, `ina_exit` or
`__ina_signal_handler` between which a signal can make a difference: a guard is
tested (`LeaveGuard`) and set (`LeaveMark`) in two steps, each signal is
installed in one (`CatchSignal`). A step runs in the handler while there is a
signal to handle, as every signal is blocked then (`sigfillset`), and in main
otherwise. `passed` are the static variables of the guards, `caught` the
installed signals, `registry` is `__pools` (NULL or a list; `MemPool` has its
contents), `cleanup` is `__cleanup`, `hook` the handler map, with what the
client's handler asks for, and `signaled` and `exitcode` are the static
variables of the signal handler. `told` is what the last init returned. The
signals are one for each way the handler treats them. A pool call that a signal
can interrupt is two steps (`UsePools`, `PoolsUsed`): an `ina_exit` in between
finds the chains half updated (`Torn`) and may fault. External, modelled from
how the code uses it: `exit` takes `ina_exit` off its list before it calls it;
`abort` ends the process after the handler of SIGABRT returned; a fault raises
SIGSEGV, which ends the process where it is blocked or not installed, and is
repeated when the handler returns. `INA_DEBUG` is the constant `Builds`.

### Options

`declared` and `args` are what the client passes; `shorts` and `longs` are
`__sopt` and `__lopt` as the entries in them, `made` which of the two was
created, `nameless` the entries whose long name found no memory. `stage` is the
position in `ina_app_init`, in the client, or in `ina_exit`; one action per round
of the loop over `argv` and per loop of `ina_exit`. What the arguments contain is
computed from their characters (`EqualsAt`, `Dashes`, `NameOf`), as the code
scans them. Every undefined behaviour before `ina_exit` ends in the signal
handler, which calls exit: `Fault` takes the first to `ina_exit` and the second
to the end of the process. A write beyond the buffer for the name is the stage
"overflow". What is read in a freed record is `FreedMemory`: still there, or
not. The program name and path are left out.

### ErrorCode

A return code is the record of its fields; the low 24 bits stay one number, as
that is where the accessors overlap. `Pack`, `EFlag` .. `ErrMsg`, `RcError` are the
macros, `Adjective`, `Type`, `Noun`, `Order` and `Message` what strerror prints,
with codes and subjects in place of words. `rcs`, `dict` and `errmsg` are the
thread local variables. `said` is a history: the error each thread has reported
last, what it marked it with, and whether it has handled it.

### Strings

`StrBuf` has a string `str` and a second one, `sub`, made from it by substr or
dup. A string is its header words and all bytes of its memory, so that a
missing terminator, a stale byte behind the end and a capacity that is not the
memory's are states. The first write or read outside ends the run with
"overflow" or "overread", a realloc of memory that malloc has not granted with
"foreign"; `kept` are the capacities of heap strings that free took for pooled
ones. `StrText` is the text of a string without memory; `StrBufText` maps a heap
string to it and everything else to "no text". A growth that finds no memory,
which the code does not survive, ends the run with "fault". `Spare` is the room
a call believes to have, from the capacity as the mask leaves it (`Masked`, bit
30 stands as `MaskBit`): where the bit is set the room is wrong, and `Ensured` may
grow the string to less than is written. Left out are the wrappers of strcasecmp,
strncmp, strstr and strrchr in string.h.

`StrTok` keeps the buffer of the caller with the separators overwritten so far
and the position `*next`; bytes from 128 (`SignBit`) divide the text or not,
call by call, as the memory in front of the map happens to be (`Dividers`).
`StrSplit` has one action per round of its loop, each allocation failing or not,
with `live` the tokens that are allocated, and "overread" where memcmp may look
behind the terminator; `Wildcard` one action per way a round of the match can
take, with both bookmarks. The inner loops of a round are the positions they
stop at. The reference definitions (`RunStarts`, `Joined`, `Matches`) are stated
on the text alone: a pattern matches when there is a monotone placement of its
characters (`Fits`).

`MCProgram` puts the modules of `lib.c`, `error.c` and `string.c`, which share
no state, side by side: `job` chooses one at the start, and the others rest.
`Jobs` says which a run chooses from.

## 3. Runs

All runs: symmetry over interchangeable addresses, variables, processes or
lists; `CHECK_DEADLOCK FALSE` where a behaviour may end (after a fault, when
the client can make no further call within the bounds of the run, when the
process has ended, or while a usage text is printed for ever).

| Run | What it shows | Bounds and why they are enough |
|---|---|---|
| `MemPoolFixed` | pools of fixed size, aligned and BESTFIT, all allocation calls: the inductive invariant (blocks apart among it), registry exact and no undefined behaviour, free space zero | 2 chunks, 2 variables, 3 blocks, pools of 6 bytes, requests 1 and 3 with alignment 2: rounded and exact requests that fill, just miss and meet in the middle |
| `MemPoolDynamic` | growing pools with failing malloc: blocks apart across chunks, no leak, info exact, failures clean, other pools spared, an `Arena` | 3 chunks over 2 pools: one pool can hold three, or two pools share; requests below, at and above what a chunk has left, AUTOSIZE included |
| `MemPoolHostile` | every structural call in any order, malloc failing: chains stay sound, only chunks that ralloc overran lose blocks | 3 chunks, pools of 6 bytes, requests 2 and 4: merge, shrink, spill and growth need two chunks, the third is the bystander; a block of 4 that ralloc puts behind one of 4 crosses the end by 2, and giving half of it back zeroes there |
| `MemPoolSpill` | finding | the smallest instance that shows it |
| `ShmShared` | three processes, one of which also clears, resets and writes, one may die, ftruncate and mmap may fail: count, exclusive creation, size, name | one label is where processes meet; two objects are needed for a name that leads to another object than a user has open; two sizes, on and above a page; the theorems below cover any number of each |
| `ShmRace` | finding | two processes |
| `ListSound` | two lists, four nodes, two data values, calls that break nothing: merge sort, a `ListSeq` (which has the links, the count and the members) | lists of up to four nodes have a head, a tail and two inner nodes, halves of odd and even length, equal and different data |
| `ListHostile` | every call, NOMALLOC lists, pools that cannot grow, recycling arrays of 3, 1 and 0, further calls on broken lists: lists no such call was made on keep their types, links, count, members and tail, recycled nodes wait in one place, calls spare other lists | two nodes with a pool and one of the client: a broken list and one beside it that shares memory; one data value, as the order is `ListSound`'s |
| `Program` | one part of the program after the other; start and end: both builds, failing atexit and malloc, client handlers that ask for any exit code or ignore, signals between any two steps: cleanup once and not skipped, registry after success, exits and crashes end | two calls of init are the retry, and `ina_app_init` on top of `ina_init`; two signals are one that is ignored or interrupts, and one after it; hooks for SIGTERM and SIGSEGV, one of each kind of signal that a handler can decide about |
| | options: nobody is told that a declared option does not exist, records freed also after a fault half way, arguments end | no, one and two options, with and without short name, value and default; up to two arguments of each shape the scan tells apart (no dash, one, two, behind a letter, behind and before `=`, nothing behind it, too long); `BufSize` 3 stands for 100 |
| | return codes: what was reported can be told | two threads, one of which initialised the library; three errors, with codes on both sides of 128, negated or not, a subject of the client's; user bits 0 and 1, as the lowest is the one strerror confuses |
| | wildcard: no false match, right when one bookmark is enough, ends | all strings up to 4 over two letters and a literal `?`, all patterns up to 4: two asterisks with a repeated prefix between them need 4 |
| | tok: the tokens of a text below 128 are its runs | all texts up to 5 over two characters and a byte from 128 on, all sets of them as separators: two tokens with separators before, between and behind |
| | split: room, text given back, nothing left | all texts up to 6 over a separator and a letter: the array of 5 slots grows at the fourth token; separators of 0 to 4 characters, overlapping themselves, the longest of which reads behind the terminator; any allocation failing |
| | growing strings: heap strings sound, hold their text, compare lexicographically | lengths up to 4, texts with and without a zero byte; `PrintRoom` 2 stands for 128; `PoolMarks` 2 and 64 stand for the eight bits of 80000000, one within the capacities of the run and one above them, `MaskBit` 4 for bit 30 and `SizeMax` 1000 for `SIZE_MAX`: capacities with and without each bit meet requests on both sides of what is left |
| `ErrorSwitch` | finding | one thread, the same errors |
| `OptionCrash` | finding | the declarations and arguments of `Program` |
| `WildcardWrong` | finding | all strings up to 4 over two letters, all patterns up to 4 |

The bounds are the constants of the .cfg files and, by name: `MaxBlocks` (blocks
held at one time), `MaxCrashes`, `Rewinders` (processes that call reset and
clear), `BrokenCalls` (calls made on a list after it was broken), `HeapMax`
(largest request malloc grants), `MaxInits` (calls of init), `MaxSignals`
(signals sent to the process; those that faults and `abort` raise are not
counted), `Hooked` (signals clients register handlers for), `Declarations`,
`CommandLines` and `Names` (options, arguments, names asked for), `Reported`,
`Errnos`, `UserBits`, `Jobs`, `MaxTame`, `MaxWild`, `MaxText`, `SplitTexts`,
`Separators`, `Sources`, `Fills`, `TrimSets` and `MaxLen`. `Calls` restricts a
run to some entry points: the separation keeps the properties of each run
strong, as `RegistryExact`, which includes that nothing undefined happens,
cannot hold where a call crashes by construction. `MemPoolFixed` and
`MemPoolDynamic` therefore leave out `shrink`, `merge` and `destroy`, and
`Dynamic` leaves out ralloc, reset and clear, which `Hostile` and `Fixed` have.

Not checked by any run: several labels at once, shared pools that grow, EXCL
without CREATE, requests near `SizeMod` together with many blocks, callbacks of
foreach that change the list.

## 4. Theorems

TLAPS proves, for every value of the constants (all addresses, sizes, flags,
any number of processes):

| Theorem | States | Assumes besides the named ASSUMEs of the constants |
|---|---|---|
| `MemPoolProofs`: `TypeCorrect` | `Spec => []TypeOK` | nothing |
| `MemPoolSafety`: `PoolsStaySafe` | `Spec => []IInv`, the inductive invariant behind the next four | `SaneSizes`, `NoOverrun` |
| `MemPoolSafety`: `BlocksStaySafe` | `Spec => []BlocksSafe`: granted blocks lie in live memory and share no byte | `SaneSizes`, `NoOverrun` |
| `MemPoolSafety`: `BumpsStaySound` | the bump pointers of every chunk lie in its memory and do not cross | `SaneSizes`, `NoOverrun` |
| `MemPoolSafety`: `FreeSpaceStaysZero` | `Spec => []FreeSpaceZero` | `SaneSizes`, `NoOverrun` |
| `MemPoolSafety`: `PoolsImplementArena` | `Spec => ImplementsArena`, the refinement | `SaneSizes`, `NoOverrun` |
| `MemPoolSafety`: `BlocksSafeBesideOverruns` | `Spec => []BlocksSafeUnlessOverrun`: the same in every chunk that ralloc has not overrun, with growing pools and every call in use | `SaneSizes`, `LengthsKnown` |
| `MemPoolChains`: `ChainsStaySound` | `Spec => []ChainsSound` | nothing |
| `MemPoolChains`: `OthersAlwaysSpared` | `Spec => OthersSpared`, an action property | nothing |
| `MemPoolChains`: `NothingLeaks` | `Spec => []NoLeak` | `NeverRewinds` |
| `MemPoolChains`: `FailuresAreClean` | `Spec => FailureIsClean`, an action property | `NeverRewinds` |
| `MemPoolChains`: `RegistryStaysExact` | `Spec => []RegistryExact` | `HeapServes`, `RootsKept`, `RallocOnFixed` |
| `MemPoolChains`: `UsedStaysExact` | `Spec => []UsedExact`: info counts what was granted | `TakesOnly` |
| `ShmPoolProofs`: `TypeCorrect` | `Spec => []TypeOK` | nothing |
| `ShmPoolProofs`: `InvCorrect` | `Spec => []IInv` | nothing |
| `ShmPoolProofs`: `CountCorrect` | `Spec => []CountExactUnlessScribbled` | nothing |
| `ShmPoolProofs`: `NamesRemoved` | `Spec => []NoOrphans` | nothing |
| `ShmPoolProofs`: `OwnerUnique` | `Spec => []OneOwner` | nothing |
| `ShmPoolProofs`: `OwnerKeepsSize` | `Spec => []OwnerBacked` | no client passes EXCL without CREATE |
| `InaListProofs`: `ListInvariant` | `Spec => []ListInv`, the inductive invariant behind the next seven | nothing |
| `InaListProofs`: `ForwardStays` | `Spec => []ForwardSound` | nothing |
| `InaListProofs`: `MembersStay` | `Spec => []MembersMet` | nothing |
| `InaListProofs`: `TailStays` | `Spec => []TailKnown` | nothing |
| `InaListProofs`: `RecycledStay` | `Spec => []RecycledApart` | nothing |
| `InaListProofs`: `OthersStaySpared` | `Spec => OthersSpared` | nothing |
| `InaListProofs`: `ListsImplementSequences` | `Spec => ImplementsSequences`, the refinement of `ListSeq` | nothing |
| `InaListProofs`: `SortIsMergesort` | `Spec => []SortsAsMergesort`, for lists of any length | nothing |
| `ProgramProofs`: `TypeCorrect` | `Spec => []TypeOK` of `Lifecycle` | nothing |
| `ProgramProofs`: `CleanedUpOnce` | `Spec => []CleanupOnce` | nothing |
| `ProgramProofs`: `CleanedUpAtExit` | `Spec => []CleanupRan` | nothing |
| `ProgramProofs`: `ErrorsReported` | `Spec => []ErrorsFail` | nothing |
| `ProgramProofs`: `RegistryReady` | `Spec => []PoolsReadyUnlessRetried` | nothing |
| `ProgramProofs`: `AnswersAlwaysRight` | `OptSpec => []AnswersRight`: neither client nor usage text is told that a declared option does not exist | nothing |
| `ProgramProofs`: `RecordsAlwaysFreed` | `OptSpec => []RecordsFreed` | nothing |
| `ProgramProofs`: `ReturnCodesTell` | `ErrSpec => []RcTells` | nothing |
| `StrBufProofs`: `HeapStringsSound` | `BufSpec => []StrSound`: capacity, length and terminator of heap strings, no access outside them but for a write when the capacity has the masked bit; a growth without memory, and only it, stores through NULL | nothing |
| `StrBufProofs`: `CmpOrders` | `BufSpec => []CmpLexicographic` | nothing |
| `StrBufProofs`: `StringsImplementText` | `BufSpec => ImplementsText`, the refinement of `StrText`, in which a growth without memory, a print without memory and a misread capacity lose the text | nothing |
| `StringProofs`: `NeverFalseMatch` | `WildSpec => []NoFalseMatch` | nothing |
| `StringProofs`: `VerdictsRight` | `WildSpec => []WildRight`: besides, for strings that are not empty, no match is missed and nothing behind the string is read where one bookmark is enough: asterisks only at the end, or a string without a character twice and without `?` | nothing |
| `StringProofs`: `TokensAreRuns` | `TokSpec => []TokensRight`: the tokens of a text of characters below 128 are its runs | nothing |
| `StringProofs`: `SplitNeverOverflows` | `SplitSpec => []SplitRoom` | nothing |
| `StringProofs`: `SplitGivesBack` | `SplitSpec => []SplitFreed` | nothing |
| `StringProofs`: `SplitCutsRight` | `SplitSpec => []SplitRight`: the tokens joined are the text, none but the last holds the separator, and the last only one of a single character at its end; only separators longer than three read behind the text | nothing |

The pool proofs. `TypeCorrect` is inductive on its own and assumes only the
named ASSUMEs of `MemPool`. `BlocksSafe` is not inductive: that a block and the
free space do not meet follows from the two bump pointers not crossing
(`BumpsSound`), that freeing one pool spares another's blocks from child
pointers staying within a pool (`LinksSound`, by which `ChainStays` bounds what
a walk can reach), that a block's pool is open and owns its chunk from
`BlocksOwned` and `PoolsSound`, and that ralloc, which is told the old size by
its caller, takes back no more than the block from `LensCover`. `IInv` is their
conjunction, and the run `MemPoolFixed` checks it. Steps are grouped by effect
rather than by call: steps that change no chunk and no block, steps that release
(`Releases`: free, clear, reset, shrink), steps that take (`Takes`: dalloc and
nalloc in place, ralloc that moves), growth, merge, ralloc in place. One lemma
per group shows that `IInv` is kept, and one per action that the action has the
effect. The theorems assume `SaneSizes` (requests far from the width of
`size_t`) and `NoOverrun` (no ralloc in pools that can grow, nor in pools merged
from BESTFIT ones). Without `NoOverrun` the statement is false, which is what
`MemPoolSpill` shows.

Two more facts rest on `IInv`. `FreeSpaceZero` is inductive relative to it: a
byte that may have been written lies below `pos` or above `end`, since what is
taken moves a pointer over it, and what ralloc or clear gives back is zeroed.
`PoolsImplementArena` says of each action which step of `Arena` it is:
`NewPool` opens; a free closes; a merge absorbs; clear, reset and shrink release
blocks of their own pool; dalloc and nalloc, in place or after growth, grant;
ralloc, in place or moving, grants in exchange for the old block; everything
else leaves pools and grants alone. The
grants are apart from all others because `IInv` holds after the step.

`BlocksSafeUnlessOverrun` is for the clients `NoOverrun` leaves out, the ones of
`MemPoolHostile`: ralloc on pools that grow puts a block at `pos` of the root,
past its `end`, so the pointers cross and blocks from the two ends do collide
there. `SideInv` is what remains, and speaks of one side at a time: every block
lies below `pos` or above `end` of its chunk, by the end it was taken from
(`GrantSound`), and two blocks of the same side are apart even in an overrun chunk
(`SidesApart`), since a pointer turns back only over blocks that were given up, or
over the tail of the last one. Where the
pointers have not crossed the two sides do not meet, which is the property. It is
inductive relative to `ChainInv`, which tells the chunks of different pools apart
after merges and lost chunks. `SidesMoved` covers a ralloc that moves within the root
and one that lands beyond it. `LengthsKnown` (no merging of `BESTFIT` pools for a
client that also calls ralloc) cannot be dropped: such a block, granted with 1 byte
and taken for 8 by the pool it went to, is "resized" to 8 bytes where it lies.

The chains. `ChainInv` is inductive for every client, with no assumption: a
freed struct has no child, a live one has a live child of the same pool
(`ChildrenLive`), no struct is the child of two (`OneParent`), the root of an
open pool is nobody's child and reaches its current chunk (`RootsFree`), and no
two variables stand for one pool (`OneHandle`). `Chain` is defined by what can
be reached, and not by recursion, so that each lemma about it follows from one
set that is closed under `child`. Steps fall into few shapes: links unchanged, a
chain freed whole, one chunk linked behind the current one, two chains joined, a
chunk cut out. `OthersSpared` follows from two chains being disjoint. `NoLeak`
is not inductive: it needs that growth finds nothing behind the current chunk
(`LastCurrent`), and this holds for clients that never make an earlier chunk
current again (`NeverRewinds`). After a reset or a clear the next growth loses
chunks, as section 1 says, so that the assumption cannot be dropped. The same
invariant makes failures clean, since the only thing that a failed growth writes
is a NULL where `LastCurrent` has one already.

`UsedExact` compares two sums. `Total` is a sum over a finite set as the library's
fold computes it; that the fold is defined and does not depend on the order
(`SumsExist`, `SumsAgree`, `TotalLast`, `TotalUnion`, `TotalParts`) is proved by the
cardinality of a least counterexample, in place of an induction theorem, which
would take an operator. The invariant is local to a chunk (`SpaceTold`): the
lengths of the blocks in a chunk sum up to what `pos` and `end` have left. It
holds for clients that only take and free (`TakesOnly`): clear and shrink give up
blocks whose bytes, at the top, stay taken, ralloc moves a block and leaves the old
bytes behind, merge drops the further chunks of one of the pools from the walk, and
so does the next growth after a reset or a clear.

The registry. `RegistryExact` includes that nothing undefined is done, hence
the assumptions: malloc serves what the client asks (`HeapServes`, as a NULL is
written through otherwise), no call leaves the registry behind (`RootsKept`,
merge, shrink and destroy do), and ralloc is kept off growing pools. All
three hold of the constants of `MemPoolFixed`. `RegInv` adds that sizes, once
rounded up, stay as they are (`PoolBytesTwice`), so that a growing pool asks
malloc for nothing larger than `HeapServes` covers.

The proofs about shared pools. `StepKinds` sorts the steps of a process into
three kinds: it opens, it moves on with the pool it has (`Moves`), or it ends
without a pool (`Leaves`: a failed open, a close, an unlink, a death). Each
conjunct of the invariant is then shown for the three kinds. `OneOwner` is
inductive over the types alone: an exclusive open finds an object nobody refers
to. The count is inductive as well, as users come and go one by one
(`UsersChange`). `NoOrphans` is not: while the memory is in use it says nothing,
so `RemoverLeft` asks for a process that is going to unlink each name. A close
that does not unlink keeps it, because a count that is exact and not zero leaves
another user (`OtherUser`, from `CountExactUnlessScribbled` and `LossSeen`), and
an unlink by label hits the right name by `LabelsSound`. `OwnerBacked` needs
`OneOwner` and `FlagsSound`: who sizes an object created it, hence is its only
owner; with EXCL alone a late opener would shrink it. What these theorems do not
say is that memory in use keeps its name: that is false, which is what `ShmRace`
shows.

The proofs about the lifecycle. `CleanupOnce` is not inductive because main may
have tested the guard of `ina_exit`, be interrupted before it sets it, and meet
a signal handler that goes through `ina_exit` first. `Once` says why main does
not go on in that case: the handler is then past the point where it could return
(`Past`), and ends the process. `CleanupRan` has the same interruption in it:
`Promised` says who still has the cleanup handler before him, main or the signal
handler, and that he who has not is past it. For `ErrorsFail`, `FailedInv` adds
that the handler of a program error has called exit with 1, which nobody can
change any more. For the registry, `RegisteredInv` says that who is out of
`ina_init` without a failure has left a registry behind, and that nobody takes
it away before the guard of `ina_exit` is set. Without the exception for a
failed init the statement is false: the second init returns at the guard.

The proofs about lists. What the runs check says nothing of lists that a call
has broken, so it is not inductive: the nodes of a broken list could lead
anywhere. `ListInv` says that there are a sequence `S[l]` for each list and a
set `D` of nodes such that (`AllOK`): a list no call has broken (`Clean`) is
threaded on its sequence, `next` to the end and `prev` back, the head to the
tail or nothing (`Threads`), has `count` nodes, and holds exactly those the
client put in, all of them in its own pool or the client's (`ListOK`, `Holds`);
a node in a recycling array of such a list is in no other array and not with the
client (`FreeOK`), while arrays of broken lists may hold anything that is not in
a sound one (`StrayOK`); and `D` has the heads and the nodes of the broken
lists, no link leads out of it to memory that is allocated, and no list but
broken ones has a part in it. `Fresh` is needed here: malloc never grants memory
that a dangling pointer names. `WalkThreads` and `WalkStays` connect `Trail`, a
recursive function, to this: a walk follows the sequence, or stays in `D` and
meets no node twice, by the least index at which it would not (`LeastOf`, from
well-foundedness of the naturals). The steps are grouped by what they do to
nodes: one comes (`ComingKeeps`) or goes (`LeavingKeeps`), a pool is freed
(`FreedKeeps`), a sound list is rewired (`CleanKeeps`), a list is broken or
changed when it is (`BreakingKeeps`, where `D` grows by its nodes:
`ReachLeads`), a list is made anew from copies (`RevivingKeeps`). Each call is
shown to be one of these or, where the library does two things, two of them:
insert_tail_data is a node that comes and is then linked, remove_data one that
is unlinked and then goes, resize a freed pool and a list made of copies.
`SortedIs` says that `Rank` numbers the nodes of a walk, so that sorting loses
none. Calls that crash change nothing (`CrashKeeps`). `OthersSpared` follows as
the nodes of a sound list are its own.

`ListsImplementSequences` uses that the sequence of a sound list is the one its
walk meets: the contents of a list are the data along it (`ContentsThreaded`),
and a list that no call touches keeps them (`ContentSpared`). Each kind of call
is one step of `ListSeq`: a node comes at the end or the front (`InsertStep`),
one goes (`RemoveStep`, with `RemovedAt` for what is left of the sequence), two
sequences are joined (`ConcatStep`), the data comes in order under a permutation
(`SortStep`, where `SortedInOrder` gets the order from `Rank`), a list begins
(`NewStep`), or a call breaks the list, which the mapping takes for its end
(`BrokenStep`). What is joined to a broken list is lost to the client, and
`ListSeq` says so.

`SortIsMergesort` is a proof about recursive functions, without the library's
theorems for them, whose operator parameters the provers cannot instantiate. Two
lemmas take sets and functions instead: a set that has each point whose smaller
points it has, has all (`ByMeasure`), and a recursion whose value at a point
depends on smaller points only defines a function (`ByRecursion`). They are used
with the number of nodes left to merge (`LeftFalls`) and the length of a part
(`SplitFalls`, where the middle that `__ina_split` finds lies strictly inside).
`Lists` says that a sequence names the places of a set in order, by data and then
backwards (`Ahead`): merging two such sequences, the places of the first before
those of the second, gives one of the union (`MergesLists`), so sorting gives one
of all places (`SortsLists`). `Rank` gives one too (`SortedLists`), and there is
only one (`ListsOnce`). `WalkOrdered` says that every walk, also of a broken
list, meets nodes with data to compare.

The proof about options. `OptInv` has three parts beside the types. `ListsRight`:
the long list holds the declared options in their order, and the short list
those of them that have a short name, once each. `FreedRight`:
what was freed of a list is a beginning of it (`Firsts`), and the long list is
begun when the short one is done. `ArgsRight`: what was told of a name is right
because both lists are searched before it is told, and `ListsRight` has every
declared name in one of them, but for long names that found no memory, whose
lookup faults. The number of records `ina_exit` has freed tells how far it came because
no entry is twice in a list (`FreedCount`, by the cardinality of a range).

The proofs about strings. `StrSound` needs only the types beside it (`BufInv`):
`Resized` and `Enough` leave room for what a call then writes because a heap
string has `len < size` and, without the masked bit, `Spare` is the room it
really has (`EnoughRoom`, `EnsuredSound`); with the bit the write may go beyond
the end, which is why the theorem excepts it; and each way to write (`Writes`,
`Prints`, trimming, flipping) keeps a terminator at the new length. For split,
`SplitInv` adds that the search and the open token stay in the text and that the
array has room for two more elements in every state of the loop: growing doubles
at least five slots, which is why one test a round is enough. `SplitRight` is a
statement about a fold over the tokens: `FlattenIs` and `FlattenMore` say what
one piece more adds to it, and are proved by the least length at which it would
be something else. `SplitCuts` then says of the loop that what is cut so far is
the text up to `start`, that no separator begins between `start` and the search,
and that a cut token has none (`PieceHoldsNone`); the last token is the rest
(`JoinedLast`), and has none but the one of a single character that the search
stops short of (`LastHolds`). `NoFalseMatch` is not inductive, as the verdict is
right only if everything matched so far was: `WildPlace` says which prefixes of
pattern and string match at the current positions, `WildMarks` that an asterisk
is before the bookmarks, so that `MatchStretched` may move the string's bookmark
on. The other direction, that no match is missed, does not hold for all
patterns, which is what `WildcardWrong` shows. It holds where one bookmark is
enough (`Simple`), and `SimpleInv` says why: a match gives each position of the
pattern the one of the string it starts at (a fit, not decreasing by
`FitRises`). Before the first asterisk both are in step (`Unmarked`); behind it,
in step with the bookmarks, no fit puts the marked character before the bookmark
of the string (`InSegment`); or the one place that character has was passed, and
there is no fit at all (`Passing`).

`TokensRight` follows from `TokInv`: the tokens given so far are all runs that
start before the position `*next`, what lies behind it is as in the text
(`Going`), and each token given is whole and terminated (`Whole`); a text of
characters below 128 has one set of `Dividers`, its separators. For
`CmpOrders` the walk of the code ends at the first difference or at the
terminator of the shorter, which `StrSound` says is there; without zero bytes
inside it is the end.

`StringsImplementText`: each call on a heap string is the step of `StrText` with
the same name, with what the call does to the bytes before the terminator
compared character by character; a growth that faults, a cut print and a write
beyond the end are `Drop`; a call on a string that is not on the heap leaves it
there (`NoTextWritten`), which is "no text" before and after.

The proof about return codes. `RcCarries` says of each thread that its code is
made of the last error it reported; `CarriesTells` that the fields do not
overlap, which is arithmetic on the ranges of code, negation and subject, and
that `INA_RC_ERROR` is right while the two bits it mistakes are zero.

The type invariants of `MemPool`, `ShmPool` and `Lifecycle` are proved; those of
`Wildcard`, `StrTok`, `StrSplit`, `StrBuf`, `Options` and `ErrorCode` are part of
the inductive invariants above; `InaList`'s is a conjunct of `ForwardSound`.

Only model-checked, as out of this prover's reach: liveness and ENABLED
(`ExitEnds`, `CrashEnds`, `ArgumentsEnd` and `MatchingEnds` stay with TLC). Every
other invariant and action property that a passing run checks is stated by a
theorem.

## 5. Plan

What is left, in the order of what it would add:

1. A lemma that an unlink which takes a name away from users needs a count that
   reached zero or the creator.
2. Strings in the pools of `MemPool`: that freed, reset or merged pools take
   their strings with them.

Not modelled and not planned: aligned allocation (`memory.c` 40-95: three
stateless wrappers, a rounding and a stored address, of which a model would be a
copy); portability macros, type definitions, version and debug output (no
state); the words of messages in `error.c` (data); the values of command line
options (no execution reaches them); the Windows branches (another program);
the build.
