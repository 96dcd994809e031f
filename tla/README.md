# bas-c: models, checks and proofs

This directory holds TLA+ models of the bas-c library (`src/src/bas/`), the TLC
configurations that check them, and proofs about them for TLAPS. Each module is
translated from the C source; `PROJECT.json` maps every definition to the lines
it stands for and lists the hazards the properties are aimed at.

    tlc -workers 2 -config DbgTimer.cfg MCDbgTimer       # any run of the table below
    tlapm DbgTimerProofs.tla                             # any module of proofs

## 1. Inventory

bas-c is a small C library and a few demonstration programs. There is no server
and no protocol: what is hard in it is the debug timer and console (threads), the
crash handler (signals, forks, children that fail), the ownership of strings through
chains of arrays when an allocation fails, and callbacks that re-enter the structure
that is calling them.

| Component | Source | State | Operations | What makes it correct |
|---|---|---|---|---|
| debug timer | `proc/dbgthread.c` 185-345 | `s_timer_ctx`, `s_timer_mutex`, one heap context, one thread | `start_timer_thread` (start or update), `stop_timer_thread`, `print_timer_status`, the thread's loop | no use of a freed context; one timer at most; parameters of one call are seen together; stop returns; the timer fires |
| debug console | `proc/dbgthread.c` 347-643, `proc/dbgaction.c`, `app/sldbg.c` | `g_dbg_thread`, `g_kbd_quit`, `s_interactive`, exit callback, action table | start, stop, one command per line | a stop ends; commands free their argv; the exit callback does not join its own thread |
| argument parser | `cli/args.c` | local arrays `raw_args`, `args`, `brace_expansions`, `matches`; static `resolved_dir` | `args_parse`, `args_free`, `args_parse_to_list` | argv is what the line says, in order; each string freed once, whatever fails |
| command line interpreter | `cli/cli_parser.c` | handlers, `alias_map`, locals of nested calls | `cli_parser_parse_line`, alias functions, `cli_parser_register_handler` | aliases are resolved, circles end; the handler gets the command as written; the argument array is freed once per statement |
| prefix map | `util/prefix_map.c` | chains of entries, `count` | add, get, find_prefix, remove, clear, foreach | it is a map; it owns its values; an iteration skips and repeats nothing |
| option parser | `cli/opt_parser.c` | `optind`, `current_arg`, `short_opt_pos` | `opt_parse`, `opt_parse_long` | reads argv as getopt_long does |
| program | `cli/program.c` | option defaults | `parse_option_defaults`, `process_files` | no failure is forgotten; what is opened is closed |
| lists | `base/string_list.c`, `base/wstring_list.c`, `io/fileent_list.c`, `io/wfileent_list.c` | array of owned pointers, count, capacity | append, insert, remove, resize, sort, unique | it is a sequence; it owns its items |
| crash handler | `proc/stackdump.c` | signal dispositions, paths | handler, `stackdump`, gdb child, fallback | one dump per crash, by gdb or by the fallback |
| environment | `proc/env.c` | cached PATH | `path_find`, `mkstemp` helpers | finds what execvp would run |
| parent search | `proc/pid.c` | - | search through /proc | ends |
| file loading | `io/file.c`, `io/path.c` | growing buffer | `_load_file` | the whole file, within the buffer |
| text | `base/str.c`, `base/wstring.c`, `locale/unicode.c` | - | pure functions | round trips |
| logging, layout, shims | `log/`, `proc/format_*`, `cli/csi.h`, `base/stdio.c`, `locale/i18n.c`, `ld/` | a level per logger | formatting | - |

How they interact: the console's `timer` command calls the timer functions, and
its `bt` command calls the crash handler's `stackdump`, as the timer does when it
fires. `run_command` of the console and `execute_statement` of the interpreter
both split a line with `args_parse` and own the argv it returns. The interpreter
keeps its aliases in a prefix map, and calls handlers that may call the
interpreter again. `args_parse` gathers file names in a string list through a
callback, `enum_func`.

## 2. Modules

| Module | Models | Built from |
|---|---|---|
| `DbgTimer` | the debug timer, every interleaving of clients and timer thread | - |
| `TimerSpec` | what the timer promises: calls that take effect at one instant | - |
| `DbgConsole` | the console thread, its start, stop and commands, and the application | `TimerSpec` |
| `CrashDump` | dumps by gdb or by the fallback, in threads, in handlers, in their children | - |
| `ArgsText` | the text functions of `args.c`: words, braces, wildcards | - |
| `Args` | `args_parse`, `args_free` and `args_parse_to_list` with every allocation failing | `ArgsText` |
| `MapSpec` | what `prefix_map.h` promises: a function from keys to values | - |
| `PrefixMap` | the hash map, and `prefix_map_foreach` one callback at a time | `MapSpec` (refinement) |
| `ListSpec` | what `string_list.h` promises: independent sequences of strings | - |
| `StringList` | the growing arrays of owned strings, unique and copy item by item | `ListSpec` (refinement) |
| `CliText` | statements, redirections, names and arguments of a line | `ArgsText` |
| `CliParser` | the interpreter, with nested lines and alias changes | `CliText`, `MapSpec` |
| `OptParser` | `opt_parse_long`, one call per step, and a reading of the whole argv | - |
| `LoadFile` | `_load_file`, block by block | - |
| `ProcessFiles` | option defaults and `process_files`, with a handler that loads the file | `LoadFile` |
| `MC*` | the finite instances | the module each is named after |
| `DbgTimerProofs` | theorems about the timer, and that it implements `TimerSpec` | `DbgTimer` |
| `DbgConsoleProofs` | theorems about the console | `DbgConsole`, `SequenceLemmas` |
| `CrashDumpProofs` | theorems about stack dumps | `CrashDump` |
| `PrefixMapProofs` | theorems about the map, and that it implements `MapSpec` | `PrefixMap`, `SequenceLemmas` |
| `StringListProofs` | theorems about the lists, and that they implement `ListSpec` | `StringList`, `SequenceLemmas` |
| `ProgramProofs` | theorems about reading options and files | `OptParser`, `ProcessFiles`, `SequenceLemmas` |
| `CommandLineProofs` | theorems about `args_parse` and the interpreter | `Args`, `CliParser`, `SequenceLemmas` |
| `SequenceLemmas` | facts about naturals, sequences and recursive functions that the proofs share | - |

`CliParser` uses `MapSpec`, not `PrefixMap`: the run `prefix_map` shows that the
chains implement the abstract map, so one map variable is enough there. In the
same way `Words` of `CliText` is the outcome of `args_parse` that `ArgvInOrder` of
`Args` establishes, and `DbgConsole` has one variable for the timer, because the run
`dbg_timer` shows that the threads and the mutex implement `TimerSpec`. That needs a
single stopper; `SingleStopper` of `DbgConsole` is where the assumption is discharged.
The refinements these abstractions rest on are proved too (section 4).

Two specifications that are reasoned about in one module have names of their own:
`CliParser` has `CliSpec`, `CliNext`, `cliVars` and `CliTypeOK` beside the `Spec` of `Args`,
`ProcessFiles` has `FilesSpec`, `FilesNext` and `processVars` beside that of `OptParser`.

Definitions called *faulty variant* in the comments are not part of any
behaviour: each is an action or operator changed as a likely mistake would change
it, and replacing the original by it makes the property named in `PROJECT.json`
fail.

### DbgTimer

A step is a stretch of code between two points where another thread can see a
difference: taking or giving up the mutex, and each access to shared data that
is not under it. `pc[t]` is where client `t` is in its call; a context `c` stands
for its own thread, whose position is `tpc[c]`. `heap` says which contexts are
allocated, so that a use after `free` is visible. Parameters are written and
copied one field at a time, because the question is whether a mixture can be seen.
`snprintf` into `stackdump_file` has a state in the middle (`Partial`), whatever was there
before and whatever is written, because the timer reads that field without the mutex: in
that state it may find nothing, or a part of a path (`HasPath`).

Left out: the counter (only printed), what a firing timer prints, and what the
dump itself does (see `CrashDump`).

### DbgConsole

`main` is where the application is: as `src/app/sldbg.c` does, it starts the console,
stops it and returns, or returns because it could not start it. It may set an exit
callback before, and start the console a second time, with the next `Console` as thread.
`pc[k]` is where console thread `k` is: at the test of `g_kbd_quit`, in `str_getline`, in a timer command, in the exit command, or at its end.
The words of a `timer` command are parsed by `TimerCmd` word by word, as in
`run_timer_cmd`; the call it makes is the call of `TimerSpec` that follows. An exit
callback may ask the application to stop, or call `stop_dbg_thread` itself: then
`pthread_join` returns `EDEADLK` at once (glibc) and the thread goes on.

Commands that only print are one step, without what they print. The console is the
only client of the timer, and the application stops a console it has started before
it starts another one.

### CrashDump

A process is a thread of the application or a child forked by a crash handler, which
inherits the handler and can crash in its turn. `job` is the dump a process makes and
what it does after it; `gdb` is the gdb of that dump, which truncates the output file
before it runs. `files` says what is in `<base>.gdb` and `<base>.bt`; what was there before a
call is `"other"` from the call on, like an error message. `due` holds the paths whose last dump
was asked for and is not lost, and a path is `Settled` when gdb or the fallback has written
that dump. `DumpOrTrace` says that what is due is settled once nobody dumps to the path any
more; `Lose` marks the steps that lose a dump, and they are the exceptions the property
names. Files may fail to open (`GdbOpenFails`, `FallbackFails`). A gdb that is refused the attach
exits with 0, since `-batch` goes on to its last command, `quit`; one that is killed has no exit
status; both pass for success (`GdbReportsElsewhere`), and only a gdb that cannot be run
has the fallback made up for it (`GdbFails`). A thread crashes
anywhere outside the handler, with its heap intact, broken (a child that works on the
copy may crash) or locked (the crash was inside the allocator, whose locks a fork takes).

Left out: the coloured copies and what is printed, the mode (`STACKDUMP`), the exit
status, an application that ignores `SIGCHLD` (then `waitpid`
fails and `status` is read uninitialised). Which signals are blocked in a nested handler
is abstracted to "the child may be killed, or its handler may run".

### OptParser

argv is made of words that have a kind and what matters of their text. Each action is
one call of `opt_parse_long` and one of the ways it returns. `Reading` says what the
options of a whole argv are, without any state between calls, and where its operands start;
a lone `-` is one of them, as `opt_parser.h:61` has it and the code has not:
`ReadsAsWritten` excepts it, and only there lets `optind` step over an operand. Left out: the messages
(`opterr`), `longindex`, and the `=` that is cut off and put back within a call. A letter is
searched for in the whole of `optstring`, a colon too: `-:` is an option if there is a
colon in it, and the model has that.

### LoadFile, ProcessFiles

Only numbers of bytes are kept: the capacity, the offset, what is left of the file.
`Remaining` is the `size_t` subtraction of the code. `process_files` opens the first path in
every round, since `path` never moves; the handler, which the caller supplies, is here
one that loads the file and succeeds if that does.

### Args

The heap is explicit. Objects are named by where they come from (a word, the j-th
expansion of a word, the k-th match of that expansion), `live` holds those that are
allocated, and every `free` of the code is in a `Free` of a sequence of objects that
notices a second free: the cleanups of the first pass, of `expand_brace` and of
`expand_wildcard`, with all the items they have at that point, too. `FailSite` names the
places where an allocation may fail; in the run all of them may, each at every item. Two
of the names stand for the failures after which something is freed twice, and for no others:
`brace_later` (in `expand_brace`, after its first item) and `grow_moved` (argv
cannot grow when an expansion or a match of the same word is in it already).

`expand_brace` takes the first `{` and the first `}` after it, without nesting and
with no second brace expanded, and so does the model. A directory in a wildcard
pattern, and with it the static `resolved_dir`, is left out. The caller of `args_parse`
frees argv with `args_free`, or is `args_parse_to_list`, which copies it string by string
(`list`) and frees it, also when a copy fails.

### PrefixMap

The chains are sequences whose head is `buckets[hash]`. A `prefix_map_foreach` is a
cursor that moves one entry per step; between two steps the callback may add,
replace, remove or clear, as the callback of `cli_parser_enumerate_aliases` can.
When it removes the entry it was called for, the next step reads `entry->next` of
freed memory; the model stops there (`status = "use_after_free"`). An add whose
`malloc` fails changes nothing and tells nobody; one whose `str_dup` fails links in
an entry with a NULL key, on which the next lookup in that chain crashes.

`prefix_map_find_prefix` compares all entries, in the order of the chains, and keeps a match
that is shorter than the one it has. Among the matches of the shortest length it is the first
of the chains; `FindPrefixShortest` says so. `prefix_map.h:34` promises the first match found,
which is another one when a longer key comes before it.

### StringList

A list is its array: `slots[l]` is a function on `1 .. capacity`, of which the first
`count[l]` are used. A string is an address with a text, so that equal strings are
different objects and a freed address can come back. Slots behind the count are not
cleaned when the code does not clean them: after a resize whose `realloc` fails they
still hold freed pointers. `string_list_unique` and `string_list_copy` are loops that
free and allocate in each round; `op` holds their local variables, and no other call
runs in between. The refinement lets unique take effect when it begins and a copy
when it ends. A failing call that changes nothing is a stuttering step.

`wstring_list.c`, `fileent_list.c` and `wfileent_list.c` are the same code for wide
strings and for names with a flag, without unique and join in the two file lists.
`string_list_join` and the queries change nothing and are left out.

### CliParser

`stack` holds one frame per active `cli_parser_parse_line`: the rest of the line,
and the locals of `execute_statement`. A frame in `"handling"` is a handler that is
running; it may call every function of the parser, and returns any of `HandlerResults`, which
is what the line returns when it is not 0. Which handler it is, the frame does not
keep: any of them may do the same next. `arrays` counts argument arrays
that are allocated. The argument parser fails when a quote is left open, and may fail
whenever it is called, for lack of memory.

`ArgvAsWritten` compares what `Dispatch` passes to a handler with a
reading of the statement that knows no rounds (`AsWritten`): the command is the end of the
chain of aliases; with no alias, or one, argv is known word by word; after any number argv
ends with the words of the statement, in order. Where a value comes into it, it is one that
is `Ended`: the arguments are appended to a value before both are split, so a value that
ends inside a quote or with a backslash takes the first of them in. Where words are split
again, they are words that come out as they are (`ReadAgain`, `Unquoted`). One of the values of the
run ends with a backslash, one is empty, and the lines have quoted words. After two rounds
the words before those of the statement are not those of the values, and nothing is said of
them.

`RedirectionsToldApart` writes a statement and reads it back: a command, a pipe, an input and
an output, in this order, each there or not, and each with one of the four spacings that the
code looks for (`Ways`), whatever the spacing of the others. The command is what `Redirect`
returned, which may contain operators the
code did not cut at, or any beginning of the statement without an operator (`Plain`).
`FileNames` are the names written after operators. In the other orders the claim is false
(section 5).

Left out: the lengths of the fixed buffers for a line, a statement and a name
(lines are short; `cmd_argv[65]` is kept as `ArgvSlots`), an enumeration function (without one,
wildcards are words like others), the external alias
resolver, and the freeing of a parser. `cli_parser_register_handler` may move the array of
handlers; a handler that is running has a pointer into it (its first argument), which the
interpreter does not use again, and what the handler does with it is its own.

## 3. Runs

| Run | Shows | Instance |
|---|---|---|
| `dbg_timer` | safety, liveness and `ImplementsTimerSpec` | 2 clients, 1 of them may stop; 2 contexts; 3 option sets with 2 paths; 54,944 states |
| `dbg_console` | who stops the timer, what a stop of the console leaves, and that it returns | 2 console threads, 11 lines, both kinds of callback, `INT_MAX` a little over two seconds; 6,502 states |
| `crash_dump` | a dump or a trace for every call, and crashed applications end | console and timer, one crash inside a dump of each; a path they share and the crash path; 239,196 states |
| `crash_bt` | *violated*: `bt` shows nothing when gdb cannot run | the console and a temporary file |
| `args` | ownership, order, completeness and quoting of argv | every line of up to 3 of 8 characters, quoted lines, ten chosen ones; argv grows from 2 slots; all failures; 43,311 states |
| `args_quoted` | *violated*: a quoted `*` is expanded | three lines |
| `prefix_map` | the map, its ownership of values, iteration, `ImplementsMap` | 3 keys in 2 chains, one key a prefix of another; 3 values and NULL; 129,860 states |
| `string_list` | ownership of the strings, `ImplementsList` | 2 lists, 2 texts, 3 addresses; capacities 0, 2, 4 and a resize to 1; addresses are symmetric; 50,371 states |
| `cli_parser` | dispatch, aliases, redirections, balance of arrays | 4 lines, 2 alias names, 5 values, 1 file name, 1 handler that returns 0 or 1, lines nested twice; 126,634 states |
| `cli_max_args` | *violated*: the NULL after 64 arguments is out of bounds | 4 slots instead of 65 |
| `opt_parser` | the calls return the options written in argv | every argv of up to 3 of 37 words, `"ar:o::"`, 4 long options; 271,016 states |
| `process_files` | what is loaded is whole, what failed is reported | 11 lengths around 16, 64 and 128, `mem_off` and `padding` that fit, just fit and do not; 20,088 states |

### Why the bounds are enough

*Timer.* The interesting collisions are between two calls and one timer thread;
with two clients each pair of calls overlaps in every way. Two contexts let a new
timer be allocated while an old one could still exist. Option sets differ
in interval and flags together, so that a mixture belongs to neither, and name two
different paths, so that an update changes one under the timer's hands. The default
interval of two polls is the shortest that makes `accumulated_ms` matter.

*Args.* All decisions look at one word, one expansion or one match at a time;
three of them are enough for a first, a middle and a last one. With two slots at
first `args` grows within matches, within expansions, and at the end, where only the
terminating NULL lacks room.

*PrefixMap.* A chain of two has a head and a tail; the second chain is for moving
on. Two keys of a chain can be in either order.

*StringList.* Three strings of two texts are what it takes for unique to drop one and
move the next over it. A list of two is copied with one address left, so that the
copy fails half way; lists of one are copied to the end. The default capacity is 2
instead of 16, and lists grow from 0 and from 2. Symmetry is sound: nothing depends on
an address except through equality, and the run checks no liveness.

*CliParser.* `MaxExpansions` is 3 instead of 10: a command may be dispatched after two
rounds (the longest chain over two names), and the third round reaches the limit. Only a
circle gets there, or an empty value: after the first round it makes a command of its own
name again. One line inside another is
enough to have the locals of two calls alive. `MaxLeaks` bounds how many empty
expansions may each leak an array.

*DbgConsole.* A second console thread is what it takes to see anything left over from the
first. The lines have every option of `timer` at least once, values that are missing, too
large for an int once multiplied, 0, or look like options.

*CrashDump.* Two threads are enough for a dump cut off by the crash of another, and for two
that truncate each other's file. One crash inside the dump of a crash (`MaxNest`) has
every step of a nested handler; the next one does the same again.

*OptParser.* Three words hold a cluster left open, its argument and what comes after. The
clusters have every ordered pair of a plain letter, a letter with a required and with an
optional argument, and an unknown one, and some of three.

*ProcessFiles.* The block size and the first capacity are those of the code; 200 bytes take
four blocks and five doublings. `size_t` has 10 bits, more than any sum of the run that
does not wrap for its sign.

### Fairness

*Timer.* `WF` on the steps that wait for nobody: a thread that can run is
scheduled. `SF` on taking the mutex: its holders run for a few statements, and the
timer sleeps 100 ms (`TIMER_POLL_MS`) before it takes the mutex again, so that a
waiting thread gets it sooner or later, which weak fairness alone would not say.
No client has to make a call.

*DbgConsole.* `WF` on the steps of each console thread, on the end of a join and on the end
of `exit()`: threads are scheduled, a call to the timer returns (`CallsReturn` of `DbgTimer`),
and somebody goes on typing or closes the input. Without the last, a stop waits for ever,
which is what `dbgthread.c:641` does. Nothing obliges the application to stop the console.

*CrashDump.* `WF` on the steps a thread has started (its dump, its handler, their children and
their gdb, which `-batch` ends). Nothing obliges a thread to crash.

*CliParser.* The interpreter runs, and a handler that runs lines of its own returns
in the end at each depth. These are the usual `WF` and `SF` formulas with `ENABLED`
written out as `CanRun` and `CanReturnFrom`, because TLC would evaluate the parsing
again for each `ENABLED`.

The other runs check safety only. Deadlock is checked for the timer, for `args_parse` and for
the lists. The others may stop: after the crash of a lookup, when a bound is reached, or
because the program ends.

## 4. Proofs

The theorems hold for every value of the constants that the named assumptions allow: any
number of threads, words, keys, lists and files, and any texts. All invariants, action
properties and refinements of the runs are proved; only liveness is left to TLC.

| Module | Theorem | Property |
|---|---|---|
| `DbgTimerProofs` | `TypeCorrect` | `TypeOK` |
| | `MemorySafety` | `NoDanglingAccess`: no client and no timer thread touches a freed context |
| | `SingleTimer` | `AtMostOneTimer` |
| | `LeakFree` | `NoLeak` |
| | `CoherentSnapshots` | `SnapshotCoherent`: the timer acts on parameters that one call passed together |
| | `ServedTimer` | `TimerServed`: a published timer runs, or its stop is under way |
| | `KeptDumpPaths` | `DumpPathStays`: a path the timer has found is not taken away, unless an update is writing one |
| | `Refinement` | `ImplementsTimerSpec` |
| `DbgConsoleProofs` | `TypeCorrect` | `TypeOK`, and with it that no command passes an interval of 0 or less |
| | `OneCaller` | `SingleStopper` |
| | `StopIsFinal` | `StopHolds` |
| `CrashDumpProofs` | `TypeCorrect` | `TypeOK` |
| | `DumpsLeaveATrace` | `DumpOrTrace`: every dump that is not lost in a way the property names |
| `PrefixMapProofs` | `TypeCorrect` | `TypeOK` |
| | `Findable`, `Owned` | `KeysFindable`, `ValuesOwned` |
| | `Visits` | `VisitsAll` (an action property) |
| | `PrefersShorter` | `FindPrefixShortest` |
| | `Refinement` | `ImplementsMap` |
| `StringListProofs` | `TypeCorrect`, `Owned` | `TypeOK`, `ItemsOwned` |
| | `Refinement` | `ImplementsList` |
| `ProgramProofs` | `TypeCorrect` | `TypeOK` of `OptParser` |
| | `ReturnsWhatIsWritten` | `ReadsAsWritten` |
| | `LoadsWhole` | `LoadedWhole` |
| | `ReportsFailures` | `FailuresReported` |
| `CommandLineProofs` | `TypeCorrect` | `TypeOK` of `Args` |
| | `FreedAtMostOnce`, `Ownership` | `NoDoubleFree`: cleanups included, all but two failures; `ArgvOwned` |
| | `QuotingSurvives` | `QuotingRoundTrips`: any words over any characters |
| | `OrderOfArgv` | `ArgvInOrder` |
| | `CliTypeCorrect` | `CliTypeOK`: circular aliases end; results are 0, -1 or a handler's |
| | `ArraysFreed` | `ArgvBalance` |
| | `HandlersGetWhatIsWritten` | `ArgvAsWritten` (an action property): any number of aliases |
| | `RedirectionsApart` | `RedirectionsToldApart`: statements and names of any length, each operator with a spacing of its own |

None of these properties is inductive. Each module proves `Spec => []IInv` (or the invariant
named below) with one lemma or one step per action, and the properties from that.

### Assumptions

Most assumptions only say what C guarantees: addresses, threads and NULL differ, numbers
are natural numbers, arrays have a slot, a flag is true or false. Those with more content:

- `OneStopper` (hypothesis of the theorems on the timer): at most one client calls
  `stop_timer_thread`. Without it memory safety is false, since a stop reads
  `s_timer_ctx->thread` after giving up the mutex. `OneCaller` proves that the repository's
  only client keeps to it, for any number of consoles started and any lines typed.
- `LoadAssumption`: the first capacity is less than a block, and doubling it does not wrap
  round. They are constants of the code, 16 and 64 bytes, and `size_t` has 64 bits.
- `ConsoleAssumption`: the default interval is positive and an `int`.
- `OptAssumption`: `has_arg` is 0, 1 or 2, as `opt_parser.h` defines it.
- `QuotesAssumption`: quotes are `'` and `"`. The provers do not know that a literal is a
  string, so texts are there sequences over `Char`, which names the literals the code uses.
- `CliParserAssumption`: a name in `FileNames` has no operator in it and neither begins nor ends
  with a space (the code trims what follows an operator, and cuts at the last operator).
- `ArgsAssumption`, `PrefixMapAssumption`, `ListAssumption`, and the rest of
  `CliParserAssumption`: texts are sequences, a hash is one of the buckets, tables have a slot.

### The debug timer

`IInv` adds what each thread relies on at the place where it is:

- `MutexInv`: the positions from which the mutex is held are those of its owner, so
  that two clients are never both starting or updating;
- `ArgInv`, `UpdateInv`: what a call passes stays an option until it is stored, and
  an update finds a timer to the end (a stop cannot free it while the mutex is held);
- `StartInv`: while a context is being created nothing is published, and the context
  has a thread exactly from `pthread_create` on;
- `StopInv`: the only stopper has set `quit`, the context stays published until the
  stopper frees it, and its thread is there until joined. This is where `OneStopper`
  enters;
- `HeapInv`: a context is allocated because it is published or being started, only a
  published one has `quit` set, and only a thread asked to quit ends;
- `ParamsInv`: parameters are those of one call except while an update, under the
  mutex, is between interval and flags, and what the timer has copied so far agrees
  with them.

`DumpPathStays` needs that a path is only written over by the client that holds the mutex,
and that only while it writes is there a part of one (`PathInv`).

The refinement needs `CallInv` besides: a context about to be published holds what its call
was asked for, and an update that has come to the path has replaced interval and flags. A
start takes effect when it publishes the context or has failed to, or, if there is a timer,
when it takes the mutex: until the update gives it up, the mapping shows the timer as the update
will leave it. A stop takes effect when it clears `s_timer_ctx`. Every other step stutters.

### The debug console

`ThreadInv` says that the one console thread that is neither unborn nor ended is the one
`stop_dbg_thread` would join, and that it alone calls the timer; `StopInv` that the flags are set
for good while a stop waits, so that at most the line being read is still run; `ExitInv`
who may be in `exit()`. The types of calls (`CallInv`) need that reading the words of a `timer`
command keeps its options typed, by induction over the words.

### Stack dumps

`DueInv` is the core: what is due is settled, or there is a process that still owes it (`Owes`):
one that has not forked, whose gdb has the file or has failed, or that is in its fallback. A process
whose gdb will count as a success owes nothing; what that loses was lost when its gdb ended.
`JobInv` ties a process to its path as long as its gdb lives, which may be
after the caller was cut off. `ForkInv` makes children fresh: a handler forks once.

### The prefix map

`ChainInv` says that a key stands once in its chain, the missing key of a failed `str_dup` too
(no entry is added to a chain that cannot be searched). `CursorInv` is for iterations, whose
callbacks change the chains: what has been visited lies behind the cursor, a key that was there
all the time and has not been visited lies ahead, and the cursor is at an entry. For
`FindPrefixShortest` the fold over all entries is followed round by round: what it has is none,
or the value of an entry that is shorter than all matching ones before it and as short as
those behind it.

### The lists

`UniqueInv` and `CopyInv` are the loop invariants of `string_list_unique` (kept items ascend
and are below the rest) and `string_list_copy`; `ItemsOwned` is inductive with them. The
refinement shows that the ascending sequence left by unique is the only one with its items.

### Options and files

`ParseInv` says that the options returned, followed by those read from here, are those of a
reading of argv (`Reads`), also inside a cluster and its argument. `LoadInv` counts bytes: those
read, those in the block at hand and those still to come make up the file; `BufferInv` says what
may be written while there is no buffer; `FilesInv` ties `err` and the open file to the place in
`process_files`.

### args_parse and the interpreter

`ArgsInv` says which heap objects are live at each place (`Owned`: those in args, those still
ahead, and words a wildcard replaced), that args holds what is behind and nothing twice
(`Passed`, `Covered`), and where a second free can come from (`FreedOnce`). For each cleanup the
proof shows that what it frees is live and named once: the only sequences that name something
twice are that of `brace_later`, and that of a growth after a move. `InOrder` follows
the texts: those in args are what the words, expansions and names passed so far are
expanded to. Quoting is proved on the scanner: reading a quoted word from a state between words
ends in a state between words with that word added.

`CliInv` says that every frame but the top one is in a handler (`Nested`), that the arrays are
those leaked and one for each frame that parsed (`Holds`), and what the top frame carries through the
rounds of aliases (`Carried`): name and arguments of the statement in the first round,
the words of the expansion in the second, the name the chain of aliases has at that round,
and in every round that its words end with those of the statement. The last is kept because
the code appends all the words of a round to the next value (`Spread`): splitting that gives the words of
the value, then the words again.

`RedirectIs` follows the searches of `Redirect`. `n` is the length of the command, or 0 if the
command is `Plain`. Beyond place `n` of what is still to be searched, the character of the operator is
only where the operator is written (`WrittenChars`), so that of the forms searched
before and including the written one, only this occurs there, and once (`WrittenPlace`). A form
that occurs at `n` or before would leave less than `n` characters (`Short`); later cuts only
shorten what is left (`CutBefore`), and the command has `n` characters, so this does not happen.
What is left after the cut is the same statement without its last part (`PartCut`). The spacing
of each operator is free in each of these steps; that the output comes last, then the input, is
what the order of the searches needs.

### Induction

The library's induction theorems take an operator, which the provers cannot instantiate.
Lemmas of `SequenceLemmas` take their place. `LeastExists` and `GreatestExists` (a set of
naturals has a least element, a bounded one a greatest) follow from `WFMin`, so that a proof can
ask for the least counterexample; `RankInduction` is induction over a rank in this form.
`RecursionExists` says that a recursive function whose value at a point depends on points of lower
rank exists, hence that what `CHOOSE` picks is what the definition says. The recursive functions
of `ArgsText`, `CliText` and `OptParser`, and `FoldLeft` and `FlattenSeq` of the community
modules, are reached this way.

### Only model-checked

- Liveness: `CallsReturn`, `TimerKeepsFiring`, `StopReturns`, `CrashEnds`, `LineReturns`. These provers do
  not reach fairness and `ENABLED`.

### What the proofs found about the models

- `LexStep` and `TimerWord` were written with `CASE` arms that overlap, which leaves the
  value to a choice TLC makes in order and the logic does not. They are `IF` chains now, in the
  order of the code.
- `ArgvAsWritten` was false for alias values that end with a backslash or inside a quote; no
  value of the run did. It now says `Ended`, and the run has such a value.
- `RedirectionsToldApart` was about the command that `Redirect` returns and a name of one
  character, so a `Redirect` that never cuts would have passed. It now also says that a
  command without operators is returned, for names of any length.
- `NullAssumption` of `DbgTimer` and of `StringList`: "no timer" and "no string" were not said to
  differ from every timer and every string.

## 5. What the checks found

Three runs end with a counterexample, and are listed with their lines under `findings` in
`PROJECT.json`:

1. Wildcards in quotes are expanded (`args_quoted`; comment `args.c:409`).
2. `cmd_argv` has no slot for the NULL after 64 arguments, and nothing checks the
   number (`cli_max_args`; comment `cli_parser.c:407`).
3. When gdb cannot run, `bt` shows its empty output file and removes the fallback
   backtrace unseen (`crash_bt`; help text `dbgthread.c:557`).

The models also do what these comments deny. Each is named at the property that excepts it,
and has no run of its own: where one line of C says it all, a counterexample would add nothing.

4. A dump returns 0 without a backtrace in its file when gdb is refused the attach, is
   killed, or prints elsewhere because its file could not be opened (`stackdump.c:208`
   against the comment at 170; excepted in `DumpOrTrace`).
5. `mkstemp` rejects the template `/tmp/stack.XXXXXX.dump`: a timer started without a path
   never dumps (`dbgthread.c:289` against `dbgthread.h:14`; `Mkstemp`).
6. `opt_parse_long` steps over a lone `-`, which is an argument and should stand at `optind`
   (`opt_parser.c:221` against `opt_parser.h:61`, and against "Should not reach here" at 220;
   excepted in `ReadsAsWritten`).
7. A prefix search does not return the first match found but goes on to shorter keys
   (`prefix_map.c:121` against `prefix_map.h:34` and `prefix_map.c:104`; the comment at
   `prefix_map.c:119` agrees with the code, and `FindPrefixShortest` with both).
8. A line returns whatever its handler returned, not 0 or -1 (`cli_parser.c:570` against
   `cli_parser.h:145`; `HandlerReturns`, `CliTypeOK`).
9. In a chain of aliases the name of the second stays among the arguments: with
   `a` for `b x` and `b` for `c`, the line `a x` runs `c b x x` (`cli_parser.c:443` against the
   comment at 441; not claimed by `ArgvAsWritten`).
10. Redirections are only told apart in the order pipe, input, output. An operator takes all
    that is behind it, and they are searched for in the order `>>`, `>`, `<`, `|`
    (`cli_parser.c:177-306` against `cli_parser.h:20-22`; not claimed by
    `RedirectionsToldApart`):

    | Written | Read |
    |---|---|
    | `c > f \| g` | output `f \| g`, no pipe |
    | `c < f \| g` | input `f \| g`, no pipe |
    | `c > f < g` | output `f < g`, no input |
    | `c < f \| g > h` | input `f \| g`, output `h`, no pipe |

Other behaviour the models contain and the properties leave aside, each named where the
property excepts it:

- *Two stoppers.* If two threads stop the timer, the second uses a freed context or a
  NULL pointer (`OneStopper`).
- *Update during a stop.* A start that overlaps a stop updates a timer that has ended and
  reports success (`TimerServed` says when).
- *Torn dump path.* While an update is writing the path, the same one or another, a timer that
  dumps may find nothing or a part of it (`DumpPathStays` is about all other times).
- *Lost dumps.* A dump whose fork fails has no fallback, and one whose gdb cannot run and whose
  backtrace file cannot be opened leaves nothing; the callers do not ask (`DumpOrTrace`).
- *Pointer returned by an update.* `start_timer_thread` reads `s_timer_ctx` once more
  after it gave up the mutex; a concurrent stop turns success into NULL.
- *Crashes in the allocator, broken heaps.* The fork of the handler may wait for ever for the
  lock the crashed thread holds; a child with a broken heap may crash, fork, crash ...
- *Double frees.* `expand_brace` frees its expansions when it runs out of memory after the first,
  and its caller frees them again; when `args` cannot grow, the expansions and matches of the
  same word that have moved there are freed twice. `NoDoubleFree` excepts these two failures, and no
  other at the same calls.
- *Leak.* A word replaced by the names it matches is leaked; `ArgvOwned` says that nothing
  else is.
- *A silent failure.* `prefix_map_add` has no result: when it runs out of memory,
  `cli_parser_set_alias` returns 0 and the alias is not set (`SetAlias`, `AddFails`).
- *Crashes of the map.* A NULL key left by a failed `str_dup`, and a callback that removes the
  entry it was called for, are states of `PrefixMap`.
- *Words split again.* Aliased words that need quotes are split again, and a value that ends in
  a quote or with a backslash takes in the first of them; `AsWritten` says where this is excepted.
- *The handler's pointer.* Registering a handler from inside one may free the array its own
  argument points into (`RegisterHandler`).
- *The first file for ever.* `process_files` never gets to the second name, and returns TRUE
  after a failure when it has names, FALSE when it reads stdin.
- *No room in front.* `_load_file` with `mem_off + padding` over 16 writes past its buffer, and its
  first `malloc` is not checked; `LoadedWhole` excepts both.

## 6. Not modelled, and the plan

Not modelled: the environment functions (`proc/env.c`), path functions, strings,
Unicode and `getppidof` are functions from text to text or to a number, without callers in
the components above that depend on more than their result; logging, output formatting and
platform shims have no state beyond a level, and nothing depends on what they print. Of the
argument parser, the directory part of a wildcard pattern (with the static `resolved_dir`)
is left out; of the interpreter, the fixed lengths of its buffers, an enumeration function for wildcards, the
external alias resolver and the freeing of a parser; of the program options, what glib does.

Every safety and action property and every refinement is both checked and proved. Liveness
stays with TLC. What would come next is more of the system: the directory part of wildcards, and the
external alias resolver.
