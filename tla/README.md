# le-cpp-utils: a TLA+ verification project

le-cpp-utils is a small C++ library of headers (and a few .cpp files) that
applications pick from. Two parts of it are hard. One is multi-threaded: a queue
with blocking waits, a consumer thread with a worker, a thread that keeps a
resource configured, and a handful of smaller threads, locks, events and files.
The other is `CLI11.hpp`, the command-line parser the repository carries, almost nine
tenths of its lines. This directory holds TLA+ models of that code, TLC runs
that check them on small instances, and TLAPS proofs for every size.

Paths below are those of the repository: `include/le-cpp-utils/` is `H/`.

## 1. Inventory

| Component | State | Operations | Hard behaviour |
|---|---|---|---|
| `ThreadSafeQueue` (`H/threadsafequeue.h`) | `m_queue`, `m_mutex`, `m_cv` | `push`, `pop`, `wait`, `wait(timeout)`, `clear`, `size`, move constructor | notification after unlock, stolen elements, spurious wake-ups, time-out against push |
| `MtAutoConfiguration` (`H/mtautoconfiguration.h`, `src/mtautoconfiguration.cpp`) | `m_ok`, the client's functions, `Impl`: thread, mutex, cv, `stopFlag` | setters, `start`, `stop`, `ok`, `requestReconfiguration`, `acquireResourceLock`; the loop | three kinds of thread on one mutex; three waits, one without time-out; `stop()` at any moment; callbacks; failing functions |
| `Consumer` (`H/consumer.h`) | `m_queue`, `m_mutex`, `m_cv`, `m_stopFlag`, thread, worker | `push`, `configure`, `cleanup`, destructor; the loop | work outside the lock, stop against work, restart |
| `ThreadSafeData` (`H/threadsafedata.h`) | data, mutex | `set`, `get`, move constructor | the move constructor locks the wrong mutex |
| `ThreadSafeEvent` (`H/threadsafeevent.h`) | promise, future | `set`, `wait`, `wait_for` | one shot; second `set` throws |
| `ThreadInterval` (`H/threadinterval.h`) | `running`, thread | constructor, destructor, loop | callback against destruction |
| `SpeedMonitor` (`H/speedmonitor.h`) | `sharedValue`, `running`, thread; speed, last value and time | `setValue`, constructor, destructor, loop | edges, division by an elapsed time of zero, stop |
| `DebugMutex` (`H/debugmutex.h`) | mutex, owner | `lock`, `unlock`, `isLockedByCurrentThread` | owner read without the lock |
| `PersistentData`, `ValueInFile`, JSON utilities (`H/persistentvalue.h`, `H/valueinfile.h`, `H/jsonutility.h`) | a file | read/load, update/write/save, load-or-create | append mode, truncation and crash, damaged files |
| `App::parse` of `CLI11.hpp` | the tree of apps, the argument stack, results of options, parsed subcommands, remaining arguments | `_parse`, `_process`, `run_callback` and what they call | who takes a word; subcommands, groups, dots, marks; three sources of values; callbacks in the middle of a parse |
| `Option` of `CLI11.hpp` | results, reduced results, life-cycle state, policy, validators | setters, `add_result`, `run_callback`, `default_val`, `clear`, `results` | seven policies; values kept from another call |
| building apps, `CLI11.hpp` | options, subcommands, names, links | `add_*`, `set_*`, `remove_*`, `retire_option`, `name`, `alias`, `ignore_*`, `needs`, `excludes` | names that clash through groups and cases, dangling links |
| configuration files, `CLI11.hpp` | the reader's line, section, string or array | `from_config`, `to_config` | nested sections, values over several lines, reading back what was written |
| conversions, `CLI11.hpp` | none | numbers, flags, sizes, validators | ends of the types, units, negated flags |
| `versioncompare.h`, `median.h`, `uuid_v4.h` (+ `endianness.h`), `pairhash.h` | none | pure functions | uninitialised components, boundaries, bit layouts |
| `signal.h`, `fileread.h`, `finally.h`, `logging.h`, `pimpl.h`, `time.h`, `subcommand.h`, `winutils.h` | little or none | thin wrappers | none worth a model |

Interactions. The classes do not call each other; they meet in applications:
the tests feed the data-out callback of a `Consumer` into a `ThreadSafeQueue`.
Within a class the threads share state under one mutex, call the functions the
client passed in, and wait on one condition variable.

What makes each of the modelled components correct:

- `ThreadSafeQueue` is a first-in first-out queue whose operations take effect
  at one instant; nobody sleeps beside an element; a time-out is reported only
  if the queue is empty at that instant.
- `MtAutoConfiguration` keeps users and the client's functions apart by the
  resource lock; `ok()` tells the truth about the resource; attempts start
  clean; failures and requests lead to another attempt; `stop()` returns and
  leaves an object that can be started again.
- `Consumer` hands the data to a configured worker in order, once, and loses
  none before it is stopped; `cleanup()` never overlaps `process()`; stopping
  ends.
- The small threads call back at most once more after their destructor began
  and never after it ended; `DebugMutex` knows its owner; copies are whole; a file
  gives back the last value written, and after a crash or a failed write a document
  that somebody wrote, whole, or a beginning of a plain value.
- A parse puts each word in one place and keeps their order; who is listed was
  parsed; an accepted command line meets the requirements of everything it
  used; help is answered; final callbacks come last, once; callbacks see the
  values; and it ends.
- An option gives what its policy promises, before its callback as after it;
  a tree of apps keeps names apart and links alive, however it was built; a
  file gives each key to its section, and what was written is read back;
  conversions give the value or refuse.

`PROJECT.json` lists the hazards, line by line, with the properties that watch
them.

## 2. Modules

| Module | What it is |
|---|---|
| `AtomicQueue` | abstract specification of the queue: each operation is one step; fairness says who is served |
| `ThreadSafeQueue` | the queue as it is coded, with `ImplementsAtomicQueue` |
| `ThreadSafeQueueProofs` | its theorems |
| `MtAutoConfiguration` | loop, owner and users |
| `MtAutoConfigurationProofs` | its theorems |
| `Consumer` | producers, thread and owner |
| `ConsumerProofs` | its theorems |
| `DebugMutex`, `ThreadInterval`, `SpeedMonitor`, `ThreadSafeEvent`, `ThreadSafeData`, `Files` | one small component each; `Files` has `PersistentData`, `ValueInFile` and the JSON functions |
| `Utilities` | the small components side by side |
| `UtilitiesProofs` | their theorems: of each by itself, and of all of them as `Utilities` composes them |
| `CliTree` | the tree of apps, what is looked for in it, what a parse keeps about it, and what programs and command lines are (`InputsAssumption`) |
| `CliParse` | how the words of the command line find their takers |
| `CliProcess` | a whole `App::parse`: the words, then configuration file, environment, callbacks, requirements |
| `CliOption` | the values of one option |
| `CliRegistry` | how a tree of apps is built and taken apart |
| `CliProcessProofs` | the theorem about a whole parse |
| `CliOptionProofs`, `CliRegistryProofs` | the theorems of these two |
| `Recursion` | induction and recursion over numbers, and over what numbers rank, such as the apps of a tree, for the proofs |
| `CliConfig` | `from_config` and `to_config` |
| `CliNumbers` | numbers, flags, sizes, validators |
| `Identifiers` | UUIDs, versions, median |
| `Values` | `CliOption`, `CliRegistry`, `CliConfig`, `CliNumbers` and `Identifiers` side by side |
| `MCThreadSafeQueue`, `MCMtAutoConfiguration`, `MCConsumer`, `MCUtilities`, `MCCliProcess`, `MCValues` | the instances for TLC |

`ThreadSafeQueue` implements `AtomicQueue`; `CliProcess` extends `CliParse`, which
extends `CliTree`, as `_process` follows `_parse`. `Utilities` and `Values` put
components that share nothing beside each other: a behaviour is a behaviour of
one of them, the `subject`, while the others rest as they begin. This saves
runs and loses nothing, since no component reads another's variables.

### How state and steps correspond to the code

**Granularity.** A critical section that neither blocks nor calls out is one
action. Where the code gives the mutex up (a condition variable, `unlock`), or
calls a function of the client, there is a boundary between actions. `push()`
is two actions: the section under the mutex and `notify_one()` after it.
Waiting in a condition variable and releasing the mutex are one step, as the
standard says; a woken thread takes the mutex again and re-evaluates the
predicate. Spurious wake-ups may happen at any time. A deadline ends a sleep,
and may also catch a thread that has just been woken; in either case the
predicate has the last word, as in `wait_for` with a predicate.

**ThreadSafeQueue.** `pc[t]` is the place of a thread in the operation it
calls, `got[t]` what its last `pop`/`wait` returned. `wait` and `wait(timeout)`
share `Check`; only the second has `Timeout` and `LastCheck`. `size()` changes
nothing and is left out; the move constructor is that of `ThreadSafeData`.

**MtAutoConfiguration.** `loop` is the place of the thread: `start` (before
the lock), the four functions of the client it may be inside (`cleanup`,
`configure`, `confirm` for the heartbeat after a configuration, `heartbeat`),
`wait` (about to wait, with the mutex), `asleep`, `awake` and `late` (on the way
back to the mutex, the second after the deadline), `done` (returned, not yet
joined), `absent` (not joinable). `owner` is the place of the thread that calls
`start()` and `stop()`: `stop()` is `stopping`, `notify`, `join` while there is a
thread, and always `reset`, `resetting` (between the comparison and the
assignment of `setState`, which `stop()` runs without the mutex), `teardown`
(inside `m_fnCleanup`). `user[u]` says whether a user holds the resource lock and
has seen `ok()`. `setState` under the mutex is one step with its callback.
The setters and `start()` are enabled where they do not throw; where they
throw, nothing changes. `resource` stands for what the client's functions
leave behind. `reported`, `repeated` and `lateAttempts` are history variables.

**Consumer.** Data is numbered by `push()`, so that `processed \o hand \o queue`
(`Line`) shows order, loss and duplication. `thread = "check"` is the loop on its way to
the mutex and the predicate; `Sleep`, `Discard` and `Take` are what it may do
with it; `process` is outside the mutex. `configure()` is one step, since no
thread of the consumer runs while the worker configures itself. `cleanup()` and
the destructor share the steps of `stop()`; nobody pushes into a consumer that is
being destroyed.

**The small components.** `ThreadSafeData` copies a value in two halves, so that
a copy without the lock can be torn; the move constructor locks the new
object's mutex and reads the old object, which `CarefulMove` says is idle.
`SpeedMonitor` computes in quarters, with the infinities and NaNs that a clock
that stands still produces; its thread begins by looking at the value, which may
have been set by then. In `DebugMutex` taking the mutex and writing `owner`
are two steps. `Files` has one file on one path; opening it for writing empties it,
then a part of the text is there, then all of it; a write may fail, and the process
crash, after any part, whether a plain value or a document is written. A document has a mark at its end
(objects and arrays do; a JSON number has none, and is as a plain value).
`PersistentData` opens in append mode.

**The parse.** A token is a record with its kind (word, long or short option,
`--`, `++`), its name split at the dots, and whether it carries a value;
whether an option accepts a word is an attribute of the option. `frames` is the
recursion of `_parse`, `args` the argument stack, `todo` the stages of `_process`
still to run: a subcommand with a `parse_complete_callback` puts its own stages
before what remains of the parse. One action is one outcome of
`_parse_single()`, or one stage. What the code finds by calling itself on other apps
is a function on the apps of the tree: `Reach` (the order in which `_find_subcommand`
looks), `Ways` (from an app through its groups to who takes a token), `Ancestors` (whom a
fall-through asks), `Follow` (the dots). `chosen`, `parsed`, `preparsed`, `disabled`, `missing`,
`results`, `ran` are `parsed_subcommands_`, `parsed_`, `pre_parse_called_`,
`disabled_`, `missing_`, `results_` and the state `callback_run`.

**Options.** `results`, `processed` and `stage` are `results_`, `proc_results_` and
`current_option_state_`; `basis` remembers what `processed` was computed from,
`told` what the last callback was given, `said` what the last call returned.
`CallbackNow` is what a run of the callback would leave if it reduced the results anew. A text
is the sequence of the pieces it was made of, so that `Join` and `Sum` show what
they put together.

**Building.** Apps and options are numbers that are never used again and stand for
pointers. A name is a word that may carry an upper-case letter or an
underscore, the two things comparisons may ignore. `graves` remembers for each
removed object who was there to be told: a link that dangles in one of them is
a fault, a link from an object that `remove_option()` cannot reach is not
counted.

**Configuration files.** `reader` holds the local variables of `from_config`; each
step reads one more line, chosen from the kinds of lines a draft allows, or the
next line of the file that `to_config` wrote for a tree. The writer looks, as the
code does, for the name whose value a flag has (`GetFlagValue`, `TryNames`), falls back
to the values, and writes defaults where it is asked to (`DefaultText`).

**Conversions and identifiers.** Each step asks one question of a pure function;
the invariants compare the answer with a definition of what it should be. Types
of 64 bits become types of `LongBits` bits, and floats round to `FloatBits` significant bits,
where the median converts its elements and adds two of them. A UUID is its 16 bytes, and the AVX2
instructions are modelled lane by lane.

**Variants.** A definition that a comment calls a variant is not part of the
system: it is another definition changed the way a bug would (`PushSilently` forgets
the notification). Each property of a passing run has one under which it
fails; `PROJECT.json` pairs them.

## 3. What the runs show

| Run | Properties | Result |
|---|---|---|
| `queue` | `TypeOK`, `NoLostWakeup`, `ImplementsAtomicQueue` | hold |
| `autoconf` | eight invariants, `StopReturns`, `Reconfigures`, `HeartbeatsComeRound` | hold |
| `autoconf_polite` | `NoRepeatedReport`, `ResourceStable` | hold if no user works during `stop()` |
| `autoconf_stop` | `ResourceStable` | violated without that proviso |
| `consumer` | `EachOnceInOrder`, `NothingLost`, `NoLostWakeup`, `WorkerReady`, `DataIsProcessed`, `StopReturns` and the type invariant | hold |
| `consumer_restart` | `DiscardsOnlyWhenStopped` | violated |
| `utilities` | `OwnerIsRight`, `CallbacksAreTrue`, `FilesAreSafe`, `WaitsEnd` and the type invariant | hold |
| `persistent` | `LoadsLast` | violated |
| `cli` | `WordsKept`, `NeverStuck`, `SubcommandsCounted`, `RequirementsHold`, `ProcessedInOrder`, `ValuesDelivered` | hold |
| `cli_strict` | `ParseTerminates` | violated |
| `cli_dots` | `ChosenWereParsed` | violated |
| `values` | `ValuesAreTrue`, `RegistryIsSound`, `SubcommandNamesAreUnique`, `ConfigIsRead`, `NumbersAreTrue`, `IdentifiersAreTrue` | hold |

`NoLostWakeup` of the queue is a count: while somebody sleeps there are at most
as many elements as threads that have still to notify or to look. The refinement
`ImplementsAtomicQueue` includes liveness: while elements are queued and
somebody waits, somebody is served, and a timed wait always ends.

`WordsKept` says that a parse neither uses a word twice nor drops one (unless it named a
subcommand that was parsed, or an app or an option is one that forgets), nor lets a word overtake
another on its way to the values and the remaining arguments. It holds for any
program (section 4); the run is where its inductive invariant was tried out.

`ProcessedInOrder` says two things of what comes after the words: help is answered
before the requirements are looked at (`HelpFirst`), and the final callbacks come after
all else, once (`FinalsComeLast`). `RegistryIsSound` is about who holds what in a tree of
apps, and about the names of options; the names of subcommands, which groups pass
on to the apps above them, are `SubcommandNamesAreUnique`. `ValuesAreTrue` compares a read
with the callback in both directions: before the callback with what it will be given, and
after it with what a new reduction of the results would give. It says nothing of a
read that finds the `proc_results_` of something else (`Trusted`): what such a read gives is
wrong, and is listed below. Which calls lead there is the theorem `OrdinaryReads` (section 4).

`FilesAreSafe` says of `ValueInFile` no more than the class can promise: after a write
that failed or was cut short a load may give a beginning of the value. `IdentifiersAreTrue`
compares a median with its definition on the elements as floats, and takes UUID text of
lower-case digits only. `ConfigIsRead` follows every key of a file that is read, also behind
arrays, strings and comments over several lines, but not the text of a string in three
quotes; and every option of a tree that is written and read back, flags and defaults
included, but for the flags listed below.

Several invariants of the CLI11 models have a proviso, each with a comment that
says why: the code as it is does not keep the promise without it. They are in
the list of further disagreements below.

**Five disagreements with what the repository says**, each the trace of a run.

1. `stop()` of `MtAutoConfiguration` joins the thread and then runs
   `setState(false)` and the cleanup function without the mutex
   (`src/mtautoconfiguration.cpp:89-90`). The header promises users that the
   resource lock keeps reconfiguration away (`H/mtautoconfiguration.h:51-54`).
   In the behaviour TLC finds, a user takes the lock after the loop has
   returned, sees `ok()`, and the cleanup runs while the user still works. The
   same window lets the callback report `false` twice. A client can avoid both
   by keeping users away during `stop()`; `autoconf_polite` checks, and TLAPS
   proves, that this suffices.
2. `m_stopFlag` of `Consumer` is never reset (`H/consumer.h:73`, `127`). A second
   `configure()` after `cleanup()` returns true, but its thread sees the old
   flag, discards the queue with the warning that the consumer "was stopped"
   (line 90), and returns. `tests/tst_consumer.cpp` only ever configures once.
3. `_parse_subcommand()` drops the answer of `_parse_positional()` and returns
   true (`H/CLI11.hpp:9933`): a word that the validated positional of a
   subcommand refuses is looked at for ever. In `cli`, `NeverStuck` holds for
   programs without such a positional.
4. After `--sub.opt=value` the parent counts as parsed twice and `sub` not at all
   (`H/CLI11.hpp:10072`), although `sub` is listed.
5. `PersistentData` appends each update to the one before (`H/persistentvalue.h:46`).

**Further disagreements**, met while modelling. The models follow the code; an
invariant that would fail because of one says so in its comment.

*The parse.* `--a.z=val` with an unknown option of one letter leaves an argument
twice (two are pushed at lines 10060-10063, one popped at 10084). Dots ignore
`require_subcommand`'s maximum and the required options of the subcommand. Without
`subcommand_fallthrough` the maximum is not looked at when a word names a subcommand
(9160-9166), although line 9407 says that "Max error cannot occur". After
`--`, or with positionals at the end, the name of a subcommand that was not
parsed enters it unlisted (9873-9881). A group with a
`parse_complete_callback` runs its final callback before the requirements, and
twice (9295); so does a subcommand closed by a section of the configuration
file (9606). The error of a complete subcommand comes before help (9546, against
the comment at 9463). A vector option of a group starves a required positional
of the program (10157-10164). `immediate_callback` loses results when a dotted
option follows.

*Options.* `as<T>()` after a forced default reads the first element of an empty
vector. `default_val()` that throws leaves its values in `proc_results_`; a read during a second
parse, or after the `default_val()` of an option whose policy reduces, can be answered from
there, when it has one result and no validators; after the callback, a setter does not bring
`proc_results_` up to date. A
container given `{}` where items are expected reads `[]` before the callback and
`["{}"]` after it. `remove_excludes()` of an option cuts one direction only.

*Building.* `ignore_case` and `ignore_underscore` together compare a name with its
underscores (8996 overwrites 8992). `remove_option()` resets neither
`version_ptr_` nor `config_ptr_` nor links of other apps' options. `_move_option()`
keeps the old `parent_`. An option whose defaults make it clash stays registered
(8314). `retire_option()` by name leaves an option of a group where it is and adds
a second one. `Option_group::add_subcommand()` that clashes destroys the
subcommand. `set_help_flag()` and `set_config()` that fail have already removed the
old option. `matching_name()` asks `fnames_` where it means `lnames_` (6298).
Disabled subcommands and their owners are not compared, and may be enabled
afterwards.

*Conversions.* A negative number after a blank wraps around into an unsigned one.
A fixed negated flag given `false` is true. `&`, `|` and `!` call the functions of
their validators and forget that one was not to modify, or not active. The least
64-bit number is negated (6380). UUIDs in upper-case text, which RFC 4122 (named in
`README.md:33`) lets a reader meet, are read wrongly. `median` converts to `float`
(`H/median.h:28`, `32`): the median of 16777217 is 16777216.
Versions of fewer than four numbers read memory that was never written.

*Configuration files.* `[default]` after a nested section leaves sections open.
With a `configSection` the second key of the section keeps its parent, and a
dotted key outside makes the reader stay inside. `to_config` writes the options of a
subcommand that is not configurable after the header of another one, which takes them
when the file is read back; groups in subcommands are written as `[.aa]`. In INI
files `1 "a,b"` is read back as two other values. Of a flag that refuses other values
than those of its names, an unset one is written with an empty default and read back as set, a word that belongs to
the second name is written under the first and refused when read, and a value that passes a
negating name is written under the next one as its opposite. An empty array where duplicate
fields are merged reads the back of an empty vector. A comment of one line
between `"""` swallows the lines that follow; an unclosed array swallows the next
section.

*The small components.* `JsonLoader::load` replaces a damaged document by the
defaults, as `SavedIsKept` allows only after a failed write. After a crash or a failed
write `ValueInFile` loads the beginning of a value, which nobody wrote. The move
constructors of `ThreadSafeData` and `ThreadSafeQueue` lock the wrong mutex:
`CopiesAreWhole`, which is proved and not in a run, needs `CarefulMove`. `PersistentData::read` of an empty file returns
a variable that was never set. A `SpeedMonitor` whose clock stands still at one
poll keeps a NaN for ever.

### Bounds

| Bound | Value | Why it is enough |
|---|---|---|
| `Threads` of the queue | 3 | a sleeper, a notifier and a thief; the proofs cover any number |
| `Items`, `MaxLength` | 2, 2 | two values show order; two elements and two sleepers fit at once |
| `Users` | 2 | users compete with each other and with the loop; any number by proof |
| `Producers` | 2 | one pushes between the other's push and notification |
| `MaxPushes` | 3 | one item in hand, one queued, one late; unbounded by proof |
| threads of each small component | 3 | a holder, a reader and a rival; two of the proofs cover any number |
| `Samples`, `SpeedThreshold`, `Elapsed` | {0, 2}, 3, {0, 1, 2} | speeds on both sides of the threshold, both infinities and NaN; any values by proof |
| `FileValues`, `MaxFile` | two values of one and two digits; 4 | a short value over a long one; a part of the longer that is no value; updates appended to updates. `MaxFile` bounds `PersistentData` only |
| programs of `cli` | 15 | a subcommand in a subcommand, a maximum with and without fall-through, positionals, groups, needs, excludes, help, files (one gives flags too many values), the environment, complete subcommands, dots; `WordsKept` for any program by proof |
| `MaxArgs` | 3, 2 in `cli_strict` and `cli_dots` | a subcommand, what it takes, and what comes after it; `WordsKept` for any line by proof |
| `MaxCalls` of options | 4 | a value, a run of the callback, a change, a read; any number, with any options and words, by proof |
| `MaxRegistryCalls` | 3, from trees that already have options, links, groups and help | an object is added, linked or moved, and removed; any number from any sound tree by proof |
| `MaxLines` | 4 | two nested sections, a key and a section after it; written files have no bound |
| trees of `ConfigIsRead` | 320 trees of four apps, in two formats, with and without defaults | a nested, a nameless, a non-configurable subcommand and a sister, values with commas |
| trees with flags | two apps with one option: flags with none, one or two names with values, negating or not, fixed or not, forced or not, every value of the names and others; options that are not set; with and without defaults and comments | each way through the writer's search for a name, and each default |
| `LongBits`, `Widths`, `Magnitudes` | 5, {3, 5}, 0..70 | every number around both ends of both types, and beyond twice the range |
| `Kilo`, `Kibi`, `Levels` | 3, 4, {1, 2} | the last factor still fits (`FactorsFit`), the products do not |
| UUIDs, versions, lists | each of 16 bytes at 7 values; 1 to 4 numbers of 0..1 over 3 kinds of garbage; up to 5 elements of {0, 1, 7, 9, 11} | every digit position at both ends of digits and letters; all orders of short lists |
| `FloatBits` | 3 | 9 and 11 are no floats, 7 is the last number before they thin out, and sums round |

Nothing else is bounded: starts, stops, heartbeats, failures, crashes and callbacks
may go on for ever. No symmetry is used, since liveness is checked. Deadlock is
checked for the queue and the auto-configuration. The other systems stop: a
consumer, a thread or a monitor when it is destroyed, a parse when it has ended, a
caller of `Values` when it has made its calls; that what they wait for comes is a
liveness property.

### Fairness

Weak fairness of a step inside an operation says that a running thread is not
suspended for ever and that the client's functions return. Nothing makes a
caller call, except that a user of `MtAutoConfiguration` gives the lock back.
Weak fairness of a time-out: a deadline passes, and spurious wake-ups do not
put it off. Where the mutex may be held over several steps
(`MtAutoConfiguration`), its waiters need strong fairness: the mutex does not
starve a thread. C++ does not promise this; mutexes in use deliver it in
practice, and without it no class built on a mutex has any liveness.

Of the small components, the sleeping threads wake up, callbacks return, joins
and waits of the standard library return when they can. `cli_strict` has weak fairness of
the parse, one thread that runs; the counterexample is a loop it really makes.
`values` has safety properties only.

## 4. What is proved

TLAPS checks all theorems from nothing but the assumptions on the constants, which TLC
evaluates on the instances:

- `QueueAssumption`: a finite set of threads, a `Nothing` that is not an item;
- `ThreadsAssumption`: the loop, nobody and the users are different;
- `NoThreadAssumption`: nobody is not a thread;
- `FilesAssumption`: no digit of a value closes a document;
- `MonitorAssumption`: samples and elapsed times are integers;
- `InputsAssumption`: the apps of a program are finitely many and a tree, whose subcommands
  have a parent; the least number of values of an option is not above the greatest (its
  setters see to that); tokens are numbered by their place;
- `RegistryAssumption`: names are names, and the trees to start from are sound;
- `OptionAssumption`: options, words and calls of setters have the fields and types that
  they have in C++, and a validator maps texts to texts.

`Consumer` and `ThreadInterval` need none.

- **Queue.** `TypeCorrect`; `WakeupsSuffice` (`NoLostWakeup`): it is inductive
  together with `TypeOK`, and each step is one of a few ways of moving an
  element or a helper in or out, with a lemma each on the cardinality of
  `Helpers`; `Refinement`: each step is the step of `AtomicQueue` that its effect
  on `m_queue` shows, or a stutter. The fairness half of the refinement is only
  model-checked.
- **MtAutoConfiguration.** One inductive invariant `Inv` in named parts: who
  holds the mutex is where (`LockInv`), what `m_ok` and the resource can be at
  each place of the loop (`ResourceInv`), how `stop()` and the life of the thread
  go together (`StopInv`), and how many late attempts there can have been
  (`LateInv`). The parts need each other: that a late loop may call the heartbeat
  needs `waitsFor`, that `m_ok` is false during an attempt needs the mutex. Seven
  invariants of the run follow for any number of users.
  For clients whose users stay away during `stop()`, `PoliteInv` adds that the
  end of `stop()` meets nobody: `ResourceStable` and `NoRepeatedReport` follow.
- **Consumer.** `LifeInv` ties thread, owner, flag and worker together; `LineInv`
  says what the line of tickets is. Every step leaves the line alone, appends
  the next ticket (`PushAppends`) or cuts the queue off (`DiscardCuts`). The five
  invariants of the run follow for any number of producers and pushes.
- **DebugMutex.** `Inv`: the mutex is held by the thread that is not outside, and
  `owner` names the thread that is inside. `OwnerKnown` and `MutualExclusion` follow.
- **ThreadSafeData.** `WholeCopies`: under `CarefulMove` the mutex keeps the halves of
  a copy together, for any users and values.
- **Callbacks.** `IntervalInv`: a late callback is the one whose test had passed;
  `MonitorInv`: a late edge is that of the poll after the last test, and each poll
  compares the speed before with the speed after, so that the last edge tells the side
  of the speed, whatever `Smooth` computes.
- **Files.** `FilesInv`: the file is nothing, empty, a part of the text of a value that is in
  doubt, or the text of a value; what is stored and not in doubt is in it. A part of a
  document is never taken for a whole one (`PartIsNotWhole`), and writing goes over nothing or
  over a part of the same text (`OverPart`). `FilesKept` follows.
- **The small components together.** Every step of `Utilities` is a step of one of
  them or of none, so that `OwnerProved`, `CopiesProved`, `CallbacksProved` and `FilesProved`
  put the above under the specification that the run checks; `UtilitiesTyped` is its type
  invariant, which the speed needs an argument for: that the exponential smoothing of
  numbers, infinities and NaNs gives one of them.
- **A parse.** `WordsAreKept`: whatever the tree of apps and options, the configuration file
  and the command line. `WordsKept` is not inductive. That values are in the order of the
  line is only kept because each of them comes before all that is still to be read, which
  is what `Tidy` adds; that no word is lost needs `Seen`, that a token on the stack still ends in
  the name it had on the line, although the names before the last one of a dotted word are cut
  off as subcommands begin; and what an option takes is in the line only if `frames`, `todo`
  and `items` hold what they should (`Running`). `Inv` is these together. There is a
  lemma for each action, under four that say what a step may do with tokens: an app keeps
  some as remaining arguments (`MissingKept`), an option takes some behind what it had, or
  instead of it (`ResultsKept`), a name begins an app (`BegunKept`), or values come from
  elsewhere to an option that had none (`OthersKept`). The longest of them, `EatenIs`, goes
  through what an option does with the tokens that follow it: it takes the least number
  that it needs, then as many as it may until a mark or a name, leaves what the required
  positionals need, and pushes back the other letters of a short option.
  The search for the taker of a word goes through the tree by recursion; that the
  functions it is made of exist, and lead from apps to apps (`ReachIs`, `WaysAre`, `FollowIs`),
  follows from `RankedRecursion` with the depth or the height of an app as its rank. From
  the same invariant: `ReadsForward`, a word that was kept came before every word that is still
  to be read, whatever is pushed back on the stack; and `ParseTyped`.
- **Building a tree of apps.** `RegistrySound` (of `CliRegistry`) is inductive, and is the
  larger part of `RegistryIsSound`: numbers are used once; no option is held twice, and
  each app in the tree is held once, by its parent; a link leads to an object that
  is there, or to one that is gone and whose going its holder was not told of;
  exclusions of subcommands are mutual; help pointers point to flags of their own app; and
  of the options of one app, made for it, no two match each other. It has a parameter, the apps that are in
  no tree: within a call a subcommand is made, changed and compared before it is taken up, so
  that each operator a call is made of has a lemma of its own, from a registry with such
  apps to another. Starting with `BlankSound`, these lemmas show at the same time that the
  trees to start from in the run are what the calls lead to. `RegistryStaysSound` says
  that no sequence of calls breaks it, including those that fail half way.
  `OptionNamesUnique` draws the consequence for the user: of two comparable options of an app
  at most one answers to a word, although the code only compares each new name with the names
  there. What the code compares to refuse subcommands (`NameClash`) never needs to be
  unfolded: the theorem holds whichever are refused.
- **The values of an option.** `ValuesProved`: for any options, words, texts, validators and
  sequence of calls. The first half rests on `ReduceObeys`, one case per policy: what
  `_reduce_results` leaves, read with "nothing means unchanged" (`Either`), is what the policy
  promises, and the mark of an empty container is the only exception. That is
  not inductive: a second run of the callback takes what an earlier call has left in
  `proc_results_`, so that `SoundWhenCalled` keeps, for the state "called", that it is the
  reduction of what it was computed from, or that there is none since the number of items
  was wrong, the case of a `default_val()` that throws after a callback. The second
  half is a fact about states (`ReadGivesTheCallback`): validation keeps the number of
  results, `Join` only counts them, and the short way for one result agrees with the long way.
  It needs `Trusted`, that `proc_results_` are those of the results or are not looked at.
  `OrdinaryReads` gets rid of this proviso by saying which calls are made: if an option is set
  before its callback runs and is not cleared, if its words and its forced default
  have a text, and if a default that goes through the callback comes before the
  callback and is left whole by the policy, every read gives what the callback is given
  (`OrdinaryInv`: then the `proc_results_` that a read can find are those of the results). Any of
  the other calls can leave stale ones, as told in section 3.

`WordsAreKept` is about `Spec` of `CliProcess`, the specification of `cli`. The theorems on
`CliRegistry` and `CliOption` are about `RegistrySpec` and `OptionSpec`, the specifications that `values` runs as one subject each. Induction over the numbers is not
taken from the library, whose theorem has an operator as its parameter: `Recursion` derives it, in
the form of a set of numbers, from the theorem that < is well founded, and with it that
functions defined by recursion exist, over numbers (`RecursionExists`) and over whatever numbers
rank (`RankedRecursion`), and what `FlattenSeq` computes.

Only model-checked:

- everything about liveness, and the fairness half of the refinement (the prover does not
  handle liveness under fairness), and the violations;
- the invariants of `CliProcess` but for `WordsKept`. They hold for the programs of the run and
  not for all: among the disagreements above are a group with a complete and a final
  callback (`ProcessedInOrder`), a validated positional (`NeverStuck`), vectors of groups
  (`RequirementsHold`), immediate callbacks with dots (`ValuesDelivered`) and dots beyond the
  greatest number of subcommands (`SubcommandsCounted`), which the programs leave out, while
  `SubcommandsCounted` itself leaves out a maximum without `subcommand_fallthrough`, which a program has;
- `SubcommandNamesAreUnique` and `ConfigIsRead`: recursion over trees of apps, and over lines
  and the characters between quotes and brackets;
- `NumbersAreTrue` and `IdentifiersAreTrue`: loops over digits, bits and lanes.

## 5. What could follow

In the order of what it would add:

1. A composition: a `Consumer` whose callback pushes into a `ThreadSafeQueue`, as
   in the tests, and end-to-end order.
2. Functions of the client that throw or call back into `MtAutoConfiguration`, once the
   repository says what should happen then.
3. Help text and formatters of CLI11, as far as they decide what is listed.
4. The order of versions in `Identifiers`, and the units of `CliNumbers`, for any numbers.

## 6. What is not modelled

- Durations (only their order matters), the wording of logs and errors, memory
  exhaustion, and calls that break the documented rules, such as calling `stop()` with the
  resource lock held. Exceptions thrown by the client's functions: the repository
  does not say what should happen.
- Data races outside a mutex are modelled where the code has them by design (the end of
  `stop()`, the move constructors, `DebugMutex`); each access to a flag is taken
  to be atomic.
- Of CLI11: help and formatter text (wording and layout), string utilities and escape
  sequences, wide characters and the command line of Windows (platform code), the
  validators of paths and addresses (they look at the file system or at formats), the
  flags in configuration files that take all of their values or refuse overrides while several are
  given, the conversions to tuples, complex and floating-point numbers (layout of nested types; the
  integers carry the hazards at the ends of a type), non-standard option names, callbacks
  that throw or change the tree during a parse.
- Of the JSON utilities: the conversions between JSON and C++ types, which belong to
  nlohmann/json.
- Of `uuid_v4.h`: `hash()`, streams and copying constructors; `endianness.h`, whose byte swaps
  are the identity on each processor that has AVX2; the random generator.
- `pairhash.h` (one expression), `finally.h` (one call in a destructor), `signal.h` (one flag
  that is only ever set), `fileread.h` and `winutils.h` (pure input), `logging.h` and `pimpl.h`
  (macros), `time.h` (reads and formats clocks), `subcommand.h` (a thin base class over CLI11).
