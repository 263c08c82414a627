# SPatch in TLA+

SPatch takes the commits of an upstream C program, splits the change each makes
to a function into *change units* that can be applied on their own, throws away
the units that are not known to be safe, and generates the function with the
remaining ones. What is left is compiled in the parent's tree and compared with
the original by symbolic execution (a modified Juxta, `src/main/DSE_juxta`).
These modules specify the program's own code: about 2000 lines under
`src/main` and the analyzer of `DSE_juxta`. LLVM, Z3, pygments, pycparser, the
evaluation data and the artifacts in the repository are vendored or data.

Paths below are relative to `src/main`.

## The system

| Part | Code | State it keeps | Operations | Talks to |
|---|---|---|---|---|
| Commit driver | `fetchCommit.py` | pairs of commits, checked-out tree, statistics | iterate pairs, skip merges, start at `-c` | pipeline (call), git tree (shared) |
| Per-commit pipeline | `split/split.py` `generateFunc`, `split/*.sh` | directories `cpgs`, `corpus`, `old`, `new`, `dataflow`, `generated`; flags and maps of the commit | build graphs, find functions, cut them out, make units, compile, execute | Joern, git, compiler (processes), directories (shared with earlier processes) |
| Edit scripts | `split/split.py` `parseDiff`, line maps; `diff.sh`, `diffu.sh` | none | parse, map lines | pipeline |
| Slicing script | `slice.sc` | queue, visited set, relations; the report file | slice an operation, collect sets, append a report | pipeline, through the report file |
| Change units | `split/split.py` 547-745 | blacklists, groups, units | blacklist, group, merge, discard | report file, `revert` |
| Reverting | `split/gen.py` | two collections of lines, a line counter | read the old function, write the new one | pipeline |
| Path pickling | `analyzer/pickler.py`, `pathbin.py` | temporary and database files | two process pools: parse chunks, then rename or merge | log files, path database |
| Log parser, paths | `analyzer/parser.py`, `path.py` | lookahead, current path | read a chunk | pickling |
| Lazy database | `analyzer/pathbin.py` `PathBin` | status and content of each function's file | look a function up, load it once | path database, checkers |
| Return paths | `analyzer/ckapi.py` `get_rtn_paths_list`, `ckrtn.py` | paths by value, the recursion | expand the paths of a function through the calls it returns | lazy database |
| Symbolic ranges | `analyzer/rsv.py`, `rsf.py` | weighted ranges, two differences | add a range, unite sets, compare two sets | checkers |
| Lock checker | `analyzer/lock.py` | two stacks, errors | follow the calls of a path | path database |
| Checkers | `analyzer/checker.py`, other `ck*.py` | statistics | compare paths of several functions | the parts above |
| Condition prover | `split/z3helper.py`, `split/analyzer.py` | generated Python module | prove equality or implication | Z3 |
| Source merger | `analyzer/merger.py` | tables of static symbols, rewriting plan | rename symbols two files share, rewrite the sources | source files |
| Front ends | `analyzer/ctrl.py`, `analyzer.py` | none | one command per process | the parts |

What is hard about it:

* **One working tree.** Graphs, functions and compilation all read the tree
  somebody checked out last (`split.py:112`, `:772`, `generateCPGs.sh:8`,
  `fetchCommit.py:58`).
* **Files that outlive the process.** A driver that died is restarted by hand;
  everything it finds by name it uses unchecked (`generateCPGs.sh:21`,
  `split.py:95`, `:531`), a function or graph that breaks off included.
  Reports are *appended*.
* **Scripts that go on.** No command of the scripts looks at the result of the
  one before: not at a failed checkout (`generateCPGs.sh:8`), nor at a graph
  that could not be replaced (`dataflow.sh:3`).
* **Line numbers of four kinds** (old, new, and two halves of a hybrid file),
  all kept as strings of digits (`split.py:502-527`, `:559-613`), and ranges of
  which only the ends are looked at (`gen.py:45`).
* **Transitive grouping** in two stages with loop variables used after their
  loops (`split.py:623-716`).
* **Processes and crashes** in the pickler: files are written, listed, merged
  by adding, and removed by workers that can be killed (`pickler.py:62-83`).
* **Exceptions that vanish** (`pathbin.py:94`) or end the program
  (`split.py:457`, `lock.py:105`).
* **Cuts at byte offsets**: a log is read by several processes, each from some
  byte on, and which one reads a block is decided by the marks around it
  (`parser.py:19-30`, `pickler.py:107`).
* **State that is renamed, split or taken while it is walked over**: the symbol
  tables (`merger.py:213`), the ranges (`rsv.py:33-205`), the stacks of locks
  (`lock.py:95-127`).
* **Recursion and waiting without a bound** (`ckapi.py:184`, `pathbin.py:51`).

`PROJECT.json` lists these hazards at their lines, with the properties that
cover each, and the parts not modelled with the reason.

## Modules

| Module | Models | Uses |
|---|---|---|
| `CodeGraph` | what `slice.sc` reads of a code property graph, and its result sets as operators; `Affected` is the reference definition of a slice | |
| `DataFlowReport` | abstract: a run appends one exact report, atomically | |
| `Slicer` | `slice.sc` step by step | extends `CodeGraph`, implements `DataFlowReport` |
| `SlicerProofs` | theorems about `Slicer` | |
| `EditScript` | hybrid listing, edit actions, line maps, ends of ranges | |
| `Revert` | both passes of `revert` | extends `EditScript` |
| `RevertProofs` | theorems about `Revert`, and the lemmas on listings and their line maps | extends `Revert` |
| `ChangeUnits` | from the report to the generated file | extends `Revert`, whose variables and steps are part of its own |
| `ChangeUnitsProofs` | theorems about `ChangeUnits` | extends `ChangeUnits`, `RevertProofs` |
| `SplitCommit` | driver and pipeline over directories and tree, crashes | |
| `Pickler` | the two pools, files, crashes | |
| `PicklerProofs` | theorems about `Pickler` | extends `Pickler` |
| `SplitCommitProofs` | theorems about `SplitCommit` | |
| `FssChunks` | how a log is cut into chunks and read | |
| `ReturnExpansion` | the lazy database and the expansion of return paths over it | |
| `RangeSets` | sets of weighted ranges | |
| `LockChecker` | `explore_path` and its two stacks | |
| `SymbolRenaming` | the renaming of static symbols | |
| `Analyzer` | the commands: one component at a time, on any input | extends the five above |
| `CheckerProofs` | theorems about `LockChecker` and `ReturnExpansion` | extends both |
| `RangeProofs` | theorems about `RangeSets`, and the lemmas on disjoint ranges and their areas | extends `RangeSets` |
| `AnalyzerProofs` | theorems about `SymbolRenaming` and `FssChunks`, and that the components' promises hold of `Analyzer` | extends `Analyzer` and the two above |
| `MC...` | instances for TLC | |

The variables and actions of the five analyzer components carry a prefix each
(`sr`, `fc`, `lk`, `ex`, `rs`), so that `Analyzer` can hold all of them.

**Slicer.** `pc` is the position in `GetReLines`; `que`, `fSlices`,
`relations` are its variables, `pending` what the running `foreach` has still
to visit (a Scala set, hence in any order), `dst` the report file. `Seed`,
`Dequeue` and `Visit` are the statements of the walk, `EndOp` the mapping of
nodes to lines, `Emit` the remainder of `exec`, which has no interleaving of
its own.

**EditScript, Revert.** A function pair is one sequence over `=`, `-`, `+`: the
output of `diffu.sh`. As the scripts call diff on (new, old), `-` is a line of
the *new* function. A line is its position, so "the text of the generated
function" is a sequence of positions and order, loss and repetition can be
stated. Actions are the maximal changed blocks; `Ends` is all the program knows
of a range. `ReadOld`, `Rewind`, `ReadNew`, `Close` are the loops of `revert`.

**ChangeUnits.** `Blacklist`, `Group`, `MergeUnits`, `Discard` are the four
parts of lines 547-745, then `Revert` runs as it is (its variables are those of
this module), then the compiler accepts (`CompileOk`: the file is removed and
written again) or not (`CompileError`: the original is written). Details that
matter are kept: the conversion of related lines that never happens, the group
an update's loop ended at, the empty relation that is one empty string.

**SplitCommit.** `pc` is the position in `process`/`generateFunc`; `wt` the
checked-out commit; the directories are functions from the names of their files
to what the files were made from: the commit that was checked out (`src`), for a
text of a function also the commit its range comes from (`range`), and whether
it is `whole`. `bin` is `cpg.bin`, which all analyses share. The scripts are
translated command by command:

* `generateCPGs` goes on when its checkout fails, with the tree as it was; for
  each file Joern makes a graph, part of one, or none;
* `Ranges` writes the ranges of a graph, those of part of it, a file that breaks
  off (which ends the driver when it is loaded, `LoadError`), or nothing;
* `dataflowSh` replaces `bin`, writes part of it, or leaves it alone, and
  whichever it was, the script appends a report on what is there, breaks off, or
  appends nothing.

A checkout of GitPython that fails is an exception and ends the driver
(`GitError`, `CutError`), as do ranges a file does not have (`KeyError`) and
reports that break off where a number should be (`ValueError`). `Cut` stores the
one function that gets lines; `CutError` is also the driver that dies between
opening that file and closing it. `Restart` is a crash at any other point, and
the start at a parent already reached. A checkout either happens or does not: a
tree that is half one commit is left out. The ghost `astray` has the commits
that `generateCPGs.sh` failed to check out, `faults` counts the tools that left
something *wrong*; a tool that leaves nothing may fail any number of times. How
many units a function has, none included, and how many are valid is
nondeterministic here: `ChangeUnits` says which.

**Pickler.** `job` says what each pool process is doing, between any two file
operations; opening a file for writing truncates it (`Cut`) and the dump fills
it. A file's content counts how often it has the paths of each chunk, since
`_merge_dict` adds. `Crash` kills all processes. `stale` records that the run
began with temporary files of other logs that it will not rewrite.

**FssChunks.** A log is a sequence of kinds of line with a size in bytes each;
what an entry says is left out. `FcSeek` is the opening of a chunk, which may
land inside a line; `FcRead` consumes one line (`FcMark`, `FcSkip`, `FcKey`,
`FcContinue` are the branches of `_feeder`); `FcChunkEnds` is the look-ahead of
`_dual_open`; `FcFinish` ends a chunk and starts the next one. The chunks are
read by processes that share nothing, so their order is immaterial and they
are read one after the other. A path is the set of its line numbers.

**ReturnExpansion.** `exDic` is `PathBin`'s dictionary with its four statuses,
`exDb` the files, each missing, cut off or whole. The recursion of
`_expand_rtn_paths` is a stack of frames; a frame's `todo` are the values its
loop has still to visit, in any order, as they come from a dictionary.
`ExConstant`, `ExCall`, `ExReturn` are the branches; a load that raises
something other than `IOError` leaves "loading" behind, and `ExSpin` is the
waiting that then never ends. `ExDepth` stands for the interpreter's recursion
limit, and `ExTooDeep` for the exception.

**RangeSets.** `RsTake` takes a range to be added, `RsSplit` and `RsNextRound`
are the rounds in which it is split at the ranges that are there, `RsInsert`
adds what results; `RsUnite` and `RsAddSet` combine the sets; `RsComparePair` is
the loop body of the comparison. The ghosts are `rsWeight`, the weight each
number should have, `rsGaveUp`, that the last round was not enough, and
`rsInner`, that line 296 was reached with a piece strictly inside.

**LockChecker.** A path is a sequence of calls, added one at a time by `LkSee`,
which is one turn of the loop: lock, unlock, or anything else. Entries are
positions in the path, so a stack is a set of positions and its top the
largest. `lkErrs` and `lkPairs` are what is reported and which lock each
unlock released. `LkEnd` is the remainder after the loop.

**SymbolRenaming.** `SrCheck` is one turn of the loop over the files, in any
order: the symbols the file shares with another's *current* table are planned
and renamed in the table. `SrManual` adds the forced ones. A name is a sequence
of parts; the suffix is the file's base name.

**Analyzer.** A command (`AnMerge`, `AnParse`, `AnLock`, `AnApi`, `AnReturns`)
starts one component on an input of the user's choice; from then on the steps
are those component's. Only its files outlive a process, so there is one
command to a behaviour; what the next one finds in the files is among its
inputs (`ExDbs` has files that a killed pickler leaves).

## Runs

All runs take TLC well below five minutes on two workers. Sizes in states.

| Run | Instance | Shows |
|---|---|---|
| `slicer` (261k) | all reference graphs over 3 nodes with up to 4 edges, twice: with a node without line, with a node outside the method; two larger ones (a cycle behind a diamond, a chain leaving the method); no, one and two operations, 2 runs to one file | `SliceExact`, `Terminates`, `Implements`: cycles, self-references, shared lines, nothing left over from an earlier operation or run |
| `revert` (93k) | every listing of up to 7 lines, every set of actions | `Ordered`, `KeepsTheRest`, `ShortHunksExact` |
| `units` (70k) | three listings with updates, additions, deletions; every relation of a changed line to itself and one more line; every pointer and loop line with fewer relations; both outcomes of compiling | `Partition`, `DependentTogether`, `AllOrNothing`, `LoopsDiscarded`, `CompiledOrOriginal` |
| `driver` (610k) | five histories (three children of one parent, the first a merge; two files with an equally named function; two functions of one file; a chain in which a file is renamed; a file that is new in a second child), one crash, one tool that leaves something wrong, no or one unit a function | `WrongOnlyAstray`, `OnePartPerCrash`, `TwoReports`, `AllPairsCounted`, `CountsNested`, `Stops` |
| `analyzer` (263k) | three files with up to three symbols, equal base names included; logs of up to three blocks and four paths cut at chunks of 7 to 19 bytes; all paths of up to 4 calls of five kinds on three arguments; databases of four functions, one of them without a file, with up to two values each, missing and cut off files, with call graphs of every kind of circle; ranges over 5 points in up to two additions and a comparison | `SrOneDefinition`, `SrOneKeeps`, `FcReadOnce`, `LkMirrored`, `LkNestedExact`, `LkAnswered`, `ExSortedRight`, `ExDeepOnlyOnChains`, `ExAnswers`, `RsExact`, `RsCompared` |
| `pickler` (205k) | 3 chunks, 2 functions (one in every chunk, one in one), 2 workers, 3 runs, logs that may change between runs | `ExactlyOnce`, `NoTempsLeft`, `NeverNeither`, `RunEnds` |

Bounds. Seven lines are room for three hunks, or for two with an interior: every
pair of neighbouring actions, and hunks at both ends of a function. Three graph
nodes and four edges give every shape of cycle a queue walk can meet
(self-loop, two-cycle, three-cycle, entered from outside or not); larger graphs
only repeat them. One crash is enough for a driver that finds what another one
left half done (between two reports, with a function that breaks off); one tool
that leaves something wrong is enough for a wrong entry that both drivers use,
and any number of tools may fail leaving nothing. The theorems have no such
bound. Three runs of the pickler
are a killed one, a killed one over what the first left, and a complete one.
Every counter that could grow (`MaxRuns`, `MaxCrashes`, `MaxFaults`, `MaxUnits`,
`LkLen`, `RsAdds`) is bounded by a guard of that name.
In `analyzer`, a chunk of 7 bytes is one byte more than the two marks around a
block, the least that `FcUnitsAssumption` allows (the real minimum is far
larger); the logs and sizes together put a cut at every byte of every kind of
line, and behind the end of the log. Four calls are two nested locks with their
unlocks in either order, or a lock with failed try-locks before its unlock. Three
functions with a database file give a self-call, circles of two and of three, a
shared callee and a chain; the fourth, without one, ends a chain. `ExDepth = 3`
stands for the interpreter's limit of some hundreds of calls, far less than the
functions of a database: chains of three calls are too deep, in a circle or
not, and shorter ones fit.
`RsRounds = 2` stands for the 30 rounds of
`rsv.py:183`: too few for a range across many others, so that giving up
happens, and enough for the rest.

`CHECK_DEADLOCK FALSE`: every one of these programs ends.

Fairness. `WF_vars(Step)` in `Slicer` and `SplitCommit`, `WF_vars(RevertStep)`
in `Revert` and one weak fairness condition per worker and for the main process
in `Pickler`: started processes are run by the operating system, and the tools
the driver waits for return (it has no timeouts). `AnSpec` assumes only that
`ckapi.py` goes on once started (`WF_exVars(AnApiStep)`), which a sequential
process does. Nothing is assumed about starting a run, crashing, restarting, or about tools succeeding.

### Disagreements between code and comments

Six runs check what a comment says and end in a counterexample. Each is a
`findings` entry with the line and the quotation.

| Run | Line | What happens |
|---|---|---|
| `slicer_locals` | `slice.sc:87` | the text compared with the names of locals is one character too long; locals are reported as non-locals |
| `revert_interior` | `gen.py:67` | of a hunk of three or more lines the interior is not taken back |
| `units_pointers` | `split.py:578` | an index is looked up in a list of strings, so related lines are not converted and are compared with converted ones |
| `driver_functions` | `split.py:131` | of the updated functions of a file one is cut out |
| `driver_executed` | `split.py:847` | a function that does not compile is executed symbolically because another one did |
| `driver_reports` | `split.py:530` | equally named functions of two files share a report |

Five more oddities are in the modules as the code has them, without a run of
their own:

* the old lines of an update are skipped after a loop left its variable behind
  (`split.py:689`, `GroupsOf`);
* all lines without relations share one empty string and become one unit
  (`split.py:576`, `rel_list`);
* a file with no graph in the parent ends the driver (`split.py:457`, `KeyError`);
* after a checkout that failed, the graphs of another commit are kept and used
  under the commit's name (`generateCPGs.sh:8`; `WrongOnlyAstray` says how far
  that goes);
* when `cpg.bin` is not replaced, units are made from two reports on one half, or
  on a function analysed before (`dataflow.sh:3`; `TwoReports` says which graphs
  the two can be on).

The analyzer has more of them. No doc, comment or test says otherwise, so they
are no findings; the modules have them as the code does, and the properties
name them as their exceptions:

* a block is lost when a chunk boundary falls inside the line that opens it:
  the chunk before ends at the mark that closes the block before, the chunk
  after sees half a mark (`FcCut` in `FcReadOnce`);
* more than 30 rounds of splitting leave a set with overlapping ranges
  (`rsv.py:183`, `rsGaveUp`);
* the middle piece of a difference is not cut to the shared piece
  (`rsv.py:288-298`, `rsInner`);
* of the distance between two vectors only that of the last dimension stays
  (`rsv.py:386` assigns; vectors of one dimension are modelled);
* a failed try-lock that is tried again is reported as double locking, an
  unlock that is preceded by try-locks only, none of them of its lock, pops from
  an empty list and ends the analysis of the file system without a report
  (`lock.py:105`, `LkPopEmpty`), and a single lock still held at the end is not
  reported (`LkEnd`);
* of a chain of two calls the caller's path is filed under the call in the
  middle as well (`ckapi.py:226-232`, `ExFileCaller`);
* two files with the same base name can be given the same new name
  (`merger.py:198-200`, `SrFresh`);
* a database file that was cut off makes every later lookup of it wait for ever
  (`pathbin.py:51`, `ExSpin`).

The positive properties are stated around them: `ShortHunksExact`,
`AllOrNothing` and `LoopsDiscarded` speak of hunks of at most two lines a side
(and, for additions, not at the very end of the function, `gen.py:84`), where
the ends of a range are all of its lines; `DependentTogether` of the leading
lines of an action.

## Proofs

TLAPS proves, for every value of the constants that satisfies the stated
assumptions:

`SlicerProofs`: `TypeCorrect`, `SliceIsExact` and `Implementation`. From `NoLineAssumption`, `CPGsAssumption`,
`SourcesAssumption`, `MaxRunsAssumption`. The inductive invariant says of a walk in
progress that every visited node is reachable from the operation, that the
sources are visited, and that every visited node is either still in the queue
or has all nodes referring to it visited or pending. With an empty queue the visited set is
therefore closed, so it contains the least closed set, and by the first part it
is that set. Neither half alone is inductive. That the reports appended are the
exact ones needs the same invariant for all operations already done, which is
why the refinement is proved from it.

`RevertProofs`: `RevertTypes`, `NeverReordered`, `SurroundingsKept`,
`ShortHunksTakenBack` and `RevertResult`, for listings of any length and any set
of actions to take back. From `ListingsAssumption`. `revert` has no choices, so the inductive
invariant (`RevertInv`) says what every variable *is* as a function of the
listing and the line counter: while the old function is read, each collection
is the lines of its range read so far, in order (`Reading`); while the new one is
written, the output is the lines that belong to the result and whose place
(`Slot`) has been reached, in order (`Writing`). Sequences of lines are all of
the form `InOrder(S)`, the elements of a set of positions by rank, so appending a
line is a fact about sets (`InOrderAppend`, `InOrderConcat`) and not an
induction. What makes `Writing` inductive is `SlotOrder`: the place at which a
restored line is written never lies before that of an earlier line of the
listing. The properties are then about which set that is: it has every line that is not of
the hunks (`RestIsKept`), and of a hunk of at most two lines a side the ends are
all of it (`ShortIsAllEnds`).

`ChangeUnitsProofs`: `UnitsTypes`, `UnitsPartition`, `DependentInOneUnit`,
`UnitsAllOrNothing`, `LoopsNeverApplied` and `NeverUncompiled`. From
`ListingsAssumption` and `InputsAssumption`. The invariant (`UnitsInv`) gives each
variable its value from the report once its phase is over, and contains
`RevertInv`. The components of the graph of actions partition its
nodes (`ComponentsOf`); a group or a unit is one of them. That a unit is applied
whole or not at all needs both halves: a unit is valid or invalid as a whole
(`OneUnit`), and what is invalid is undone and nothing else is (`InvalidUndone`,
`ValidApplied`, from `Generated`).

`PicklerProofs`: `TypeCorrect`, `PathsExactlyOnce`, `AllTempsTaken`. From
`LogsAssumption`, `FileAssumption`, `RunsAssumption`. `ExactlyOnce` speaks of
finished runs only; the strengthening follows the files through a run:

* `WriteInv`: while chunks are parsed, every temporary file of the logs is
  whole or somebody has yet to write it;
* `TakeInv`: while they are merged, each one left is in the plan of its
  function, and the function is still in the queue or with a worker that will
  take this file away;
* `OwnInv`: a function is in the queue or with one worker, never both;
* `MergeInv`: if all files are of this run, what a worker has added up so far
  has exactly the chunks it has gone through, once each, and a function nobody
  has any more is in the database;
* `JobsOfPhase` ties what the workers do to the phase.

`OwnInv` is what makes `MergeInv` inductive: without it, one worker could change
the file another is merging. One lemma per action shows that it preserves each
part; crashes and failed merges share a lemma.

`PathsNeverLost` in the same module is `NeverNeither`: from the end of the first
pass on, every path of the logs is on disk, in its temporary file or in the
database. (During the first pass it need not be: a rerun truncates a temporary
file before it is written again.) `WriteInv` gives the fact when the second pass
starts. A step that takes a temporary file away is `_merge`'s renaming or its
removal after saving; in the second case the invariant `Kept` says that what
the worker has added up covers every whole file it has gone through, that the
database file covers all of the plan once saved, and (with `OwnInv`) that no
other worker has that function. The database file is truncated before it is
saved, and then the temporary files are all still there (`LostInv`).

`SplitCommitProofs`: `OnlyAstrayIsWrong`, `OneUnfinished`, `AtMostTwoReports`,
`StatisticsFit`, `TypeCorrect`, `EveryPairCounted`. From `NoneAssumption`,
`TreeAssumption`, `HistoriesAssumption`, `BoundsAssumption`. One inductive invariant for each
question:

* `Right`: besides `WrongOnlyAstray`, the ranges in memory are of the commit they
  are used for, unless it is one that was not checked out (`MemoryInv`). A text is
  cut out in the ranges in memory, so neither part is inductive without the other;
* `PartInv`: the functions that break off are finitely many, and `OnePartPerCrash`.
  One more does only when the driver stops, which makes room for it, and the
  restart turns that room into a crash;
* `WhereInv` ties `pc` to the current pair and its files;
* `ReportsInv`: every data-flow file has one or two reports, and the second fits the first;
  and where the driver is about to append the second one, either nothing is
  there, or one report on the graph that is in `cpg.bin` (`Between`). Whichever of the two
  commands fails then, the second report is on the patched half or on that graph;
* `CountInv` needs, besides the nesting, that the units about to be compiled have been
  counted as valid, and that no more commits were applied than had units compiled when
  this one was begun (`base`), since the counters are advanced at different
  places;
* `CommitInv`: the commits counted are those of the pairs from the start to
  the current one that are no merge (`Done`, whose cardinality the step to the
  next pair increases by one).

`AnalyzerProofs`, of `SymbolRenaming`: `RenamingTypes`, `RenamedApart`, `OneKeeps`. From `SrBasesAssumption`.
What a table holds is what a file keeps and what it has renamed
(`TablesInv`); a file that has been looked at keeps no symbol any other still
keeps (`ApartInv`), because a collision is with the other's current table,
which still has what it keeps; and somebody always keeps each symbol
(`KeptInv`), because a file only gives one up when another has it.

`CheckerProofs`, of `LockChecker`: `LockTypes`, `StacksInStep`, `UnlocksAnswered`, `NestedExact`.
From `LkAssumption`, for paths of any length over any calls and arguments. `LkMirrored` and `LkAnswered` are
inductive together with `ReleasedInv`, that a lock which has been released is no
longer on the stack: without it a second unlock could be paired with it. The
largest position of a stack exists by well-founded induction on the naturals.
`LkNestedExact` looks at whole paths: which try-locks have failed, and so which
calls are brackets, may change with every unlock still to come. `NestInv`
therefore speaks of any set of try-locks that no unlock so far can release, and says
that if the path nests without them, the pairs are its brackets and the stack, without them,
holds the locks that are still open. It is inductive because a path that nests
without a set has nested all along without it (`NestBefore`), and because an
unlock closes the last open lock (`ClosesTop`), which is the one `unlock` stops at.
The number of calls between two positions needs no induction: it is a
cardinality, and a path adds one position at a time (`BalanceStep`, `BalanceSplit`).

`CheckerProofs`, of `ReturnExpansion`: `ReturnTypes`, `SortedRight`, `DeepOnlyOnChains`. From `ExDisjointAssumption`,
`ExDbAssumption`, `ExFuncsAssumption`, `ExDepthAssumption`, over any set of
functions, any call graph and any number of frames. The invariant: each frame is the expansion of a value of the
frame below that has been taken (`Linked`); nothing is filed that the reference does
not name (`Sound`); and a value that has been taken is filed, with all its call
comes to, unless it is the one being expanded above (`Complete`). With an empty
stack the last one is the property. That the recursion is too deep only for a function that
begins a chain of as many calls as there are frames follows from `Linked`: the functions of
the frames and the call that does not fit (`Deep`) are such a chain. Nothing relates the number of
frames to that of the functions.

`RangeProofs`: `RangeTypes`, `RangesExact`, `RangesCompared`. From `RsPointsAssumption` (a
finite interval of integers), `RsInputsAssumption` (finite sets of ranges of positive weight) and
`RsBoundsAssumption`, for any inputs and any number of them. The model sums nothing: a range of
weight *w* over *n* numbers is *n w* cells, `RsAt` and `RsArea` are numbers of cells, and the
provers know enough of the cardinalities of unions and bijections.

* `RsDisjoint`: each set is disjoint at any point, and so are the pieces of the range
  that is being split, which no range of the set meets any more except as a whole;
* `RsWeighed`: at every number, the operation applied to what the set has, to the pieces
  in hand and to what is still in the queue gives the weight there should be. The
  lemma `Replaced` says what replacing one range by others does to the weights, `Divided` that a
  split leaves them alone, and `Inserted` follows the loop of `__add_with2` over its
  ranges in any order, by the least step at which it could go wrong;
* `RsComparing`: the area added up so far is that of the cells common to the two sets no pair is left
  for, and each difference is what its side had, less those. In the end no pair is left, and
  the cells are in bijection with the cells under the two weights (`AreaUnder`).

`AnalyzerProofs`, of `FssChunks`: `ChunkTypes`, `PathsReadOnce`. From `FcLogsAssumption` (which
line may follow which, the format the Clang pass prints), `FcSizeAssumption` and `FcUnitsAssumption`
(a chunk is larger than two marks), for logs of any length. The invariant says, of a chunk that
has come to a line, what the log says about it:

* `FcEnabled`: `state_enable` is on just when the line is inside a block that opens in the chunk;
* `FcWithin`: a mark that opens a block in the chunk, as far as it has come, ends before the chunk
  does, because `_dual_open` looks at the line after a closing mark;
* `FcCurrent`: the path in hand is the last one that began in such a block, as far as the
  lines go that have been read;
* `FcYields`: what is out is what earlier chunks should have read (`Whole`) and all paths of this one
  but the last.

At the end of a chunk these make up `Whole` (`FcChunkRead`). That every path is in
`Whole` of one chunk at most is arithmetic on multiples of the unit (`ChunksApart`), and that it is
in one, or its block is cut, is `ChunkOf` and `CutIs`. `FcOffset` is the number of bytes before a
line, a cardinality, so that `OffsetNext` can be proved; the greatest mark before a line exists by
well-founded induction.

`AnalyzerProofs`, of `Analyzer`: `MergeRenamesApart`, `LockReportsTrue`, `NestedLocksExact`, `ApiSortsRight`,
`ApiDeepOnlyOnChains`, `ReturnsCompared`, `LogsReadOnce`, `AnalyzerTypes`. A step of
the analyzer is one of a single component and a stutter of the others (`Parts`), so
`AnSpec` implies each component's safety specification, and the theorems carry over to the
specification that the run `analyzer` checks. `AnalyzerTypes` also has that only the component
of the command is at work (`Commands`): one that has not been started takes no step (`Started`).

Checked by TLC only: all liveness (`Terminates`, `Stops`, `RunEnds`,
`ExAnswers`), which the prover does not handle.

## Not modelled, and why

Text formats (diff output, `HashSet(...)`, make logs) appear as what they denote. The
symbolic execution engine is a pass of a vendored LLVM with a Clang part that is not in
the repository. The statistics scripts of the analyzer have no state, and the path containers
none beyond one call. `split/analyzer.py` cannot run as it is in the repository
(a `continue` outside of a loop at 20 and 41, names that are not imported), so
there is no behaviour to translate, and the condition prover it would call
writes a text for Z3. The checkers' worker pools share nothing. Of `rsv.py` the
scaling of weights by floating-point numbers and the loop over dimensions are
left out. Joern,
git, gcc, networkx and Z3 are external; a failing tool is a nondeterministic
outcome where the code goes on after one, and so is what it leaves behind. Two drivers at the same time are not
considered: the fixed paths (`file.txt`, `tmp.c`, `cpg.bin`) show that none is
meant to be.

The repository holds some 3.5 million lines of C and C++: file systems of several
Linux versions merged into one file each, which are the analyzer's test data,
and a copy of LLVM. None of it is SPatch's own code, so measured in lines of
the repository the share modelled is close to zero; of the scripts named above
it is most of the code that keeps state.

## Plan

Done: slicing, reverting, change units, the driver, pickling, reading of logs,
the lazy database and return paths, ranges, the lock checker, the renaming,
their composition, and the proofs listed above.

What could come next:

1. That `Pickler` implements a database replaced atomically per function,
   with `NeverNeither` as the central lemma.
2. What `lock.py` collects between a lock and its unlock, and vectors of
   several dimensions in `RangeSets`.
