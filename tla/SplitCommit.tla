---------------------------- MODULE SplitCommit ----------------------------
(***************************************************************************)
(* The driver: process of fetchCommit.py and, for every pair of commits,   *)
(* generateFunc of split/split.py with the scripts it starts. The driver   *)
(* works on one working tree, keeps what it computes in directories that   *)
(* outlive it, and is restarted by hand (-c) after it has stopped.         *)
(*                                                                         *)
(* Line numbers are those of split/split.py unless another file is named.  *)
(***************************************************************************)
EXTENDS Naturals, Sequences, FiniteSets

CONSTANTS Commit, File, Func,
          None,         \* no file or function
          Tree,         \* commit -> file -> its functions
          Histories,    \* possible sequences of pairs, see Pair
          MaxUnits,     \* bound on the change units of a function
          MaxCrashes,   \* bound on the number of crashes
          MaxFaults     \* bound on the tools that fail leaving something wrong

(* A parent, a child and the C files of the make log that the diff names,  *)
(* by the name the child has, with the functions its hunks lie in; merge   *)
(* when cld2num is not 1.                                                  *)
Pair(p) ==
  /\ p.prt \in Commit /\ p.cld \in Commit /\ p.merge \in BOOLEAN
  /\ p.files \subseteq DOMAIN Tree[p.cld]
  /\ p.new \in [p.files -> SUBSET Func] /\ p.old \in [p.files -> SUBSET Func]
  /\ \A l \in p.files : p.new[l] \subseteq Tree[p.cld][l]
  /\ \A l \in p.files \cap DOMAIN Tree[p.prt] : p.old[l] \subseteq Tree[p.prt][l]

ASSUME NoneAssumption == None \notin File \cup Func
ASSUME TreeAssumption ==
  DOMAIN Tree = Commit /\ \A c \in Commit : Tree[c] \in [DOMAIN Tree[c] -> SUBSET Func]
ASSUME HistoriesAssumption ==
  \A hs \in Histories : /\ Len(hs) \in Nat /\ DOMAIN hs = 1 .. Len(hs)
                        /\ \A i \in DOMAIN hs : Pair(hs[i])
ASSUME BoundsAssumption == {MaxUnits, MaxCrashes, MaxFaults} \subseteq Nat

VARIABLES
  pc, prt2cld, k,       \* the history and the current pair
  mm0, mm1,             \* file -> the function ranges loaded, child and parent
  file2Func,            \* file -> updated functions
  files, l,             \* files not yet treated, the current one
  updatedFunc, func,    \* its functions not yet treated, the current one
  units,                \* its change units: [all, valid]
  hasCom, validCommit,  \* flags of the commit
  own,                  \* the current generated function compiled
  base,                 \* valid1CUlen when the commit was begun
  count,                \* the global counters
  wt,                   \* the commit checked out in the working tree
  cpgs, corpus,         \* <<commit, file>> -> graph, function ranges
  old, new,             \* <<commit, file, func>> -> text of a function
  bin,                  \* the graph in cpg.bin
  dataflow,             \* <<prt, cld, func>> -> reports appended
  from, crashes,        \* pair the driver was started at, number of crashes
  faults,               \* number of tools that left something wrong
  astray                \* ghost: commits the scripts failed to check out

(* A file has, besides its name, what it was made from: the commit that    *)
(* was checked out (src), for a text also the one its lines were found in  *)
(* (range). It is whole unless its writer died.                            *)
disk   == <<cpgs, corpus, old, new, bin, dataflow>>
tools  == <<faults, astray>>
commit == <<mm0, mm1, file2Func>>
work   == <<files, l, updatedFunc, func, units, own>>
flags  == <<hasCom, validCommit, base>>
driver == <<prt2cld, k, from, crashes>>
vars   == <<pc, driver, commit, work, flags, count, wt, disk, tools>>

(* A file written under a new name                                         *)
Put(dir, x, v) == [y \in DOMAIN dir \cup {x} |-> IF y = x THEN v ELSE dir[y]]

pair == prt2cld[k]
prt  == pair.prt
cld  == pair.cld
NoCount == [commitNum |-> 0, validCommitNum |-> 0, applidCommitNum |-> 0,
            allCUlen |-> 0, validCUlen |-> 0, valid1CUlen |-> 0]
NoUnits == [all |-> 0, valid |-> 0]

Memory == /\ mm0 = <<>> /\ mm1 = <<>> /\ file2Func = <<>>
          /\ files = {} /\ l = None /\ updatedFunc = {} /\ func = None
          /\ units = NoUnits /\ own = FALSE
          /\ hasCom = FALSE /\ validCommit = FALSE /\ base = 0

Init == /\ pc = "next"
        /\ prt2cld \in Histories
        /\ k = 1 /\ from = 1 /\ crashes = 0
        /\ Memory
        /\ count = NoCount
        /\ wt \in Commit
        /\ cpgs = <<>> /\ corpus = <<>> /\ old = <<>> /\ new = <<>> /\ dataflow = <<>>
        /\ bin = [of |-> <<>>, whole |-> TRUE]
        /\ faults = 0 /\ astray = {}
-----------------------------------------------------------------------------
(* fetchCommit.py                                                          *)

(* Lines 52-58; the checkout is done once for all children of a parent     *)
NewParent == k # from => prt2cld[k - 1].prt # prt
Checkout == wt' = IF NewParent THEN prt ELSE wt

(* mutant: a merge ends the loop over the children instead of being skipped *)
SkipMerge_break == /\ pc = "next" /\ k \in DOMAIN prt2cld /\ pair.merge
                   /\ k' = Len(prt2cld) + 1
                   /\ Checkout
                   /\ UNCHANGED <<pc, prt2cld, from, crashes, commit, work, flags, count, disk, tools>>

(* Lines 60-64                                                             *)
SkipMerge == /\ pc = "next" /\ k \in DOMAIN prt2cld /\ pair.merge
             /\ k' = k + 1
             /\ Checkout
             /\ UNCHANGED <<pc, prt2cld, from, crashes, commit, work, flags, count, disk, tools>>

(* mutant: the ranges of the previous commit are kept                      *)
Begin_stale == /\ pc = "next" /\ k \in DOMAIN prt2cld /\ ~pair.merge
               /\ pc' = "cpg_prt"
               /\ Checkout
               /\ file2Func' = <<>>
               /\ hasCom' = FALSE /\ validCommit' = FALSE
               /\ base' = count.valid1CUlen
               /\ UNCHANGED <<driver, mm0, mm1, work, count, disk, tools>>

(* Lines 65-70, and the variables of generateFunc                          *)
Begin == /\ pc = "next" /\ k \in DOMAIN prt2cld /\ ~pair.merge
         /\ pc' = "cpg_prt"
         /\ Checkout
         /\ mm0' = <<>> /\ mm1' = <<>> /\ file2Func' = <<>>
         /\ hasCom' = FALSE /\ validCommit' = FALSE
         /\ base' = count.valid1CUlen
         /\ UNCHANGED <<driver, work, count, disk, tools>>

End == /\ pc = "next" /\ k \notin DOMAIN prt2cld
       /\ pc' = "stopped"
       /\ UNCHANGED <<driver, commit, work, flags, count, wt, disk, tools>>

(* A checkout of GitPython that fails, here or at split.py:772, raises an  *)
(* exception nobody catches.                                               *)
GitError == /\ \/ pc = "next" /\ k \in DOMAIN prt2cld /\ NewParent
               \/ pc = "checkout"
            /\ pc' = "stopped"
            /\ UNCHANGED <<driver, commit, work, flags, count, wt, disk, tools>>
-----------------------------------------------------------------------------
(* Preparation of a commit, 327-410                                        *)

HasCPG(c, f) == <<c, f>> \in DOMAIN cpgs

(* generateCPGs.sh: a checkout nobody looks at the result of, so that the  *)
(* tree may stay as it was; then every listed file that has no graph yet   *)
(* and exists in the tree. joern-parse may leave no graph or part of one.  *)
generateCPGs(c) ==
  /\ wt' \in {c, wt}
  /\ astray' = IF wt' = c THEN astray ELSE astray \cup {c}
  /\ \E parsed \in SUBSET {f \in pair.files \cap DOMAIN Tree[wt'] : ~HasCPG(c, f)} :
     \E part \in SUBSET parsed :
       /\ cpgs' = [x \in DOMAIN cpgs \cup {<<c, f>> : f \in parsed} |->
                     IF x \in DOMAIN cpgs THEN cpgs[x]
                     ELSE [src |-> wt', whole |-> x[2] \notin part]]
       /\ faults' = faults + Cardinality(part) + (IF wt' = c THEN 0 ELSE 1)
       /\ faults' <= MaxFaults

(* Lines 330-331                                                           *)
CPGs == /\ \/ pc = "cpg_prt" /\ pc' = "cpg_cld" /\ generateCPGs(prt)
           \/ pc = "cpg_cld" /\ pc' = "ranges"  /\ generateCPGs(cld)
        /\ UNCHANGED <<driver, commit, work, flags, count, corpus, old, new, bin, dataflow>>

(* What rangeFunc.sc can write for a graph: the ranges of its functions,   *)
(* those there are in part of a graph, or a file that breaks off.          *)
RangeFiles(x) ==
  LET g == cpgs[x]
      found == IF g.whole THEN {Tree[g.src][x[2]]} ELSE SUBSET Tree[g.src][x[2]]
  IN {[src |-> g.src, funcs |-> fs, whole |-> TRUE] : fs \in found}
     \cup {[src |-> g.src, funcs |-> {}, whole |-> FALSE]}

(* rangeFunc.sh on the graphs of files fs in commits cs; a run may fail    *)
Ranges(cs, fs) ==
  \E done \in SUBSET {x \in (cs \X fs) \cap DOMAIN cpgs : x \notin DOMAIN corpus} :
  \E out \in [done -> UNION {RangeFiles(x) : x \in done}] :
    /\ \A x \in done : out[x] \in RangeFiles(x)
    /\ corpus' = [x \in DOMAIN corpus \cup done |->
                    IF x \in DOMAIN corpus THEN corpus[x] ELSE out[x]]
    /\ faults' = faults + Cardinality({x \in done : ~out[x].whole})
    /\ faults' <= MaxFaults

Loaded(c) == {f \in pair.files : <<c, f>> \in DOMAIN cpgs \cap DOMAIN corpus'}

(* The functions of ranges m that lines lie in: those of the hunks, unless *)
(* the ranges are another commit's                                         *)
Hit(m, c, hunks) == IF m.src = c THEN {hunks \cap m.funcs} ELSE SUBSET m.funcs

(* Lines 344-410                                                           *)
FindFunctions ==
  /\ pc = "ranges"
  /\ Ranges({prt, cld}, pair.files)
  /\ \A c \in {prt, cld}, f \in pair.files : f \in Loaded(c) => corpus'[<<c, f>>].whole
  /\ pc' = "files"
  /\ mm0' = [f \in Loaded(cld) |-> corpus'[<<cld, f>>]]
  /\ mm1' = [f \in Loaded(prt) |-> corpus'[<<prt, f>>]]
  /\ \E hit0 \in [Loaded(cld) -> SUBSET Func], hit1 \in [Loaded(prt) -> SUBSET Func] :
       /\ \A f \in Loaded(cld) : hit0[f] \in Hit(mm0'[f], cld, pair.new[f])
       /\ \A f \in Loaded(prt) : hit1[f] \in Hit(mm1'[f], prt, pair.old[f])
       /\ files' = Loaded(cld) \cup {f \in Loaded(prt) : hit1[f] # {}}
       /\ file2Func' = [f \in files' |->
            (IF f \in Loaded(cld) THEN hit0[f] ELSE {}) \cup
            (IF f \in Loaded(prt) THEN hit1[f] ELSE {})]
  /\ UNCHANGED <<driver, l, updatedFunc, func, units, own, flags, count, wt,
                 cpgs, old, new, bin, dataflow, astray>>

(* Ranges that break off cannot be loaded, 360 and 397: the driver dies.   *)
LoadError ==
  /\ pc = "ranges"
  /\ Ranges({prt, cld}, pair.files)
  /\ \E c \in {prt, cld} : \E f \in Loaded(c) : ~corpus'[<<c, f>>].whole
  /\ pc' = "stopped"
  /\ UNCHANGED <<driver, commit, work, flags, count, wt, cpgs, old, new, bin, dataflow, astray>>
-----------------------------------------------------------------------------
(* One file, 415-459                                                       *)

(* Ranges of f in commit c still missing in m are tried once more; if that *)
(* fails the file is skipped, and ranges that break off end the driver.    *)
Retry(m, mNext, c, f, goOn) ==
  /\ Ranges({c}, {f})
  /\ LET missing == f \notin DOMAIN m /\ HasCPG(c, f)
         there == <<c, f>> \in DOMAIN corpus'
     IN \/ ~missing /\ mNext = m /\ pc' = goOn
        \/ missing /\ ~there /\ mNext = m /\ pc' = "files"
        \/ missing /\ there /\ ~corpus'[<<c, f>>].whole /\ mNext = m /\ pc' = "stopped"
        \/ missing /\ there /\ corpus'[<<c, f>>].whole
           /\ mNext = Put(m, f, corpus'[<<c, f>>]) /\ pc' = goOn

(* Lines 415-437                                                           *)
BeginFile(f) ==
  /\ pc = "files" /\ f \in files
  /\ files' = files \ {f}
  /\ l' = f
  /\ Retry(mm0, mm0', cld, f, "retry")
  /\ UNCHANGED <<driver, mm1, file2Func, updatedFunc, func, units, own, flags, count,
                 wt, cpgs, old, new, bin, dataflow, astray>>

(* Lines 438-454, the same for the parent                                  *)
RetryParent ==
  /\ pc = "retry"
  /\ Retry(mm1, mm1', prt, l, "old")
  /\ UNCHANGED <<driver, mm0, file2Func, work, flags, count, wt, cpgs, old, new, bin,
                 dataflow, astray>>

(* createFunc, 89-139, with the ranges m: the functions that are not there *)
ToCut(dir, c, m) == {g \in file2Func[l] \cap m.funcs : <<c, l, g>> \notin DOMAIN dir}
Text(m, done) == [src |-> wt', range |-> m.src, whole |-> done]

(* The loop over tmp is left after its first function, so of all functions *)
(* in tmp one, the first of the set, gets lines; none when its range lies  *)
(* beyond the text.                                                        *)
Cut(dir, c, m, dest) ==
  LET tmp == ToCut(dir, c, m)
  IN \/ tmp = {} /\ wt' = wt /\ dest = dir
     \/ l \in DOMAIN Tree[c] /\ wt' = c
        /\ \E g \in tmp : \/ dest = Put(dir, <<c, l, g>>, Text(m, TRUE))
                         \/ (m.src # c /\ dest = dir)

(* mutant: all functions are opened before one is written                  *)
CutError_all(dir, c, m, dest) ==
  LET tmp == ToCut(dir, c, m)
  IN /\ tmp # {} /\ wt' = c /\ l \in DOMAIN Tree[c]
     /\ dest = [x \in DOMAIN dir \cup {<<c, l, g>> : g \in tmp} |->
                  IF x \in DOMAIN dir THEN dir[x] ELSE Text(m, FALSE)]

(* What ends the driver inside createFunc: the checkout of 112 or opening  *)
(* the file fails, or it dies while it writes a function (137-139).        *)
CutError(dir, c, m, dest) ==
  LET tmp == ToCut(dir, c, m)
  IN \/ tmp # {} /\ wt' \in {wt} \cup {x \in {c} : l \notin DOMAIN Tree[x]} /\ dest = dir
     \/ l \in DOMAIN Tree[c] /\ wt' = c
        /\ \E g \in tmp : dest = Put(dir, <<c, l, g>>, Text(m, FALSE))

(* mutant: the parent's functions are cut out with the child's ranges      *)
CreateOld_child ==
  /\ pc = "old" /\ l \in DOMAIN mm1 \cap DOMAIN mm0
  /\ \/ pc' = "new" /\ Cut(old, prt, mm0[l], old')
     \/ pc' = "stopped" /\ CutError(old, prt, mm0[l], old')
  /\ UNCHANGED <<driver, commit, work, flags, count, cpgs, corpus, new, bin, dataflow, tools>>

(* Lines 456-457 and 458-459                                               *)
CreateOld ==
  /\ pc = "old" /\ l \in DOMAIN mm1
  /\ \/ pc' = "new" /\ Cut(old, prt, mm1[l], old')
     \/ pc' = "stopped" /\ CutError(old, prt, mm1[l], old')
  /\ UNCHANGED <<driver, commit, work, flags, count, cpgs, corpus, new, bin, dataflow, tools>>

CreateNew ==
  /\ pc = "new" /\ l \in DOMAIN mm0
  /\ \/ pc' = "funcs" /\ updatedFunc' = file2Func[l] /\ Cut(new, cld, mm0[l], new')
     \/ pc' = "stopped" /\ UNCHANGED updatedFunc /\ CutError(new, cld, mm0[l], new')
  /\ UNCHANGED <<driver, commit, files, l, func, units, own, flags, count,
                 cpgs, corpus, old, bin, dataflow, tools>>

(* mm1[l] of line 457 or mm0[l] of line 459 does not exist                 *)
KeyError == /\ \/ pc = "old" /\ l \notin DOMAIN mm1
               \/ pc = "new" /\ l \notin DOMAIN mm0
            /\ pc' = "stopped"
            /\ UNCHANGED <<driver, commit, work, flags, count, wt, disk, tools>>
-----------------------------------------------------------------------------
(* One function, 463-864                                                   *)

Stored(dir, c, g) == <<c, l, g>> \in DOMAIN dir
dataname == <<prt, cld, func>>     \* line 530: the file is not part of it
Reports == IF dataname \in DOMAIN dataflow THEN dataflow[dataname] ELSE <<>>

(* Lines 463-485: the function is treated when both texts are there and    *)
(* the edit script between them has an action; one that is the same but    *)
(* for layout has none, and neither has a diff that failed.                *)
BeginFunc(g) ==
  /\ pc = "funcs" /\ g \in updatedFunc
  /\ updatedFunc' = updatedFunc \ {g}
  /\ func' = g
  /\ own' = FALSE
  /\ \/ pc' = "flow_o" /\ Stored(old, prt, g) /\ Stored(new, cld, g)
     \/ pc' = "funcs"
  /\ UNCHANGED <<driver, commit, files, l, units, flags, count, wt, disk, tools>>

EndFile == /\ pc = "funcs" /\ updatedFunc = {}
           /\ pc' = "files"
           /\ UNCHANGED <<driver, commit, work, flags, count, wt, disk, tools>>

(* dataflow.sh: two commands over one file, and neither looks at the       *)
(* other's result. joern-parse replaces cpg.bin, writes part of it or      *)
(* leaves it alone; the script appends a report on whatever is in it,      *)
(* breaks off, or appends nothing.                                         *)
dataflowSh(half) ==
  /\ \E parsed \in {"whole", "part", "not"}, report \in {"whole", "part", "not"} :
       /\ bin' = IF parsed = "not" THEN bin
                 ELSE [of |-> <<dataname, l, half>>, whole |-> parsed = "whole"]
       /\ dataflow' = IF report = "not" THEN dataflow
                      ELSE Put(dataflow, dataname,
                               Append(Reports, [bin' EXCEPT !.whole = @ /\ report = "whole"]))
       /\ faults' = faults + (IF parsed = "whole" THEN 0 ELSE 1)
                           + (IF report = "part" THEN 1 ELSE 0)
  /\ faults' <= MaxFaults

(* mutant: the analysis is not skipped when its result is there            *)
Analyse_again ==
  /\ \/ pc = "flow_o" /\ pc' = "flow_p" /\ Len(Reports) < 4 /\ dataflowSh("o")
     \/ pc = "flow_p" /\ pc' = "units" /\ dataflowSh("p")
     \/ /\ pc = "flow_o" /\ pc' = "units" /\ Len(Reports) >= 4
        /\ UNCHANGED <<bin, dataflow, faults>>
  /\ UNCHANGED <<driver, commit, work, flags, count, wt, cpgs, corpus, old, new, astray>>

(* Lines 530-539                                                           *)
Analyse ==
  /\ \/ pc = "flow_o" /\ Reports = <<>> /\ pc' = "flow_p" /\ dataflowSh("o")
     \/ pc = "flow_p" /\ pc' = "units" /\ dataflowSh("p")
     \/ pc = "flow_o" /\ Reports # <<>> /\ pc' = "units" /\ UNCHANGED <<bin, dataflow, faults>>
  /\ UNCHANGED <<driver, commit, work, flags, count, wt, cpgs, corpus, old, new, astray>>

Garbled == \E i \in DOMAIN Reports : ~Reports[i].whole

(* mutant: the analysis is repeated until there is data                    *)
NoData_retry == /\ pc = "units" /\ Len(Reports) < 2
                /\ pc' = IF Reports = <<>> THEN "flow_o" ELSE "funcs"
                /\ UNCHANGED <<driver, commit, work, flags, count, wt, disk, tools>>

(* Lines 541-558: no file, or less than the ten lines of two reports       *)
NoData == /\ pc = "units" /\ (Len(Reports) < 2 \/ Garbled)
          /\ pc' = "funcs"
          /\ UNCHANGED <<driver, commit, work, flags, count, wt, disk, tools>>

(* Lines 559-613: a report that breaks off may hold what is no number      *)
ValueError == /\ pc = "units" /\ Len(Reports) >= 2 /\ Garbled
              /\ pc' = "stopped"
              /\ UNCHANGED <<driver, commit, work, flags, count, wt, disk, tools>>

(* Lines 547-768, with n change units of which v are valid (ChangeUnits    *)
(* says which)                                                             *)
MakeUnits(n, v) ==
  /\ pc = "units" /\ Len(Reports) >= 2
  /\ pc' = "checkout"
  /\ units' = [all |-> n, valid |-> v]
  /\ count' = [count EXCEPT !.allCUlen = @ + n, !.validCUlen = @ + v]
  /\ validCommit' = TRUE
  /\ UNCHANGED <<driver, commit, files, l, updatedFunc, func, own, hasCom, base, wt,
                 disk, tools>>

(* Lines 769-804: the parent's tree, and 1.c in it                         *)
CheckoutParent == /\ pc = "checkout"
                  /\ pc' = "compile"
                  /\ wt' = prt
                  /\ UNCHANGED <<driver, commit, work, flags, count, disk, tools>>

(* mutant: all change units are counted                                    *)
CompileOk_all == /\ pc = "compile"
                 /\ pc' = "se"
                 /\ own' = TRUE /\ hasCom' = TRUE
                 /\ count' = [count EXCEPT !.valid1CUlen = @ + units.all]
                 /\ UNCHANGED <<driver, commit, files, l, updatedFunc, func, units,
                                validCommit, base, wt, disk, tools>>

(* Lines 815-839                                                           *)
CompileOk == /\ pc = "compile"
             /\ pc' = "se"
             /\ own' = TRUE /\ hasCom' = TRUE
             /\ count' = [count EXCEPT !.valid1CUlen = @ + units.valid]
             /\ UNCHANGED <<driver, commit, files, l, updatedFunc, func, units,
                            validCommit, base, wt, disk, tools>>

(* Lines 841-847                                                           *)
CompileError == /\ pc = "compile"
                /\ pc' = IF hasCom THEN "se" ELSE "funcs"
                /\ UNCHANGED <<driver, commit, work, flags, count, wt, disk, tools>>

(* Lines 848-864: symbolic execution of both versions; no set in the       *)
(* report prints as an empty line, so line 849 is never true               *)
SE == /\ pc = "se"
      /\ pc' = "funcs"
      /\ UNCHANGED <<driver, commit, work, flags, count, wt, disk, tools>>

(* Lines 884-894                                                           *)
EndCommit ==
  /\ pc = "files" /\ files = {}
  /\ pc' = "next" /\ k' = k + 1
  /\ count' = [count EXCEPT
       !.applidCommitNum = @ + IF validCommit /\ count.valid1CUlen # base /\ hasCom THEN 1 ELSE 0,
       !.commitNum = @ + 1,
       !.validCommitNum = @ + IF validCommit THEN 1 ELSE 0]
  /\ UNCHANGED <<prt2cld, from, crashes, commit, work, flags, wt, disk, tools>>
-----------------------------------------------------------------------------
(* The driver dies, of whatever cause, and is started with -c at a parent  *)
(* it had already come to: fetchCommit.py:52-57 skip what is before it.    *)
(* What a tool was writing then is among the files the tools leave above.  *)
Restart == /\ crashes < MaxCrashes
           /\ crashes' = crashes + 1
           /\ \E i \in DOMAIN prt2cld :
                /\ i <= k
                /\ \A j \in 1 .. i - 1 : prt2cld[j].prt # prt2cld[i].prt
                /\ k' = i /\ from' = i
           /\ pc' = "next"
           /\ mm0' = <<>> /\ mm1' = <<>> /\ file2Func' = <<>>
           /\ files' = {} /\ l' = None /\ updatedFunc' = {} /\ func' = None
           /\ units' = NoUnits /\ own' = FALSE
           /\ hasCom' = FALSE /\ validCommit' = FALSE /\ base' = 0
           /\ count' = NoCount
           /\ UNCHANGED <<prt2cld, wt, disk, tools>>

Step == \/ SkipMerge \/ Begin \/ End \/ GitError \/ CPGs \/ FindFunctions \/ LoadError
        \/ (\E f \in File : BeginFile(f)) \/ RetryParent
        \/ CreateOld \/ CreateNew \/ KeyError
        \/ (\E g \in Func : BeginFunc(g)) \/ EndFile
        \/ Analyse \/ NoData \/ ValueError
        \/ (\E n \in 0 .. MaxUnits : \E v \in 0 .. n : MakeUnits(n, v)) \/ CheckoutParent
        \/ CompileOk \/ CompileError \/ SE \/ EndCommit
Next == Step \/ Restart

(* A started driver runs until it stops; nothing makes it crash.           *)
Spec == Init /\ [][Next]_vars /\ WF_vars(Step)
-----------------------------------------------------------------------------
(* The types; work in progress lies within the current pair's files.       *)
TypeOK ==
  /\ pc \in {"next", "cpg_prt", "cpg_cld", "ranges", "files", "retry", "old", "new", "funcs",
             "flow_o", "flow_p", "units", "checkout", "compile", "se", "stopped"}
  /\ prt2cld \in Histories /\ k \in 1 .. Len(prt2cld) + 1
  /\ wt \in Commit /\ astray \subseteq Commit
  /\ pc \notin {"next", "stopped"} =>
       /\ DOMAIN mm0 \cup DOMAIN mm1 \subseteq pair.files
       /\ files \subseteq DOMAIN file2Func
  /\ pc \in {"flow_o", "flow_p", "units", "checkout", "compile", "se"} =>
       l \in DOMAIN mm0 \cap DOMAIN mm1 /\ func \in file2Func[l]
  /\ count \in [DOMAIN NoCount -> Nat]

(* What is kept under a commit's name is of that commit: graph, function   *)
(* ranges and text, though all of them are read from one working tree and  *)
(* used again after a crash. The only exceptions are commits generateCPGs  *)
(* once failed to check out: their graphs and what is derived from them    *)
(* are of another commit, but nothing of a commit it did check out is.     *)
WrongOnlyAstray ==
  /\ \A x \in DOMAIN cpgs : cpgs[x].src = x[1] \/ x[1] \in astray
  /\ \A x \in DOMAIN corpus : corpus[x].src = x[1] \/ x[1] \in astray
  /\ \A dir \in {old, new} : \A x \in DOMAIN dir :
       dir[x].src = x[1] /\ (dir[x].range = x[1] \/ x[1] \in astray)

(* A driver that dies leaves at most one function that breaks off: all     *)
(* others, which later drivers use unseen, are whole.                      *)
Part(dir) == {x \in DOMAIN dir : ~dir[x].whole}
OnePartPerCrash ==
  Cardinality(Part(old)) + Cardinality(Part(new))
    <= crashes + IF pc = "stopped" THEN 1 ELSE 0

(* A data-flow file is no longer than the two reports split.py reads:      *)
(* slice.sc only ever appends, and the driver may have died between the    *)
(* two. The second one is of the patched half; or, if cpg.bin could not be *)
(* replaced, of the graph that the first one is of.                        *)
TwoReports ==
  \A x \in DOMAIN dataflow :
    LET r == dataflow[x]
    IN Len(r) \in 1 .. 2 /\ (Len(r) = 2 => \/ r[2].of = r[1].of
                                           \/ \E f \in File : r[2].of = <<x, f, "p">>)

(* The statistics fit together: every count of change units or commits is  *)
(* part of the one before it, and of the units of an applied commit some   *)
(* have compiled.                                                          *)
CountsNested ==
  /\ count.valid1CUlen <= count.validCUlen /\ count.validCUlen <= count.allCUlen
  /\ count.applidCommitNum <= count.validCommitNum
  /\ count.validCommitNum <= count.commitNum
  /\ count.applidCommitNum <= count.valid1CUlen

(* A driver that comes to the end has counted every pair that is not a     *)
(* merge since the commit it was started at, once.                         *)
AllPairsCounted ==
  pc = "stopped" /\ k \notin DOMAIN prt2cld =>
    count.commitNum = Cardinality({i \in from .. Len(prt2cld) : ~prt2cld[i].merge})

(* The driver comes to an end whatever fails, and after every restart.     *)
Stops == <>[](pc = "stopped")

(* split.py:243 says the result is "multiple pairs of original functions   *)
(* and updated functions in new commit": when the functions of a file are  *)
(* gone through, each one both versions have has been cut out.             *)
AllFunctionsCut ==
  pc = "funcs" => \A g \in updatedFunc \cap Tree[prt][l] \cap Tree[cld][l] :
                    Stored(old, prt, g) /\ Stored(new, cld, g)

(* split.py:846, where symbolic execution starts, says "we have a          *)
(* compilable ""minified program""": the current one has compiled.         *)
ExecutedCompiled == pc = "se" => own

(* split.py:488 says "check if we have analyzed the file": the reports the *)
(* units are made from are those of the current file.                      *)
ReportsOfFile == pc = "compile" => \A i \in DOMAIN Reports : Reports[i].of[2] = l
============================================================================
