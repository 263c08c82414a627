--------------------------- MODULE ReturnExpansion ---------------------------
(***************************************************************************)
(* ckapi.py (and ckrtn.py, which keeps the values only): a checker sorts   *)
(* the paths of a function by return value, and a value that is a call is  *)
(* replaced by the values of the called function, as far as the database   *)
(* has it. pathbin.py loads a database file when it is first asked for.    *)
(***************************************************************************)
EXTENDS Integers, Sequences, FiniteSets, SequencesExt

CONSTANTS ExFuncs,      \* the functions to be compared
          ExCallees,    \* these and others a returned call may name
          ExConsts,     \* constant return values
          ExDbs,        \* possible databases
          ExDepth       \* frames until "maximum recursion depth exceeded"

(* A return value is a constant or a call, either as an argument of        *)
(* ERR_PTR or not                                                          *)
ExValues == [expr : ExConsts \cup ExCallees, errptr : BOOLEAN]
(* A database file has at least one value; none, and one that unpickling   *)
(* fails on, stand apart                                                   *)
ExNone == {}
ExCut == {[expr |-> "@", errptr |-> FALSE]}
ExIsFile(x) == x = ExCut \/ x \subseteq ExValues

ASSUME ExDisjointAssumption == ExConsts \cap ExCallees = {}
ASSUME ExDbAssumption ==
  \A db \in ExDbs : DOMAIN db = ExCallees /\ \A f \in ExCallees : ExIsFile(db[f])
ASSUME ExFuncsAssumption == ExFuncs \subseteq ExCallees
ASSUME ExDepthAssumption == ExDepth \in Nat \ {0}

VARIABLES exDb,
          exDic,     \* fn_dic: function -> "absent", "loading", "error", "loaded"
          exTodo,    \* functions get_rtn_paths_list has not come to
          exRoot,    \* the one in hand
          exStack,   \* calls of _add_rtn_values
          exRtn,     \* rtn_paths: function -> <<value, path>>
          exPc

exVars == <<exDb, exDic, exTodo, exRoot, exStack, exRtn, exPc>>

(* The paths of a function that return one value are treated alike: they   *)
(* are a path                                                              *)
ExPaths == ExCallees \X ExValues
ExBare(v) == [v EXCEPT !.errptr = FALSE]

ExInit == /\ exDb = [f \in ExCallees |-> ExNone]
          /\ exDic = [f \in ExCallees |-> "absent"]
          /\ exTodo = {} /\ exRoot = "none"
          /\ exStack = <<>>
          /\ exRtn = [f \in ExFuncs |-> {}]
          /\ exPc = "idle"

ExStart(db) == /\ exPc = "idle"
               /\ exDb' = db
               /\ exTodo' = ExFuncs
               /\ exPc' = "check"
               /\ UNCHANGED <<exDic, exRoot, exStack, exRtn>>

(* mutant: the status of an IOError is not "error"                         *)
ExLoad_ioerror(g) ==
  exDic' = [exDic EXCEPT ![g] = IF @ # "absent" THEN @
                                ELSE IF exDb[g] \in {ExNone, ExCut} THEN "loading" ELSE "loaded"]

(* __load_from_pickle, pathbin.py:85-95: the status of an error that is no *)
(* IOError is the one put there before                                     *)
ExLoad(g) ==
  exDic' = [exDic EXCEPT ![g] = IF @ # "absent" THEN @
                                ELSE IF exDb[g] = ExNone THEN "error"
                                ELSE IF exDb[g] = ExCut THEN "loading" ELSE "loaded"]

(* __getitem__, pathbin.py:49-60: the loop goes on for ever at "loading"   *)
ExSpins(g) == exDic'[g] = "loading"
ExFound(g) == exDic'[g] = "loaded"

ExFrame(g, path) == [func |-> g, todo |-> exDb[g], path |-> path]
ExTop == Last(exStack)

(* get_rtn_paths_list and _expand_rtn_paths, 173-191                       *)
ExTakeFunc(f) == /\ exPc = "check" /\ exStack = <<>> /\ f \in exTodo
                 /\ ExLoad(f)
                 /\ exTodo' = exTodo \ {f}
                 /\ exRoot' = f
                 /\ exStack' = IF ExFound(f) THEN <<ExFrame(f, <<>>)>> ELSE <<>>
                 /\ exPc' = IF ExSpins(f) THEN "spin" ELSE exPc
                 /\ UNCHANGED <<exDb, exRtn>>

(* Lines 224-230: the caller's path is filed under the value as it is      *)
ExFileCaller(v) == {<<v, p>> : p \in {ExTop.path} \ {<<>>}}

ExRest(v) == [exStack EXCEPT ![Len(exStack)].todo = @ \ {v}]

(* 193-207 without a call, or with one that is not found: the path is      *)
(* filed under its value, without ERR_PTR                                  *)
ExFile(v) ==
  /\ exRtn' = [exRtn EXCEPT ![exRoot] = @ \cup ExFileCaller(v)
                                          \cup {<<ExBare(v), <<ExTop.func, v>>>>}]
  /\ exStack' = ExRest(v)

(* mutant: the path of an expanded call is kept under the call             *)
ExExpand_keep(v) ==
  /\ exRtn' = [exRtn EXCEPT ![exRoot] = @ \cup ExFileCaller(v)
                                          \cup {<<ExBare(v), <<ExTop.func, v>>>>}]
  /\ exStack' = Append(ExRest(v), ExFrame(v.expr, <<ExTop.func, v>>))

(* mutant: the values of the function that has the call are taken again    *)
ExExpand_self(v) ==
  /\ exRtn' = [exRtn EXCEPT ![exRoot] = @ \cup ExFileCaller(v)]
  /\ exStack' = Append(ExRest(v), ExFrame(ExTop.func, <<ExTop.func, v>>))

(* 219-222: the values of the called function, each for its own paths and  *)
(* for the path that has the call                                          *)
ExExpand(v) ==
  /\ exRtn' = [exRtn EXCEPT ![exRoot] = @ \cup ExFileCaller(v)]
  /\ exStack' = Append(ExRest(v), ExFrame(v.expr, <<ExTop.func, v>>))

ExTaking(v) == exPc = "check" /\ exStack # <<>> /\ v \in ExTop.todo

ExConstant(v) == /\ ExTaking(v) /\ v.expr \in ExConsts
                 /\ ExFile(v)
                 /\ UNCHANGED <<exDb, exDic, exTodo, exRoot, exPc>>

ExCall(v) == /\ ExTaking(v) /\ v.expr \in ExCallees /\ Len(exStack) < ExDepth
             /\ ExLoad(v.expr)
             /\ \/ ExFound(v.expr) /\ ExExpand(v) /\ UNCHANGED exPc
                \/ ~ExFound(v.expr) /\ ~ExSpins(v.expr) /\ ExFile(v) /\ UNCHANGED exPc
                \/ ExSpins(v.expr) /\ exPc' = "spin" /\ UNCHANGED <<exStack, exRtn>>
             /\ UNCHANGED <<exDb, exTodo, exRoot>>

(* The interpreter gives up on the recursion, and do_check with it         *)
ExTooDeep(v) == /\ ExTaking(v) /\ v.expr \in ExCallees /\ Len(exStack) = ExDepth
                /\ exPc' = "crash"
                /\ UNCHANGED <<exDb, exDic, exTodo, exRoot, exStack, exRtn>>

ExReturn == /\ exPc = "check" /\ exStack # <<>> /\ ExTop.todo = {}
            /\ exStack' = Front(exStack)
            /\ UNCHANGED <<exDb, exDic, exTodo, exRoot, exRtn, exPc>>

ExReport == /\ exPc = "check" /\ exStack = <<>> /\ exTodo = {}
            /\ exPc' = "done"
            /\ UNCHANGED <<exDb, exDic, exTodo, exRoot, exStack, exRtn>>

(* pathbin.py:51-52 again                                                  *)
ExSpin == exPc = "spin" /\ UNCHANGED exVars

ExStep == \/ \E f \in ExFuncs : ExTakeFunc(f)
          \/ \E v \in ExValues : ExConstant(v) \/ ExCall(v) \/ ExTooDeep(v)
          \/ ExReturn \/ ExReport \/ ExSpin
ExNext == (\E db \in ExDbs : ExStart(db)) \/ ExStep
ExSpec == ExInit /\ [][ExNext]_exVars /\ WF_exVars(ExStep)
-----------------------------------------------------------------------------
(* Reference, not in the code: the functions that expanding f comes to,    *)
(* and the values every path of theirs is filed under: for a function      *)
(* another one calls, every value as it is stands for the caller as well.  *)
ExHas(g) == exDb[g] \notin {ExNone, ExCut}
ExCalled(g) == IF ExHas(g) THEN {v.expr : v \in exDb[g]} \cap ExCallees ELSE {}
ExClosed(S) == \A g \in S : ExCalled(g) \subseteq S
ExReach(f) ==
  {g \in ExCallees : \A S \in SUBSET ExCallees : f \in S /\ ExClosed(S) => g \in S}
ExSorted(f) ==
  UNION {UNION {IF v.expr \in ExConsts \/ ~ExHas(v.expr)
                THEN {<<ExBare(v), <<g, v>>>>}
                ELSE {<<w, <<g, v>>>> : w \in exDb[v.expr]} : v \in exDb[g]} :
           g \in {h \in ExReach(f) : ExHas(h)}}
(* Functions each of which returns a call of the next, f first, one more   *)
(* than there are frames: in a circle or not                               *)
ExLongChain(f) ==
  \E c \in [1 .. ExDepth + 1 -> ExCallees] :
    c[1] = f /\ \A i \in 1 .. ExDepth : c[i + 1] \in ExCalled(c[i])

ExTypeOK == /\ \A f \in ExCallees : ExIsFile(exDb[f])
            /\ exDic \in [ExCallees -> {"absent", "loading", "error", "loaded"}]
            /\ exTodo \subseteq ExFuncs
            /\ exRoot \in ExFuncs \cup {"none"}
            /\ Len(exStack) <= ExDepth
            /\ exRtn \in [ExFuncs -> SUBSET (ExValues \X ExPaths)]
            /\ exPc \in {"idle", "check", "spin", "crash", "done"}

(* Every path the expansion comes to is sorted under each value it should  *)
(* be and no other, through any chain of calls, whatever was loaded before; *)
(* of a function it has come to the end of, every path is.                 *)
ExSortedRight ==
  exPc # "idle" =>
    \A f \in ExFuncs \ exTodo :
      /\ exRtn[f] \subseteq ExSorted(f)
      /\ exRoot # f \/ exPc = "done" => exRtn[f] = ExSorted(f)

(* The recursion, which the code does not bound, is too deep only for a    *)
(* function that begins a chain of as many calls as there are frames: not  *)
(* for one that calls many others, or whose callees were expanded before.  *)
ExDeepOnlyOnChains == exPc = "crash" => ExLongChain(exRoot)

(* The checker gets its answer when no chain of calls is too long and each *)
(* file it opens is missing or whole: nothing else ends it or makes the    *)
(* loop of __getitem__ wait for ever.                                      *)
ExGood == \A f \in ExFuncs : ~ExLongChain(f) /\ \A g \in ExReach(f) : exDb[g] # ExCut
ExAnswers == exPc = "check" /\ ExGood ~> exPc = "done"
=============================================================================
