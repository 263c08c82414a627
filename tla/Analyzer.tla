------------------------------ MODULE Analyzer ------------------------------
(***************************************************************************)
(* The command lines of the analyzer (ctrl.py, parser.py, ckapi.py,        *)
(* ckrtn.py): a command is a process of its own that runs one component    *)
(* and ends, and only its files outlive it. The components keep their own  *)
(* specifications; here the user invokes any one of them on any input.     *)
(***************************************************************************)
EXTENDS SymbolRenaming, FssChunks, LockChecker, ReturnExpansion, RangeSets

VARIABLE anCommand

anVars == <<anCommand, srVars, fcVars, lkVars, exVars, rsVars>>

AnInit == /\ anCommand = "none"
          /\ SrInit /\ FcInit /\ LkInit /\ ExInit /\ RsInit

AnInvoke(cmd) == anCommand = "none" /\ anCommand' = cmd

(* cmd_merge                                                               *)
AnMerge == /\ AnInvoke("merge")
           /\ \E t \in [SrFiles -> SUBSET SrSymbols], x \in SrForces : SrStart(t, x)
           /\ UNCHANGED <<fcVars, lkVars, exVars, rsVars>>

(* The parsing half of cmd_pickle_all; Pickler has the rest                *)
AnParse == /\ AnInvoke("parse")
           /\ \E log \in FcLogs, unit \in FcUnits : FcBegin(log, unit)
           /\ UNCHANGED <<srVars, lkVars, exVars, rsVars>>

(* cmd_analyze_lock                                                        *)
AnLock == /\ AnInvoke("lock")
          /\ LkStart
          /\ UNCHANGED <<srVars, fcVars, exVars, rsVars>>

(* ckapi.py                                                                *)
AnApi == /\ AnInvoke("api")
         /\ \E db \in ExDbs : ExStart(db)
         /\ UNCHANGED <<srVars, fcVars, lkVars, rsVars>>

(* ckrtn.py, which averages vectors of ranges and compares with them       *)
AnReturns == /\ AnInvoke("returns")
             /\ RsCalls
             /\ UNCHANGED <<srVars, fcVars, lkVars, exVars>>

AnGoOn == /\ anCommand = "returns"
          /\ RsCalls
          /\ UNCHANGED <<anCommand, srVars, fcVars, lkVars, exVars>>

AnApiStep == ExStep /\ UNCHANGED <<anCommand, srVars, fcVars, lkVars, rsVars>>
AnStep == \/ SrStep /\ UNCHANGED <<anCommand, fcVars, lkVars, exVars, rsVars>>
          \/ FcStep /\ UNCHANGED <<anCommand, srVars, lkVars, exVars, rsVars>>
          \/ LkStep /\ UNCHANGED <<anCommand, srVars, fcVars, exVars, rsVars>>
          \/ AnApiStep
          \/ RsStep /\ UNCHANGED <<anCommand, srVars, fcVars, lkVars, exVars>>

(* The process has ended, by itself or by an exception                     *)
AnExit == /\ \/ srPc = "done" \/ fcPc = "done" \/ rsPc = "done"
             \/ lkPc \in {"done", "crash"} \/ exPc \in {"done", "crash"}
          /\ UNCHANGED anVars

AnNext == AnMerge \/ AnParse \/ AnLock \/ AnApi \/ AnReturns \/ AnGoOn \/ AnStep \/ AnExit
(* A command that runs goes on; only the progress of ckapi.py is asked for *)
AnSpec == AnInit /\ [][AnNext]_anVars /\ WF_exVars(AnApiStep)
-----------------------------------------------------------------------------
(* The types of every component's variables; only the component of the     *)
(* command is at work.                                                     *)
AnTypeOK ==
  /\ SrTypeOK /\ FcTypeOK /\ LkTypeOK /\ ExTypeOK /\ RsTypeOK
  /\ anCommand \in {"none", "merge", "parse", "lock", "api", "returns"}
  /\ srPc # "idle" => anCommand = "merge"
  /\ fcPc # "idle" => anCommand = "parse"
  /\ lkPc # "idle" => anCommand = "lock"
  /\ exPc # "idle" => anCommand = "api"
  /\ rsPc # "idle" => anCommand = "returns"
=============================================================================
