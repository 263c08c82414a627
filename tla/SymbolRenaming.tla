--------------------------- MODULE SymbolRenaming ---------------------------
(***************************************************************************)
(* merger.py, prepare_rewritting: the files of a file system are merged    *)
(* into one, so the static symbols two of them share are renamed. A file   *)
(* is looked at once, in the order of a dictionary, and a symbol it shares *)
(* with another one's current table gets the file's name as a suffix.      *)
(***************************************************************************)
EXTENDS Sequences, FiniteSets, Functions

CONSTANTS SrFiles,     \* the files of the target
          SrSymbols,   \* names static symbols have in the files
          SrBases,     \* possible file |-> base name, "." and "-" replaced
          SrForces     \* possible FS_FORCE_REWRITE entries of the target

ASSUME SrBasesAssumption == SrBases # {}

VARIABLES srOrig,      \* file -> its static symbols, as StaticDecl finds them
          srBase,      \* file -> base name
          srForce,     \* the forced symbols
          srTables,    \* static_symbols
          srPlan,      \* rewriting_plan: file -> symbols to rename
          srTodo,      \* files the loop has not come to
          srPc

srVars == <<srOrig, srBase, srForce, srTables, srPlan, srTodo, srPc>>

(* A name is a sequence of parts; _to_canonical of lines 198-200           *)
SrCanonical(f, sym) == Append(sym, srBase[f])

SrNothing == [f \in SrFiles |-> {}]
SrInit == /\ srOrig = SrNothing /\ srTables = SrNothing /\ srPlan = SrNothing
          /\ srBase = CHOOSE b \in SrBases : TRUE
          /\ srForce = {}
          /\ srTodo = {}
          /\ srPc = "idle"

SrStart(tables, force) == /\ srPc = "idle"
                          /\ srOrig' = tables /\ srTables' = tables
                          /\ srForce' = force
                          /\ srBase' \in SrBases
                          /\ srPlan' = SrNothing
                          /\ srTodo' = SrFiles
                          /\ srPc' = "check"

(* Lines 215-221: the symbols of f another table has as it is now          *)
SrCollisions(f) == {sym \in srTables[f] : \E g \in SrFiles \ {f} : sym \in srTables[g]}

(* mutant: the table of the file keeps the old names                       *)
SrCheck_noupdate(f) ==
  /\ srPc = "check" /\ f \in srTodo
  /\ srPlan' = [srPlan EXCEPT ![f] = SrCollisions(f)]
  /\ srTodo' = srTodo \ {f}
  /\ UNCHANGED <<srOrig, srBase, srForce, srTables, srPc>>

(* Lines 213-226                                                           *)
SrCheck(f) ==
  /\ srPc = "check" /\ f \in srTodo
  /\ srPlan' = [srPlan EXCEPT ![f] = SrCollisions(f)]
  /\ srTables' = [srTables EXCEPT ![f] =
                    (@ \ SrCollisions(f)) \cup {SrCanonical(f, sym) : sym \in SrCollisions(f)}]
  /\ srTodo' = srTodo \ {f}
  /\ UNCHANGED <<srOrig, srBase, srForce, srPc>>

(* mutant: the forced symbols take the place of the plan                   *)
SrManual_assign == /\ srPc = "check" /\ srTodo = {}
                   /\ srPlan' = [f \in SrFiles |-> srForce]
                   /\ srPc' = "done"
                   /\ UNCHANGED <<srOrig, srBase, srForce, srTables, srTodo>>

(* Lines 228-234: the forced symbols are renamed in every file             *)
SrManual == /\ srPc = "check" /\ srTodo = {}
            /\ srPlan' = [f \in SrFiles |-> srPlan[f] \cup srForce]
            /\ srPc' = "done"
            /\ UNCHANGED <<srOrig, srBase, srForce, srTables, srTodo>>

SrStep == (\E f \in SrFiles : SrCheck(f)) \/ SrManual
SrNext == (\E t \in [SrFiles -> SUBSET SrSymbols], x \in SrForces : SrStart(t, x)) \/ SrStep
SrSpec == SrInit /\ [][SrNext]_srVars
-----------------------------------------------------------------------------
(* The name a symbol of f has in the merged file                           *)
SrMerged(f, sym) == IF sym \in srPlan[f] THEN SrCanonical(f, sym) ELSE sym
SrNames(f) == {SrMerged(f, sym) : sym \in srOrig[f]}

(* The suffixed names are new ones: no two files have the same base name   *)
(* and no file has a symbol that reads like a renamed one. Not in the code.*)
SrFresh ==
  \A f, g \in SrFiles : \A s \in SrSymbols :
     /\ \A t \in SrSymbols : SrCanonical(f, s) = SrCanonical(g, t) => f = g /\ s = t
     /\ SrCanonical(f, s) \notin srOrig[g]

SrTypeOK == /\ srOrig \in [SrFiles -> SUBSET SrSymbols]
            /\ srBase \in SrBases
            /\ srForce \in SrForces \cup {{}}
            /\ DOMAIN srTables = SrFiles
            /\ srPlan \in [SrFiles -> SUBSET (SrSymbols \cup srForce)]
            /\ srTodo \subseteq SrFiles
            /\ srPc \in {"idle", "check", "done"}

(* In the merged file every static name has one definition, although a     *)
(* file is compared only once, with tables that are renamed before and     *)
(* after it: as far as the suffixed names are new.                         *)
SrOneDefinition ==
  srPc = "done" /\ SrFresh =>
    \A f, g \in SrFiles : f # g => SrNames(f) \cap SrNames(g) = {}

(* The renaming is no larger than it must be (the comment of line 223):    *)
(* of the files that share a symbol, one keeps its name.                   *)
SrOneKeeps ==
  srPc = "done" /\ SrFresh =>
    \A sym \in (UNION Range(srOrig)) \ srForce :
      Cardinality({f \in SrFiles : sym \in srOrig[f] \ srPlan[f]}) = 1
=============================================================================
