-------------------------- MODULE SplitCommitProofs --------------------------
(***************************************************************************)
(* Proofs about SplitCommit, for any histories and trees, any functions    *)
(* and change units, and any number of crashes.                            *)
(***************************************************************************)
EXTENDS SplitCommit, FiniteSetTheorems, SequenceTheorems, TLAPS

(***************************************************************************)
(* What is stored. The ranges in memory are those of a file, so they are   *)
(* of another commit only when the file is; texts are cut out after a      *)
(* checkout that has succeeded, in the ranges in memory. Without the part  *)
(* about memory the one about texts is not inductive.                      *)
(***************************************************************************)
Of(x, c) == x = c \/ c \in astray
MemoryInv ==
  pc \notin {"next", "stopped"} =>
    /\ \A f \in DOMAIN mm0 : Of(mm0[f].src, cld)
    /\ \A f \in DOMAIN mm1 : Of(mm1[f].src, prt)
Right == WrongOnlyAstray /\ MemoryInv

TextsRight(dir) == \A x \in DOMAIN dir : dir[x].src = x[1] /\ Of(dir[x].range, x[1])

LEMMA RightParts ==
  WrongOnlyAstray <=> /\ \A x \in DOMAIN cpgs : Of(cpgs[x].src, x[1])
                      /\ \A x \in DOMAIN corpus : Of(corpus[x].src, x[1])
                      /\ TextsRight(old) /\ TextsRight(new)
  BY DEF WrongOnlyAstray, Of, TextsRight

(* A failed checkout makes one more commit an exception.                   *)
LEMMA GraphsRight ==
  ASSUME NEW c, \A x \in DOMAIN cpgs : Of(cpgs[x].src, x[1]), generateCPGs(c)
  PROVE  /\ astray \subseteq astray' /\ astray' \subseteq astray \cup {c}
         /\ \A x \in DOMAIN cpgs' : Of(cpgs[x].src, x[1])'
  <1>1. astray' = IF wt' = c THEN astray ELSE astray \cup {c}
    BY DEF generateCPGs
  <1>2. PICK parsed \in SUBSET {f \in pair.files \cap DOMAIN Tree[wt'] : ~HasCPG(c, f)} :
          \E part \in SUBSET parsed :
            cpgs' = [x \in DOMAIN cpgs \cup {<<c, f>> : f \in parsed} |->
                         IF x \in DOMAIN cpgs THEN cpgs[x]
                         ELSE [src |-> wt', whole |-> x[2] \notin part]]
    BY DEF generateCPGs
  <1>3. PICK part \in SUBSET parsed :
          cpgs' = [x \in DOMAIN cpgs \cup {<<c, f>> : f \in parsed} |->
                     IF x \in DOMAIN cpgs THEN cpgs[x]
                     ELSE [src |-> wt', whole |-> x[2] \notin part]]
    BY <1>2
  <1>4. ASSUME NEW x \in DOMAIN cpgs' PROVE cpgs'[x].src = x[1] \/ x[1] \in astray'
    <2>1. CASE x \in DOMAIN cpgs
      BY <1>1, <1>3, <2>1 DEF Of
    <2>2. CASE x \notin DOMAIN cpgs
      <3>1. x[1] = c /\ cpgs'[x].src = wt'
        BY <1>3, <1>4, <2>2
      <3> QED
        BY <1>1, <3>1
    <2> QED
      BY <2>1, <2>2
  <1> QED
    BY <1>1, <1>4 DEF Of

(* The ranges of a graph are its own.                                      *)
LEMMA RangesRight ==
  ASSUME NEW cs, NEW fs, Ranges(cs, fs), UNCHANGED astray,
         \A x \in DOMAIN cpgs : Of(cpgs[x].src, x[1]),
         \A x \in DOMAIN corpus : Of(corpus[x].src, x[1])
  PROVE  \A x \in DOMAIN corpus' : Of(corpus[x].src, x[1])'
  <1>1. PICK done \in SUBSET {x \in (cs \X fs) \cap DOMAIN cpgs : x \notin DOMAIN corpus} :
          \E out \in [done -> UNION {RangeFiles(x) : x \in done}] :
            /\ \A x \in done : out[x] \in RangeFiles(x)
            /\ corpus' = [x \in DOMAIN corpus \cup done |->
                            IF x \in DOMAIN corpus THEN corpus[x] ELSE out[x]]
    BY DEF Ranges
  <1>2. PICK out \in [done -> UNION {RangeFiles(x) : x \in done}] :
            /\ \A x \in done : out[x] \in RangeFiles(x)
            /\ corpus' = [x \in DOMAIN corpus \cup done |->
                            IF x \in DOMAIN corpus THEN corpus[x] ELSE out[x]]
    BY <1>1
  <1>3. ASSUME NEW x \in done PROVE out[x].src = cpgs[x].src /\ x \in DOMAIN cpgs
    <2>1. out[x] \in RangeFiles(x)
      BY <1>2
    <2>2. ASSUME NEW y \in RangeFiles(x) PROVE y.src = cpgs[x].src
      BY <2>2 DEF RangeFiles
    <2> QED
      BY <2>1, <2>2
  <1>4. ASSUME NEW x \in DOMAIN corpus' PROVE corpus'[x].src = x[1] \/ x[1] \in astray'
    BY <1>2, <1>3, <1>4 DEF Of
  <1> QED
    BY <1>4 DEF Of

(* One more try leaves the ranges in memory or adds those of the file.     *)
LEMMA RetryRight ==
  ASSUME NEW m, NEW mNext, NEW c, NEW f, NEW goOn, Retry(m, mNext, c, f, goOn),
         UNCHANGED astray, \A g \in DOMAIN m : Of(m[g].src, c),
         \A x \in DOMAIN corpus' : Of(corpus[x].src, x[1])'
  PROVE  \A g \in DOMAIN mNext : mNext[g].src = c \/ c \in astray'
  <1>1. CASE mNext = m
    BY <1>1 DEF Of
  <1>2. CASE <<c, f>> \in DOMAIN corpus' /\ mNext = Put(m, f, corpus'[<<c, f>>])
    <2>1. corpus'[<<c, f>>].src = c \/ c \in astray'
      <3>1. <<c, f>>[1] = c
        OBVIOUS
      <3> QED
        BY <1>2, <3>1 DEF Of
    <2> QED
      BY <1>2, <2>1 DEF Put, Of
  <1> QED
    BY <1>1, <1>2 DEF Retry

(* A text that is stored is cut out of its commit, in the ranges given.    *)
LEMMA CutRight ==
  ASSUME NEW dir, NEW c, NEW m, NEW dest, Cut(dir, c, m, dest) \/ CutError(dir, c, m, dest),
         TextsRight(dir), Of(m.src, c)
  PROVE  TextsRight(dest)
  <1>1. CASE dest = dir
    BY <1>1
  <1>2. ASSUME NEW g, NEW b, wt' = c, dest = Put(dir, <<c, l, g>>, Text(m, b))
        PROVE  TextsRight(dest)
    <2>1. <<c, l, g>>[1] = c /\ Text(m, b).src = c /\ Text(m, b).range = m.src
      BY <1>2 DEF Text
    <2> QED
      BY <1>2, <2>1 DEF TextsRight, Put
  <1> QED
    BY <1>1, <1>2 DEF Cut, CutError

LEMMA RightStep ==
  ASSUME Right, [Next]_vars
  PROVE  Right'
  <1> USE DEF Right
  <1>0. /\ \A x \in DOMAIN cpgs : Of(cpgs[x].src, x[1])
        /\ \A x \in DOMAIN corpus : Of(corpus[x].src, x[1])
        /\ TextsRight(old) /\ TextsRight(new)
    BY RightParts
  <1>1. ASSUME UNCHANGED <<disk, astray>> PROVE WrongOnlyAstray'
    BY <1>1 DEF WrongOnlyAstray, disk
  <1>2. ASSUME UNCHANGED <<prt2cld, k, mm0, mm1, astray>>,
               pc' \notin {"next", "stopped"} => pc \notin {"next", "stopped"}
        PROVE  MemoryInv'
    BY <1>2 DEF MemoryInv, Of, cld, prt, pair
  <1>3. CASE SkipMerge \/ End \/ GitError \/ KeyError \/ EndFile \/ NoData \/ ValueError
             \/ CheckoutParent \/ CompileOk \/ CompileError \/ SE \/ EndCommit \/ Restart
             \/ UNCHANGED vars
    <2>1. UNCHANGED <<disk, astray>>
      BY <1>3 DEF SkipMerge, End, GitError, KeyError, EndFile, NoData, ValueError,
                  CheckoutParent, CompileOk, CompileError, SE, EndCommit, Restart, vars, tools
    <2>2. \/ pc' \in {"next", "stopped"}
          \/ /\ UNCHANGED <<prt2cld, k, mm0, mm1, astray>>
             /\ pc \notin {"next", "stopped"}
      BY <1>3 DEF SkipMerge, End, GitError, KeyError, EndFile, NoData, ValueError,
                  CheckoutParent, CompileOk, CompileError, SE, EndCommit, Restart, vars, tools,
                  driver, commit
    <2> QED
      BY <1>1, <1>2, <2>1, <2>2 DEF MemoryInv
  <1>4. CASE Begin
    <2>1. UNCHANGED <<disk, astray>> /\ mm0' = <<>> /\ mm1' = <<>>
      BY <1>4 DEF Begin, tools
    <2> QED
      BY <1>1, <2>1 DEF MemoryInv
  <1>5. CASE CPGs
    <2>1. PICK c : c \in {prt, cld} /\ generateCPGs(c)
      BY <1>5 DEF CPGs
    <2>2. UNCHANGED <<prt2cld, k, mm0, mm1, corpus, old, new>> /\ pc \notin {"next", "stopped"}
      BY <1>5 DEF CPGs, driver, commit
    <2>3. astray \subseteq astray' /\ \A x \in DOMAIN cpgs' : Of(cpgs[x].src, x[1])'
      BY <1>0, <2>1, GraphsRight
    <2>4. \A x \in DOMAIN corpus' : Of(corpus[x].src, x[1])'
      BY <1>0, <2>2, <2>3 DEF Of
    <2>5. TextsRight(old)' /\ TextsRight(new)'
      BY <1>0, <2>2, <2>3 DEF Of, TextsRight
    <2>6. MemoryInv'
      BY <2>2, <2>3 DEF MemoryInv, Of, cld, prt, pair
    <2> QED
      BY <2>3, <2>4, <2>5, <2>6 DEF WrongOnlyAstray, Of, TextsRight
  <1>6. ASSUME NEW cs, NEW fs, Ranges(cs, fs), UNCHANGED <<cpgs, old, new, astray>>
        PROVE  WrongOnlyAstray' /\ \A x \in DOMAIN corpus' : Of(corpus[x].src, x[1])'
    <2>1. \A x \in DOMAIN corpus' : Of(corpus[x].src, x[1])'
      BY <1>0, <1>6, RangesRight
    <2>2. TextsRight(old)' /\ TextsRight(new)' /\ \A x \in DOMAIN cpgs' : Of(cpgs[x].src, x[1])'
      BY <1>0, <1>6 DEF Of, TextsRight
    <2> QED
      BY <2>1, <2>2 DEF WrongOnlyAstray, Of, TextsRight
  <1>7. CASE FindFunctions
    <2>1. WrongOnlyAstray' /\ \A x \in DOMAIN corpus' : Of(corpus[x].src, x[1])'
      BY <1>6, <1>7 DEF FindFunctions
    <2>2. /\ mm0' = [f \in Loaded(cld) |-> corpus'[<<cld, f>>]]
          /\ mm1' = [f \in Loaded(prt) |-> corpus'[<<prt, f>>]]
          /\ UNCHANGED <<prt2cld, k>>
      BY <1>7 DEF FindFunctions, driver
    <2>3. ASSUME NEW c, NEW f \in Loaded(c)
          PROVE  corpus'[<<c, f>>].src = c \/ c \in astray'
      <3>1. <<c, f>>[1] = c /\ <<c, f>> \in DOMAIN corpus'
        BY <2>3 DEF Loaded
      <3> QED
        BY <2>1, <3>1 DEF Of
    <2> QED
      BY <2>1, <2>2, <2>3 DEF MemoryInv, Of, cld, prt, pair
  <1>8. CASE LoadError
    BY <1>6, <1>8 DEF LoadError, MemoryInv
  <1>9. ASSUME NEW f \in File, BeginFile(f) PROVE Right'
    <2>1. /\ Retry(mm0, mm0', cld, f, "retry") /\ UNCHANGED <<prt2cld, k, mm1, astray>>
          /\ pc = "files" /\ UNCHANGED <<cpgs, old, new>>
      BY <1>9 DEF BeginFile, driver
    <2>2. WrongOnlyAstray' /\ \A x \in DOMAIN corpus' : Of(corpus[x].src, x[1])'
      BY <1>6, <2>1 DEF Retry
    <2>3. \A g \in DOMAIN mm0 : Of(mm0[g].src, cld)
      BY <2>1 DEF MemoryInv
    <2>4. \A g \in DOMAIN mm0' : mm0'[g].src = cld \/ cld \in astray'
      BY <2>1, <2>2, <2>3, RetryRight
    <2> QED
      BY <2>1, <2>2, <2>4 DEF MemoryInv, Of, cld, prt, pair
  <1>10. CASE RetryParent
    <2>1. /\ Retry(mm1, mm1', prt, l, "old") /\ UNCHANGED <<prt2cld, k, mm0, astray>>
          /\ pc = "retry" /\ UNCHANGED <<cpgs, old, new>>
      BY <1>10 DEF RetryParent, driver
    <2>2. WrongOnlyAstray' /\ \A x \in DOMAIN corpus' : Of(corpus[x].src, x[1])'
      BY <1>6, <2>1 DEF Retry
    <2>3. \A g \in DOMAIN mm1 : Of(mm1[g].src, prt)
      BY <2>1 DEF MemoryInv
    <2>4. \A g \in DOMAIN mm1' : mm1'[g].src = prt \/ prt \in astray'
      BY <2>1, <2>2, <2>3, RetryRight
    <2> QED
      BY <2>1, <2>2, <2>4 DEF MemoryInv, Of, cld, prt, pair
  <1>11. CASE CreateOld
    <2>1. /\ Cut(old, prt, mm1[l], old') \/ CutError(old, prt, mm1[l], old')
          /\ pc = "old" /\ l \in DOMAIN mm1
          /\ UNCHANGED <<prt2cld, k, mm0, mm1, astray, cpgs, corpus, new>>
      BY <1>11 DEF CreateOld, driver, commit, tools
    <2>2. TextsRight(old')
      BY <1>0, <2>1, CutRight DEF MemoryInv
    <2> QED
      BY <1>0, <1>2, <2>1, <2>2 DEF WrongOnlyAstray, Of, TextsRight
  <1>12. CASE CreateNew
    <2>1. /\ Cut(new, cld, mm0[l], new') \/ CutError(new, cld, mm0[l], new')
          /\ pc = "new" /\ l \in DOMAIN mm0
          /\ UNCHANGED <<prt2cld, k, mm0, mm1, astray, cpgs, corpus, old>>
      BY <1>12 DEF CreateNew, driver, commit, tools
    <2>2. TextsRight(new')
      BY <1>0, <2>1, CutRight DEF MemoryInv
    <2> QED
      BY <1>0, <1>2, <2>1, <2>2 DEF WrongOnlyAstray, Of, TextsRight
  <1>13. ASSUME NEW g \in Func, BeginFunc(g) PROVE Right'
    BY <1>1, <1>2, <1>13 DEF BeginFunc, driver, commit, tools
  <1>14. CASE Analyse
    <2>1. UNCHANGED <<prt2cld, k, mm0, mm1, astray, cpgs, corpus, old, new>>
          /\ pc \notin {"next", "stopped"}
      BY <1>14 DEF Analyse, driver, commit
    <2> QED
      BY <1>2, <2>1 DEF WrongOnlyAstray
  <1>15. ASSUME NEW n, NEW v, MakeUnits(n, v) PROVE Right'
    BY <1>1, <1>2, <1>15 DEF MakeUnits, driver, commit, tools
  <1> QED
    BY <1>3, <1>4, <1>5, <1>7, <1>8, <1>9, <1>10, <1>11, <1>12, <1>13, <1>14, <1>15
    DEF Next, Step

(* Whatever fails and whenever the driver dies, only what is kept of a     *)
(* commit generateCPGs could not check out is of another commit.           *)
THEOREM OnlyAstrayIsWrong == Spec => []WrongOnlyAstray
  <1>1. Init => Right
    BY DEF Init, Memory, Right, WrongOnlyAstray, MemoryInv
  <1>2. Right => WrongOnlyAstray
    BY DEF Right
  <1> QED
    BY <1>1, <1>2, RightStep, PTL DEF Spec

(***************************************************************************)
(* Where the driver is. pair is the current pair of the history, and what  *)
(* it works on lies in the pair's files and their functions.               *)
(***************************************************************************)
InFile == {"funcs", "flow_o", "flow_p", "units", "checkout", "compile", "se"}
InFunc == {"flow_o", "flow_p", "units", "checkout", "compile", "se"}
WhereInv ==
  /\ pc \in {"next", "cpg_prt", "cpg_cld", "ranges", "files", "retry", "old", "new", "funcs",
             "flow_o", "flow_p", "units", "checkout", "compile", "se", "stopped"}
  /\ prt2cld \in Histories /\ k \in 1 .. Len(prt2cld) + 1
  /\ wt \in Commit /\ astray \subseteq Commit
  /\ pc \notin {"next", "stopped"} =>
       /\ k \in DOMAIN prt2cld /\ ~pair.merge
       /\ DOMAIN mm0 \cup DOMAIN mm1 \subseteq pair.files
       /\ files \subseteq DOMAIN file2Func /\ DOMAIN file2Func \subseteq pair.files
  /\ pc = "next" => files = {}
  /\ pc \in {"retry", "old", "new"} \cup InFile => l \in File \cap pair.files
  /\ pc = "new" => l \in DOMAIN mm1
  /\ pc \in InFile => l \in DOMAIN mm0 \cap DOMAIN mm1 /\ updatedFunc \subseteq file2Func[l]
  /\ pc \in InFunc => func \in file2Func[l]

LEMMA PairOf ==
  ASSUME prt2cld \in Histories, k \in DOMAIN prt2cld
  PROVE  /\ prt \in Commit /\ cld \in Commit
         /\ Len(prt2cld) \in Nat /\ DOMAIN prt2cld = 1 .. Len(prt2cld)
  BY HistoriesAssumption DEF Pair, prt, cld, pair

LEMMA InitWhere == Init => WhereInv
  <1>1. SUFFICES ASSUME Init PROVE WhereInv
    OBVIOUS
  <1>2. Len(prt2cld) \in Nat
    BY <1>1, HistoriesAssumption DEF Init
  <1> QED
    BY <1>1, <1>2 DEF Init, WhereInv, Memory, InFile, InFunc

LEMMA RetryWhere ==
  ASSUME NEW m, NEW mNext, NEW c, NEW f, NEW goOn, Retry(m, mNext, c, f, goOn)
  PROVE  /\ DOMAIN mNext \subseteq DOMAIN m \cup {f}
         /\ pc' \in {"files", "stopped", goOn}
  <1>1. ASSUME NEW v PROVE DOMAIN Put(m, f, v) = DOMAIN m \cup {f}
    BY DEF Put
  <1> QED
    BY <1>1 DEF Retry

LEMMA CutWhere ==
  ASSUME NEW dir, NEW c, NEW m, NEW dest, Cut(dir, c, m, dest) \/ CutError(dir, c, m, dest)
  PROVE  wt' \in {wt, c}
  BY DEF Cut, CutError

LEMMA StepWhere == ASSUME WhereInv, [Next]_vars PROVE WhereInv'
  <1> USE DEF WhereInv, InFile, InFunc
  <1>1. CASE SkipMerge
    BY <1>1, PairOf DEF SkipMerge, Checkout, commit, work, tools, pair, prt
  <1>2. CASE Begin
    BY <1>2, PairOf DEF Begin, Checkout, driver, work, tools, pair, prt
  <1>3. CASE End \/ GitError \/ KeyError \/ ValueError
    <2>1. pc' = "stopped" /\ UNCHANGED <<prt2cld, k, wt, astray>>
      BY <1>3 DEF End, GitError, KeyError, ValueError, driver, tools
    <2> QED
      BY <2>1
  <1>4. CASE CPGs
    <2>1. k \in DOMAIN prt2cld /\ prt \in Commit /\ cld \in Commit
      BY <1>4, PairOf DEF CPGs
    <2>2. ASSUME NEW c \in Commit, generateCPGs(c) PROVE wt' \in Commit /\ astray' \subseteq Commit
      BY <2>2 DEF generateCPGs
    <2>3. wt' \in Commit /\ astray' \subseteq Commit
      BY <1>4, <2>1, <2>2 DEF CPGs
    <2> QED
      BY <1>4, <2>3 DEF CPGs, driver, commit, work, pair, prt
  <1>5. CASE FindFunctions
    <2>1. Loaded(cld) \subseteq pair.files /\ Loaded(prt) \subseteq pair.files
      BY DEF Loaded
    <2>2. DOMAIN mm0' = Loaded(cld) /\ DOMAIN mm1' = Loaded(prt) /\ DOMAIN file2Func' = files'
      BY <1>5 DEF FindFunctions
    <2>3. files' \subseteq pair.files
      BY <1>5, <2>1 DEF FindFunctions
    <2>4. /\ pc = "ranges" /\ pc' = "files"
          /\ UNCHANGED <<prt2cld, k, wt, astray>>
      BY <1>5 DEF FindFunctions, driver
    <2> QED
      BY <2>1, <2>2, <2>3, <2>4 DEF pair, prt
  <1>6. CASE LoadError
    BY <1>6 DEF LoadError, driver
  <1>7. ASSUME NEW f \in File, BeginFile(f) PROVE WhereInv'
    <2>1. /\ pc = "files" /\ f \in files /\ files' = files \ {f} /\ l' = f
          /\ UNCHANGED <<prt2cld, k, mm1, file2Func, wt, astray>>
      BY <1>7 DEF BeginFile, driver
    <2>2. DOMAIN mm0' \subseteq DOMAIN mm0 \cup {f} /\ pc' \in {"files", "stopped", "retry"}
      BY <1>7, RetryWhere DEF BeginFile
    <2> QED
      BY <1>7, <2>1, <2>2 DEF pair, prt
  <1>8. CASE RetryParent
    <2>1. /\ pc = "retry"
          /\ UNCHANGED <<prt2cld, k, mm0, file2Func, files, l, wt, astray>>
      BY <1>8 DEF RetryParent, driver, work
    <2>2. DOMAIN mm1' \subseteq DOMAIN mm1 \cup {l} /\ pc' \in {"files", "stopped", "old"}
      BY <1>8, RetryWhere DEF RetryParent
    <2> QED
      BY <2>1, <2>2 DEF pair, prt
  <1>9. CASE CreateOld
    <2>1. /\ pc = "old" /\ l \in DOMAIN mm1 /\ pc' \in {"new", "stopped"}
          /\ UNCHANGED <<prt2cld, k, mm0, mm1, file2Func, files, l, astray>>
      BY <1>9 DEF CreateOld, driver, commit, work, tools
    <2>2. wt' \in Commit
      BY <1>9, <2>1, PairOf, CutWhere DEF CreateOld
    <2> QED
      BY <2>1, <2>2 DEF pair, prt
  <1>10. CASE CreateNew
    <2>1. /\ pc = "new" /\ l \in DOMAIN mm0
          /\ pc' = "stopped" \/ (pc' = "funcs" /\ updatedFunc' = file2Func[l])
          /\ UNCHANGED <<prt2cld, k, mm0, mm1, file2Func, files, l, astray>>
      BY <1>10 DEF CreateNew, driver, commit, tools
    <2>2. wt' \in Commit
      BY <1>10, <2>1, PairOf, CutWhere DEF CreateNew
    <2> QED
      BY <2>1, <2>2 DEF pair, prt
  <1>11. ASSUME NEW g \in Func, BeginFunc(g) PROVE WhereInv'
    BY <1>11 DEF BeginFunc, driver, commit, tools, pair, prt
  <1>12. CASE EndFile \/ NoData \/ CompileError \/ SE
    <2>1. /\ pc \in InFile /\ pc' \in {"files", "funcs", "se"}
          /\ pc' = "se" => pc \in InFunc
          /\ UNCHANGED <<prt2cld, k, mm0, mm1, file2Func, files, l, updatedFunc, func,
                         wt, astray>>
      BY <1>12 DEF EndFile, NoData, CompileError, SE, driver, commit, work, tools
    <2> QED
      BY <2>1 DEF pair, prt
  <1>13. CASE Analyse
    <2>1. pc' \in {"flow_p", "units"} /\ pc \in {"flow_o", "flow_p"}
      BY <1>13 DEF Analyse
    <2> QED
      BY <1>13, <2>1 DEF Analyse, driver, commit, work, pair, prt
  <1>14. ASSUME NEW n, NEW v, MakeUnits(n, v) PROVE WhereInv'
    BY <1>14 DEF MakeUnits, driver, commit, tools, pair, prt
  <1>15. CASE CheckoutParent
    BY <1>15, PairOf DEF CheckoutParent, driver, commit, work, tools, pair, prt
  <1>16. CASE CompileOk
    BY <1>16 DEF CompileOk, driver, commit, tools, pair, prt
  <1>17. CASE EndCommit
    <2>1. Len(prt2cld) \in Nat /\ DOMAIN prt2cld = 1 .. Len(prt2cld)
      BY HistoriesAssumption
    <2>2. k' \in 1 .. Len(prt2cld) + 1
      BY <1>17, <2>1 DEF EndCommit
    <2> QED
      BY <1>17, <2>2 DEF EndCommit, commit, work, tools
  <1>18. CASE Restart
    <2>1. Len(prt2cld) \in Nat /\ DOMAIN prt2cld = 1 .. Len(prt2cld)
      BY HistoriesAssumption
    <2>2. k' \in 1 .. Len(prt2cld) + 1
      BY <1>18, <2>1 DEF Restart
    <2> QED
      BY <1>18, <2>2 DEF Restart, tools
  <1>19. CASE UNCHANGED vars
    BY <1>19 DEF vars, driver, commit, work, tools, pair, prt
  <1> QED
    BY <1>1, <1>2, <1>3, <1>4, <1>5, <1>6, <1>7, <1>8, <1>9, <1>10, <1>11, <1>12, <1>13,
       <1>14, <1>15, <1>16, <1>17, <1>18, <1>19 DEF Next, Step

LEMMA Where == Spec => []WhereInv
  BY InitWhere, StepWhere, PTL DEF Spec

(***************************************************************************)
(* The functions that break off. One more does only when a driver stops,   *)
(* and a stopped driver does nothing until it is started again.            *)
(***************************************************************************)
PartInv ==
  /\ IsFiniteSet(Part(old)) /\ IsFiniteSet(Part(new)) /\ crashes \in Nat
  /\ OnePartPerCrash

LEMMA PartCut ==
  ASSUME NEW dir, NEW c, NEW m, NEW dest, Cut(dir, c, m, dest), IsFiniteSet(Part(dir))
  PROVE  IsFiniteSet(Part(dest)) /\ Cardinality(Part(dest)) <= Cardinality(Part(dir))
  <1>1. ASSUME NEW x PROVE Part(Put(dir, x, Text(m, TRUE))) \subseteq Part(dir)
    BY DEF Part, Put, Text
  <1>2. Part(dest) \subseteq Part(dir)
    BY <1>1 DEF Cut
  <1> QED
    BY <1>2, FS_Subset

LEMMA PartError ==
  ASSUME NEW dir, NEW c, NEW m, NEW dest, CutError(dir, c, m, dest), IsFiniteSet(Part(dir))
  PROVE  IsFiniteSet(Part(dest)) /\ Cardinality(Part(dest)) <= Cardinality(Part(dir)) + 1
  <1>1. ASSUME NEW x PROVE Part(Put(dir, x, Text(m, FALSE))) \subseteq Part(dir) \cup {x}
    BY DEF Part, Put, Text
  <1>2. PICK x : Part(dest) \subseteq Part(dir) \cup {x}
    BY <1>1 DEF CutError
  <1>3. IsFiniteSet(Part(dir) \cup {x}) /\ Cardinality(Part(dir)) \in Nat
        /\ Cardinality(Part(dir) \cup {x}) <= Cardinality(Part(dir)) + 1
    <2>1. Cardinality(Part(dir)) \in Nat
      BY FS_CardinalityType
    <2>2. CASE x \in Part(dir)
      <3>1. Part(dir) \cup {x} = Part(dir)
        BY <2>2
      <3> QED
        BY <2>1, <3>1
    <2>3. CASE x \notin Part(dir)
      <3>1. /\ IsFiniteSet(Part(dir) \cup {x})
            /\ Cardinality(Part(dir) \cup {x}) = Cardinality(Part(dir)) + 1
        BY <2>3, FS_AddElement
      <3> QED
        BY <2>1, <3>1
    <2> QED
      BY <2>2, <2>3
  <1>4. IsFiniteSet(Part(dest)) /\ Cardinality(Part(dest)) <= Cardinality(Part(dir) \cup {x})
    BY <1>2, <1>3, FS_Subset
  <1>5. Cardinality(Part(dest)) \in Nat /\ Cardinality(Part(dir) \cup {x}) \in Nat
    BY <1>3, <1>4, FS_CardinalityType
  <1> QED
    BY <1>3, <1>4, <1>5

LEMMA StepPart == ASSUME PartInv, [Next]_vars PROVE PartInv'
  <1> USE DEF PartInv
  <1>1. Cardinality(Part(old)) \in Nat /\ Cardinality(Part(new)) \in Nat
    BY FS_CardinalityType
  <1>2. ASSUME UNCHANGED <<old, new, crashes>>, pc = "stopped" => pc' = "stopped"
        PROVE  PartInv'
    <2>1. Part(old)' = Part(old) /\ Part(new)' = Part(new)
      BY <1>2 DEF Part
    <2> QED
      BY <1>1, <1>2, <2>1 DEF OnePartPerCrash
  <1>3. CASE Restart
    <2>1. Part(old)' = Part(old) /\ Part(new)' = Part(new) /\ crashes' = crashes + 1
      BY <1>3 DEF Restart, disk, Part
    <2> QED
      BY <1>1, <2>1 DEF OnePartPerCrash
  <1>4. CASE CreateOld
    <2>1. Part(new)' = Part(new) /\ crashes' = crashes /\ pc = "old" /\ Part(old)' = Part(old')
      BY <1>4 DEF CreateOld, driver, Part
    <2>2. CASE pc' = "new" /\ Cut(old, prt, mm1[l], old')
      <3>1. IsFiniteSet(Part(old')) /\ Cardinality(Part(old')) <= Cardinality(Part(old))
        BY <2>2, PartCut
      <3>2. Cardinality(Part(old')) \in Nat
        BY <3>1, FS_CardinalityType
      <3> QED
        BY <1>1, <2>1, <2>2, <3>1, <3>2 DEF OnePartPerCrash
    <2>3. CASE pc' = "stopped" /\ CutError(old, prt, mm1[l], old')
      <3>1. IsFiniteSet(Part(old')) /\ Cardinality(Part(old')) <= Cardinality(Part(old)) + 1
        BY <2>3, PartError
      <3>2. Cardinality(Part(old')) \in Nat
        BY <3>1, FS_CardinalityType
      <3> QED
        BY <1>1, <2>1, <2>3, <3>1, <3>2 DEF OnePartPerCrash
    <2> QED
      BY <1>4, <2>2, <2>3 DEF CreateOld
  <1>5. CASE CreateNew
    <2>1. Part(old)' = Part(old) /\ crashes' = crashes /\ pc = "new" /\ Part(new)' = Part(new')
      BY <1>5 DEF CreateNew, driver, Part
    <2>2. CASE pc' = "funcs" /\ Cut(new, cld, mm0[l], new')
      <3>1. IsFiniteSet(Part(new')) /\ Cardinality(Part(new')) <= Cardinality(Part(new))
        BY <2>2, PartCut
      <3>2. Cardinality(Part(new')) \in Nat
        BY <3>1, FS_CardinalityType
      <3> QED
        BY <1>1, <2>1, <2>2, <3>1, <3>2 DEF OnePartPerCrash
    <2>3. CASE pc' = "stopped" /\ CutError(new, cld, mm0[l], new')
      <3>1. IsFiniteSet(Part(new')) /\ Cardinality(Part(new')) <= Cardinality(Part(new)) + 1
        BY <2>3, PartError
      <3>2. Cardinality(Part(new')) \in Nat
        BY <3>1, FS_CardinalityType
      <3> QED
        BY <1>1, <2>1, <2>3, <3>1, <3>2 DEF OnePartPerCrash
    <2> QED
      BY <1>5, <2>2, <2>3 DEF CreateNew
  <1>6. CASE SkipMerge \/ Begin \/ End \/ GitError \/ CPGs \/ FindFunctions \/ LoadError
             \/ RetryParent \/ KeyError \/ EndFile \/ Analyse \/ NoData \/ ValueError
             \/ CheckoutParent \/ CompileOk \/ CompileError \/ SE \/ EndCommit \/ UNCHANGED vars
    <2>1. UNCHANGED <<old, new, crashes>> /\ (pc = "stopped" => pc' = "stopped")
      BY <1>6 DEF SkipMerge, Begin, End, GitError, CPGs, FindFunctions, LoadError, RetryParent,
                  KeyError, EndFile, Analyse, NoData, ValueError, CheckoutParent, CompileOk,
                  CompileError, SE, EndCommit, vars, driver, disk
    <2> QED
      BY <1>2, <2>1
  <1>7. ASSUME NEW f \in File, BeginFile(f) PROVE PartInv'
    BY <1>2, <1>7 DEF BeginFile, driver
  <1>8. ASSUME NEW g \in Func, BeginFunc(g) PROVE PartInv'
    BY <1>2, <1>8 DEF BeginFunc, driver, disk
  <1>9. ASSUME NEW n, NEW v, MakeUnits(n, v) PROVE PartInv'
    BY <1>2, <1>9 DEF MakeUnits, driver, disk
  <1> QED
    BY <1>3, <1>4, <1>5, <1>6, <1>7, <1>8, <1>9 DEF Next, Step

(* Of all the functions drivers have cut out, no more break off than       *)
(* drivers have ended.                                                     *)
THEOREM OneUnfinished == Spec => []OnePartPerCrash
  <1>1. Init => PartInv
    <2>1. ASSUME Init PROVE Part(old) = {} /\ Part(new) = {} /\ crashes = 0 /\ pc = "next"
      BY <2>1 DEF Init, Part
    <2> QED
      BY <2>1, FS_EmptySet DEF PartInv, OnePartPerCrash
  <1>2. PartInv => OnePartPerCrash
    BY DEF PartInv
  <1> QED
    BY <1>1, <1>2, StepPart, PTL DEF Spec

(***************************************************************************)
(* The reports. Between the two analyses of a function its file has no     *)
(* report, or one of the graph that is in cpg.bin.                         *)
(***************************************************************************)
Second(x, a, b) == b.of = a.of \/ \E f \in File : b.of = <<x, f, "p">>
Fits(x, r) == \/ \E a : r = <<a>>
              \/ \E a, b : r = <<a, b>> /\ Second(x, a, b)
Between(r, g) == r = <<>> \/ \E a : r = <<a>> /\ a.of = g.of
ReportsInv ==
  /\ "of" \in DOMAIN bin
  /\ \A x \in DOMAIN dataflow : Fits(x, dataflow[x])
  /\ pc = "flow_p" => Between(Reports, bin)

LEMMA AppendTwo == ASSUME NEW a, NEW b PROVE Append(<<a>>, b) = <<a, b>>
  <1> DEFINE S == {a, b}
  <1>1. <<a>> \in Seq(S) /\ <<a, b>> \in Seq(S) /\ Append(<<a>>, b) \in Seq(S)
    OBVIOUS
  <1>2. Len(<<a>>) = 1 /\ Len(<<a, b>>) = 2 /\ Len(Append(<<a>>, b)) = 2
    BY <1>1
  <1>3. Append(<<a>>, b)[1] = a /\ Append(<<a>>, b)[2] = b
    BY <1>1, <1>2
  <1>4. \A i \in 1 .. 2 : Append(<<a>>, b)[i] = <<a, b>>[i]
    BY <1>3
  <1> HIDE DEF S
  <1> QED
    BY <1>1, <1>2, <1>4, SeqEqual

(* A run of dataflow.sh leaves the reports alone or adds one on cpg.bin,   *)
(* which is the old one or that of the function.                           *)
LEMMA OneMore ==
  ASSUME NEW half, dataflowSh(half), "of" \in DOMAIN bin
  PROVE  /\ "of" \in DOMAIN bin'
         /\ bin' = bin \/ bin'.of = <<dataname, l, half>>
         /\ \/ UNCHANGED dataflow
            \/ \E e : /\ e.of = bin'.of
                      /\ dataflow' = Put(dataflow, dataname, Append(Reports, e))
  <1>1. PICK parsed \in {"whole", "part", "not"}, report \in {"whole", "part", "not"} :
       /\ bin' = IF parsed = "not" THEN bin
                 ELSE [of |-> <<dataname, l, half>>, whole |-> parsed = "whole"]
       /\ dataflow' = IF report = "not" THEN dataflow
                      ELSE Put(dataflow, dataname,
                               Append(Reports, [bin' EXCEPT !.whole = @ /\ report = "whole"]))
    BY DEF dataflowSh
  <1>2. "of" \in DOMAIN bin'
    BY <1>1
  <1>3. ASSUME NEW w PROVE [bin' EXCEPT !.whole = w].of = bin'.of
    BY <1>2
  <1> QED
    BY <1>1, <1>2, <1>3

LEMMA StepReports == ASSUME WhereInv, ReportsInv, [Next]_vars PROVE ReportsInv'
  <1>1. ASSUME UNCHANGED <<bin, dataflow>>, pc' # "flow_p" PROVE ReportsInv'
    BY <1>1 DEF ReportsInv
  <1>2. ASSUME NEW e, dataflow' = Put(dataflow, dataname, Append(Reports, e)),
               Fits(dataname, Append(Reports, e))
        PROVE  \A x \in DOMAIN dataflow' : Fits(x, dataflow'[x])
    BY <1>2 DEF ReportsInv, Put
  <1>3. ASSUME pc = "flow_o", Reports = <<>>, pc' = "flow_p", dataflowSh("o"),
               UNCHANGED <<driver, work>>
        PROVE  ReportsInv'
    <2>1. dataname' = dataname /\ "of" \in DOMAIN bin'
      BY <1>3, OneMore DEF dataname, driver, work, pair, prt, cld, ReportsInv
    <2>2. CASE UNCHANGED dataflow
      <3>1. Reports' = <<>>
        BY <1>3, <2>1, <2>2 DEF Reports
      <3> QED
        BY <2>1, <2>2, <3>1 DEF ReportsInv, Between
    <2>3. ASSUME NEW e, e.of = bin'.of,
                 dataflow' = Put(dataflow, dataname, Append(Reports, e))
          PROVE  ReportsInv'
      <3>1. Append(Reports, e) = <<e>>
        BY <1>3
      <3>2. \A x \in DOMAIN dataflow' : Fits(x, dataflow'[x])
        BY <1>2, <2>3, <3>1 DEF Fits
      <3>3. Reports' = <<e>>
        BY <2>1, <2>3, <3>1 DEF Reports, Put
      <3> QED
        BY <2>1, <2>3, <3>2, <3>3 DEF ReportsInv, Between
    <2> QED
      BY <1>3, <2>2, <2>3, OneMore DEF ReportsInv
  <1>4. ASSUME pc = "flow_p", pc' = "units", dataflowSh("p") PROVE ReportsInv'
    <2>1. "of" \in DOMAIN bin' /\ (bin' = bin \/ bin'.of = <<dataname, l, "p">>)
      BY <1>4, OneMore DEF ReportsInv
    <2>2. l \in File /\ Between(Reports, bin)
      BY <1>4 DEF WhereInv, InFile, ReportsInv
    <2>3. CASE UNCHANGED dataflow
      BY <1>4, <2>1, <2>3 DEF ReportsInv
    <2>4. ASSUME NEW e, e.of = bin'.of,
                 dataflow' = Put(dataflow, dataname, Append(Reports, e))
          PROVE  ReportsInv'
      <3>1. CASE Reports = <<>>
        <4>1. Append(Reports, e) = <<e>>
          BY <3>1
        <4> QED
          BY <1>2, <1>4, <2>1, <2>4, <4>1 DEF ReportsInv, Fits
      <3>2. ASSUME NEW a, Reports = <<a>>, a.of = bin.of PROVE ReportsInv'
        <4>1. Append(Reports, e) = <<a, e>>
          BY <3>2, AppendTwo
        <4>2. Second(dataname, a, e)
          BY <2>1, <2>2, <2>4, <3>2 DEF Second
        <4>3. Fits(dataname, Append(Reports, e))
          BY <4>1, <4>2 DEF Fits
        <4> QED
          BY <1>2, <1>4, <2>1, <2>4, <4>3 DEF ReportsInv
      <3> QED
        BY <2>2, <3>1, <3>2 DEF Between
    <2> QED
      BY <1>4, <2>3, <2>4, OneMore DEF ReportsInv
  <1>5. CASE Analyse
    BY <1>1, <1>3, <1>4, <1>5 DEF Analyse
  <1>6. CASE SkipMerge \/ Begin \/ End \/ GitError \/ CPGs \/ FindFunctions \/ LoadError
             \/ RetryParent \/ KeyError \/ CreateOld \/ CreateNew \/ EndFile \/ NoData
             \/ ValueError \/ CheckoutParent \/ CompileOk \/ CompileError \/ SE \/ EndCommit
             \/ Restart
    <2>1. pc' # "flow_p" /\ UNCHANGED <<bin, dataflow>>
      <3>1. CASE RetryParent
        BY <3>1, RetryWhere DEF RetryParent
      <3> QED
        BY <1>6, <3>1 DEF SkipMerge, Begin, End, GitError, CPGs, FindFunctions, LoadError,
                  KeyError, CreateOld, CreateNew, EndFile, NoData, ValueError, CheckoutParent,
                  CompileOk, CompileError, SE, EndCommit, Restart, disk
    <2> QED
      BY <1>1, <2>1
  <1>7. ASSUME NEW f \in File, BeginFile(f) PROVE ReportsInv'
    BY <1>1, <1>7, RetryWhere DEF BeginFile
  <1>8. ASSUME NEW g \in Func, BeginFunc(g) PROVE ReportsInv'
    BY <1>1, <1>8 DEF BeginFunc, disk
  <1>9. ASSUME NEW n, NEW v, MakeUnits(n, v) PROVE ReportsInv'
    BY <1>1, <1>9 DEF MakeUnits, disk
  <1>10. CASE UNCHANGED vars
    BY <1>10 DEF ReportsInv, Reports, dataname, vars, driver, work, disk, pair, prt, cld
  <1> QED
    BY <1>5, <1>6, <1>7, <1>8, <1>9, <1>10 DEF Next, Step

(* Whatever of dataflow.sh fails and whenever the driver dies, there are   *)
(* two reports at most; the second is of the patched half, or repeats the  *)
(* first.                                                                  *)
THEOREM AtMostTwoReports == Spec => []TwoReports
  <1>1. Init => ReportsInv
    BY DEF Init, ReportsInv
  <1>2. ReportsInv => TwoReports
    <2>1. ASSUME NEW x, NEW r, Fits(x, r)
          PROVE  Len(r) \in 1 .. 2 /\ (Len(r) = 2 => Second(x, r[1], r[2]))
      <3>1. ASSUME NEW a, r = <<a>> PROVE Len(r) = 1
        BY <3>1
      <3>2. ASSUME NEW a, NEW b, r = <<a, b>> PROVE Len(r) = 2 /\ r[1] = a /\ r[2] = b
        BY <3>2
      <3> QED
        BY <2>1, <3>1, <3>2 DEF Fits
    <2> QED
      BY <2>1 DEF ReportsInv, TwoReports, Second
  <1> QED
    BY <1>1, <1>2, StepReports, Where, PTL DEF Spec

(***************************************************************************)
(* The statistics. What the current commit adds to the compiled units is   *)
(* counted after base; units that are about to be compiled have been       *)
(* counted as valid. Without the second part the first count could         *)
(* overtake the next, without the first more commits could be applied      *)
(* than units were.                                                        *)
(***************************************************************************)
Counts == [commitNum : Nat, validCommitNum : Nat, applidCommitNum : Nat,
           allCUlen : Nat, validCUlen : Nat, valid1CUlen : Nat]
CountInv ==
  /\ count \in Counts
  /\ CountsNested
  /\ pc \notin {"next", "stopped"} =>
       /\ base \in Nat
       /\ count.applidCommitNum <= base /\ base <= count.valid1CUlen
  /\ pc \in {"checkout", "compile"} =>
       units.valid \in Nat /\ count.valid1CUlen + units.valid <= count.validCUlen

LEMMA CountsAreNumbers == count \in Counts => count \in [DOMAIN NoCount -> Nat]
  BY DEF Counts, NoCount

LEMMA StepCount == ASSUME CountInv, [Next]_vars PROVE CountInv'
  <1> USE DEF CountInv
  <1>1. ASSUME UNCHANGED <<count, base>>, pc' \notin {"checkout", "compile"},
               pc' \in {"next", "stopped"} \/ pc \notin {"next", "stopped"}
        PROVE  CountInv'
    BY <1>1 DEF CountsNested
  <1>2. CASE Begin
    BY <1>2 DEF Begin, CountsNested, Counts
  <1>3. CASE SkipMerge \/ End \/ GitError \/ CPGs \/ FindFunctions \/ LoadError \/ RetryParent
             \/ CreateOld \/ CreateNew \/ KeyError \/ EndFile \/ Analyse \/ NoData
             \/ ValueError \/ CompileError \/ SE
    <2>1. /\ UNCHANGED <<count, base>> /\ pc' \notin {"checkout", "compile"}
          /\ pc' \in {"next", "stopped"} \/ pc \notin {"next", "stopped"}
      <3>1. CASE RetryParent
        BY <3>1, RetryWhere DEF RetryParent, flags
      <3> QED
        BY <1>3, <3>1 DEF SkipMerge, End, GitError, CPGs, FindFunctions, LoadError, CreateOld,
                  CreateNew, KeyError, EndFile, Analyse, NoData, ValueError, CompileError, SE,
                  flags
    <2> QED
      BY <1>1, <2>1
  <1>4. ASSUME NEW f \in File, BeginFile(f) PROVE CountInv'
    BY <1>1, <1>4, RetryWhere DEF BeginFile, flags
  <1>5. ASSUME NEW g \in Func, BeginFunc(g) PROVE CountInv'
    BY <1>1, <1>5 DEF BeginFunc, flags
  <1>6. ASSUME NEW n \in 0 .. MaxUnits, NEW v \in 0 .. n, MakeUnits(n, v) PROVE CountInv'
    <2>1. n \in Nat /\ v \in Nat /\ v <= n
      BY <1>6, BoundsAssumption
    <2>2. count' = [count EXCEPT !.allCUlen = @ + n, !.validCUlen = @ + v]
          /\ units' = [all |-> n, valid |-> v] /\ base' = base
          /\ pc = "units" /\ pc' = "checkout"
      BY <1>6 DEF MakeUnits
    <2>3. /\ count'.allCUlen = count.allCUlen + n /\ count'.validCUlen = count.validCUlen + v
          /\ count'.valid1CUlen = count.valid1CUlen
          /\ count'.applidCommitNum = count.applidCommitNum
          /\ count'.validCommitNum = count.validCommitNum
          /\ count'.commitNum = count.commitNum
      BY <2>2 DEF Counts
    <2>4. count' \in Counts
      <3>1. count.allCUlen + n \in Nat /\ count.validCUlen + v \in Nat
        BY <2>1 DEF Counts
      <3>2. [count EXCEPT !.allCUlen = @ + n] \in Counts
        BY <3>1 DEF Counts
      <3>3. [count EXCEPT !.allCUlen = @ + n].validCUlen = count.validCUlen
        BY DEF Counts
      <3> QED
        BY <2>2, <3>1, <3>2, <3>3 DEF Counts
    <2>5. units'.valid = v /\ base \in Nat /\ count.applidCommitNum <= base
          /\ base <= count.valid1CUlen
      BY <2>2
    <2>6. \A x \in {"allCUlen", "validCUlen", "valid1CUlen", "applidCommitNum",
                    "validCommitNum", "commitNum"} : count[x] \in Nat
      BY DEF Counts
    <2>7. CountsNested'
      BY <2>1, <2>3, <2>6 DEF CountsNested
    <2> QED
      BY <2>1, <2>2, <2>3, <2>4, <2>5, <2>6, <2>7 DEF CountsNested
  <1>7. CASE CompileOk
    <2>1. count' = [count EXCEPT !.valid1CUlen = @ + units.valid]
          /\ base' = base /\ pc = "compile" /\ pc' = "se"
      BY <1>7 DEF CompileOk
    <2>2. /\ count'.valid1CUlen = count.valid1CUlen + units.valid
          /\ count'.allCUlen = count.allCUlen /\ count'.validCUlen = count.validCUlen
          /\ count'.applidCommitNum = count.applidCommitNum
          /\ count'.validCommitNum = count.validCommitNum
          /\ count'.commitNum = count.commitNum
      BY <2>1 DEF Counts
    <2>3. count' \in Counts
      BY <2>1 DEF Counts
    <2>4. \A x \in {"allCUlen", "validCUlen", "valid1CUlen", "applidCommitNum",
                    "validCommitNum", "commitNum"} : count[x] \in Nat
      BY DEF Counts
    <2>5. CountsNested'
      BY <2>1, <2>2, <2>4 DEF CountsNested
    <2> QED
      BY <2>1, <2>2, <2>3, <2>4, <2>5
  <1>8. CASE EndCommit
    <2>1. /\ pc = "files" /\ pc' = "next"
          /\ count' = [count EXCEPT
               !.applidCommitNum =
                 @ + IF validCommit /\ count.valid1CUlen # base /\ hasCom THEN 1 ELSE 0,
               !.commitNum = @ + 1,
               !.validCommitNum = @ + IF validCommit THEN 1 ELSE 0]
      BY <1>8 DEF EndCommit
    <2>2. PICK a \in 0 .. 1, v \in 0 .. 1 :
            /\ a <= v /\ (a = 1 => count.valid1CUlen # base)
            /\ count' = [count EXCEPT !.applidCommitNum = @ + a, !.commitNum = @ + 1,
                                      !.validCommitNum = @ + v]
      <3> DEFINE a0 == IF validCommit /\ count.valid1CUlen # base /\ hasCom THEN 1 ELSE 0
                 v0 == IF validCommit THEN 1 ELSE 0
      <3>1. a0 \in 0 .. 1 /\ v0 \in 0 .. 1 /\ a0 <= v0 /\ (a0 = 1 => count.valid1CUlen # base)
        OBVIOUS
      <3>2. count' = [count EXCEPT !.applidCommitNum = @ + a0, !.commitNum = @ + 1,
                                   !.validCommitNum = @ + v0]
        BY <2>1
      <3> HIDE DEF a0, v0
      <3> QED
        BY <3>1, <3>2
    <2>3. /\ count'.applidCommitNum = count.applidCommitNum + a
          /\ count'.commitNum = count.commitNum + 1
          /\ count'.validCommitNum = count.validCommitNum + v
          /\ count'.allCUlen = count.allCUlen /\ count'.validCUlen = count.validCUlen
          /\ count'.valid1CUlen = count.valid1CUlen
      BY <2>2 DEF Counts
    <2>4. \A x \in {"allCUlen", "validCUlen", "valid1CUlen", "applidCommitNum",
                    "validCommitNum", "commitNum"} : count[x] \in Nat
      BY DEF Counts
    <2>5. count' \in Counts
      <3> DEFINE c1 == [count EXCEPT !.applidCommitNum = @ + a]
                 c2 == [c1 EXCEPT !.commitNum = @ + 1]
      <3>1. c1 \in Counts
        BY <2>2, <2>4 DEF Counts
      <3>2. c2 \in Counts
        <4>1. c1.commitNum + 1 \in Nat
          BY <3>1 DEF Counts
        <4> HIDE DEF c1
        <4> QED
          BY <3>1, <4>1 DEF Counts
      <3>3. count' = [c2 EXCEPT !.validCommitNum = @ + v]
        BY <2>2
      <3>4. c2.validCommitNum + v \in Nat
        BY <3>2 DEF Counts
      <3> HIDE DEF c1, c2
      <3> QED
        BY <3>2, <3>3, <3>4 DEF Counts
    <2>6. CountsNested'
      BY <2>1, <2>2, <2>3, <2>4 DEF CountsNested
    <2> QED
      BY <2>1, <2>5, <2>6
  <1>9. CASE Restart
    BY <1>9 DEF Restart, CountsNested, Counts, NoCount
  <1>10. CASE CheckoutParent \/ UNCHANGED vars
    BY <1>10 DEF CheckoutParent, vars, work, flags, CountsNested
  <1> QED
    BY <1>2, <1>3, <1>4, <1>5, <1>6, <1>7, <1>8, <1>9, <1>10 DEF Next, Step

LEMMA Counted == Spec => []CountInv
  <1>1. Init => CountInv
    BY DEF Init, CountInv, CountsNested, Counts, NoCount
  <1> QED
    BY <1>1, StepCount, PTL DEF Spec

(* The counts of units and of commits are each part of the one before.     *)
THEOREM StatisticsFit == Spec => []CountsNested
  <1>1. CountInv => CountsNested
    BY DEF CountInv
  <1> QED
    BY <1>1, Counted, PTL

(* The types, and that work in progress lies within the pair's files.      *)
THEOREM TypeCorrect == Spec => []TypeOK
  <1>1. WhereInv /\ CountInv => TypeOK
    BY CountsAreNumbers DEF WhereInv, CountInv, TypeOK, InFile, InFunc
  <1> QED
    BY <1>1, Where, Counted, PTL

(***************************************************************************)
(* The commits. Those before the current one, back to where the driver     *)
(* was started, have been counted once unless they are merges.             *)
(***************************************************************************)
Done == {i \in from .. k - 1 : ~prt2cld[i].merge}
CommitInv ==
  /\ from \in Nat /\ from <= k
  /\ count.commitNum = Cardinality(Done)

LEMMA StepCommits ==
  ASSUME WhereInv, CountInv, CommitInv, [Next]_vars
  PROVE  CommitInv'
  <1> USE DEF CommitInv
  <1>1. k \in Nat /\ Len(prt2cld) \in Nat
    BY HistoriesAssumption DEF WhereInv
  <1>2. ASSUME UNCHANGED <<k, from, prt2cld>>, count'.commitNum = count.commitNum
        PROVE  CommitInv'
    BY <1>2 DEF Done
  <1>3. CASE SkipMerge
    <2>1. UNCHANGED <<from, prt2cld, count>> /\ k' = k + 1 /\ prt2cld[k].merge
      BY <1>3 DEF SkipMerge, pair
    <2>2. Done' = Done
      BY <1>1, <2>1 DEF Done
    <2> QED
      BY <1>1, <2>1, <2>2
  <1>4. CASE EndCommit
    <2>1. /\ UNCHANGED <<from, prt2cld>> /\ k' = k + 1
          /\ k \in DOMAIN prt2cld /\ ~prt2cld[k].merge
      BY <1>4 DEF EndCommit, WhereInv, pair
    <2>2. count'.commitNum = count.commitNum + 1
      BY <1>4 DEF EndCommit, CountInv, Counts
    <2>3. CASE from <= k
      <3>1. Done' = Done \cup {k}
        BY <1>1, <2>1, <2>3 DEF Done
      <3>2. IsFiniteSet(from .. k - 1)
        BY <1>1, FS_Interval
      <3>3. IsFiniteSet(Done)
        BY <3>2, FS_Subset DEF Done
      <3>4. k \notin Done
        BY <1>1 DEF Done
      <3>5. Cardinality(Done \cup {k}) = Cardinality(Done) + 1
        BY <3>3, <3>4, FS_AddElement
      <3>6. Cardinality(Done') = Cardinality(Done) + 1
        BY <3>1, <3>5
      <3>7. from' \in Nat /\ from' <= k'
        BY <1>1, <2>1
      <3> QED
        BY <2>2, <3>6, <3>7
    <2> QED
      BY <2>3
  <1>5. CASE Restart
    <2>1. k' = from' /\ from' \in Nat /\ UNCHANGED prt2cld
      BY <1>5, HistoriesAssumption DEF Restart, WhereInv
    <2>2. Done' = {}
      BY <2>1 DEF Done
    <2> QED
      BY <1>5, <2>1, <2>2, FS_EmptySet DEF Restart, NoCount
  <1>6. CASE Begin \/ End \/ GitError \/ CPGs \/ FindFunctions \/ LoadError \/ RetryParent
             \/ CreateOld \/ CreateNew \/ KeyError \/ EndFile \/ Analyse \/ NoData
             \/ ValueError \/ CheckoutParent \/ CompileError \/ SE \/ UNCHANGED vars
    BY <1>2, <1>6 DEF Begin, End, GitError, CPGs, FindFunctions, LoadError, RetryParent,
                  CreateOld, CreateNew, KeyError, EndFile, Analyse, NoData, ValueError,
                  CheckoutParent, CompileError, SE, driver, vars
  <1>7. ASSUME NEW f \in File, BeginFile(f) PROVE CommitInv'
    BY <1>2, <1>7 DEF BeginFile, driver
  <1>8. ASSUME NEW g \in Func, BeginFunc(g) PROVE CommitInv'
    BY <1>2, <1>8 DEF BeginFunc, driver
  <1>9. ASSUME NEW n, NEW v, MakeUnits(n, v) PROVE CommitInv'
    <2>1. count'.commitNum = count.commitNum
      BY <1>9 DEF MakeUnits, CountInv, Counts
    <2> QED
      BY <1>2, <1>9, <2>1 DEF MakeUnits, driver
  <1>10. CASE CompileOk
    <2>1. count'.commitNum = count.commitNum
      BY <1>10 DEF CompileOk, CountInv, Counts
    <2> QED
      BY <1>2, <1>10, <2>1 DEF CompileOk, driver
  <1> QED
    BY <1>3, <1>4, <1>5, <1>6, <1>7, <1>8, <1>9, <1>10 DEF Next, Step

(* A driver that comes to the end has counted every pair since its start.  *)
THEOREM EveryPairCounted == Spec => []AllPairsCounted
  <1>1. Init => CommitInv
    <2>1. ASSUME Init PROVE Done = {}
      BY <2>1 DEF Init, Done
    <2> QED
      BY <2>1, FS_EmptySet DEF Init, CommitInv, NoCount
  <1>2. WhereInv /\ CommitInv => AllPairsCounted
    <2>1. WhereInv /\ k \notin DOMAIN prt2cld => k = Len(prt2cld) + 1 /\ Len(prt2cld) \in Nat
      BY HistoriesAssumption DEF WhereInv
    <2>2. WhereInv /\ k \notin DOMAIN prt2cld => k - 1 = Len(prt2cld)
      BY <2>1
    <2> QED
      BY <2>2 DEF CommitInv, AllPairsCounted, Done
  <1> QED
    BY <1>1, <1>2, StepCommits, Where, Counted, PTL DEF Spec
=============================================================================
