----------------------------- MODULE FssChunks -----------------------------
(***************************************************************************)
(* parser.py: read one chunk of an analysis log. The chunks of a log are   *)
(* cut at byte offsets (pickler.py), and each is parsed by a process of    *)
(* its own that sees nothing of the others: which one reads a block is     *)
(* decided by the marks around it alone.                                   *)
(***************************************************************************)
EXTENDS Integers, Sequences, FiniteSets, SequencesExt

(* The kinds of line of a log. The analyzer in C++ writes blocks that      *)
(* follow each other directly: "@@<<", an empty line, then for every path  *)
(* its LOCATION, entries, lines that continue one, and an empty line, and  *)
(* "@@>>".                                                                 *)
FcKinds == {"open", "empty", "location", "entry", "more", "close"}

CONSTANTS FcLogs,      \* logs: sequences of kinds of line
          FcSize,      \* kind -> bytes of such a line, with its newline
          FcUnits      \* sizes a chunk may have

(* What may follow what                                                    *)
FcFollows == {<<"open", "empty">>, <<"close", "open">>}
               \cup ({"empty"} \X {"location", "close"})
               \cup ({"location", "entry", "more"} \X {"entry", "more", "empty"})
FcWritten(log) == /\ log \in Seq(FcKinds) /\ log # <<>>
                  /\ log[1] = "open" /\ log[Len(log)] = "close"
                  /\ \A i \in 1 .. Len(log) - 1 : <<log[i], log[i + 1]>> \in FcFollows

ASSUME FcLogsAssumption == \A log \in FcLogs : FcWritten(log)
ASSUME FcSizeAssumption == FcSize \in [FcKinds -> Nat \ {0}]
(* MIN_UNIT_SIZE is far larger than two marks                              *)
ASSUME FcUnitsAssumption ==
  \A u \in FcUnits : u \in Nat /\ u > FcSize["open"] + FcSize["close"]

VARIABLES fcLog, fcUnit,
          fcStart,      \* where the chunk starts
          fcLine,       \* the line in hand, p of _dual_open
          fcOffset,     \* offset, as the end of the line in hand
          fcPart,       \* readline began in the middle of that line
          fcEnable,     \* state_enable
          fcMore,       \* in the loop over the lines of one entry
          fcPath,       \* the lines of state_path; {} is None
          fcOut,        \* <<chunk, lines>>: what parse_file yields
          fcPc

fcVars == <<fcLog, fcUnit, fcStart, fcLine, fcOffset, fcPart, fcEnable, fcMore, fcPath, fcOut, fcPc>>

(* The first byte of line i: there are as many before it                   *)
FcOffset(log, i) == Cardinality(UNION {{n} \X (1 .. FcSize[log[n]]) : n \in 1 .. i - 1})
FcBytes(log) == FcOffset(log, Len(log) + 1)

(* pickler.py:107-112: range(0, size + unit/2, unit)                       *)
FcStarts(size, unit) == {s \in 0 .. size + unit \div 2 - 1 : s % unit = 0}

FcInit == /\ fcLog = <<>> /\ fcUnit = 1
          /\ fcStart = 0 /\ fcLine = 0 /\ fcOffset = 0 /\ fcPart = FALSE
          /\ fcEnable = FALSE /\ fcMore = FALSE
          /\ fcPath = {} /\ fcOut = {}
          /\ fcPc = "idle"

(* _dual_open, 20-24: the first line may be the rest of one; past the end  *)
(* of the file it is empty                                                 *)
FcSeek(log, start) ==
  LET i == IF start >= FcBytes(log) THEN Len(log) + 1
           ELSE CHOOSE n \in 1 .. Len(log) :
                  FcOffset(log, n) <= start /\ start < FcOffset(log, n + 1)
  IN /\ fcStart' = start /\ fcLine' = i
     /\ fcOffset' = IF i > Len(log) THEN start ELSE FcOffset(log, i + 1)
     /\ fcPart' = (i <= Len(log) /\ FcOffset(log, i) < start)
     /\ fcEnable' = FALSE /\ fcMore' = FALSE /\ fcPath' = {}

FcBegin(log, unit) == /\ fcPc = "idle"
                      /\ fcLog' = log /\ fcUnit' = unit
                      /\ FcSeek(log, 0)
                      /\ fcOut' = {}
                      /\ fcPc' = "read"

(* The kind of the line in hand: the rest of a line is no mark and no key  *)
FcHere == IF fcPart \/ fcLine > Len(fcLog) THEN "empty" ELSE fcLog[fcLine]

(* mutant: > for >=                                                        *)
FcChunkEnds_gt == /\ fcLine < Len(fcLog) /\ FcHere = "close"
                  /\ fcOffset + FcSize[fcLog[fcLine + 1]] > fcStart + fcUnit

(* Lines 25-29, when the next line has been read                           *)
FcChunkEnds == /\ fcLine < Len(fcLog) /\ FcHere = "close"
               /\ fcOffset + FcSize[fcLog[fcLine + 1]] >= fcStart + fcUnit

(* Lines 63 and 70: the line after this one begins something new           *)
FcEntryEnds == fcLine >= Len(fcLog) \/ fcLog[fcLine + 1] # "more"

(* parse_file, 85-92: yield the path before a LOCATION, add to the current *)
FcAdd == IF FcHere = "location"
         THEN /\ fcOut' = IF fcPath = {} THEN fcOut ELSE fcOut \cup {<<fcStart, fcPath>>}
              /\ fcPath' = {fcLine}
         ELSE fcPath' = fcPath \cup {fcLine} /\ UNCHANGED fcOut

(* _feeder, 40-73                                                          *)
FcMark == /\ ~fcMore /\ FcHere \in {"open", "close"}
          /\ fcEnable' = (FcHere = "open")
          /\ UNCHANGED <<fcMore, fcPath, fcOut>>
FcSkip == /\ ~fcMore
          /\ \/ FcHere \in {"empty", "more"}
             \/ FcHere \in {"location", "entry"} /\ ~fcEnable
          /\ UNCHANGED <<fcEnable, fcMore, fcPath, fcOut>>
FcKey == /\ ~fcMore /\ fcEnable /\ FcHere \in {"location", "entry"}
         /\ FcAdd
         /\ fcMore' = ~FcEntryEnds
         /\ UNCHANGED fcEnable
FcContinue == /\ fcMore
              /\ fcPath' = fcPath \cup {fcLine}
              /\ fcMore' = ~FcEntryEnds
              /\ UNCHANGED <<fcEnable, fcOut>>

FcRead == /\ fcPc = "read" /\ fcLine <= Len(fcLog) /\ ~FcChunkEnds
          /\ FcMark \/ FcSkip \/ FcKey \/ FcContinue
          /\ fcLine' = fcLine + 1 /\ fcPart' = FALSE
          /\ fcOffset' = IF fcLine < Len(fcLog) THEN fcOffset + FcSize[fcLog[fcLine + 1]]
                                                ELSE fcOffset
          /\ UNCHANGED <<fcLog, fcUnit, fcStart, fcPc>>

(* Lines 93-95, and the next chunk                                         *)
FcFinish ==
  /\ fcPc = "read" /\ (fcLine > Len(fcLog) \/ FcChunkEnds)
  /\ fcOut' = IF fcPath = {} THEN fcOut ELSE fcOut \cup {<<fcStart, fcPath>>}
  /\ LET next == fcStart + fcUnit
     IN IF next \in FcStarts(FcBytes(fcLog), fcUnit)
        THEN FcSeek(fcLog, next) /\ UNCHANGED fcPc
        ELSE fcPc' = "done" /\ UNCHANGED <<fcStart, fcLine, fcOffset, fcPart, fcEnable, fcMore, fcPath>>
  /\ UNCHANGED <<fcLog, fcUnit>>

FcStep == FcRead \/ FcFinish
FcNext == (\E log \in FcLogs, unit \in FcUnits : FcBegin(log, unit)) \/ FcStep
FcSpec == FcInit /\ [][FcNext]_fcVars
-----------------------------------------------------------------------------
(* The paths of the log, each the lines of its LOCATION and entries. This  *)
(* and what follows is not in the code.                                    *)
FcPaths == LET EndOf(i) == CHOOSE j \in i .. Len(fcLog) :
                 /\ fcLog[j + 1] = "empty"
                 /\ \A k \in i + 1 .. j : fcLog[k] \in {"entry", "more"}
           IN {i .. EndOf(i) : i \in {n \in DOMAIN fcLog : fcLog[n] = "location"}}

(* A chunk begins behind the first byte of the mark that opens the block   *)
(* of a path, at most at its end, and a block comes before it              *)
FcCut(path) ==
  \E i \in 2 .. Len(fcLog) :
    /\ fcLog[i] = "open" /\ \A n \in path : i < n
    /\ \A k \in i + 1 .. Len(fcLog) : fcLog[k] = "open" => \A n \in path : n < k
    /\ FcOffset(fcLog, i) \div fcUnit < FcOffset(fcLog, i + 1) \div fcUnit

FcTypeOK == /\ fcLog \in FcLogs \cup {<<>>}
            /\ fcUnit \in FcUnits \cup {1}
            /\ fcStart \in Nat
            /\ fcLine \in 0 .. Len(fcLog) + 1
            /\ fcOffset \in Nat
            /\ {fcPart, fcEnable, fcMore} \subseteq BOOLEAN
            /\ fcPath \subseteq DOMAIN fcLog
            /\ fcOut \subseteq Nat \X SUBSET (DOMAIN fcLog)
            /\ fcPc \in {"idle", "read", "done"}

(* Every path is read by one chunk, whole, wherever the chunks are cut,    *)
(* and nothing else is read: unless the cut is in the mark that opens its  *)
(* block, which neither chunk then reads.                                  *)
FcReadOnce ==
  fcPc = "done" =>
    /\ \A x \in fcOut : x[2] \in FcPaths /\ ~FcCut(x[2])
    /\ \A x, y \in fcOut : x[2] = y[2] => x = y
    /\ \A p \in FcPaths : FcCut(p) \/ \E x \in fcOut : x[2] = p
=============================================================================
