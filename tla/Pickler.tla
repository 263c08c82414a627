------------------------------ MODULE Pickler ------------------------------
(***************************************************************************)
(* pickler.py of the analyzer: build the path database. A pool of workers  *)
(* parses the chunks of the analysis logs, each into one temporary file    *)
(* per function, then a second pool turns the temporary files of every     *)
(* function into its database file. The run may be killed at any point and *)
(* started again, over the same or over changed logs.                      *)
(*                                                                         *)
(* All paths of a function in one chunk are treated alike: the content of  *)
(* a file is how often it has the paths of each chunk.                     *)
(***************************************************************************)
EXTENDS Integers

CONSTANTS Chunk,        \* names -id-sub_id- of temporary files
          Func,         \* functions
          Worker,       \* the processes of a pool
          Logs,         \* possible logs: chunk -> functions with paths in it
          None, Cut,    \* no file, and a file that cannot be unpickled
          MaxRuns       \* bound on the number of runs

Content == [Chunk -> Nat]
ASSUME LogsAssumption == Logs \subseteq [Chunk -> SUBSET Func]
ASSUME FileAssumption == None # Cut /\ None \notin Content /\ Cut \notin Content
ASSUME RunsAssumption == MaxRuns \in Nat

VARIABLES phase,   \* "idle", "pickle", "fixup", "done"
          has,     \* the logs of this run
          queue,   \* tasks no worker has taken: chunks, later functions
          plan,    \* the fixup plans: function -> chunks
          job,     \* what each worker does
          temp,    \* <<chunk, function>> -> temporary file
          db,      \* function -> database file
          stale,   \* the run began with temporary files it does not rewrite
          runs

vars == <<phase, has, queue, plan, job, temp, db, stale, runs>>

Idle == [kind |-> "idle"]
AllIdle == job = [w \in Worker |-> Idle]
One(c) == [x \in Chunk |-> IF x = c THEN 1 ELSE 0]
NoPaths == [x \in Chunk |-> 0]
Owners(f) == {c \in Chunk : f \in has[c]}
Temps(f)  == {c \in Chunk : temp[<<c, f>>] # None}

Init == /\ phase = "idle"
        /\ has \in Logs
        /\ queue = {}
        /\ plan = [f \in Func |-> {}]
        /\ AllIdle
        /\ temp = [x \in Chunk \X Func |-> None]
        /\ db = [f \in Func |-> None]
        /\ stale = FALSE
        /\ runs = 0
-----------------------------------------------------------------------------
(* Lines 98-120: the plans, and the pool that works on them                *)
Start == /\ phase \in {"idle", "done"} /\ runs < MaxRuns
         /\ phase' = "pickle"
         /\ has' \in Logs
         /\ queue' = Chunk
         /\ stale' = \E c \in Chunk, f \in Func : temp[<<c, f>>] # None /\ f \notin has'[c]
         /\ runs' = runs + 1
         /\ UNCHANGED <<plan, job, temp, db>>

(* do_pickle, 44-46                                                        *)
TakeChunk(w, c) == /\ phase = "pickle" /\ job[w] = Idle /\ c \in queue
                   /\ queue' = queue \ {c}
                   /\ job' = [job EXCEPT ![w] = [kind |-> "dump", chunk |-> c, todo |-> has[c]]]
                   /\ UNCHANGED <<phase, has, plan, temp, db, stale, runs>>

(* save_as_pickle, pathbin.py:98-102: open for writing, then dump          *)
OpenTemp(w, f) == /\ job[w].kind = "dump" /\ f \in job[w].todo
                  /\ job' = [job EXCEPT ![w] = [kind |-> "write", chunk |-> job[w].chunk,
                                                todo |-> job[w].todo \ {f}, func |-> f]]
                  /\ temp' = [temp EXCEPT ![<<job[w].chunk, f>>] = Cut]
                  /\ UNCHANGED <<phase, has, queue, plan, db, stale, runs>>

DumpTemp(w) == /\ job[w].kind = "write"
               /\ job' = [job EXCEPT ![w] = [kind |-> "dump", chunk |-> job[w].chunk,
                                             todo |-> job[w].todo]]
               /\ temp' = [temp EXCEPT ![<<job[w].chunk, job[w].func>>] = One(job[w].chunk)]
               /\ UNCHANGED <<phase, has, queue, plan, db, stale, runs>>

EndChunk(w) == /\ job[w].kind = "dump" /\ job[w].todo = {}
               /\ job' = [job EXCEPT ![w] = Idle]
               /\ UNCHANGED <<phase, has, queue, plan, temp, db, stale, runs>>

(* mutant: the second pool is started without joining the first            *)
StartFixup_nojoin == /\ phase = "pickle" /\ queue = {}
                     /\ phase' = "fixup"
                     /\ plan' = [f \in Func |-> Temps(f)]
                     /\ queue' = {f \in Func : plan'[f] # {}}
                     /\ UNCHANGED <<has, job, temp, db, stale, runs>>

(* Lines 121-145: after close and join, the plans from the files present   *)
StartFixup == /\ phase = "pickle" /\ queue = {} /\ AllIdle
              /\ phase' = "fixup"
              /\ plan' = [f \in Func |-> Temps(f)]
              /\ queue' = {f \in Func : plan'[f] # {}}
              /\ UNCHANGED <<has, job, temp, db, stale, runs>>
-----------------------------------------------------------------------------
(* mutant: the file is copied, not renamed                                 *)
Rename_copy(w, f, c) == /\ phase = "fixup" /\ job[w] = Idle /\ f \in queue
                        /\ plan[f] = {c}
                        /\ queue' = queue \ {f}
                        /\ db' = [db EXCEPT ![f] = temp[<<c, f>>]]
                        /\ UNCHANGED <<phase, has, plan, job, temp, stale, runs>>

(* do_fixup, 64-67                                                         *)
Rename(w, f, c) == /\ phase = "fixup" /\ job[w] = Idle /\ f \in queue
                   /\ plan[f] = {c}
                   /\ queue' = queue \ {f}
                   /\ db' = [db EXCEPT ![f] = temp[<<c, f>>]]
                   /\ temp' = [temp EXCEPT ![<<c, f>>] = None]
                   /\ UNCHANGED <<phase, has, plan, job, stale, runs>>

(* Lines 69-72: the first file                                             *)
MergeFirst(w, f, c) == /\ phase = "fixup" /\ job[w] = Idle /\ f \in queue
                       /\ c \in plan[f] /\ plan[f] # {c}
                       /\ queue' = queue \ {f}
                       /\ job' = [job EXCEPT ![w] = [kind |-> "merge", func |-> f,
                                    todo |-> plan[f] \ {c}, acc |-> temp[<<c, f>>]]]
                       /\ UNCHANGED <<phase, has, plan, temp, db, stale, runs>>

Plus(a, b) == [x \in Chunk |-> a[x] + b[x]]

(* Lines 73-77, _merge_dict: what could not be unpickled is a string, and  *)
(* two strings add up to one                                               *)
MergeNext(w, c) ==
  /\ job[w].kind = "merge" /\ c \in job[w].todo
  /\ (job[w].acc = Cut) = (temp[<<c, job[w].func>>] = Cut)
  /\ job' = [job EXCEPT ![w] = [kind |-> "merge", func |-> job[w].func,
               todo |-> job[w].todo \ {c},
               acc |-> IF job[w].acc = Cut THEN Cut
                       ELSE Plus(job[w].acc, temp[<<c, job[w].func>>])]]
  /\ UNCHANGED <<phase, has, queue, plan, temp, db, stale, runs>>

(* mutant: the pool is left running when the main process dies             *)
MergeError_running(w, c) ==
  /\ job[w].kind = "merge" /\ c \in job[w].todo
  /\ (job[w].acc = Cut) # (temp[<<c, job[w].func>>] = Cut)
  /\ phase' = "idle" /\ job' = [job EXCEPT ![w] = Idle] /\ queue' = {}
  /\ UNCHANGED <<has, plan, temp, db, stale, runs>>

(* mutant: a task that failed is put back into the queue                   *)
MergeError_retry(w, c) ==
  /\ job[w].kind = "merge" /\ c \in job[w].todo
  /\ (job[w].acc = Cut) # (temp[<<c, job[w].func>>] = Cut)
  /\ job' = [job EXCEPT ![w] = Idle] /\ queue' = queue \cup {job[w].func}
  /\ UNCHANGED <<phase, has, plan, temp, db, stale, runs>>

(* A string and a dictionary do not add up: the exception leaves the worker *)
(* and, through pool.map, the program.                                     *)
MergeError(w, c) ==
  /\ job[w].kind = "merge" /\ c \in job[w].todo
  /\ (job[w].acc = Cut) # (temp[<<c, job[w].func>>] = Cut)
  /\ phase' = "idle" /\ job' = [x \in Worker |-> Idle] /\ queue' = {}
  /\ UNCHANGED <<has, plan, temp, db, stale, runs>>

(* mutant: the merged files are removed before the result is saved         *)
OpenDb_remove(w) ==
  /\ job[w].kind = "merge" /\ job[w].todo = {}
  /\ job' = [job EXCEPT ![w] = [kind |-> "save", func |-> job[w].func, acc |-> job[w].acc]]
  /\ temp' = [x \in DOMAIN temp |-> IF x[2] = job[w].func THEN None ELSE temp[x]]
  /\ db' = [db EXCEPT ![job[w].func] = Cut]
  /\ UNCHANGED <<phase, has, queue, plan, stale, runs>>

(* Line 78, pathbin.py:98-102                                              *)
OpenDb(w) == /\ job[w].kind = "merge" /\ job[w].todo = {}
             /\ job' = [job EXCEPT ![w] = [kind |-> "save", func |-> job[w].func,
                                           acc |-> job[w].acc]]
             /\ db' = [db EXCEPT ![job[w].func] = Cut]
             /\ UNCHANGED <<phase, has, queue, plan, temp, stale, runs>>

DumpDb(w) == /\ job[w].kind = "save"
             /\ job' = [job EXCEPT ![w] = [kind |-> "remove", func |-> job[w].func,
                                           todo |-> plan[job[w].func]]]
             /\ db' = [db EXCEPT ![job[w].func] = job[w].acc]
             /\ UNCHANGED <<phase, has, queue, plan, temp, stale, runs>>

(* Lines 81-82                                                             *)
RemoveTemp(w, c) == /\ job[w].kind = "remove" /\ c \in job[w].todo
                    /\ job' = [job EXCEPT ![w] = [kind |-> "remove", func |-> job[w].func,
                                                  todo |-> job[w].todo \ {c}]]
                    /\ temp' = [temp EXCEPT ![<<c, job[w].func>>] = None]
                    /\ UNCHANGED <<phase, has, queue, plan, db, stale, runs>>

EndFixup(w) == /\ job[w].kind = "remove" /\ job[w].todo = {}
               /\ job' = [job EXCEPT ![w] = Idle]
               /\ UNCHANGED <<phase, has, queue, plan, temp, db, stale, runs>>

(* Lines 146-147 and 96                                                    *)
Finish == /\ phase = "fixup" /\ queue = {} /\ AllIdle
          /\ phase' = "done"
          /\ UNCHANGED <<has, queue, plan, job, temp, db, stale, runs>>

(* All processes are killed; the files stay as they are.                   *)
Crash == /\ phase \in {"pickle", "fixup"}
         /\ phase' = "idle" /\ job' = [x \in Worker |-> Idle] /\ queue' = {}
         /\ UNCHANGED <<has, plan, temp, db, stale, runs>>

Work(w) == \/ DumpTemp(w) \/ EndChunk(w) \/ OpenDb(w) \/ DumpDb(w) \/ EndFixup(w)
           \/ \E f \in Func : OpenTemp(w, f)
           \/ \E c \in Chunk : TakeChunk(w, c) \/ MergeNext(w, c) \/ MergeError(w, c)
                               \/ RemoveTemp(w, c)
           \/ \E f \in Func, c \in Chunk : Rename(w, f, c) \/ MergeFirst(w, f, c)
Main == StartFixup \/ Finish
Next == Start \/ Crash \/ Main \/ \E w \in Worker : Work(w)

(* The operating system runs every worker and the main process.            *)
Spec == Init /\ [][Next]_vars /\ WF_vars(Main) /\ \A w \in Worker : WF_vars(Work(w))
-----------------------------------------------------------------------------
Job == [kind : {"idle"}]
  \cup [kind : {"dump"}, chunk : Chunk, todo : SUBSET Func]
  \cup [kind : {"write"}, chunk : Chunk, todo : SUBSET Func, func : Func]
  \cup [kind : {"merge"}, func : Func, todo : SUBSET Chunk, acc : Content \cup {Cut}]
  \cup [kind : {"save"}, func : Func, acc : Content \cup {Cut}]
  \cup [kind : {"remove"}, func : Func, todo : SUBSET Chunk]

(* The types of the variables; outside a run no worker has a job.          *)
TypeOK ==
  /\ phase \in {"idle", "pickle", "fixup", "done"}
  /\ has \in Logs
  /\ queue \subseteq (IF phase = "pickle" THEN Chunk ELSE Func)
  /\ plan \in [Func -> SUBSET Chunk]
  /\ job \in [Worker -> Job]
  /\ phase \in {"idle", "done"} => AllIdle /\ queue = {}
  /\ temp \in [Chunk \X Func -> Content \cup {None, Cut}]
  /\ db \in [Func -> Content \cup {None, Cut}]
  /\ stale \in BOOLEAN /\ runs \in 0 .. MaxRuns

(* A finished run leaves, for every function of the logs, a database file  *)
(* with the paths of every chunk exactly once (_merge_dict adds, so a file *)
(* merged twice would count its paths twice), whichever worker has done    *)
(* what when, and although earlier runs were killed anywhere, also between *)
(* saving a merged file and removing its parts. The one condition is that  *)
(* the earlier runs left no temporary file the new one does not rewrite.   *)
ExactlyOnce ==
  phase = "done" /\ ~stale =>
    \A f \in Func : Owners(f) # {} =>
      db[f] = [c \in Chunk |-> IF c \in Owners(f) THEN 1 ELSE 0]

(* A finished run leaves no temporary file, also not of earlier runs.      *)
NoTempsLeft == phase = "done" => \A x \in Chunk \X Func : temp[x] = None

(* From the moment all chunks are parsed, the paths of every chunk are on  *)
(* disk whole, in their temporary file or in the database file of their    *)
(* function: wherever the second pass is killed, whatever earlier runs     *)
(* left. (In the first pass they may be in neither: a rerun truncates a    *)
(* temporary file before it writes it again.)                              *)
NeverNeither ==
  phase \in {"fixup", "done"} =>
    \A f \in Func : \A c \in Owners(f) :
      temp[<<c, f>>] = One(c) \/ (db[f] \in Content /\ db[f][c] >= 1)

(* A started run ends: it is done, or it is killed.                        *)
RunEnds == phase \in {"pickle", "fixup"} ~> phase \in {"idle", "done"}
=============================================================================
