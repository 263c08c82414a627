--------------------------- MODULE PicklerProofs ---------------------------
(***************************************************************************)
(* Proofs about Pickler, for any logs, workers and numbers of runs.        *)
(***************************************************************************)
EXTENDS Pickler, TLAPS

Exact(f) == [c \in Chunk |-> IF c \in Owners(f) THEN 1 ELSE 0]
Works(w, f) == job[w].kind \in {"merge", "save", "remove"} /\ job[w].func = f

(* What a job may be in each phase                                         *)
JobsOfPhase ==
  \A w \in Worker :
    /\ phase = "pickle" => job[w].kind \in {"idle", "dump", "write"}
    /\ phase = "fixup" => job[w].kind \in {"idle", "merge", "save", "remove"}

(* While the temporary files are written: every file of the logs is there, *)
(* whole, or somebody has yet to write it, and there are no others.        *)
ToWrite(c, f) ==
  \/ c \in queue
  \/ \E w \in Worker : /\ job[w].kind \in {"dump", "write"} /\ job[w].chunk = c
                       /\ f \in job[w].todo \/ (job[w].kind = "write" /\ job[w].func = f)
WriteInv ==
  /\ phase = "pickle" =>
       \A c \in Chunk : \A f \in has[c] : temp[<<c, f>>] = One(c) \/ ToWrite(c, f)
  /\ phase = "pickle" /\ ~stale =>
       \A c \in Chunk, f \in Func : temp[<<c, f>>] # None => f \in has[c]
  /\ \A w \in Worker : job[w].kind \in {"dump", "write"} =>
       /\ job[w].todo \subseteq has[job[w].chunk]
       /\ job[w].kind = "write" => job[w].func \in has[job[w].chunk]

(* While they are merged: a temporary file that is there is one of the     *)
(* plan of its function, and somebody has yet to take it away.             *)
ToTake(c, f) ==
  \/ f \in queue
  \/ \E w \in Worker : Works(w, f) /\ (job[w].kind = "remove" => c \in job[w].todo)
TakeInv ==
  /\ phase = "fixup" => \A c \in Chunk, f \in Func :
       temp[<<c, f>>] # None => c \in plan[f] /\ ToTake(c, f)
  /\ phase = "fixup" => \A f \in queue : \A c \in plan[f] : temp[<<c, f>>] # None
  /\ phase = "fixup" => \A w \in Worker : job[w].kind = "merge" =>
       \A c \in job[w].todo : temp[<<c, job[w].func>>] # None
  /\ phase = "done" => \A c \in Chunk, f \in Func : temp[<<c, f>>] = None

(* A function is one worker's.                                             *)
OwnInv == phase = "fixup" =>
  \A w \in Worker, f \in Func : Works(w, f) =>
    /\ f \notin queue
    /\ \A v \in Worker : Works(v, f) => v = w

(* If all temporary files are of this run: those of a function not yet     *)
(* finished are whole, what is merged of them has each once, and the       *)
(* finished functions are in the database.                                 *)
DueOrDone(f) == \/ f \in queue
                \/ \E w \in Worker : Works(w, f)
                \/ db[f] = Exact(f)
MergeRight(w) ==
  /\ job[w].kind = "merge" =>
       /\ job[w].todo \subseteq plan[job[w].func]
       /\ \A c \in job[w].todo : temp[<<c, job[w].func>>] = One(c)
       /\ job[w].acc = [c \in Chunk |->
            IF c \in plan[job[w].func] \ job[w].todo THEN 1 ELSE 0]
  /\ job[w].kind = "save" => job[w].acc = Exact(job[w].func)
  /\ job[w].kind = "remove" => db[job[w].func] = Exact(job[w].func)
MergeInv == phase = "fixup" /\ ~stale =>
  /\ \A f \in Func : plan[f] = Owners(f)
  /\ \A f \in queue : \A c \in plan[f] : temp[<<c, f>>] = One(c)
  /\ \A f \in Func : plan[f] # {} => DueOrDone(f)
  /\ \A w \in Worker : MergeRight(w)

Inv == /\ TypeOK /\ JobsOfPhase /\ WriteInv /\ TakeInv /\ OwnInv /\ MergeInv
       /\ ExactlyOnce
-----------------------------------------------------------------------------
(* The fields of a job by its kind                                         *)
JobShape(w) ==
  /\ job[w].kind \in {"idle", "dump", "write", "merge", "save", "remove"}
  /\ job[w].kind = "idle" => job[w] = Idle
  /\ job[w].kind = "dump" => job[w].chunk \in Chunk /\ job[w].todo \subseteq Func
  /\ job[w].kind = "write" => /\ job[w].chunk \in Chunk /\ job[w].todo \subseteq Func
                              /\ job[w].func \in Func
  /\ job[w].kind = "merge" => /\ job[w].func \in Func /\ job[w].todo \subseteq Chunk
                              /\ job[w].acc \in Content \cup {Cut}
  /\ job[w].kind = "save" => job[w].func \in Func /\ job[w].acc \in Content \cup {Cut}
  /\ job[w].kind = "remove" => job[w].func \in Func /\ job[w].todo \subseteq Chunk

LEMMA JobTypes ==
  ASSUME TypeOK
  PROVE  \A w \in Worker : JobShape(w)
<1>1. ASSUME NEW w \in Worker PROVE job[w] \in Job
  BY DEF TypeOK
<1>. QED  BY <1>1, SMTT(60) DEF Job, Idle, JobShape

LEMMA Kinds == Idle \in Job /\ Idle.kind = "idle"
BY DEF Job, Idle

LEMMA Contents ==
  /\ \A c \in Chunk : One(c) \in Content /\ One(c) # None /\ One(c) # Cut
  /\ \A a, b \in Content : Plus(a, b) \in Content
<1>1. \A c \in Chunk : One(c) \in Content
  BY DEF One, Content
<1>2. \A a, b \in Content : Plus(a, b) \in Content
  BY DEF Plus, Content
<1>. QED  BY <1>1, <1>2, FileAssumption

LEMMA InitInv == Init => Inv
<1>. SUFFICES ASSUME Init PROVE Inv
  OBVIOUS
<1>1. TypeOK
  <2>1. job \in [Worker -> Job] /\ AllIdle
    BY Kinds DEF Init, AllIdle
  <2>2. phase = "idle" /\ has \in Logs /\ queue = {} /\ stale \in BOOLEAN
    BY DEF Init
  <2>3. runs \in 0 .. MaxRuns
    BY RunsAssumption DEF Init
  <2>4. plan \in [Func -> SUBSET Chunk]
    BY DEF Init
  <2>5. temp \in [Chunk \X Func -> Content \cup {None, Cut}]
    BY DEF Init
  <2>6. db \in [Func -> Content \cup {None, Cut}]
    BY DEF Init
  <2>. QED  BY <2>1, <2>2, <2>3, <2>4, <2>5, <2>6 DEF TypeOK
<1>2. JobsOfPhase /\ WriteInv /\ TakeInv /\ OwnInv /\ MergeInv /\ ExactlyOnce
  BY Kinds DEF Init, AllIdle, JobsOfPhase, WriteInv, TakeInv, OwnInv, MergeInv, ExactlyOnce
<1>. QED  BY <1>1, <1>2 DEF Inv
LEMMA PhaseOfKind ==
  ASSUME TypeOK, JobsOfPhase
  PROVE  \A w \in Worker :
           /\ job[w].kind \in {"dump", "write"} => phase = "pickle"
           /\ job[w].kind \in {"merge", "save", "remove"} => phase = "fixup"
<1>1. \A w \in Worker : phase \in {"idle", "done"} => job[w].kind = "idle"
  BY Kinds DEF TypeOK, AllIdle
<1>. QED  BY <1>1, JobTypes DEF TypeOK, JobsOfPhase, JobShape

LEMMA TakeChunkInv ==
  ASSUME Inv, NEW w \in Worker, NEW c \in Chunk, TakeChunk(w, c)
  PROVE  Inv'
<1>. USE DEF TakeChunk
<1>0. /\ TypeOK /\ JobsOfPhase /\ WriteInv /\ TakeInv /\ OwnInv /\ MergeInv /\ ExactlyOnce
      /\ \A v \in Worker : JobShape(v)
      /\ \A v \in Worker :
           /\ job[v].kind \in {"dump", "write"} => phase = "pickle"
           /\ job[v].kind \in {"merge", "save", "remove"} => phase = "fixup"
  BY JobTypes, PhaseOfKind DEF Inv
<1>p. phase = "pickle" /\ phase' = "pickle"
  BY <1>0
<1>1. TypeOK'
  <2>1. has[c] \in SUBSET Func
    BY <1>0, LogsAssumption DEF TypeOK
  <2>2. [kind |-> "dump", chunk |-> c, todo |-> has[c]] \in Job
    BY <2>1 DEF Job
  <2>. QED  BY <1>0, <2>2 DEF TypeOK
<1>2. JobsOfPhase'
  BY <1>0, <1>1, Kinds DEF TypeOK, JobsOfPhase, JobShape, AllIdle
<1>3. WriteInv'
  BY <1>0, <1>1, Kinds, Contents DEF TypeOK, WriteInv, JobShape, ToWrite, AllIdle
<1>4. TakeInv'
  BY <1>p DEF TakeInv
<1>5. OwnInv'
  BY <1>p DEF OwnInv
<1>6. MergeInv'
  BY <1>p DEF MergeInv
<1>7. ExactlyOnce'
  BY <1>p DEF ExactlyOnce
<1>. QED  BY <1>1, <1>2, <1>3, <1>4, <1>5, <1>6, <1>7 DEF Inv

LEMMA OpenTempInv ==
  ASSUME Inv, NEW w \in Worker, NEW f \in Func, OpenTemp(w, f)
  PROVE  Inv'
<1>. USE DEF OpenTemp
<1>0. /\ TypeOK /\ JobsOfPhase /\ WriteInv /\ TakeInv /\ OwnInv /\ MergeInv /\ ExactlyOnce
      /\ \A v \in Worker : JobShape(v)
      /\ \A v \in Worker :
           /\ job[v].kind \in {"dump", "write"} => phase = "pickle"
           /\ job[v].kind \in {"merge", "save", "remove"} => phase = "fixup"
  BY JobTypes, PhaseOfKind DEF Inv
<1>p. phase = "pickle" /\ phase' = "pickle"
  <2>1. job[w].kind \in {"dump", "write"}
    OBVIOUS
  <2>2. phase = "pickle"
    BY <1>0, <2>1
  <2>. QED  BY <2>2
<1>1. TypeOK'
  BY <1>0, Kinds, Contents DEF TypeOK, Job, JobShape, AllIdle
<1>2. JobsOfPhase'
  BY <1>0, <1>1, Kinds DEF TypeOK, JobsOfPhase, JobShape, AllIdle
<1>3. WriteInv'
  BY <1>0, <1>1, Kinds, Contents DEF TypeOK, WriteInv, JobShape, ToWrite, AllIdle
<1>4. TakeInv'
  BY <1>p DEF TakeInv
<1>5. OwnInv'
  BY <1>p DEF OwnInv
<1>6. MergeInv'
  BY <1>p DEF MergeInv
<1>7. ExactlyOnce'
  BY <1>p DEF ExactlyOnce
<1>. QED  BY <1>1, <1>2, <1>3, <1>4, <1>5, <1>6, <1>7 DEF Inv

LEMMA DumpTempInv ==
  ASSUME Inv, NEW w \in Worker, DumpTemp(w)
  PROVE  Inv'
<1>. USE DEF DumpTemp
<1>0. /\ TypeOK /\ JobsOfPhase /\ WriteInv /\ TakeInv /\ OwnInv /\ MergeInv /\ ExactlyOnce
      /\ \A v \in Worker : JobShape(v)
      /\ \A v \in Worker :
           /\ job[v].kind \in {"dump", "write"} => phase = "pickle"
           /\ job[v].kind \in {"merge", "save", "remove"} => phase = "fixup"
  BY JobTypes, PhaseOfKind DEF Inv
<1>p. phase = "pickle" /\ phase' = "pickle"
  <2>1. job[w].kind \in {"dump", "write"}
    OBVIOUS
  <2>2. phase = "pickle"
    BY <1>0, <2>1
  <2>. QED  BY <2>2
<1>1. TypeOK'
  BY <1>0, Kinds, Contents DEF TypeOK, Job, JobShape, AllIdle
<1>2. JobsOfPhase'
  BY <1>0, <1>1, Kinds DEF TypeOK, JobsOfPhase, JobShape, AllIdle
<1>3. WriteInv'
  BY <1>0, <1>1, Kinds, Contents DEF TypeOK, WriteInv, JobShape, ToWrite, AllIdle
<1>4. TakeInv'
  BY <1>p DEF TakeInv
<1>5. OwnInv'
  BY <1>p DEF OwnInv
<1>6. MergeInv'
  BY <1>p DEF MergeInv
<1>7. ExactlyOnce'
  BY <1>p DEF ExactlyOnce
<1>. QED  BY <1>1, <1>2, <1>3, <1>4, <1>5, <1>6, <1>7 DEF Inv

LEMMA EndChunkInv ==
  ASSUME Inv, NEW w \in Worker, EndChunk(w)
  PROVE  Inv'
<1>. USE DEF EndChunk
<1>0. /\ TypeOK /\ JobsOfPhase /\ WriteInv /\ TakeInv /\ OwnInv /\ MergeInv /\ ExactlyOnce
      /\ \A v \in Worker : JobShape(v)
      /\ \A v \in Worker :
           /\ job[v].kind \in {"dump", "write"} => phase = "pickle"
           /\ job[v].kind \in {"merge", "save", "remove"} => phase = "fixup"
  BY JobTypes, PhaseOfKind DEF Inv
<1>p. phase = "pickle" /\ phase' = "pickle"
  <2>1. job[w].kind \in {"dump", "write"}
    OBVIOUS
  <2>2. phase = "pickle"
    BY <1>0, <2>1
  <2>. QED  BY <2>2
<1>1. TypeOK'
  BY <1>0, Kinds, Contents DEF TypeOK, Job, JobShape, AllIdle
<1>2. JobsOfPhase'
  BY <1>0, <1>1, Kinds DEF TypeOK, JobsOfPhase, JobShape, AllIdle
<1>3. WriteInv'
  <2>1. job'[w] = Idle /\ \A v \in Worker : v # w => job'[v] = job[v]
    BY <1>0 DEF TypeOK
  <2>2. \A c \in Chunk, f \in Func : ToWrite(c, f) => ToWrite(c, f)'
    BY <2>1 DEF ToWrite
  <2>3. \A c \in Chunk : has[c] \subseteq Func
    BY <1>0, LogsAssumption DEF TypeOK
  <2>4. \A c \in Chunk : \A f \in has[c] : temp[<<c, f>>] = One(c) \/ ToWrite(c, f)'
    BY <1>0, <1>p, <2>2, <2>3 DEF WriteInv
  <2>. QED  BY <1>0, <1>p, <2>1, <2>4, Kinds DEF WriteInv
<1>4. TakeInv'
  BY <1>p DEF TakeInv
<1>5. OwnInv'
  BY <1>p DEF OwnInv
<1>6. MergeInv'
  BY <1>p DEF MergeInv
<1>7. ExactlyOnce'
  BY <1>p DEF ExactlyOnce
<1>. QED  BY <1>1, <1>2, <1>3, <1>4, <1>5, <1>6, <1>7 DEF Inv

LEMMA StartFixupInv ==
  ASSUME Inv, StartFixup
  PROVE  Inv'
<1>. USE DEF StartFixup
<1>0. /\ TypeOK /\ JobsOfPhase /\ WriteInv /\ TakeInv /\ OwnInv /\ MergeInv /\ ExactlyOnce
      /\ \A v \in Worker : JobShape(v)
      /\ \A v \in Worker :
           /\ job[v].kind \in {"dump", "write"} => phase = "pickle"
           /\ job[v].kind \in {"merge", "save", "remove"} => phase = "fixup"
  BY JobTypes, PhaseOfKind DEF Inv
<1>1. TypeOK'
  <2>1. plan' \in [Func -> SUBSET Chunk]
    BY DEF Temps
  <2>2. queue' \subseteq Func
    OBVIOUS
  <2>. QED  BY <1>0, <2>1, <2>2 DEF TypeOK
<1>2. JobsOfPhase'
  BY <1>0, <1>1, Kinds DEF TypeOK, JobsOfPhase, JobShape, AllIdle
<1>3. WriteInv'
  BY <1>0, <1>1, Kinds, Contents DEF TypeOK, WriteInv, JobShape, ToWrite, AllIdle
<1>4. TakeInv'
  BY <1>0, <1>1, Kinds DEF TypeOK, TakeInv, JobShape, ToTake, Works, AllIdle, Temps
<1>5. OwnInv'
  BY <1>0, <1>1, Kinds DEF TypeOK, OwnInv, JobShape, Works, AllIdle
<1>6. MergeInv'
  <2>. SUFFICES ASSUME ~stale PROVE MergeInv'
    BY DEF MergeInv
  <2>1. \A w \in Worker : job[w].kind = "idle"
    BY Kinds DEF AllIdle
  <2>a. \A c \in Chunk : has[c] \subseteq Func
    BY <1>0, LogsAssumption DEF TypeOK
  <2>b. \A c \in Chunk, f \in Func : ~ToWrite(c, f)
    BY <2>1 DEF ToWrite
  <2>2. \A c \in Chunk : \A f \in has[c] : temp[<<c, f>>] = One(c)
    BY <1>0, <2>a, <2>b DEF WriteInv
  <2>3. \A c \in Chunk, f \in Func : temp[<<c, f>>] # None <=> f \in has[c]
    <3>1. \A c \in Chunk, f \in Func : temp[<<c, f>>] # None => f \in has[c]
      BY <1>0 DEF WriteInv
    <3>2. \A c \in Chunk : \A f \in has[c] : temp[<<c, f>>] # None
      BY <2>2, Contents
    <3>. QED  BY <3>1, <3>2
  <2>4. \A f \in Func : plan'[f] = Owners(f)
    BY <2>3 DEF Temps, Owners
  <2>5. \A f \in queue' : \A c \in plan'[f] : temp[<<c, f>>] = One(c)
    BY <2>2, <2>4 DEF Owners
  <2>6. \A f \in Func : plan'[f] # {} => f \in queue'
    OBVIOUS
  <2>. QED  BY <2>1, <2>4, <2>5, <2>6 DEF MergeInv, MergeRight, DueOrDone, Owners
<1>7. ExactlyOnce'
  BY <1>0 DEF ExactlyOnce, Owners
<1>. QED  BY <1>1, <1>2, <1>3, <1>4, <1>5, <1>6, <1>7 DEF Inv

LEMMA RenameInv ==
  ASSUME Inv, NEW w \in Worker, NEW f \in Func, NEW c \in Chunk, Rename(w, f, c)
  PROVE  Inv'
<1>. USE DEF Rename
<1>0. /\ TypeOK /\ JobsOfPhase /\ WriteInv /\ TakeInv /\ OwnInv /\ MergeInv /\ ExactlyOnce
      /\ \A v \in Worker : JobShape(v)
      /\ \A v \in Worker :
           /\ job[v].kind \in {"dump", "write"} => phase = "pickle"
           /\ job[v].kind \in {"merge", "save", "remove"} => phase = "fixup"
  BY JobTypes, PhaseOfKind DEF Inv
<1>1. TypeOK'
  BY <1>0, Kinds, Contents DEF TypeOK, Job, JobShape, AllIdle
<1>2. JobsOfPhase'
  BY <1>0, <1>1, Kinds DEF TypeOK, JobsOfPhase, JobShape, AllIdle
<1>3. WriteInv'
  BY <1>0, <1>1, Kinds, Contents DEF TypeOK, WriteInv, JobShape, ToWrite, AllIdle
<1>4. TakeInv'
  <2>1. \A g \in Func, d \in Chunk : temp'[<<d, g>>] = IF d = c /\ g = f THEN None ELSE temp[<<d, g>>]
    BY <1>0 DEF TypeOK
  <2>2. \A v \in Worker : ~Works(v, f)
    BY <1>0 DEF OwnInv
  <2>3. \A d \in Chunk, g \in Func : temp'[<<d, g>>] # None => d \in plan[g] /\ ToTake(d, g)'
    BY <1>0, <2>1 DEF TakeInv, ToTake, Works
  <2>4. \A g \in queue' : \A d \in plan[g] : temp'[<<d, g>>] # None
    <3>1. \A g \in queue' : g \in Func /\ g \in queue /\ g # f /\ plan[g] \subseteq Chunk
      BY <1>0 DEF TypeOK
    <3>2. \A g \in queue : \A d \in plan[g] : temp[<<d, g>>] # None
      BY <1>0 DEF TakeInv
    <3>3. ASSUME NEW g \in queue', NEW d \in plan[g] PROVE temp'[<<d, g>>] = temp[<<d, g>>]
      <4>1. g \in Func /\ d \in Chunk /\ g # f
        BY <3>1
      <4>. QED  BY <2>1, <4>1
    <3>. QED  BY <3>1, <3>2, <3>3
  <2>5. \A v \in Worker : job[v].kind = "merge" => \A d \in job[v].todo : temp'[<<d, job[v].func>>] # None
    BY <1>0, <2>1, <2>2 DEF TakeInv, Works, JobShape
  <2>. QED  BY <2>3, <2>4, <2>5 DEF TakeInv
<1>5. OwnInv'
  BY <1>0, <1>1, Kinds DEF TypeOK, OwnInv, JobShape, Works, AllIdle
<1>6. MergeInv'
  <2>. SUFFICES ASSUME ~stale PROVE MergeInv'
    BY DEF MergeInv
  <2>1. \A g \in Func, d \in Chunk : temp'[<<d, g>>] = IF d = c /\ g = f THEN None ELSE temp[<<d, g>>]
    BY <1>0 DEF TypeOK
  <2>2. \A v \in Worker : ~Works(v, f)
    BY <1>0 DEF OwnInv
  <2>3. \A g \in Func : plan[g] = Owners(g)
    BY <1>0 DEF MergeInv
  <2>4. db'[f] = Exact(f)
    <3>1. db'[f] = One(c)
      BY <1>0 DEF MergeInv, TypeOK
    <3>2. Owners(f) = {c}
      BY <2>3
    <3>. QED  BY <3>1, <3>2 DEF One, Exact
  <2>5. \A g \in queue' : \A d \in plan[g] : temp'[<<d, g>>] = One(d)
    <3>1. \A g \in queue' : g \in Func /\ g \in queue /\ g # f /\ plan[g] \subseteq Chunk
      BY <1>0 DEF TypeOK
    <3>2. \A g \in queue : \A d \in plan[g] : temp[<<d, g>>] = One(d)
      BY <1>0 DEF MergeInv
    <3>3. ASSUME NEW g \in queue', NEW d \in plan[g] PROVE temp'[<<d, g>>] = temp[<<d, g>>]
      <4>1. g \in Func /\ d \in Chunk /\ g # f
        BY <3>1
      <4>. QED  BY <2>1, <4>1
    <3>. QED  BY <3>1, <3>2, <3>3
  <2>6. \A g \in Func : plan[g] # {} => DueOrDone(g)'
    <3>. SUFFICES ASSUME NEW g \in Func, plan[g] # {} PROVE DueOrDone(g)'
      OBVIOUS
    <3>1. CASE g = f
      BY <2>4, <3>1 DEF DueOrDone, Exact, Owners
    <3>2. CASE g # f
      <4>1. DueOrDone(g)
        BY <1>0 DEF MergeInv
      <4>2. db'[g] = db[g]
        BY <1>0, <3>2 DEF TypeOK
      <4>. QED  BY <3>2, <4>1, <4>2 DEF DueOrDone, Works, Exact, Owners
    <3>. QED  BY <3>1, <3>2
  <2>7. \A v \in Worker : MergeRight(v)'
    <3>. SUFFICES ASSUME NEW v \in Worker PROVE MergeRight(v)'
      OBVIOUS
    <3>1. MergeRight(v) /\ JobShape(v) /\ ~Works(v, f)
      BY <1>0, <2>2 DEF MergeInv
    <3>2. job[v].kind = "merge" => \A d \in job[v].todo : temp'[<<d, job[v].func>>] = temp[<<d, job[v].func>>]
      BY <3>1, <2>1 DEF JobShape, Works
    <3>3. job[v].kind = "remove" => db'[job[v].func] = db[job[v].func]
      BY <3>1, <1>0 DEF JobShape, Works, TypeOK
    <3>. QED  BY <3>1, <3>2, <3>3 DEF MergeRight, Exact, Owners
  <2>. QED  BY <2>3, <2>5, <2>6, <2>7 DEF MergeInv, Owners
<1>7. ExactlyOnce'
  BY <1>0 DEF ExactlyOnce, Owners
<1>. QED  BY <1>1, <1>2, <1>3, <1>4, <1>5, <1>6, <1>7 DEF Inv

LEMMA MergeFirstInv ==
  ASSUME Inv, NEW w \in Worker, NEW f \in Func, NEW c \in Chunk, MergeFirst(w, f, c)
  PROVE  Inv'
<1>. USE DEF MergeFirst
<1>0. /\ TypeOK /\ JobsOfPhase /\ WriteInv /\ TakeInv /\ OwnInv /\ MergeInv /\ ExactlyOnce
      /\ \A v \in Worker : JobShape(v)
      /\ \A v \in Worker :
           /\ job[v].kind \in {"dump", "write"} => phase = "pickle"
           /\ job[v].kind \in {"merge", "save", "remove"} => phase = "fixup"
  BY JobTypes, PhaseOfKind DEF Inv
<1>1. TypeOK'
  <2>1. temp[<<c, f>>] \in Content \cup {Cut}
    BY <1>0 DEF TypeOK, TakeInv
  <2>2. [kind |-> "merge", func |-> f, todo |-> plan[f] \ {c}, acc |-> temp[<<c, f>>]] \in Job
    BY <1>0, <2>1 DEF Job, TypeOK
  <2>. QED  BY <1>0, <2>2 DEF TypeOK
<1>2. JobsOfPhase'
  BY <1>0, <1>1, Kinds DEF TypeOK, JobsOfPhase, JobShape, AllIdle
<1>3. WriteInv'
  BY <1>0, <1>1, Kinds, Contents DEF TypeOK, WriteInv, JobShape, ToWrite, AllIdle
<1>4. TakeInv'
  BY <1>0, <1>1, Kinds DEF TypeOK, TakeInv, JobShape, ToTake, Works, AllIdle, Temps
<1>5. OwnInv'
  BY <1>0, <1>1, Kinds DEF TypeOK, OwnInv, JobShape, Works, AllIdle
<1>6. MergeInv'
  <2>. SUFFICES ASSUME ~stale PROVE MergeInv'
    BY DEF MergeInv
  <2>1. /\ \A g \in Func : plan[g] = Owners(g)
        /\ \A g \in queue : \A d \in plan[g] : temp[<<d, g>>] = One(d)
        /\ \A g \in Func : plan[g] # {} => DueOrDone(g)
        /\ \A v \in Worker : MergeRight(v)
    BY <1>0 DEF MergeInv
  <2>2. \A v \in Worker : v # w => job'[v] = job[v]
    BY <1>0 DEF TypeOK
  <2>3. job'[w] = [kind |-> "merge", func |-> f, todo |-> plan[f] \ {c}, acc |-> temp[<<c, f>>]]
    BY <1>0 DEF TypeOK
  <2>4. MergeRight(w)'
    <3>1. temp[<<c, f>>] = One(c)
      BY <2>1
    <3>2. One(c) = [x \in Chunk |-> IF x \in plan[f] \ (plan[f] \ {c}) THEN 1 ELSE 0]
      BY DEF One
    <3>3. \A d \in plan[f] \ {c} : temp[<<d, f>>] = One(d)
      BY <2>1
    <3>. QED  BY <2>3, <3>1, <3>2, <3>3 DEF MergeRight
  <2>5. \A v \in Worker : v # w => MergeRight(v)'
    BY <2>1, <2>2 DEF MergeRight, Exact, Owners
  <2>6. \A g \in queue' : \A d \in plan[g] : temp'[<<d, g>>] = One(d)
    BY <2>1
  <2>7. \A g \in Func : plan[g] # {} => DueOrDone(g)'
    <3>. SUFFICES ASSUME NEW g \in Func, plan[g] # {} PROVE DueOrDone(g)'
      OBVIOUS
    <3>1. CASE g = f
      BY <2>3, <3>1 DEF DueOrDone, Works
    <3>2. CASE g # f
      <4>1. CASE \E v \in Worker : Works(v, g)
        <5>1. PICK v \in Worker : Works(v, g)
          BY <4>1
        <5>2. v # w
          BY <5>1, Kinds DEF Works
        <5>. QED  BY <2>2, <5>1, <5>2 DEF DueOrDone, Works
      <4>2. CASE g \in queue \/ db[g] = Exact(g)
        BY <3>2, <4>2 DEF DueOrDone, Exact, Owners
      <4>. QED  BY <2>1, <4>1, <4>2 DEF DueOrDone
    <3>. QED  BY <3>1, <3>2
  <2>. QED  BY <2>1, <2>4, <2>5, <2>6, <2>7 DEF MergeInv, Owners
<1>7. ExactlyOnce'
  BY <1>0 DEF ExactlyOnce, Owners
<1>. QED  BY <1>1, <1>2, <1>3, <1>4, <1>5, <1>6, <1>7 DEF Inv

LEMMA MergeNextInv ==
  ASSUME Inv, NEW w \in Worker, NEW c \in Chunk, MergeNext(w, c)
  PROVE  Inv'
<1>. USE DEF MergeNext
<1>0. /\ TypeOK /\ JobsOfPhase /\ WriteInv /\ TakeInv /\ OwnInv /\ MergeInv /\ ExactlyOnce
      /\ \A v \in Worker : JobShape(v)
      /\ \A v \in Worker :
           /\ job[v].kind \in {"dump", "write"} => phase = "pickle"
           /\ job[v].kind \in {"merge", "save", "remove"} => phase = "fixup"
  BY JobTypes, PhaseOfKind DEF Inv
<1>1. TypeOK'
  <2>1. /\ job[w].func \in Func /\ job[w].todo \in SUBSET Chunk
        /\ job[w].acc \in Content \cup {Cut}
    BY <1>0 DEF JobShape
  <2>2. temp[<<c, job[w].func>>] \in Content \cup {Cut}
    BY <1>0, <2>1 DEF TypeOK, TakeInv
  <2>3. (IF job[w].acc = Cut THEN Cut ELSE Plus(job[w].acc, temp[<<c, job[w].func>>]))
          \in Content \cup {Cut}
    BY <2>1, <2>2, Contents
  <2>4. job'[w] \in Job
    BY <1>0, <2>1, <2>3 DEF Job, TypeOK
  <2>. QED  BY <1>0, <2>4 DEF TypeOK
<1>2. JobsOfPhase'
  BY <1>0, <1>1, Kinds DEF TypeOK, JobsOfPhase, JobShape, AllIdle
<1>3. WriteInv'
  BY <1>0, <1>1, Kinds, Contents DEF TypeOK, WriteInv, JobShape, ToWrite, AllIdle
<1>4. TakeInv'
  BY <1>0, <1>1, Kinds DEF TypeOK, TakeInv, JobShape, ToTake, Works, AllIdle, Temps
<1>5. OwnInv'
  BY <1>0, <1>1, Kinds DEF TypeOK, OwnInv, JobShape, Works, AllIdle
<1>6. MergeInv'
  <2>. SUFFICES ASSUME ~stale PROVE MergeInv'
    BY DEF MergeInv
  <2>1. /\ \A g \in Func : plan[g] = Owners(g)
        /\ \A g \in queue : \A d \in plan[g] : temp[<<d, g>>] = One(d)
        /\ \A g \in Func : plan[g] # {} => DueOrDone(g)
        /\ \A v \in Worker : MergeRight(v)
    BY <1>0 DEF MergeInv
  <2>2. \A v \in Worker : v # w => job'[v] = job[v]
    BY <1>0 DEF TypeOK
  <2>3. job'[w] = [kind |-> "merge", func |-> job[w].func, todo |-> job[w].todo \ {c},
                 acc |-> IF job[w].acc = Cut THEN Cut
                         ELSE Plus(job[w].acc, temp[<<c, job[w].func>>])]
    BY <1>0 DEF TypeOK
  <2>4. MergeRight(w)'
    <3>. DEFINE f == job[w].func
    <3>1. /\ c \in plan[f] /\ job[w].todo \subseteq plan[f] /\ temp[<<c, f>>] = One(c)
          /\ job[w].acc = [x \in Chunk |-> IF x \in plan[f] \ job[w].todo THEN 1 ELSE 0]
      BY <2>1 DEF MergeRight
    <3>2. job[w].acc # Cut
      BY <3>1, Contents
    <3>3. Plus(job[w].acc, One(c)) =
            [x \in Chunk |-> IF x \in plan[f] \ (job[w].todo \ {c}) THEN 1 ELSE 0]
      BY <3>1 DEF Plus, One
    <3>4. \A d \in job[w].todo : temp[<<d, f>>] = One(d)
      BY <2>1 DEF MergeRight
    <3>. QED  BY <2>3, <3>1, <3>2, <3>3, <3>4 DEF MergeRight
  <2>5. \A v \in Worker : v # w => MergeRight(v)'
    BY <2>1, <2>2 DEF MergeRight, Exact, Owners
  <2>6. \A g \in queue' : \A d \in plan[g] : temp'[<<d, g>>] = One(d)
    BY <2>1
  <2>7. \A g \in Func : plan[g] # {} => DueOrDone(g)'
    BY <1>0, <2>1, <2>2, <2>3 DEF DueOrDone, Works, Exact, Owners, JobShape
  <2>. QED  BY <2>1, <2>4, <2>5, <2>6, <2>7 DEF MergeInv, Owners
<1>7. ExactlyOnce'
  BY <1>0 DEF ExactlyOnce, Owners
<1>. QED  BY <1>1, <1>2, <1>3, <1>4, <1>5, <1>6, <1>7 DEF Inv

LEMMA OpenDbInv ==
  ASSUME Inv, NEW w \in Worker, OpenDb(w)
  PROVE  Inv'
<1>. USE DEF OpenDb
<1>0. /\ TypeOK /\ JobsOfPhase /\ WriteInv /\ TakeInv /\ OwnInv /\ MergeInv /\ ExactlyOnce
      /\ \A v \in Worker : JobShape(v)
      /\ \A v \in Worker :
           /\ job[v].kind \in {"dump", "write"} => phase = "pickle"
           /\ job[v].kind \in {"merge", "save", "remove"} => phase = "fixup"
  BY JobTypes, PhaseOfKind DEF Inv
<1>1. TypeOK'
  BY <1>0, Kinds, Contents DEF TypeOK, Job, JobShape, AllIdle
<1>2. JobsOfPhase'
  BY <1>0, <1>1, Kinds DEF TypeOK, JobsOfPhase, JobShape, AllIdle
<1>3. WriteInv'
  BY <1>0, <1>1, Kinds, Contents DEF TypeOK, WriteInv, JobShape, ToWrite, AllIdle
<1>4. TakeInv'
  BY <1>0, <1>1, Kinds DEF TypeOK, TakeInv, JobShape, ToTake, Works, AllIdle, Temps
<1>5. OwnInv'
  BY <1>0, <1>1, Kinds DEF TypeOK, OwnInv, JobShape, Works, AllIdle
<1>6. MergeInv'
  <2>. SUFFICES ASSUME ~stale PROVE MergeInv'
    BY DEF MergeInv
  <2>1. /\ \A g \in Func : plan[g] = Owners(g)
        /\ \A g \in queue : \A d \in plan[g] : temp[<<d, g>>] = One(d)
        /\ \A g \in Func : plan[g] # {} => DueOrDone(g)
        /\ \A v \in Worker : MergeRight(v)
    BY <1>0 DEF MergeInv
  <2>2. \A v \in Worker : v # w => job'[v] = job[v]
    BY <1>0 DEF TypeOK
  <2>3. job'[w] = [kind |-> "save", func |-> job[w].func, acc |-> job[w].acc]
    BY <1>0 DEF TypeOK
  <2>4. MergeRight(w)'
    <3>1. job[w].func \in Func
      BY <1>0 DEF JobShape
    <3>2. job[w].acc = [x \in Chunk |-> IF x \in Owners(job[w].func) THEN 1 ELSE 0]
      BY <2>1, <3>1 DEF MergeRight
    <3>. QED  BY <2>3, <3>2 DEF MergeRight, Exact, Owners
  <2>5. \A v \in Worker : v # w => MergeRight(v)'
    <3>. SUFFICES ASSUME NEW v \in Worker, v # w PROVE MergeRight(v)'
      OBVIOUS
    <3>1. MergeRight(v) /\ JobShape(v) /\ JobShape(w) /\ job'[v] = job[v]
      BY <1>0, <2>1, <2>2
    <3>2. job[v].kind \in {"merge", "save", "remove"} => job[v].func # job[w].func
      <4>1. phase = "fixup" /\ job[w].func \in Func /\ Works(w, job[w].func)
        BY <1>0 DEF JobShape, Works
      <4>2. ~Works(v, job[w].func)
        BY <1>0, <3>1, <4>1 DEF OwnInv
      <4>. QED  BY <4>2 DEF Works
    <3>3. job[v].kind = "remove" => db'[job[v].func] = db[job[v].func]
      BY <1>0, <3>1, <3>2 DEF TypeOK, JobShape
    <3>. QED  BY <3>1, <3>3 DEF MergeRight, Exact, Owners
  <2>6. \A g \in queue' : \A d \in plan[g] : temp'[<<d, g>>] = One(d)
    BY <2>1
  <2>7. \A g \in Func : plan[g] # {} => DueOrDone(g)'
    <3>. SUFFICES ASSUME NEW g \in Func, plan[g] # {} PROVE DueOrDone(g)'
      OBVIOUS
    <3>1. CASE g = job[w].func
      BY <2>3, <3>1 DEF DueOrDone, Works
    <3>2. CASE g # job[w].func
      <4>1. db'[g] = db[g]
        BY <1>0, <3>2 DEF TypeOK
      <4>. QED  BY <2>1, <2>2, <3>2, <4>1 DEF DueOrDone, Works, Exact, Owners
    <3>. QED  BY <3>1, <3>2
  <2>. QED  BY <2>1, <2>4, <2>5, <2>6, <2>7 DEF MergeInv, Owners
<1>7. ExactlyOnce'
  BY <1>0 DEF ExactlyOnce, Owners
<1>. QED  BY <1>1, <1>2, <1>3, <1>4, <1>5, <1>6, <1>7 DEF Inv

LEMMA DumpDbInv ==
  ASSUME Inv, NEW w \in Worker, DumpDb(w)
  PROVE  Inv'
<1>. USE DEF DumpDb
<1>0. /\ TypeOK /\ JobsOfPhase /\ WriteInv /\ TakeInv /\ OwnInv /\ MergeInv /\ ExactlyOnce
      /\ \A v \in Worker : JobShape(v)
      /\ \A v \in Worker :
           /\ job[v].kind \in {"dump", "write"} => phase = "pickle"
           /\ job[v].kind \in {"merge", "save", "remove"} => phase = "fixup"
  BY JobTypes, PhaseOfKind DEF Inv
<1>1. TypeOK'
  BY <1>0, Kinds, Contents DEF TypeOK, Job, JobShape, AllIdle
<1>2. JobsOfPhase'
  BY <1>0, <1>1, Kinds DEF TypeOK, JobsOfPhase, JobShape, AllIdle
<1>3. WriteInv'
  BY <1>0, <1>1, Kinds, Contents DEF TypeOK, WriteInv, JobShape, ToWrite, AllIdle
<1>4. TakeInv'
  BY <1>0, <1>1, Kinds DEF TypeOK, TakeInv, JobShape, ToTake, Works, AllIdle, Temps
<1>5. OwnInv'
  BY <1>0, <1>1, Kinds DEF TypeOK, OwnInv, JobShape, Works, AllIdle
<1>6. MergeInv'
  <2>. SUFFICES ASSUME ~stale PROVE MergeInv'
    BY DEF MergeInv
  <2>1. /\ \A g \in Func : plan[g] = Owners(g)
        /\ \A g \in queue : \A d \in plan[g] : temp[<<d, g>>] = One(d)
        /\ \A g \in Func : plan[g] # {} => DueOrDone(g)
        /\ \A v \in Worker : MergeRight(v)
    BY <1>0 DEF MergeInv
  <2>2. \A v \in Worker : v # w => job'[v] = job[v]
    BY <1>0 DEF TypeOK
  <2>3. job'[w] = [kind |-> "remove", func |-> job[w].func, todo |-> plan[job[w].func]]
    BY <1>0 DEF TypeOK
  <2>4. MergeRight(w)'
    <3>1. job[w].func \in Func /\ job[w].acc = Exact(job[w].func)
      BY <1>0, <2>1 DEF JobShape, MergeRight
    <3>2. db'[job[w].func] = Exact(job[w].func)
      BY <1>0, <3>1 DEF TypeOK
    <3>. QED  BY <2>3, <3>2 DEF MergeRight, Exact, Owners
  <2>5. \A v \in Worker : v # w => MergeRight(v)'
    <3>. SUFFICES ASSUME NEW v \in Worker, v # w PROVE MergeRight(v)'
      OBVIOUS
    <3>1. MergeRight(v) /\ JobShape(v) /\ JobShape(w) /\ job'[v] = job[v]
      BY <1>0, <2>1, <2>2
    <3>2. job[v].kind \in {"merge", "save", "remove"} => job[v].func # job[w].func
      <4>1. phase = "fixup" /\ job[w].func \in Func /\ Works(w, job[w].func)
        BY <1>0 DEF JobShape, Works
      <4>2. ~Works(v, job[w].func)
        BY <1>0, <3>1, <4>1 DEF OwnInv
      <4>. QED  BY <4>2 DEF Works
    <3>3. job[v].kind = "remove" => db'[job[v].func] = db[job[v].func]
      BY <1>0, <3>1, <3>2 DEF TypeOK, JobShape
    <3>. QED  BY <3>1, <3>3 DEF MergeRight, Exact, Owners
  <2>6. \A g \in queue' : \A d \in plan[g] : temp'[<<d, g>>] = One(d)
    BY <2>1
  <2>7. \A g \in Func : plan[g] # {} => DueOrDone(g)'
    <3>. SUFFICES ASSUME NEW g \in Func, plan[g] # {} PROVE DueOrDone(g)'
      OBVIOUS
    <3>1. CASE g = job[w].func
      BY <2>3, <3>1 DEF DueOrDone, Works
    <3>2. CASE g # job[w].func
      <4>1. db'[g] = db[g] /\ queue' = queue /\ Exact(g)' = Exact(g)
        BY <1>0, <3>2 DEF TypeOK, Exact, Owners
      <4>2. ASSUME NEW v \in Worker, Works(v, g)  PROVE Works(v, g)'
        <5>1. v # w
          BY <3>2, <4>2 DEF Works
        <5>. QED  BY <2>2, <4>2, <5>1 DEF Works
      <4>3. DueOrDone(g)
        BY <2>1
      <4>. HIDE DEF DumpDb
      <4>. QED  BY <4>1, <4>2, <4>3 DEF DueOrDone
    <3>. QED  BY <3>1, <3>2
  <2>. QED  BY <2>1, <2>4, <2>5, <2>6, <2>7 DEF MergeInv, Owners
<1>7. ExactlyOnce'
  BY <1>0 DEF ExactlyOnce, Owners
<1>. QED  BY <1>1, <1>2, <1>3, <1>4, <1>5, <1>6, <1>7 DEF Inv

LEMMA RemoveTempInv ==
  ASSUME Inv, NEW w \in Worker, NEW c \in Chunk, RemoveTemp(w, c)
  PROVE  Inv'
<1>. USE DEF RemoveTemp
<1>0. /\ TypeOK /\ JobsOfPhase /\ WriteInv /\ TakeInv /\ OwnInv /\ MergeInv /\ ExactlyOnce
      /\ \A v \in Worker : JobShape(v)
      /\ \A v \in Worker :
           /\ job[v].kind \in {"dump", "write"} => phase = "pickle"
           /\ job[v].kind \in {"merge", "save", "remove"} => phase = "fixup"
  BY JobTypes, PhaseOfKind DEF Inv
<1>1. TypeOK'
  BY <1>0, Kinds, Contents DEF TypeOK, Job, JobShape, AllIdle
<1>2. JobsOfPhase'
  BY <1>0, <1>1, Kinds DEF TypeOK, JobsOfPhase, JobShape, AllIdle
<1>3. WriteInv'
  BY <1>0, <1>1, Kinds, Contents DEF TypeOK, WriteInv, JobShape, ToWrite, AllIdle
<1>4. TakeInv'
  <2>. DEFINE f == job[w].func
  <2>1. f \in Func /\ \A g \in Func, d \in Chunk :
          temp'[<<d, g>>] = IF d = c /\ g = f THEN None ELSE temp[<<d, g>>]
    BY <1>0 DEF TypeOK, JobShape
  <2>2. /\ job'[w] = [kind |-> "remove", func |-> f, todo |-> job[w].todo \ {c}]
        /\ \A v \in Worker : v # w => job'[v] = job[v]
    BY <1>0 DEF TypeOK
  <2>3. f \notin queue /\ \A v \in Worker : v # w => ~Works(v, f)
    BY <1>0, <2>1 DEF OwnInv, Works
  <2>4. \A d \in Chunk, g \in Func : temp'[<<d, g>>] # None => d \in plan[g] /\ ToTake(d, g)'
    <3>. SUFFICES ASSUME NEW d \in Chunk, NEW g \in Func, temp'[<<d, g>>] # None
                  PROVE  d \in plan[g] /\ ToTake(d, g)'
      OBVIOUS
    <3>1. temp[<<d, g>>] # None /\ ~(d = c /\ g = f)
      BY <2>1
    <3>2. d \in plan[g] /\ ToTake(d, g)
      BY <1>0, <3>1 DEF TakeInv
    <3>3. CASE g \in queue
      BY <3>2, <3>3 DEF ToTake
    <3>4. CASE \E v \in Worker : Works(v, g) /\ (job[v].kind = "remove" => d \in job[v].todo)
      BY <2>2, <3>1, <3>2, <3>4 DEF ToTake, Works
    <3>. QED  BY <3>2, <3>3, <3>4 DEF ToTake
  <2>5. \A g \in queue' : \A d \in plan[g] : temp'[<<d, g>>] # None
    <3>1. phase = "fixup"
      BY <1>0
    <3>2. \A g \in queue' : g \in Func /\ g # f /\ plan[g] \subseteq Chunk
      BY <1>0, <2>3, <3>1 DEF TypeOK
    <3>3. \A g \in queue' : \A d \in plan[g] : temp[<<d, g>>] # None
      BY <1>0, <3>1 DEF TakeInv
    <3>4. ASSUME NEW g \in queue', NEW d \in plan[g] PROVE temp'[<<d, g>>] = temp[<<d, g>>]
      <4>1. g \in Func /\ d \in Chunk /\ g # f
        BY <3>2
      <4>2. temp'[<<d, g>>] = IF d = c /\ g = f THEN None ELSE temp[<<d, g>>]
        BY <2>1, <4>1
      <4>. QED  BY <4>1, <4>2
    <3>. QED  BY <3>3, <3>4
  <2>6. \A v \in Worker : job'[v].kind = "merge" =>
          \A d \in job'[v].todo : temp'[<<d, job'[v].func>>] # None
    BY <1>0, <2>1, <2>2, <2>3 DEF TakeInv, Works, JobShape
  <2>. QED  BY <1>0, <2>4, <2>5, <2>6 DEF TakeInv
<1>5. OwnInv'
  BY <1>0, <1>1, Kinds DEF TypeOK, OwnInv, JobShape, Works, AllIdle
<1>6. MergeInv'
  <2>. SUFFICES ASSUME ~stale PROVE MergeInv'
    BY DEF MergeInv
  <2>1. /\ \A g \in Func : plan[g] = Owners(g)
        /\ \A g \in queue : \A d \in plan[g] : temp[<<d, g>>] = One(d)
        /\ \A g \in Func : plan[g] # {} => DueOrDone(g)
        /\ \A v \in Worker : MergeRight(v)
    BY <1>0 DEF MergeInv
  <2>2. \A v \in Worker : v # w => job'[v] = job[v]
    BY <1>0 DEF TypeOK
  <2>3. job'[w] = [kind |-> "remove", func |-> job[w].func, todo |-> job[w].todo \ {c}]
    BY <1>0 DEF TypeOK
  <2>4. MergeRight(w)'
    <3>1. db[job[w].func] = Exact(job[w].func)
      BY <2>1 DEF MergeRight
    <3>. QED  BY <2>3, <3>1 DEF MergeRight, Exact, Owners
  <2>5. \A v \in Worker : v # w => MergeRight(v)'
    <3>. SUFFICES ASSUME NEW v \in Worker, v # w PROVE MergeRight(v)'
      OBVIOUS
    <3>1. MergeRight(v) /\ JobShape(v) /\ JobShape(w) /\ job'[v] = job[v]
      BY <1>0, <2>1, <2>2
    <3>2. job[v].kind = "merge" => job[v].func # job[w].func
      BY <1>0, <3>1 DEF OwnInv, Works, JobShape
    <3>3. job[v].kind = "merge" =>
            \A d \in job[v].todo : temp'[<<d, job[v].func>>] = temp[<<d, job[v].func>>]
      BY <1>0, <3>1, <3>2 DEF TypeOK, JobShape
    <3>. QED  BY <3>1, <3>3 DEF MergeRight, Exact, Owners
  <2>6. \A g \in queue' : \A d \in plan[g] : temp'[<<d, g>>] = One(d)
    <3>1. job[w].func \in Func /\ job[w].func \notin queue
      BY <1>0 DEF OwnInv, Works, JobShape
    <3>2. \A g \in Func, d \in Chunk : g # job[w].func => temp'[<<d, g>>] = temp[<<d, g>>]
      BY <1>0 DEF TypeOK
    <3>3. \A g \in queue' : g \in Func /\ g \in queue /\ plan[g] \subseteq Chunk
      BY <1>0 DEF TypeOK
    <3>. QED  BY <2>1, <3>1, <3>2, <3>3
  <2>7. \A g \in Func : plan[g] # {} => DueOrDone(g)'
    BY <1>0, <2>1, <2>2, <2>3 DEF DueOrDone, Works, Exact, Owners, JobShape
  <2>. QED  BY <2>1, <2>4, <2>5, <2>6, <2>7 DEF MergeInv, Owners
<1>7. ExactlyOnce'
  BY <1>0 DEF ExactlyOnce, Owners
<1>. QED  BY <1>1, <1>2, <1>3, <1>4, <1>5, <1>6, <1>7 DEF Inv

LEMMA EndFixupInv ==
  ASSUME Inv, NEW w \in Worker, EndFixup(w)
  PROVE  Inv'
<1>. USE DEF EndFixup
<1>0. /\ TypeOK /\ JobsOfPhase /\ WriteInv /\ TakeInv /\ OwnInv /\ MergeInv /\ ExactlyOnce
      /\ \A v \in Worker : JobShape(v)
      /\ \A v \in Worker :
           /\ job[v].kind \in {"dump", "write"} => phase = "pickle"
           /\ job[v].kind \in {"merge", "save", "remove"} => phase = "fixup"
  BY JobTypes, PhaseOfKind DEF Inv
<1>1. TypeOK'
  BY <1>0, Kinds, Contents DEF TypeOK, Job, JobShape, AllIdle
<1>2. JobsOfPhase'
  BY <1>0, <1>1, Kinds DEF TypeOK, JobsOfPhase, JobShape, AllIdle
<1>3. WriteInv'
  BY <1>0, <1>1, Kinds, Contents DEF TypeOK, WriteInv, JobShape, ToWrite, AllIdle
<1>4. TakeInv'
  BY <1>0, <1>1, Kinds DEF TypeOK, TakeInv, JobShape, ToTake, Works, AllIdle, Temps
<1>5. OwnInv'
  BY <1>0, <1>1, Kinds DEF TypeOK, OwnInv, JobShape, Works, AllIdle
<1>6. MergeInv'
  <2>. SUFFICES ASSUME ~stale PROVE MergeInv'
    BY DEF MergeInv
  <2>1. /\ \A g \in Func : plan[g] = Owners(g)
        /\ \A g \in queue : \A d \in plan[g] : temp[<<d, g>>] = One(d)
        /\ \A g \in Func : plan[g] # {} => DueOrDone(g)
        /\ \A v \in Worker : MergeRight(v)
    BY <1>0 DEF MergeInv
  <2>2. \A v \in Worker : v # w => job'[v] = job[v]
    BY <1>0 DEF TypeOK
  <2>3. job'[w] = Idle
    BY <1>0 DEF TypeOK
  <2>4. MergeRight(w)'
    BY <2>3, Kinds DEF MergeRight
  <2>5. \A v \in Worker : v # w => MergeRight(v)'
    BY <2>1, <2>2 DEF MergeRight, Exact, Owners
  <2>6. \A g \in queue' : \A d \in plan[g] : temp'[<<d, g>>] = One(d)
    BY <2>1
  <2>7. \A g \in Func : plan[g] # {} => DueOrDone(g)'
    <3>. SUFFICES ASSUME NEW g \in Func, plan[g] # {} PROVE DueOrDone(g)'
      OBVIOUS
    <3>1. CASE g = job[w].func
      BY <2>1, <3>1 DEF DueOrDone, MergeRight, Exact, Owners
    <3>2. CASE g # job[w].func
      BY <2>1, <2>2, <3>2 DEF DueOrDone, Works, Exact, Owners
    <3>. QED  BY <3>1, <3>2
  <2>. QED  BY <2>1, <2>4, <2>5, <2>6, <2>7 DEF MergeInv, Owners
<1>7. ExactlyOnce'
  BY <1>0 DEF ExactlyOnce, Owners
<1>. QED  BY <1>1, <1>2, <1>3, <1>4, <1>5, <1>6, <1>7 DEF Inv

LEMMA FinishInv ==
  ASSUME Inv, Finish
  PROVE  Inv'
<1>. USE DEF Finish
<1>0. /\ TypeOK /\ JobsOfPhase /\ WriteInv /\ TakeInv /\ OwnInv /\ MergeInv /\ ExactlyOnce
      /\ \A v \in Worker : JobShape(v)
      /\ \A v \in Worker :
           /\ job[v].kind \in {"dump", "write"} => phase = "pickle"
           /\ job[v].kind \in {"merge", "save", "remove"} => phase = "fixup"
  BY JobTypes, PhaseOfKind DEF Inv
<1>1. TypeOK'
  BY <1>0, Kinds, Contents DEF TypeOK, Job, JobShape, AllIdle
<1>2. JobsOfPhase'
  BY <1>0, <1>1, Kinds DEF TypeOK, JobsOfPhase, JobShape, AllIdle
<1>3. WriteInv'
  BY <1>0, <1>1, Kinds, Contents DEF TypeOK, WriteInv, JobShape, ToWrite, AllIdle
<1>4. TakeInv'
  BY <1>0, <1>1, Kinds DEF TypeOK, TakeInv, JobShape, ToTake, Works, AllIdle, Temps
<1>5. OwnInv'
  BY <1>0, <1>1, Kinds DEF TypeOK, OwnInv, JobShape, Works, AllIdle
<1>6. MergeInv'
  BY <1>0, <1>1, Kinds, Contents DEF TypeOK, MergeInv, MergeRight, DueOrDone, OwnInv, JobShape, Works, Exact, Owners, AllIdle
<1>7. ExactlyOnce'
  <2>. SUFFICES ASSUME ~stale, NEW f \in Func, Owners(f) # {} PROVE db[f] = Exact(f)
    BY DEF ExactlyOnce, Owners, Exact
  <2>1. DueOrDone(f)
    BY <1>0 DEF MergeInv
  <2>2. \A w \in Worker : job[w].kind = "idle"
    BY Kinds DEF AllIdle
  <2>. QED  BY <2>1, <2>2 DEF DueOrDone, Works
<1>. QED  BY <1>1, <1>2, <1>3, <1>4, <1>5, <1>6, <1>7 DEF Inv

LEMMA StartInv ==
  ASSUME Inv, Start
  PROVE  Inv'
<1>. USE DEF Start
<1>0. /\ TypeOK /\ JobsOfPhase /\ WriteInv /\ TakeInv /\ OwnInv /\ MergeInv /\ ExactlyOnce
      /\ \A v \in Worker : JobShape(v)
      /\ \A v \in Worker :
           /\ job[v].kind \in {"dump", "write"} => phase = "pickle"
           /\ job[v].kind \in {"merge", "save", "remove"} => phase = "fixup"
  BY JobTypes, PhaseOfKind DEF Inv
<1>1. TypeOK'
  <2>1. runs' \in 0 .. MaxRuns
    BY <1>0, RunsAssumption DEF TypeOK
  <2>2. stale' \in BOOLEAN
    OBVIOUS
  <2>. QED  BY <1>0, <2>1, <2>2 DEF TypeOK
<1>2. JobsOfPhase'
  BY <1>0, <1>1, Kinds DEF TypeOK, JobsOfPhase, JobShape, AllIdle
<1>3. WriteInv'
  BY <1>0, <1>1, Kinds, Contents DEF TypeOK, WriteInv, JobShape, ToWrite, AllIdle
<1>4. TakeInv'
  BY <1>0, <1>1, Kinds DEF TypeOK, TakeInv, JobShape, ToTake, Works, AllIdle, Temps
<1>5. OwnInv'
  BY <1>0, <1>1, Kinds DEF TypeOK, OwnInv, JobShape, Works, AllIdle
<1>6. MergeInv'
  BY <1>0, <1>1, Kinds, Contents DEF TypeOK, MergeInv, MergeRight, DueOrDone, OwnInv, JobShape, Works, Exact, Owners, AllIdle
<1>7. ExactlyOnce'
  BY <1>0 DEF ExactlyOnce, Owners
<1>. QED  BY <1>1, <1>2, <1>3, <1>4, <1>5, <1>6, <1>7 DEF Inv

LEMMA StopInv ==
  ASSUME Inv, phase' = "idle", job' = [x \in Worker |-> Idle], queue' = {},
         UNCHANGED <<has, plan, temp, db, stale, runs>>
  PROVE  Inv'
<1>0. TypeOK
  BY DEF Inv
<1>1. AllIdle' /\ \A v \in Worker : job'[v].kind = "idle"
  BY Kinds DEF AllIdle
<1>2. TypeOK'
  BY <1>0, <1>1, Kinds DEF TypeOK
<1>. QED  BY <1>1, <1>2 DEF Inv, JobsOfPhase, WriteInv, TakeInv, OwnInv, MergeInv, ExactlyOnce

LEMMA StepInv == Inv /\ [Next]_vars => Inv'
<1>. SUFFICES ASSUME Inv, [Next]_vars PROVE Inv'
  OBVIOUS
<1>1. CASE Start
  BY <1>1, StartInv
<1>2. CASE Crash
  BY <1>2, StopInv DEF Crash
<1>3. CASE Main
  BY <1>3, StartFixupInv, FinishInv DEF Main
<1>4. CASE \E w \in Worker : Work(w)
  <2>. SUFFICES ASSUME NEW w \in Worker, Work(w) PROVE Inv'
    BY <1>4
  <2>1. CASE DumpTemp(w) \/ EndChunk(w) \/ OpenDb(w) \/ DumpDb(w) \/ EndFixup(w)
    BY <2>1, DumpTempInv, EndChunkInv, OpenDbInv, DumpDbInv, EndFixupInv
  <2>2. CASE \E f \in Func : OpenTemp(w, f)
    BY <2>2, OpenTempInv
  <2>3. CASE \E c \in Chunk : TakeChunk(w, c) \/ MergeNext(w, c) \/ RemoveTemp(w, c)
    BY <2>3, TakeChunkInv, MergeNextInv, RemoveTempInv
  <2>4. CASE \E c \in Chunk : MergeError(w, c)
    BY <2>4, StopInv DEF MergeError
  <2>5. CASE \E f \in Func, c \in Chunk : Rename(w, f, c) \/ MergeFirst(w, f, c)
    BY <2>5, RenameInv, MergeFirstInv
  <2>. QED  BY <2>1, <2>2, <2>3, <2>4, <2>5 DEF Work
<1>5. CASE UNCHANGED vars
  <2>. USE <1>5 DEF vars
  <2>1. TypeOK' = TypeOK /\ JobsOfPhase' = JobsOfPhase
    BY DEF TypeOK, JobsOfPhase, AllIdle
  <2>2. WriteInv' = WriteInv
    BY DEF WriteInv, ToWrite
  <2>3. TakeInv' = TakeInv
    BY DEF TakeInv, ToTake, Works
  <2>4. OwnInv' = OwnInv
    BY DEF OwnInv, Works
  <2>5. MergeInv' = MergeInv
    BY DEF MergeInv, MergeRight, DueOrDone, Works, Exact, Owners
  <2>6. ExactlyOnce' = ExactlyOnce
    BY DEF ExactlyOnce, Owners
  <2>. QED  BY <2>1, <2>2, <2>3, <2>4, <2>5, <2>6 DEF Inv
<1>. QED  BY <1>1, <1>2, <1>3, <1>4, <1>5 DEF Next

LEMMA Invariance == Spec => []Inv
<1>. QED  BY InitInv, StepInv, PTL DEF Spec
-----------------------------------------------------------------------------
(* The types of the variables hold, for any logs, workers and runs.        *)
THEOREM TypeCorrect == Spec => []TypeOK
<1>1. Inv => TypeOK
  BY DEF Inv
<1>. QED  BY <1>1, Invariance, PTL

(* A finished run that began with no foreign temporary files leaves every  *)
(* path of the logs in the database exactly once, whatever earlier runs    *)
(* were killed where and whichever worker did what when.                   *)
THEOREM PathsExactlyOnce == Spec => []ExactlyOnce
<1>1. Inv => ExactlyOnce
  BY DEF Inv
<1>. QED  BY <1>1, Invariance, PTL

(* A finished run leaves no temporary file, its own or an earlier run's.   *)
THEOREM AllTempsTaken == Spec => []NoTempsLeft
<1>1. Inv => NoTempsLeft
  BY DEF Inv, TakeInv, NoTempsLeft
<1>. QED  BY <1>1, Invariance, PTL
-----------------------------------------------------------------------------
(* Never are the paths of a chunk in neither file: what is needed beyond   *)
(* Inv is that what a worker has merged covers the chunks it has been      *)
(* through, whatever earlier runs left.                                    *)
(* A whole temporary file has the paths of its chunk.                      *)
TempsWhole == \A c \in Chunk, f \in Func : temp[<<c, f>>] \in {None, Cut, One(c)}

(* What a worker has merged so far has every chunk it has gone through,    *)
(* unless none of their files was whole; what it takes away is saved.      *)
Covered(acc, cs, f) ==
  IF acc = Cut THEN \A c \in cs : temp[<<c, f>>] \notin Content
               ELSE \A c \in cs : acc[c] >= 1
Kept(w) ==
  /\ job[w].kind = "merge" =>
       /\ job[w].todo \subseteq plan[job[w].func]
       /\ Covered(job[w].acc, plan[job[w].func] \ job[w].todo, job[w].func)
  /\ job[w].kind = "save" => Covered(job[w].acc, plan[job[w].func], job[w].func)
  /\ job[w].kind = "remove" =>
       \A c \in job[w].todo : temp[<<c, job[w].func>>] \in Content =>
         db[job[w].func] \in Content /\ db[job[w].func][c] >= 1
KeptInv == TempsWhole /\ \A w \in Worker : Kept(w)

Merging(w) == job[w].kind \in {"merge", "save", "remove"}

(* A worker whose job, database file and plan are left alone keeps what it *)
(* has, when temporary files are at most taken away.                       *)
LEMMA Others ==
  ASSUME TypeOK, NEW w \in Worker, Kept(w), JobShape(w),
         UNCHANGED plan, job'[w] = job[w],
         Merging(w) => /\ db'[job[w].func] = db[job[w].func]
                       /\ \A c \in Chunk : temp'[<<c, job[w].func>>]
                                             \in {None, temp[<<c, job[w].func>>]}
  PROVE  Kept(w)'
<1>1. CASE ~Merging(w)
  BY <1>1 DEF Kept, Merging
<1>2. CASE Merging(w)
  <2>1. job[w].func \in Func /\ plan[job[w].func] \subseteq Chunk
    BY <1>2 DEF TypeOK, JobShape, Merging
  <2>2. \A c \in Chunk : temp'[<<c, job[w].func>>] \in Content
                           => temp[<<c, job[w].func>>] \in Content
    BY <1>2, FileAssumption
  <2>3. \A acc, cs : cs \subseteq Chunk /\ Covered(acc, cs, job[w].func)
                       => Covered(acc, cs, job[w].func)'
    BY <2>2 DEF Covered
  <2>4. CASE job[w].kind = "merge"
    BY <2>1, <2>3, <2>4 DEF Kept
  <2>5. CASE job[w].kind = "save"
    BY <2>1, <2>3, <2>5 DEF Kept
  <2>6. CASE job[w].kind = "remove"
    BY <1>2, <2>1, <2>2, <2>6 DEF Kept, JobShape
  <2>. QED  BY <1>2, <2>4, <2>5, <2>6 DEF Merging
<1>. QED  BY <1>1, <1>2

(* Before the merging nothing has been merged.                             *)
LEMMA NotMerging ==
  ASSUME TempsWhole', \A w \in Worker : job'[w].kind \in {"idle", "dump", "write"}
  PROVE  KeptInv'
BY DEF KeptInv, Kept

LEMMA StepPickling ==
  ASSUME Inv, KeptInv, NEW w \in Worker,
         \/ DumpTemp(w) \/ EndChunk(w) \/ \E f \in Func : OpenTemp(w, f)
         \/ \E c \in Chunk : TakeChunk(w, c)
  PROVE  KeptInv'
<1>0. TypeOK /\ TempsWhole /\ JobShape(w)
  BY JobTypes DEF Inv, KeptInv
<1>1. phase' = "pickle"
  <2>1. job[w].kind \in {"dump", "write"} => phase = "pickle"
    BY PhaseOfKind DEF Inv
  <2>. QED  BY <2>1 DEF DumpTemp, EndChunk, OpenTemp, TakeChunk
<1>2. Inv'
  BY DumpTempInv, EndChunkInv, OpenTempInv, TakeChunkInv
<1>3. \A v \in Worker : job'[v].kind \in {"idle", "dump", "write"}
  BY <1>1, <1>2 DEF Inv, JobsOfPhase
<1>4. TempsWhole'
  <2>1. CASE DumpTemp(w)
    BY <1>0, <2>1 DEF DumpTemp, TempsWhole, TypeOK, JobShape
  <2>2. CASE EndChunk(w) \/ \E c \in Chunk : TakeChunk(w, c)
    BY <1>0, <2>2 DEF EndChunk, TakeChunk, TempsWhole
  <2>3. ASSUME NEW f \in Func, OpenTemp(w, f) PROVE TempsWhole'
    BY <1>0, <2>3 DEF OpenTemp, TempsWhole, TypeOK
  <2>. QED  BY <2>1, <2>2, <2>3
<1>. QED  BY <1>3, <1>4, NotMerging

LEMMA StepRename ==
  ASSUME Inv, KeptInv, NEW w \in Worker, NEW f \in Func, NEW c \in Chunk, Rename(w, f, c)
  PROVE  KeptInv'
<1>. USE DEF Rename
<1>0. TypeOK /\ OwnInv /\ TempsWhole /\ \A v \in Worker : JobShape(v) /\ Kept(v)
  BY JobTypes DEF Inv, KeptInv
<1>1. \A d \in Chunk, g \in Func :
        temp'[<<d, g>>] = IF d = c /\ g = f THEN None ELSE temp[<<d, g>>]
  BY <1>0 DEF TypeOK
<1>2. \A v \in Worker : Merging(v) => job[v].func \in Func /\ job[v].func # f
  BY <1>0 DEF OwnInv, Works, Merging, JobShape
<1>3. \A v \in Worker : Merging(v) => db'[job[v].func] = db[job[v].func]
  BY <1>0, <1>2 DEF TypeOK
<1>4. \A v \in Worker : Kept(v)'
  BY <1>0, <1>1, <1>2, <1>3, Others
<1>. QED  BY <1>0, <1>1, <1>4 DEF KeptInv, TempsWhole

LEMMA StepMergeFirst ==
  ASSUME Inv, KeptInv, NEW w \in Worker, NEW f \in Func, NEW c \in Chunk,
         MergeFirst(w, f, c)
  PROVE  KeptInv'
<1>. USE DEF MergeFirst
<1>0. TypeOK /\ TakeInv /\ TempsWhole /\ \A v \in Worker : JobShape(v) /\ Kept(v)
  BY JobTypes DEF Inv, KeptInv
<1>1. /\ job'[w] = [kind |-> "merge", func |-> f, todo |-> plan[f] \ {c},
                    acc |-> temp[<<c, f>>]]
      /\ \A v \in Worker : v # w => job'[v] = job[v]
  BY <1>0 DEF TypeOK
<1>2. temp[<<c, f>>] \in {Cut, One(c)}
  BY <1>0 DEF TakeInv, TempsWhole
<1>3. plan[f] \ (plan[f] \ {c}) = {c}
  OBVIOUS
<1>4. Covered(temp[<<c, f>>], {c}, f)'
  <2>1. One(c)[c] = 1
    BY DEF One
  <2>. QED  BY <1>2, <2>1, Contents, FileAssumption DEF Covered
<1>5. Kept(w)'
  BY <1>1, <1>3, <1>4 DEF Kept, Covered
<1>6. \A v \in Worker : v # w => Kept(v)'
  BY <1>0, <1>1, Others
<1>. QED  BY <1>0, <1>5, <1>6 DEF KeptInv, TempsWhole

LEMMA StepMergeNext ==
  ASSUME Inv, KeptInv, NEW w \in Worker, NEW c \in Chunk, MergeNext(w, c)
  PROVE  KeptInv'
<1>. USE DEF MergeNext
<1>0. TypeOK /\ TakeInv /\ TempsWhole /\ \A v \in Worker : JobShape(v) /\ Kept(v)
  BY JobTypes DEF Inv, KeptInv
<1>. DEFINE f == job[w].func  cs == plan[f] \ job[w].todo
            acc == IF job[w].acc = Cut THEN Cut ELSE Plus(job[w].acc, temp[<<c, f>>])
<1>1. /\ job'[w] = [kind |-> "merge", func |-> f, todo |-> job[w].todo \ {c}, acc |-> acc]
      /\ \A v \in Worker : v # w => job'[v] = job[v]
  BY <1>0 DEF TypeOK
<1>2. f \in Func /\ plan[f] \subseteq Chunk /\ job[w].todo \subseteq plan[f]
      /\ phase = "fixup" /\ Covered(job[w].acc, cs, f) /\ job[w].acc \in Content \cup {Cut}
  BY <1>0, PhaseOfKind DEF TypeOK, JobShape, Kept, Inv
<1>3. temp[<<c, f>>] \in {Cut, One(c)}
  BY <1>0, <1>2 DEF TakeInv, TempsWhole
<1>4. plan[f] \ (job[w].todo \ {c}) = cs \cup {c}
  BY <1>2
<1>5. Covered(acc, cs \cup {c}, f)
  <2>1. CASE job[w].acc = Cut
    BY <1>2, <2>1, FileAssumption DEF Covered
  <2>2. CASE job[w].acc # Cut
    <3>1. job[w].acc \in Content /\ temp[<<c, f>>] = One(c)
      BY <1>2, <1>3, <2>2
    <3>2. \A x \in Chunk : One(c)[x] \in Nat /\ One(c)[c] = 1
                           /\ job[w].acc[x] \in Nat
                           /\ acc[x] = job[w].acc[x] + One(c)[x]
      BY <2>2, <3>1 DEF Plus, One, Content
    <3>3. acc # Cut
      BY <2>2, <3>1, Contents, FileAssumption
    <3>4. \A x \in cs \cup {c} : acc[x] >= 1
      BY <1>2, <2>2, <3>2 DEF Covered
    <3>. HIDE DEF acc
    <3>. QED  BY <3>3, <3>4 DEF Covered
  <2>. QED  BY <2>1, <2>2
<1>6. Kept(w)'
  <2>. HIDE DEF acc, cs
  <2>. QED  BY <1>1, <1>2, <1>4, <1>5 DEF Kept, Covered
<1>7. \A v \in Worker : v # w => Kept(v)'
  BY <1>0, <1>1, Others
<1>. QED  BY <1>0, <1>6, <1>7 DEF KeptInv, TempsWhole

LEMMA StepOpenDb ==
  ASSUME Inv, KeptInv, NEW w \in Worker, OpenDb(w)
  PROVE  KeptInv'
<1>. USE DEF OpenDb
<1>0. TypeOK /\ OwnInv /\ TempsWhole /\ \A v \in Worker : JobShape(v) /\ Kept(v)
  BY JobTypes DEF Inv, KeptInv
<1>1. /\ job'[w] = [kind |-> "save", func |-> job[w].func, acc |-> job[w].acc]
      /\ \A v \in Worker : v # w => job'[v] = job[v]
  BY <1>0 DEF TypeOK
<1>2. job[w].func \in Func /\ phase = "fixup"
  BY <1>0, PhaseOfKind DEF JobShape, Inv
<1>3. \A v \in Worker : v # w /\ Merging(v) =>
        job[v].func \in Func /\ job[v].func # job[w].func
  BY <1>0, <1>2 DEF OwnInv, Works, Merging, JobShape
<1>4. Kept(w)'
  <2>1. plan[job[w].func] \ job[w].todo = plan[job[w].func]
    OBVIOUS
  <2>2. Covered(job[w].acc, plan[job[w].func], job[w].func)
    BY <1>0, <2>1 DEF Kept
  <2>. QED  BY <1>1, <2>2 DEF Kept, Covered
<1>5. \A v \in Worker : v # w /\ Merging(v) => db'[job[v].func] = db[job[v].func]
  BY <1>0, <1>3 DEF TypeOK
<1>6. \A v \in Worker : v # w => Kept(v)'
  BY <1>0, <1>1, <1>5, Others
<1>. QED  BY <1>0, <1>4, <1>6 DEF KeptInv, TempsWhole

LEMMA StepDumpDb ==
  ASSUME Inv, KeptInv, NEW w \in Worker, DumpDb(w)
  PROVE  KeptInv'
<1>. USE DEF DumpDb
<1>0. TypeOK /\ OwnInv /\ TempsWhole /\ \A v \in Worker : JobShape(v) /\ Kept(v)
  BY JobTypes DEF Inv, KeptInv
<1>1. /\ job'[w] = [kind |-> "remove", func |-> job[w].func, todo |-> plan[job[w].func]]
      /\ \A v \in Worker : v # w => job'[v] = job[v]
  BY <1>0 DEF TypeOK
<1>2. job[w].func \in Func /\ phase = "fixup" /\ job[w].acc \in Content \cup {Cut}
      /\ plan[job[w].func] \subseteq Chunk
  BY <1>0, PhaseOfKind DEF JobShape, Inv, TypeOK
<1>3. \A v \in Worker : v # w /\ Merging(v) =>
        job[v].func \in Func /\ job[v].func # job[w].func
  BY <1>0, <1>2 DEF OwnInv, Works, Merging, JobShape
<1>4. Kept(w)'
  <2>1. Covered(job[w].acc, plan[job[w].func], job[w].func)
    BY <1>0 DEF Kept
  <2>2. db'[job[w].func] = job[w].acc
    BY <1>0, <1>2 DEF TypeOK
  <2>3. \A c \in plan[job[w].func] : temp[<<c, job[w].func>>] \in Content =>
          job[w].acc \in Content /\ job[w].acc[c] >= 1
    BY <1>2, <2>1 DEF Covered
  <2>. QED  BY <1>1, <2>2, <2>3 DEF Kept
<1>5. \A v \in Worker : v # w /\ Merging(v) => db'[job[v].func] = db[job[v].func]
  BY <1>0, <1>3 DEF TypeOK
<1>6. \A v \in Worker : v # w => Kept(v)'
  BY <1>0, <1>1, <1>5, Others
<1>. QED  BY <1>0, <1>4, <1>6 DEF KeptInv, TempsWhole

LEMMA StepRemoveTemp ==
  ASSUME Inv, KeptInv, NEW w \in Worker, NEW c \in Chunk, RemoveTemp(w, c)
  PROVE  KeptInv'
<1>. USE DEF RemoveTemp
<1>0. TypeOK /\ TempsWhole /\ \A v \in Worker : JobShape(v) /\ Kept(v)
  BY JobTypes DEF Inv, KeptInv
<1>1. /\ job'[w] = [kind |-> "remove", func |-> job[w].func, todo |-> job[w].todo \ {c}]
      /\ \A v \in Worker : v # w => job'[v] = job[v]
  BY <1>0 DEF TypeOK
<1>2. \A d \in Chunk, g \in Func :
        temp'[<<d, g>>] = IF d = c /\ g = job[w].func THEN None ELSE temp[<<d, g>>]
  BY <1>0 DEF TypeOK, JobShape
<1>3. job[w].func \in Func /\ job[w].todo \subseteq Chunk
  BY <1>0 DEF JobShape
<1>4. Kept(w)'
  <2>1. \A d \in job[w].todo : temp[<<d, job[w].func>>] \in Content =>
          db[job[w].func] \in Content /\ db[job[w].func][d] >= 1
    BY <1>0 DEF Kept
  <2>2. \A d \in job[w].todo \ {c} : temp'[<<d, job[w].func>>] = temp[<<d, job[w].func>>]
    BY <1>2, <1>3
  <2>. QED  BY <1>1, <2>1, <2>2 DEF Kept
<1>5. \A v \in Worker : Merging(v) => job[v].func \in Func
  BY <1>0 DEF Merging, JobShape
<1>6. \A v \in Worker : v # w => Kept(v)'
  BY <1>0, <1>1, <1>2, <1>5, Others
<1>. QED  BY <1>0, <1>2, <1>4, <1>6 DEF KeptInv, TempsWhole

LEMMA StepKept == Inv /\ KeptInv /\ [Next]_vars => KeptInv'
<1>. SUFFICES ASSUME Inv, KeptInv, [Next]_vars PROVE KeptInv'
  OBVIOUS
<1>0. TypeOK /\ TempsWhole /\ \A v \in Worker : JobShape(v) /\ Kept(v)
  BY JobTypes DEF Inv, KeptInv
<1>1. ASSUME UNCHANGED temp, \A w \in Worker : job'[w].kind \in {"idle", "dump", "write"}
      PROVE  KeptInv'
  BY <1>0, <1>1, NotMerging DEF TempsWhole
<1>2. CASE Start \/ StartFixup \/ Finish
  <2>1. AllIdle /\ UNCHANGED <<temp, job>>
    BY <1>0, <1>2 DEF Start, StartFixup, Finish, TypeOK
  <2>2. \A w \in Worker : job'[w].kind = "idle"
    BY <2>1, Kinds DEF AllIdle
  <2>. QED  BY <1>1, <2>1, <2>2
<1>3. CASE Crash \/ \E w \in Worker, c \in Chunk : MergeError(w, c)
  <2>1. job' = [w \in Worker |-> Idle] /\ UNCHANGED temp
    BY <1>3 DEF Crash, MergeError
  <2>. QED  BY <1>1, <2>1, Kinds
<1>4. ASSUME NEW w \in Worker, EndFixup(w) PROVE KeptInv'
  <2>1. job'[w] = Idle /\ \A v \in Worker : v # w => job'[v] = job[v]
    BY <1>0, <1>4 DEF EndFixup, TypeOK
  <2>2. Kept(w)'
    BY <2>1, Kinds DEF Kept
  <2>3. \A v \in Worker : v # w => Kept(v)'
    BY <1>0, <1>4, <2>1, Others DEF EndFixup
  <2>. QED  BY <1>0, <1>4, <2>2, <2>3 DEF EndFixup, KeptInv, TempsWhole
<1>5. CASE UNCHANGED vars
  BY <1>0, <1>5 DEF vars, KeptInv, TempsWhole, Kept, Covered
<1>6. ASSUME NEW w \in Worker, Work(w) PROVE KeptInv'
  BY <1>3, <1>4, <1>6, StepPickling, StepRename, StepMergeFirst, StepMergeNext, StepOpenDb,
     StepDumpDb, StepRemoveTemp DEF Work
<1>. QED  BY <1>2, <1>3, <1>5, <1>6 DEF Next, Main

LEMMA InitKept == Init => KeptInv
<1>. SUFFICES ASSUME Init PROVE KeptInv
  OBVIOUS
<1>1. \A w \in Worker : job[w].kind = "idle"
  BY Kinds DEF Init, AllIdle
<1>. QED  BY <1>1 DEF Init, KeptInv, TempsWhole, Kept

(* In the second pass the paths of a chunk leave their temporary file only *)
(* for a database file that nobody is going to write again: while the      *)
(* function waits or is merged or saved, all its temporary files are       *)
(* there.                                                                  *)
InDb(c, f) == db[f] \in Content /\ db[f][c] >= 1
Settled(f) == f \notin queue /\ \A w \in Worker : Works(w, f) => job[w].kind = "remove"
OnDisk(c, f) == temp[<<c, f>>] = One(c) \/ (InDb(c, f) /\ Settled(f))
LostInv ==
  /\ phase = "fixup" => \A f \in Func : \A c \in Owners(f) : c \in plan[f] /\ OnDisk(c, f)
  /\ NeverNeither

LEMMA LostFixup ==
  ASSUME phase' = "fixup",
         \A f \in Func : \A c \in Owners(f)' : c \in plan'[f] /\ OnDisk(c, f)'
  PROVE  LostInv'
BY DEF LostInv, NeverNeither, OnDisk, InDb

(* When all chunks are parsed every temporary file of the logs is whole.   *)
LEMMA LostStart ==
  ASSUME Inv, StartFixup
  PROVE  LostInv'
<1>1. \A v \in Worker : job[v].kind = "idle"
  BY Kinds DEF StartFixup, AllIdle
<1>2. \A c \in Chunk : has[c] \subseteq Func
  BY LogsAssumption DEF Inv, TypeOK
<1>3. \A c \in Chunk, f \in Func : ~ToWrite(c, f)
  BY <1>1 DEF StartFixup, ToWrite
<1>4. \A c \in Chunk : \A f \in has[c] : temp[<<c, f>>] = One(c)
  BY <1>2, <1>3 DEF Inv, WriteInv, StartFixup
<1>5. \A f \in Func : \A c \in Owners(f) : temp[<<c, f>>] = One(c) /\ c \in Temps(f)
  BY <1>4, Contents DEF Owners, Temps
<1>. QED  BY <1>5, LostFixup DEF StartFixup, Owners, OnDisk

(* A step of a worker on function g touches the files of g only.           *)
LEMMA LostWork ==
  ASSUME Inv, LostInv, phase = "fixup", UNCHANGED <<phase, has, plan>>, NEW g,
         queue' \subseteq queue,
         \A f \in Func : f # g =>
           /\ db'[f] = db[f] /\ \A c \in Chunk : temp'[<<c, f>>] = temp[<<c, f>>]
           /\ \A w \in Worker : Works(w, f)' => Works(w, f) /\ job'[w].kind = job[w].kind,
         g \in Func => \A c \in Owners(g) : OnDisk(c, g)'
  PROVE  LostInv'
<1>1. ASSUME NEW f \in Func, NEW c \in Owners(f) PROVE c \in plan'[f] /\ OnDisk(c, f)'
  <2>1. c \in Chunk /\ c \in plan[f] /\ OnDisk(c, f)
    BY <1>1 DEF LostInv, Owners
  <2>2. CASE f = g
    BY <2>1, <2>2, <1>1
  <2>3. CASE f # g
    BY <2>1, <2>3 DEF OnDisk, InDb, Settled
  <2>. QED  BY <2>2, <2>3
<1>2. \A f \in Func : Owners(f)' = Owners(f)
  BY DEF Owners
<1>. QED  BY <1>1, <1>2, LostFixup

LEMMA LostStep ==
  ASSUME Inv, KeptInv, LostInv, phase = "fixup", NEW w \in Worker, Work(w)
  PROVE  LostInv'
<1>0. /\ TypeOK /\ OwnInv /\ \A v \in Worker : JobShape(v) /\ Kept(v)
      /\ \A v \in Worker : job[v].kind \notin {"dump", "write"}
  BY JobTypes, PhaseOfKind DEF Inv, KeptInv
<1>1. \A f \in Func : \A c \in Owners(f) : c \in Chunk /\ c \in plan[f] /\ OnDisk(c, f)
  BY DEF LostInv, Owners
<1>2. ASSUME NEW g \in Func, NEW d \in Chunk, Rename(w, g, d) PROVE LostInv'
  <2>1. \A c \in Owners(g) : c = d /\ temp[<<c, g>>] = One(c)
    BY <1>1, <1>2 DEF Rename, OnDisk, Settled
  <2>2. db'[g] = temp[<<d, g>>] /\ \A f \in Func : f # g => db'[f] = db[f]
    BY <1>0, <1>2 DEF Rename, TypeOK
  <2>3. \A f \in Func, c \in Chunk : f # g => temp'[<<c, f>>] = temp[<<c, f>>]
    BY <1>0, <1>2 DEF Rename, TypeOK
  <2>4. One(d) \in Content /\ One(d)[d] = 1
    BY Contents DEF One
  <2>5. \A v \in Worker : ~Works(v, g)
    BY <1>0, <1>2 DEF Rename, OwnInv
  <2>6. \A c \in Owners(g) : OnDisk(c, g)'
    BY <1>2, <2>1, <2>2, <2>4, <2>5 DEF Rename, OnDisk, InDb, Settled, Works
  <2>. QED  BY <1>2, <2>2, <2>3, <2>6, LostWork DEF Rename, Works
<1>3. ASSUME NEW g \in Func, NEW d \in Chunk, MergeFirst(w, g, d) PROVE LostInv'
  <2>1. \A c \in Owners(g) : temp[<<c, g>>] = One(c)
    BY <1>1, <1>3 DEF MergeFirst, OnDisk, Settled
  <2>2. \A v \in Worker, f \in Func : f # g /\ Works(v, f)' =>
          Works(v, f) /\ job'[v].kind = job[v].kind
    BY <1>0, <1>3 DEF MergeFirst, TypeOK, Works
  <2>. QED  BY <1>3, <2>1, <2>2, LostWork DEF MergeFirst, OnDisk
<1>4. ASSUME NEW d \in Chunk, MergeNext(w, d) PROVE LostInv'
  <2>1. \A c \in Owners(job[w].func) : job[w].func \in Func => temp[<<c, job[w].func>>] = One(c)
    BY <1>1, <1>4 DEF MergeNext, OnDisk, Settled, Works
  <2>2. \A v \in Worker, f \in Func : f # job[w].func /\ Works(v, f)' =>
          Works(v, f) /\ job'[v].kind = job[v].kind
    BY <1>0, <1>4 DEF MergeNext, TypeOK, Works
  <2>. QED  BY <1>4, <2>1, <2>2, LostWork DEF MergeNext, OnDisk
<1>5. CASE OpenDb(w)
  <2>1. \A c \in Owners(job[w].func) : job[w].func \in Func => temp[<<c, job[w].func>>] = One(c)
    BY <1>1, <1>5 DEF OpenDb, OnDisk, Settled, Works
  <2>2. \A v \in Worker, f \in Func : f # job[w].func /\ Works(v, f)' =>
          Works(v, f) /\ job'[v].kind = job[v].kind
    BY <1>0, <1>5 DEF OpenDb, TypeOK, Works
  <2>3. \A f \in Func : f # job[w].func => db'[f] = db[f]
    BY <1>0, <1>5 DEF OpenDb, TypeOK
  <2>. QED  BY <1>5, <2>1, <2>2, <2>3, LostWork DEF OpenDb, OnDisk
<1>6. CASE DumpDb(w)
  <2>1. \A c \in Owners(job[w].func) : job[w].func \in Func => temp[<<c, job[w].func>>] = One(c)
    BY <1>1, <1>6 DEF DumpDb, OnDisk, Settled, Works
  <2>2. \A v \in Worker, f \in Func : f # job[w].func /\ Works(v, f)' =>
          Works(v, f) /\ job'[v].kind = job[v].kind
    BY <1>0, <1>6 DEF DumpDb, TypeOK, Works
  <2>3. \A f \in Func : f # job[w].func => db'[f] = db[f]
    BY <1>0, <1>6 DEF DumpDb, TypeOK
  <2>. QED  BY <1>6, <2>1, <2>2, <2>3, LostWork DEF DumpDb, OnDisk
<1>7. ASSUME NEW d \in Chunk, RemoveTemp(w, d) PROVE LostInv'
  <2>1. PICK g \in Func : g = job[w].func /\ Works(w, g) /\ job[w].kind = "remove"
    BY <1>0, <1>7 DEF RemoveTemp, Works, JobShape
  <2>2. job'[w] = [kind |-> "remove", func |-> g, todo |-> job[w].todo \ {d}]
        /\ \A v \in Worker : v # w => job'[v] = job[v]
    <3>1. job' = [job EXCEPT ![w] = [kind |-> "remove", func |-> g, todo |-> job[w].todo \ {d}]]
      BY <1>7, <2>1 DEF RemoveTemp
    <3>. QED  BY <1>0, <3>1 DEF TypeOK
  <2>3. \A v \in Worker, f \in Func : Works(v, f)' =>
          Works(v, f) /\ job'[v].kind = job[v].kind
    BY <2>1, <2>2 DEF Works
  <2>4. \A f \in Func, c \in Chunk :
          temp'[<<c, f>>] = IF c = d /\ f = g THEN None ELSE temp[<<c, f>>]
    BY <1>0, <1>7, <2>1 DEF RemoveTemp, TypeOK
  <2>5. g \notin queue /\ \A v \in Worker : Works(v, g) => v = w
    BY <1>0, <2>1 DEF OwnInv
  <2>6. Settled(g)'
    BY <1>7, <2>1, <2>2, <2>3, <2>5 DEF RemoveTemp, Settled
  <2>7. ASSUME NEW c \in Owners(g) PROVE OnDisk(c, g)'
    <3>0. c \in Chunk /\ OnDisk(c, g) /\ db' = db
      BY <1>1, <1>7, <2>1 DEF RemoveTemp
    <3>1. CASE InDb(c, g)
      BY <2>6, <3>0, <3>1 DEF OnDisk, InDb
    <3>2. CASE temp[<<c, g>>] = One(c) /\ c # d
      BY <2>1, <2>4, <3>0, <3>2 DEF OnDisk
    <3>3. CASE temp[<<c, g>>] = One(c) /\ c = d
      <4>1. InDb(c, g)
        BY <1>0, <1>7, <2>1, <3>3, Contents DEF RemoveTemp, Kept, InDb
      <4>. QED  BY <2>6, <3>0, <4>1 DEF OnDisk, InDb
    <3>. QED  BY <3>0, <3>1, <3>2, <3>3 DEF OnDisk
  <2>8. /\ queue' = queue /\ UNCHANGED <<phase, has, plan, db>>
    BY <1>7 DEF RemoveTemp
  <2>. QED  BY <2>1, <2>3, <2>4, <2>7, <2>8, LostWork
<1>8. CASE EndFixup(w)
  <2>1. \A v \in Worker, f \in Func : Works(v, f)' =>
          Works(v, f) /\ job'[v].kind = job[v].kind
    BY <1>0, <1>8, Kinds DEF EndFixup, TypeOK, Works
  <2>2. \A f \in Func : \A c \in Owners(f) : OnDisk(c, f)'
    BY <1>1, <1>8, <2>1 DEF EndFixup, OnDisk, InDb, Settled
  <2>. QED  BY <1>8, <2>1, <2>2, LostWork DEF EndFixup
<1>9. ASSUME NEW d \in Chunk, MergeError(w, d) PROVE LostInv'
  BY <1>9 DEF MergeError, LostInv, NeverNeither
<1>10. ~(DumpTemp(w) \/ EndChunk(w) \/ (\E f \in Func : OpenTemp(w, f))
         \/ \E c \in Chunk : TakeChunk(w, c))
  BY <1>0 DEF DumpTemp, EndChunk, OpenTemp, TakeChunk
<1>. QED  BY <1>2, <1>3, <1>4, <1>5, <1>6, <1>7, <1>8, <1>9, <1>10 DEF Work

LEMMA LostNext ==
  ASSUME Inv, KeptInv, LostInv, [Next]_vars
  PROVE  LostInv'
<1>1. CASE Start \/ Crash
  BY <1>1 DEF Start, Crash, LostInv, NeverNeither
<1>2. CASE StartFixup
  BY <1>2, LostStart
<1>3. CASE Finish
  BY <1>3 DEF Finish, LostInv, NeverNeither, Owners
<1>4. ASSUME NEW w \in Worker, Work(w) PROVE LostInv'
  <2>1. CASE phase = "fixup"
    BY <1>4, <2>1, LostStep
  <2>2. CASE phase # "fixup"
    <3>1. job[w].kind \notin {"merge", "save", "remove"}
      BY <2>2, PhaseOfKind DEF Inv
    <3>2. job[w].kind \in {"dump", "write"} => phase = "pickle"
      BY PhaseOfKind DEF Inv
    <3>3. phase = "pickle" /\ phase' = phase
      BY <1>4, <2>2, <3>1, <3>2 DEF Work, DumpTemp, EndChunk, OpenTemp, TakeChunk, Rename,
         MergeFirst, MergeNext, MergeError, OpenDb, DumpDb, RemoveTemp, EndFixup
    <3>. QED  BY <3>3 DEF LostInv, NeverNeither
  <2>. QED  BY <2>1, <2>2
<1>5. CASE UNCHANGED vars
  BY <1>5 DEF vars, LostInv, NeverNeither, Owners, OnDisk, InDb, Settled, Works
<1>. QED  BY <1>1, <1>2, <1>3, <1>4, <1>5 DEF Next, Main
-----------------------------------------------------------------------------
(* In the second pass, and so wherever it is killed, the paths of every    *)
(* chunk are on disk, in the temporary or in the database file, for any    *)
(* logs and workers and whatever earlier runs left.                        *)
THEOREM PathsNeverLost == Spec => []NeverNeither
<1>1. Init => LostInv
  BY DEF Init, LostInv, NeverNeither
<1>2. Inv /\ KeptInv /\ LostInv /\ [Next]_vars => LostInv'
  BY LostNext
<1>3. LostInv => NeverNeither
  BY DEF LostInv
<1>. QED  BY <1>1, <1>2, <1>3, Invariance, InitKept, StepKept, PTL DEF Spec
=============================================================================
