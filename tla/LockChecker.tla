---------------------------- MODULE LockChecker ----------------------------
(***************************************************************************)
(* lock.py: follow one execution path, pair every unlock with the lock it  *)
(* releases, collect what the pair protects and report what does not pair. *)
(* LockState keeps two stacks whose elements are compared by identity, so  *)
(* they are sets of positions in the path here, the top being the largest. *)
(***************************************************************************)
EXTENDS Integers, Sequences, FiniteSets, FiniteSetsExt

CONSTANTS LkArgs,     \* the argument of a call, a lock's address as text
          LkFuncs,    \* functions called on the path
          LkLen       \* bound on the effects of a path

LOCKS == [spin_lock |-> "spin_unlock",           spin_trylock |-> "spin_unlock",
          mutex_lock |-> "mutex_unlock",         mutex_trylock |-> "mutex_unlock",
          lock_page |-> "unlock_page",
          reiserfs_write_lock |-> "reiserfs_write_unlock"]
LkTries == {"spin_trylock", "mutex_trylock"}

LkIsLock(func)   == func \in DOMAIN LOCKS
LkIsUnlock(func) == \E l \in DOMAIN LOCKS : LOCKS[l] = func
LkEffects == [func : LkFuncs, arg : LkArgs]
LkOther == "other"       \* a call of another function, or a store

ASSUME LkAssumption == LkLen \in Nat

VARIABLES lkPath,      \* path.effects, as far as explore_path has come
          lkLocks,     \* locks
          lkEntries,   \* entries
          lkErrs,      \* errs: <<position, kind>>
          lkPairs,     \* <<lock, unlock>>, the calls of collect
          lkPc

lkVars == <<lkPath, lkLocks, lkEntries, lkErrs, lkPairs, lkPc>>

LkInit == /\ lkPath = <<>>
          /\ lkLocks = {} /\ lkEntries = {}
          /\ lkErrs = {} /\ lkPairs = {}
          /\ lkPc = "idle"

LkStart == lkPc = "idle" /\ lkPc' = "explore"
           /\ UNCHANGED <<lkPath, lkLocks, lkEntries, lkErrs, lkPairs>>

(* err, 50-53: the first error of a location stays                         *)
LkErr(errs, kind, at) == errs \cup {e \in {<<at, kind>>} : \A x \in errs : x[1] # at}

LkSame(p, q) == p.func = q.func /\ p.arg = q.arg

(* check_if_paired, 131-142, and _cmp_args, 58-67                          *)
LkPaired(l, u) == /\ LOCKS[l.func] = u.func
                  /\ l.arg = u.arg \/ "0" \in {l.arg, u.arg}

(* entries once lines 259-260 have put the effect at n there               *)
LkPushed(n) == IF lkLocks # {} THEN lkEntries \cup {n} ELSE lkEntries

LkSeeOther(e, n) == /\ ~LkIsLock(e.func) /\ ~LkIsUnlock(e.func)
                    /\ lkEntries' = LkPushed(n)
                    /\ UNCHANGED <<lkLocks, lkErrs, lkPairs, lkPc>>

(* mutant: the outermost lock is not pushed to entries                     *)
LkSeeLock_noentry(e, n) ==
  /\ LkIsLock(e.func)
  /\ lkErrs' = IF \E l \in lkLocks : LkSame(e, lkPath[l])
               THEN LkErr(lkErrs, "double locking", n) ELSE lkErrs
  /\ lkEntries' = LkPushed(n)
  /\ lkLocks' = lkLocks \cup {n}
  /\ UNCHANGED <<lkPairs, lkPc>>

(* lock, 77-88; nested, line 260 has pushed it to entries already          *)
LkSeeLock(e, n) ==
  /\ LkIsLock(e.func)
  /\ lkErrs' = IF \E l \in lkLocks : LkSame(e, lkPath[l])
               THEN LkErr(lkErrs, "double locking", n) ELSE lkErrs
  /\ lkEntries' = lkEntries \cup {n}
  /\ lkLocks' = lkLocks \cup {n}
  /\ UNCHANGED <<lkPairs, lkPc>>

(* unlock, 92-99                                                           *)
LkUncoordinated(e, n) ==
  /\ LkIsUnlock(e.func)
  /\ lkLocks = {} \/ LkPushed(n) = {}
  /\ lkErrs' = LkErr(lkErrs, "uncoordinated unlock", n)
  /\ lkEntries' = LkPushed(n)
  /\ UNCHANGED <<lkLocks, lkPairs, lkPc>>

(* mutant: failed try-locks are not passed over                            *)
LkStops_top(e) == lkLocks

(* Lines 104-112: the loop stops at a lock that pairs or is no try-lock    *)
LkStops(e) == {l \in lkLocks : \/ LkPaired(lkPath[l], e)
                               \/ lkPath[l].func \notin LkTries}

(* mutant: the lock that is released is not popped                         *)
LkUnlock_keep(e, n) ==
  /\ LkIsUnlock(e.func) /\ lkLocks # {} /\ LkPushed(n) # {} /\ LkStops(e) # {}
  /\ LET l == Max(LkStops(e))
     IN /\ lkLocks' = {k \in lkLocks : k <= l}
        /\ lkEntries' = {k \in lkEntries : k <= l}
        /\ lkErrs' = IF LkPaired(lkPath[l], e) THEN lkErrs ELSE LkErr(lkErrs, "not paired", n)
        /\ lkPairs' = lkPairs \cup {<<l, n>>}
  /\ UNCHANGED lkPc

(* Lines 101-129 and 272-275                                               *)
LkUnlock(e, n) ==
  /\ LkIsUnlock(e.func) /\ lkLocks # {} /\ LkPushed(n) # {} /\ LkStops(e) # {}
  /\ LET l == Max(LkStops(e))
         errs == IF LkPaired(lkPath[l], e) THEN lkErrs ELSE LkErr(lkErrs, "not paired", n)
         unlocked == {k \in lkEntries : /\ k > l /\ LkIsLock(lkPath[k].func)
                                        /\ lkPath[k].func \notin LkTries}
     IN /\ lkLocks' = {k \in lkLocks : k < l}
        /\ lkEntries' = {k \in lkEntries : k < l}
        /\ lkErrs' = IF unlocked = {} THEN errs ELSE LkErr(errs, "found unlocked lock", l)
        /\ lkPairs' = lkPairs \cup {<<l, n>>}
  /\ UNCHANGED lkPc

(* Line 105 pops from an empty list: the exception ends analyze_fs, and no *)
(* report is written                                                       *)
LkPopEmpty(e, n) ==
  /\ LkIsUnlock(e.func) /\ lkLocks # {} /\ LkPushed(n) # {} /\ LkStops(e) = {}
  /\ lkPc' = "crash"
  /\ lkErrs' = {} /\ lkPairs' = {}
  /\ UNCHANGED <<lkLocks, lkEntries>>

LkSee(e) == /\ lkPc = "explore" /\ Len(lkPath) < LkLen
            /\ lkPath' = Append(lkPath, e)
            /\ LET n == Len(lkPath) + 1
               IN \/ LkSeeOther(e, n) \/ LkSeeLock(e, n) \/ LkUncoordinated(e, n)
                  \/ LkUnlock(e, n) \/ LkPopEmpty(e, n)

(* Lines 277-282: nothing is reported of a single lock                     *)
LkEnd == /\ lkPc = "explore"
         /\ lkErrs' = lkErrs \cup {<<l, "not resolved">> :
              l \in {k \in lkLocks : /\ Cardinality(lkLocks) > 1
                                     /\ lkPath[k].func \notin LkTries
                                     /\ \A x \in lkErrs : x[1] # k}}
         /\ lkPc' = "done"
         /\ UNCHANGED <<lkPath, lkLocks, lkEntries, lkPairs>>

LkStep == (\E e \in LkEffects : LkSee(e)) \/ LkEnd
LkNext == LkStart \/ LkStep
LkSpec == LkInit /\ [][LkNext]_lkVars
-----------------------------------------------------------------------------
(* Reference, not in the code. Calls pair like brackets: the unlock at u   *)
(* releases the lock at l when the calls between them balance. Try-locks   *)
(* that no unlock of the path can release have failed and do not count.    *)
LkAt(S(_)) == {n \in DOMAIN lkPath : S(lkPath[n].func)}
LkFailed == {t \in LkAt(LkIsLock) : /\ lkPath[t].func \in LkTries
                                    /\ \A u \in LkAt(LkIsUnlock) : ~LkPaired(lkPath[t], lkPath[u])}
LkLocked == LkAt(LkIsLock) \ LkFailed
LkOpen(l, n) == Cardinality({k \in LkLocked : l <= k /\ k < n})
                  - Cardinality({k \in LkAt(LkIsUnlock) : l < k /\ k < n})
LkBrackets == {x \in LkLocked \X LkAt(LkIsUnlock) :
                 /\ x[1] < x[2] /\ LkOpen(x[1], x[2]) = 1
                 /\ \A k \in x[1] + 1 .. x[2] - 1 : LkOpen(x[1], k) >= 1}
(* Every unlock closes a bracket of its lock, and no call asks for a lock  *)
(* that has been asked for and not been released.                          *)
LkNested ==
  /\ \A u \in LkAt(LkIsUnlock) :
        \E x \in LkBrackets : x[2] = u /\ LkPaired(lkPath[x[1]], lkPath[u])
  /\ \A l, m \in LkAt(LkIsLock) :
        l < m /\ LkSame(lkPath[l], lkPath[m]) => \E x \in LkBrackets : x[1] = l /\ x[2] < m

LkTypeOK == /\ lkPath \in Seq(LkEffects)
            /\ lkLocks \subseteq DOMAIN lkPath
            /\ lkEntries \subseteq DOMAIN lkPath
            /\ lkErrs \subseteq (DOMAIN lkPath) \X {"double locking", "uncoordinated unlock",
                    "not paired", "found unlocked lock", "not resolved"}
            /\ lkPairs \subseteq (DOMAIN lkPath) \X (DOMAIN lkPath)
            /\ lkPc \in {"idle", "explore", "done", "crash"}

(* The stacks stay in step: entries holds exactly the held locks and what  *)
(* came after the outermost of them. So the assertion of line 101 and the  *)
(* search of 116-121 never miss, and the error of line 127 never happens.  *)
LkMirrored ==
  /\ lkLocks = {n \in lkEntries : LkIsLock(lkPath[n].func)}
  /\ \A n \in lkEntries : \E l \in lkLocks : l <= n
  /\ \A x \in lkErrs : x[2] # "found unlocked lock"

(* On a path whose calls nest, with failed try-locks anywhere, the pairs   *)
(* are the brackets, nothing is popped from an empty list, and nothing but *)
(* a lock that the path really leaves locked is reported.                  *)
LkNestedExact ==
  LkNested =>
    /\ lkPc # "crash"
    /\ lkPairs = LkBrackets
    /\ \A x \in lkErrs : x[2] = "not resolved" /\ ~ \E y \in LkBrackets : y[1] = x[1] \/ y[2] = x[1]

(* Every unlock gets an answer, an error at its place or one lock that it  *)
(* releases, and no lock is released by two of them.                       *)
LkAnswered ==
  /\ \A u \in LkAt(LkIsUnlock) : lkPc \in {"explore", "done"} =>
        \/ \E x \in lkErrs : x[1] = u
        \/ \E x \in lkPairs : x[2] = u /\ LkPaired(lkPath[x[1]], lkPath[u])
  /\ \A x, y \in lkPairs : x[1] = y[1] <=> x[2] = y[2]
=============================================================================
