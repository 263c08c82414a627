--------------------------- MODULE CheckerProofs ----------------------------
(***************************************************************************)
(* Proofs about the components two checkers are made of: LockChecker, for*)
(* paths of any length over any calls, and ReturnExpansion, for any      *)
(* functions, databases and depth.                                       *)
(***************************************************************************)
EXTENDS LockChecker, ReturnExpansion, FiniteSetTheorems, SequenceTheorems,
        WellFoundedInduction, TLAPS

Kinds == {"double locking", "uncoordinated unlock", "not paired",
          "found unlocked lock", "not resolved"}

(* A lock that has been released is held no more                         *)
ReleasedInv == \A x \in lkPairs : x[1] \notin lkLocks
LkIInv == /\ LkTypeOK /\ LkMirrored /\ LkAnswered /\ ReleasedInv
          /\ lkPc = "idle" => lkPath = <<>>

(* The top of a stack: a nonempty set of positions has a largest one     *)
LEMMA MaxOf ==
  ASSUME NEW n \in Nat, NEW S \in SUBSET (1 .. n), S # {}
  PROVE  Max(S) \in S /\ \A x \in S : x <= Max(S)
  <1> DEFINE T == {n - x : x \in S}
             R == OpToRel(<, Nat)
  <1>1. T \subseteq Nat /\ T # {}
    <2>1. \A x \in S : n - x \in Nat
      OBVIOUS
    <2> QED
      BY <2>1
  <1>2. IsWellFoundedOn(R, Nat)
    BY NatLessThanWellFounded
  <1>3. PICK m \in T : \A y \in T : <<y, m>> \notin R
    <2> HIDE DEF T, R
    <2> QED
      BY <1>1, <1>2, WFMin
  <1>4. \A y \in T : ~(y < m)
    BY <1>1, <1>3 DEF OpToRel
  <1>5. PICK x \in S : m = n - x
    BY <1>3
  <1>6. \A y \in S : x >= y
    BY <1>4, <1>5
  <1>7. \E z \in S : \A y \in S : z >= y
    BY <1>6
  <1>8. Max(S) \in S /\ \A y \in S : Max(S) >= y
    BY <1>7 DEF Max
  <1> QED
    BY <1>8

(* A pair that joins a set                                               *)
LEMMA PairJoins ==
  ASSUME NEW P, NEW a, NEW b
  PROVE  /\ <<a, b>> \in P \cup {<<a, b>>} /\ <<a, b>>[1] = a /\ <<a, b>>[2] = b
         /\ \A x \in P \cup {<<a, b>>} : x \in P \/ (x[1] = a /\ x[2] = b)
  OBVIOUS

LEMMA PairInProduct ==
  ASSUME NEW A, NEW B, NEW P \in SUBSET (A \X B), NEW a \in A, NEW b \in B
  PROVE  P \cup {<<a, b>>} \subseteq A \X B
  OBVIOUS

(* No call is both a lock and an unlock                                  *)
LEMMA LockNoUnlock == ASSUME NEW func, LkIsLock(func) PROVE ~LkIsUnlock(func)
  <1>1. DOMAIN LOCKS = {"spin_lock", "spin_trylock", "mutex_lock", "mutex_trylock",
                        "lock_page", "reiserfs_write_lock"}
    BY DEF LOCKS
  <1>2. /\ LOCKS["spin_lock"] = "spin_unlock" /\ LOCKS["spin_trylock"] = "spin_unlock"
        /\ LOCKS["mutex_lock"] = "mutex_unlock" /\ LOCKS["mutex_trylock"] = "mutex_unlock"
        /\ LOCKS["lock_page"] = "unlock_page"
        /\ LOCKS["reiserfs_write_lock"] = "reiserfs_write_unlock"
    BY DEF LOCKS
  <1>3. \A l \in DOMAIN LOCKS : LOCKS[l] \notin DOMAIN LOCKS
    BY <1>1, <1>2
  <1> QED
    BY <1>3 DEF LkIsLock, LkIsUnlock

(* What err does to the errors of a path                                 *)
LEMMA ErrOf ==
  ASSUME NEW errs, NEW kind, NEW at
  PROVE  /\ errs \subseteq LkErr(errs, kind, at)
         /\ LkErr(errs, kind, at) \subseteq errs \cup {<<at, kind>>}
         /\ \E x \in LkErr(errs, kind, at) : x[1] = at
  <1>1. CASE \A x \in errs : x[1] # at
    <2>1. LkErr(errs, kind, at) = errs \cup {<<at, kind>>}
      BY <1>1 DEF LkErr
    <2>2. <<at, kind>> \in LkErr(errs, kind, at) /\ <<at, kind>>[1] = at
      BY <2>1, PairJoins
    <2> QED
      BY <2>1, <2>2
  <1>2. CASE ~ \A x \in errs : x[1] # at
    <2>1. LkErr(errs, kind, at) = errs
      BY <1>2 DEF LkErr
    <2> QED
      BY <1>2, <2>1
  <1> QED
    BY <1>1, <1>2

LEMMA InitLkIInv == LkInit => LkIInv
  BY DEF LkInit, LkIInv, LkTypeOK, LkMirrored, LkAnswered, ReleasedInv, LkAt

LEMMA StartLkIInv == ASSUME LkIInv, LkStart PROVE LkIInv'
  <1>1. /\ lkPath = <<>> /\ lkPc' = "explore"
        /\ UNCHANGED <<lkPath, lkLocks, lkEntries, lkErrs, lkPairs>>
    BY DEF LkStart, LkIInv
  <1>2. LkTypeOK' /\ LkMirrored' /\ ReleasedInv'
    BY <1>1 DEF LkIInv, LkTypeOK, LkMirrored, ReleasedInv
  <1>3. DOMAIN lkPath = {}
    BY <1>1
  <1>4. LkAnswered'
    BY <1>1, <1>3 DEF LkIInv, LkAnswered, LkAt
  <1> QED
    BY <1>1, <1>2, <1>4 DEF LkIInv

LEMMA EndLkIInv == ASSUME LkIInv, LkEnd PROVE LkIInv'
  <1> DEFINE held == {k \in lkLocks : /\ Cardinality(lkLocks) > 1
                                      /\ lkPath[k].func \notin LkTries
                                      /\ \A x \in lkErrs : x[1] # k}
  <1>1. lkErrs' = lkErrs \cup {<<l, "not resolved">> : l \in held}
    BY DEF LkEnd
  <1>2. lkErrs \subseteq lkErrs' /\ \A x \in lkErrs' \ lkErrs : x[2] = "not resolved"
    <2>1. SUFFICES ASSUME NEW l \in held PROVE <<l, "not resolved">>[2] = "not resolved"
      BY <1>1
    <2> QED
      OBVIOUS
  <1>3. lkErrs' \subseteq (DOMAIN lkPath) \X Kinds
    <2>1. lkErrs \subseteq (DOMAIN lkPath) \X Kinds /\ lkLocks \subseteq DOMAIN lkPath
      BY DEF LkIInv, LkTypeOK, Kinds
    <2>2. \A l \in held : <<l, "not resolved">> \in (DOMAIN lkPath) \X Kinds
      BY <2>1 DEF Kinds
    <2> QED
      BY <1>1, <2>1, <2>2
  <1>4. LkTypeOK'
    BY <1>3 DEF LkEnd, LkIInv, LkTypeOK, Kinds
  <1>5. LkMirrored'
    BY <1>2 DEF LkEnd, LkIInv, LkMirrored
  <1>6. LkAnswered'
    BY <1>2 DEF LkEnd, LkIInv, LkAnswered, LkAt
  <1> QED
    BY <1>4, <1>5, <1>6 DEF LkEnd, LkIInv, ReleasedInv

(* Any effect makes the path longer and leaves what is on it             *)
LEMMA SeeMakesLonger ==
  ASSUME LkIInv, NEW e \in LkEffects, lkPath' = Append(lkPath, e)
  PROVE  /\ Len(lkPath) \in Nat /\ Len(lkPath) + 1 \notin DOMAIN lkPath
         /\ DOMAIN lkPath = 1 .. Len(lkPath)
         /\ DOMAIN lkPath' = (DOMAIN lkPath) \cup {Len(lkPath) + 1}
         /\ lkPath' \in Seq(LkEffects)
         /\ \A k \in DOMAIN lkPath : lkPath'[k] = lkPath[k]
         /\ lkPath'[Len(lkPath) + 1] = e
  <1>1. lkPath \in Seq(LkEffects)
    BY DEF LkIInv, LkTypeOK
  <1>2. Len(lkPath) \in Nat /\ DOMAIN lkPath = 1 .. Len(lkPath)
    BY <1>1
  <1>3. lkPath' \in Seq(LkEffects) /\ Len(lkPath') = Len(lkPath) + 1
    BY <1>1
  <1>4. DOMAIN lkPath' = 1 .. Len(lkPath) + 1
    BY <1>3
  <1>5. 1 .. Len(lkPath) + 1 = (1 .. Len(lkPath)) \cup {Len(lkPath) + 1}
    BY <1>2
  <1>6. \A k \in 1 .. Len(lkPath) : lkPath'[k] = lkPath[k]
    BY <1>1, <1>2
  <1>7. lkPath'[Len(lkPath) + 1] = e
    BY <1>1, <1>2
  <1> QED
    BY <1>2, <1>3, <1>4, <1>5, <1>6, <1>7

LEMMA SeeLkIInv ==
  ASSUME LkIInv, NEW e \in LkEffects, LkSee(e)
  PROVE  LkIInv'
  <1> DEFINE n == Len(lkPath) + 1
  <1>1. lkPc = "explore" /\ lkPath' = Append(lkPath, e)
    BY DEF LkSee
  <1>2. /\ n \in Nat /\ n \notin DOMAIN lkPath
        /\ DOMAIN lkPath = 1 .. n - 1 /\ DOMAIN lkPath' = (DOMAIN lkPath) \cup {n}
        /\ lkPath' \in Seq(LkEffects)
        /\ \A k \in DOMAIN lkPath : lkPath'[k] = lkPath[k]
        /\ lkPath'[n] = e
    BY <1>1, SeeMakesLonger
  <1>3. /\ lkLocks \subseteq DOMAIN lkPath /\ lkEntries \subseteq DOMAIN lkPath
        /\ lkErrs \subseteq (DOMAIN lkPath) \X Kinds
        /\ lkPairs \subseteq (DOMAIN lkPath) \X (DOMAIN lkPath)
    BY DEF LkIInv, LkTypeOK, Kinds
  <1>4. /\ \A k \in lkLocks : k \in lkEntries /\ LkIsLock(lkPath[k].func)
        /\ \A k \in lkEntries : LkIsLock(lkPath[k].func) => k \in lkLocks
        /\ \A k \in lkEntries : \E l \in lkLocks : l <= k
        /\ \A x \in lkErrs : x[2] # "found unlocked lock"
    BY DEF LkIInv, LkMirrored
  <1>5. /\ \A u \in DOMAIN lkPath : LkIsUnlock(lkPath[u].func) =>
             \/ \E x \in lkErrs : x[1] = u
             \/ \E x \in lkPairs : x[2] = u /\ LkPaired(lkPath[x[1]], lkPath[u])
        /\ \A x, y \in lkPairs : x[1] = y[1] <=> x[2] = y[2]
        /\ \A x \in lkPairs : x[1] \notin lkLocks
    BY <1>1 DEF LkIInv, LkAnswered, LkAt, ReleasedInv
  <1> HIDE DEF n
  (* It is enough to show this of the new values                           *)
  <1>6. ASSUME /\ lkLocks' \subseteq lkLocks \cup {n} /\ lkEntries' \subseteq lkEntries \cup {n}
               /\ lkErrs' \subseteq (DOMAIN lkPath') \X (Kinds \ {"found unlocked lock"})
               /\ lkPairs' \subseteq (DOMAIN lkPath') \X (DOMAIN lkPath')
               /\ lkPc' \in {"explore", "crash"}
               /\ lkLocks' = {k \in lkEntries' : LkIsLock(lkPath'[k].func)}
               /\ \A k \in lkEntries' : \E l \in lkLocks' : l <= k
               /\ \A x \in lkPairs' : x[1] \notin lkLocks'
               /\ \A x, y \in lkPairs' : x[1] = y[1] <=> x[2] = y[2]
               /\ lkPc' = "explore" =>
                    /\ lkErrs \subseteq lkErrs' /\ lkPairs \subseteq lkPairs'
                    /\ LkIsUnlock(e.func) =>
                         \/ \E x \in lkErrs' : x[1] = n
                         \/ \E x \in lkPairs' : x[2] = n /\ LkPaired(lkPath'[x[1]], e)
        PROVE  LkIInv'
    <2>1. LkTypeOK'
      BY <1>2, <1>3, <1>6 DEF LkTypeOK, Kinds
    <2>2. LkMirrored'
      BY <1>6 DEF LkMirrored
    <2>3. ASSUME lkPc' = "explore", NEW u \in DOMAIN lkPath', LkIsUnlock(lkPath'[u].func)
          PROVE  \/ \E x \in lkErrs' : x[1] = u
                 \/ \E x \in lkPairs' : x[2] = u /\ LkPaired(lkPath'[x[1]], lkPath'[u])
      <3>1. CASE u = n
        BY <3>1, <2>3, <1>2, <1>6
      <3>2. CASE u # n
        <4>1. u \in DOMAIN lkPath /\ lkPath'[u] = lkPath[u]
          BY <3>2, <1>2
        <4>2. CASE \E x \in lkErrs : x[1] = u
          BY <4>2, <2>3, <1>6
        <4>3. CASE \E x \in lkPairs : x[2] = u /\ LkPaired(lkPath[x[1]], lkPath[u])
          <5>1. PICK x \in lkPairs : x[2] = u /\ LkPaired(lkPath[x[1]], lkPath[u])
            BY <4>3
          <5>2. x \in lkPairs' /\ lkPath'[x[1]] = lkPath[x[1]]
            BY <1>2, <1>3, <1>6, <2>3
          <5> QED
            BY <4>1, <5>1, <5>2
        <4> QED
          BY <4>1, <4>2, <4>3, <2>3, <1>5
      <3> QED
        BY <3>1, <3>2
    <2>4. LkAnswered'
      BY <2>3, <1>6 DEF LkAnswered, LkAt
    <2> QED
      BY <2>1, <2>2, <2>4, <1>6 DEF LkIInv, ReleasedInv
  <1>7. \A k \in lkEntries : lkPath'[k] = lkPath[k]
    BY <1>2, <1>3
  <1>8. \A k \in lkLocks \cup lkEntries : k < n
    BY <1>2, <1>3
  <1>9. n \in Nat /\ lkLocks \subseteq Nat /\ lkEntries \subseteq Nat
    BY <1>2, <1>3
  <1>10. lkPairs \subseteq (DOMAIN lkPath') \X (DOMAIN lkPath')
    BY <1>2, <1>3
  <1>11. lkErrs \subseteq (DOMAIN lkPath') \X (Kinds \ {"found unlocked lock"})
    BY <1>2, <1>3, <1>4
  <1>12. \A k \in Kinds \ {"found unlocked lock"} :
           /\ lkErrs \subseteq LkErr(lkErrs, k, n)
           /\ LkErr(lkErrs, k, n) \subseteq (DOMAIN lkPath') \X (Kinds \ {"found unlocked lock"})
           /\ \E x \in LkErr(lkErrs, k, n) : x[1] = n
    <2>1. SUFFICES ASSUME NEW k \in Kinds \ {"found unlocked lock"}
                   PROVE  /\ lkErrs \subseteq LkErr(lkErrs, k, n)
                          /\ LkErr(lkErrs, k, n) \subseteq
                                (DOMAIN lkPath') \X (Kinds \ {"found unlocked lock"})
                          /\ \E x \in LkErr(lkErrs, k, n) : x[1] = n
      OBVIOUS
    <2>2. lkErrs \cup {<<n, k>>} \subseteq (DOMAIN lkPath') \X (Kinds \ {"found unlocked lock"})
      BY <1>2, <1>11, PairInProduct
    <2> QED
      BY <2>2, ErrOf
  <1>13. CASE LkSeeOther(e, n)
    <2>1. /\ ~LkIsLock(e.func) /\ ~LkIsUnlock(e.func)
          /\ lkEntries' = IF lkLocks # {} THEN lkEntries \cup {n} ELSE lkEntries
          /\ UNCHANGED <<lkLocks, lkErrs, lkPairs, lkPc>>
      BY <1>13 DEF LkSeeOther, LkPushed
    <2>2. lkLocks' = {k \in lkEntries' : LkIsLock(lkPath'[k].func)}
      BY <2>1, <1>2, <1>4, <1>7
    <2>3. \A k \in lkEntries' : \E l \in lkLocks' : l <= k
      <3>1. SUFFICES ASSUME NEW k \in lkEntries' PROVE \E l \in lkLocks' : l <= k
        OBVIOUS
      <3>2. CASE k \in lkEntries
        BY <3>2, <2>1, <1>4
      <3>3. CASE k = n /\ lkLocks # {}
        <4>1. PICK l \in lkLocks : TRUE
          BY <3>3
        <4>2. l < n /\ l \in Nat /\ n \in Nat
          BY <1>8, <1>9
        <4>3. l <= n
          BY <4>2
        <4> QED
          BY <4>3, <3>3, <2>1
      <3> QED
        BY <3>2, <3>3, <2>1
    <2> QED
      BY <2>1, <2>2, <2>3, <1>1, <1>5, <1>6, <1>10, <1>11
  <1>14. CASE LkSeeLock(e, n)
    <2>1. /\ LkIsLock(e.func)
          /\ lkErrs' \in {lkErrs, LkErr(lkErrs, "double locking", n)}
          /\ lkEntries' = lkEntries \cup {n} /\ lkLocks' = lkLocks \cup {n}
          /\ UNCHANGED <<lkPairs, lkPc>>
      BY <1>14 DEF LkSeeLock
    <2>2. lkLocks' = {k \in lkEntries' : LkIsLock(lkPath'[k].func)}
      BY <2>1, <1>2, <1>4, <1>7
    <2>3. \A k \in lkEntries' : \E l \in lkLocks' : l <= k
      <3>1. SUFFICES ASSUME NEW k \in lkEntries' PROVE \E l \in lkLocks' : l <= k
        OBVIOUS
      <3>2. CASE k \in lkEntries
        BY <3>2, <2>1, <1>4
      <3>3. CASE k = n
        <4>1. n \in lkLocks'
          BY <2>1
        <4>2. n <= n
          BY <1>9
        <4> QED
          BY <4>1, <4>2, <3>3
      <3> QED
        BY <3>2, <3>3, <2>1
    <2>4. ~LkIsUnlock(e.func)
      BY <2>1, LockNoUnlock
    <2>5. \A x \in lkPairs : x[1] \notin lkLocks'
      BY <2>1, <1>2, <1>3, <1>5
    <2>6. /\ lkErrs \subseteq lkErrs'
          /\ lkErrs' \subseteq (DOMAIN lkPath') \X (Kinds \ {"found unlocked lock"})
      BY <2>1, <1>11, <1>12 DEF Kinds
    <2> QED
      BY <2>1, <2>2, <2>3, <2>4, <2>5, <2>6, <1>1, <1>5, <1>6, <1>10
  <1>15. CASE LkUncoordinated(e, n)
    <2>1. /\ lkLocks = {} \/ LkPushed(n) = {}
          /\ lkErrs' = LkErr(lkErrs, "uncoordinated unlock", n)
          /\ lkEntries' = LkPushed(n)
          /\ UNCHANGED <<lkLocks, lkPairs, lkPc>>
      BY <1>15 DEF LkUncoordinated
    <2>2. lkLocks = {} /\ lkEntries = {} /\ lkEntries' = {}
      BY <2>1, <1>4 DEF LkPushed
    <2>3. /\ lkErrs \subseteq lkErrs' /\ \E x \in lkErrs' : x[1] = n
          /\ lkErrs' \subseteq (DOMAIN lkPath') \X (Kinds \ {"found unlocked lock"})
      BY <2>1, <1>12 DEF Kinds
    <2> QED
      BY <2>1, <2>2, <2>3, <1>1, <1>5, <1>6, <1>10
  <1>16. CASE LkUnlock(e, n)
    <2> DEFINE l == Max(LkStops(e))
               errs == IF LkPaired(lkPath[l], e) THEN lkErrs
                       ELSE LkErr(lkErrs, "not paired", n)
               unlocked == {k \in lkEntries : /\ k > l /\ LkIsLock(lkPath[k].func)
                                              /\ lkPath[k].func \notin LkTries}
    <2>1. /\ LkStops(e) # {}
          /\ lkLocks' = {k \in lkLocks : k < l} /\ lkEntries' = {k \in lkEntries : k < l}
          /\ lkErrs' = IF unlocked = {} THEN errs ELSE LkErr(errs, "found unlocked lock", l)
          /\ lkPairs' = lkPairs \cup {<<l, n>>} /\ UNCHANGED lkPc
      BY <1>16 DEF LkUnlock
    <2>2. LkStops(e) \in SUBSET (1 .. n - 1) /\ n - 1 \in Nat
      BY <1>2, <1>3 DEF LkStops, n
    <2>3. l \in LkStops(e) /\ \A k \in LkStops(e) : k <= l
      BY <2>1, <2>2, MaxOf
    <2>4. l \in lkLocks /\ l \in DOMAIN lkPath /\ l < n /\ l \in Nat
      BY <2>2, <2>3, <1>2, <1>3, <1>8 DEF LkStops
    <2> HIDE DEF l
    <2>5. unlocked = {}
      <3>1. SUFFICES ASSUME NEW k \in unlocked PROVE FALSE
        OBVIOUS
      <3>2. k \in LkStops(e)
        BY <1>4 DEF LkStops
      <3> QED
        BY <3>2, <2>2, <2>3
    <2>6. lkErrs' = errs
      BY <2>1, <2>5
    <2>7. /\ lkErrs \subseteq lkErrs'
          /\ lkErrs' \subseteq (DOMAIN lkPath') \X (Kinds \ {"found unlocked lock"})
          /\ ~LkPaired(lkPath[l], e) => \E x \in lkErrs' : x[1] = n
      BY <2>6, <1>11, <1>12 DEF Kinds
    <2>8. LkPaired(lkPath[l], e) => \E x \in lkPairs' : x[2] = n /\ LkPaired(lkPath'[x[1]], e)
      <3>1. <<l, n>> \in lkPairs' /\ <<l, n>>[1] = l /\ <<l, n>>[2] = n /\ lkPath'[l] = lkPath[l]
        BY <2>1, <2>4, <1>2
      <3> QED
        BY <3>1
    <2>9. lkLocks' = {k \in lkEntries' : LkIsLock(lkPath'[k].func)}
      BY <2>1, <1>4, <1>7
    <2>10. \A k \in lkEntries' : \E m \in lkLocks' : m <= k
      <3>1. SUFFICES ASSUME NEW k \in lkEntries' PROVE \E m \in lkLocks' : m <= k
        OBVIOUS
      <3>2. PICK m \in lkLocks : m <= k
        BY <2>1, <1>4
      <3>3. m \in Nat /\ k \in Nat /\ k < l
        BY <2>1, <1>9
      <3>4. m < l
        BY <3>2, <3>3, <2>4
      <3>5. m \in lkLocks'
        BY <3>2, <3>4, <2>1
      <3> QED
        BY <3>2, <3>5
    <2>11. \A x \in lkPairs' : x \in lkPairs \/ (x[1] = l /\ x[2] = n)
      <3>1. SUFFICES ASSUME NEW x \in lkPairs', x \notin lkPairs PROVE x[1] = l /\ x[2] = n
        OBVIOUS
      <3>2. x = <<l, n>>
        BY <2>1, <3>1
      <3> QED
        BY <3>2
    <2>12. \A x \in lkPairs' : x[1] \notin lkLocks'
      <3>1. SUFFICES ASSUME NEW x \in lkPairs' PROVE x[1] \notin lkLocks'
        OBVIOUS
      <3>2. CASE x \in lkPairs
        BY <3>2, <2>1, <1>5
      <3>3. CASE x[1] = l
        <4>1. lkLocks' = {k \in lkLocks : k < l}
          BY <2>1
        <4>2. l \in Nat
          BY <2>4
        <4>3. ~(l < l)
          BY <4>2
        <4> QED
          BY <4>1, <4>3, <3>3
      <3> QED
        BY <3>2, <3>3, <2>11
    <2>13. \A x, y \in lkPairs' : x[1] = y[1] <=> x[2] = y[2]
      <3>1. \A x \in lkPairs : x[1] # l /\ x[2] # n
        BY <2>4, <1>2, <1>3, <1>5
      <3> QED
        BY <2>11, <3>1, <1>5
    <2>14. l \in DOMAIN lkPath' /\ n \in DOMAIN lkPath'
      BY <2>4, <1>2
    <2>15. lkPairs' \subseteq (DOMAIN lkPath') \X (DOMAIN lkPath') /\ lkPairs \subseteq lkPairs'
      BY <2>1, <2>4, <2>14, <1>10, PairInProduct
    <2>16. lkLocks' \subseteq lkLocks /\ lkEntries' \subseteq lkEntries
      BY <2>1
    <2> QED
      BY <2>1, <2>7, <2>8, <2>9, <2>10, <2>13, <2>15, <2>16, <2>12, <1>1, <1>6
  <1>17. CASE LkPopEmpty(e, n)
    <2>1. lkPc' = "crash" /\ lkErrs' = {} /\ lkPairs' = {} /\ UNCHANGED <<lkLocks, lkEntries>>
      BY <1>17 DEF LkPopEmpty
    <2>2. lkLocks' = {k \in lkEntries' : LkIsLock(lkPath'[k].func)}
      BY <2>1, <1>4, <1>7
    <2> QED
      BY <2>1, <2>2, <1>4, <1>6
  <1> QED
    BY <1>13, <1>14, <1>15, <1>16, <1>17 DEF LkSee, n

LEMMA LkInvariance == LkSpec => []LkIInv
  <1>1. LkIInv /\ [LkNext]_lkVars => LkIInv'
    <2>1. ASSUME LkIInv, UNCHANGED lkVars PROVE LkIInv'
      BY <2>1 DEF LkIInv, lkVars, LkTypeOK, LkMirrored, LkAnswered, ReleasedInv, LkAt
    <2> QED
      BY <2>1, StartLkIInv, SeeLkIInv, EndLkIInv DEF LkNext, LkStep
  <1> QED
    BY InitLkIInv, <1>1, PTL DEF LkSpec

(* The variables of explore_path have their types.                       *)
THEOREM LockTypes == LkSpec => []LkTypeOK
  BY LkInvariance, PTL DEF LkIInv

(* The two stacks of LockState stay in step, so the error of line 127 is *)
(* never reported.                                                       *)
THEOREM StacksInStep == LkSpec => []LkMirrored
  BY LkInvariance, PTL DEF LkIInv

(* Every unlock is answered, and no lock is released twice.              *)
THEOREM UnlocksAnswered == LkSpec => []LkAnswered
  BY LkInvariance, PTL DEF LkIInv

-----------------------------------------------------------------------------
(***************************************************************************)
(* The locks of a path that nests are released like brackets. Brackets   *)
(* first, over any positions L of locks and U of unlocks: how many locks *)
(* since the one at l are not balanced by unlocks before n, which locks  *)
(* are still open there, and what closes what.                           *)
(***************************************************************************)
Balance(L, U, l, n) == Cardinality({k \in L : l <= k /\ k < n})
                         - Cardinality({k \in U : l < k /\ k < n})
StillOpen(L, U, n) == {l \in L : l < n /\ \A k \in l + 1 .. n : Balance(L, U, l, k) >= 1}
Closed(L, U) == {x \in L \X U : /\ x[1] < x[2] /\ Balance(L, U, x[1], x[2]) = 1
                                /\ \A k \in x[1] + 1 .. x[2] - 1 : Balance(L, U, x[1], k) >= 1}

LEMMA PartFinite ==
  ASSUME NEW M \in Nat, NEW S \in SUBSET (1 .. M), NEW T \in SUBSET S
  PROVE  IsFiniteSet(T) /\ Cardinality(T) \in Nat
<1>1. IsFiniteSet(1 .. M) /\ T \subseteq 1 .. M
  BY FS_Interval
<1>2. IsFiniteSet(T)
  BY <1>1, FS_Subset
<1>. QED  BY <1>2, FS_CardinalityType

LEMMA BalanceInt ==
  ASSUME NEW M \in Nat, NEW L \in SUBSET (1 .. M), NEW U \in SUBSET (1 .. M), NEW l, NEW n
  PROVE  Balance(L, U, l, n) \in Int
<1>1. {k \in L : l <= k /\ k < n} \in SUBSET L /\ {k \in U : l < k /\ k < n} \in SUBSET U
  OBVIOUS
<1>2. /\ Cardinality({k \in L : l <= k /\ k < n}) \in Nat
      /\ Cardinality({k \in U : l < k /\ k < n}) \in Nat
  BY <1>1, PartFinite
<1>. QED  BY <1>2 DEF Balance

(* One more position                                                     *)
LEMMA BalanceStep ==
  ASSUME NEW M \in Nat, NEW L \in SUBSET (1 .. M), NEW U \in SUBSET (1 .. M), L \cap U = {},
         NEW l \in L, NEW n \in 1 .. M, l < n
  PROVE  /\ n \in L => Balance(L, U, l, n + 1) = Balance(L, U, l, n) + 1
         /\ n \in U => Balance(L, U, l, n + 1) = Balance(L, U, l, n) - 1
         /\ n \notin L \cup U => Balance(L, U, l, n + 1) = Balance(L, U, l, n)
<1> DEFINE A(i) == {k \in L : l <= k /\ k < i}
           B(i) == {k \in U : l < k /\ k < i}
<1>1. /\ IsFiniteSet(A(n)) /\ Cardinality(A(n)) \in Nat
      /\ IsFiniteSet(B(n)) /\ Cardinality(B(n)) \in Nat
  <2>1. A(n) \in SUBSET L /\ B(n) \in SUBSET U
    OBVIOUS
  <2> HIDE DEF A, B
  <2>. QED  BY <2>1, PartFinite
<1>2. n \notin A(n) /\ n \notin B(n)
  OBVIOUS
<1>3. /\ n \in L => A(n + 1) = A(n) \cup {n}
      /\ n \notin L => A(n + 1) = A(n)
  <2>1. \A k \in L : k < n + 1 <=> k < n \/ k = n
    OBVIOUS
  <2>2. l <= n
    OBVIOUS
  <2>3. n \in L => A(n + 1) = A(n) \cup {n}
    BY <2>1, <2>2
  <2>4. n \notin L => A(n + 1) = A(n)
    BY <2>1
  <2>. QED  BY <2>3, <2>4
<1>4. /\ n \in U => B(n + 1) = B(n) \cup {n}
      /\ n \notin U => B(n + 1) = B(n)
  <2>1. \A k \in U : k < n + 1 <=> k < n \/ k = n
    OBVIOUS
  <2>2. n \in U => B(n + 1) = B(n) \cup {n}
    BY <2>1
  <2>3. n \notin U => B(n + 1) = B(n)
    BY <2>1
  <2>. QED  BY <2>2, <2>3
<1>5. \A i : Balance(L, U, l, i) = Cardinality(A(i)) - Cardinality(B(i))
  BY DEF Balance
<1> HIDE DEF A, B
<1>6. /\ Cardinality(A(n) \cup {n}) = Cardinality(A(n)) + 1
      /\ Cardinality(B(n) \cup {n}) = Cardinality(B(n)) + 1
  BY <1>1, <1>2, FS_AddElement
<1>7. ~(n \in L /\ n \in U)
  OBVIOUS
<1>8. ASSUME n \in L  PROVE Balance(L, U, l, n + 1) = Balance(L, U, l, n) + 1
  <2>1. A(n + 1) = A(n) \cup {n} /\ B(n + 1) = B(n)
    BY <1>3, <1>4, <1>7, <1>8
  <2>. QED  BY <1>1, <1>5, <1>6, <2>1
<1>9. ASSUME n \in U  PROVE Balance(L, U, l, n + 1) = Balance(L, U, l, n) - 1
  <2>1. A(n + 1) = A(n) /\ B(n + 1) = B(n) \cup {n}
    BY <1>3, <1>4, <1>7, <1>9
  <2>. QED  BY <1>1, <1>5, <1>6, <2>1
<1>10. ASSUME n \notin L \cup U  PROVE Balance(L, U, l, n + 1) = Balance(L, U, l, n)
  <2>1. A(n + 1) = A(n) /\ B(n + 1) = B(n)
    BY <1>3, <1>4, <1>10
  <2>. QED  BY <1>5, <2>1
<1>. QED  BY <1>8, <1>9, <1>10

LEMMA BalanceFirst ==
  ASSUME NEW M \in Nat, NEW L \in SUBSET (1 .. M), NEW U \in SUBSET (1 .. M), NEW l \in L
  PROVE  Balance(L, U, l, l + 1) = 1
<1>1. {k \in L : l <= k /\ k < l + 1} = {l} /\ {k \in U : l < k /\ k < l + 1} = {}
  <2>1. \A k \in L : l <= k /\ k < l + 1 <=> k = l
    OBVIOUS
  <2>2. \A k \in U : ~(l < k /\ k < l + 1)
    OBVIOUS
  <2>. QED  BY <2>1, <2>2
<1>2. Cardinality({l}) = 1 /\ Cardinality({}) = 0
  BY FS_Singleton, FS_EmptySet
<1>. QED  BY <1>1, <1>2 DEF Balance

(* From one open lock to the next                                        *)
LEMMA BalanceSplit ==
  ASSUME NEW M \in Nat, NEW L \in SUBSET (1 .. M), NEW U \in SUBSET (1 .. M), L \cap U = {},
         NEW l \in L, NEW m \in L, l < m, NEW n \in Nat, m < n
  PROVE  Balance(L, U, l, n) = Balance(L, U, l, m) + Balance(L, U, m, n)
<1> DEFINE A(i, j) == {k \in L : i <= k /\ k < j}
           B(i, j) == {k \in U : i < k /\ k < j}
<1>1. \A i, j : /\ IsFiniteSet(A(i, j)) /\ Cardinality(A(i, j)) \in Nat
                /\ IsFiniteSet(B(i, j)) /\ Cardinality(B(i, j)) \in Nat
  <2>1. \A i, j : A(i, j) \in SUBSET L /\ B(i, j) \in SUBSET U
    OBVIOUS
  <2> HIDE DEF A, B
  <2>. QED  BY <2>1, PartFinite
<1>2. A(l, n) = A(l, m) \cup A(m, n) /\ A(l, m) \cap A(m, n) = {}
  <2>1. \A k \in L : /\ l <= k /\ k < n <=> (l <= k /\ k < m) \/ (m <= k /\ k < n)
                     /\ ~(k < m /\ m <= k)
    OBVIOUS
  <2>. QED  BY <2>1
<1>3. B(l, n) = B(l, m) \cup B(m, n) /\ B(l, m) \cap B(m, n) = {}
  <2>1. m \notin U
    OBVIOUS
  <2>2. \A k \in U : /\ l < k /\ k < n <=> (l < k /\ k < m) \/ (m < k /\ k < n)
                     /\ ~(k < m /\ m < k)
    BY <2>1
  <2>. QED  BY <2>2
<1>4. \A i, j : Balance(L, U, i, j) = Cardinality(A(i, j)) - Cardinality(B(i, j))
  BY DEF Balance
<1> HIDE DEF A, B
<1>5. Cardinality({}) = 0
  BY FS_EmptySet
<1>6. Cardinality(A(l, m) \cup A(m, n))
        = Cardinality(A(l, m)) + Cardinality(A(m, n)) - Cardinality(A(l, m) \cap A(m, n))
  BY <1>1, FS_Union
<1>7. Cardinality(B(l, m) \cup B(m, n))
        = Cardinality(B(l, m)) + Cardinality(B(m, n)) - Cardinality(B(l, m) \cap B(m, n))
  BY <1>1, FS_Union
<1>0. Cardinality(A(l, m) \cap A(m, n)) = 0 /\ Cardinality(B(l, m) \cap B(m, n)) = 0
  BY <1>2, <1>3, <1>5
<1>8. Cardinality(A(l, n)) = Cardinality(A(l, m)) + Cardinality(A(m, n))
  BY <1>0, <1>1, <1>2, <1>6
<1>9. Cardinality(B(l, n)) = Cardinality(B(l, m)) + Cardinality(B(m, n))
  BY <1>0, <1>1, <1>3, <1>7
<1>. QED  BY <1>1, <1>4, <1>8, <1>9

(* Only what comes before counts                                         *)
LEMMA BalanceSame ==
  ASSUME NEW L, NEW U, NEW K, NEW V, NEW n,
         \A k : k < n => (k \in L <=> k \in K) /\ (k \in U <=> k \in V), NEW l
  PROVE  Balance(L, U, l, n) = Balance(K, V, l, n)
<1>1. {k \in L : l <= k /\ k < n} = {k \in K : l <= k /\ k < n}
  OBVIOUS
<1>2. {k \in U : l < k /\ k < n} = {k \in V : l < k /\ k < n}
  OBVIOUS
<1>. QED  BY <1>1, <1>2 DEF Balance

(* An unlock closes the last lock that is open                           *)
LEMMA ClosesTop ==
  ASSUME NEW M \in Nat, NEW L \in SUBSET (1 .. M), NEW U \in SUBSET (1 .. M), L \cap U = {},
         NEW l, NEW n, <<l, n>> \in Closed(L, U)
  PROVE  /\ l \in L /\ n \in U /\ l < n /\ Balance(L, U, l, n) = 1
         /\ l \in StillOpen(L, U, n) /\ \A m \in StillOpen(L, U, n) : m <= l
<1>1. /\ l \in L /\ n \in U /\ l < n /\ Balance(L, U, l, n) = 1
      /\ \A k \in l + 1 .. n - 1 : Balance(L, U, l, k) >= 1
  BY DEF Closed
<1>2. l \in Nat /\ n \in Nat
  BY <1>1
<1>3. l \in StillOpen(L, U, n)
  <2>1. \A k \in l + 1 .. n : k = n \/ k \in l + 1 .. n - 1
    BY <1>2
  <2>. QED  BY <1>1, <2>1 DEF StillOpen
<1>4. ASSUME NEW m \in StillOpen(L, U, n), ~(m <= l)  PROVE FALSE
  <2>1. m \in L /\ m < n /\ \A k \in m + 1 .. n : Balance(L, U, m, k) >= 1
    BY DEF StillOpen
  <2>2. m \in Nat /\ l < m /\ n \in m + 1 .. n /\ m \in l + 1 .. n - 1
    BY <1>2, <1>4, <2>1
  <2>3. Balance(L, U, m, n) >= 1 /\ Balance(L, U, l, m) >= 1
    BY <1>1, <2>1, <2>2
  <2>4. Balance(L, U, l, n) = Balance(L, U, l, m) + Balance(L, U, m, n)
    <3>1. l \in L /\ m \in L /\ l < m /\ n \in Nat /\ m < n
      BY <1>1, <1>2, <2>1, <2>2
    <3>. QED  BY <3>1, BalanceSplit
  <2>5. Balance(L, U, l, m) \in Int /\ Balance(L, U, m, n) \in Int
    BY BalanceInt
  <2>. QED  BY <1>1, <2>3, <2>4, <2>5
<1>. QED  BY <1>1, <1>3, <1>4

LEMMA ClosesOne ==
  ASSUME NEW M \in Nat, NEW L \in SUBSET (1 .. M), NEW U \in SUBSET (1 .. M), L \cap U = {},
         NEW l, NEW m, NEW n, <<l, n>> \in Closed(L, U), <<m, n>> \in Closed(L, U)
  PROVE  l = m
<1>1. l \in StillOpen(L, U, n) /\ \A k \in StillOpen(L, U, n) : k <= l
  BY ClosesTop
<1>2. m \in StillOpen(L, U, n) /\ \A k \in StillOpen(L, U, n) : k <= m
  BY ClosesTop
<1>3. l \in Nat /\ m \in Nat
  BY <1>1, <1>2 DEF StillOpen
<1>4. l <= m /\ m <= l
  BY <1>1, <1>2
<1>. QED  BY <1>3, <1>4

LEMMA OpenNotClosed ==
  ASSUME NEW M \in Nat, NEW L \in SUBSET (1 .. M), NEW U \in SUBSET (1 .. M), L \cap U = {},
         NEW n, NEW l \in StillOpen(L, U, n), NEW u, u < n, n \in Nat
  PROVE  <<l, u>> \notin Closed(L, U)
<1> SUFFICES ASSUME <<l, u>> \in Closed(L, U)  PROVE FALSE
  OBVIOUS
<1>1. l \in L /\ u \in U /\ l < u /\ Balance(L, U, l, u) = 1
  BY ClosesTop
<1>2. Balance(L, U, l, u + 1) = Balance(L, U, l, u) - 1
  BY <1>1, BalanceStep
<1>3. u + 1 \in l + 1 .. n
  BY <1>1
<1>4. Balance(L, U, l, u + 1) >= 1
  BY <1>3 DEF StillOpen
<1>. QED  BY <1>1, <1>2, <1>4

LEMMA OpenNext ==
  ASSUME NEW M \in Nat, NEW L \in SUBSET (1 .. M), NEW U \in SUBSET (1 .. M), L \cap U = {},
         NEW n \in 1 .. M, NEW l
  PROVE  l \in StillOpen(L, U, n + 1)
           <=> l \in L /\ (l = n \/ (l \in StillOpen(L, U, n) /\ Balance(L, U, l, n + 1) >= 1))
<1>1. CASE l \notin L
  BY <1>1 DEF StillOpen
<1>2. CASE l \in L /\ l = n
  <2>1. Balance(L, U, l, l + 1) = 1
    BY <1>2, BalanceFirst
  <2>2. l < n + 1 /\ \A k \in l + 1 .. n + 1 : k = l + 1
    BY <1>2
  <2>3. l \in StillOpen(L, U, n + 1)
    <3>1. \A k \in l + 1 .. n + 1 : Balance(L, U, l, k) >= 1
      BY <2>1, <2>2
    <3>. QED  BY <1>2, <2>2, <3>1 DEF StillOpen
  <2>. QED  BY <1>2, <2>3
<1>3. CASE l \in L /\ l # n
  <2>1. l < n + 1 <=> l < n
    BY <1>3
  <2>2. l < n => /\ n + 1 \in l + 1 .. n + 1
                 /\ \A k \in l + 1 .. n + 1 : k = n + 1 \/ k \in l + 1 .. n
                 /\ \A k \in l + 1 .. n : k \in l + 1 .. n + 1
    BY <1>3
  <2>. QED  BY <1>3, <2>1, <2>2 DEF StillOpen
<1>. QED  BY <1>1, <1>2, <1>3

(* What is open after a lock, anything else, an unlock that closes a lock  *)
LEMMA OpenAfterLock ==
  ASSUME NEW M \in Nat, NEW L \in SUBSET (1 .. M), NEW U \in SUBSET (1 .. M), L \cap U = {},
         NEW n \in 1 .. M, n \in L
  PROVE  StillOpen(L, U, n + 1) = StillOpen(L, U, n) \cup {n}
<1>1. ASSUME NEW l \in StillOpen(L, U, n)  PROVE Balance(L, U, l, n + 1) >= 1
  <2>1. l \in L /\ l < n /\ l \in Nat /\ n \in l + 1 .. n /\ Balance(L, U, l, n) >= 1
    BY DEF StillOpen
  <2>2. Balance(L, U, l, n + 1) = Balance(L, U, l, n) + 1
    BY <2>1, BalanceStep
  <2>3. Balance(L, U, l, n) \in Int
    BY BalanceInt
  <2>. QED  BY <2>1, <2>2, <2>3
<1>2. \A l : l \in StillOpen(L, U, n + 1)
           <=> l \in L /\ (l = n \/ (l \in StillOpen(L, U, n) /\ Balance(L, U, l, n + 1) >= 1))
  BY OpenNext
<1>3. \A l \in StillOpen(L, U, n) : l \in L
  BY DEF StillOpen
<1>4. ASSUME NEW l  PROVE l \in StillOpen(L, U, n + 1) <=> l = n \/ l \in StillOpen(L, U, n)
  <2>1. CASE l = n
    BY <1>2, <2>1
  <2>2. CASE l \in StillOpen(L, U, n)
    BY <1>1, <1>2, <1>3, <2>2
  <2>3. CASE l # n /\ l \notin StillOpen(L, U, n)
    BY <1>2, <2>3
  <2>. QED  BY <2>1, <2>2, <2>3
<1>. QED  BY <1>4

LEMMA OpenAfterOther ==
  ASSUME NEW M \in Nat, NEW L \in SUBSET (1 .. M), NEW U \in SUBSET (1 .. M), L \cap U = {},
         NEW n \in 1 .. M, n \notin L \cup U
  PROVE  StillOpen(L, U, n + 1) = StillOpen(L, U, n)
<1>1. ASSUME NEW l \in StillOpen(L, U, n)  PROVE Balance(L, U, l, n + 1) >= 1
  <2>1. l \in L /\ l < n /\ l \in Nat /\ n \in l + 1 .. n /\ Balance(L, U, l, n) >= 1
    BY DEF StillOpen
  <2>2. Balance(L, U, l, n + 1) = Balance(L, U, l, n)
    BY <2>1, BalanceStep
  <2>. QED  BY <2>1, <2>2
<1>2. \A l : l \in StillOpen(L, U, n + 1)
           <=> l \in L /\ (l = n \/ (l \in StillOpen(L, U, n) /\ Balance(L, U, l, n + 1) >= 1))
  BY OpenNext
<1>3. \A l \in StillOpen(L, U, n) : l \in L
  BY DEF StillOpen
<1>4. n \notin L
  OBVIOUS
<1>. QED  BY <1>1, <1>2, <1>3, <1>4

LEMMA OpenAfterUnlock ==
  ASSUME NEW M \in Nat, NEW L \in SUBSET (1 .. M), NEW U \in SUBSET (1 .. M), L \cap U = {},
         NEW n \in 1 .. M, NEW l, <<l, n>> \in Closed(L, U)
  PROVE  StillOpen(L, U, n + 1) = {k \in StillOpen(L, U, n) : k < l}
<1>1. /\ l \in L /\ n \in U /\ l < n /\ Balance(L, U, l, n) = 1
      /\ l \in StillOpen(L, U, n) /\ \A m \in StillOpen(L, U, n) : m <= l
  BY ClosesTop
<1>2. \A k : k \in StillOpen(L, U, n + 1)
           <=> k \in L /\ (k = n \/ (k \in StillOpen(L, U, n) /\ Balance(L, U, k, n + 1) >= 1))
  BY OpenNext
<1>3. \A k \in StillOpen(L, U, n) : k \in L /\ k \in Nat /\ k < n /\ n \in k + 1 .. n
  BY DEF StillOpen
<1>4. n \notin L /\ l \in Nat
  BY <1>1, <1>3
<1>5. ASSUME NEW k \in StillOpen(L, U, n)  PROVE Balance(L, U, k, n + 1) >= 1 <=> k < l
  <2>0. k \in L /\ k < n /\ n \in U
    BY <1>1, <1>3
  <2>1. Balance(L, U, k, n + 1) = Balance(L, U, k, n) - 1 /\ Balance(L, U, k, n) \in Int
    <3>1. Balance(L, U, k, n + 1) = Balance(L, U, k, n) - 1
      BY <2>0, BalanceStep
    <3>. QED  BY <3>1, BalanceInt
  <2>2. CASE k = l
    BY <1>1, <1>4, <2>1, <2>2
  <2>3. CASE k # l
    <3>1. k < l
      BY <1>1, <1>3, <1>4, <2>3
    <3>2. Balance(L, U, k, n) = Balance(L, U, k, l) + Balance(L, U, l, n)
      <4>1. k \in L /\ l \in L /\ k < l /\ n \in Nat /\ l < n
        BY <1>1, <1>3, <3>1
      <4>. QED  BY <4>1, BalanceSplit
    <3>3. l \in k + 1 .. n
      BY <1>1, <1>3, <1>4, <3>1
    <3>4. Balance(L, U, k, l) >= 1 /\ Balance(L, U, k, l) \in Int
      BY <3>3, BalanceInt DEF StillOpen
    <3>. QED  BY <1>1, <2>1, <3>1, <3>2, <3>4
  <2>. QED  BY <2>2, <2>3
<1>. QED  BY <1>2, <1>3, <1>4, <1>5

(* Brackets that end before n depend on what is before n                 *)
SameBelow(M, n, L, U, K, V) ==
  \A k \in 1 .. M : k < n => (k \in L <=> k \in K) /\ (k \in U <=> k \in V)

LEMMA SameBalance ==
  ASSUME NEW M \in Nat, NEW L \in SUBSET (1 .. M), NEW U \in SUBSET (1 .. M),
         NEW K \in SUBSET (1 .. M), NEW V \in SUBSET (1 .. M), NEW n \in Nat,
         SameBelow(M, n, L, U, K, V),
         NEW l, NEW j \in Int, j <= n
  PROVE  Balance(L, U, l, j) = Balance(K, V, l, j)
<1>0. \A k : k \in L \/ k \in U \/ k \in K \/ k \in V => k \in 1 .. M
  OBVIOUS
<1>1. \A k : k < j => (k \in L <=> k \in K) /\ (k \in U <=> k \in V)
  <2>1. SUFFICES ASSUME NEW k \in 1 .. M, k < j
                 PROVE  (k \in L <=> k \in K) /\ (k \in U <=> k \in V)
    BY <1>0
  <2>2. k < n
    BY <2>1
  <2>. QED  BY <2>1, <2>2 DEF SameBelow
<1>. QED  BY <1>1, BalanceSame

LEMMA ClosedSame ==
  ASSUME NEW M \in Nat, NEW L \in SUBSET (1 .. M), NEW U \in SUBSET (1 .. M),
         NEW K \in SUBSET (1 .. M), NEW V \in SUBSET (1 .. M), NEW n \in Nat,
         SameBelow(M, n, L, U, K, V)
  PROVE  \A l, u : u < n => (<<l, u>> \in Closed(L, U) <=> <<l, u>> \in Closed(K, V))
<1>1. \A l, j : j \in Int /\ j <= n => Balance(L, U, l, j) = Balance(K, V, l, j)
  BY SameBalance
<1>2. ASSUME NEW l, NEW u, u < n
      PROVE  <<l, u>> \in Closed(L, U) <=> <<l, u>> \in Closed(K, V)
  <2>1. CASE ~(l \in 1 .. M /\ u \in 1 .. M /\ l < u)
    BY <2>1 DEF Closed
  <2>2. CASE l \in 1 .. M /\ u \in 1 .. M /\ l < u
    <3>1. (l \in L <=> l \in K) /\ (u \in U <=> u \in V)
      <4>1. l < n
        BY <1>2, <2>2
      <4>. QED  BY <4>1, <1>2, <2>2 DEF SameBelow
    <3>2. Balance(L, U, l, u) = Balance(K, V, l, u)
      BY <1>1, <1>2, <2>2
    <3>3. \A k \in l + 1 .. u - 1 : Balance(L, U, l, k) = Balance(K, V, l, k)
      <4>1. \A k \in l + 1 .. u - 1 : k \in Int /\ k <= n
        BY <1>2, <2>2
      <4>. QED  BY <1>1, <4>1
    <3>. QED  BY <3>1, <3>2, <3>3 DEF Closed
  <2>. QED  BY <2>1, <2>2
<1>. QED  BY <1>2

LEMMA OpenSame ==
  ASSUME NEW M \in Nat, NEW L \in SUBSET (1 .. M), NEW U \in SUBSET (1 .. M),
         NEW K \in SUBSET (1 .. M), NEW V \in SUBSET (1 .. M), NEW n \in Nat,
         SameBelow(M, n, L, U, K, V)
  PROVE  StillOpen(L, U, n) = StillOpen(K, V, n)
<1>1. \A l, j : j \in Int /\ j <= n => Balance(L, U, l, j) = Balance(K, V, l, j)
  BY SameBalance
<1>2. ASSUME NEW l  PROVE l \in StillOpen(L, U, n) <=> l \in StillOpen(K, V, n)
  <2>1. CASE ~(l \in 1 .. M /\ l < n)
    BY <2>1 DEF StillOpen
  <2>2. CASE l \in 1 .. M /\ l < n
    <3>1. \A k \in l + 1 .. n : k \in Int /\ k <= n
      BY <2>2
    <3>2. \A k \in l + 1 .. n : Balance(L, U, l, k) = Balance(K, V, l, k)
      BY <1>1, <3>1
    <3>3. l \in L <=> l \in K
      BY <2>2 DEF SameBelow
    <3>. QED  BY <3>2, <3>3 DEF StillOpen
  <2>. QED  BY <2>1, <2>2
<1>. QED  BY <1>2

(***************************************************************************)
(* The reference, over any path and any set of try-locks that fail.      *)
(***************************************************************************)
LocksOf(path) == {n \in DOMAIN path : LkIsLock(path[n].func)}
UnlocksOf(path) == {n \in DOMAIN path : LkIsUnlock(path[n].func)}
Fail(path, F) == /\ \A t \in F : t \in LocksOf(path) /\ path[t].func \in LkTries
                 /\ \A t \in F, u \in UnlocksOf(path) : ~LkPaired(path[t], path[u])
Bracketed(path, F) == Closed(LocksOf(path) \ F, UnlocksOf(path))
Nest(path, F) ==
  /\ \A u \in UnlocksOf(path) : \E l : /\ <<l, u>> \in Bracketed(path, F)
                                       /\ LkPaired(path[l], path[u])
  /\ \A l, m \in LocksOf(path) :
        l < m /\ LkSame(path[l], path[m]) => \E u : u < m /\ <<l, u>> \in Bracketed(path, F)
OpenAt(path, F, n) == StillOpen(LocksOf(path) \ F, UnlocksOf(path), n)
HeldOpen(path, F) == OpenAt(path, F, Len(path) + 1)

(* What the code has found out when the path so far nests                *)
NestInv == \A F : Fail(lkPath, F) /\ Nest(lkPath, F) =>
             /\ lkPc # "crash"
             /\ lkPairs = Bracketed(lkPath, F)
             /\ lkLocks \ F = HeldOpen(lkPath, F)
             /\ lkPc # "done" => lkErrs = {}
             /\ \A x \in lkErrs : x[2] = "not resolved" /\ x[1] \in lkLocks \ F

Longer(p, q, n, e) == /\ n \in Nat /\ n >= 1 /\ DOMAIN p = 1 .. n - 1 /\ DOMAIN q = 1 .. n
                      /\ \A k \in 1 .. n - 1 : q[k] = p[k]
                      /\ q[n] = e

(* A path that nests has nested all along                                *)
LEMMA NestBefore ==
  ASSUME NEW p, NEW q, NEW n, NEW e, Longer(p, q, n, e), NEW F, Fail(q, F), Nest(q, F)
  PROVE  /\ Fail(p, F \ {n}) /\ Nest(p, F \ {n})
         /\ \A l, u : u < n => (<<l, u>> \in Bracketed(q, F) <=> <<l, u>> \in Bracketed(p, F \ {n}))
         /\ OpenAt(q, F, n) = OpenAt(p, F \ {n}, n)
<1> DEFINE L == LocksOf(q) \ F        U == UnlocksOf(q)
           K == LocksOf(p) \ (F \ {n})  V == UnlocksOf(p)
<1>1. /\ n \in Nat /\ n >= 1 /\ DOMAIN p = 1 .. n - 1 /\ DOMAIN q = 1 .. n
      /\ \A k \in 1 .. n - 1 : q[k] = p[k]
  BY DEF Longer
<1>2. \A k \in 1 .. n - 1 : /\ k \in LocksOf(q) <=> k \in LocksOf(p)
                            /\ k \in UnlocksOf(q) <=> k \in UnlocksOf(p)
                            /\ k \in 1 .. n /\ k < n /\ k # n
  BY <1>1 DEF LocksOf, UnlocksOf
<1>3. /\ LocksOf(p) \subseteq 1 .. n - 1 /\ UnlocksOf(p) \subseteq 1 .. n - 1
      /\ LocksOf(q) \subseteq 1 .. n /\ UnlocksOf(q) \subseteq 1 .. n
  BY <1>1 DEF LocksOf, UnlocksOf
<1>4. /\ L \in SUBSET (1 .. n) /\ U \in SUBSET (1 .. n)
      /\ K \in SUBSET (1 .. n) /\ V \in SUBSET (1 .. n)
  BY <1>1, <1>2, <1>3
<1>5. \A k \in 1 .. n : k < n => (k \in L <=> k \in K) /\ (k \in U <=> k \in V)
  <2>1. \A k \in 1 .. n : k < n => k \in 1 .. n - 1
    BY <1>1
  <2>. QED  BY <1>2, <2>1
<1>6. /\ \A l, u : u < n => (<<l, u>> \in Closed(L, U) <=> <<l, u>> \in Closed(K, V))
      /\ StillOpen(L, U, n) = StillOpen(K, V, n)
  <2>1. SameBelow(n, n, L, U, K, V)
    BY <1>5 DEF SameBelow
  <2> HIDE DEF L, U, K, V
  <2>2. \A l, u : u < n => (<<l, u>> \in Closed(L, U) <=> <<l, u>> \in Closed(K, V))
    BY <1>1, <1>4, <2>1, ClosedSame
  <2>3. StillOpen(L, U, n) = StillOpen(K, V, n)
    BY <1>1, <1>4, <2>1, OpenSame
  <2>. QED  BY <2>2, <2>3
<1>7. Fail(p, F \ {n})
  <2>1. \A t \in F \ {n} : t \in LocksOf(p) /\ p[t].func \in LkTries /\ p[t] = q[t]
    <3>1. \A t \in F \ {n} : t \in LocksOf(q) /\ q[t].func \in LkTries
      BY DEF Fail
    <3>2. \A t \in F \ {n} : t \in 1 .. n - 1
      BY <1>1, <1>3, <3>1
    <3>. QED  BY <1>1, <1>2, <3>1, <3>2
  <2>2. \A u \in UnlocksOf(p) : u \in UnlocksOf(q) /\ p[u] = q[u]
    BY <1>1, <1>2, <1>3
  <2>3. \A t \in F, u \in UnlocksOf(q) : ~LkPaired(q[t], q[u])
    BY DEF Fail
  <2>4. \A t \in F \ {n}, u \in UnlocksOf(p) : ~LkPaired(p[t], p[u])
    BY <2>1, <2>2, <2>3
  <2>. QED  BY <2>1, <2>4 DEF Fail
<1>8. ASSUME NEW u \in UnlocksOf(p)
      PROVE  \E l : <<l, u>> \in Bracketed(p, F \ {n}) /\ LkPaired(p[l], p[u])
  <2>1. u \in UnlocksOf(q) /\ u \in 1 .. n - 1 /\ u < n
    BY <1>2, <1>3
  <2>2. PICK l : <<l, u>> \in Bracketed(q, F) /\ LkPaired(q[l], q[u])
    BY <2>1 DEF Nest
  <2>3. <<l, u>> \in Bracketed(p, F \ {n})
    BY <1>6, <2>1, <2>2 DEF Bracketed
  <2>4. l \in 1 .. n - 1
    <3>1. l \in LocksOf(p)
      BY <2>3 DEF Bracketed, Closed
    <3>. QED  BY <1>3, <3>1
  <2>. QED  BY <1>1, <2>1, <2>2, <2>3, <2>4
<1>9. ASSUME NEW l \in LocksOf(p), NEW m \in LocksOf(p), l < m, LkSame(p[l], p[m])
      PROVE  \E u : u < m /\ <<l, u>> \in Bracketed(p, F \ {n})
  <2>1. l \in LocksOf(q) /\ m \in LocksOf(q) /\ q[l] = p[l] /\ q[m] = p[m] /\ m < n /\ m \in Int
    BY <1>1, <1>2, <1>3
  <2>2. PICK u : u < m /\ <<l, u>> \in Bracketed(q, F)
    BY <1>9, <2>1 DEF Nest
  <2>3. u \in Int
    BY <1>3, <2>2 DEF Bracketed, Closed
  <2>4. u < n
    BY <1>1, <2>1, <2>2, <2>3
  <2>. QED  BY <1>6, <2>2, <2>4 DEF Bracketed
<1>10. Nest(p, F \ {n})
  BY <1>8, <1>9 DEF Nest
<1>. QED  BY <1>6, <1>7, <1>10 DEF Bracketed, OpenAt
LEMMA OpenBefore ==
  ASSUME NEW p, NEW q, NEW n, NEW e, Longer(p, q, n, e), NEW F, Fail(q, F), Nest(q, F)
  PROVE  OpenAt(q, F, n) = OpenAt(p, F \ {n}, n)
  BY NestBefore

LEMMA PathSets ==
  ASSUME NEW path, NEW n \in Nat, DOMAIN path = 1 .. n, NEW F
  PROVE  /\ LocksOf(path) \ F \in SUBSET (1 .. n) /\ UnlocksOf(path) \in SUBSET (1 .. n)
         /\ (LocksOf(path) \ F) \cap UnlocksOf(path) = {}
<1>1. \A k : k \in LocksOf(path) => k \notin UnlocksOf(path)
  BY LockNoUnlock DEF LocksOf, UnlocksOf
<1>. QED  BY <1>1 DEF LocksOf, UnlocksOf

(* An effect that is no unlock adds no bracket, an unlock adds its own   *)
LEMMA BracketedNext ==
  ASSUME NEW p, NEW q, NEW n, NEW e, Longer(p, q, n, e), NEW F, Fail(q, F), Nest(q, F)
  PROVE  /\ ~LkIsUnlock(e.func) => Bracketed(q, F) = Bracketed(p, F \ {n})
         /\ \A l : <<l, n>> \in Bracketed(q, F)
               => Bracketed(q, F) = Bracketed(p, F \ {n}) \cup {<<l, n>>}
<1>1. /\ n \in Nat /\ n >= 1 /\ DOMAIN p = 1 .. n - 1 /\ DOMAIN q = 1 .. n
      /\ \A k \in 1 .. n - 1 : q[k] = p[k]
      /\ q[n] = e
  BY DEF Longer
<1>2. \A l, u : u < n => (<<l, u>> \in Bracketed(q, F) <=> <<l, u>> \in Bracketed(p, F \ {n}))
  BY NestBefore
<1>3. /\ LocksOf(q) \ F \in SUBSET (1 .. n) /\ UnlocksOf(q) \in SUBSET (1 .. n)
      /\ (LocksOf(q) \ F) \cap UnlocksOf(q) = {}
  BY <1>1, PathSets
<1>4. \A x \in Bracketed(q, F) : x = <<x[1], x[2]>> /\ x[2] \in UnlocksOf(q)
  BY DEF Bracketed, Closed
<1>5. \A x \in Bracketed(p, F \ {n}) : x = <<x[1], x[2]>> /\ x[2] < n
  <2>1. \A x \in Bracketed(p, F \ {n}) : x = <<x[1], x[2]>> /\ x[2] \in DOMAIN p
    BY DEF Bracketed, Closed, UnlocksOf
  <2>. QED  BY <1>1, <2>1
<1>6. \A u \in UnlocksOf(q) : u = n \/ u < n
  BY <1>1, <1>3
<1>7. Bracketed(p, F \ {n}) \subseteq Bracketed(q, F)
  <2>1. SUFFICES ASSUME NEW x \in Bracketed(p, F \ {n})  PROVE x \in Bracketed(q, F)
    OBVIOUS
  <2>2. x = <<x[1], x[2]>> /\ x[2] < n
    BY <1>5
  <2>3. <<x[1], x[2]>> \in Bracketed(q, F)
    BY <1>2, <2>2
  <2>. QED  BY <2>2, <2>3
<1>8. ASSUME NEW x \in Bracketed(q, F), x[2] # n  PROVE x \in Bracketed(p, F \ {n})
  <2>1. x = <<x[1], x[2]>> /\ x[2] < n
    BY <1>4, <1>6, <1>8
  <2>2. <<x[1], x[2]>> \in Bracketed(p, F \ {n})
    BY <1>2, <2>1
  <2>. QED  BY <2>1, <2>2
<1>9. ASSUME ~LkIsUnlock(e.func)  PROVE Bracketed(q, F) \subseteq Bracketed(p, F \ {n})
  <2>1. n \notin UnlocksOf(q)
    BY <1>1, <1>9 DEF UnlocksOf
  <2>. QED  BY <1>4, <1>8, <2>1
<1>10. ASSUME NEW l, <<l, n>> \in Bracketed(q, F)
       PROVE  Bracketed(q, F) = Bracketed(p, F \ {n}) \cup {<<l, n>>}
  <2>1. ASSUME NEW x \in Bracketed(q, F), x[2] = n  PROVE x = <<l, n>>
    <3>1. x = <<x[1], n>>
      BY <1>4, <2>1
    <3>2. <<l, n>> \in Closed(LocksOf(q) \ F, UnlocksOf(q))
      BY <1>10 DEF Bracketed
    <3>3. <<x[1], n>> \in Closed(LocksOf(q) \ F, UnlocksOf(q))
      BY <3>1, <2>1 DEF Bracketed
    <3>4. l = x[1]
      <4> DEFINE L == LocksOf(q) \ F
      <4>1. n \in Nat /\ L \in SUBSET (1 .. n)
        BY <1>1, <1>3
      <4>2. L \cap UnlocksOf(q) = {}
        BY <1>3
      <4>3. <<l, n>> \in Closed(L, UnlocksOf(q)) /\ <<x[1], n>> \in Closed(L, UnlocksOf(q))
        BY <3>2, <3>3
      <4> HIDE DEF L
      <4>. QED  BY <1>3, <4>1, <4>2, <4>3, ClosesOne
    <3>. QED  BY <3>1, <3>4
  <2>2. \A x \in Bracketed(q, F) : x \in Bracketed(p, F \ {n}) \/ x = <<l, n>>
    BY <1>8, <2>1
  <2>. QED  BY <1>7, <1>10, <2>2
<1>. QED  BY <1>7, <1>9, <1>10

LEMMA InitNestInv == LkInit => NestInv
<1> SUFFICES ASSUME LkInit  PROVE NestInv
  OBVIOUS
<1>1. lkPath = <<>> /\ lkLocks = {} /\ lkErrs = {} /\ lkPairs = {} /\ lkPc = "idle"
  BY DEF LkInit
<1>2. LocksOf(lkPath) = {} /\ UnlocksOf(lkPath) = {}
  BY <1>1 DEF LocksOf, UnlocksOf
<1>3. \A F : Bracketed(lkPath, F) = {} /\ HeldOpen(lkPath, F) = {}
  BY <1>2 DEF Bracketed, HeldOpen, OpenAt, Closed, StillOpen
<1>. QED  BY <1>1, <1>3 DEF NestInv

LEMMA StartNestInv == ASSUME LkIInv, NestInv, LkStart PROVE NestInv'
<1>1. lkPc' = "explore" /\ UNCHANGED <<lkPath, lkLocks, lkEntries, lkErrs, lkPairs>> /\ lkPc = "idle"
  BY DEF LkStart
<1>. QED  BY <1>1 DEF NestInv

LEMMA EndNestInv == ASSUME LkIInv, NestInv, LkEnd PROVE NestInv'
<1>1. /\ lkPc = "explore" /\ lkPc' = "done" /\ UNCHANGED <<lkPath, lkLocks, lkEntries, lkPairs>>
      /\ lkErrs' = lkErrs \cup {<<l, "not resolved">> :
              l \in {k \in lkLocks : /\ Cardinality(lkLocks) > 1
                                     /\ lkPath[k].func \notin LkTries
                                     /\ \A x \in lkErrs : x[1] # k}}
  BY DEF LkEnd
<1>2. \A x \in lkErrs' : x \in lkErrs \/ \E l \in lkLocks : lkPath[l].func \notin LkTries
                                                        /\ x = <<l, "not resolved">>
  BY <1>1
<1> SUFFICES ASSUME NEW F, Fail(lkPath, F), Nest(lkPath, F)
             PROVE  /\ lkPairs = Bracketed(lkPath, F)
                    /\ lkLocks \ F = HeldOpen(lkPath, F)
                    /\ \A x \in lkErrs' : x[2] = "not resolved" /\ x[1] \in lkLocks \ F
  BY <1>1 DEF NestInv
<1>3. /\ lkPairs = Bracketed(lkPath, F) /\ lkLocks \ F = HeldOpen(lkPath, F)
      /\ lkErrs = {}
  BY <1>1 DEF NestInv
<1>4. ASSUME NEW x \in lkErrs'  PROVE x[2] = "not resolved" /\ x[1] \in lkLocks \ F
  <2>1. PICK l \in lkLocks : lkPath[l].func \notin LkTries /\ x = <<l, "not resolved">>
    BY <1>2, <1>3
  <2>2. l \notin F
    BY <2>1 DEF Fail
  <2>. QED  BY <2>1, <2>2
<1>. QED  BY <1>3, <1>4

LEMMA SeeNestInv ==
  ASSUME LkIInv, NestInv, NEW e \in LkEffects, LkSee(e)
  PROVE  NestInv'
<1> DEFINE n == Len(lkPath) + 1
           q == Append(lkPath, e)
<1>1. lkPc = "explore" /\ lkPath' = q
  BY DEF LkSee
<1>2. /\ n \in Nat /\ n >= 1 /\ n \notin DOMAIN lkPath
      /\ DOMAIN lkPath = 1 .. n - 1 /\ DOMAIN q = 1 .. n /\ Len(q) = n
      /\ \A k \in DOMAIN lkPath : q[k] = lkPath[k]
      /\ q[n] = e
  <2>1. lkPath \in Seq(LkEffects)
    BY DEF LkIInv, LkTypeOK
  <2>. QED  BY <2>1
<1>3. Longer(lkPath, q, n, e)
  BY <1>2 DEF Longer
<1>4. /\ lkLocks \subseteq DOMAIN lkPath
      /\ \A k \in lkLocks : k \in lkEntries /\ LkIsLock(lkPath[k].func)
      /\ \A k \in lkEntries : LkIsLock(lkPath[k].func) => k \in lkLocks
      /\ \A k \in lkEntries : \E l \in lkLocks : l <= k
  BY DEF LkIInv, LkTypeOK, LkMirrored
<1>5. \A k \in lkLocks : k \in 1 .. n - 1 /\ k # n /\ k < n /\ k \in Int /\ q[k] = lkPath[k]
  BY <1>2, <1>4
<1> HIDE DEF n, q
<1> SUFFICES ASSUME NEW F, Fail(q, F), Nest(q, F)
             PROVE  /\ lkPc' = "explore"
                    /\ lkPairs' = Bracketed(q, F)
                    /\ lkLocks' \ F = HeldOpen(q, F)
                    /\ lkErrs' = {}
  BY <1>1 DEF NestInv
<1> DEFINE L == LocksOf(q) \ F
           U == UnlocksOf(q)
<1>6. /\ L \in SUBSET (1 .. n) /\ U \in SUBSET (1 .. n) /\ L \cap U = {} /\ n \in 1 .. n
  BY <1>2, PathSets
<1>7. /\ lkPairs = Bracketed(lkPath, F \ {n})
      /\ lkLocks \ F = StillOpen(L, U, n)
      /\ lkErrs = {}
  <2>1. /\ Fail(lkPath, F \ {n}) /\ Nest(lkPath, F \ {n})
        /\ OpenAt(q, F, n) = OpenAt(lkPath, F \ {n}, n)
    <3>1. Longer(lkPath, q, n, e) /\ Fail(q, F) /\ Nest(q, F)
      BY <1>3
    <3>2. Fail(lkPath, F \ {n}) /\ Nest(lkPath, F \ {n})
      BY <3>1, NestBefore
    <3>3. OpenAt(q, F, n) = OpenAt(lkPath, F \ {n}, n)
      BY <3>1, OpenBefore
    <3>. QED  BY <3>2, <3>3
  <2>2. /\ lkPairs = Bracketed(lkPath, F \ {n})
        /\ lkLocks \ (F \ {n}) = HeldOpen(lkPath, F \ {n})
        /\ lkErrs = {}
    BY <1>1, <2>1 DEF NestInv
  <2>3. lkLocks \ (F \ {n}) = lkLocks \ F
    BY <1>5
  <2>. QED  BY <2>1, <2>2, <2>3 DEF HeldOpen, OpenAt, n
<1>8. HeldOpen(q, F) = StillOpen(L, U, n + 1)
  BY <1>2 DEF HeldOpen, OpenAt
<1>9. ~LkIsUnlock(e.func) => Bracketed(q, F) = lkPairs /\ n \notin U
  <2>1. ~LkIsUnlock(e.func) => n \notin U
    BY <1>2 DEF UnlocksOf
  <2>2. ~LkIsUnlock(e.func) => Bracketed(q, F) = Bracketed(lkPath, F \ {n})
    BY <1>3, BracketedNext
  <2>. QED  BY <1>7, <2>1, <2>2
<1>10. n \notin L /\ n \notin U => HeldOpen(q, F) = lkLocks \ F
  <2>1. SUFFICES ASSUME n \notin L, n \notin U  PROVE HeldOpen(q, F) = lkLocks \ F
    OBVIOUS
  <2>2. n \notin L \cup U
    BY <2>1
  <2> HIDE DEF L, U
  <2>3. StillOpen(L, U, n + 1) = StillOpen(L, U, n)
    BY <1>2, <1>6, <2>2, OpenAfterOther
  <2>. QED  BY <1>7, <1>8, <2>3
<1>11. CASE LkSeeOther(e, n)
  <2>1. /\ ~LkIsLock(e.func) /\ ~LkIsUnlock(e.func)
        /\ UNCHANGED <<lkLocks, lkErrs, lkPairs, lkPc>>
    BY <1>11 DEF LkSeeOther
  <2>2. n \notin L
    BY <1>2, <2>1 DEF LocksOf
  <2>. QED  BY <1>1, <1>7, <1>9, <1>10, <2>1, <2>2
<1>12. CASE LkSeeLock(e, n)
  <2>1. /\ LkIsLock(e.func)
        /\ lkErrs' = IF \E l \in lkLocks : LkSame(e, lkPath[l])
                     THEN LkErr(lkErrs, "double locking", n) ELSE lkErrs
        /\ lkLocks' = lkLocks \cup {n} /\ UNCHANGED <<lkPairs, lkPc>>
    BY <1>12 DEF LkSeeLock
  <2>2. ~LkIsUnlock(e.func)
    BY <2>1, LockNoUnlock
  <2>3. n \in LocksOf(q)
    <3>1. n \in DOMAIN q /\ LkIsLock(q[n].func)
      BY <1>2, <1>6, <2>1
    <3>. QED  BY <3>1 DEF LocksOf
  <2>4. ASSUME NEW l \in lkLocks, LkSame(e, lkPath[l])  PROVE FALSE
    <3>1. l \in LocksOf(q) /\ l < n /\ LkSame(q[l], q[n])
      BY <1>2, <1>4, <1>5, <2>4 DEF LocksOf, LkSame
    <3>2. PICK u : u < n /\ <<l, u>> \in Bracketed(q, F)
      BY <2>3, <3>1 DEF Nest
    <3>3. <<l, u>> \in Closed(L, U)
      BY <3>2 DEF Bracketed
    <3>4. l \in L
      BY <3>3 DEF Closed
    <3>5. l \in StillOpen(L, U, n)
      BY <1>7, <2>4, <3>4
    <3> HIDE DEF L, U
    <3>. QED  BY <1>2, <1>6, <3>2, <3>3, <3>5, OpenNotClosed
  <2>5. lkErrs' = {}
    BY <1>7, <2>1, <2>4
  <2>6. lkLocks' \ F = HeldOpen(q, F)
    <3>1. CASE n \in F
      BY <1>9, <1>10, <2>1, <2>2, <3>1
    <3>2. CASE n \notin F
      <4>1. n \in L
        BY <2>3, <3>2
      <4> HIDE DEF L, U
      <4>2. StillOpen(L, U, n + 1) = StillOpen(L, U, n) \cup {n}
        BY <1>2, <1>6, <4>1, OpenAfterLock
      <4>. QED  BY <1>7, <1>8, <2>1, <3>2, <4>2
    <3>. QED  BY <3>1, <3>2
  <2>. QED  BY <1>1, <1>9, <2>1, <2>2, <2>5, <2>6
<1>13. ASSUME LkIsUnlock(e.func)
       PROVE  /\ lkLocks # {} /\ LkPushed(n) # {} /\ LkStops(e) # {}
              /\ LkPaired(lkPath[Max(LkStops(e))], e)
              /\ \A k \in LkStops(e) : k <= Max(LkStops(e))
              /\ <<Max(LkStops(e)), n>> \in Bracketed(q, F)
  <2>1. n \in U
    BY <1>2, <1>13 DEF UnlocksOf
  <2>2. PICK l : <<l, n>> \in Bracketed(q, F) /\ LkPaired(q[l], e)
    BY <1>2, <2>1 DEF Nest
  <2>3. <<l, n>> \in Closed(L, U)
    BY <2>2 DEF Bracketed
  <2>4. l \in StillOpen(L, U, n) /\ \A m \in StillOpen(L, U, n) : m <= l
    <3> HIDE DEF L, U
    <3>. QED  BY <1>2, <1>6, <2>3, ClosesTop
  <2>5. l \in lkLocks /\ LkPaired(lkPath[l], e) /\ l \in Int
    BY <1>5, <1>7, <2>2, <2>4
  <2>6. l \in LkStops(e)
    BY <2>5 DEF LkStops
  <2>7. ASSUME NEW k \in LkStops(e)  PROVE k <= l
    <3>1. k \in lkLocks /\ (LkPaired(lkPath[k], e) \/ lkPath[k].func \notin LkTries)
      BY DEF LkStops
    <3>2. q[k] = lkPath[k]
      BY <1>5, <3>1
    <3>3. k \notin F
      BY <1>2, <2>1, <3>1, <3>2 DEF Fail
    <3>. QED  BY <1>7, <2>4, <3>1, <3>3
  <2>8. LkStops(e) \in SUBSET (1 .. n - 1) /\ n - 1 \in Nat
    BY <1>2, <1>5 DEF LkStops
  <2>9. Max(LkStops(e)) \in LkStops(e) /\ \A x \in LkStops(e) : x <= Max(LkStops(e))
    BY <2>6, <2>8, MaxOf
  <2>10. Max(LkStops(e)) = l
    <3>1. Max(LkStops(e)) \in Int
      BY <2>8, <2>9
    <3>2. Max(LkStops(e)) <= l /\ l <= Max(LkStops(e))
      BY <2>6, <2>7, <2>9
    <3>. QED  BY <2>5, <3>1, <3>2
  <2>11. LkPushed(n) # {}
    BY <2>5 DEF LkPushed
  <2>. QED  BY <2>2, <2>5, <2>6, <2>9, <2>10, <2>11
<1>14. CASE LkUncoordinated(e, n)
  BY <1>13, <1>14 DEF LkUncoordinated
<1>15. CASE LkUnlock(e, n)
  <2> DEFINE l == Max(LkStops(e))
             unlocked == {k \in lkEntries : /\ k > l /\ LkIsLock(lkPath[k].func)
                                            /\ lkPath[k].func \notin LkTries}
  <2>1. /\ LkIsUnlock(e.func)
        /\ lkLocks' = {k \in lkLocks : k < l}
        /\ LkPaired(lkPath[l], e) /\ unlocked = {} => lkErrs' = lkErrs
        /\ lkPairs' = lkPairs \cup {<<l, n>>} /\ UNCHANGED lkPc
    BY <1>15 DEF LkUnlock
  <2>2. LkPaired(lkPath[l], e) /\ <<l, n>> \in Bracketed(q, F) /\ \A k \in LkStops(e) : k <= l
    BY <1>13, <2>1
  <2> HIDE DEF l
  <2>3. <<l, n>> \in Closed(L, U) /\ l \in Int
    <3>1. <<l, n>> \in Closed(L, U)
      BY <2>2 DEF Bracketed
    <3>2. l \in L
      BY <3>1 DEF Closed
    <3>. QED  BY <1>6, <3>1, <3>2
  <2>4. unlocked = {}
    <3>1. SUFFICES ASSUME NEW k \in unlocked  PROVE FALSE
      OBVIOUS
    <3>2. k \in lkLocks /\ k > l
      BY <1>4, <3>1
    <3>3. k \in LkStops(e)
      BY <3>1, <3>2 DEF LkStops
    <3>4. k <= l /\ k \in Int
      BY <1>5, <2>2, <3>2, <3>3
    <3>. QED  BY <2>3, <3>2, <3>4
  <2>5. lkErrs' = {}
    BY <1>7, <2>1, <2>2, <2>4
  <2>6. lkPairs' = Bracketed(q, F)
    BY <1>3, <1>7, <2>1, <2>2, BracketedNext
  <2>7. StillOpen(L, U, n + 1) = {k \in StillOpen(L, U, n) : k < l}
    <3> HIDE DEF L, U
    <3>. QED  BY <1>2, <1>6, <2>3, OpenAfterUnlock
  <2>8. lkLocks' \ F = HeldOpen(q, F)
    BY <1>7, <1>8, <2>1, <2>7
  <2>. QED  BY <1>1, <2>1, <2>5, <2>6, <2>8
<1>16. CASE LkPopEmpty(e, n)
  BY <1>13, <1>16 DEF LkPopEmpty
<1>. QED  BY <1>11, <1>12, <1>14, <1>15, <1>16 DEF LkSee, n
(* NestInv needs the stacks in step: the lock an unlock closes is on top *)
LEMMA NestInvariance == LkSpec => []NestInv
<1>1. LkIInv /\ NestInv /\ [LkNext]_lkVars => NestInv'
  <2>1. ASSUME NestInv, UNCHANGED lkVars PROVE NestInv'
    BY <2>1 DEF NestInv, lkVars
  <2>. QED  BY <2>1, StartNestInv, SeeNestInv, EndNestInv DEF LkNext, LkStep
<1>. QED  BY InitNestInv, LkInvariance, <1>1, PTL DEF LkSpec

(* The failed try-locks of the path are one such set                     *)
LEMMA NestedAsBrackets ==
  ASSUME LkIInv
  PROVE  /\ LkBrackets = Bracketed(lkPath, LkFailed)
         /\ Fail(lkPath, LkFailed)
         /\ LkNested => Nest(lkPath, LkFailed)
<1>1. LkAt(LkIsLock) = LocksOf(lkPath) /\ LkAt(LkIsUnlock) = UnlocksOf(lkPath)
  BY DEF LkAt, LocksOf, UnlocksOf
<1>2. LkLocked = LocksOf(lkPath) \ LkFailed
  BY <1>1 DEF LkLocked
<1>3. \A l, n : LkOpen(l, n) = Balance(LocksOf(lkPath) \ LkFailed, UnlocksOf(lkPath), l, n)
  BY <1>1, <1>2 DEF LkOpen, Balance
<1>4. LkBrackets = Bracketed(lkPath, LkFailed)
  BY <1>1, <1>2, <1>3 DEF LkBrackets, Bracketed, Closed
<1>5. Fail(lkPath, LkFailed)
  BY <1>1 DEF Fail, LkFailed
<1>6. \A x \in LkBrackets : x = <<x[1], x[2]>>
  BY DEF LkBrackets
<1>7. ASSUME LkNested  PROVE Nest(lkPath, LkFailed)
  <2>1. ASSUME NEW u \in UnlocksOf(lkPath)
        PROVE  \E l : <<l, u>> \in Bracketed(lkPath, LkFailed) /\ LkPaired(lkPath[l], lkPath[u])
    <3>1. PICK x \in LkBrackets : x[2] = u /\ LkPaired(lkPath[x[1]], lkPath[u])
      BY <1>1, <1>7 DEF LkNested
    <3>2. <<x[1], u>> \in Bracketed(lkPath, LkFailed)
      BY <1>4, <1>6, <3>1
    <3>. QED  BY <3>1, <3>2
  <2>2. ASSUME NEW l \in LocksOf(lkPath), NEW m \in LocksOf(lkPath),
               l < m, LkSame(lkPath[l], lkPath[m])
        PROVE  \E u : u < m /\ <<l, u>> \in Bracketed(lkPath, LkFailed)
    <3>1. PICK x \in LkBrackets : x[1] = l /\ x[2] < m
      BY <1>1, <1>7, <2>2 DEF LkNested
    <3>2. <<l, x[2]>> \in Bracketed(lkPath, LkFailed)
      BY <1>4, <1>6, <3>1
    <3>. QED  BY <3>1, <3>2
  <2>. QED  BY <2>1, <2>2 DEF Nest
<1>. QED  BY <1>4, <1>5, <1>7

(* When the calls of a path nest, explore_path pairs exactly the brackets*)
(* and reports nothing but locks that the path leaves locked.            *)
THEOREM NestedExact == LkSpec => []LkNestedExact
<1>1. LkIInv /\ NestInv => LkNestedExact
  <2>1. SUFFICES ASSUME LkIInv, NestInv, LkNested
                 PROVE  /\ lkPc # "crash" /\ lkPairs = LkBrackets
                        /\ \A x \in lkErrs : x[2] = "not resolved"
                              /\ ~ \E y \in LkBrackets : y[1] = x[1] \/ y[2] = x[1]
    BY DEF LkNestedExact
  <2>2. /\ LkBrackets = Bracketed(lkPath, LkFailed)
        /\ Fail(lkPath, LkFailed) /\ Nest(lkPath, LkFailed)
    BY <2>1, NestedAsBrackets
  <2>3. /\ lkPc # "crash" /\ lkPairs = LkBrackets
        /\ lkLocks \ LkFailed = HeldOpen(lkPath, LkFailed)
        /\ \A x \in lkErrs : x[2] = "not resolved" /\ x[1] \in lkLocks \ LkFailed
    BY <2>1, <2>2 DEF NestInv
  <2> DEFINE N == Len(lkPath)
             L == LocksOf(lkPath) \ LkFailed
             U == UnlocksOf(lkPath)
  <2>4. N \in Nat /\ DOMAIN lkPath = 1 .. N
    <3>1. lkPath \in Seq(LkEffects)
      BY <2>1 DEF LkIInv, LkTypeOK
    <3>. QED  BY <3>1
  <2>5. L \in SUBSET (1 .. N) /\ U \in SUBSET (1 .. N) /\ L \cap U = {}
    <3> HIDE DEF N
    <3>. QED  BY <2>4, PathSets
  <2>6. ASSUME NEW x \in lkErrs, NEW y \in LkBrackets, y[1] = x[1] \/ y[2] = x[1]  PROVE FALSE
    <3>1. x[1] \in StillOpen(L, U, N + 1)
      BY <2>3 DEF HeldOpen, OpenAt
    <3>2. y \in Closed(L, U)
      BY <2>2 DEF Bracketed
    <3>3. y = <<y[1], y[2]>> /\ y[2] \in U /\ y[2] < N + 1 /\ x[1] \in L
      BY <2>4, <2>5, <3>1, <3>2 DEF Closed, StillOpen
    <3>4. y[1] = x[1]
      BY <2>5, <2>6, <3>3
    <3>5. <<x[1], y[2]>> \in Closed(L, U)
      BY <3>2, <3>3, <3>4
    <3>6. N + 1 \in Nat
      BY <2>4
    <3> HIDE DEF L, U, N
    <3>. QED  BY <2>4, <2>5, <3>1, <3>3, <3>5, <3>6, OpenNotClosed
  <2>. QED  BY <2>3, <2>6
<1>. QED  BY <1>1, LkInvariance, NestInvariance, PTL

-----------------------------------------------------------------------------
(***************************************************************************)
(* The functions an expansion comes to are the least closed set.         *)
(***************************************************************************)
LEMMA ReachSelf == \A f \in ExCallees : f \in ExReach(f)
  BY DEF ExReach

LEMMA ReachClosed == \A f : ExReach(f) \subseteq ExCallees /\ ExClosed(ExReach(f))
  BY DEF ExReach, ExClosed, ExCalled

LEMMA ReachTrans == \A f, g : g \in ExReach(f) => ExReach(g) \subseteq ExReach(f)
  BY ReachClosed DEF ExReach

LEMMA ReachSplit ==
  ASSUME NEW f \in ExCallees, NEW g \in ExReach(f)
  PROVE  g = f \/ \E h \in ExCalled(f) : g \in ExReach(h)
  <1> DEFINE S == {f} \cup UNION {ExReach(h) : h \in ExCalled(f)}
  <1>1. S \in SUBSET ExCallees
    BY ReachClosed
  <1>2. ExClosed(S)
    <2>1. ExCalled(f) \subseteq S
      BY ReachSelf DEF ExCalled
    <2>2. \A h \in ExCalled(f) : \A x \in ExReach(h) : ExCalled(x) \subseteq ExReach(h)
      BY ReachClosed DEF ExClosed
    <2> QED
      BY <2>1, <2>2 DEF ExClosed
  <1>3. g \in S
    BY <1>1, <1>2 DEF ExReach
  <1> QED
    BY <1>3

(* The entries of one value, and with it what the reference sorts        *)
Entries(g, v) == IF v.expr \in ExConsts \/ ~ExHas(v.expr)
                 THEN {<<ExBare(v), <<g, v>>>>}
                 ELSE {<<w, <<g, v>>>> : w \in exDb[v.expr]}

LEMMA SortedEntries ==
  ASSUME NEW f, NEW x
  PROVE  x \in ExSorted(f) <=>
           \E g \in ExReach(f) : ExHas(g) /\ \E v \in exDb[g] : x \in Entries(g, v)
  BY DEF ExSorted, Entries

LEMMA SortedOfReached ==
  ASSUME NEW f, NEW g \in ExReach(f)
  PROVE  ExSorted(g) \subseteq ExSorted(f)
  BY SortedEntries, ReachTrans

(* What a function sorts, from what its values do                        *)
LEMMA SortedSplit ==
  ASSUME NEW f \in ExCallees, NEW x \in ExSorted(f)
  PROVE  ExHas(f) /\ \E v \in exDb[f] :
           \/ x \in Entries(f, v)
           \/ v.expr \in ExCallees /\ x \in ExSorted(v.expr)
  <1>1. PICK g \in ExReach(f) : ExHas(g) /\ \E v \in exDb[g] : x \in Entries(g, v)
    BY SortedEntries
  <1>2. CASE g = f
    BY <1>1, <1>2
  <1>3. ASSUME NEW h \in ExCalled(f), g \in ExReach(h)
        PROVE  ExHas(f) /\ \E v \in exDb[f] : v.expr \in ExCallees /\ x \in ExSorted(v.expr)
    <2>1. x \in ExSorted(h)
      BY <1>1, <1>3, SortedEntries
    <2>2. ExHas(f) /\ h \in ExCallees /\ \E v \in exDb[f] : v.expr = h
      BY DEF ExCalled
    <2> QED
      BY <2>1, <2>2
  <1> QED
    BY <1>2, <1>3, ReachSplit

(***************************************************************************)
(* The invariant. Every call on the stack comes from a value of the one  *)
(* below that has been taken. A value that has been taken is sorted, with*)
(* all that its call comes to, unless it is the one being expanded.      *)
(***************************************************************************)
Frame == [func : ExCallees, todo : SUBSET ExValues, path : ExPaths \cup {<<>>}]
Status(g) == IF exDb[g] = ExNone THEN "error"
             ELSE IF exDb[g] = ExCut THEN "loading" ELSE "loaded"
Types ==
  /\ \A f \in ExCallees : ExIsFile(exDb[f])
  /\ exDic \in [ExCallees -> {"absent", "loading", "error", "loaded"}]
  /\ \A g \in ExCallees : exDic[g] \in {"absent", Status(g)}
  /\ exTodo \subseteq ExFuncs
  /\ exStack \in Seq(Frame) /\ Len(exStack) <= ExDepth
  /\ exRtn \in [ExFuncs -> SUBSET (ExValues \X ExPaths)]
  /\ exPc \in {"idle", "check", "spin", "crash", "done"}
  /\ exPc = "idle" => exStack = <<>> /\ exRoot = "none" /\ exDic = [f \in ExCallees |-> "absent"]
                      /\ \A f \in ExFuncs : exRtn[f] = {}
  /\ exPc = "done" => exStack = <<>> /\ exTodo = {}
  /\ exRoot = "none" \/ exRoot \in ExFuncs
  /\ exStack # <<>> => exRoot \in ExFuncs \ exTodo
  /\ exPc \notin {"idle", "done"} => exTodo = ExFuncs \/ exRoot \in ExFuncs \ exTodo

Call(i) == exStack[i].path[2]     \* the value that the i-th frame expands
Link(i) ==
  /\ ExHas(exStack[i].func) /\ exStack[i].todo \subseteq exDb[exStack[i].func]
  /\ exStack[i].func \in ExReach(exRoot)
  /\ i = 1 => exStack[i].func = exRoot /\ exStack[i].path = <<>>
  /\ i > 1 => /\ exStack[i].path = <<exStack[i - 1].func, Call(i)>>
              /\ Call(i) \in exDb[exStack[i - 1].func] \ exStack[i - 1].todo
              /\ Call(i).expr = exStack[i].func
Linked == \A i \in 1 .. Len(exStack) : Link(i)
Sound == \A f \in ExFuncs : /\ exRtn[f] \subseteq ExSorted(f)
                            /\ f \in exTodo => exRtn[f] = {}

Expanded(v) == v.expr \in ExCallees => ExSorted(v.expr) \subseteq exRtn[exRoot]
Filed(i) ==
  \A v \in exDb[exStack[i].func] \ exStack[i].todo :
    /\ \/ Entries(exStack[i].func, v) \subseteq exRtn[exRoot] /\ Expanded(v)
       \/ i < Len(exStack) /\ Call(i + 1) = v
    /\ i > 1 => <<v, exStack[i].path>> \in exRtn[exRoot]
Complete ==
  /\ \A i \in 1 .. Len(exStack) : Filed(i)
  /\ \A f \in ExFuncs \ exTodo :
       f # exRoot \/ (exStack = <<>> /\ exPc \in {"check", "done"})
         => ExSorted(f) \subseteq exRtn[f]

Inv == Types /\ Linked /\ Sound /\ Complete
-----------------------------------------------------------------------------
LEMMA SameDb ==
  ASSUME exDb' = exDb
  PROVE  /\ \A g : ExHas(g)' = ExHas(g) /\ Status(g)' = Status(g)
         /\ \A f : ExReach(f)' = ExReach(f) /\ ExSorted(f)' = ExSorted(f)
         /\ \A f, v : Entries(f, v)' = Entries(f, v)
  <1>1. \A g : ExHas(g)' = ExHas(g) /\ ExCalled(g)' = ExCalled(g) /\ Status(g)' = Status(g)
    BY DEF ExHas, ExCalled, Status
  <1>2. \A S : ExClosed(S)' = ExClosed(S)
    BY <1>1 DEF ExClosed
  <1>3. \A f : ExReach(f)' = ExReach(f)
    BY <1>2 DEF ExReach
  <1>4. \A f : ExSorted(f)' = ExSorted(f)
    BY <1>1, <1>3 DEF ExSorted
  <1>5. \A f, v : Entries(f, v)' = Entries(f, v)
    BY <1>1 DEF Entries
  <1> QED
    BY <1>1, <1>3, <1>4, <1>5

(* The stack with a value taken, with a call pushed, with one returned   *)
LEMMA Resting ==
  ASSUME exStack \in Seq(Frame), exStack # <<>>, NEW v
  PROVE  /\ ExRest(v) \in Seq(Frame) /\ Len(ExRest(v)) = Len(exStack)
         /\ Len(exStack) \in Nat \ {0} /\ ExTop = exStack[Len(exStack)] /\ ExTop \in Frame
         /\ \A i \in 1 .. Len(exStack) :
              /\ ExRest(v)[i].func = exStack[i].func /\ ExRest(v)[i].path = exStack[i].path
              /\ ExRest(v)[i].todo = IF i = Len(exStack) THEN exStack[i].todo \ {v}
                                                         ELSE exStack[i].todo
  <1> DEFINE n == Len(exStack)
             top == [exStack[n] EXCEPT !.todo = @ \ {v}]
  <1>1. n \in Nat \ {0} /\ DOMAIN exStack = 1 .. n /\ \A i \in 1 .. n : exStack[i] \in Frame
    BY EmptySeq
  <1>2. ExTop = exStack[n]
    BY DEF ExTop, Last
  <1>3. ExRest(v) = [exStack EXCEPT ![n] = top]
    BY DEF ExRest
  <1>4. top \in Frame /\ top.func = exStack[n].func /\ top.path = exStack[n].path
        /\ top.todo = exStack[n].todo \ {v}
    BY <1>1 DEF Frame
  <1> HIDE DEF top
  <1>5. ExRest(v) \in Seq(Frame) /\ Len(ExRest(v)) = n
    BY <1>1, <1>3, <1>4
  <1>6. \A i \in 1 .. n : ExRest(v)[i] = IF i = n THEN top ELSE exStack[i]
    BY <1>1, <1>3
  <1>7. ExTop \in Frame
    BY <1>1, <1>2
  <1>8. \A i \in 1 .. n :
              /\ ExRest(v)[i].func = exStack[i].func /\ ExRest(v)[i].path = exStack[i].path
              /\ ExRest(v)[i].todo = IF i = n THEN exStack[i].todo \ {v}
                                                         ELSE exStack[i].todo
    BY <1>4, <1>6
  <1> QED
    BY <1>1, <1>2, <1>5, <1>7, <1>8

LEMMA Pushing ==
  ASSUME NEW s \in Seq(Frame), NEW x \in Frame
  PROVE  /\ Append(s, x) \in Seq(Frame) /\ Len(Append(s, x)) = Len(s) + 1
         /\ Append(s, x)[Len(s) + 1] = x
         /\ \A i \in 1 .. Len(s) : Append(s, x)[i] = s[i]
  OBVIOUS

LEMMA Popping ==
  ASSUME NEW s \in Seq(Frame), s # <<>>
  PROVE  /\ Front(s) \in Seq(Frame) /\ Len(Front(s)) = Len(s) - 1
         /\ \A i \in 1 .. Len(s) - 1 : Front(s)[i] = s[i]
         /\ Front(s) = <<>> <=> Len(s) = 1
  <1>1. Len(s) \in Nat \ {0}
    BY EmptySeq
  <1>2. Front(s) = SubSeq(s, 1, Len(s) - 1)
    BY DEF Front
  <1>3. Front(s) \in Seq(Frame) /\ Len(Front(s)) = Len(s) - 1
         /\ \A i \in 1 .. Len(s) - 1 : Front(s)[i] = s[i]
    <2> DEFINE n == Len(s) - 1
    <2>1. n \in Nat /\ \A i \in 1 .. n : s[i] \in Frame
      BY <1>1
    <2> HIDE DEF n
    <2>2. /\ SubSeq(s, 1, n) \in Seq(Frame)
          /\ Len(SubSeq(s, 1, n)) = IF 1 <= n THEN n - 1 + 1 ELSE 0
          /\ \A i \in 1 .. n - 1 + 1 : SubSeq(s, 1, n)[i] = s[1 + i - 1]
      BY <2>1, SubSeqProperties
    <2>3. Len(SubSeq(s, 1, n)) = n /\ \A i \in 1 .. n : SubSeq(s, 1, n)[i] = s[i]
      BY <2>1, <2>2
    <2> QED
      BY <1>2, <2>2, <2>3 DEF n
  <1> QED
    BY <1>1, <1>3, EmptySeq
-----------------------------------------------------------------------------
(* Taking a value: the stack and the entries are extended alike, whether *)
(* the value is then filed or its call is expanded.                      *)
LEMMA Taking ==
  ASSUME Inv, NEW v \in ExValues, ExTaking(v)
  PROVE  /\ Len(exStack) \in Nat \ {0} /\ exStack # <<>> /\ exStack \in Seq(Frame)
         /\ ExTop = exStack[Len(exStack)] /\ ExTop \in Frame /\ v \in ExTop.todo
         /\ ExHas(ExTop.func) /\ v \in exDb[ExTop.func]
         /\ ExTop.func \in ExReach(exRoot) /\ ExTop.func \in ExCallees
         /\ exRoot \in ExFuncs \ exTodo /\ exPc = "check"
         /\ exRtn \in [ExFuncs -> SUBSET (ExValues \X ExPaths)]
         /\ ExFileCaller(v) \subseteq ExSorted(exRoot)
         /\ ExFileCaller(v) \subseteq ExValues \X ExPaths
         /\ Len(exStack) > 1 => <<v, ExTop.path>> \in ExFileCaller(v)
  <1> DEFINE n == Len(exStack)
  <1>1. /\ exStack # <<>> /\ exPc = "check" /\ v \in ExTop.todo /\ exStack \in Seq(Frame)
        /\ exRtn \in [ExFuncs -> SUBSET (ExValues \X ExPaths)] /\ exRoot \in ExFuncs \ exTodo
    BY DEF ExTaking, Inv, Types
  <1>2. n \in Nat \ {0} /\ ExTop = exStack[n] /\ ExTop \in Frame
    BY <1>1, Resting
  <1>3. /\ ExHas(ExTop.func) /\ v \in exDb[ExTop.func] /\ ExTop.func \in ExReach(exRoot)
        /\ ExTop.func \in ExCallees
    <2>1. Link(n)
      BY <1>2 DEF Inv, Linked
    <2> QED
      BY <1>1, <1>2, <2>1 DEF Link, Frame
  <1>4. ExTop.path \in ExPaths \cup {<<>>}
    BY <1>2 DEF Frame
  <1>5. ExFileCaller(v) \subseteq ExValues \X ExPaths
    BY <1>4 DEF ExFileCaller
  <1>6. ASSUME n > 1
        PROVE  <<v, ExTop.path>> \in ExFileCaller(v) /\ <<v, ExTop.path>> \in ExSorted(exRoot)
    <2> DEFINE g == exStack[n - 1].func
    <2>1. n \in 1 .. n /\ n - 1 \in 1 .. n
      BY <1>2, <1>6
    <2>2. /\ ExTop.path = <<g, Call(n)>> /\ Call(n) \in exDb[g]
          /\ Call(n).expr = ExTop.func
      BY <1>2, <1>6, <2>1 DEF Inv, Linked, Link
    <2>3. ExHas(g) /\ g \in ExReach(exRoot)
      BY <2>1 DEF Inv, Linked, Link
    <2>4. ExTop.func \notin ExConsts
      BY <1>3, ExDisjointAssumption
    <2>5. <<v, <<g, Call(n)>>>> \in Entries(g, Call(n))
      BY <1>3, <2>2, <2>4 DEF Entries
    <2>6. <<g, Call(n)>> # <<>>
      OBVIOUS
    <2> QED
      BY <2>2, <2>3, <2>5, <2>6, SortedEntries DEF ExFileCaller
  <1>7. n = 1 => ExFileCaller(v) = {}
    BY <1>1, <1>2 DEF Inv, Linked, Link, ExFileCaller
  <1>8. ExFileCaller(v) \subseteq {<<v, ExTop.path>>}
    BY DEF ExFileCaller
  <1>9. ExFileCaller(v) \subseteq ExSorted(exRoot)
    <2>1. n = 1 \/ n > 1
      BY <1>2
    <2> HIDE DEF n
    <2> QED
      BY <1>6, <1>7, <1>8, <2>1
  <1> QED
    BY <1>1, <1>2, <1>3, <1>5, <1>6, <1>9

LEMMA TakeStep ==
  ASSUME Inv, NEW v \in ExValues, ExTaking(v),
         UNCHANGED <<exDb, exTodo, exRoot, exPc>>,
         exStack' = ExRest(v) \/ exStack' = Append(ExRest(v), ExFrame(v.expr, <<ExTop.func, v>>)),
         NEW new, new \subseteq ExSorted(exRoot), ExFileCaller(v) \subseteq new,
         exRtn' = [exRtn EXCEPT ![exRoot] = @ \cup new],
         exStack' = ExRest(v) => Entries(ExTop.func, v) \subseteq exRtn'[exRoot] /\ Expanded(v)',
         exStack' # ExRest(v) => v.expr \in ExCallees /\ ExHas(v.expr)
  PROVE  (Linked /\ Sound /\ Complete)'
  <1> DEFINE fr == ExFrame(v.expr, <<ExTop.func, v>>)
  <1>n. PICK n : n = Len(exStack)
    OBVIOUS
  <1>0. Linked /\ Sound /\ Complete
    BY DEF Inv
  <1>1. /\ n \in Nat \ {0} /\ ExTop = exStack[n] /\ v \in ExTop.todo
        /\ ExHas(ExTop.func) /\ v \in exDb[ExTop.func] /\ ExTop.func \in ExReach(exRoot)
        /\ ExTop.func \in ExCallees /\ exRoot \in ExFuncs \ exTodo /\ exPc = "check"
        /\ exStack # <<>> /\ exRtn \in [ExFuncs -> SUBSET (ExValues \X ExPaths)]
        /\ n > 1 => <<v, ExTop.path>> \in new
    BY <1>n, Taking
  <1>2. /\ ExRest(v) \in Seq(Frame) /\ Len(ExRest(v)) = n
        /\ \A i \in 1 .. n :
              /\ ExRest(v)[i].func = exStack[i].func /\ ExRest(v)[i].path = exStack[i].path
              /\ ExRest(v)[i].todo = IF i = n THEN exStack[i].todo \ {v} ELSE exStack[i].todo
    BY <1>n, Taking, Resting
  <1>m. PICK m : (exStack' = ExRest(v) => m = n) /\ (exStack' # ExRest(v) => m = n + 1)
    <2>1. CASE exStack' = ExRest(v)
      BY <2>1
    <2> QED
      BY <2>1
  <1>3. ASSUME exStack' # ExRest(v)
        PROVE  /\ exStack' = Append(ExRest(v), fr) /\ fr \in Frame
               /\ v.expr \in ExCallees /\ ExHas(v.expr)
    <2>1. v.expr \in ExCallees /\ ExHas(v.expr)
      BY <1>3
    <2>2. exDb[v.expr] \in SUBSET ExValues
      BY <2>1 DEF Inv, Types, ExIsFile, ExHas
    <2>3. <<ExTop.func, v>> \in ExPaths
      BY <1>1 DEF ExPaths
    <2> QED
      BY <1>3, <2>1, <2>2, <2>3 DEF ExFrame, Frame
  <1>4. /\ exStack' \in Seq(Frame) /\ Len(exStack') = m /\ m \in Nat \ {0}
        /\ \A i \in 1 .. n : exStack'[i] = ExRest(v)[i]
        /\ m = n + 1 => /\ exStack'[m] = fr /\ v.expr \in ExCallees /\ ExHas(v.expr)
    <2>1. CASE exStack' = ExRest(v)
      <3>1. m = n /\ m # n + 1
        BY <1>1, <1>m, <2>1
      <3> QED
        BY <1>1, <1>2, <2>1, <3>1
    <2>2. CASE exStack' # ExRest(v)
      <3>1. exStack' = Append(ExRest(v), fr) /\ fr \in Frame /\ v.expr \in ExCallees /\ ExHas(v.expr)
        BY <1>3, <2>2
      <3> HIDE DEF fr
      <3>2. /\ exStack' \in Seq(Frame) /\ Len(exStack') = n + 1 /\ exStack'[n + 1] = fr
            /\ \A i \in 1 .. n : exStack'[i] = ExRest(v)[i]
        BY <1>2, <3>1, Pushing
      <3>3. m = n + 1 /\ m \in Nat \ {0}
        BY <1>1, <1>m, <2>2
      <3> QED
        BY <3>1, <3>2, <3>3
    <2> QED
      BY <2>1, <2>2
  <1>a. exStack' # <<>> /\ m >= n
    BY <1>1, <1>4, <1>m, EmptySeq
  <1>b. \A i \in 1 .. n :
              /\ exStack'[i].func = exStack[i].func /\ exStack'[i].path = exStack[i].path
              /\ exStack'[i].todo = IF i = n THEN exStack[i].todo \ {v} ELSE exStack[i].todo
    BY <1>2, <1>4
  <1>c. m = n + 1 => /\ exStack'[m].func = v.expr /\ exStack'[m].todo = exDb[v.expr]
                     /\ exStack'[m].path = <<ExTop.func, v>>
                     /\ v.expr \in ExCallees /\ ExHas(v.expr)
    BY <1>4 DEF ExFrame
  <1>d. Len(exStack') = m /\ \A i \in 1 .. m : i \in 1 .. n \/ (i = m /\ m = n + 1)
    BY <1>1, <1>4, <1>m
  <1> HIDE DEF fr
  <1>5. /\ exRtn'[exRoot] = exRtn[exRoot] \cup new
        /\ \A f \in ExFuncs : f # exRoot => exRtn'[f] = exRtn[f]
    BY <1>1
  <1>6. \A i \in 1 .. n : Call(i)' = Call(i)
    BY <1>b, <1>c, <1>d DEF Call
  <1>7. m = n + 1 => Call(m)' = v
    BY <1>b, <1>c, <1>d DEF Call
  <1>8. Linked'
    <2>1. ASSUME NEW i \in 1 .. n PROVE Link(i)'
      <3>1. Link(i) /\ (i > 1 => i - 1 \in 1 .. n)
        BY <1>0, <1>1, <1>n DEF Linked
      <3> QED
        BY <1>b, <1>c, <1>d, <1>6, <3>1, SameDb DEF Link
    <2>2. ASSUME m = n + 1 PROVE Link(m)'
      <3>1. v.expr \in ExCalled(ExTop.func)
        BY <1>1, <1>b, <1>c, <1>d, <2>2 DEF ExCalled
      <3>2. v.expr \in ExReach(exRoot)
        BY <1>1, <3>1, ReachClosed DEF ExClosed
      <3>3. n \in 1 .. n /\ m > 1 /\ m # 1 /\ m - 1 = n
        BY <1>1, <2>2
      <3>4. exStack'[n].func = ExTop.func /\ exStack'[n].todo = ExTop.todo \ {v}
        BY <1>1, <1>b, <1>c, <1>d, <3>3
      <3>5. /\ exStack'[m].func = v.expr /\ exStack'[m].todo = exDb[v.expr]
            /\ exStack'[m].path = <<ExTop.func, v>> /\ Call(m)' = v /\ ExHas(v.expr)
        BY <1>b, <1>c, <1>d, <1>7, <2>2
      <3> QED
        BY <1>1, <3>2, <3>3, <3>4, <3>5, SameDb DEF Link
    <2> QED
      BY <1>d, <2>1, <2>2 DEF Linked
  <1>9. Sound'
    BY <1>0, <1>1, <1>5, SameDb DEF Sound
  <1>10. Complete'
    <2>1. ASSUME NEW w, Expanded(w) PROVE Expanded(w)'
      BY <1>5, <2>1, SameDb DEF Expanded
    <2>2. ASSUME NEW i \in 1 .. n, NEW w \in exDb[exStack'[i].func] \ exStack'[i].todo
          PROVE  /\ \/ Entries(exStack'[i].func, w) \subseteq exRtn'[exRoot] /\ Expanded(w)'
                    \/ i < m /\ Call(i + 1)' = w
                 /\ i > 1 => <<w, exStack'[i].path>> \in exRtn'[exRoot]
      <3>1. CASE i = n /\ w = v
        <4>1. i > 1 => <<w, exStack'[i].path>> \in exRtn'[exRoot]
          BY <1>1, <1>b, <1>c, <1>d, <1>5, <3>1
        <4>2. exStack'[i].func = ExTop.func
          BY <1>1, <1>b, <1>c, <1>d, <3>1
        <4>3. CASE exStack' = ExRest(v)
          BY <3>1, <4>1, <4>2, <4>3
        <4>4. CASE exStack' # ExRest(v)
          <5>1. m = i + 1 /\ i < m /\ Call(i + 1)' = v
            BY <1>1, <1>m, <1>7, <3>1, <4>4
          <5> QED
            BY <3>1, <4>1, <5>1
        <4> QED
          BY <4>3, <4>4
      <3>2. CASE ~(i = n /\ w = v)
        <4>1. w \in exDb[exStack[i].func] \ exStack[i].todo
          BY <1>b, <1>c, <1>d, <3>2
        <4>2. /\ \/ Entries(exStack[i].func, w) \subseteq exRtn[exRoot] /\ Expanded(w)
                 \/ i < n /\ Call(i + 1) = w
              /\ i > 1 => <<w, exStack[i].path>> \in exRtn[exRoot]
          BY <1>0, <1>n, <4>1 DEF Complete, Filed
        <4>3. i < n => i < m /\ Call(i + 1)' = Call(i + 1)
          BY <1>1, <1>m, <1>6
        <4> QED
          BY <1>b, <1>c, <1>d, <1>5, <2>1, <4>2, <4>3
      <3> QED
        BY <3>1, <3>2
    <2>3. \A i \in 1 .. n : Filed(i)'
      BY <1>b, <1>c, <1>d, <2>2, SameDb DEF Filed
    <2>4. m = n + 1 => Filed(m)'
      BY <1>b, <1>c, <1>d DEF Filed
    <2>5. \A f \in ExFuncs \ exTodo : f # exRoot => ExSorted(f) \subseteq exRtn'[f]
      BY <1>0, <1>5 DEF Complete
    <2> QED
      BY <1>1, <1>a, <1>d, <2>3, <2>4, <2>5, SameDb DEF Complete
  <1> QED
    BY <1>8, <1>9, <1>10

LEMMA StepFile ==
  ASSUME Inv, NEW v \in ExValues, ExTaking(v), v.expr \in ExConsts \/ ~ExHas(v.expr), ExFile(v),
         UNCHANGED <<exDb, exTodo, exRoot, exPc>>, exDic' \in [ExCallees -> {"absent", "loading", "error", "loaded"}],
         \A g \in ExCallees : exDic'[g] \in {"absent", Status(g)}
  PROVE  Inv'
  <1> DEFINE own == <<ExBare(v), <<ExTop.func, v>>>>
             new == ExFileCaller(v) \cup {own}
  <1>1. /\ ExFileCaller(v) \subseteq ExSorted(exRoot) /\ ExFileCaller(v) \subseteq ExValues \X ExPaths
        /\ ExHas(ExTop.func) /\ v \in exDb[ExTop.func] /\ ExTop.func \in ExReach(exRoot)
        /\ ExTop.func \in ExCallees /\ exRoot \in ExFuncs \ exTodo /\ exPc = "check"
        /\ exStack # <<>> /\ exStack \in Seq(Frame)
        /\ exRtn \in [ExFuncs -> SUBSET (ExValues \X ExPaths)]
    BY Taking
  <1>2. Entries(ExTop.func, v) = {own}
    BY DEF Entries
  <1>3. own \in ExSorted(exRoot)
    BY <1>1, <1>2, SortedEntries
  <1>4. own \in ExValues \X ExPaths
    <2>1. ExBare(v) \in ExValues
      BY DEF ExBare, ExValues
    <2> QED
      BY <1>1, <2>1 DEF ExPaths
  <1>5. exStack' = ExRest(v)
        /\ exRtn' = [exRtn EXCEPT ![exRoot] = @ \cup ExFileCaller(v) \cup {own}]
    BY DEF ExFile
  <1> HIDE DEF own
  <1>6. exRtn' = [exRtn EXCEPT ![exRoot] = @ \cup new]
    BY <1>5
  <1>7. Expanded(v)'
    <2>1. ASSUME v.expr \in ExCallees PROVE ExSorted(v.expr) = {}
      <3>1. ~ExHas(v.expr)
        BY <2>1, ExDisjointAssumption
      <3> QED
        BY <2>1, <3>1, SortedSplit
    <2> QED
      BY <2>1, SameDb DEF Expanded
  <1>8. Entries(ExTop.func, v) \subseteq exRtn'[exRoot]
    BY <1>1, <1>2, <1>6
  <1>9. new \subseteq ExSorted(exRoot) /\ new \subseteq ExValues \X ExPaths
        /\ ExFileCaller(v) \subseteq new
    BY <1>1, <1>3, <1>4
  <1> HIDE DEF new
  <1>10. (Linked /\ Sound /\ Complete)'
    BY <1>5, <1>6, <1>7, <1>8, <1>9, TakeStep
  <1>11. exStack' \in Seq(Frame) /\ Len(exStack') = Len(exStack) /\ exStack' # <<>>
    BY <1>1, <1>5, Resting, EmptySeq
  <1>12. Types'
    BY <1>1, <1>6, <1>9, <1>11, SameDb DEF Inv, Types
  <1> QED
    BY <1>10, <1>12 DEF Inv

LEMMA StepExpand ==
  ASSUME Inv, NEW v \in ExValues, ExTaking(v), v.expr \in ExCallees, ExHas(v.expr), ExExpand(v),
         Len(exStack) < ExDepth,
         UNCHANGED <<exDb, exTodo, exRoot, exPc>>, exDic' \in [ExCallees -> {"absent", "loading", "error", "loaded"}],
         \A g \in ExCallees : exDic'[g] \in {"absent", Status(g)}
  PROVE  Inv'
  <1> DEFINE fr == ExFrame(v.expr, <<ExTop.func, v>>)
             new == ExFileCaller(v)
  <1>1. /\ ExFileCaller(v) \subseteq ExSorted(exRoot) /\ ExFileCaller(v) \subseteq ExValues \X ExPaths
        /\ exRoot \in ExFuncs \ exTodo /\ exPc = "check"
        /\ exStack # <<>> /\ exStack \in Seq(Frame) /\ Len(exStack) \in Nat
        /\ exRtn \in [ExFuncs -> SUBSET (ExValues \X ExPaths)]
        /\ ExTop.func \in ExCallees
    BY Taking
  <1>2. exStack' = Append(ExRest(v), fr) /\ exRtn' = [exRtn EXCEPT ![exRoot] = @ \cup new]
    BY DEF ExExpand
  <1>3. fr \in Frame
    <2>1. exDb[v.expr] \in SUBSET ExValues
      BY DEF Inv, Types, ExIsFile, ExHas
    <2>2. <<ExTop.func, v>> \in ExPaths
      BY <1>1 DEF ExPaths
    <2> QED
      BY <2>1, <2>2 DEF ExFrame, Frame
  <1>4. ExRest(v) \in Seq(Frame) /\ Len(ExRest(v)) = Len(exStack)
    BY <1>1, Resting
  <1> HIDE DEF fr
  <1>5. exStack' \in Seq(Frame) /\ Len(exStack') = Len(exStack) + 1
    BY <1>2, <1>3, <1>4, Pushing
  <1>6. exStack' # <<>> /\ exStack' # ExRest(v) /\ Len(exStack') <= ExDepth
    BY <1>1, <1>4, <1>5, EmptySeq, ExDepthAssumption
  <1>7. (Linked /\ Sound /\ Complete)'
    BY <1>1, <1>2, <1>6, TakeStep DEF fr
  <1>8. Types'
    BY <1>1, <1>2, <1>5, <1>6, SameDb DEF Inv, Types
  <1> QED
    BY <1>7, <1>8 DEF Inv

(* Loading                                                               *)
LEMMA Loading ==
  ASSUME Types, exPc # "idle" , NEW g \in ExCallees, ExLoad(g)
  PROVE  /\ exDic' \in [ExCallees -> {"absent", "loading", "error", "loaded"}]
         /\ \A x \in ExCallees : exDic'[x] \in {"absent", Status(x)}
         /\ exDic'[g] = Status(g)
         /\ ExFound(g) <=> ExHas(g)
  <1>1. exDic' = [exDic EXCEPT ![g] = IF @ # "absent" THEN @ ELSE Status(g)]
    BY DEF ExLoad, Status
  <1>2. Status(g) \in {"loading", "error", "loaded"}
    BY DEF Status
  <1>3. exDic'[g] = Status(g)
    BY <1>1, <1>2 DEF Types
  <1>4. Status(g) = "loaded" <=> ExHas(g)
    BY DEF Status, ExHas
  <1> QED
    BY <1>1, <1>2, <1>3, <1>4 DEF Types, ExFound

LEMMA StepTakeFunc ==
  ASSUME Inv, NEW f \in ExFuncs, ExTakeFunc(f)
  PROVE  Inv'
  <1>1. /\ exPc = "check" /\ exStack = <<>> /\ f \in exTodo /\ ExLoad(f) /\ exTodo' = exTodo \ {f}
        /\ exRoot' = f /\ UNCHANGED <<exDb, exRtn>>
        /\ exStack' = IF ExFound(f) THEN <<ExFrame(f, <<>>)>> ELSE <<>>
        /\ exPc' \in {"check", "spin"}
    BY DEF ExTakeFunc
  <1>2. f \in ExCallees
    BY ExFuncsAssumption
  <1>3. /\ exDic' \in [ExCallees -> {"absent", "loading", "error", "loaded"}]
        /\ \A x \in ExCallees : exDic'[x] \in {"absent", Status(x)}
        /\ ExFound(f) <=> ExHas(f)
    BY <1>1, <1>2, Loading DEF Inv
  <1>4. ~ExHas(f) => ExSorted(f) = {}
    BY <1>2, SortedSplit
  <1>5. Sound' /\ \A g \in ExFuncs \ exTodo' : g # f => ExSorted(g) \subseteq exRtn[g]
    BY <1>1, SameDb DEF Inv, Sound, Complete
  <1>6. CASE ExHas(f)
    <2> DEFINE fr == ExFrame(f, <<>>)
    <2>1. fr.func = f /\ fr.todo = exDb[f] /\ fr.path = <<>>
      BY DEF ExFrame
    <2>2. fr \in Frame
      <3>1. exDb[f] \in SUBSET ExValues
        BY <1>2, <1>6 DEF Inv, Types, ExIsFile, ExHas
      <3> QED
        BY <1>2, <3>1 DEF ExFrame, Frame
    <2> HIDE DEF fr
    <2>3. exStack' = <<fr>>
      BY <1>1, <1>3, <1>6 DEF fr
    <2>4. exStack' \in Seq(Frame) /\ Len(exStack') = 1 /\ exStack'[1] = fr /\ exStack' # <<>>
      BY <2>2, <2>3
    <2>5. f \in ExReach(f)
      BY <1>2, ReachSelf
    <2>6. Link(1)' /\ Filed(1)'
      BY <1>1, <1>6, <2>1, <2>4, <2>5, SameDb DEF Link, Filed
    <2>7. Linked'
      BY <2>4, <2>6 DEF Linked
    <2>8. Complete'
      BY <1>1, <1>5, <2>4, <2>6, SameDb DEF Complete
    <2>9. Types'
      BY <1>1, <1>3, <2>4, SameDb, ExDepthAssumption DEF Inv, Types
    <2> QED
      BY <1>5, <2>7, <2>8, <2>9 DEF Inv
  <1>7. CASE ~ExHas(f)
    <2>1. exStack' = <<>> /\ Len(exStack') = 0 /\ exStack' \in Seq(Frame)
      BY <1>1, <1>3, <1>7, EmptySeq
    <2>2. Linked'
      BY <2>1 DEF Linked
    <2>3. Complete'
      BY <1>1, <1>4, <1>5, <1>7, <2>1, SameDb DEF Complete
    <2>4. Types'
      BY <1>1, <1>3, <2>1, SameDb, ExDepthAssumption DEF Inv, Types
    <2> QED
      BY <1>5, <2>2, <2>3, <2>4 DEF Inv
  <1> QED
    BY <1>6, <1>7

(* Returning from a function all of whose values have been taken: what it*)
(* sorts has been sorted, and so has the call it was expanded for.       *)
LEMMA StepReturn ==
  ASSUME Inv, ExReturn
  PROVE  Inv'
  <1>0. /\ exPc = "check" /\ exStack # <<>> /\ ExTop.todo = {} /\ exStack' = Front(exStack)
        /\ UNCHANGED <<exDb, exDic, exTodo, exRoot, exRtn, exPc>>
    BY DEF ExReturn
  <1>n. PICK n : n = Len(exStack)
    OBVIOUS
  <1>1. /\ exStack \in Seq(Frame) /\ n \in Nat \ {0} /\ ExTop = exStack[n] /\ ExTop \in Frame
        /\ exRoot \in ExFuncs \ exTodo /\ exRtn \in [ExFuncs -> SUBSET (ExValues \X ExPaths)]
    BY <1>0, <1>n, Resting DEF Inv, Types
  <1>2. /\ exStack' \in Seq(Frame) /\ Len(exStack') = n - 1
        /\ \A i \in 1 .. n - 1 : exStack'[i] = exStack[i]
        /\ exStack' = <<>> <=> n = 1
    BY <1>0, <1>1, <1>n, Popping
  <1>3. Link(n) /\ Filed(n) /\ ExTop.func \in ExCallees
    BY <1>1, <1>n DEF Inv, Linked, Complete, Frame
  <1>4. ExHas(ExTop.func) /\ \A v \in exDb[ExTop.func] :
          /\ Entries(ExTop.func, v) \subseteq exRtn[exRoot] /\ Expanded(v)
          /\ n > 1 => <<v, ExTop.path>> \in exRtn[exRoot]
    BY <1>0, <1>1, <1>3, <1>n DEF Link, Filed
  <1>5. ExSorted(ExTop.func) \subseteq exRtn[exRoot]
    BY <1>3, <1>4, SortedSplit DEF Expanded
  <1>6. \A i \in 1 .. n - 1 : Link(i) /\ Filed(i)
    BY <1>1, <1>n DEF Inv, Linked, Complete
  <1>7. ASSUME NEW i \in 1 .. n - 1 PROVE Link(i)'
    <2>1. Call(i)' = Call(i) /\ (i > 1 => i - 1 \in 1 .. n - 1)
      BY <1>1, <1>2 DEF Call
    <2> QED
      BY <1>0, <1>2, <1>6, <2>1, SameDb DEF Link
  <1>8. ASSUME NEW i \in 1 .. n - 1, NEW v \in exDb[exStack[i].func] \ exStack[i].todo
        PROVE  /\ \/ Entries(exStack[i].func, v) \subseteq exRtn[exRoot] /\ Expanded(v)
                  \/ i < n - 1 /\ Call(i + 1)' = v
               /\ i > 1 => <<v, exStack[i].path>> \in exRtn[exRoot]
    <2>1. /\ \/ Entries(exStack[i].func, v) \subseteq exRtn[exRoot] /\ Expanded(v)
             \/ i < n /\ Call(i + 1) = v
          /\ i > 1 => <<v, exStack[i].path>> \in exRtn[exRoot]
      BY <1>6, <1>n DEF Filed
    <2>2. ASSUME i < n - 1, Call(i + 1) = v PROVE Call(i + 1)' = v
      <3>1. i + 1 \in 1 .. n - 1
        BY <1>1, <2>2
      <3> QED
        BY <1>2, <2>2, <3>1 DEF Call
    <2>3. ASSUME i = n - 1, Call(i + 1) = v
          PROVE  Entries(exStack[i].func, v) \subseteq exRtn[exRoot] /\ Expanded(v)
      <3>1. n > 1 /\ i + 1 = n
        BY <1>1, <2>3
      <3>2. /\ ExTop.path = <<exStack[i].func, v>> /\ v.expr = ExTop.func
        BY <1>1, <1>3, <2>3, <3>1 DEF Link
      <3>3. v.expr \notin ExConsts
        BY <1>3, <3>2, ExDisjointAssumption
      <3>4. Entries(exStack[i].func, v) = {<<w, ExTop.path>> : w \in exDb[ExTop.func]}
        BY <1>4, <3>2, <3>3 DEF Entries
      <3> QED
        BY <1>4, <1>5, <3>1, <3>2, <3>4 DEF Expanded
    <2>4. i < n - 1 \/ i = n - 1
      BY <1>1
    <2> QED
      BY <2>1, <2>2, <2>3, <2>4
  <1>9. \A i \in 1 .. n - 1 : Filed(i)'
    <2>1. \A v : Expanded(v) => Expanded(v)'
      BY <1>0, SameDb DEF Expanded
    <2> QED
      BY <1>0, <1>2, <1>8, <2>1, SameDb DEF Filed
  <1>10. Linked'
    BY <1>2, <1>7 DEF Linked
  <1>11. ASSUME n = 1 PROVE ExSorted(exRoot) \subseteq exRtn[exRoot]
    BY <1>1, <1>3, <1>5, <1>11 DEF Link
  <1>12. \A f \in ExFuncs \ exTodo : f # exRoot => ExSorted(f) \subseteq exRtn[f]
    BY DEF Inv, Complete
  <1>13. Complete'
    BY <1>0, <1>2, <1>9, <1>11, <1>12, SameDb DEF Complete
  <1>14. Sound'
    BY <1>0, SameDb DEF Inv, Sound
  <1>15. Len(exStack') <= ExDepth
    BY <1>1, <1>2, <1>n, ExDepthAssumption DEF Inv, Types
  <1>16. Types'
    BY <1>0, <1>1, <1>2, <1>15, SameDb DEF Inv, Types
  <1> QED
    BY <1>10, <1>13, <1>14, <1>16 DEF Inv
-----------------------------------------------------------------------------
(* Nothing of what is sorted or being expanded changes.                  *)
LEMMA StepRest ==
  ASSUME Inv, exPc \in {"check", "spin"}, UNCHANGED <<exDb, exTodo, exRoot, exStack, exRtn>>,
         exDic' \in [ExCallees -> {"absent", "loading", "error", "loaded"}],
         \A g \in ExCallees : exDic'[g] \in {"absent", Status(g)},
         exPc' \in {"check", "spin", "crash", "done"}, exPc' = "check" => exPc = "check",
         exPc' = "done" => exPc = "check" /\ exStack = <<>> /\ exTodo = {}
  PROVE  Inv'
  <1>1. Types'
    BY SameDb DEF Inv, Types
  <1>2. \A i : Call(i)' = Call(i)
    BY DEF Call
  <1>3. \A i : Link(i)' = Link(i)
    BY <1>2, SameDb DEF Link
  <1>4. \A v : Expanded(v)' = Expanded(v)
    BY SameDb DEF Expanded
  <1>5. \A i : Filed(i)' = Filed(i)
    BY <1>2, <1>4, SameDb DEF Filed
  <1>6. Linked'
    BY <1>3 DEF Inv, Linked
  <1>7. Complete'
    <2>1. \A i \in 1 .. Len(exStack') : Filed(i)'
      BY <1>5 DEF Inv, Complete
    <2>2. \A f \in ExFuncs \ exTodo' :
            f # exRoot' \/ (exStack' = <<>> /\ exPc' \in {"check", "done"})
              => ExSorted(f) \subseteq exRtn'[f]
      BY DEF Inv, Complete
    <2> QED
      BY <2>1, <2>2, SameDb DEF Complete
  <1>8. Sound'
    BY SameDb DEF Inv, Sound
  <1> QED
    BY <1>1, <1>6, <1>7, <1>8 DEF Inv

LEMMA StepStart ==
  ASSUME Inv, NEW db \in ExDbs, ExStart(db)
  PROVE  Inv'
  <1>1. /\ exPc = "idle" /\ exPc' = "check" /\ exDb' = db /\ exTodo' = ExFuncs
        /\ UNCHANGED <<exDic, exRoot, exStack, exRtn>>
    BY DEF ExStart
  <1>2. /\ exStack = <<>> /\ exRoot = "none" /\ exDic = [f \in ExCallees |-> "absent"]
        /\ (\A f \in ExFuncs : exRtn[f] = {})
        /\ exRtn \in [ExFuncs -> SUBSET (ExValues \X ExPaths)]
        /\ exStack \in Seq(Frame) /\ Len(exStack) <= ExDepth
    BY <1>1 DEF Inv, Types
  <1>3. \A f \in ExCallees : ExIsFile(exDb'[f])
    BY <1>1, ExDbAssumption
  <1>4. Types'
    BY <1>1, <1>2, <1>3 DEF Types
  <1>5. Len(exStack') = 0
    BY <1>1, <1>2, EmptySeq
  <1>6. Linked'
    BY <1>5 DEF Linked
  <1>7. Sound' /\ Complete'
    BY <1>1, <1>2, <1>5 DEF Sound, Complete
  <1> QED
    BY <1>4, <1>6, <1>7 DEF Inv

LEMMA StepCall ==
  ASSUME Inv, NEW v \in ExValues, ExCall(v)
  PROVE  Inv'
  <1>1. /\ ExTaking(v) /\ v.expr \in ExCallees /\ Len(exStack) < ExDepth /\ ExLoad(v.expr)
        /\ UNCHANGED <<exDb, exTodo, exRoot>> /\ exPc = "check"
    BY DEF ExCall, ExTaking
  <1>2. /\ exDic' \in [ExCallees -> {"absent", "loading", "error", "loaded"}]
        /\ \A x \in ExCallees : exDic'[x] \in {"absent", Status(x)}
        /\ ExFound(v.expr) <=> ExHas(v.expr)
    BY <1>1, Loading DEF Inv
  <1>3. CASE ExFound(v.expr) /\ ExExpand(v) /\ UNCHANGED exPc
    BY <1>1, <1>2, <1>3, StepExpand
  <1>4. CASE ~ExFound(v.expr) /\ ExFile(v) /\ UNCHANGED exPc
    BY <1>1, <1>2, <1>4, StepFile
  <1>5. CASE exPc' = "spin" /\ UNCHANGED <<exStack, exRtn>>
    BY <1>1, <1>2, <1>5, StepRest
  <1> QED
    BY <1>3, <1>4, <1>5 DEF ExCall

LEMMA StepInv == ASSUME Inv, [ExNext]_exVars PROVE Inv'
  <1>0. /\ exDic \in [ExCallees -> {"absent", "loading", "error", "loaded"}]
        /\ \A x \in ExCallees : exDic[x] \in {"absent", Status(x)}
    BY DEF Inv, Types
  <1>1. ASSUME NEW v \in ExValues, ExConstant(v) PROVE Inv'
    BY <1>0, <1>1, StepFile DEF ExConstant
  <1>2. ASSUME NEW v \in ExValues, ExTooDeep(v) PROVE Inv'
    BY <1>0, <1>2, StepRest DEF ExTooDeep, ExTaking
  <1>3. CASE ExReport
    BY <1>0, <1>3, StepRest DEF ExReport
  <1>4. CASE UNCHANGED exVars
    <2>1. UNCHANGED <<exDb, exDic, exTodo, exRoot, exStack, exRtn, exPc>>
      BY <1>4 DEF exVars
    <2>2. \A i : Call(i)' = Call(i)
      BY <2>1 DEF Call
    <2>3. \A v : Expanded(v)' = Expanded(v)
      BY <2>1, SameDb DEF Expanded
    <2>4. \A i : Link(i)' = Link(i) /\ Filed(i)' = Filed(i)
      BY <2>1, <2>2, <2>3, SameDb DEF Link, Filed
    <2>5. Linked'
      BY <2>1, <2>4 DEF Inv, Linked
    <2>6. Complete'
      BY <2>1, <2>4, SameDb DEF Inv, Complete
    <2>7. Types' /\ Sound'
      BY <2>1, SameDb DEF Inv, Types, Sound
    <2> QED
      BY <2>5, <2>6, <2>7 DEF Inv
  <1>5. CASE ExSpin
    BY <1>4, <1>5 DEF ExSpin
  <1> QED
    BY <1>1, <1>2, <1>3, <1>4, <1>5, StepStart, StepTakeFunc, StepCall, StepReturn
       DEF ExNext, ExStep

LEMMA SafeInvariance == ExInit /\ [][ExNext]_exVars => []Inv
  <1>1. ExInit => Inv
    <2> SUFFICES ASSUME ExInit PROVE Inv
      OBVIOUS
    <2>1. Len(exStack) = 0 /\ exStack \in Seq(Frame) /\ exStack = <<>>
      BY EmptySeq DEF ExInit
    <2>2. Linked
      BY <2>1 DEF Linked
    <2>3. exTodo = {} /\ exRoot = "none" /\ exPc = "idle" /\ \A f \in ExFuncs : exRtn[f] = {}
      BY DEF ExInit
    <2>4. ExFuncs \subseteq ExCallees /\ \A f \in ExCallees : ~ExHas(f)
      BY ExFuncsAssumption DEF ExInit, ExHas
    <2>5. \A f \in ExFuncs : ExSorted(f) = {}
      BY <2>4, SortedSplit
    <2>6. Sound /\ Complete
      BY <2>1, <2>3, <2>5 DEF Sound, Complete
    <2>7. Types
      BY <2>1, <2>3, ExDepthAssumption DEF ExInit, Types, ExIsFile, ExNone
    <2> QED
      BY <2>2, <2>6, <2>7 DEF Inv
  <1> QED
    BY <1>1, StepInv, PTL

LEMMA Invariance == ExSpec => []Inv
  BY SafeInvariance, PTL DEF ExSpec

(* The types hold for any functions, databases and depth.                *)
THEOREM ReturnTypes == ExSpec => []ExTypeOK
  <1>1. Inv => ExTypeOK
    BY DEF Inv, Types, ExTypeOK
  <1> QED
    BY <1>1, Invariance, PTL

(* Every path the expansion comes to is sorted under the values it should*)
(* be and no other, and all of them when the function has been expanded. *)
THEOREM SortedRight == ExSpec => []ExSortedRight
  <1>1. Inv => ExSortedRight
    BY DEF Inv, Types, Sound, Complete, ExSortedRight
  <1> QED
    BY <1>1, Invariance, PTL

(***************************************************************************)
(* Too deep a recursion: the functions of the frames call each other one *)
(* after the other, and the last one returns one more call.              *)
(***************************************************************************)
Deep == exPc = "crash" => exStack # <<>> /\ \E g \in ExCalled(ExTop.func) : Len(exStack) = ExDepth

LEMMA StepDeep == ASSUME Inv, Deep, [ExNext]_exVars PROVE Deep'
  <1>1. ASSUME NEW v \in ExValues, ExTooDeep(v) PROVE Deep'
    <2>1. ExTaking(v) /\ v.expr \in ExCallees /\ Len(exStack) = ExDepth
          /\ UNCHANGED <<exDb, exStack>>
      BY <1>1 DEF ExTooDeep
    <2>2. exStack # <<>> /\ ExHas(ExTop.func) /\ v \in exDb[ExTop.func]
      BY <2>1, Taking
    <2>3. v.expr \in ExCalled(ExTop.func)
      BY <2>1, <2>2 DEF ExCalled
    <2> QED
      BY <2>1, <2>2, <2>3 DEF Deep, ExCalled, ExHas, ExTop, Last
  <1>2. CASE UNCHANGED exVars
    BY <1>2 DEF exVars, Deep, ExCalled, ExHas, ExTop, Last
  <1>3. ASSUME exPc' # "crash" PROVE Deep'
    BY <1>3 DEF Deep
  <1>4. CASE ExSpin
    BY <1>2, <1>4 DEF ExSpin
  <1>5. ASSUME NEW db, ExStart(db) PROVE Deep'
    BY <1>3, <1>5 DEF ExStart
  <1>6. ASSUME NEW f, ExTakeFunc(f) PROVE Deep'
    BY <1>3, <1>6 DEF ExTakeFunc
  <1>7. ASSUME NEW v, ExConstant(v) \/ ExCall(v) PROVE Deep'
    BY <1>3, <1>7 DEF ExConstant, ExCall, ExTaking
  <1>8. CASE ExReturn \/ ExReport
    BY <1>3, <1>8 DEF ExReturn, ExReport
  <1> QED
    BY <1>1, <1>2, <1>4, <1>5, <1>6, <1>7, <1>8 DEF ExNext, ExStep

LEMMA SafeDeepOnlyOnChains == ExInit /\ [][ExNext]_exVars => []ExDeepOnlyOnChains
  <1>1. ExInit => Deep
    BY DEF ExInit, Deep
  <1>2. Inv /\ Deep => ExDeepOnlyOnChains
    <2> SUFFICES ASSUME Inv, Deep, exPc = "crash" PROVE ExLongChain(exRoot)
      BY DEF ExDeepOnlyOnChains
    <2>n. PICK n : n = Len(exStack)
      OBVIOUS
    <2>1. PICK g \in ExCalled(ExTop.func) : n = ExDepth
      BY <2>n DEF Deep
    <2>2. n \in Nat \ {0} /\ ExTop = exStack[n] /\ exStack # <<>>
      BY <2>n, Resting DEF Inv, Types, Deep
    <2> DEFINE at == [i \in 1 .. n + 1 |-> IF i = n + 1 THEN g ELSE exStack[i].func]
    <2>3. ASSUME NEW i \in 1 .. n
          PROVE  at[i] \in ExCallees /\ at[i + 1] \in ExCalled(at[i])
      <3>1. at[i] = exStack[i].func
        BY <2>2
      <3>2. Link(i)
        BY <2>n DEF Inv, Linked
      <3>3. at[i] \in ExCallees
        BY <3>1, <3>2, ReachClosed DEF Link
      <3>4. CASE i = n
        <4>1. at[i + 1] = g /\ ExTop.func = at[i]
          BY <2>2, <3>1, <3>4
        <4> QED
          BY <2>1, <3>1, <3>3, <4>1
      <3>5. CASE i # n
        <4>1. i + 1 \in 1 .. n /\ i + 1 > 1 /\ (i + 1) - 1 = i
          BY <2>2, <3>5
        <4>2. Link(i + 1)
          BY <2>n, <4>1 DEF Inv, Linked
        <4>3. /\ Call(i + 1) \in exDb[exStack[i].func] /\ Call(i + 1).expr = exStack[i + 1].func
          BY <4>1, <4>2 DEF Link
        <4>4. exStack[i + 1].func \in ExCallees /\ at[i + 1] = exStack[i + 1].func
          BY <2>2, <4>1, <4>2, ReachClosed DEF Link
        <4>5. exStack[i + 1].func \in ExCalled(exStack[i].func)
          BY <3>2, <4>3, <4>4 DEF Link, ExCalled
        <4> QED
          BY <3>1, <3>3, <4>4, <4>5
      <3> QED
        BY <3>3, <3>4, <3>5
    <2>4. at \in [1 .. n + 1 -> ExCallees]
      <3>1. g \in ExCallees
        BY <2>1 DEF ExCalled
      <3>2. \A i \in 1 .. n + 1 : i # n + 1 => i \in 1 .. n
        BY <2>2
      <3>3. \A i \in 1 .. n : exStack[i].func \in ExCallees
        BY <2>n, ReachClosed DEF Inv, Linked, Link
      <3> QED
        BY <3>1, <3>2, <3>3
    <2>5. at[1] = exRoot
      <3>1. 1 \in 1 .. n /\ at[1] = exStack[1].func
        BY <2>2
      <3>2. Link(1)
        BY <2>n, <3>1 DEF Inv, Linked
      <3> QED
        BY <3>1, <3>2 DEF Link
    <2> HIDE DEF at
    <2> QED
      BY <2>1, <2>3, <2>4, <2>5 DEF ExLongChain
  <1>3. Inv /\ Deep /\ [ExNext]_exVars => Deep'
    BY StepDeep
  <1> QED
    BY <1>1, <1>2, <1>3, SafeInvariance, PTL

(* The recursion of get_rtn_paths_list is too deep only for a function     *)
(* that begins a chain of as many calls as there are frames, for any       *)
(* functions, any databases and any depth.                                 *)
THEOREM DeepOnlyOnChains == ExSpec => []ExDeepOnlyOnChains
  BY SafeDeepOnlyOnChains, PTL DEF ExSpec
=============================================================================
