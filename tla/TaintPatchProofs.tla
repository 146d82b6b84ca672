-------------------------- MODULE TaintPatchProofs --------------------------
(***************************************************************************)
(* What a patch returns, whatever lists it is computed on and applied to.  *)
(* PatchRun is a recursive function: that it exists, and what holds of its *)
(* values, is proved by taking the least position where it would not hold. *)
(***************************************************************************)
EXTENDS TaintPatch, FiniteSetTheorems, TLAPS

(* A set of natural numbers that is not empty has a least element.         *)
LEMMA LeastNatural ==
  ASSUME NEW S \in SUBSET Nat, S # {}
  PROVE  \E m \in S : \A k \in S : m <= k
<1> DEFINE T == {1 .. k : k \in S}
<1>1. T \subseteq FiniteSubsetsOf(Nat)
  <2>1. \A k \in S : IsFiniteSet(1 .. k)
    BY FS_Interval
  <2> QED BY <2>1 DEF FiniteSubsetsOf
<1>2. PICK x \in T : \A y \in T : ~(<<y, x>> \in StrictSubsetOrdering(Nat))
  <2>1. T # {}
    OBVIOUS
  <2> HIDE DEF T
  <2> QED BY <1>1, <2>1, FS_StrictSubsetOrderingWellFounded, WFMin
<1>3. PICK m \in S : x = 1 .. m
  BY <1>2
<1>4. ASSUME NEW k \in S, k < m PROVE FALSE
  <2>1. 1 .. k \subseteq 1 .. m /\ m \in 1 .. m /\ m \notin 1 .. k
    BY <1>4
  <2>2. 1 .. k # 1 .. m /\ 1 .. k \subseteq Nat /\ 1 .. m \subseteq Nat
    BY <2>1
  <2>3. <<1 .. k, 1 .. m>> \in StrictSubsetOrdering(Nat)
    BY <2>1, <2>2 DEF StrictSubsetOrdering
  <2>4. 1 .. k \in T
    OBVIOUS
  <2> QED BY <1>2, <1>3, <2>3, <2>4
<1> QED BY <1>4

-----------------------------------------------------------------------------
(* What one configured taint adds to the result r of those before it.      *)
PatchStep(r, snapshot, key) ==
  IF FindTaintIndex(snapshot, key) = 0 THEN r
  ELSE ApplyRemove(r, FindTaintIndex(snapshot, key))

(* The equation PatchRun is defined by, over the first n configured taints.*)
RunsOver(f, n, current, snapshot, configured) ==
  f = [k \in 0 .. n |-> IF k = 0 THEN {current}
                        ELSE PatchStep(f[k - 1], snapshot, configured[k])]

(* The recursive definition of the patch has a solution.                   *)
LEMMA PatchRunExists ==
  ASSUME NEW current, NEW snapshot, NEW configured, NEW n \in Nat
  PROVE  \E f : RunsOver(f, n, current, snapshot, configured)
<1> DEFINE Runs(f, m) == RunsOver(f, m, current, snapshot, configured)
           Missing == {m \in Nat : ~\E f : Runs(f, m)}
<1> SUFFICES ASSUME Missing # {} PROVE FALSE
  OBVIOUS
<1>1. PICK m \in Missing : \A k \in Missing : m <= k
  <2> HIDE DEF Missing
  <2> QED BY LeastNatural, Missing \subseteq Nat DEF Missing
<1>2. CASE m = 0
  <2> DEFINE g == [k \in 0 .. 0 |-> {current}]
  <2>1. Runs(g, 0)
    BY DEF RunsOver
  <2> QED BY <1>1, <1>2, <2>1
<1>3. CASE m # 0
  <2>1. m - 1 \in Nat /\ m - 1 \notin Missing
    BY <1>1, <1>3
  <2>2. PICK f : Runs(f, m - 1)
    BY <2>1
  <2> DEFINE last == PatchStep(f[m - 1], snapshot, configured[m])
             g == [k \in 0 .. m |-> IF k = m THEN last ELSE f[k]]
  <2>3. \A k \in 0 .. m :
          g[k] = IF k = 0 THEN {current}
                 ELSE PatchStep(g[k - 1], snapshot, configured[k])
    <3>1. m \in Nat
      BY <1>1
    <3>2. \A k \in 0 .. m - 1 :
            f[k] = IF k = 0 THEN {current}
                   ELSE PatchStep(f[k - 1], snapshot, configured[k])
      BY <2>2 DEF RunsOver
    <3>3. \A k \in 0 .. m - 1 : g[k] = f[k]
      BY <3>1
    <3>4. g[m] = PatchStep(g[m - 1], snapshot, configured[m])
      BY <1>3, <3>1, <3>3
    <3> HIDE DEF g
    <3>5. ASSUME NEW k \in 1 .. m - 1 PROVE g[k - 1] = f[k - 1]
      BY <3>1, <3>3
    <3> QED BY <1>3, <3>1, <3>2, <3>3, <3>4, <3>5
  <2>4. Runs(g, m)
    BY <2>3 DEF RunsOver
  <2> QED BY <1>1, <2>4
<1> QED BY <1>2, <1>3

(* The patch satisfies the equation it is defined by.                      *)
LEMMA PatchRunEquation ==
  ASSUME NEW current, NEW snapshot, NEW configured, Len(configured) \in Nat
  PROVE  RunsOver(PatchRun(current, snapshot, configured), Len(configured),
                  current, snapshot, configured)
<1>1. PatchRun(current, snapshot, configured) =
        CHOOSE f : RunsOver(f, Len(configured), current, snapshot, configured)
  BY DEF PatchRun, RunsOver, PatchStep
<1> QED BY <1>1, PatchRunExists

-----------------------------------------------------------------------------
(* Removing a position leaves a list of the same elements.                 *)
LEMMA RemoveIndexType ==
  ASSUME NEW K, NEW list \in Seq(K), NEW i \in DOMAIN list
  PROVE  RemoveIndex(list, i) \in Seq(K)
BY DEF RemoveIndex

(* Two lists one after the other.                                          *)
LEMMA Concatenated ==
  ASSUME NEW K, NEW s \in Seq(K), NEW t \in Seq(K)
  PROVE  /\ s \o t \in Seq(K) /\ Len(s \o t) = Len(s) + Len(t)
         /\ \A h \in 1 .. Len(s) : (s \o t)[h] = s[h]
         /\ \A h \in 1 .. Len(t) : (s \o t)[Len(s) + h] = t[h]
OBVIOUS

(* What is left without a position, and its length.                        *)
LEMMA RemoveIndexRest ==
  ASSUME NEW K, NEW list \in Seq(K), NEW i \in DOMAIN list
  PROVE  /\ Len(RemoveIndex(list, i)) = Len(list) - 1
         /\ RemoveIndex(list, i) = [h \in 1 .. Len(list) - 1 |->
                                     IF h < i THEN list[h] ELSE list[h + 1]]
<1> DEFINE a == SubSeq(list, 1, i - 1)
           b == SubSeq(list, i + 1, Len(list))
           rest == [h \in 1 .. Len(list) - 1 |-> IF h < i THEN list[h] ELSE list[h + 1]]
<1>1. i \in 1 .. Len(list) /\ Len(list) \in Nat
  OBVIOUS
<1>2. a \in Seq(K) /\ Len(a) = i - 1 /\ \A h \in 1 .. i - 1 : a[h] = list[h]
  BY <1>1
<1>3. b \in Seq(K) /\ Len(b) = Len(list) - i /\ \A h \in 1 .. Len(list) - i : b[h] = list[h + i]
  BY <1>1
<1> HIDE DEF a, b
<1>4. /\ a \o b \in Seq(K) /\ Len(a \o b) = Len(a) + Len(b)
      /\ \A h \in 1 .. Len(a) : (a \o b)[h] = a[h]
      /\ \A h \in 1 .. Len(b) : (a \o b)[Len(a) + h] = b[h]
  <2>1. a \in Seq(K) /\ b \in Seq(K)
    BY <1>2, <1>3
  <2> QED BY <2>1, Concatenated
<1> DEFINE c == a \o b
<1> HIDE DEF c
<1>5. c \in Seq(K) /\ Len(c) = Len(list) - 1
  <2>1. c \in Seq(K) /\ Len(c) = Len(a) + Len(b)
    BY <1>4 DEF c
  <2> QED BY <1>1, <1>2, <1>3, <2>1
<1>6. ASSUME NEW h \in 1 .. Len(list) - 1
      PROVE  c[h] = IF h < i THEN list[h] ELSE list[h + 1]
  <2>1. CASE h < i
    <3>1. h \in 1 .. i - 1 /\ h \in 1 .. Len(a)
      BY <1>1, <1>2, <2>1
    <3>2. c[h] = a[h]
      BY <1>4, <3>1 DEF c
    <3> QED BY <1>2, <2>1, <3>1, <3>2
  <2>2. CASE ~(h < i)
    <3> DEFINE j == h - (i - 1)
    <3>1. j \in 1 .. Len(list) - i /\ j + i = h + 1
      BY <1>1, <2>2
    <3>2. Len(a) + j = h /\ j \in 1 .. Len(b)
      BY <1>1, <1>2, <1>3, <3>1
    <3> HIDE DEF j
    <3>3. c[Len(a) + j] = b[j]
      BY <1>4, <3>2 DEF c
    <3> QED BY <1>3, <2>2, <3>1, <3>2, <3>3
  <2> QED BY <2>1, <2>2
<1>7. c = rest
  <2>1. c = [h \in 1 .. Len(c) |-> c[h]]
    BY <1>5
  <2> QED BY <1>5, <1>6, <2>1
<1> QED BY <1>4, <1>5, <1>7 DEF RemoveIndex, a, b, c

(* One operation yields such a list or nothing.                            *)
LEMMA ApplyRemoveType ==
  ASSUME NEW K, NEW r \in SUBSET Seq(K), NEW i
  PROVE  ApplyRemove(r, i) \in SUBSET Seq(K)
BY RemoveIndexType DEF ApplyRemove

(* A patch turns a list of keys into a list of keys, or is rejected.       *)
THEOREM PatchedTaintsType ==
  ASSUME NEW K, NEW current \in Seq(K), NEW snapshot, NEW configured,
         Len(configured) \in Nat
  PROVE  PatchedTaints(current, snapshot, configured) \subseteq Seq(K)
<1> DEFINE f == PatchRun(current, snapshot, configured)
           n == Len(configured)
           Bad == {k \in 0 .. n : ~(f[k] \subseteq Seq(K))}
<1>1. \A k \in 0 .. n : f[k] = IF k = 0 THEN {current}
                               ELSE PatchStep(f[k - 1], snapshot, configured[k])
  <2>1. RunsOver(f, n, current, snapshot, configured)
    BY PatchRunEquation
  <2> HIDE DEF f
  <2> QED BY <2>1 DEF RunsOver
<1> HIDE DEF f
<1>2. ASSUME Bad # {} PROVE FALSE
  <2>1. PICK k \in Bad : \A j \in Bad : k <= j
    <3>1. Bad \in SUBSET Nat
      OBVIOUS
    <3> HIDE DEF Bad
    <3> QED BY <1>2, <3>1, LeastNatural
  <2>2. k \in 0 .. n /\ k # 0
    BY <1>1, <2>1
  <2>3. k - 1 \in 0 .. n /\ f[k - 1] \in SUBSET Seq(K)
    BY <2>1, <2>2
  <2>4. PatchStep(f[k - 1], snapshot, configured[k]) \in SUBSET Seq(K)
    BY <2>3, ApplyRemoveType DEF PatchStep
  <2> QED BY <1>1, <2>1, <2>2, <2>4
<1>3. PatchedTaints(current, snapshot, configured) = f[n]
  BY DEF PatchedTaints, f
<1> QED BY <1>2, <1>3

(* The results f of a patch, step by step, and the last of them.           *)
PatchResults(f, n, current, snapshot, configured) ==
  /\ PatchedTaints(current, snapshot, configured) = f[n]
  /\ f[0] = {current}
  /\ \A k \in 1 .. n : f[k] = PatchStep(f[k - 1], snapshot, configured[k])

(* Every value of the run, up to the last, follows from the one before it. *)
LEMMA PatchRunSteps ==
  ASSUME NEW current, NEW snapshot, NEW configured, NEW n \in Nat,
         n = Len(configured)
  PROVE  \E f : PatchResults(f, n, current, snapshot, configured)
<1> DEFINE f == PatchRun(current, snapshot, configured)
<1>1. \A k \in 0 .. n : f[k] = IF k = 0 THEN {current}
                               ELSE PatchStep(f[k - 1], snapshot, configured[k])
  <2>1. RunsOver(f, n, current, snapshot, configured)
    BY PatchRunEquation
  <2> HIDE DEF f
  <2> QED BY <2>1 DEF RunsOver
<1>2. PatchedTaints(current, snapshot, configured) = f[n]
  BY DEF PatchedTaints
<1> HIDE DEF f
<1>3. f[0] = {current} /\ \A k \in 1 .. n : f[k] = PatchStep(f[k - 1], snapshot, configured[k])
  BY <1>1
<1> QED BY <1>2, <1>3 DEF PatchResults

(* A key that is in a list has a first position.                           *)
LEMMA FirstPosition ==
  ASSUME NEW K, NEW list \in Seq(K), NEW key, \E i \in DOMAIN list : list[i] = key
  PROVE  LET i == FindTaintIndex(list, key)
         IN  /\ i \in DOMAIN list /\ i # 0 /\ list[i] = key
             /\ \A h \in 1 .. i - 1 : list[h] # key
<1> DEFINE At == {i \in DOMAIN list : list[i] = key}
<1>1. At \in SUBSET Nat /\ At # {}
  OBVIOUS
<1>2. PICK m \in At : \A i \in At : m <= i
  <2> HIDE DEF At
  <2> QED BY <1>1, LeastNatural
<1>3. m \in DOMAIN list /\ list[m] = key /\ \A h \in 1 .. m - 1 : list[h] # key
  BY <1>2
<1>4. \E i \in DOMAIN list : list[i] = key /\ \A h \in 1 .. i - 1 : list[h] # key
  BY <1>3
<1>5. FindTaintIndex(list, key) =
        CHOOSE i \in DOMAIN list : list[i] = key /\ \A h \in 1 .. i - 1 : list[h] # key
  BY DEF FindTaintIndex
<1> HIDE DEF At
<1>6. 0 \notin DOMAIN list
  OBVIOUS
<1> DEFINE First(i) == list[i] = key /\ \A h \in 1 .. i - 1 : list[h] # key
<1>7. \E i \in DOMAIN list : First(i)
  BY <1>4
<1>8. FindTaintIndex(list, key) = CHOOSE i \in DOMAIN list : First(i)
  BY <1>5
<1> HIDE DEF First
<1>9. FindTaintIndex(list, key) \in DOMAIN list /\ First(FindTaintIndex(list, key))
  BY <1>7, <1>8
<1> QED BY <1>6, <1>9 DEF First

(* With one configured taint, the patch of a list that is still the one it *)
(* was computed on is exact, as UpdateNodeMetadata says of itself: a list  *)
(* without the taint stays as it is, and otherwise the taint's first       *)
(* position is left out and every other taint keeps its place among the    *)
(* rest; unless the key was repeated, the node no longer has it.           *)
THEOREM FreshPatchOfOneTaintIsExact ==
  ASSUME NEW K, NEW list \in Seq(K), NEW key \in K
  PROVE  LET i == FindTaintIndex(list, key)
             patched == PatchedTaints(list, list, <<key>>)
         IN  IF \A h \in DOMAIN list : list[h] # key
             THEN patched = {list}
             ELSE /\ list[i] = key
                  /\ patched = {[h \in 1 .. Len(list) - 1 |->
                                  IF h < i THEN list[h] ELSE list[h + 1]]}
                  /\ (\A h \in DOMAIN list : list[h] = key => h = i)
                       => \A rest \in patched : ~HasAnyUnverifiedTaint(rest, <<key>>)
<1> DEFINE i == FindTaintIndex(list, key)
           patched == PatchedTaints(list, list, <<key>>)
<1>1. patched = PatchStep({list}, list, key)
  <2>1. Len(<<key>>) = 1 /\ <<key>>[1] = key /\ Len(<<key>>) \in Nat
    OBVIOUS
  <2>2. PICK f : PatchResults(f, 1, list, list, <<key>>)
    BY <2>1, PatchRunSteps
  <2>3. f[1] = PatchStep(f[1 - 1], list, <<key>>[1]) /\ 1 - 1 = 0
    BY <2>2 DEF PatchResults
  <2>4. patched = f[1] /\ f[0] = {list}
    BY <2>2 DEF PatchResults
  <2> HIDE DEF patched
  <2> QED BY <2>1, <2>3, <2>4
<1>2. CASE \A h \in DOMAIN list : list[h] # key
  <2>1. i = 0
    BY <1>2 DEF FindTaintIndex
  <2>2. patched = {list}
    BY <1>1, <2>1 DEF PatchStep
  <2> QED BY <1>2, <2>2
<1>3. CASE \E h \in DOMAIN list : list[h] = key
  <2>1. i \in DOMAIN list /\ i # 0 /\ list[i] = key
    BY <1>3, FirstPosition
  <2> DEFINE rest == [h \in 1 .. Len(list) - 1 |-> IF h < i THEN list[h] ELSE list[h + 1]]
  <2>2. patched = {RemoveIndex(list, i)}
    <3>1. patched = ApplyRemove({list}, i)
      BY <1>1, <2>1 DEF PatchStep
    <3> HIDE DEF i, patched
    <3> QED BY <2>1, <3>1 DEF ApplyRemove
  <2> HIDE DEF i, patched
  <2>3. RemoveIndex(list, i) = rest
    BY <2>1, RemoveIndexRest
  <2>4. ASSUME \A h \in DOMAIN list : list[h] = key => h = i
        PROVE  ~HasAnyUnverifiedTaint(rest, <<key>>)
    <3>1. \A h \in DOMAIN rest : rest[h] # key
      BY <2>1, <2>4
    <3>2. <<key>> # <<>> /\ DOMAIN <<key>> = {1} /\ <<key>>[1] = key
      OBVIOUS
    <3> HIDE DEF rest
    <3> QED BY <3>1, <3>2 DEF HasAnyUnverifiedTaint
  <2> QED BY <1>3, <2>1, <2>2, <2>3, <2>4 DEF i, patched
<1> QED BY <1>2, <1>3

(* Whatever list a patch is applied to, it removes at most one taint for   *)
(* each configured one, and adds none.                                     *)
THEOREM PatchRemovesAtMostConfigured ==
  ASSUME NEW K, NEW current \in Seq(K), NEW snapshot, NEW configured,
         Len(configured) \in Nat
  PROVE  \A list \in PatchedTaints(current, snapshot, configured) :
           Len(list) \in Len(current) - Len(configured) .. Len(current)
<1> DEFINE n == Len(configured)
           Within(r, k) == \A list \in r : /\ list \in Seq(K)
                                           /\ Len(list) \in Len(current) - k .. Len(current)
<1>1. PICK f : PatchResults(f, n, current, snapshot, configured)
  BY PatchRunSteps
<1>2. ASSUME NEW k \in 1 .. n, Within(f[k - 1], k - 1)
      PROVE  Within(f[k], k)
  <2>1. ASSUME NEW i, NEW list \in ApplyRemove(f[k - 1], i)
        PROVE  list \in Seq(K) /\ Len(list) \in Len(current) - k .. Len(current)
    <3>1. PICK l \in f[k - 1] : i \in DOMAIN l /\ list = RemoveIndex(l, i)
      BY <2>1 DEF ApplyRemove
    <3>2. l \in Seq(K) /\ Len(l) \in Len(current) - (k - 1) .. Len(current)
      BY <1>2, <3>1
    <3>3. list \in Seq(K) /\ Len(list) = Len(l) - 1
      <4>1. list \in Seq(K)
        BY <3>1, <3>2, RemoveIndexType
      <4>2. Len(list) = Len(l) - 1
        BY <3>1, <3>2, RemoveIndexRest
      <4> QED BY <4>1, <4>2
    <3> QED BY <3>2, <3>3
  <2>2. ASSUME NEW list \in f[k - 1]
        PROVE  list \in Seq(K) /\ Len(list) \in Len(current) - k .. Len(current)
    BY <1>2
  <2>3. f[k] = PatchStep(f[k - 1], snapshot, configured[k])
    BY <1>1 DEF PatchResults
  <2> QED BY <2>1, <2>2, <2>3 DEF PatchStep
<1> DEFINE Bad == {k \in 0 .. n : ~Within(f[k], k)}
<1>3. ASSUME Bad # {} PROVE FALSE
  <2>1. PICK k \in Bad : \A j \in Bad : k <= j
    <3>1. Bad \in SUBSET Nat
      OBVIOUS
    <3> HIDE DEF Bad
    <3> QED BY <1>3, <3>1, LeastNatural
  <2>2. k # 0
    <3>1. Within(f[0], 0)
      BY <1>1 DEF PatchResults
    <3> QED BY <2>1, <3>1
  <2>3. k \in 1 .. n /\ Within(f[k - 1], k - 1)
    <3> HIDE DEF Within
    <3> QED BY <2>1, <2>2
  <2> QED BY <1>2, <2>1, <2>3
<1>4. Within(f[n], n)
  BY <1>3
<1> QED BY <1>1, <1>4 DEF PatchResults

-----------------------------------------------------------------------------
(* f gives for each of L taints left its place among the n there were: no  *)
(* taint moves back, and none overtakes another.                           *)
Rising(f, L, n) ==
  /\ f \in [1 .. L -> 1 .. n]
  /\ \A h \in 1 .. L : f[h] >= h
  /\ \A h, i \in 1 .. L : h <= i => f[i] - f[h] >= i - h

(* The places without the one at position p.                               *)
Skip(f, L, p) == [h \in 1 .. L - 1 |-> IF h < p THEN f[h] ELSE f[h + 1]]

(* The places of the taints left, as a set.                                *)
Places(f, L) == {f[h] : h \in 1 .. L}

(* Leaving one out keeps the order of the rest and takes its place away.   *)
LEMMA SkipRising ==
  ASSUME NEW L \in Nat, NEW n \in Nat, NEW f, Rising(f, L, n), NEW p \in 1 .. L
  PROVE  /\ Rising(Skip(f, L, p), L - 1, n)
         /\ Places(Skip(f, L, p), L - 1) = Places(f, L) \ {f[p]}
<1> DEFINE g == Skip(f, L, p)
<1>1. /\ f \in [1 .. L -> 1 .. n]
      /\ \A h \in 1 .. L : f[h] \in 1 .. n /\ f[h] >= h
      /\ \A h, i \in 1 .. L : h <= i => f[i] - f[h] >= i - h
  BY DEF Rising
<1>2. \A h \in 1 .. L - 1 : g[h] = IF h < p THEN f[h] ELSE f[h + 1]
  BY DEF Skip
<1>3. \A h \in 1 .. L - 1 : h \in 1 .. L /\ h + 1 \in 1 .. L
  OBVIOUS
<1>4. g \in [1 .. L - 1 -> 1 .. n]
  BY <1>1, <1>3 DEF Skip
<1> HIDE DEF g
<1>5. ASSUME NEW h \in 1 .. L - 1 PROVE g[h] >= h
  <2>1. /\ f[h] \in Int /\ f[h] >= h
        /\ f[h + 1] \in Int /\ f[h + 1] >= h + 1
    BY <1>1, <1>3
  <2> QED BY <1>2, <2>1
<1>6. ASSUME NEW h \in 1 .. L - 1, NEW i \in 1 .. L - 1, h <= i
      PROVE  g[i] - g[h] >= i - h
  <2>1. CASE i < p
    <3>1. g[h] = f[h] /\ g[i] = f[i]
      BY <1>2, <1>6, <2>1
    <3> QED BY <1>1, <1>3, <1>6, <3>1
  <2>2. CASE h < p /\ ~(i < p)
    <3>1. g[h] = f[h] /\ g[i] = f[i + 1]
      BY <1>2, <2>2
    <3>2. f[i + 1] - f[h] >= (i + 1) - h
      BY <1>1, <1>3, <1>6
    <3>3. f[i + 1] \in Int /\ f[h] \in Int
      BY <1>1, <1>3
    <3> QED BY <3>1, <3>2, <3>3
  <2>3. CASE ~(h < p)
    <3>1. g[h] = f[h + 1] /\ g[i] = f[i + 1]
      BY <1>2, <1>6, <2>3
    <3>2. f[i + 1] - f[h + 1] >= (i + 1) - (h + 1)
      BY <1>1, <1>3, <1>6
    <3>3. f[i + 1] \in Int /\ f[h + 1] \in Int
      BY <1>1, <1>3
    <3> QED BY <3>1, <3>2, <3>3
  <2> QED BY <2>1, <2>2, <2>3
<1>7. ASSUME NEW h \in 1 .. L - 1 PROVE g[h] # f[p] /\ \E i \in 1 .. L : f[i] = g[h]
  <2>1. h \in 1 .. L /\ h + 1 \in 1 .. L /\ f[h] \in Int /\ f[h + 1] \in Int /\ f[p] \in Int
    BY <1>1, <1>3
  <2>2. CASE h < p
    <3>1. f[p] - f[h] >= p - h
      BY <1>1, <2>1, <2>2
    <3> QED BY <1>2, <2>1, <2>2, <3>1
  <2>3. CASE ~(h < p)
    <3>1. f[h + 1] - f[p] >= (h + 1) - p
      BY <1>1, <2>1, <2>3
    <3> QED BY <1>2, <2>1, <2>3, <3>1
  <2> QED BY <2>2, <2>3
<1>8. ASSUME NEW i \in 1 .. L, f[i] # f[p] PROVE \E h \in 1 .. L - 1 : g[h] = f[i]
  <2>1. CASE i < p
    <3>1. i \in 1 .. L - 1 /\ g[i] = f[i]
      BY <1>2, <2>1
    <3> QED BY <3>1
  <2>2. CASE i > p
    <3>1. i - 1 \in 1 .. L - 1 /\ ~(i - 1 < p) /\ (i - 1) + 1 = i
      BY <2>2
    <3>2. g[i - 1] = f[i]
      BY <1>2, <3>1
    <3> QED BY <3>1, <3>2
  <2> QED BY <1>8, <2>1, <2>2
<1>9. Rising(g, L - 1, n)
  BY <1>4, <1>5, <1>6 DEF Rising
<1>10. Places(g, L - 1) = Places(f, L) \ {f[p]}
  BY <1>7, <1>8 DEF Places
<1> QED BY <1>9, <1>10 DEF g

(* The place of position i among those kept.                               *)
Rank(kept, i) == Cardinality({h \in kept : h <= i})

(* Ranks are numbered from one on, in the order of the positions.          *)
LEMMA RankIncreases ==
  ASSUME NEW n \in Nat, NEW kept \in SUBSET (1 .. n)
  PROVE  /\ \A i \in kept : Rank(kept, i) \in 1 .. Cardinality(kept)
         /\ \A i, j \in kept : i < j => Rank(kept, i) < Rank(kept, j)
<1> DEFINE upTo(i) == {h \in kept : h <= i}
<1>1. IsFiniteSet(kept)
  <2>1. IsFiniteSet(1 .. n)
    BY FS_Interval
  <2> QED BY <2>1, FS_Subset
<1>2. \A i : IsFiniteSet(upTo(i)) /\ Cardinality(upTo(i)) \in Nat
             /\ Cardinality(upTo(i)) <= Cardinality(kept)
  <2> TAKE i
  <2>1. upTo(i) \in SUBSET kept
    OBVIOUS
  <2> HIDE DEF upTo
  <2> QED BY <1>1, <2>1, FS_Subset, FS_CardinalityType
<1>3. ASSUME NEW i \in kept PROVE Rank(kept, i) \in 1 .. Cardinality(kept)
  <2>1. i \in upTo(i) /\ Cardinality(kept) \in Nat
    BY <1>1, FS_CardinalityType
  <2> HIDE DEF upTo
  <2>2. Cardinality(upTo(i)) # 0
    BY <1>2, <2>1, FS_EmptySet
  <2>3. Cardinality(upTo(i)) \in 1 .. Cardinality(kept)
    BY <1>2, <2>1, <2>2
  <2> QED BY <2>3 DEF Rank, upTo
<1>4. ASSUME NEW i \in kept, NEW j \in kept, i < j
      PROVE  Rank(kept, i) < Rank(kept, j)
  <2>1. upTo(i) \in SUBSET upTo(j) /\ j \in upTo(j) /\ j \notin upTo(i)
    <3>1. \A h \in kept : h \in Int
      OBVIOUS
    <3>2. \A h \in kept : h <= i => h <= j
      BY <1>4, <3>1
    <3>3. j <= j /\ ~(j <= i)
      BY <1>4, <3>1
    <3> QED BY <3>2, <3>3
  <2> HIDE DEF upTo
  <2>2. Cardinality(upTo(i)) <= Cardinality(upTo(j)) /\ Cardinality(upTo(i)) # Cardinality(upTo(j))
    <3>1. IsFiniteSet(upTo(j))
      BY <1>2
    <3>2. /\ Cardinality(upTo(i)) <= Cardinality(upTo(j))
          /\ Cardinality(upTo(j)) = Cardinality(upTo(i)) => upTo(j) = upTo(i)
      BY <2>1, <3>1, FS_Subset
    <3> QED BY <2>1, <3>2
  <2>3. Cardinality(upTo(i)) < Cardinality(upTo(j))
    BY <1>2, <2>2
  <2> QED BY <2>3 DEF Rank, upTo
<1> QED BY <1>3, <1>4

(* Places in rising order are numbered by their rank.                      *)
LEMMA RisingRank ==
  ASSUME NEW L \in Nat, NEW n \in Nat, NEW f, Rising(f, L, n), NEW kept, kept = Places(f, L)
  PROVE  /\ Cardinality(kept) = L
         /\ \A h \in 1 .. L : f[h] \in kept /\ Rank(kept, f[h]) = h
<1>1. /\ f \in [1 .. L -> 1 .. n]
      /\ \A h, i \in 1 .. L : h <= i => f[i] - f[h] >= i - h
  BY DEF Rising
<1>2. ASSUME NEW h \in 1 .. L, NEW i \in 1 .. L
      PROVE  (f[i] <= f[h] <=> i <= h) /\ (f[i] = f[h] => i = h)
  <2>1. f[i] \in Int /\ f[h] \in Int
    BY <1>1
  <2>2. h <= i => f[i] - f[h] >= i - h
    BY <1>1
  <2>3. i <= h => f[h] - f[i] >= h - i
    BY <1>1
  <2> QED BY <2>1, <2>2, <2>3
<1>3. ASSUME NEW h \in 0 .. L PROVE Cardinality(Places(f, h)) = h
  <2> DEFINE g == [i \in 1 .. h |-> f[i]]
  <2>1. \A i \in 1 .. h : i \in 1 .. L
    BY <1>3
  <2>2. g \in [1 .. h -> Places(f, h)]
    BY DEF Places
  <2>3. \A i, j \in 1 .. h : g[i] = g[j] => i = j
    BY <1>2, <2>1
  <2>4. \A x \in Places(f, h) : \E i \in 1 .. h : g[i] = x
    BY DEF Places
  <2> HIDE DEF g
  <2>5. ExistsBijection(1 .. h, Places(f, h))
    BY <2>2, <2>3, <2>4 DEF ExistsBijection, Bijection, Injection, Surjection, IsInjective
  <2>6. IsFiniteSet(1 .. h) /\ Cardinality(1 .. h) = h
    <3>1. h \in Int /\ 1 \in Int /\ h >= 0
      BY <1>3
    <3>2. IsFiniteSet(1 .. h) /\ Cardinality(1 .. h) = IF 1 > h THEN 0 ELSE h - 1 + 1
      BY <3>1, FS_Interval
    <3> QED BY <3>1, <3>2
  <2> QED BY <2>5, <2>6, FS_Bijection
<1>4. ASSUME NEW h \in 1 .. L PROVE Rank(kept, f[h]) = h
  <2>1. \A i \in 1 .. h : i \in 1 .. L /\ i <= h
    BY <1>4
  <2>2. \A i \in 1 .. L : i <= h => i \in 1 .. h
    BY <1>4
  <2>3. {x \in kept : x <= f[h]} = Places(f, h)
    BY <1>2, <2>1, <2>2 DEF Places
  <2>4. Cardinality(Places(f, h)) = h
    <3>1. h \in 0 .. L
      OBVIOUS
    <3> QED BY <1>3, <3>1
  <2> QED BY <2>3, <2>4 DEF Rank
<1>5. Cardinality(kept) = L
  BY <1>3, L \in 0 .. L
<1> QED BY <1>4, <1>5 DEF Places
=============================================================================
