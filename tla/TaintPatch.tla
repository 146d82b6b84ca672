----------------------------- MODULE TaintPatch -----------------------------
(***************************************************************************)
(* The taint arithmetic of the controller: which nodes count as unverified *)
(* (hasAnyUnverifiedTaint) and what the JSON patch built by                *)
(* NodeManager.UpdateNodeMetadata does to a node's taint list.             *)
(*                                                                         *)
(* A taint list is the sequence of its keys: the code compares nothing     *)
(* else, and two taints of one node may share a key (the API server only   *)
(* asks that key and effect together be unique).                           *)
(*                                                                         *)
(* The patch is a list of "remove /spec/taints/<i>" operations.  Every     *)
(* index is computed on the object the controller holds (snapshot), and    *)
(* the API server applies the operations one after the other to the        *)
(* object it stores (current).  It rejects the whole patch when an index   *)
(* is out of range; nothing in the patch tests that the two lists agree.   *)
(***************************************************************************)
EXTENDS Naturals, Sequences

(* Does a node with these taints count as unverified?  With no taint       *)
(* configured, every node does.                                            *)
HasAnyUnverifiedTaint(taints, configured) ==
  \/ configured = <<>>
  \/ \E i \in DOMAIN configured, j \in DOMAIN taints : taints[j] = configured[i]

(* The first position of a key, 0 when there is none (the code's -1).      *)
FindTaintIndex(taints, key) ==
  IF \E i \in DOMAIN taints : taints[i] = key
  THEN CHOOSE i \in DOMAIN taints :
         taints[i] = key /\ \A h \in 1 .. i - 1 : taints[h] # key
  ELSE 0

RemoveIndex(list, i) == SubSeq(list, 1, i - 1) \o SubSeq(list, i + 1, Len(list))

(* One remove operation on a set of at most one list: the set is empty     *)
(* once an operation has been out of range.                                *)
ApplyRemove(results, i) ==
  {RemoveIndex(list, i) : list \in {l \in results : i \in DOMAIN l}}

PatchRun_IgnoresFirstTaint(current, snapshot, configured) ==
  LET after[k \in 0 .. Len(configured)] ==
        IF k = 0 THEN {current}
        ELSE LET i == FindTaintIndex(snapshot, configured[k])
             IN  IF i <= 1 THEN after[k - 1] ELSE ApplyRemove(after[k - 1], i)
  IN  after

PatchRun_RemovesUnfound(current, snapshot, configured) ==
  LET after[k \in 0 .. Len(configured)] ==
        IF k = 0 THEN {current}
        ELSE ApplyRemove(after[k - 1], FindTaintIndex(snapshot, configured[k]))
  IN  after

(* What is left of the patched list after the operations for the first k   *)
(* configured taints; a configured taint absent from the snapshot adds no  *)
(* operation.                                                              *)
PatchRun(current, snapshot, configured) ==
  LET after[k \in 0 .. Len(configured)] ==
        IF k = 0 THEN {current}
        ELSE LET i == FindTaintIndex(snapshot, configured[k])
             IN  IF i = 0 THEN after[k - 1] ELSE ApplyRemove(after[k - 1], i)
  IN  after

(* The taint list after the patch: a singleton, or empty when rejected.    *)
PatchedTaints(current, snapshot, configured) ==
  PatchRun(current, snapshot, configured)[Len(configured)]
=============================================================================
