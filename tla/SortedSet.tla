----------------------------- MODULE SortedSet -----------------------------
(***************************************************************************)
(* What a sorted-set index promises (spec section 4.6): a partial map from *)
(* member keys to scores, changed by the ZADD family of operations, each  *)
(* returning a count or a score.  The intrusive dict+list implementation  *)
(* in SsetIndex is shown to implement this module.                         *)
(***************************************************************************)
EXTENDS Integers, FiniteSets

CONSTANTS
  Keys,     \* member keys
  Scores,   \* the scores a member may hold
  Deltas,   \* increments given to ZINCRBY
  MaxBatch, \* the most members one ZADD names
  Absent    \* zset[k] = Absent: k is not a member

ASSUME Absent \notin Scores

VARIABLES
  zset,     \* zset[k]: the score of member k, or Absent
  ret       \* the last operation, what it named, and the value it returned

vars == <<zset, ret>>

Present == {k \in Keys : zset[k] # Absent}

\* the members a ZADD names with their scores: a function from a few keys
Batches == UNION {[K -> Scores] : K \in {K \in SUBSET Keys : Cardinality(K) <= MaxBatch}}

\* one key named with value v
One(k, v) == [x \in {k} |-> v]

\* the keys K of the batch m take their scores from m; nothing else changes
SetFrom(m, K) == zset' = [k \in Keys |-> IF k \in K THEN m[k] ELSE zset[k]]

\* the step is operation op, naming m, returning v (the name is compared
\* first, so that the other operations are ruled out before v is computed)
Returns(op, m, v) == ret'.op = op /\ ret' = [op |-> op, arg |-> m, val |-> v]

Init ==
  /\ zset = [k \in Keys |-> Absent]
  /\ ret = [op |-> "none", arg |-> [x \in {} |-> 0], val |-> 0]

\* insert(entry) of key k with score s: adds k with s when absent and
\* returns 1; otherwise no change, 0.
InsertOne ==
  \E k \in Keys, s \in Scores :
    /\ Returns("insert", One(k, s), IF zset[k] = Absent THEN 1 ELSE 0)
    /\ IF zset[k] = Absent THEN SetFrom(One(k, s), {k}) ELSE UNCHANGED zset

\* ZADD NX: every named key that is absent is added with its score; the
\* count of those is returned.
AddIfAbsent ==
  \E m \in Batches :
    LET new == DOMAIN m \ Present
    IN  Returns("zadd_nx", m, Cardinality(new)) /\ SetFrom(m, new)

\* ZADD XX: every named key that is present takes its score; the count of
\* those is returned.
UpdateIfPresent ==
  \E m \in Batches :
    LET old == DOMAIN m \cap Present
    IN  Returns("zadd_xx", m, Cardinality(old)) /\ SetFrom(m, old)

\* ZADD: every named key takes its score, added or updated; the count of
\* named keys is returned.
Upsert ==
  \E m \in Batches :
    Returns("zadd", m, Cardinality(DOMAIN m)) /\ SetFrom(m, DOMAIN m)

\* ZINCRBY: the score becomes old + delta (delta when absent); returned.
Increment ==
  \E k \in Keys, d \in Deltas :
    LET new == IF zset[k] = Absent THEN d ELSE zset[k] + d
    IN  Returns("zincrby", One(k, d), new) /\ zset' = [zset EXCEPT ![k] = new]

\* update_score(k, s): a present key takes score s, returning 1; an absent
\* key is left absent, returning 0.
SetScore ==
  \E k \in Keys, s \in Scores :
    /\ Returns("update_score", One(k, s), IF zset[k] = Absent THEN 0 ELSE 1)
    /\ IF zset[k] = Absent THEN UNCHANGED zset ELSE SetFrom(One(k, s), {k})

\* ZREM and ZREMRANGEBY*: the named keys are removed; the count of those
\* that were members is returned.
Remove ==
  \E K \in SUBSET Keys :
    /\ Returns("erase", [x \in K |-> 0], Cardinality(K \cap Present))
    /\ zset' = [k \in Keys |-> IF k \in K THEN Absent ELSE zset[k]]

Next ==
  \/ InsertOne
  \/ AddIfAbsent
  \/ UpdateIfPresent
  \/ Upsert
  \/ Increment
  \/ SetScore
  \/ Remove

Spec == Init /\ [][Next]_vars

=============================================================================
