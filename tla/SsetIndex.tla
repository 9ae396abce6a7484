----------------------------- MODULE SsetIndex -----------------------------
(***************************************************************************)
(* The sorted-set index redis::sset_lsa of src/structures/sset_lsa.hh.     *)
(*                                                                         *)
(* Every member is an sset_entry allocated from the LSA allocator and     *)
(* linked into two intrusive containers: _dict, a tree ordered by key, and *)
(* _list, a list ordered by score.  An entry is a node of the set Nodes;   *)
(* ekey and escore are its fields, alive the nodes constructed and not yet *)
(* disposed.  Keys are ordered by Integers' <, standing for the bytewise   *)
(* order of sset_entry::compare; scores are small integers standing for   *)
(* the doubles.                                                            *)
(*                                                                         *)
(* The bulk operations iterate a std::unordered_map whose order is        *)
(* unspecified, so the model tries every order.  placed is a history      *)
(* variable: the nodes in the order insert_ordered last linked them.       *)
(***************************************************************************)
EXTENDS Integers, Sequences, FiniteSets, SequencesExt, TLC

CONSTANTS
  Keys,        \* member keys, ordered as sset_entry::compare orders them
  Scores,      \* scores a member may hold (bounds ZINCRBY results)
  Deltas,      \* increments given to insert_or_update(key, delta)
  Nodes,       \* the entries the allocator can hand out
  NoNode,      \* _dict.end()
  NoKey,       \* the key field of a node that holds no entry
  NoScore,     \* the empty std::experimental::optional<double> of score()
  MaxBatch,    \* the most members one unordered_map argument carries
  CallerChecksAbsent \* callers of insert(entry) pass only absent keys

ASSUME Keys \subseteq Int /\ Scores \subseteq Int /\ Deltas \subseteq Int
ASSUME NoNode \notin Nodes /\ NoKey \notin Keys /\ NoScore \notin Scores
ASSUME CallerChecksAbsent \in BOOLEAN

VARIABLES
  dict,     \* the entries linked into _dict
  lst,      \* _list, front to back
  ekey,     \* ekey[n]: sset_entry::_key
  escore,   \* escore[n]: sset_entry::_score
  alive,    \* entries constructed and not disposed
  placed,   \* history: live entries in the order they were last listed
  ret       \* the last operation, the members it named, and what it returned

vars == <<dict, lst, ekey, escore, alive, placed, ret>>

Ops == {"none", "insert", "zadd_nx", "zadd_xx", "zadd", "zincrby", "update_score", "erase", "flush_all"}

\* the members an operation names, as a function from keys; NoArg for none
NoArg == [k \in {} |-> 0]
KeysArg(K) == [k \in K |-> 0]

TypeOK ==
  /\ dict \subseteq Nodes
  /\ lst \in Seq(Nodes)
  /\ ekey \in [Nodes -> Keys \cup {NoKey}]
  /\ escore \in [Nodes -> Scores]
  /\ alive \subseteq Nodes
  /\ placed \in Seq(Nodes)
  /\ ret \in [op : Ops, arg : UNION {[K -> Scores \cup Deltas \cup {0}] : K \in SUBSET Keys},
              val : Int]

Init ==
  /\ dict = {}
  /\ lst = <<>>
  /\ ekey = [n \in Nodes |-> NoKey]
  /\ escore = [n \in Nodes |-> CHOOSE s \in Scores : TRUE]
  /\ alive = {}
  /\ placed = <<>>
  /\ ret = [op |-> "none", arg |-> NoArg, val |-> 0]

(***************************************************************************)
(* An operation runs to completion without suspending, so it is one      *)
(* action.  Its body works on a record S holding the index and a counter, *)
(* and Commit stores the record back.                                      *)
(***************************************************************************)
St == [dict |-> dict, lst |-> lst, ekey |-> ekey, escore |-> escore,
       alive |-> alive, placed |-> placed, cnt |-> 0]

Commit(S, op, arg, r) ==
  /\ dict' = S.dict
  /\ lst' = S.lst
  /\ ekey' = S.ekey
  /\ escore' = S.escore
  /\ alive' = S.alive
  /\ placed' = S.placed
  /\ ret' = [op |-> op, arg |-> arg, val |-> r]

\* _dict.find(key, sset_entry::compare())
DictFind(S, k) ==
  IF \E n \in S.dict : S.ekey[n] = k
    THEN CHOOSE n \in S.dict : S.ekey[n] = k
    ELSE NoNode

\* current_allocator().construct<sset_entry>(key, score)
FreeNode(S) == CHOOSE n \in Nodes : n \notin S.alive

Construct(S, n, k, s) ==
  [S EXCEPT !.alive = @ \cup {n}, !.ekey[n] = k, !.escore[n] = s]

\* current_deleter / destroy: the node returns to the allocator
Destroy(S, n) ==
  [S EXCEPT !.alive = @ \ {n}, !.ekey[n] = NoKey, !.placed = Remove(@, n)]

\* _list.erase(s_iterator_to(*e)): unlinks that node
ListErase(S, n) == [S EXCEPT !.lst = RemoveFirst(@, n)]

(***************************************************************************)
(* insert_ordered: push_front into an empty list or before a larger head; *)
(* otherwise insert before the first entry with a strictly greater score; *)
(* when none is, the trace check (never true) or push_back.                *)
(***************************************************************************)
\* fault model: the scan stops at the first score >= instead of >
ListInsertOrderedBeforeEquals(l, sc, n) ==
  LET gt == SelectInSeq(l, LAMBDA m : sc[m] >= sc[n])
  IN  IF gt # 0 THEN InsertAt(l, gt, n) ELSE Append(l, n)

ListInsertOrdered(l, sc, n) ==
  LET s  == sc[n]
      gt == SelectInSeq(l, LAMBDA m : sc[m] > s)
  IN  IF l = <<>> \/ s < sc[l[1]] THEN <<n>> \o l
      ELSE IF gt # 0 THEN InsertAt(l, gt, n)
      ELSE IF sc[Last(l)] > s THEN <<n>> \o l
      ELSE Append(l, n)

InsertOrdered(S, n) ==
  [S EXCEPT !.lst = ListInsertOrdered(@, S.escore, n),
            !.placed = Append(Remove(@, n), n)]

\* update(e): unlink, then insert_ordered
Update(S, n) == InsertOrdered(ListErase(S, n), n)

\* insert(e): insert_ordered first, then _dict.insert, which refuses a
\* key already there; the entry stays in the list either way.
Insert(S, n) ==
  LET S1 == InsertOrdered(S, n)
  IN  IF DictFind(S1, S1.ekey[n]) = NoNode
        THEN [st |-> [S1 EXCEPT !.dict = @ \cup {n}], ok |-> TRUE]
        ELSE [st |-> S1, ok |-> FALSE]

\* one member <<key, score>> of insert_if_not_exists
InsertIfNotExistsStep(S, m) ==
  IF DictFind(S, m[1]) # NoNode THEN S
  ELSE LET n == FreeNode(S)
           r == Insert(Construct(S, n, m[1], m[2]), n)
       IN  IF r.ok THEN [r.st EXCEPT !.cnt = @ + 1] ELSE Destroy(r.st, n)

\* fault model: the new score is added to the old one (ZADD INCR mixed in)
UpdateIfOnlyExistsStepAdds(S, m) ==
  LET n == DictFind(S, m[1])
  IN  IF n = NoNode THEN S
      ELSE [InsertOrdered([ListErase(S, n) EXCEPT !.escore[n] = @ + m[2]], n)
              EXCEPT !.cnt = @ + 1]

\* one member of update_if_only_exists: unlink, set the score, relink
UpdateIfOnlyExistsStep(S, m) ==
  LET n == DictFind(S, m[1])
  IN  IF n = NoNode THEN S
      ELSE [InsertOrdered([ListErase(S, n) EXCEPT !.escore[n] = m[2]], n)
              EXCEPT !.cnt = @ + 1]

\* one member of insert_or_update(members)
InsertOrUpdateStep(S, m) ==
  LET n == DictFind(S, m[1])
  IN  IF n # NoNode
        THEN [Update([S EXCEPT !.escore[n] = m[2]], n) EXCEPT !.cnt = @ + 1]
        ELSE LET f == FreeNode(S)
                 r == Insert(Construct(S, f, m[1], m[2]), f)
             IN  IF r.ok THEN [r.st EXCEPT !.cnt = @ + 1] ELSE r.st

\* erase(entries): unlink from the dict, unlink and dispose from the list
EraseEntryStep(S, n) ==
  Destroy([S EXCEPT !.dict = @ \ {n}, !.lst = RemoveFirst(@, n)], n)

\* fault model: the entry leaves the dict but is not unlinked from the list
EraseKeysStepDictOnly(S, k) ==
  LET n == DictFind(S, k)
  IN  IF n = NoNode THEN S
      ELSE [S EXCEPT !.dict = @ \ {n}, !.cnt = @ + 1]

\* one key of erase(keys)
EraseKeysStep(S, k) ==
  LET n == DictFind(S, k)
  IN  IF n = NoNode THEN S
      ELSE [EraseEntryStep(S, n) EXCEPT !.cnt = @ + 1]

(***************************************************************************)
(* Arguments.  A std::unordered_map<bytes, double> is a function from a   *)
(* set of keys to scores, iterated in any order.                           *)
(***************************************************************************)
Batches == UNION {[K -> Scores] : K \in {K \in SUBSET Keys : Cardinality(K) <= MaxBatch}}
Orders(m) == SetToSeqs(DOMAIN m)
Members(m, o) == [i \in DOMAIN o |-> <<o[i], m[o[i]]>>]
Enough(m) ==
  Cardinality({k \in DOMAIN m : DictFind(St, k) = NoNode}) <= Cardinality(Nodes \ alive)

(***************************************************************************)
(* Operations of sset_lsa.                                                 *)
(***************************************************************************)
\* insert(entry), called by the owner with a freshly constructed entry
InsertEntry(k, s) ==
  /\ CallerChecksAbsent => DictFind(St, k) = NoNode
  /\ Nodes \ alive # {}
  /\ LET n == FreeNode(St)
         r == Insert(Construct(St, n, k, s), n)
     IN  Commit(r.st, "insert", k :> s, IF r.ok THEN 1 ELSE 0)

InsertIfNotExists(m) ==
  /\ Enough(m)
  /\ \E o \in Orders(m) :
       LET S == FoldLeft(InsertIfNotExistsStep, St, Members(m, o))
       IN  Commit(S, "zadd_nx", m, S.cnt)

UpdateIfOnlyExists(m) ==
  \E o \in Orders(m) :
    LET S == FoldLeft(UpdateIfOnlyExistsStep, St, Members(m, o))
    IN  Commit(S, "zadd_xx", m, S.cnt)

\* fault model: ZINCRBY stores delta instead of old + delta
InsertOrUpdateKeySets(k, d) ==
  LET n == DictFind(St, k)
  IN  /\ d \in Scores
      /\ n = NoNode => Nodes \ alive # {}
      /\ IF n # NoNode
           THEN Commit(Update([St EXCEPT !.escore[n] = d], n), "zincrby", k :> d, d)
           ELSE LET f == FreeNode(St)
                IN  Commit(Insert(Construct(St, f, k, d), f).st, "zincrby", k :> d, d)

\* insert_or_update(key, delta): ZINCRBY, returns the new score
InsertOrUpdateKey(k, d) ==
  LET n      == DictFind(St, k)
      result == IF n # NoNode THEN d + escore[n] ELSE d
  IN  /\ result \in Scores
      /\ n = NoNode => Nodes \ alive # {}
      /\ IF n # NoNode
           THEN Commit(Update([St EXCEPT !.escore[n] = result], n), "zincrby", k :> d, result)
           ELSE LET f == FreeNode(St)
                IN  Commit(Insert(Construct(St, f, k, result), f).st, "zincrby", k :> d, result)

InsertOrUpdate(m) ==
  /\ Enough(m)
  /\ \E o \in Orders(m) :
       LET S == FoldLeft(InsertOrUpdateStep, St, Members(m, o))
       IN  Commit(S, "zadd", m, S.cnt)

\* update_score(key, score): sets (does not add) the score
UpdateScore(k, s) ==
  LET n == DictFind(St, k)
  IN  IF n = NoNode THEN Commit(St, "update_score", k :> s, 0)
      ELSE Commit(InsertOrdered([ListErase(St, n) EXCEPT !.escore[n] = s], n), "update_score", k :> s, 1)

\* erase(entries): entries found by a fetch, in list order
EraseEntries(E) ==
  LET es == SelectSeq(lst, LAMBDA n : n \in E)
  IN  Commit(FoldLeft(EraseEntryStep, St, es), "erase", KeysArg({ekey[n] : n \in E}), Len(es))

EraseKeys(K) ==
  LET S == FoldLeft(EraseKeysStep, St, SetToSeq(K))
  IN  Commit(S, "erase", KeysArg(K), S.cnt)

Next ==
  \/ \E k \in Keys, s \in Scores : InsertEntry(k, s)
  \/ \E m \in Batches : InsertIfNotExists(m)
  \/ \E m \in Batches : UpdateIfOnlyExists(m)
  \/ \E k \in Keys, d \in Deltas : InsertOrUpdateKey(k, d)
  \/ \E m \in Batches : InsertOrUpdate(m)
  \/ \E k \in Keys, s \in Scores : UpdateScore(k, s)
  \/ \E E \in SUBSET dict : E # {} /\ EraseEntries(E)
  \/ \E K \in SUBSET Keys : K # {} /\ EraseKeys(K)

Spec == Init /\ [][Next]_vars

(***************************************************************************)
(* erase(const bytes& key) is kept out of Next: the iterator it gets back *)
(* from _dict.erase is the entry after the erased one, and that is the    *)
(* entry it unlinks from the list and disposes.  Erasing an absent key    *)
(* erases _dict.end(), which is undefined, so the key is taken present.   *)
(***************************************************************************)
\* the entry following n in the dict's key order, or _dict.end()
DictNext(S, n) ==
  LET after == {m \in S.dict : S.ekey[m] > S.ekey[n]}
  IN  IF after = {} THEN NoNode
      ELSE CHOOSE m \in after : \A o \in after : S.ekey[m] <= S.ekey[o]

EraseKey(k) ==
  LET n       == DictFind(St, k)
      removed == DictNext(St, n)
      S1      == [St EXCEPT !.dict = @ \ {n}]
  IN  /\ n # NoNode
      /\ IF removed # NoNode
           THEN Commit(Destroy(ListErase(S1, removed), removed), "erase", k :> 0, 0)
           ELSE Commit(S1, "erase", k :> 0, 0)

NextWithEraseKey == Next \/ \E k \in Keys : EraseKey(k)

SpecWithEraseKey == Init /\ [][NextWithEraseKey]_vars

(***************************************************************************)
(* flush_all(): _list.clear_and_dispose disposes every listed entry.       *)
(* _dict is not cleared, so it keeps the disposed entries linked.  Its    *)
(* only caller under src/ is ~sset_lsa, after which _dict's own           *)
(* destructor runs over those entries; it is kept out of Next for that    *)
(* reason and is the last step of SpecWithFlushAll.                        *)
(***************************************************************************)
FlushAll ==
  LET S == [St EXCEPT !.lst = <<>>]
  IN  Commit(FoldLeft(Destroy, S, lst), "flush_all", NoArg, 0)

SpecWithFlushAll == Init /\ [][ret.op # "flush_all" /\ (Next \/ FlushAll)]_vars

(***************************************************************************)
(* Read-only operations, as operators over the current state.             *)
(***************************************************************************)
\* fault model: an inclusive bound compared exclusively
ScoreOutOfRangeStrict(min, max) ==
  min >= escore[Last(lst)] \/ max < escore[lst[1]]

\* score_out_of_range: compares the bounds with the list's two ends only
ScoreOutOfRange(min, max) ==
  min > escore[Last(lst)] \/ max < escore[lst[1]]

\* rank_out_of_range
RankOutOfRange(begin, end) == begin > Len(lst) \/ end <= 0

\* fetch_by_rank(begin, end, entries): normalises the indices, then walks
\* the list from the front.  while (end < 0) end += size is end % size.
FetchByRank(begin, end) ==
  LET size == Len(lst)
      b1   == IF begin < 0 THEN begin + size ELSE begin
      e    == IF end < 0 THEN end % size ELSE end
      b2   == IF b1 < 0 THEN 0 ELSE b1
      b    == IF b2 > size THEN size ELSE b2
  IN  IF lst = <<>> \/ b2 > e \/ RankOutOfRange(b, e) THEN <<>>
      ELSE SubSeq(lst, b + 1, IF e + 1 < size THEN e + 1 ELSE size)

\* fetch_by_score(min, max, entries, limit): skips scores below min, stops
\* at the first above max or once limit entries are collected.
RECURSIVE ScanByScore(_, _, _, _, _)
ScanByScore(l, min, max, limit, acc) ==
  IF l = <<>> THEN acc
  ELSE LET s == escore[Head(l)]
       IN  IF s < min THEN ScanByScore(Tail(l), min, max, limit, acc)
           ELSE IF s > max THEN acc
           ELSE IF Len(acc) + 1 >= limit THEN Append(acc, Head(l))
           ELSE ScanByScore(Tail(l), min, max, limit, Append(acc, Head(l)))

FetchByScore(min, max, limit) ==
  IF lst = <<>> \/ ScoreOutOfRange(min, max) THEN <<>>
  ELSE ScanByScore(lst, min, max, IF limit = 0 THEN Len(lst) ELSE limit, <<>>)

\* count_by_score(min, max)
CountByScore(min, max) ==
  IF dict = {} \/ ScoreOutOfRange(min, max) THEN 0
  ELSE Cardinality({i \in 1..Len(lst) :
                      /\ min <= escore[lst[i]] /\ escore[lst[i]] <= max
                      /\ \A j \in 1..i : escore[lst[j]] <= max})

\* rank(key): counts the list entries in front of the key's entry; -1 for
\* the empty optional
Rank(k) ==
  LET n == DictFind(St, k)
  IN  IF n = NoNode THEN -1 ELSE SelectInSeq(lst, LAMBDA m : m = n) - 1

\* size(): _list.size()
Size == Len(lst)

\* score(key): the score of the key's entry in _dict, NoScore for the empty
\* optional
Score(k) == LET n == DictFind(St, k) IN IF n = NoNode THEN NoScore ELSE escore[n]

\* fetch_by_key(keys, entries): the _dict entry of each present key, in the
\* order of keys; a repeated key gives its entry again
FetchByKey(ks) ==
  LET present == SelectSeq(ks, LAMBDA k : DictFind(St, k) # NoNode)
  IN  [i \in DOMAIN present |-> DictFind(St, present[i])]

(***************************************************************************)
(* Properties.                                                             *)
(***************************************************************************)

\* Spec section 3 and 9: every member is linked into _dict once and into
\* _list once, both reach the same live entry, and nothing else is linked.
\* Broken by any insert or erase path that updates one container and not
\* the other (insert's dict refusal, erase(key)'s iterator, erase(entries)).
DictListAgree ==
  /\ IsInjective(lst)
  /\ ToSet(lst) = dict
  /\ dict \subseteq alive

(***************************************************************************)
(* The order the spec gives the list (section 4.6, ordered insertion):   *)
(* ascending score, equal scores in the order they were (re)inserted.     *)
(***************************************************************************)
PlacedAt(n) == SelectInSeq(placed, LAMBDA m : m = n)
ScoreBefore(a, b) ==
  \/ escore[a] < escore[b]
  \/ escore[a] = escore[b] /\ PlacedAt(a) < PlacedAt(b)
ScoreOrder == SortSeq(SetToSeq(dict), ScoreBefore)

\* Spec 4.6 and property 4: after every mutation the list is sorted by
\* score, and an entry whose score is set or incremented lands after the
\* entries of equal score (insert_ordered's strict > scan, and the unlink
\* before relink in update, update_score and update_if_only_exists).
ListInScoreOrder == lst = ScoreOrder

ScoreArgs == (Min(Scores) - 1)..(Max(Scores) + 1)
Limits == 0..2
KeyArgs == BoundedSeq(Keys, 2)

\* the entry of key k as found by walking _list, NoNode if none
ListEntry(k) ==
  IF \E i \in DOMAIN lst : ekey[lst[i]] = k
    THEN lst[CHOOSE i \in DOMAIN lst : ekey[lst[i]] = k]
    ELSE NoNode

\* Spec 4.6 and property 6: the read operations answer from the members,
\* whichever container they read: count_by_score, fetch_by_score and rank
\* read the list (its ends in score_out_of_range, a prefix in the scans, a
\* position in rank) and agree with the members' scores; size() counts the
\* list and is the number of distinct members in the dict; score(key) and
\* fetch_by_key look keys up in the dict and find the entries the list
\* holds for them.
QueriesAgree ==
  /\ Size = Cardinality({ekey[n] : n \in dict})
  /\ \A k \in Keys :
       Score(k) = IF ListEntry(k) = NoNode THEN NoScore ELSE escore[ListEntry(k)]
  /\ \A ks \in KeyArgs :
       FetchByKey(ks) = SelectSeq([i \in DOMAIN ks |-> ListEntry(ks[i])],
                                  LAMBDA n : n # NoNode)
  /\ \A min, max \in ScoreArgs :
       LET inRange == SelectSeq(ScoreOrder,
                                LAMBDA n : min <= escore[n] /\ escore[n] <= max)
       IN  /\ CountByScore(min, max) = Len(inRange)
           /\ \A limit \in Limits :
                FetchByScore(min, max, limit) =
                  IF limit = 0 \/ limit >= Len(inRange) THEN inRange
                  ELSE SubSeq(inRange, 1, limit)
  /\ \A k \in Keys :
       Rank(k) = IF \E n \in dict : ekey[n] = k
                   THEN Cardinality({n \in dict : ScoreBefore(n, DictFind(St, k))})
                   ELSE -1

(***************************************************************************)
(* SsetIndex implements SortedSet: the members are the dict's keys with   *)
(* their entries' scores.                                                  *)
(***************************************************************************)
Abstract == INSTANCE SortedSet WITH
  Absent <- NoScore,
  zset <- [k \in Keys |-> IF DictFind(St, k) = NoNode THEN NoScore
                          ELSE escore[DictFind(St, k)]]

\* Spec 4.6: every operation gives the members it names the scores the
\* ZADD family promises (added only if absent for NX, updated only if
\* present for XX, both for ZADD, old + delta for ZINCRBY), removes the
\* keys erase names, leaves every other member alone, and returns the
\* count or score for exactly those members.
SortedSetSpec == Abstract!Spec

\* Spec 4.6 range_by_rank: negative indices count from the end, begin past
\* the end or begin > end give nothing, end is clamped to size - 1.
RankArgs == -(Len(lst) + 2)..(Len(lst) + 1)
FetchByRankMatchesSpec ==
  \A begin, end \in RankArgs :
    LET size == Len(lst)
        b == IF begin < 0 THEN begin + size ELSE begin
        e == IF end < 0 THEN end + size ELSE end
        b1 == IF b < 0 THEN 0 ELSE b
    IN  FetchByRank(begin, end) =
          IF b1 > e \/ b1 >= size THEN <<>>
          ELSE SubSeq(lst, b1 + 1, IF e < size THEN e + 1 ELSE size)

=============================================================================
