-------------------------- MODULE CombinedCursor --------------------------
(***************************************************************************)
(* combined_sstables_reader of src/store/table/table.cc: a merge over one *)
(* sstable cursor per table.                                               *)
(*                                                                         *)
(* Each call fans out with parallel_for_each, but the lambdas drop the    *)
(* future of the sub-cursor call they make, so parallel_for_each resolves *)
(* at once and find_smallest_one runs before any sub-call that awaits a   *)
(* block read has finished.  A sub-call finishes in the same step when    *)
(* its block is cached, and in a later SubDone step when it is read.      *)
(*                                                                         *)
(* The sub-cursors, sstable_readers in the code, are taken to keep the    *)
(* contract of spec 4.4, the abstract Cursor module (so that the merge's  *)
(* own behaviour shows; their next() does not keep it, see SstableCursor): *)
(* a position in the table's keys,                                         *)
(* Len + 1 when exhausted, where current() still returns the last key as  *)
(* a block_reader does.  Position 0 is a sub-cursor never positioned,     *)
(* whose current() dereferences a null data reader.  A sub-cursor's       *)
(* unfinished calls finish in the order they were made.                    *)
(***************************************************************************)
EXTENDS Integers, Sequences, FiniteSets

CONSTANTS
  TableSets,   \* the tuples of tables the cursor may merge: key sequences
  Targets,     \* the keys given to seek
  MaxPending   \* bound on the unfinished calls of one sub-cursor

VARIABLES
  tabs,        \* tabs[i]: the keys of table i (_sstables)
  spos,        \* spos[i]: the position of sub-cursor i
  pend,        \* pend[i]: the calls of sub-cursor i not yet finished
  current,     \* _current: a sub-cursor, 0 for nullptr
  eofFlag,     \* _eof
  last         \* history: the last call of the merge

vars == <<tabs, spos, pend, current, eofFlag, last>>

Subs == DOMAIN tabs

\* the abstract cursor's position operators
Sub == INSTANCE Cursor WITH Contents <- {}, NoKey <- 0, keys <- <<>>, at <- 0,
         cur <- 0, call <- 0

\* the position sub-cursor i moves to when call c finishes there
SubResult(i, c, p) == Sub!Step(tabs[i], c.op, c.arg, p)

\* current() of sub-cursor i at position p: its key, the last one once
\* exhausted
SubKey(i, p) == tabs[i][IF p > Len(tabs[i]) THEN Len(tabs[i]) ELSE p]

\* find_smallest_one: the first sub-cursor whose current key is below every
\* earlier one's (strict <, so ties go to the lower index)
RECURSIVE Smallest(_, _, _)
Smallest(pos, i, best) ==
  IF i > Len(tabs) THEN best
  ELSE Smallest(pos, i + 1,
                IF SubKey(i, pos[i]) < SubKey(best, pos[best]) THEN i ELSE best)

FindSmallestOne(pos) == Smallest(pos, 2, 1)

Init ==
  /\ tabs \in TableSets
  /\ spos = [i \in Subs |-> 0]
  /\ pend = [i \in Subs |-> <<>>]
  /\ current = 0
  /\ eofFlag = FALSE
  /\ last = [op |-> "none", arg |-> 0]

\* a public call: sub-call c is made on the sub-cursors in called; those in
\* hits, with nothing unfinished, finish now, the others later; then
\* find_smallest_one runs on the positions as they are
Call(c, called, hits) ==
  LET pos == [i \in Subs |-> IF i \in hits THEN SubResult(i, c, spos[i]) ELSE spos[i]]
  IN  /\ hits \subseteq {i \in called : pend[i] = <<>>}
      /\ \A i \in called \ hits : Len(pend[i]) < MaxPending
      \* find_smallest_one reads current() of every sub-cursor: one never
      \* positioned has no data reader, and the process does not survive it
      /\ \A i \in Subs : pos[i] # 0
      /\ spos' = pos
      /\ pend' = [i \in Subs |-> IF i \in called \ hits THEN Append(pend[i], c)
                                 ELSE pend[i]]
      /\ current' = FindSmallestOne(pos)
      /\ eofFlag' = eofFlag
      /\ last' = c
      /\ UNCHANGED tabs

SeekToFirst == \E h \in SUBSET Subs : Call([op |-> "seek_to_first", arg |-> 0], Subs, h)

SeekToLast == \E h \in SUBSET Subs : Call([op |-> "seek_to_last", arg |-> 0], Subs, h)

Seek(t) == \E h \in SUBSET Subs : Call([op |-> "seek", arg |-> t], Subs, h)

\* next(): only the sub-cursor that is _current is advanced
NextEntry ==
  /\ current # 0
  /\ \E h \in SUBSET {current} : Call([op |-> "next", arg |-> 0], {current}, h)

\* a sub-cursor's oldest unfinished call finishes (its block read resolved)
SubDone(i) ==
  /\ pend[i] # <<>>
  /\ spos' = [spos EXCEPT ![i] = SubResult(i, Head(pend[i]), spos[i])]
  /\ pend' = [pend EXCEPT ![i] = Tail(@)]
  /\ UNCHANGED <<tabs, current, eofFlag, last>>

\* eof(): all_eof starts false and is only and-ed, so only _eof counts
Eof == eofFlag

Next ==
  \/ SeekToFirst
  \/ SeekToLast
  \/ \E t \in Targets : Seek(t)
  \/ NextEntry
  \/ \E i \in Subs : SubDone(i)

Spec == Init /\ [][Next]_vars

(***************************************************************************)
(* Properties.                                                             *)
(***************************************************************************)
AllKeys == UNION {{tabs[i][j] : j \in DOMAIN tabs[i]} : i \in Subs}

\* Spec 4.5: once every sub-cursor has finished seek_to_first or seek(t),
\* _current is the sub-cursor whose key is globally smallest, so current()
\* is the least key >= t of all the tables.
CurrentIsSmallest ==
  (last.op \in {"seek_to_first", "seek"} /\ \A i \in Subs : pend[i] = <<>>) =>
    LET lb == {k \in AllKeys : k >= last.arg}
    IN  lb # {} => SubKey(current, spos[current]) = CHOOSE k \in lb : \A o \in lb : k <= o

====
