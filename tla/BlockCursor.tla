---------------------------- MODULE BlockCursor ----------------------------
(***************************************************************************)
(* block_reader of src/store/table/table.cc: a cursor over one immutable  *)
(* block of prefix-compressed entries with a restart-point directory.     *)
(*                                                                         *)
(* Entry i of a block of N entries sits at offset i; the restart array    *)
(* starts at offset N + 1 (restarts_), so an offset >= N + 1 is past the  *)
(* last entry.  The restart directory holds entry offsets, the first of   *)
(* them 1 (restart[0] = 0 in the code).  An entry in blk.bad is one that  *)
(* decode_entry rejects, or whose shared length exceeds the key it would  *)
(* extend: both make parse_next_key return false.  Every call completes   *)
(* without suspending (it returns a ready future), so each is one action.  *)
(*                                                                         *)
(* A corrupt block may declare no restart point at all.  Restart indices   *)
(* are uint32_t; they are kept at width 16 (Word), as TLC's integers are   *)
(* 32-bit signed, and the wraps at 0 - 1 and at left + right + 1 happen    *)
(* at any width alike.  get_restart_point's assert is taken compiled out  *)
(* (NDEBUG): an index past the directory reads the count word after it.   *)
(***************************************************************************)
EXTENDS Integers, Sequences, FiniteSets

CONSTANTS
  Blocks,     \* the blocks a cursor may be created over
  Targets,    \* the keys given to seek
  NoKey,      \* the cleared current key
  NoOff,      \* next_entry_offset() before any positioning call
  MaxScan     \* bound on the entries one iteration loop may yield

ASSUME \A b \in Blocks :
  /\ b.keys \in Seq(Int)
  /\ b.restarts \in Seq(1..Len(b.keys) + 1)
  /\ Len(b.restarts) >= 1 => b.restarts[1] = 1
  /\ b.bad \subseteq 1..Len(b.keys)

VARIABLES
  blk,        \* the block (_block)
  nextOff,    \* next_entry_offset(): the end of _value_view
  curOff,     \* _current_offset
  ckey,       \* _current.key()
  ridx,       \* _restart_index + 1
  eofFlag,    \* _eof
  last,       \* history: the last call, its argument and the offset it began at
  yielded     \* history: the keys an iteration loop has read with current()

vars == <<blk, nextOff, curOff, ckey, ridx, eofFlag, last, yielded>>

End == Len(blk.keys) + 1          \* restarts_
NumRestarts == Len(blk.restarts)  \* _num_restarts

\* a cursor's position as a record: next_entry_offset(), _current_offset,
\* the current key, _restart_index + 1 and _eof
Position == [next : Int \cup {NoOff}, cur : Int, key : Int \cup {NoKey},
             ridx : Int, eof : BOOLEAN, hung : BOOLEAN]

\* the position of a cursor just constructed; hung marks a call that never
\* returns
InitPos == [next |-> NoOff, cur |-> 1, key |-> NoKey, ridx |-> 1, eof |-> FALSE,
            hung |-> FALSE]

\* fault model: the end test is off by one
PosEofStrict(S) == S.cur > End \/ S.eof

\* eof(): _current_offset >= restarts_ || _eof
PosEof(S) == S.cur >= End \/ S.eof

\* this cursor's position
Pos == [next |-> nextOff, cur |-> curOff, key |-> ckey, ridx |-> ridx, eof |-> eofFlag,
        hung |-> FALSE]

Eof == PosEof(Pos)

Init ==
  /\ blk \in Blocks
  /\ nextOff = InitPos.next
  /\ curOff = InitPos.cur
  /\ ckey = InitPos.key
  /\ ridx = InitPos.ridx
  /\ eofFlag = InitPos.eof
  /\ last = [op |-> "none", arg |-> 0, from |-> 1]
  /\ yielded = <<>>

\* uint32_t restart indices, at width 16
Word == 2^16

\* get_restart_point(index), 0-based: past the directory it reads the count
\* word, reached only as index 0 of a block without restarts, where the
\* count 0 is the offset of the first entry
RestartPoint(i) == IF i < NumRestarts THEN blk.restarts[i + 1] ELSE 1

\* seek_to_restart_point(index): clear the key, start before that restart
SeekToRestartPoint(S, i) ==
  [S EXCEPT !.key = NoKey, !.ridx = i, !.next = RestartPoint(i - 1)]

\* the restart index moved forward over every restart point before c
AdvanceRestart(r, c) ==
  LET over == {j \in r + 1..NumRestarts : blk.restarts[j] < c}
  IN  IF over = {} THEN r ELSE CHOOSE j \in over : \A o \in over : j >= o

\* parse_next_key(): [st |-> the new position, ok |-> its result]
ParseNextKey(S) ==
  LET c == S.next
  IN  IF c >= End
        THEN [st |-> [S EXCEPT !.cur = End, !.ridx = NumRestarts + 1], ok |-> FALSE]
      ELSE IF c \in blk.bad
        THEN [st |-> [S EXCEPT !.cur = c], ok |-> FALSE]
      ELSE [st |-> [S EXCEPT !.cur = c, !.next = c + 1, !.key = blk.keys[c],
                              !.ridx = AdvanceRestart(S.ridx, c)],
            ok |-> TRUE]

\* seek_to_last's loop: parse while entries remain before the restarts
RECURSIVE ParseToLast(_)
ParseToLast(S) ==
  LET r == ParseNextKey(S)
  IN  IF r.ok /\ r.st.next < End THEN ParseToLast(r.st) ELSE r.st

\* what the binary search returns when a probed restart entry is bad, and
\* when its bounds stop moving, so that the loop never ends
CorruptRestart == -1
SearchHangs == -2

\* seek's binary search over restart indices l..r (0-based, uint32_t): the
\* last restart whose key is below t
RECURSIVE RestartSearch(_, _, _)
RestartSearch(l, r, t) ==
  IF l >= r THEN l
  ELSE LET mid == ((l + r + 1) % Word) \div 2
           off == RestartPoint(mid)
           lr  == IF off < End /\ blk.keys[off] < t THEN <<mid, r>>
                  ELSE <<l, (mid + Word - 1) % Word>>
       IN  IF off >= End \/ off \in blk.bad THEN CorruptRestart
           ELSE IF lr = <<l, r>> THEN SearchHangs
           ELSE RestartSearch(lr[1], lr[2], t)

\* fault model: the scan also steps over a key equal to the target
RECURSIVE ScanToPast(_, _)
ScanToPast(S, t) ==
  LET r == ParseNextKey(S)
  IN  IF ~r.ok \/ r.st.key > t THEN r.st ELSE ScanToPast(r.st, t)

\* seek's linear scan: parse until the key is at least t or parsing fails
RECURSIVE ScanTo(_, _)
ScanTo(S, t) ==
  LET r == ParseNextKey(S)
  IN  IF ~r.ok \/ r.st.key >= t THEN r.st ELSE ScanTo(r.st, t)

(***************************************************************************)
(* The public calls of block_reader, as the position each one leaves.     *)
(***************************************************************************)
SeekToFirstPos(S) == ParseNextKey(SeekToRestartPoint(S, 1)).st

SeekToLastPos(S) == ParseToLast(SeekToRestartPoint(S, NumRestarts))

\* a corrupt restart entry sets _eof and leaves the position alone
SeekPos(S, t) ==
  LET left == RestartSearch(0, (NumRestarts + Word - 1) % Word, t)
  IN  CASE left = CorruptRestart -> [S EXCEPT !.eof = TRUE]
        [] left = SearchHangs    -> [S EXCEPT !.hung = TRUE]
        [] OTHER                 -> ScanTo(SeekToRestartPoint(S, left + 1), t)

NextPos(S) == ParseNextKey(S).st

\* the cursor moves to position S after call op(arg); a call that never
\* returns holds the worker, and no call runs after it
MoveTo(S, op, arg) ==
  /\ last.op # "hung"
  /\ IF S.hung
       THEN /\ last' = [op |-> "hung", arg |-> arg, from |-> curOff]
            /\ UNCHANGED <<nextOff, curOff, ckey, ridx, eofFlag>>
       ELSE /\ nextOff' = S.next
            /\ curOff' = S.cur
            /\ ckey' = S.key
            /\ ridx' = S.ridx
            /\ eofFlag' = S.eof
            /\ last' = [op |-> op, arg |-> arg, from |-> curOff]
  /\ UNCHANGED blk

SeekToFirst == MoveTo(SeekToFirstPos(Pos), "seek_to_first", 0) /\ UNCHANGED yielded

SeekToLast == MoveTo(SeekToLastPos(Pos), "seek_to_last", 0) /\ UNCHANGED yielded

Seek(t) == MoveTo(SeekPos(Pos, t), "seek", t) /\ UNCHANGED yielded

\* next(); the cursor has been positioned (its creators always seek first)
NextBody ==
  /\ nextOff # NoOff
  /\ MoveTo(NextPos(Pos), "next", 0)

NextEntry == NextBody /\ UNCHANGED yielded

Next ==
  \/ SeekToFirst
  \/ SeekToLast
  \/ \E t \in Targets : Seek(t)
  \/ NextEntry

Spec == Init /\ [][Next]_vars

(***************************************************************************)
(* The iteration loop of spec section 7 item 2, run over one block:       *)
(*   seek_to_first(); while (!eof()) { current(); next(); }                *)
(* The caller runs the loop to its end, so the loop step is weakly fair.  *)
(***************************************************************************)
LoopStep ==
  /\ last.op # "none"
  /\ ~Eof
  /\ Len(yielded) < MaxScan
  /\ yielded' = Append(yielded, ckey)
  /\ NextBody

ScanStep ==
  \/ /\ last.op = "none"
     /\ SeekToFirst
  \/ LoopStep

ScanSpec == Init /\ [][ScanStep]_vars /\ WF_vars(ScanStep)

\* the same loop over a key range: it starts with seek_to_first or seek(t)
RangeScanStep ==
  \/ /\ last.op = "none"
     /\ \/ SeekToFirst
        \/ \E t \in Targets : Seek(t)
  \/ LoopStep

RangeScanSpec == Init /\ [][RangeScanStep]_vars /\ WF_vars(RangeScanStep)

(***************************************************************************)
(* Properties.                                                             *)
(***************************************************************************)
\* the abstract cursor over the block's keys: unpositioned until the first
\* call, past the end when eof() holds, else at the current entry
Abstract == INSTANCE Cursor WITH
  Contents <- {b.keys : b \in Blocks},
  keys <- blk.keys,
  at <- IF nextOff = NoOff THEN 0 ELSE IF Eof THEN End ELSE curOff,
  cur <- ckey,
  call <- [op |-> last.op, arg |-> last.arg]

\* Spec 4.1: on intact blocks block_reader implements the abstract cursor.
\* Every seek_to_first, seek_to_last, seek(t) (through the restart binary
\* search and the linear scan) and next leaves it on the first entry, the
\* last, the first key >= t, or the following entry; eof() holds exactly
\* when there is none; and current() is that entry's key.
CursorSpec == Abstract!Spec

\* Spec section 7 item 2 for one block: the loop seek_to_first; while
\* !eof: current; next ends, having read every key once, in order.
ScanYieldsBlock == <>(Eof /\ yielded = blk.keys)

\* Spec section 7: a corrupt block ends its cursor, so the iteration loop
\* over it terminates, whatever call starts it: an undecodable entry or a
\* block declaring no restart point must not keep next() or seek from
\* reaching eof.
ScanEnds == <>Eof

====
