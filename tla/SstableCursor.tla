--------------------------- MODULE SstableCursor ---------------------------
(***************************************************************************)
(* sstable_reader of src/store/table/table.cc: a cursor over one table    *)
(* that chains an index-block cursor and a data-block cursor, several of  *)
(* them on one worker sharing the worker's block cache.                   *)
(*                                                                         *)
(* Both inner cursors are block_readers; their calls are the position     *)
(* operators of BlockCursor.  Every inner call returns a ready future, so *)
(* a public call runs without suspending up to the block-cache lookup; a  *)
(* miss awaits read_block, and other cursors run before its continuation. *)
(*                                                                         *)
(* Data block i of a table is at index entry i, whose key is the block's  *)
(* last key and whose value is the block's handle.  A handle is named by  *)
(* its block number: one table, so the offset-only handle key is unique.  *)
(* The cache class is not under src/: find and create are a set of block  *)
(* numbers, as spec section 4.2 says, bounded by BlockCacheCap; creating  *)
(* a new block in a full cache first evicts one (any: the LRU order is    *)
(* abstracted), which drops only the cache's own reference, so a cursor   *)
(* keeps reading the block it holds.                                      *)
(***************************************************************************)
EXTENDS Integers, Sequences, FiniteSets, SequencesExt

CONSTANTS
  Cursors,    \* the sstable_readers open over the table
  Tables,     \* the tables the cursors may read
  Targets,    \* the keys given to seek
  NoKey,      \* the cleared current key of a block cursor
  NoOff,      \* next_entry_offset() of a block cursor not yet positioned
  MaxScan,    \* bound on the keys one iteration loop may read
  BlockCacheCap \* blocks the block cache holds before it evicts

ASSUME BlockCacheCap \in Nat \ {0}

\* a block_reader over block b
Blk(b) == INSTANCE BlockCursor WITH Blocks <- {b}, blk <- b, nextOff <- NoOff,
            curOff <- 1, ckey <- NoKey, ridx <- 1, eofFlag <- FALSE,
            last <- 0, yielded <- <<>>

VARIABLES
  table,      \* the table (_table)
  pc,         \* pc[c]: "idle", or "reading" while read_block is awaited
  pending,    \* pending[c]: the call, its argument and the block being read
  initialized,\* _initialized
  ipos,       \* ipos[c]: the index cursor's position
  dblk,       \* dblk[c]: the block the data cursor reads, 0 before any
  dpos,       \* dpos[c]: the data cursor's position
  bcache,     \* the blocks in the worker's block cache
  last,       \* history: the last public call of each cursor that returned
  yielded     \* history: the keys an iteration loop has read with current()

vars == <<table, pc, pending, initialized, ipos, dblk, dpos, bcache, last, yielded>>

Index == table.index
Data(i) == table.data[i]
BlockIds == DOMAIN table.data

\* the block whose handle the index cursor's current() holds: the value of
\* the entry it last parsed
IndexHandle(S) == CHOOSE i \in BlockIds : Index.keys[i] = S.key

\* the call the data cursor makes on the block_reader made over block i
DataCall(i, call, arg) ==
  CASE call = "seek_to_first" -> Blk(Data(i))!SeekToFirstPos(Blk(Data(i))!InitPos)
    [] call = "seek_to_last"  -> Blk(Data(i))!SeekToLastPos(Blk(Data(i))!InitPos)
    [] call = "seek"          -> Blk(Data(i))!SeekPos(Blk(Data(i))!InitPos, arg)

\* A cursor starts with an index block_reader over the table's index block
\* and no data reader.  The constructor (table.cc:266) sets only _table:
\* nothing under src/ sets _index_block_reader or _reader, so as written
\* every first call dereferences a null index reader.  The model takes the
\* wiring spec 4.4 describes instead.
Init ==
  /\ table \in Tables
  /\ pc = [c \in Cursors |-> "idle"]
  /\ pending = [c \in Cursors |-> [op |-> "none", call |-> "none", arg |-> 0, blk |-> 0]]
  /\ initialized = [c \in Cursors |-> FALSE]
  /\ ipos = [c \in Cursors |-> Blk(Index)!InitPos]
  /\ dblk = [c \in Cursors |-> 0]
  /\ dpos = [c \in Cursors |-> Blk(Index)!InitPos]
  /\ bcache = {}
  /\ last = [c \in Cursors |-> [op |-> "none", arg |-> 0]]
  /\ yielded = [c \in Cursors |-> <<>>]

\* fault model: on a cache hit the data call runs on the old block_reader
AdvanceKeepsReader(c, op, call, arg, ip, dp) ==
  LET h == IndexHandle(ip)
  IN  /\ ipos' = [ipos EXCEPT ![c] = ip]
      /\ initialized' = [initialized EXCEPT ![c] = TRUE]
      /\ IF h \in bcache /\ dblk[c] # 0
           THEN /\ dpos' = [dpos EXCEPT ![c] = DataCall(dblk[c], call, arg)]
                /\ last' = [last EXCEPT ![c] = [op |-> op, arg |-> arg]]
                /\ UNCHANGED <<pc, pending, dblk>>
           ELSE /\ pc' = [pc EXCEPT ![c] = "reading"]
                /\ pending' = [pending EXCEPT ![c] =
                                 [op |-> op, call |-> call, arg |-> arg, blk |-> h]]
                /\ dpos' = [dpos EXCEPT ![c] = dp]
                /\ UNCHANGED <<dblk, last>>
      /\ UNCHANGED <<table, bcache>>

\* the continuation of public call op(arg) once the index cursor is at ip:
\* decode the handle, find the block in the cache and run the data call
\* on a new block_reader over it, or else read the block, the data cursor
\* left at dp meanwhile
AdvanceToDataBlock(c, op, call, arg, ip, dp) ==
  LET h == IndexHandle(ip)
  IN  /\ ipos' = [ipos EXCEPT ![c] = ip]
      /\ initialized' = [initialized EXCEPT ![c] = TRUE]
      /\ IF h \in bcache
           THEN /\ dblk' = [dblk EXCEPT ![c] = h]
                /\ dpos' = [dpos EXCEPT ![c] = DataCall(h, call, arg)]
                /\ last' = [last EXCEPT ![c] = [op |-> op, arg |-> arg]]
                /\ UNCHANGED <<pc, pending>>
           ELSE /\ pc' = [pc EXCEPT ![c] = "reading"]
                /\ pending' = [pending EXCEPT ![c] =
                                 [op |-> op, call |-> call, arg |-> arg, blk |-> h]]
                /\ dpos' = [dpos EXCEPT ![c] = dp]
                /\ UNCHANGED <<dblk, last>>
      /\ UNCHANGED <<table, bcache>>

(***************************************************************************)
(* The public calls of sstable_reader.                                    *)
(***************************************************************************)
SeekToFirst(c) ==
  /\ pc[c] = "idle"
  /\ AdvanceToDataBlock(c, "seek_to_first", "seek_to_first", 0,
                        Blk(Index)!SeekToFirstPos(ipos[c]), dpos[c])
  /\ UNCHANGED yielded

SeekToLast(c) ==
  /\ pc[c] = "idle"
  /\ AdvanceToDataBlock(c, "seek_to_last", "seek_to_last", 0,
                        Blk(Index)!SeekToLastPos(ipos[c]), dpos[c])
  /\ UNCHANGED yielded

Seek(c, t) ==
  /\ pc[c] = "idle"
  /\ AdvanceToDataBlock(c, "seek", "seek", t, Blk(Index)!SeekPos(ipos[c], t),
                        dpos[c])
  /\ UNCHANGED yielded

\* the caches create(b) may leave: b added, after evicting another block
\* when the cache is full
CreateBlock(b) ==
  IF b \in bcache \/ Cardinality(bcache) < BlockCacheCap THEN {bcache \cup {b}}
  ELSE {(bcache \ {old}) \cup {b} : old \in bcache}

\* read_block resolved: the block is created in the cache and the data call
\* runs on a new block_reader over it
ReadDone(c) ==
  LET p == pending[c]
  IN  /\ pc[c] = "reading"
      /\ bcache' \in CreateBlock(p.blk)
      /\ dblk' = [dblk EXCEPT ![c] = p.blk]
      /\ dpos' = [dpos EXCEPT ![c] = DataCall(p.blk, p.call, p.arg)]
      /\ pc' = [pc EXCEPT ![c] = "idle"]
      /\ last' = [last EXCEPT ![c] = [op |-> p.op, arg |-> p.arg]]
      /\ UNCHANGED <<table, pending, initialized, ipos, yielded>>

\* read_block threw io_exception: the call fails with the index cursor
\* already moved and the old data cursor kept
ReadFailed(c) ==
  /\ pc[c] = "reading"
  /\ pc' = [pc EXCEPT ![c] = "idle"]
  /\ last' = [last EXCEPT ![c] = [op |-> "failed", arg |-> 0]]
  /\ UNCHANGED <<table, pending, initialized, ipos, dblk, dpos, bcache, yielded>>

\* next(): advance the data cursor; only when its current() is empty is
\* the index cursor advanced and the next block positioned at its first entry
NextBody(c) ==
  LET d == Blk(Data(dblk[c]))!NextPos(dpos[c])
  IN  /\ pc[c] = "idle"
      /\ initialized[c]
      \* a first call whose read failed leaves _data_block_reader null, and
      \* next() would dereference it
      /\ dblk[c] # 0
      /\ IF d.key = NoKey
           THEN AdvanceToDataBlock(c, "next", "seek_to_first", 0,
                                   Blk(Index)!NextPos(ipos[c]), d)
           ELSE /\ dpos' = [dpos EXCEPT ![c] = d]
                /\ last' = [last EXCEPT ![c] = [op |-> "next", arg |-> 0]]
                /\ UNCHANGED <<table, pc, pending, initialized, ipos, dblk, bcache>>

NextEntry(c) == NextBody(c) /\ UNCHANGED yielded

\* eof(): both inner cursors are at their end
Eof(c) == Blk(Index)!PosEof(ipos[c]) /\ Blk(Data(dblk[c]))!PosEof(dpos[c])

\* current(): the data cursor's current key
Current(c) == dpos[c].key

Next ==
  \E c \in Cursors :
    \/ SeekToFirst(c)
    \/ SeekToLast(c)
    \/ \E t \in Targets : Seek(c, t)
    \/ ReadDone(c)
    \/ ReadFailed(c)
    \/ NextEntry(c)

Spec == Init /\ [][Next]_vars

(***************************************************************************)
(* The iteration loop of spec section 7 item 2 on one cursor:             *)
(*   seek_to_first(); while (!eof()) { current(); next(); }                *)
(* The caller runs the loop to its end and reads complete, so the loop's  *)
(* steps are weakly fair; reads do not fail here.                          *)
(***************************************************************************)
ScanStep(c) ==
  \/ /\ last[c].op = "none"
     /\ SeekToFirst(c)
  \/ ReadDone(c)
  \/ /\ last[c].op # "none"
     /\ pc[c] = "idle"
     /\ dblk[c] # 0
     /\ ~Eof(c)
     /\ Len(yielded[c]) < MaxScan
     /\ yielded' = [yielded EXCEPT ![c] = Append(@, Current(c))]
     /\ NextBody(c)

ScanSpec == Init /\ [][\E c \in Cursors : ScanStep(c)]_vars
                 /\ \A c \in Cursors : WF_vars(ScanStep(c))

(***************************************************************************)
(* Properties.                                                             *)
(***************************************************************************)
\* the table's keys in order, and whether no data block is corrupt
AllKeys == FlattenSeq([i \in BlockIds |-> Data(i).keys])
Intact == \A i \in BlockIds : Data(i).bad = {}

\* where spec 4.4 says a positioning call leaves the cursor: the position
\* in AllKeys, 0 for exhausted
ExpectedAt(call) ==
  LET lb == {i \in DOMAIN AllKeys : AllKeys[i] >= call.arg}
  IN  CASE call.op = "seek_to_first" -> 1
        [] call.op = "seek_to_last"  -> Len(AllKeys)
        [] call.op = "seek"          -> IF lb = {} THEN 0
                                        ELSE CHOOSE i \in lb : \A j \in lb : i <= j

\* Spec 4.4: whatever other cursors do to the shared block cache meanwhile,
\* once seek_to_first, seek_to_last or seek(t) of a cursor over an intact
\* table returns, current() is the table's first key, its last key or its
\* first key >= t (through the index entry's upper bound and the data
\* block's own seek), and eof() holds exactly when there is none.
PositionAgrees ==
  \A c \in Cursors :
    (Intact /\ pc[c] = "idle"
       /\ last[c].op \in {"seek_to_first", "seek_to_last", "seek"}) =>
      IF ExpectedAt(last[c]) = 0 THEN Eof(c)
      ELSE ~Eof(c) /\ Current(c) = AllKeys[ExpectedAt(last[c])]

\* Spec section 7 item 2: over an intact table the iteration loop ends,
\* having read every key of every data block once, in order.
ScanYieldsTable ==
  \A c \in Cursors :
    <>(dblk[c] # 0 /\ pc[c] = "idle" /\ Eof(c) /\ yielded[c] = AllKeys)

====
