---------------------------- MODULE OpenSstable ----------------------------
(***************************************************************************)
(* open_sstable and table::read_meta of src/store/table/table.cc.          *)
(*                                                                         *)
(* Each fibre of one worker opens one path.  Every .then continuation is  *)
(* one action; between two of them other fibres run and use the same      *)
(* thread-local table cache and block cache.  Any awaited read can fail   *)
(* (read_block rethrows io_exception, handle_exception at the end of the  *)
(* chain turns everything into an io_exception), and a caller can drop    *)
(* the future; both end the fibre at that wait.                            *)
(*                                                                         *)
(* A file is immutable, so its content is fixed in Init: whether it is    *)
(* shorter than a footer, whether the footer decodes, the offset of its   *)
(* index block, and the filter names its metaindex holds.  The caches'    *)
(* classes are not under src/; they are maps as spec section 4.2 says,    *)
(* bounded: an insertion of a new key into a full cache first evicts an   *)
(* entry.  Which entry is least recently used is abstracted: any may go.  *)
(***************************************************************************)
EXTENDS Integers, Sequences, FiniteSets, SequencesExt

CONSTANTS
  Fibres,       \* fibres calling open_sstable
  Paths,        \* file names
  Offsets,      \* block offsets an index handle may hold
  FilterNames,  \* filter policy names, ordered as "filter." + name sorts
  Policies,     \* the values options.filter_policy->name() may have
  NoPolicy,
  FileChoices,  \* the file contents a path may have
  NoTable, NoBlock, NoEntry,
  TableCacheCap, \* entries the table cache holds before it evicts
  BlockCacheCap  \* entries the block cache holds before it evicts

ASSUME FilterNames \subseteq Int
ASSUME TableCacheCap \in Nat \ {0} /\ BlockCacheCap \in Nat \ {0}
ASSUME Policies \subseteq FilterNames \cup {NoPolicy}
ASSUME FileChoices \subseteq [footer : {"short", "badmagic", "ok"},
                              index : Offsets, meta : SUBSET FilterNames]

VARIABLES
  policy,   \* the worker's sstable_options: filter policy name or NoPolicy
  files,    \* files[p]: the content of file p
  pc,       \* pc[f]: the continuation fibre f waits to run
  fpath,    \* fpath[f]: the path fibre f opens
  ftable,   \* ftable[f]: the table fibre f built or was given
  fentry,   \* fentry[f]: the metaindex entry whose filter f is reading
  tables,   \* every sstable constructed, by creation order
  tcache,   \* the table cache: path -> table
  bcache    \* the block cache: handle key -> block

vars == <<policy, files, pc, fpath, ftable, fentry, tables, tcache, bcache>>

Waiting == {"opening", "sizing", "footer", "index", "meta", "filter"}
PC == {"idle", "done", "failed"} \cup Waiting

\* an sstable: its file, its index block (the file and offset it was read
\* from), its filter, and whether read_meta has finished for it
Table == [path : Paths, index : Paths \X Offsets,
          filter : FilterNames \cup {NoEntry}, metaDone : BOOLEAN]

TypeOK ==
  /\ policy \in Policies
  /\ files \in [Paths -> FileChoices]
  /\ pc \in [Fibres -> PC]
  /\ fpath \in [Fibres -> Paths]
  /\ ftable \in [Fibres -> Nat]
  /\ fentry \in [Fibres -> FilterNames \cup {NoEntry}]
  /\ tables \in Seq(Table)
  /\ tcache \in [Paths -> Nat \cup {NoTable}]
  /\ bcache \in [Offsets -> (Paths \X Offsets) \cup {NoBlock}]

Init ==
  /\ policy \in Policies
  /\ files \in [Paths -> FileChoices]
  /\ pc = [f \in Fibres |-> "idle"]
  /\ fpath \in [Fibres -> Paths]
  /\ ftable = [f \in Fibres |-> 0]
  /\ fentry = [f \in Fibres |-> NoEntry]
  /\ tables = <<>>
  /\ tcache = [p \in Paths |-> NoTable]
  /\ bcache = [o \in Offsets |-> NoBlock]

Goto(f, to) == pc' = [pc EXCEPT ![f] = to]

\* the keys cache c holds, none marking an absent key
CachedKeys(c, none) == {k \in DOMAIN c : c[k] # none}

\* the caches cache c may become when v is put under key k: a key already
\* there is replaced; a new key in a cache holding cap entries first
\* evicts one, which only drops the cache's own reference (spec 4.2)
CachePut(c, k, v, none, cap) ==
  IF c[k] # none \/ Cardinality(CachedKeys(c, none)) < cap
    THEN {[c EXCEPT ![k] = v]}
    ELSE {[c EXCEPT ![k] = v, ![old] = none] : old \in CachedKeys(c, none)}

\* get_table_cache().insert(table_instance), then the table is returned
InsertTable(f, id) ==
  /\ tcache' \in CachePut(tcache, fpath[f], id, NoTable, TableCacheCap)
  /\ Goto(f, "done")

\* block cache find_and_create(key, data): the block cached under the key,
\* else data, which is cached.  convert_to_handle_key takes the handle only.
FindAndCreate(key, data) == IF bcache[key] # NoBlock THEN bcache[key] ELSE data

\* the block caches find_and_create(key, data) may leave
CreateBlock(key, data) ==
  CachePut(bcache, key, FindAndCreate(key, data), NoBlock, BlockCacheCap)

\* the metaindex block of file p: its filter entries in key order under one
\* restart point, as the table builder writes a small block
MetaBlock(p) == [keys |-> SetToSortSeq(files[p].meta, <), restarts |-> <<1>>, bad |-> {}]

\* a block_reader over the metaindex block b
Meta(b) == INSTANCE BlockCursor WITH Blocks <- {b}, Targets <- FilterNames,
             NoKey <- NoEntry, NoOff <- NoBlock, MaxScan <- 0, blk <- b,
             nextOff <- NoBlock, curOff <- 1, ckey <- NoEntry, ridx <- 1,
             eofFlag <- FALSE, last <- 0, yielded <- <<>>

\* meta_block_reader->seek("filter." + name), then current(): the entry the
\* cursor is left on, whose value is decoded as the filter's handle.  A
\* seek past every entry leaves the last entry current; an empty metaindex
\* leaves no entry, and decode_from fails.
SeekMeta(p, name) == LET b == MetaBlock(p) IN Meta(b)!SeekPos(Meta(b)!InitPos, name).key

(***************************************************************************)
(* Continuations of open_sstable.                                          *)
(***************************************************************************)
\* open_sstable(fname, opts): open_file_dma is issued
Start(f) ==
  /\ pc[f] = "idle"
  /\ Goto(f, "opening")
  /\ UNCHANGED <<policy, files, fpath, ftable, fentry, tables, tcache, bcache>>

\* fault model: the cache lookup's result is kept even on a miss
FileOpenedKeepsLookup(f) ==
  /\ pc[f] = "opening"
  /\ ftable' = [ftable EXCEPT ![f] = tcache[fpath[f]]]
  /\ Goto(f, IF tcache[fpath[f]] # NoTable THEN "done" ELSE "sizing")
  /\ UNCHANGED <<policy, files, fpath, fentry, tables, tcache, bcache>>

\* fault model: a cache hit returns without handing back the cached table
FileOpenedDropsHit(f) ==
  /\ pc[f] = "opening"
  /\ Goto(f, IF tcache[fpath[f]] # NoTable THEN "done" ELSE "sizing")
  /\ UNCHANGED <<policy, files, fpath, ftable, fentry, tables, tcache, bcache>>

\* the file is open; only now is the table cache consulted
FileOpened(f) ==
  /\ pc[f] = "opening"
  /\ IF tcache[fpath[f]] # NoTable
       THEN /\ ftable' = [ftable EXCEPT ![f] = tcache[fpath[f]]]
            /\ Goto(f, "done")
       ELSE /\ Goto(f, "sizing")
            /\ UNCHANGED ftable
  /\ UNCHANGED <<policy, files, fpath, fentry, tables, tcache, bcache>>

\* file_.size() resolved: too short for a footer fails, else read it
SizeKnown(f) ==
  /\ pc[f] = "sizing"
  /\ Goto(f, IF files[fpath[f]].footer = "short" THEN "failed" ELSE "footer")
  /\ UNCHANGED <<policy, files, fpath, ftable, fentry, tables, tcache, bcache>>

\* the footer bytes arrived: decode_from fails, else the index block is read
FooterRead(f) ==
  /\ pc[f] = "footer"
  /\ Goto(f, IF files[fpath[f]].footer = "badmagic" THEN "failed" ELSE "index")
  /\ UNCHANGED <<policy, files, fpath, ftable, fentry, tables, tcache, bcache>>

\* fault model: the table is cached as soon as it is built, before read_meta
IndexReadInsertsEarly(f) ==
  LET p   == fpath[f]
      off == files[p].index
      blk == FindAndCreate(off, <<p, off>>)
      id  == Len(tables) + 1
  IN  /\ pc[f] = "index"
      /\ bcache' \in CreateBlock(off, <<p, off>>)
      /\ ftable' = [ftable EXCEPT ![f] = id]
      /\ tables' = Append(tables, [path |-> p, index |-> blk, filter |-> NoEntry,
                                   metaDone |-> policy = NoPolicy])
      /\ tcache' \in CachePut(tcache, p, id, NoTable, TableCacheCap)
      /\ Goto(f, IF policy = NoPolicy THEN "done" ELSE "meta")
      /\ UNCHANGED <<policy, files, fpath, fentry>>

\* the index block arrived: it goes through the block cache, the table is
\* built, and read_meta returns at once when there is no filter policy
IndexRead(f) ==
  LET p   == fpath[f]
      off == files[p].index
      blk == FindAndCreate(off, <<p, off>>)
      id  == Len(tables) + 1
  IN  /\ pc[f] = "index"
      /\ bcache' \in CreateBlock(off, <<p, off>>)
      /\ ftable' = [ftable EXCEPT ![f] = id]
      /\ tables' = Append(tables, [path |-> p, index |-> blk, filter |-> NoEntry,
                                   metaDone |-> policy = NoPolicy])
      /\ IF policy = NoPolicy
           THEN InsertTable(f, id)
           ELSE Goto(f, "meta") /\ UNCHANGED tcache
      /\ UNCHANGED <<policy, files, fpath, fentry>>

\* the metaindex block arrived: the entry seek lands on is decoded as the
\* filter's handle without comparing its key; no entry, no filter
MetaRead(f) ==
  LET e  == SeekMeta(fpath[f], policy)
      id == ftable[f]
  IN  /\ pc[f] = "meta"
      /\ fentry' = [fentry EXCEPT ![f] = e]
      /\ IF e # NoEntry
           THEN Goto(f, "filter") /\ UNCHANGED <<tables, tcache>>
           ELSE /\ tables' = [tables EXCEPT ![id].metaDone = TRUE]
                /\ InsertTable(f, id)
      /\ UNCHANGED <<policy, files, fpath, ftable, bcache>>

\* the filter block arrived: the filter_block_reader is installed
FilterRead(f) ==
  LET id == ftable[f]
  IN  /\ pc[f] = "filter"
      /\ tables' = [tables EXCEPT ![id].filter = fentry[f], ![id].metaDone = TRUE]
      /\ InsertTable(f, id)
      /\ UNCHANGED <<policy, files, fpath, ftable, fentry, bcache>>

\* an awaited read throws, or the caller drops the future
Fail(f) ==
  /\ pc[f] \in Waiting
  /\ Goto(f, "failed")
  /\ UNCHANGED <<policy, files, fpath, ftable, fentry, tables, tcache, bcache>>

\* every fibre has returned or failed
Finished ==
  /\ \A f \in Fibres : pc[f] \in {"done", "failed"}
  /\ UNCHANGED vars

Next ==
  \/ \E f \in Fibres :
       \/ Start(f)
       \/ FileOpened(f)
       \/ SizeKnown(f)
       \/ FooterRead(f)
       \/ IndexRead(f)
       \/ MetaRead(f)
       \/ FilterRead(f)
       \/ Fail(f)
  \/ Finished

Spec == Init /\ [][Next]_vars

\* the continuations of fibre f: the reactor runs every continuation whose
\* future is ready, so each is weakly fair; a failed read or a dropped
\* future (Fail) is the environment's choice and is not
Continue(f) ==
  \/ Start(f)
  \/ FileOpened(f)
  \/ SizeKnown(f)
  \/ FooterRead(f)
  \/ IndexRead(f)
  \/ MetaRead(f)
  \/ FilterRead(f)

FairSpec == Spec /\ \A f \in Fibres : WF_vars(Continue(f))

(***************************************************************************)
(* Properties.                                                             *)
(***************************************************************************)

\* Spec 4.3 step 7 and section 5: the table cache only ever holds tables
\* whose read_meta has finished, and never the table of an open that then
\* failed or was dropped.
CacheHoldsOnlyCompleteTables ==
  \A p \in Paths :
    tcache[p] # NoTable =>
      /\ tables[tcache[p]].metaDone
      /\ ~\E f \in Fibres : pc[f] = "failed" /\ ftable[f] = tcache[p]

\* Spec 4.3: every open_sstable eventually fails with io_exception or
\* returns a table of its own path whose read_meta has finished, whether
\* it built that table or took it from the table cache after open_file_dma.
OpenCompletes ==
  \A f \in Fibres :
    <>(\/ pc[f] = "failed"
       \/ /\ pc[f] = "done"
          /\ ftable[f] \in DOMAIN tables
          /\ tables[ftable[f]].path = fpath[f]
          /\ tables[ftable[f]].metaDone)

\* Spec 4.2: concurrent opens of one path are coalesced, so at most one of
\* them is reading the file between its cache miss and its cache insert.
SingleFlight ==
  \A f, g \in Fibres :
    /\ f # g
    /\ fpath[f] = fpath[g]
    /\ pc[f] \in Waiting \ {"opening"}
    => pc[g] \notin Waiting \ {"opening"}

\* Spec 4.3 step 6: the filter installed is the one the metaindex keeps
\* under "filter." + the policy's name, and there is none when that entry
\* is missing.
FilterIsPolicys ==
  \A id \in DOMAIN tables :
    tables[id].metaDone =>
      tables[id].filter =
        IF policy \in files[tables[id].path].meta THEN policy ELSE NoEntry

\* Spec section 3: block-cache keys are unique per file, so a table's index
\* block is the one read from its own file.
IndexBlockIsOwn ==
  \A id \in DOMAIN tables : tables[id].index[1] = tables[id].path

=============================================================================
