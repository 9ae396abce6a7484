# TLA+ models of the pedis table read path and sorted-set index

This directory holds TLA+ models of the two subsystems under `src/`:

- `src/structures/sset_lsa.hh`: `redis::sset_lsa`, the in-memory sorted-set
  index behind the ZADD family of commands;
- `src/store/table/table.cc`: the SSTable read core. It opens tables
  (`open_sstable`, `read_meta`), walks blocks (`block_reader`), chains
  index and data blocks (`sstable_reader`) and merges tables
  (`combined_sstables_reader`), with a thread-local table cache and block cache.

`PROJECT.json` lists the components, the runs, the mutants, the map from every
definition to the source lines it translates, the findings and the hazards.

## Inventory

### Sorted-set index (`sset_lsa`)

State. Each member is an `sset_entry` (key, key hash, score) allocated from the
LSA allocator. It is linked into two intrusive containers:

- `_dict`, a `boost::intrusive::set` ordered by key (bytewise `sset_entry::compare`);
- `_list`, a `boost::intrusive::list` ordered by score.

Operations that change state:

- `insert(entry)`;
- `insert_if_not_exists` (ZADD NX);
- `update_if_only_exists` (ZADD XX);
- `insert_or_update(members)` (ZADD);
- `insert_or_update(key, delta)` (ZINCRBY);
- `update_score`;
- `erase(entries)`, `erase(keys)` and `erase(key)`;
- `flush_all`, called by the destructor.

The private helpers are `insert_ordered`, `update`, `score_out_of_range` and
`rank_out_of_range`.

Reads: `fetch_by_rank`, `fetch_by_score`, `fetch_by_key`, `count_by_score`,
`rank`, `score`, `size`, `empty`.

Interaction. It is single-threaded and owned by one worker. The bulk
operations iterate a `std::unordered_map`, and its iteration order is
unspecified. The containers are intrusive, so every mutation must keep both
of them consistent by hand.

What makes it correct:

- every member is in the dict once and in the list once, as the same live
  entry;
- the list is in score order, and equal scores are in (re)insertion order;
- the range and count queries answer from the members, even though they read
  only the list;
- the returned counts and ZINCRBY scores match the ZADD semantics.

Hard parts:

- an operation that updates one container and not the other;
- a score changed before or after the entry is unlinked;
- ties between equal scores;
- index normalisation at the boundaries: negative ranks, 0, and past the end;
- NaN scores.

### SSTable read core (`table.cc`)

- **open_sstable / read_meta.** Opens the file and then consults the table
  cache, keyed by path. It reads the size and the footer, then the index block,
  then the filter through the metaindex if a policy is set. Only then does it
  insert into the table cache. Every step is an asynchronous read that can
  fail. Correct means: a table in the cache is fully opened, failures insert
  nothing, and concurrent opens of one path do one open (single flight, spec
  4.2). The filter installed must be the policy's own.
- **block_reader.** Its state is the byte offset, the current key (prefix
  compressed), the restart index and an `_eof` flag. It has `seek_to_first`,
  `seek_to_last`, `seek` (a binary search over restart points followed by a
  linear scan), `next`, `current` and `eof`. Correct means: `seek(k)` lands on
  the first key that is at least `k`, iteration yields every entry once, and
  corruption ends the cursor.
- **sstable_reader.** It holds an index-block cursor, a data-block cursor and
  the table. Each positioning call decodes a block handle, then does a cache
  `find`, and on a miss a `read_block` and then a cache `create`. That is an
  await between the lookup and the fill. Correct means: iteration crosses data
  blocks and yields every key of the table in order. A block is read at most
  once while it is in flight.
- **combined_sstables_reader.** It fans a call out to its sub-cursors with
  `parallel_for_each`, then picks the smallest current key. Correct means: it
  yields the sorted union of the tables and reaches `eof` when every
  sub-cursor is exhausted.
- **caches.** These are per-worker LRU maps. The classes are not under
  `src/`, so their contract is taken from spec 4.2. A cache is bounded, and
  inserting a new key into a full cache first evicts an entry. Eviction
  drops only the cache's own reference. Tables and blocks are immutable and
  every reader holds its own reference, so an eviction cannot change what a
  reader returns. The runs reach evictions to show that they do not disturb
  the other steps, and no property is stated about eviction itself.

The format layer (footer, block handle, varints) lives in headers that are not
in this snapshot.

Concurrency is cooperative (seastar futures) on one worker thread. Only the
reads suspend. Between two continuations, other fibres of the same worker run
and can touch the shared caches. That interleaving is the concurrency the
table models explore.

## Modules

| Module | Models | Status |
|---|---|---|
| `SortedSet` | abstract sorted set: a map key -> score with ZADD-family returns | done |
| `SsetIndex` | `sset_lsa`: entries, dict, list, allocator; one action per mutating operation; reads as operators | done |
| `MC_SsetIndex` | TLC instance: keys 1..3, scores 0..1, nodes 1..3 | done |
| `Cursor` | abstract cursor of spec 4.1/4.4: where seek_to_first, seek_to_last, seek(t) and next leave a cursor over sorted keys | done |
| `BlockCursor` | `block_reader` over a block of entries with restart points; every public call an action, the binary search and scans as operators | done |
| `MC_BlockCursor` | TLC instance: every block of up to 5 keys from 1..6 with every restart directory, intact or with one bad entry, and blocks of up to 2 keys with no restart point; seek targets 0..7 | done |
| `OpenSstable` | `open_sstable`/`read_meta` as per-fibre steps against a shared table cache and block cache, with failing reads | done |
| `MC_OpenSstable` | TLC instance: 2 fibres, 2 paths, index offsets {1,2}, filter names {1,2}, policy 1 or none | done |
| `SstableCursor` | `sstable_reader`: an index and a data `BlockCursor` per cursor, several cursors sharing the block cache, reads that may fail | done |
| `MC_SstableCursor` | TLC instance: 2 cursors, every table of up to 3 keys from 1..3 in 1 to 3 data blocks, intact or with one bad first entry | done |
| `CombinedCursor` | `combined_sstables_reader`: the fan-out with its futures dropped, `find_smallest_one`, sub-calls finishing later | done |
| `MC_CombinedCursor` | TLC instance: two tables of 1 to 3 keys from 1..4, seek targets 0..5, up to 2 unfinished calls per sub-cursor | done |

### SsetIndex: how the model corresponds to the code

- An entry is a node in `Nodes`. Its fields are `ekey` and `escore`, and
  `alive` is the set of nodes that have been constructed and not yet
  disposed.
- `dict` is the set of nodes linked into `_dict`. `lst` is `_list`, from front
  to back.
- Keys are integers. Their `<` stands for the bytewise order of
  `sset_entry::compare`. Scores are small integers standing for the doubles.
- Each public mutating method is one action, because nothing in it suspends.
  Its body is written as functions on a record `S`: `DictFind`, `Construct`,
  `Destroy`, `ListErase`, `InsertOrdered`, `Update` and `Insert` mirror the
  container calls, and the bulk operations fold a per-member step over the
  members.
- The members are taken in every order (`Orders`), because the
  `unordered_map` order is unspecified.
- `ret` records the operation and the value it returned.
- The reads (`FetchByRank`, `FetchByScore`, `CountByScore`, `Rank`, `Size`,
  `Score`, `FetchByKey`) are operators over the current state.
- `placed` is a history variable. It holds the order in which
  `insert_ordered` last linked each entry, and the tie-order property is stated
  with it.
- `erase(const bytes&)` is kept out of `Next`. It is in `NextWithEraseKey`,
  because it breaks the structure (see the findings). Erasing an absent key
  there erases `_dict.end()`, which is undefined, so that action takes the key
  present.
- `insert(entry)` is public. With `CallerChecksAbsent = TRUE` the model
  assumes that callers pass only absent keys, which is what every caller in
  this file does. With it set to FALSE, TLC finds `DictListAgree` violated: the
  list gains a second entry for the key, and `insert` then returns false
  (`sset_lsa.hh:159`). No run is kept for this, because no caller reaches it.
- `flush_all` is the action `FlushAll`: `_list.clear_and_dispose` empties
  `lst` and destroys every node in it, and `dict` is left as it is. Its only
  caller is `~sset_lsa`, so it is kept out of `Next` and is the last step of
  `SpecWithFlushAll`.

### OpenSstable: how the model corresponds to the code

- Each fibre opens one path. `pc[f]` names the continuation it waits for:
  `opening` (open_file_dma), `sizing` (size), `footer`, `index`,
  `meta` (metaindex block) and `filter`. Each continuation is one action,
  because other fibres run only at these waits.
- A file is immutable, so `files[p]` is chosen in Init: too short for a footer,
  a footer that does not decode, or a good footer with an index-block offset
  and the filter names its metaindex holds.
- `tcache` maps a path to a table and `bcache` maps a block-cache key to a
  block. A block is the pair (file, offset) it was read from.
  `convert_to_handle_key` takes only the handle, so `bcache` is keyed by
  offset.
- `CachePut` is an insertion into either cache. A key already cached is
  replaced. A new key in a cache that holds `TableCacheCap` (or
  `BlockCacheCap`) entries first evicts one. Which entry LRU picks is
  abstracted, so any cached entry may be evicted. Table-cache `insert` and
  block-cache `find_and_create` (`CreateBlock`) go through it.
- `tables` is every `sstable` built, with its index block, its filter, and
  whether `read_meta` finished.
- `Fail` is an awaited read that throws, or a caller that drops the future.
  Either way `handle_exception` ends the fibre.
- `SeekMeta` composes with `BlockCursor`: `Meta(b)` instantiates it over the
  metaindex block `MetaBlock(p)` (the file's filter entries in key order, one
  restart point), and the entry `read_meta` decodes is the key the cursor holds
  after `SeekPos`. A seek past every entry therefore leaves the last entry
  current, as `block_reader` does, and only an empty metaindex gives no filter.
  Filter names are integers whose order stands for the order of
  `"filter." + name`.
- `FairSpec` adds weak fairness on each fibre's continuations (`Continue(f)`).
  The reactor runs every continuation whose future is ready. `Fail` is left
  unfair, because a read failing or a caller dropping the future is the
  environment's choice.

### BlockCursor: how the model corresponds to the code

- The block is chosen in Init. Entry i sits at offset i, and `End = N + 1`
  stands for `restarts_`. The restart directory holds entry offsets and
  starts at 1.
- `blk.bad` is the set of entries that `parse_next_key` rejects: ones
  `decode_entry` cannot decode, or ones whose shared length is longer than
  the key.
- Prefix decompression is abstracted away: a good entry yields its key.
- `nextOff` is `next_entry_offset()`, `curOff` is `_current_offset`, `ckey` is
  the current key (`NoKey` once it is cleared), and `ridx` is
  `_restart_index + 1`. `eofFlag` is `_eof`.
- The private helpers are operators on a position record:
  `SeekToRestartPoint`, `ParseNextKey` (including the restart-index loop
  `AdvanceRestart`), `ParseToLast`, `RestartSearch` and `ScanTo`.
- The four public calls are the actions. None of them suspends.
- `ScanStep` is the caller's loop `seek_to_first; while (!eof()) { current();
  next(); }`. It is weakly fair, because a caller that iterates keeps calling
  `next`. `MaxScan` (one more than the largest block) bounds the keys the loop
  may read. Reaching it means the loop is not ending. `RangeScanStep` is the
  same loop started by `seek_to_first` or `seek(t)`.
- Restart indices are `uint32_t`. The model does their arithmetic modulo
  `Word = 2^16`, because TLC's integers are 32-bit signed. The two wraps that
  matter, `0 - 1` and `left + right + 1`, behave the same at any width.
  `RestartSearch` is 0-based like the code, and it returns `SearchHangs` when
  an iteration leaves its bounds unchanged. The loop is deterministic, so
  that means it never ends.
- `RestartPoint` is `get_restart_point`. Its `assert(index < _num_restarts)`
  is taken as compiled out (an NDEBUG build). An index past the directory then
  reads the count word that follows the directory. This happens only at
  index 0 of a block without restarts, where the count is 0, the offset of
  the first entry. With assertions compiled in, any call on such a block
  aborts the process instead.
- A call that never returns sets `last.op = "hung"`. After it, no call runs,
  because the worker is held.

### SstableCursor: how the model corresponds to the code

- `Init` gives every cursor an index `block_reader` over the table's index
  block, positioned nowhere, and no data reader. That is the wiring spec
  4.4 describes, not the code. The constructor (`table.cc:266`) sets only
  `_table`, and nothing under `src/` sets `_index_block_reader` or
  `_reader`. As written, the first call of any cursor therefore
  dereferences a null index reader (finding 13).
- The inner `block_reader`s are `Blk(b)`, a parameterised instance of
  `BlockCursor`. The calls of a cursor are that module's position operators
  (`SeekToFirstPos`, `SeekPos`, `NextPos`, `PosEof`), applied to the records
  `ipos[c]` and `dpos[c]`.
- Data block `i` is behind index entry `i`. That entry's key is the block's
  last key, and its value is the handle. `IndexHandle` decodes the handle
  from the entry the index cursor last parsed.
- A public call runs as one action up to the cache lookup, because the inner
  calls return ready futures. `AdvanceToDataBlock` is the shared
  continuation. On a hit it builds the data cursor and runs the data call. On
  a miss it sets `pc[c] = "reading"`. `ReadDone` is the `read_block`
  continuation (`create`, then the data call), and `ReadFailed` is its
  `io_exception`.
- `NextBody` is `next()`. It advances the data cursor, and only when that
  cursor's `current()` is empty does it advance the index and position the
  next block.
- `bcache` is the set of cached blocks. The cache class is not in `src/`.
  `CreateBlock` is the cache's `create`. When the cache already holds
  `BlockCacheCap` blocks, it first evicts one, and any one may go. Eviction
  only drops the cache's own reference. A cursor therefore keeps reading
  the block it holds (`dblk`), and its next lookup of that block misses.
- In `seek`'s miss path the code seeks an undeclared `ikey`, and its capture
  shadows `key`. The model seeks the target.
- A first positioning call whose read fails leaves `_initialized` true and
  `_data_block_reader` null. `next()` would then dereference null, so the
  model enables `next()` only once a data reader exists.

### Cursor: the abstract specification

`Cursor` states what spec 4.1 and 4.4 promise of any cursor. It has the
keys, a position `at`, the key `cur` that `current()` returns, and the last
call made. `Step` gives the position each call leaves. Nothing is promised of
`current()` at eof. `BlockCursor` refines it (`CursorSpec`), and
`CombinedCursor` takes its sub-cursors' moves from it.

### CombinedCursor: how the model corresponds to the code

- `tabs[i]` are the keys of table `i`. `spos[i]` is sub-cursor `i`'s position
  in them: 0 before any call, and `Len + 1` when exhausted, where
  `current()` keeps the last key as a `block_reader` does.
- `Call` is one public call. The lambda of `parallel_for_each` makes the
  sub-call on each sub-cursor (only on `_current` for `next`) and drops its
  future. A sub-call whose block is cached finishes in the same step. The
  others are queued in `pend[i]` and finish in later `SubDone` steps.
  `find_smallest_one` runs on the positions as they are, with strict `<`,
  so ties go to the lower index.
- A sub-cursor never positioned has a null data reader, and reading its
  `current()` kills the process. `Call` is therefore enabled only when
  `find_smallest_one` can read every sub-cursor.
- `MaxPending` bounds the unfinished calls of one sub-cursor.
- Where a finished sub-call leaves its sub-cursor (`SubResult`) is the
  abstract `Cursor` module's `Step`, taken through an `INSTANCE`. The merge
  is checked against sub-cursors that keep that contract. The sub-cursors
  in the code are `sstable_reader`s (`table.cc:267-350`), and they keep it
  only in part. `sstable_positions` shows that their positioning calls do
  (`PositionAgrees`). Their `next()` does not: it never leaves the first
  data block (finding 8). `CurrentIsSmallest` is stated only after
  positioning calls, so its violation comes from the merge itself and not
  from that gap. Using `SstableCursor` for the sub-cursors would only
  repeat finding 8 one level up.

### Properties

- `DictListAgree`: the list has no node twice, it links exactly the dict's
  nodes, and they are all live.
- `ListInScoreOrder`: the list is sorted by score, and equal scores are in
  (re)insertion order. It catches an update that relinks without unlinking
  and a `>=` in `insert_ordered`.
- `QueriesAgree`: `count_by_score`, `fetch_by_score` (with each limit)
  and `rank` agree with definitions computed from the members' scores for
  every bound. The code reads only the list, including its two ends in
  `score_out_of_range`. `size()` counts the list and must equal the number
  of distinct keys in the dict (ZCARD). `score(key)` and `fetch_by_key` look
  keys up in the dict and must find the entries that a walk of the list finds
  (ZSCORE, and the lookup ZREM's callers use). Key lists have up to two keys,
  repeats included.
- `SortedSetSpec`: `SsetIndex` implements `SortedSet` under the mapping
  "members = dict keys with their entries' scores". Every abstract step names
  the call, the members it was given (`ret.arg`) and its return value, and
  fixes the new scores of the members it touches and leaves every other member
  alone: insert, ZADD NX, ZADD XX, ZADD, ZINCRBY, update_score and erase each
  have one abstract step, so a wrong step cannot pass as a different legal one.
- `FetchByRankMatchesSpec`: `fetch_by_rank` agrees with the normalisation in
  spec 4.6. This property is a violation run.
- `CacheHoldsOnlyCompleteTables`: a table in the table cache has finished
  `read_meta` and is not the table of a failed open.
- `OpenCompletes` (liveness): under `FairSpec`, every `open_sstable`
  eventually either fails, or returns a table of its own path whose
  `read_meta` has finished. This holds whether the fibre built the table or
  hit the cache. It depends on the cache holding only complete tables, and on
  the hit path handing the cached table back.
- `CursorSpec` (refinement): on an intact block, `block_reader` implements
  the abstract `Cursor` module. The mapping sends the block's keys to
  `keys`, the cursor's offset to `at` (0 before the first call,
  `Len + 1` at eof), `ckey` to `cur`, and the last call and its argument to
  `call`. Exposing `call` matters: without it a seek(t) that stopped at the
  place seek(t+1) would stop would still look like a legal abstract step.
- `ScanYieldsBlock` (liveness): the iteration loop over an intact block ends
  with every key read once, in order.
- `ScanEnds` (liveness): the loop ends on a corrupt block too. This property
  is a violation run.
- `PositionAgrees`: once `seek_to_first`, `seek_to_last` or `seek(t)` of a
  cursor over an intact table returns, `current()` is the table's first key,
  its last key, or its first key `>= t`, and `eof()` holds exactly when there
  is none. This holds whatever the other cursor does to the cache
  meanwhile.
- `ScanYieldsTable` (liveness): iteration over a table ends having read
  every key. This property is a violation run.
- `SingleFlight` and `FilterIsPolicys`: these are the spec's promises on
  coalescing and on the filter that gets installed. Each is a violation run.
  `IndexBlockIsOwn` (block-cache keys are unique per file) is stated too. It
  fails when two files have their index block at the same offset, but no run
  is kept for it (see finding 6).
- `CurrentIsSmallest`: once every sub-cursor has finished `seek_to_first` or
  `seek(t)`, the merge's `current()` is the least key `>= t` over all tables
  (spec 4.5). This property is a violation run.

## Runs

| Run | Checks | Result |
|---|---|---|
| `sset_invariants` | TypeOK, DictListAgree, ListInScoreOrder, QueriesAgree, SortedSetSpec; 3 keys, scores 0..1, batches of up to 2 in every order | pass, ~20k states, ~95 s |
| `sset_fetch_by_rank` | FetchByRankMatchesSpec | violation: `fetch_by_rank(0,0)` of a one-member set is empty |
| `sset_erase_key` | DictListAgree with `erase(key)` enabled | violation: ZREM of the only member leaves it in the list |
| `block_calls` | CursorSpec; every intact block of up to 5 entries, every restart directory | pass, ~18k states, ~10 s |
| `block_scan` | ScanYieldsBlock under the fair iteration loop | pass, ~2k states |
| `block_corrupt` | ScanEnds under `RangeScanSpec`, over blocks with one undecodable entry or with no restart point | violation: a `seek(t)` on the block `<<1>>` with no restart point never returns, whatever `t` (finding 12). With only the undecodable-entry blocks, `next()` rereads the bad entry forever and `eof()` stays false (finding 7) |
| `sstable_positions` | PositionAgrees; 2 cursors, tables of up to 3 keys in up to 3 blocks, a one-block cache that evicts, failing reads | pass, ~690k states, ~55 s |
| `sstable_scan` | ScanYieldsTable | violation: a one-key table yields its key forever and never reaches `eof` |
| `open_pass` | TypeOK, CacheHoldsOnlyCompleteTables, OpenCompletes under `FairSpec`; 2 fibres, 2 paths, all file contents, caches of one entry | pass, ~60k states, ~25 s |
| `open_single_flight` | SingleFlight | violation: two opens of one path both miss the cache and read the file |
| `open_filter` | FilterIsPolicys | violation: a metaindex lacking the policy's entry installs the filter of the entry the seek lands on, or of the last entry when the seek passes them all |
| `combined_current` | CurrentIsSmallest | violation: after `seek(t)` over two one-key tables whose first key is below `t` (for instance [1] and [2] with `t = 2`, or [1] and [3]), `current()` is the exhausted table's stale key 1 |

Bounds:

- Three keys give every key a predecessor, a successor, or both, which is what
  `erase(key)` needs.
- Two scores and ZINCRBY deltas of +-1 make ties, moves up and moves down
  all reachable. With three scores the refinement check takes about five
  minutes, and the invariants are checked on the same run.
- Batches of two in both orders are the smallest arguments in which the
  iteration order decides how ties are ordered. A batch of three reaches the
  same states and takes four times as long.
- Depth 6 reaches every combination of membership and order. The scores are
  capped by `Scores`, and that cap is a guard on ZINCRBY.

Blocks without restarts have up to two keys. One key is enough for the hang,
and two keys let a target fall between them.

For `BlockCursor`, five entries let the restart binary search probe three
levels (up to 5 restarts). That covers an odd and an even number of
restarts at every depth, which is where rounding `mid` up and setting
`right = mid - 1` could go wrong. The key values 1..6 leave gaps, so the
targets 0..7 fall below, between, on and above the keys. The empty block is
included.

The caches hold one entry in every run. With two paths, two index offsets
and up to three data blocks, that is the capacity at which every insertion
of a second key evicts, so evictions interleave with hits, misses and
in-flight reads. A larger capacity only makes some of those evictions
happen later.

For `SstableCursor`, two cursors are the fewest that share the cache. Up to
three keys in up to three data blocks give tables with one block, with
several blocks, and with a seek target that falls between blocks. The keys
1..3 with targets 0..4 put targets below, on, between and above the keys.
Tables with a bad first entry in one block are the only ones on which
`next()`'s cross-block path runs (see finding 8). The symmetry is over the
cursors.

For `OpenSstable`, two fibres are the fewest that interleave. Two paths let
them open the same path or different ones. Two offsets and two filter names
let index blocks collide or not, and let a metaindex hold the policy's entry,
another entry, or none. The symmetry is over fibres and paths, both of which
are model values used only by equality. It is used only by the violation
runs: `open_pass` checks a liveness property, where TLC does not apply
symmetry soundly.

There is no liveness property for the sorted set, because every operation is
a single terminating step. `BlockCursor` carries the liveness
properties: iteration ends, and `eof` is reached. `OpenSstable` carries the
termination of `open_sstable`.

## Findings so far

1. `fetch_by_rank` returns nothing when `end <= 0`, so `ZRANGE k 0 0` is
   empty. It also wraps an `end` below `-size` around instead of giving an
   empty range. (`sset_lsa.hh:483`, `:251`)
2. `erase(const bytes&)` unlinks and disposes the list node of the erased
   key's dict successor. The erased entry stays in the list, and the
   successor is freed while it is still in the dict. (`sset_lsa.hh:449`)
3. `insert(entry)` of a present key links the entry into the list and then
   returns false. (`sset_lsa.hh:159`; no caller in the file does this, see
   above.)
4. `open_sstable` does not coalesce concurrent opens of a path. Both fibres
   miss the cache after `open_file_dma`, and both read and build the table.
   (`table.cc:67`)
5. `read_meta` decodes whatever entry `seek("filter."+name)` lands on
   without checking its key, so another policy's filter can be installed.
   When the seek passes every entry, the cursor still holds the last one,
   and that entry's filter is installed.
   (`table.cc:117`)
6. The index block is cached under a key made from its handle alone, so two
   files with their index block at the same offset share a block.
   (`table.cc:90`. `cache` at line 91 is not declared in `src/`. Only when
   it is read as the worker's block cache does TLC find `IndexBlockIsOwn`
   violated, so no run is kept for this finding.)
7. `parse_next_key` returns false on an undecodable entry without setting
   `_eof` or moving past it. `eof()` stays false, `next()` rereads the same
   entry, and `current()` keeps the previous key, so an iteration loop never
   ends. Spec section 7 says a corrupt block invalidates its cursor.
   (`table.cc:241`)
8. `sstable_reader::next` moves to the next data block only when the data
   cursor's `current()` is empty. A `block_reader` keeps its last key after
   passing its end, so on an intact table the index never advances and
   `eof()` never holds: iteration yields the first block's last key forever.
   (`table.cc:325`)
9. Block reads are not coalesced either. Each call does `find`, then
   `read_block`, then `create`, with an await between them, so two cursors
   that miss one block both read it. (`table.cc:273`; this is the same
   disagreement with spec 4.2 as finding 4, so no separate run is kept.)
10. `find_smallest_one` compares the current key of every sub-cursor,
    exhausted ones included, and an exhausted one returns its stale last key.
    After `seek(2)` over tables [1] and [2] (or [1] and [3]), `_current` is therefore the
    exhausted first table. The fan-out drops the futures of its sub-calls,
    which breaks the same property on its own: with exhausted sub-cursors
    excluded from the property, TLC finds a `seek_to_first` that missed on
    one table and took `_current` from that table's old position.
    `eof()` and-s into a flag that starts false, so it is only `_eof`, which
    is never set. (`table.cc:430`, `:381`, `:417`)
11. `flush_all` disposes every list entry but does not clear `_dict`. Checking
    `SpecWithFlushAll` against `DictListAgree` fails after one `insert` and
    then `flush_all`: `dict = {1}` while `alive = {}`. In the destructor,
    `_dict`'s own destructor runs next and walks those freed entries through
    their default safe-mode hooks. (`sset_lsa.hh:153`; the only caller is the
    destructor, so no run is kept.)
12. `seek` on a block whose trailer declares no restart point never returns.
    `right = num_restarts_ - 1` wraps to `2^32-1`, and
    `mid = (left + right + 1) / 2` wraps to 0. Whichever way the key
    comparison goes, the bounds stay `(0, 2^32-1)`, so the worker spins.
    leveldb returns an empty iterator for such a block. Spec section 7 says a
    corrupt block invalidates its cursor. `seek_to_last` on such a block
    calls `get_restart_point(2^32-1)`. The index is widened to `size_t`
    before the multiply, so the restart offset is read about 16 GiB past the
    restart array, outside the block. (`table.cc:173`, `:165`)

13. `sstable_reader`'s constructor sets only `_table`. No code under `src/`
    sets `_index_block_reader` or the file reader `_reader`, so the first
    positioning call dereferences a null pointer. This crashes on every
    use, so it is not a state to explore. The models assume the index
    reader and file reader that spec 4.4 describes. (`table.cc:266`)

## Not modelled, and why

- **Format layer** (footer, block handle, varints, block trailer). Its
  headers are not in this snapshot, and decoding is a pure function. Its
  outcomes enter the models: a footer that is short or does not decode, an
  entry that does not decode, and a handle that names a block.
- **Comparator, filter policy, file I/O, allocator.** These are external
  collaborators (spec 4.7). Keys compare as integers. A read either
  returns, throws or is dropped. The allocator appears only as an entry
  being alive or disposed.
- **LRU order of the caches.** The victim of an eviction is any cached
  entry. A property that holds for every victim holds for LRU's.
- **A NaN score** (`sset_lsa.hh:210`). ZINCRBY of `-inf` onto `+inf` stores
  NaN, which compares false with every score. Scores are small integers
  here, so this case is not reached.
- **Undefined behaviour that ends the process** is a guard, not a state.
  The cases are:
  - `next()` on an `sstable_reader` whose first read failed dereferences a
    null reader (`table.cc:269`);
  - `seek_to_last` on a block with no restart point reads far outside the
    block (`table.cc:165`);
  - a sub-cursor of the combined cursor that was never positioned has a
    null data reader.

  TLC cannot continue past any of these, so the models disable the call
  instead.
- **The combined cursor's `eof()`** (`table.cc:417`) is `_eof`, which nothing
  sets, so a merge never ends. It is recorded as a hazard, and the model
  shows it directly. Checking it would take a liveness run over fair
  sub-calls, which would only restate finding 8 one level up.
- **Two tables sharing the block cache.** Data blocks are keyed by offset
  alone (finding 6), so two tables would share blocks. `SstableCursor`
  keeps one table per run, so that `PositionAgrees` is about the cursor and
  not about that key.
- **Duplicate entries passed to `erase(entries)`** (`sset_lsa.hh:368`) and
  **a caller's non-empty vector in `fetch_by_score`** (`:332`). The callers
  are not under `src/`. The model passes each live entry at most once and
  starts from an empty vector.
