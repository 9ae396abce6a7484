-------------------------- MODULE MC_SstableCursor --------------------------
EXTENDS SstableCursor, TLC

\* tables of up to three keys from 1..3, cut into one to three data blocks
MCKeyVals == 1..3
MCMaxKeys == 3

\* seek targets below, between, on and above every key
MCTargets == 0..4

MCBlock(keys, bad) == [keys |-> keys, restarts |-> <<1>>, bad |-> bad]

\* the data blocks of key sequence ks cut after the positions in cuts
Split(ks, cuts) ==
  LET cs == SetToSortSeq(cuts \cup {0, Len(ks)}, <)
  IN  [i \in 1..Len(cs) - 1 |-> SubSeq(ks, cs[i] + 1, cs[i + 1])]

\* a table over data blocks ds, block j's first entry undecodable if j > 0;
\* the index holds each data block's last key
MCTable(ds, j) ==
  [data  |-> [i \in DOMAIN ds |-> MCBlock(ds[i], IF i = j THEN {1} ELSE {})],
   index |-> MCBlock([i \in DOMAIN ds |-> ds[i][Len(ds[i])]], {})]

KeySeqs == {SetToSortSeq(K, <) : K \in {K \in SUBSET MCKeyVals :
                                          Cardinality(K) \in 1..MCMaxKeys}}

MCDataBlocks ==
  UNION {{Split(ks, cuts) : cuts \in SUBSET (1..Len(ks) - 1)} : ks \in KeySeqs}

MCIntactTables == {MCTable(ds, 0) : ds \in MCDataBlocks}

MCTables == MCIntactTables \cup
            UNION {{MCTable(ds, j) : j \in DOMAIN ds} : ds \in MCDataBlocks}

MCMaxScan == MCMaxKeys + 1

\* the cursors are interchangeable
CursorSymmetry == Permutations(Cursors)
====
