------------------------- MODULE MC_CombinedCursor -------------------------
EXTENDS CombinedCursor, SequencesExt

\* two tables, each of one to three keys from 1..4
MCKeySeqs == {SetToSortSeq(K, <) : K \in {K \in SUBSET (1..4) : Cardinality(K) \in 1..3}}
MCTableSets == {<<a, b>> : a, b \in MCKeySeqs}

\* seek targets below, on, between and above the keys
MCTargets == 0..5
====
