--------------------------- MODULE MC_BlockCursor ---------------------------
EXTENDS BlockCursor, SequencesExt

\* key values 1..6 and blocks of at most five entries
MCKeyVals == 1..6
MCMaxEntries == 5

\* seek targets below, between, on and above every key
MCTargets == 0..7

\* the blocks over key set K with every restart directory, intact or with
\* one entry that does not decode
BlocksOver(K, corrupt) ==
  LET n == Cardinality(K)
      badChoices == IF corrupt THEN {{i} : i \in 1..n} ELSE {{}}
  IN  { [keys |-> SetToSortSeq(K, <), restarts |-> SetToSortSeq({1} \cup R, <),
         bad |-> B] : R \in SUBSET (2..n), B \in badChoices }

KeySets == {K \in SUBSET MCKeyVals : Cardinality(K) <= MCMaxEntries}

\* intact blocks, the empty one included
MCValidBlocks == UNION {BlocksOver(K, FALSE) : K \in KeySets}

\* blocks with one entry that does not decode
MCCorruptBlocks == UNION {BlocksOver(K, TRUE) : K \in KeySets}

\* blocks whose trailer declares no restart point, over up to two keys
MCNoRestartBlocks ==
  {[keys |-> SetToSortSeq(K, <), restarts |-> <<>>, bad |-> {}] :
     K \in {K \in SUBSET MCKeyVals : Cardinality(K) <= 2}}

MCBlocks == MCValidBlocks \cup MCCorruptBlocks

\* every corrupt block
MCBadBlocks == MCCorruptBlocks \cup MCNoRestartBlocks

\* one more than the largest block: a loop that yields more is not ending
MCMaxScan == MCMaxEntries + 1
====
