-------------------------- MODULE MCCompactLeaves --------------------------
(* Instances of CompactLeaves for TLC. *)
EXTENDS CompactLeaves

\* Clusters of neighbours, gaps and both ends of the key space, so that all
\* three entries of the tree and the scans between them are in use.
SpreadKeys == {0, 1, 2, 3, 5, 6, 8, 9, 12, 14, 15}

program(node, breathing, erasing, overwriting) ==
  [node |-> node, keys |-> Keys, breathing |-> breathing, erasing |-> erasing,
   overwriting |-> overwriting]

\* The trie's slots are in the order in which they were filled: it gets fewer
\* of them, and fewer keys.
TrieProgram ==
  [node |-> "trie", keys |-> {0, 1, 3, 6, 8, 12, 15}, breathing |-> NumSlots,
   erasing |-> "siblings", overwriting |-> "none"]

\* The nodes with their whole memory at once, with the step of the program (4),
\* and with the least growth where they grow.
CheckedBuilds ==
  {TrieProgram,
   program("seqtree", 4, "safe", "none"),
   program("seqtree", 1, "none", "none"),
   program("subtrie", NumSlots, "all", "none"),
   program("subtrie", 1, "none", "none")}

\* The tree that erases any key.
ErasingBuilds == {program("seqtree", NumSlots, "all", "none")}

\* The trees in which keys are upserted again, and inserted again.
OverwritingBuilds ==
  {program("seqtree", NumSlots, "none", "upsert"),
   program("subtrie", NumSlots, "none", "upsert"),
   program("seqtree", NumSlots, "none", "insert")}
=============================================================================
