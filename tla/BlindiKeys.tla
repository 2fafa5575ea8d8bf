----------------------------- MODULE BlindiKeys -----------------------------
(***************************************************************************)
(* What the compact nodes share: the bits of keys and the slots that a     *)
(* node has for pointers to them.  A node is a record with the fields      *)
(*                                                                         *)
(*    keys       what key_ptr[0 .. valid_len - 1] point to                 *)
(*    max        currentmaxslot, the slots allocated for key_ptr           *)
(*    breathing  BREATHING_BLINDI_SIZE (BREATHING_SIZE): by how many slots *)
(*               the allocation grows; NumSlots without the macro          *)
(*                                                                         *)
(* and those of its encoding.  Positions are counted from 0.               *)
(***************************************************************************)
EXTENDS Integers, Sequences, SequencesExt

CONSTANTS NumSlots,      \* NUM_SLOTS
          KeyBits,       \* bits of a key; bit 0 is the most significant one
          Stale          \* what memory without a defined value holds

ASSUME NodeAssumption ==
  /\ NumSlots \in Nat /\ NumSlots >= 2 /\ NumSlots % 2 = 0
  /\ KeyBits \in Nat /\ KeyBits < 253

KeySpace == 0 .. 2 ^ KeyBits - 1

valid_len(n) == Len(n.keys)

keyAt(n, pos) ==
  IF pos < valid_len(n) /\ pos < n.max THEN n.keys[pos + 1] ELSE Stale

\* isNthBitSetInString, which also reads what lies outside the key.
bit(k, i) == IF i < KeyBits THEN (k \div 2 ^ (KeyBits - 1 - i)) % 2 ELSE Stale

isSet(k, i) == bit(k, i) = 1

\* CompareStage of two different keys: the first bit in which they differ.
\* (Which of them is larger follows from it.)
firstDifference ==
  [a \in KeySpace |->
    [b \in KeySpace \ {a} |->
      CHOOSE i \in 0 .. KeyBits - 1 :
        bit(a, i) # bit(b, i) /\ \A j \in 0 .. i - 1 : bit(a, j) = bit(b, j)]]

CompareStage(a, b) == firstDifference[a][b]

\* (A variant for the mutation runs: a node that is full asks for no memory.)
breathNever(n) == n.max

\* The allocation grows by a few slots when every one is in use.
breath(n) ==
  CASE valid_len(n) # n.max -> n.max
    [] n.max + n.breathing > NumSlots -> NumSlots
    [] OTHER -> n.max + n.breathing

\* The allocation of each half of a split.
halfMax(n) ==
  IF NumSlots \div 2 + n.breathing > NumSlots
    THEN NumSlots ELSE NumSlots \div 2 + n.breathing

Ascending(n) ==
  \A i \in 1 .. valid_len(n) - 1 : n.keys[i] < n.keys[i + 1]

\* What both kinds of search of a node answer is what a search of the sorted
\* array would: point is the hit of a point search, s that of a predecessor
\* search.
AnswersRight(n, k, point, s) ==
  LET upTo == {i \in 0 .. valid_len(n) - 1 : n.keys[i + 1] <= k}
  IN /\ point <=> k \in Range(n.keys)
     /\ s.hit <=> k \in Range(n.keys)
     /\ s.smaller <=> upTo = {}
     /\ upTo # {} => s.pos \in upTo /\ \A i \in upTo : i <= s.pos
=============================================================================
