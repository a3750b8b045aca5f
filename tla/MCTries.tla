------------------------------ MODULE MCTries ------------------------------
(***************************************************************************)
(* Small instances of Tries.  With cells of five bits, four keys take the  *)
(* packed form through lists and tables of edges, single edges to leaves   *)
(* and inner nodes, and values of one and two cells; with four bits a      *)
(* single character is too many for the tags.                              *)
(*                                                                         *)
(* A program uses a Trie or a CedarTrie of its own.                        *)
(***************************************************************************)
EXTENDS Tries

FiveBitKeys == << <<1, 5, 5>>, <<5>>, <<5, 6>>, <<7>> >>
FourBitKeys == << <<5>>, <<5, 6>>, <<6>> >>
CleanStart == {<<>>}
AnyStart == {<<>>, <<8>>}

CedarKeys == << <<5>>, <<5, 6, 5>>, <<7>> >>
CedarInts == {-100, -2, 0, 3}
CedarBuilds == { << <<CedarKeys[2], 3>>, <<CedarKeys[3], -99>>, <<CedarKeys[2], 0>> >> }
CedarFiles == { << <<CedarKeys[1], -1>>, <<CedarKeys[3], 3>> >> }
CedarQueries == {<<5, 6>>, <<5, 6, 5, 7>>, <<7>>, <<6, 5>>}

VARIABLES
  uses,  \* "Trie" or "CedarTrie"
  trie, saved

Own == INSTANCE CedarTries
         WITH KeyList <- CedarKeys, Ints <- CedarInts, Builds <- CedarBuilds,
              Files <- CedarFiles, Queries <- CedarQueries, NoValue <- -100, NoInt <- -1

InitBoth == Init /\ Own!Init /\ uses \in {"Trie", "CedarTrie"}

NextBoth ==
  /\ UNCHANGED uses
  /\ \/ uses = "Trie" /\ Next /\ UNCHANGED <<trie, saved>>
     \/ uses = "CedarTrie" /\ Own!Next /\ UNCHANGED vars

SpecBoth == InitBoth /\ [][NextBoth]_<<uses, vars, trie, saved>>

(***************************************************************************)
(* What Items, Predict, Prefix, LongestPrefix and NumKeys say of a trie is *)
(* what Lookup says of it, in either class (trie.cpp, immutable_trie.cpp,  *)
(* cedar_trie.cpp).                                                        *)
(***************************************************************************)
QueriesAgree == ItemsAgree /\ Own!CountsAgree /\ Own!SearchesAgree
=============================================================================
