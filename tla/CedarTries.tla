----------------------------- MODULE CedarTries -----------------------------
(***************************************************************************)
(* CedarTrie (pyis/ops/text/cedar_trie.cpp) as its users have it: a        *)
(* dictionary from strings to ints that stays changeable, is searched by   *)
(* prefixes, counts its keys and is saved to a file of its own format.     *)
(*                                                                         *)
(* pairs is a function from the keys to their ints, keys the counter of    *)
(* Cedar::Trie; how the double array stores them is third-party code.      *)
(* Opening a file does not make the tables (m_ninfo, m_block) that new and *)
(* erased nodes need: loaded is whether they are missing.                  *)
(***************************************************************************)
EXTENDS Integers, SequencesExt, FiniteSetsExt

CONSTANTS
  KeyList,  \* the keys users know, in the order of their bytes
  Ints,     \* the values they insert
  Builds,   \* what they build tries from: sequences of <<key, value>>
  Files,    \* files they build from: lines <<key, value or NoInt>>
  Queries,  \* the strings, none of them empty, they look up
  NoValue,  \* CEDAR_NO_VALUE, the least int
  NoInt,    \* a line without a value
  Crashed   \* the program wrote through a null pointer

NoPath == NoValue + 1   \* CEDAR_NO_PATH
NoFile == <<>>

VARIABLES
  trie,  \* the CedarTrie
  saved  \* the file users save to and load from

vars == <<trie, saved>>

-----------------------------------------------------------------------------
Empty == [pairs |-> <<>>, keys |-> 0, loaded |-> FALSE]

Known(t) == SelectSeq(KeyList, LAMBDA k : k \in DOMAIN t.pairs)

(* Find, and Traverse: what is at the end of a string.                     *)
Find(t, str) ==
  IF str \in DOMAIN t.pairs THEN t.pairs[str]
  ELSE IF \E k \in DOMAIN t.pairs : IsStrictPrefix(str, k) THEN NoValue ELSE NoPath

(* Mutant: a key that is updated is counted again.                         *)
CedarInsertCounting(t, k, v) ==
  IF v <= NoPath THEN [trie |-> t, code |-> 1]
  ELSE IF k \in DOMAIN t.pairs THEN [trie |-> [t EXCEPT !.pairs[k] = v, !.keys = @ + 1], code |-> -1]
  ELSE IF t.loaded THEN [trie |-> Crashed, code |-> 0]
  ELSE [trie |-> [t EXCEPT !.pairs = (k :> v) @@ @, !.keys = @ + 1], code |-> 0]

(* Insert and what it returns: 1 for a reserved value, 0 for a new key, -1 *)
(* for one that is updated, which needs no new node.                       *)
CedarInsert(t, k, v) ==
  IF v <= NoPath THEN [trie |-> t, code |-> 1]
  ELSE IF k \in DOMAIN t.pairs THEN [trie |-> [t EXCEPT !.pairs[k] = v], code |-> -1]
  ELSE IF t.loaded THEN [trie |-> Crashed, code |-> 0]
  ELSE [trie |-> [t EXCEPT !.pairs = (k :> v) @@ @, !.keys = @ + 1], code |-> 0]

CedarErase(t, k) ==
  IF k \notin DOMAIN t.pairs THEN t
  ELSE IF t.loaded THEN Crashed
  ELSE [t EXCEPT !.pairs = [q \in DOMAIN @ \ {k} |-> @[q]], !.keys = @ - 1]

(* Build: how many keys were new.                                          *)
CedarBuild(t, data) ==
  FoldLeft(LAMBDA r, d :
             IF r.trie = Crashed THEN r
             ELSE LET i == CedarInsert(r.trie, d[1], d[2])
                  IN  [trie |-> i.trie, count |-> r.count + (IF i.code = 0 THEN 1 ELSE 0)],
           [trie |-> t, count |-> 0], data)

(* BuildFromFile: a line without a value has the value 0.                  *)
FromFile(lines) ==
  [k \in DOMAIN lines |-> <<lines[k][1], IF lines[k][2] = NoInt THEN 0 ELSE lines[k][2]>>]

-----------------------------------------------------------------------------
CedarLookup(t, k) == IF Find(t, k) \in {NoValue, NoPath} THEN <<>> ELSE <<Find(t, k)>>

(* Items: Dump ends at the first negative value.                           *)
CedarItems(t) ==
  LET known == Known(t)
      end == SelectInSeq(known, LAMBDA k : t.pairs[k] < 0)
      seen == IF end = 0 THEN known ELSE SubSeq(known, 1, end - 1)
  IN  [i \in DOMAIN seen |-> <<seen[i], t.pairs[seen[i]]>>]

(* Predict: the iterator ends where there is no path.                      *)
Predict(t, prefix) ==
  LET found == SelectSeq(Known(t), LAMBDA k : IsPrefix(prefix, k))
  IN  [i \in DOMAIN found |-> <<found[i], t.pairs[found[i]]>>]

(* Prefix (CommonPrefixSearch): a character more at a time.                *)
Prefix(t, query) ==
  FoldLeftDomain(LAMBDA r, n :
                   LET str == SubSeq(query, 1, n)
                       v == Find(t, str)
                   IN  CASE r.done \/ v = NoPath -> [r EXCEPT !.done = TRUE]
                         [] v = NoValue -> r
                         [] OTHER -> [r EXCEPT !.found = Append(@, <<str, v>>)],
                 [found |-> <<>>, done |-> FALSE], query).found

(* Mutant: the search ends at a string that is no key.                     *)
LongestPrefixHasty(t, query) ==
  FoldLeftDomain(LAMBDA r, n :
                   LET str == SubSeq(query, 1, n)
                       v == Find(t, str)
                   IN  CASE r.done \/ v \in {NoPath, NoValue} -> [r EXCEPT !.done = TRUE]
                         [] OTHER -> [r EXCEPT !.found = <<str, v>>],
                 [found |-> <<>>, done |-> FALSE], query).found

(* LongestPrefix: the same walk, of which the last key is kept; none is an *)
(* error.                                                                  *)
LongestPrefix(t, query) ==
  FoldLeftDomain(LAMBDA r, n :
                   LET str == SubSeq(query, 1, n)
                       v == Find(t, str)
                   IN  CASE r.done \/ v = NoPath -> [r EXCEPT !.done = TRUE]
                         [] v = NoValue -> r
                         [] OTHER -> [r EXCEPT !.found = <<str, v>>],
                 [found |-> <<>>, done |-> FALSE], query).found

-----------------------------------------------------------------------------
Init == trie = Empty /\ saved = NoFile

Running == trie # Crashed

Insert(k, v) ==
  /\ Running
  /\ trie' = CedarInsert(trie, k, v).trie
  /\ UNCHANGED saved

Erase(k) ==
  /\ Running
  /\ trie' = CedarErase(trie, k)
  /\ UNCHANGED saved

Build(data) ==
  /\ Running
  /\ trie' = CedarBuild(trie, data).trie
  /\ UNCHANGED saved

BuildFromFile(lines) ==
  /\ Running
  /\ trie' = CedarBuild(trie, FromFile(lines)).trie
  /\ UNCHANGED saved

Reset ==
  /\ Running
  /\ trie' = Empty
  /\ UNCHANGED saved

Save ==
  /\ Running
  /\ saved' = <<trie.pairs>>
  /\ UNCHANGED trie

(* A model keeps what Save writes.                                         *)
Serialize == Save

(* The keys are counted anew.  A file that is not there is an error that   *)
(* leaves the trie as it is.                                               *)
Open ==
  /\ Running
  /\ saved # NoFile
  /\ trie' = [pairs |-> saved[1], keys |-> Cardinality(DOMAIN saved[1]), loaded |-> TRUE]
  /\ UNCHANGED saved

Deserialize == Open

(* After a crash the user begins anew.                                     *)
Restart == ~Running /\ trie' = Empty /\ UNCHANGED saved

Next ==
  \/ \E k \in ToSet(KeyList) : Erase(k) \/ \E v \in Ints : Insert(k, v)
  \/ \E data \in Builds : Build(data)
  \/ \E lines \in Files : BuildFromFile(lines)
  \/ Reset \/ Save \/ Serialize \/ Open \/ Deserialize \/ Restart

-----------------------------------------------------------------------------
(***************************************************************************)
(* The counter is the number of keys there are, however they came and      *)
(* went, and Build returns by how many it has grown (NumKeys).             *)
(***************************************************************************)
CountsAgree ==
  Running =>
    /\ trie.keys = Cardinality({k \in ToSet(KeyList) : CedarLookup(trie, k) # <<>>})
    /\ \A data \in Builds :
         LET built == CedarBuild(trie, data)
         IN  built.trie # Crashed => built.trie.keys = trie.keys + built.count

(***************************************************************************)
(* The searches agree with looking up: Prefix finds every key that begins  *)
(* a query, the shortest first, and LongestPrefix the last of them;        *)
(* Predict finds every key the query begins.  Items is what Predict finds  *)
(* of no prefix at all, unless a negative value cuts it short.             *)
(***************************************************************************)
SearchesAgree ==
  Running =>
    LET found(ks) == {<<k, CedarLookup(trie, k)[1]>> : k \in
                        {q \in ks : CedarLookup(trie, q) # <<>>}}
        keys == ToSet(KeyList)
    IN  /\ \A q \in Queries :
             LET prefixes == Prefix(trie, q)
             IN  /\ ToSet(prefixes) = found({k \in keys : IsPrefix(k, q)})
                 /\ \A i \in 2 .. Len(prefixes) : Len(prefixes[i - 1][1]) < Len(prefixes[i][1])
                 /\ LongestPrefix(trie, q) = (IF prefixes = <<>> THEN <<>> ELSE Last(prefixes))
                 /\ ToSet(Predict(trie, q)) = found({k \in keys : IsPrefix(q, k)})
        /\ IsPrefix(CedarItems(trie), Predict(trie, <<>>))
        /\ (\A k \in DOMAIN trie.pairs : trie.pairs[k] >= 0) =>
             CedarItems(trie) = Predict(trie, <<>>)
=============================================================================
