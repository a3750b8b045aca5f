------------------------------- MODULE Tries -------------------------------
(***************************************************************************)
(* Trie (pyis/ops/text/trie.cpp): a dictionary that is a CedarTrie until   *)
(* it is frozen, saved or loaded, and an ImmutableTrie from then on.       *)
(*                                                                         *)
(* One trie object, one file.  A CedarTrie is a function from the keys to  *)
(* ints; its double array is third-party code, of which Insert, Erase,     *)
(* Lookup and Dump are modelled by what they answer.                       *)
(***************************************************************************)
EXTENDS TrieFile

CONSTANTS
  KeyList,      \* the keys users know, in the order of their bytes
  Values,       \* the values they insert, as uint32_t
  Careful,      \* whether they freeze and save only what can be represented
  ReaderStarts, \* what a reader of a stream may find in its fresh buffer
  NoTrie,       \* the null pointer
  Dangling,     \* a pointer to a trie that has been deleted
  Crashed       \* after a null or dangling pointer was used

Keys == ToSet(KeyList)
NoFile == <<>>

WordMax == Radix ^ 4
NoValue == -(WordMax \div 2)
ToInt(x) == IF x >= WordMax \div 2 THEN x - WordMax ELSE x
ToUInt32(x) == IF x < 0 THEN x + WordMax ELSE x

Dicts == [Keys -> {ToInt(v) : v \in Values} \cup {NoValue}]

ASSUME TriesAssumption ==
  /\ IsInjective(KeyList)
  /\ \A k \in Keys : k # <<>> /\ ToSet(k) \subseteq Byte \ {0}
  /\ Values \subseteq 0 .. WordMax - 1
  /\ Careful \in BOOLEAN

(***************************************************************************)
(* CedarTrie::Items: the keys in the order of their bytes, up to the first *)
(* negative value, which Dump takes for the end.                           *)
(***************************************************************************)
Dump(dict) ==
  LET present == SelectSeq(KeyList, LAMBDA k : dict[k] # NoValue)
      end == SelectInSeq(present, LAMBDA k : dict[k] < 0)
      seen == IF end = 0 THEN present ELSE SubSeq(present, 1, end - 1)
  IN  [i \in 1 .. Len(seen) |-> <<seen[i], ToUInt32(dict[seen[i]])>>]

Constructed == [data \in {Dump(d) : d \in Dicts} |-> Construct(data)]

(* What the packed form can hold: some value above zero, few characters,   *)
(* none of them with the sign bit, no negative value.                      *)
Representable(dict) ==
  /\ \E k \in Keys : dict[k] > 0
  /\ \A k \in Keys : dict[k] = NoValue \/ dict[k] >= 0
  /\ \A k \in Keys : dict[k] # NoValue => \A b \in ToSet(k) : ~IsNegative(b)
  /\ ~Constructed[Dump(dict)].table

VARIABLES
  cedar,   \* cedar_trie_
  frozen,  \* immutable_trie_
  file     \* the file users save to and load from

vars == <<cedar, frozen, file>>

Init ==
  /\ cedar = [k \in Keys |-> NoValue]
  /\ frozen = NoTrie
  /\ file = NoFile

-----------------------------------------------------------------------------
(* Insert: a value that Cedar uses for itself is silently not inserted.    *)
Insert(k, v) ==
  /\ cedar # NoTrie
  /\ cedar' = IF ToInt(v) <= NoValue + 1 THEN cedar
              ELSE [cedar EXCEPT ![k] = ToInt(v)]
  /\ UNCHANGED <<frozen, file>>

Erase(k) ==
  /\ cedar # NoTrie
  /\ cedar' = [cedar EXCEPT ![k] = NoValue]
  /\ UNCHANGED <<frozen, file>>

(* Insert and Erase throw and change nothing where there is no CedarTrie.  *)
Refuse == cedar = NoTrie /\ frozen # Crashed /\ UNCHANGED vars

IsFrozen == frozen \notin {NoTrie, Dangling, Crashed}

Lookup(k) ==
  IF cedar # NoTrie THEN (IF cedar[k] = NoValue THEN <<>> ELSE <<ToUInt32(cedar[k])>>)
  ELSE Match(frozen, k)

AllItems == IF cedar # NoTrie THEN Dump(cedar) ELSE Items(frozen)

(* Mutant: freezing keeps the trie it froze.                               *)
FreezeKeeping ==
  /\ cedar # NoTrie
  /\ Careful => Representable(cedar)
  /\ frozen' = WriteToTrie(Constructed[Dump(cedar)])
  /\ UNCHANGED <<cedar, file>>

Freeze ==
  /\ cedar # NoTrie
  /\ Careful => Representable(cedar)
  /\ frozen' = WriteToTrie(Constructed[Dump(cedar)])
  /\ cedar' = NoTrie
  /\ UNCHANGED file

(* Save, to a path or to a stream of a model storage.                      *)
Save ==
  /\ cedar # NoTrie \/ IsFrozen
  /\ cedar # NoTrie /\ Careful => Representable(cedar)
  /\ file' = IF cedar # NoTrie THEN WriteToFile(Constructed[Dump(cedar)])
             ELSE SaveTrie(frozen)
  /\ UNCHANGED <<cedar, frozen>>

(* Serialize: Save to a file of the model, which the state names.          *)
Serialize == Save

(* Load deletes what either pointer points to: once only.                  *)
CanDelete == frozen \notin {Dangling, Crashed}

(* Load(path) of the file.                                                 *)
Load ==
  /\ file # NoFile /\ CanDelete
  /\ cedar' = NoTrie
  /\ frozen' = Initialize(file)
  /\ UNCHANGED file

(***************************************************************************)
(* Load(stream): this constructor of the reader does not initialise it,    *)
(* and it may take what its buffer holds for the beginning of the file.    *)
(***************************************************************************)
LoadStream(start) ==
  /\ cedar' = NoTrie
  /\ frozen' = Initialize(ReaderOf(start, file))

(* Deserialize: the file is the one the state names.                       *)
Deserialize(start) == file # NoFile /\ CanDelete /\ LoadStream(start) /\ UNCHANGED file

(***************************************************************************)
(* Load(path) of a path that cannot be opened throws when both tries have  *)
(* been deleted, and before immutable_trie_ is assigned: it stays null if  *)
(* it was, and dangles if it was not.                                      *)
(***************************************************************************)
LoadMissing ==
  /\ CanDelete
  /\ cedar' = NoTrie
  /\ frozen' = IF frozen = NoTrie THEN NoTrie ELSE Dangling
  /\ UNCHANGED file

(* Lookup, Contains and Items go through the pointer whatever it is.       *)
UseLost ==
  /\ cedar = NoTrie /\ frozen \in {NoTrie, Dangling}
  /\ frozen' = Crashed
  /\ UNCHANGED <<cedar, file>>

(* So does Save, which has emptied its file by then.                       *)
SaveLost ==
  /\ cedar = NoTrie /\ frozen \in {NoTrie, Dangling}
  /\ frozen' = Crashed
  /\ file' = NoFile
  /\ UNCHANGED cedar

(* The next Load, of whatever path or stream, or the destructor deletes a  *)
(* trie that has been deleted.                                             *)
DeleteAgain ==
  /\ frozen = Dangling
  /\ frozen' = Crashed
  /\ UNCHANGED <<cedar, file>>

(* The user begins anew, with another trie and another file.               *)
Restart ==
  /\ frozen = Crashed
  /\ cedar' = [k \in Keys |-> NoValue]
  /\ frozen' = NoTrie
  /\ file' = NoFile

Next ==
  \/ \E k \in Keys : Erase(k) \/ \E v \in Values : Insert(k, v)
  \/ Refuse \/ Freeze \/ Save \/ Serialize \/ Load \/ LoadMissing
  \/ UseLost \/ SaveLost \/ DeleteAgain \/ Restart
  \/ \E start \in ReaderStarts : Deserialize(start)

Spec == Init /\ [][Next]_vars

-----------------------------------------------------------------------------
(* Never both: every operation asks one of the two (trie.h), and a frozen  *)
(* trie holds cells of a byte each.                                        *)
TypeOK ==
  /\ cedar = NoTrie \/ (cedar \in Dicts /\ frozen = NoTrie)
  /\ IsFrozen => frozen.image \in Seq(Byte) /\ frozen.max \in Byte
  /\ file \in Seq(0 .. 15)

(***************************************************************************)
(* The two ways to read a trie agree: Items (a walk over all children) and *)
(* Lookup (a descent by one key) find the same pairs, each once.           *)
(***************************************************************************)
ItemsAgree ==
  cedar # NoTrie \/ IsFrozen =>
     /\ ToSet(AllItems) = {<<k, Lookup(k)[1]>> : k \in {q \in Keys : Lookup(q) # <<>>}}
     /\ IsInjective(AllItems)

(***************************************************************************)
(* "it is allowed to be frozen to achieve a better performance"            *)
(* (docs_src/operators/trie.rst:7): freezing changes no item               *)
(* (py/pyis-python/tests/test_trie/test_trie.py:51).                       *)
(***************************************************************************)
FreezeKeepsItems ==
  [][Freeze => ToSet(Items(frozen')) = ToSet(Dump(cedar))]_vars

-----------------------------------------------------------------------------
(***************************************************************************)
(* The dictionary behind the bytes: what Lookup answers, and what it would *)
(* answer after a load of the file.                                        *)
(***************************************************************************)
NotFound == -1
Answer(r) == IF r = <<>> THEN NotFound ELSE r[1]
Contents(t) == [k \in Keys |-> Answer(Match(t, k))]

(* Evaluated once for all the tries and files of careful users.            *)
Answers == [t \in {WriteToTrie(Constructed[d]) : d \in DOMAIN Constructed} |-> Contents(t)]
ContentsOf(t) == IF t \in DOMAIN Answers THEN Answers[t] ELSE Contents(t)
Reloaded == [f \in {WriteToFile(Constructed[d]) : d \in DOMAIN Constructed} |->
               ContentsOf(Initialize(f))]

content == IF cedar # NoTrie THEN [k \in Keys |-> Answer(Lookup(k))]
           ELSE IF IsFrozen THEN ContentsOf(frozen)
           ELSE IF frozen = NoTrie THEN NoTrie
           ELSE Dangling
stored == IF file = NoFile THEN NoTrie
          ELSE IF file \in DOMAIN Reloaded THEN Reloaded[file]
          ELSE ContentsOf(Initialize(file))

Dict == INSTANCE Dictionary
          WITH Numbers <- Values, NoNumber <- NotFound, Lost <- NoTrie,
               Broken <- Dangling, writable <- cedar # NoTrie

(***************************************************************************)
(* A Trie is a dictionary: inserting, erasing, freezing, saving and        *)
(* loading do to its answers what they do to a dictionary, whatever was    *)
(* done before, and only a trie that was still writable survives a load of *)
(* a file that is not there.                                               *)
(***************************************************************************)
ImplementsDictionary == Dict!Spec
=============================================================================
