----------------------------- MODULE ModelStore -----------------------------
(***************************************************************************)
(* Saving and loading models: what happens while a ModelContext is active  *)
(* (module ModelContext).  A model is a pickle that holds the serialized   *)
(* states of its objects, next to the files those states name              *)
(* (ModelStorageLocal, JsonPersistHelper).  Loaded objects are cached for  *)
(* the life of the process (GetOrCreateObject, CachedObject).              *)
(*                                                                         *)
(* Several processes share the disk; in one process saves and loads take   *)
(* turns.  A file is created before it has its content, and a process may  *)
(* die in between.  Of the operators five kinds are kept apart:            *)
(*   "trie"         writes its content to a file (also WordDict, CedarTrie,*)
(*                  ImmutableTrie, FomaFst and LinearChainCRF);            *)
(*   "regex"        as a trie, never cached (also TextFeatureConcat);      *)
(*   "linear_svm"   as a trie, but names its file under a key that         *)
(*                  Deserialize does not look for (also NGramFeaturizer);  *)
(*   "ort_session"  copies the file it came from, and has a config file;   *)
(*   "tokenizer"    has add_file copy the file it came from.               *)
(* What a file holds is a value of Data; MD5 signatures do not collide.    *)
(***************************************************************************)
EXTENDS Naturals, Sequences, FiniteSets

CONSTANTS
  Procs, Dirs, Names,
  Home,          \* Home[p]: the directories process p saves to
  Objs,          \* object identities of a process; bounds what it creates
  Kinds,         \* the kinds of objects in use
  MutableKinds,  \* those the users change after they are built or loaded
  Data,          \* contents of objects and of files
  Confs,         \* contents of config files
  MaxNumber,     \* bounds the numbers uniq_file tries
  MaxLen,        \* bounds the objects of a model
  None,          \* no such file, pickle or object
  Partial        \* a file or pickle that is cut short

AllKinds == {"trie", "regex", "linear_svm", "ort_session", "tokenizer"}
Copies == {"ort_session", "tokenizer"}
Configurable == {"ort_session"}
CachesAll == AllKinds   \* mutant: every kind is cached
Cached == AllKinds \ {"regex"}

ASSUME StoreAssumption ==
  /\ Home \in [Procs -> SUBSET Dirs]
  /\ Kinds \subseteq AllKinds
  /\ MutableKinds \subseteq Kinds \ Copies
  /\ MaxNumber \in Nat
  /\ MaxLen \in Nat
  /\ None \notin Data \cup Confs
  /\ Partial \notin Data \cup Confs
  /\ None # Partial

VARIABLES
  files,     \* files[f]: the content of file f
  pickles,   \* pickles[x]: the states in the pickle x
  heap,      \* heap[p][o]: object o of process p
  cache,     \* cache[p]: CachedObject<T>::cache, for every T together
  pc,        \* pc[p]: where p is in save or load
  path,      \* path[p]: the model it saves
  objs,      \* objs[p]: the objects to save, or those loaded so far
  states,    \* states[p]: those serialized so far, or the ones to load
  target,    \* target[p]: the file uniq_file gave
  dataFile,  \* dataFile[p]: the data file of the object that is serialized
  key        \* key[p]: signature of the state that is loaded

disk == <<files, pickles>>
memory == <<heap, cache>>
session == <<pc, path, objs, states, target, dataFile, key>>
vars == <<disk, memory, session>>

-----------------------------------------------------------------------------
(* Serialize adds its file with add_file, under the key get_file reads. *)
AddsFile(k) == k # "linear_svm"

Paths == [dir : Dirs, name : Names]
FileNames == [dir : Dirs, kind : Kinds, part : {"data", "config"},
              num : 0 .. MaxNumber]

Contents == Data \cup {Partial}
Objects == [kind : Kinds, data : Contents, conf : Confs \cup {None, Partial},
            src : FileNames \cup {None}]
States == [kind : Kinds, data : FileNames, conf : FileNames \cup {None},
           was : Contents]

Object(k, d, c, src) == [kind |-> k, data |-> d, conf |-> c, src |-> src]

(* What a state refers to; "was" is what the object had in memory, which   *)
(* the code does not record.                                               *)
State(k, f, cf, was) == [kind |-> k, data |-> f, conf |-> cf, was |-> was]

Complete(x) == pickles[x] \notin {None, Partial}
Read(f) == IF f = None THEN None ELSE files[f]
Free(p) == {o \in Objs : heap[p][o] = None}
Idle(p) == pc[p] = "idle"

(* The object to serialize next, the state to restore next. *)
Saving(p) == heap[p][objs[p][Len(states[p]) + 1]]
Loading(p) == states[p][Len(objs[p]) + 1]

(* uniq_file: the first name of the numbered series that is not taken      *)
(* (there is none when the bound on the numbers is reached).               *)
Numbered(d, k, part, n) == [dir |-> d, kind |-> k, part |-> part, num |-> n]

(* Mutant: the first name of the series, untested. *)
UniqUntested(d, k, part) == {Numbered(d, k, part, 0)}

Uniq(d, k, part) ==
  {f \in FileNames :
     /\ f = Numbered(d, k, part, f.num)
     /\ files[f] = None
     /\ \A n \in 0 .. (f.num - 1) : files[Numbered(d, k, part, n)] # None}

(* What Serialize writes: the object's content, or a copy of the file it   *)
(* came from.  A file that is not in a model's directory is the user's,    *)
(* and stays as it is.                                                     *)
Content(o) == IF o.kind \in Copies /\ o.src # None THEN files[o.src]
              ELSE o.data

(* Mutant: the config file does not count. *)
SignatureOfData(s) == [kind |-> s.kind, conf |-> None, data |-> files[s.data]]

(* JsonPersistHelper::sign over a state that has not been merged with its  *)
(* config file: members whose key ends in ":file" count with the content   *)
(* of the file, any other member with its value.                           *)
Signature(s) == [kind |-> s.kind, conf |-> Read(s.conf),
                 data |-> IF AddsFile(s.kind) THEN files[s.data]
                         ELSE s.data.num]

Signatures == [kind : Kinds, conf : Confs \cup {None, Partial},
               data : Data \cup {Partial} \cup 0 .. MaxNumber]

ASSUME NoneAssumption ==
  /\ None \notin FileNames \cup Paths \cup Objects \cup Signatures
  /\ None \notin Seq(States) /\ Partial \notin Seq(States)

Hits(p) == {e \in cache[p] : e.key = key[p]}

-----------------------------------------------------------------------------

NoSession(p) ==
  /\ pc' = [pc EXCEPT ![p] = "idle"]
  /\ path' = [path EXCEPT ![p] = None]
  /\ objs' = [objs EXCEPT ![p] = <<>>]
  /\ states' = [states EXCEPT ![p] = <<>>]
  /\ target' = [target EXCEPT ![p] = None]
  /\ dataFile' = [dataFile EXCEPT ![p] = None]
  /\ key' = [key EXCEPT ![p] = None]

Init ==
  /\ files = [f \in FileNames |-> None]
  /\ pickles = [x \in Paths |-> None]
  /\ heap = [p \in Procs |-> [o \in Objs |-> None]]
  /\ cache = [p \in Procs |-> {}]
  /\ pc = [p \in Procs |-> "idle"]
  /\ path = [p \in Procs |-> None]
  /\ objs = [p \in Procs |-> <<>>]
  /\ states = [p \in Procs |-> <<>>]
  /\ target = [p \in Procs |-> None]
  /\ dataFile = [p \in Procs |-> None]
  /\ key = [p \in Procs |-> None]

(* The user builds an object, from a file of theirs if it is of the        *)
(* copying kinds, or changes one: insert, add_regex, fit.  The C++ calls   *)
(* of a save or a load hold the interpreter lock, so that changes come     *)
(* between the objects of a model, and none to an object load has not      *)
(* returned yet.                                                           *)
Construct(p, k, d, c) ==
  /\ Idle(p)
  /\ Free(p) # {}
  /\ heap' = [heap EXCEPT ![p][CHOOSE o \in Free(p) : TRUE] =
                 Object(k, d, c, None)]
  /\ UNCHANGED <<disk, cache, session>>

Mutate(p, o, d) ==
  /\ \/ Idle(p)
     \/ pc[p] = "name" /\ dataFile[p] = None
     \/ pc[p] = "sign" /\ \A i \in 1 .. Len(objs[p]) : objs[p][i] # o
  /\ heap[p][o] # None
  /\ heap[p][o].kind \in MutableKinds
  /\ heap' = [heap EXCEPT ![p][o].data = d]
  /\ UNCHANGED <<disk, cache, session>>

(* The user edits a config file, between loads. *)
EditConfig(f, c) ==
  /\ \A p \in Procs : Idle(p)
  /\ f.part = "config"
  /\ files[f] \notin {None, Partial}
  /\ files' = [files EXCEPT ![f] = c]
  /\ UNCHANGED <<pickles, memory, session>>

(* A process dies: what it had in memory is gone, its files stay. *)
Crash(p) ==
  /\ heap' = [heap EXCEPT ![p] = [o \in Objs |-> None]]
  /\ cache' = [cache EXCEPT ![p] = {}]
  /\ NoSession(p)
  /\ UNCHANGED disk

-----------------------------------------------------------------------------
(* save: open(pickle_file, "wb") truncates the pickle, pickle.dump has     *)
(* every object serialize itself and closes the pickle in the end.         *)

(* Bound: there are names left for a model of n objects in directory d. *)
Room(d, n) ==
  \A k \in Kinds :
    Cardinality({i \in 0 .. MaxNumber :
      \A part \in {"data", "config"} : files[Numbered(d, k, part, i)] = None})
      >= n

SaveBegin(p, x, os) ==
  /\ Idle(p)
  /\ x.dir \in Home[p]
  /\ \A i \in 1 .. Len(os) : heap[p][os[i]] # None
  /\ Room(x.dir, Len(os))
  /\ pickles' = [pickles EXCEPT ![x] = Partial]
  /\ pc' = [pc EXCEPT ![p] = "name"]
  /\ path' = [path EXCEPT ![p] = x]
  /\ objs' = [objs EXCEPT ![p] = os]
  /\ UNCHANGED <<files, memory, states, target, dataFile, key>>

Name(p) ==
  /\ pc[p] = "name"
  /\ \E f \in Uniq(path[p].dir, Saving(p).kind,
                   IF dataFile[p] = None THEN "data" ELSE "config") :
       target' = [target EXCEPT ![p] = f]
  /\ pc' = [pc EXCEPT ![p] = "create"]
  /\ UNCHANGED <<disk, memory, path, objs, states, dataFile, key>>

(* Mutant: add_file overwrites. *)
CreateOverwrites(p) ==
  /\ pc[p] = "create"
  /\ files' = [files EXCEPT ![target[p]] = Partial]
  /\ pc' = [pc EXCEPT ![p] = "fill"]
  /\ UNCHANGED <<pickles, memory, path, objs, states, target, dataFile, key>>

(* open_ostream and open_file create the file or empty it.  add_file does  *)
(* not overwrite: efs::copy_file throws, and with it save.                 *)
Create(p) ==
  /\ pc[p] = "create"
  /\ Saving(p).kind = "tokenizer" => files[target[p]] = None
  /\ files' = [files EXCEPT ![target[p]] = Partial]
  /\ pc' = [pc EXCEPT ![p] = "fill"]
  /\ UNCHANGED <<pickles, memory, path, objs, states, target, dataFile, key>>

CreateFails(p) ==
  /\ pc[p] = "create"
  /\ Saving(p).kind = "tokenizer"
  /\ files[target[p]] # None
  /\ pc' = [pc EXCEPT ![p] = "failed"]
  /\ UNCHANGED <<disk, memory, path, objs, states, target, dataFile, key>>

(* The data file is written; an object with configurables goes on to its   *)
(* config file.                                                            *)
FillData(p) ==
  /\ pc[p] = "fill"
  /\ dataFile[p] = None
  /\ files' = [files EXCEPT ![target[p]] = Content(Saving(p))]
  /\ IF Saving(p).kind \in Configurable
     THEN /\ dataFile' = [dataFile EXCEPT ![p] = target[p]]
          /\ pc' = [pc EXCEPT ![p] = "name"]
          /\ UNCHANGED states
     ELSE /\ states' = [states EXCEPT ![p] = Append(@,
                          State(Saving(p).kind, target[p], None,
                                Saving(p).data))]
          /\ pc' = [pc EXCEPT ![p] =
                      IF Len(states'[p]) = Len(objs[p]) THEN "dump" ELSE "name"]
          /\ UNCHANGED dataFile
  /\ UNCHANGED <<pickles, memory, path, objs, target, key>>

FillConfig(p) ==
  /\ pc[p] = "fill"
  /\ dataFile[p] # None
  /\ files' = [files EXCEPT ![target[p]] = Saving(p).conf]
  /\ states' = [states EXCEPT ![p] = Append(@,
                  State(Saving(p).kind, dataFile[p], target[p],
                        Saving(p).data))]
  /\ dataFile' = [dataFile EXCEPT ![p] = None]
  /\ pc' = [pc EXCEPT ![p] =
              IF Len(states'[p]) = Len(objs[p]) THEN "dump" ELSE "name"]
  /\ UNCHANGED <<pickles, memory, path, objs, target, key>>

Dump(p) ==
  /\ pc[p] = "dump"
  /\ pickles' = [pickles EXCEPT ![path[p]] = states[p]]
  /\ NoSession(p)
  /\ UNCHANGED <<files, memory>>

-----------------------------------------------------------------------------
(* load: every state in the pickle goes through GetOrCreateObject, or,     *)
(* for the kinds that are not cached, straight to Deserialize.  A pickle   *)
(* that is cut short makes load throw at once, and changes nothing.        *)

LoadBegin(p, x) ==
  /\ Idle(p)
  /\ Complete(x)
  /\ Cardinality(Free(p)) >= Len(pickles[x])   \* bound
  /\ pc' = [pc EXCEPT ![p] = "sign"]
  /\ states' = [states EXCEPT ![p] = pickles[x]]
  /\ UNCHANGED <<disk, memory, path, objs, target, dataFile, key>>

Sign(p) ==
  /\ pc[p] = "sign"
  /\ key' = [key EXCEPT ![p] = IF Loading(p).kind \in Cached
                                THEN Signature(Loading(p)) ELSE None]
  /\ pc' = [pc EXCEPT ![p] = "make"]
  /\ UNCHANGED <<disk, memory, path, objs, states, target, dataFile>>

(* The object is handed to pickle, which asks for the next one. *)
Return(p, o) ==
  /\ objs' = [objs EXCEPT ![p] = Append(@, o)]
  /\ pc' = [pc EXCEPT ![p] =
              IF Len(objs'[p]) = Len(states[p]) THEN "loaded" ELSE "sign"]
  /\ UNCHANGED <<disk, path, states, target, dataFile, key>>

(* Mutant: a hit is not returned, and asked for again. *)
HitAgain(p) ==
  /\ pc[p] = "make"
  /\ Hits(p) # {}
  /\ pc' = [pc EXCEPT ![p] = "sign"]
  /\ UNCHANGED <<disk, memory, path, objs, states, target, dataFile, key>>

Hit(p) ==
  /\ pc[p] = "make"
  /\ \E e \in Hits(p) : Return(p, e.obj)
  /\ UNCHANGED memory

(* Deserialize reads the files once more.  An object of a copying kind     *)
(* remembers the file.                                                     *)
Deserialize(p) ==
  LET s == Loading(p)
      o == CHOOSE o \in Free(p) : TRUE
  IN  /\ pc[p] = "make"
      /\ Hits(p) = {}
      /\ AddsFile(s.kind)
      /\ Free(p) # {}   \* bound, never reached: see LoadBegin
      /\ heap' = [heap EXCEPT ![p][o] =
                    Object(s.kind, files[s.data], Read(s.conf),
                           IF s.kind \in Copies THEN s.data ELSE None)]
      /\ cache' = [cache EXCEPT ![p] =
                     IF s.kind \in Cached
                     THEN @ \cup {[key |-> key[p], obj |-> o]} ELSE @]
      /\ Return(p, o)

(* get_file does not find its key, and throws. *)
DeserializeFails(p) ==
  /\ pc[p] = "make"
  /\ Hits(p) = {}
  /\ ~AddsFile(Loading(p).kind)
  /\ pc' = [pc EXCEPT ![p] = "failed"]
  /\ UNCHANGED <<disk, memory, path, objs, states, target, dataFile, key>>

(* load returns the model, or save or load throws. *)
Finish(p) ==
  /\ pc[p] \in {"loaded", "failed"}
  /\ NoSession(p)
  /\ UNCHANGED <<disk, memory>>

-----------------------------------------------------------------------------

Step(p) ==
  \/ Name(p) \/ Create(p) \/ CreateFails(p)
  \/ FillData(p) \/ FillConfig(p) \/ Dump(p)
  \/ Sign(p) \/ Hit(p) \/ Deserialize(p) \/ DeserializeFails(p)
  \/ Finish(p)

(* What one save pickles: an object that occurs twice is serialized once.  *)
Models == {os \in UNION {[1 .. n -> Objs] : n \in 1 .. MaxLen} :
             \A i, j \in DOMAIN os : os[i] = os[j] => i = j}

Next ==
  \/ \E p \in Procs :
       \/ Step(p) \/ Crash(p)
       \/ \E x \in Paths : LoadBegin(p, x) \/ \E os \in Models : SaveBegin(p, x, os)
       \/ \E d \in Data :
            \/ \E k \in Kinds, c \in Confs \cup {None} :
                 (k \in Configurable <=> c # None) /\ Construct(p, k, d, c)
            \/ \E o \in Objs : Mutate(p, o, d)
  \/ \E f \in FileNames, c \in Confs : EditConfig(f, c)

(* A save or load that has begun goes on until it ends. *)
Spec == Init /\ [][Next]_vars /\ \A p \in Procs : WF_vars(Step(p))

-----------------------------------------------------------------------------

SavePlaces == {"name", "create", "fill", "dump"}
LoadPlaces == {"sign", "make", "loaded"}

TypeOK ==
  /\ files \in [FileNames -> Contents \cup Confs \cup {None}]
  /\ pickles \in [Paths -> Seq(States) \cup {None, Partial}]
  /\ heap \in [Procs -> [Objs -> Objects \cup {None}]]
  /\ cache \in [Procs -> SUBSET [key : Signatures, obj : Objs]]
  /\ pc \in [Procs -> {"idle", "failed"} \cup SavePlaces \cup LoadPlaces]
  /\ path \in [Procs -> Paths \cup {None}]
  /\ objs \in [Procs -> Seq(Objs)]
  /\ states \in [Procs -> Seq(States)]
  /\ target \in [Procs -> FileNames \cup {None}]
  /\ dataFile \in [Procs -> FileNames \cup {None}]
  /\ key \in [Procs -> Signatures \cup {None}]

(***************************************************************************)
(* A model that has been saved has in its files what its objects had in    *)
(* memory, whatever has been saved next to it since, by whom, and wherever *)
(* a process died.  An OrtSession is copied from the file it was loaded    *)
(* from, perhaps one of another model: that file has not changed either.   *)
(***************************************************************************)
ModelsIntact ==
  \A x \in Paths : Complete(x) =>
    \A i \in 1 .. Len(pickles[x]) :
      files[pickles[x][i].data] = pickles[x][i].was

(***************************************************************************)
(* A load returns objects of the kinds and with the contents that were     *)
(* saved, also when they come from the cache, and they are configured as   *)
(* their config files say now.  (Of kinds that are cached and changed      *)
(* after they were loaded, this is what the code does not do.)             *)
(***************************************************************************)
LoadRestores ==
  \A p \in Procs : pc[p] = "loaded" =>
    \A i \in 1 .. Len(states[p]) :
      LET o == heap[p][objs[p][i]]
          s == states[p][i]
      IN  o.kind = s.kind /\ o.data = s.was /\ o.conf = Read(s.conf)

(***************************************************************************)
(* "The pickled model could be further de-serialized again"                *)
(* (docs_src/backends/cpython.rst:31): no save and no load of a saved      *)
(* model throws.                                                           *)
(***************************************************************************)
NothingFails == \A p \in Procs : pc[p] # "failed"

(* A save or load that has begun ends. *)
SessionEnds == \A p \in Procs : ~Idle(p) ~> Idle(p)

(* The models on disk, as far as they have been saved. *)
OnDisk ==
  [x \in Paths |->
     IF Complete(x) THEN [i \in 1 .. Len(pickles[x]) |-> files[pickles[x][i].data]]
     ELSE pickles[x]]

Repository == INSTANCE ModelRepository WITH model <- OnDisk

(* The models on disk, read off their files, behave like a repository.     *)
ImplementsRepository == Repository!Spec

=============================================================================
