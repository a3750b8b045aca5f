---------------------------- MODULE ModelStoreInv ----------------------------
(***************************************************************************)
(* The inductive invariants of ModelStore: IndInv, under the two           *)
(* conditions it takes to keep models of any kinds apart, and RaceInv, for *)
(* processes that race for the same names.                                 *)
(***************************************************************************)
EXTENDS ModelStore

(* No two processes save to the same directory, and the kinds of objects   *)
(* that are cached are not changed.                                        *)
Apart ==
  /\ \A p, q \in Procs : p # q => Home[p] \cap Home[q] = {}
  /\ MutableKinds \cap Cached = {}

(* A state whose files are there, with what the object had in memory.      *)
(* (fs is the disk: these definitions are used of files and of files'.)    *)
Sound(fs, s) ==
  /\ s.data.part = "data"
  /\ fs[s.data] = s.was
  /\ s.was \in Data
  /\ IF s.kind \in Configurable
     THEN s.conf # None /\ s.conf.part = "config" /\ fs[s.conf] \in Confs
     ELSE s.conf = None

DiskInv ==
  \A x \in Paths : Complete(x) =>
    /\ Len(pickles[x]) > 0
    /\ \A i \in 1 .. Len(pickles[x]) : Sound(files, pickles[x][i])

(* An object is what its source file holds. *)
ObjectInv(fs, o) ==
  /\ o.data \in Data
  /\ o.conf \in IF o.kind \in Configurable THEN Confs ELSE {None}
  /\ o.src # None =>
       o.kind \in Copies /\ o.src.part = "data" /\ fs[o.src] = o.data

HeapInv ==
  \A p \in Procs, o \in Objs : heap[p][o] # None => ObjectInv(files, heap[p][o])

(* What is cached under a signature is what was signed. *)
CacheInv ==
  \A p \in Procs : \A e \in cache[p] :
    /\ heap[p][e.obj] # None
    /\ e.key.kind \in Cached /\ AddsFile(e.key.kind)
    /\ heap[p][e.obj].kind = e.key.kind
    /\ heap[p][e.obj].data = e.key.data
    /\ heap[p][e.obj].conf = e.key.conf

(* The file a save is about to create does not exist; one it has created   *)
(* is its own and empty.                                                   *)
SaveInv(p) ==
  /\ path[p] # None /\ path[p].dir \in Home[p]
  /\ pickles[path[p]] = Partial
  /\ \A i \in 1 .. Len(objs[p]) : heap[p][objs[p][i]] # None
  /\ \A i \in 1 .. Len(states[p]) : Sound(files, states[p][i])
  /\ pc[p] # "dump" => Len(states[p]) < Len(objs[p])
  /\ pc[p] = "dump" => Len(states[p]) > 0 /\ dataFile[p] = None
  /\ dataFile[p] # None =>
       /\ dataFile[p].part = "data"
       /\ Saving(p).kind \in Configurable
       /\ files[dataFile[p]] = Saving(p).data
  /\ pc[p] \in {"create", "fill"} =>
       /\ target[p] # None
       /\ target[p].dir = path[p].dir
       /\ target[p].part = IF dataFile[p] = None THEN "data" ELSE "config"
       /\ files[target[p]] = IF pc[p] = "create" THEN None ELSE Partial

(* Object o is what state s says. *)
Restores(fs, o, s) ==
  /\ o # None
  /\ o.kind = s.kind
  /\ o.data = s.was
  /\ o.conf = IF s.conf = None THEN None ELSE fs[s.conf]

LoadInv(p) ==
  /\ dataFile[p] = None
  /\ \A i \in 1 .. Len(states[p]) : Sound(files, states[p][i])
  /\ IF pc[p] = "loaded" THEN Len(objs[p]) = Len(states[p])
     ELSE Len(objs[p]) < Len(states[p])
  /\ \A i \in 1 .. Len(objs[p]) : Restores(files, heap[p][objs[p][i]], states[p][i])
  /\ pc[p] = "make" =>
       key[p] = IF Loading(p).kind \in Cached THEN Signature(Loading(p))
                ELSE None

SessionInv(p) ==
  /\ pc[p] = "idle" => states[p] = <<>> /\ objs[p] = <<>> /\ dataFile[p] = None
  /\ pc[p] \in SavePlaces => SaveInv(p)
  /\ pc[p] \in LoadPlaces => LoadInv(p)

IndInv ==
  TypeOK /\ DiskInv /\ HeapInv /\ CacheInv /\ \A p \in Procs : SessionInv(p)

-----------------------------------------------------------------------------
(* Processes that save to the same directory: what holds of the tokenizers *)
(* they save, whose add_file does not overwrite.                           *)

(* A session between uniq_file and the end of the copy: its objects and    *)
(* states are in order, and the file it has created is still cut short.    *)
RaceSession(p) ==
  /\ dataFile[p] = None
  /\ pc[p] = "idle" => states[p] = <<>> /\ objs[p] = <<>>
  /\ \A i \in 1 .. Len(states[p]) : Sound(files, states[p][i])
  /\ pc[p] \in SavePlaces =>
       \A i \in 1 .. Len(objs[p]) : heap[p][objs[p][i]] # None
  /\ pc[p] \in {"name", "create", "fill"} => Len(states[p]) < Len(objs[p])
  /\ pc[p] = "dump" => Len(states[p]) > 0
  /\ pc[p] \in {"create", "fill"} => target[p] # None /\ target[p].part = "data"
  /\ pc[p] = "fill" => files[target[p]] = Partial
  /\ pc[p] \in {"sign", "make"} => Len(objs[p]) < Len(states[p])
  /\ pc[p] = "make" => key[p] # None

(* Of the processes that were given the same name one has the file.        *)
OneWriter ==
  \A p, q \in Procs :
    p # q /\ pc[p] = "fill" /\ pc[q] = "fill" => target[p] # target[q]

NoConfigFiles == \A f \in FileNames : f.part = "config" => files[f] = None

RaceInv ==
  /\ TypeOK /\ DiskInv /\ HeapInv
  /\ \A p \in Procs : RaceSession(p)
  /\ OneWriter /\ NoConfigFiles

=============================================================================
