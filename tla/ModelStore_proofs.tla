------------------------- MODULE ModelStore_proofs -------------------------
(***************************************************************************)
(* Proofs about ModelStore, for any processes, directories, objects and    *)
(* contents: models do not disturb each other, loading restores what was   *)
(* saved, the files of the models make a ModelRepository, and tokenizers   *)
(* survive processes that race for the same names.                         *)
(***************************************************************************)
EXTENDS ModelStoreInv, TLAPS

-----------------------------------------------------------------------------
(* The disk may change under what refers to it. *)

(* A file that has content keeps it. *)
Keeps(fs, gs) ==
  \A f \in FileNames : fs[f] \notin {None, Partial} => gs[f] = fs[f]

(* A data file that has content keeps it, and a config file stays one. *)
Follows(fs, gs) ==
  \A f \in FileNames :
    /\ f.part = "data" /\ fs[f] \notin {None, Partial} => gs[f] = fs[f]
    /\ fs[f] \in Confs => gs[f] \in Confs

LEMMA KeepsFollows ==
  ASSUME NEW fs, NEW gs, Keeps(fs, gs)
  PROVE  Follows(fs, gs)
  BY StoreAssumption DEF Keeps, Follows

(* A saved state stays sound when its files stay.                          *)
LEMMA SoundFollows ==
  ASSUME NEW fs, NEW gs, Follows(fs, gs), NEW s \in States, Sound(fs, s)
  PROVE  Sound(gs, s)
  BY StoreAssumption DEF Follows, Sound, States

(* So does the invariant of an object.                                     *)
LEMMA ObjectFollows ==
  ASSUME NEW fs, NEW gs, Follows(fs, gs),
         NEW o \in Objects, ObjectInv(fs, o)
  PROVE  ObjectInv(gs, o)
  BY StoreAssumption DEF Follows, ObjectInv, Objects

(* A saved state goes on restoring the same object.                        *)
LEMMA RestoresKept ==
  ASSUME NEW fs, NEW gs, Keeps(fs, gs), NEW s \in States, Sound(fs, s),
         NEW o, Restores(fs, o, s)
  PROVE  Restores(gs, o, s)
  BY StoreAssumption DEF Keeps, Sound, States, Restores

(* The parts of the invariant that only look at the disk follow it. *)
LEMMA DiskFollows ==
  ASSUME TypeOK, DiskInv, Follows(files, files'), pickles' = pickles
  PROVE  DiskInv'
<1> SUFFICES ASSUME NEW x \in Paths, Complete(x),
                    NEW i \in 1 .. Len(pickles[x])
             PROVE  Sound(files', pickles[x][i])
  BY DEF DiskInv, Complete
<1>1. pickles[x] \in Seq(States)
  BY DEF TypeOK, Complete
<1>2. pickles[x][i] \in States /\ Sound(files, pickles[x][i])
  BY <1>1 DEF DiskInv
<1>. QED
  BY <1>2, SoundFollows

(* The objects of a process follow the disk.                               *)
LEMMA HeapFollows ==
  ASSUME TypeOK, HeapInv, Follows(files, files'), heap' = heap
  PROVE  HeapInv'
<1> SUFFICES ASSUME NEW p \in Procs, NEW o \in Objs, heap[p][o] # None
             PROVE  ObjectInv(files', heap[p][o])
  BY DEF HeapInv
<1>1. heap[p][o] \in Objects /\ ObjectInv(files, heap[p][o])
  BY DEF TypeOK, HeapInv
<1>. QED
  BY <1>1, ObjectFollows

(* The session of a process is not disturbed by steps of other processes,  *)
(* which leave its memory alone and its files as they are.                 *)
Undisturbed(q) ==
  /\ pc'[q] = pc[q] /\ path'[q] = path[q]
  /\ objs'[q] = objs[q] /\ states'[q] = states[q]
  /\ target'[q] = target[q] /\ dataFile'[q] = dataFile[q]
  /\ key'[q] = key[q]

LEMMA SessionKept ==
  ASSUME TypeOK, NEW q \in Procs, SessionInv(q), HeapInv,
         Undisturbed(q), heap'[q] = heap[q], Keeps(files, files'),
         pc[q] \in SavePlaces => pickles'[path[q]] = pickles[path[q]],
         pc[q] \in {"create", "fill"} => files'[target[q]] = files[target[q]]
  PROVE  SessionInv(q)'
<1> USE DEF Undisturbed
<1>0. /\ objs[q] \in Seq(Objs) /\ states[q] \in Seq(States)
      /\ heap[q] \in [Objs -> Objects \cup {None}]
      /\ target[q] \in FileNames \cup {None}
      /\ dataFile[q] \in FileNames \cup {None}
  BY DEF TypeOK
<1>1. ASSUME NEW i \in 1 .. Len(states[q]), Sound(files, states[q][i])
      PROVE  Sound(files', states[q][i])
  <2>1. states[q][i] \in States
    BY <1>0
  <2>. QED
    BY <1>1, <2>1, SoundFollows, KeepsFollows
<1>2. CASE pc[q] \in SavePlaces
  <2>1. SaveInv(q)
    BY <1>2 DEF SessionInv
  <2>2. dataFile[q] # None => files'[dataFile[q]] = Saving(q).data
    <3> SUFFICES ASSUME dataFile[q] # None
                 PROVE  files'[dataFile[q]] = Saving(q).data
      OBVIOUS
    <3>1. pc[q] # "dump" /\ Len(states[q]) + 1 \in 1 .. Len(objs[q])
      BY <1>0, <2>1 DEF SaveInv
    <3>2. objs[q][Len(states[q]) + 1] \in Objs
          /\ heap[q][objs[q][Len(states[q]) + 1]] # None
      BY <1>0, <2>1, <3>1 DEF SaveInv
    <3>3. Saving(q).data \in Data
      BY <3>2 DEF HeapInv, ObjectInv, Saving
    <3>. QED
      BY <1>0, <2>1, <3>3, StoreAssumption DEF SaveInv, Keeps
  <2>3. \A i \in 1 .. Len(states[q]) : Sound(files', states[q][i])
    BY <1>1, <2>1 DEF SaveInv
  <2>4. SaveInv(q)'
    BY <1>2, <2>1, <2>2, <2>3 DEF SaveInv, Saving
  <2>. QED
    BY <1>2, <2>4 DEF SessionInv, SavePlaces, LoadPlaces
<1>3. CASE pc[q] \in LoadPlaces
  <2>1. LoadInv(q)
    BY <1>3 DEF SessionInv
  <2>2. \A i \in 1 .. Len(states[q]) : Sound(files', states[q][i])
    BY <1>1, <2>1 DEF LoadInv
  <2>3. \A i \in 1 .. Len(objs[q]) :
          Restores(files', heap[q][objs[q][i]], states[q][i])
    <3> TAKE i \in 1 .. Len(objs[q])
    <3>1. i \in 1 .. Len(states[q]) /\ states[q][i] \in States
      BY <1>0, <2>1 DEF LoadInv
    <3>2. Sound(files, states[q][i])
          /\ Restores(files, heap[q][objs[q][i]], states[q][i])
      BY <2>1, <3>1 DEF LoadInv
    <3>. QED
      BY <3>1, <3>2, RestoresKept
  <2>4. pc[q] = "make" => Signature(Loading(q))' = Signature(Loading(q))
    <3> SUFFICES ASSUME pc[q] = "make"
                 PROVE  Signature(Loading(q))' = Signature(Loading(q))
      OBVIOUS
    <3> DEFINE s == Loading(q)
    <3>1. Len(objs[q]) + 1 \in 1 .. Len(states[q])
      BY <1>0, <2>1 DEF LoadInv
    <3>2. s \in States /\ Sound(files, s) /\ s' = s
      BY <1>0, <2>1, <3>1 DEF LoadInv, Loading
    <3>3. s.data \in FileNames /\ files'[s.data] = files[s.data]
      BY <3>2, StoreAssumption DEF Sound, States, Keeps
    <3>4. s.conf # None => files'[s.conf] = files[s.conf]
      BY <3>2, StoreAssumption DEF Sound, States, Keeps
    <3>. QED
      BY <3>2, <3>3, <3>4 DEF Signature, Read
  <2>5. LoadInv(q)'
    BY <2>1, <2>2, <2>3, <2>4 DEF LoadInv, Loading
  <2>. QED
    BY <1>3, <2>5 DEF SessionInv, SavePlaces, LoadPlaces
<1>4. CASE pc[q] \notin SavePlaces \cup LoadPlaces
  BY <1>4 DEF SessionInv
<1>. QED
  BY <1>2, <1>3, <1>4

-----------------------------------------------------------------------------
(* What is serialized or restored next is an object, or a sound state. *)
SavesObject(p) ==
  /\ Saving(p) \in Objects /\ ObjectInv(files, Saving(p))
  /\ path[p] \in Paths
  /\ dataFile[p] = None => Content(Saving(p)) = Saving(p).data

LEMMA SavingObject ==
  ASSUME IndInv, NEW p \in Procs, pc[p] \in {"name", "create", "fill"}
  PROVE  SavesObject(p)
<1>1. SaveInv(p)
  BY DEF IndInv, SessionInv, SavePlaces
<1>2. objs[p] \in Seq(Objs) /\ states[p] \in Seq(States)
      /\ path[p] \in Paths \cup {None}
      /\ heap[p] \in [Objs -> Objects \cup {None}]
  BY DEF IndInv, TypeOK
<1>3. Len(states[p]) + 1 \in 1 .. Len(objs[p])
  BY <1>1, <1>2 DEF SaveInv
<1>4. objs[p][Len(states[p]) + 1] \in Objs
  BY <1>2, <1>3
<1>5. Saving(p) \in Objects
  BY <1>1, <1>2, <1>3, <1>4 DEF SaveInv, Saving
<1>6. ObjectInv(files, Saving(p))
  BY <1>1, <1>3, <1>4 DEF SaveInv, Saving, IndInv, HeapInv
<1>. QED
  BY <1>1, <1>2, <1>5, <1>6 DEF SavesObject, SaveInv, Content, ObjectInv

LoadsState(p) ==
  /\ Loading(p) \in States /\ Sound(files, Loading(p))
  /\ Len(objs[p]) + 1 \in 1 .. Len(states[p])

(* A process that signs or makes an object loads a state.                  *)
LEMMA LoadingState ==
  ASSUME IndInv, NEW p \in Procs, pc[p] \in {"sign", "make"}
  PROVE  LoadsState(p)
<1>1. LoadInv(p)
  BY DEF IndInv, SessionInv, LoadPlaces
<1>2. objs[p] \in Seq(Objs) /\ states[p] \in Seq(States)
  BY DEF IndInv, TypeOK
<1>3. Len(objs[p]) + 1 \in 1 .. Len(states[p])
  BY <1>1, <1>2 DEF LoadInv
<1>. QED
  BY <1>1, <1>2, <1>3 DEF LoadInv, LoadsState, Loading

(* The other sessions are not disturbed by a step of p that leaves alone   *)
(* what they have in memory, and of the disk changes only what is in a     *)
(* directory of p.                                                         *)
StepOf(p) ==
  /\ \A q \in Procs \ {p} : Undisturbed(q) /\ heap'[q] = heap[q]
  /\ Keeps(files, files')
  /\ \A f \in FileNames : files'[f] # files[f] => f.dir \in Home[p]
  /\ \A x \in Paths : pickles'[x] # pickles[x] => x.dir \in Home[p]

LEMMA OthersKept ==
  ASSUME IndInv, Apart, NEW p \in Procs, StepOf(p), SessionInv(p)'
  PROVE  (\A q \in Procs : SessionInv(q))'
<1> SUFFICES ASSUME NEW q \in Procs \ {p}
             PROVE  SessionInv(q)'
  OBVIOUS
<1>1. /\ TypeOK /\ SessionInv(q) /\ HeapInv
      /\ target[q] \in FileNames \cup {None} /\ path[q] \in Paths \cup {None}
  BY DEF IndInv, TypeOK
<1>2. pc[q] \in SavePlaces => path[q] \in Paths /\ path[q].dir \in Home[q]
  BY <1>1 DEF SessionInv, SaveInv
<1>3. pc[q] \in SavePlaces => pickles'[path[q]] = pickles[path[q]]
  BY <1>2 DEF StepOf, Apart
<1>4. pc[q] \in {"create", "fill"} =>
        target[q] \in FileNames /\ target[q].dir = path[q].dir
  BY <1>1 DEF SessionInv, SaveInv, SavePlaces
<1>5. pc[q] \in {"create", "fill"} => files'[target[q]] = files[target[q]]
  BY <1>2, <1>4 DEF StepOf, Apart, SavePlaces
<1>. QED
  BY <1>1, <1>3, <1>5, SessionKept DEF StepOf

(* Steps that leave the disk or the memory alone. *)
LEMMA MemoryKept ==
  ASSUME IndInv, UNCHANGED <<pickles, memory>>, Follows(files, files')
  PROVE  DiskInv' /\ HeapInv' /\ CacheInv'
<1>1. DiskInv' /\ HeapInv'
  BY DiskFollows, HeapFollows DEF IndInv, memory
<1>2. CacheInv'
  BY DEF IndInv, CacheInv, memory
<1>. QED
  BY <1>1, <1>2

(* A step that leaves disk and memory alone keeps their invariants.        *)
LEMMA NothingKept ==
  ASSUME IndInv, UNCHANGED <<disk, memory>>
  PROVE  DiskInv' /\ HeapInv' /\ CacheInv'
  BY MemoryKept DEF Follows, disk

-----------------------------------------------------------------------------
(* Steps that only move the session of a process. *)
LEMMA Moves ==
  ASSUME IndInv, Apart, NEW p \in Procs,
         UNCHANGED <<disk, memory>>,
         \A q \in Procs \ {p} : Undisturbed(q),
         TypeOK', SessionInv(p)'
  PROVE  IndInv'
<1>1. StepOf(p)
  BY DEF StepOf, Keeps, disk, memory
<1>2. (\A q \in Procs : SessionInv(q))'
  BY <1>1, OthersKept
<1>. QED
  BY <1>2, NothingKept DEF IndInv

(* Choosing the name of a file keeps the invariant.                        *)
LEMMA NameStep ==
  ASSUME IndInv, Apart, NEW p \in Procs, Name(p)
  PROVE  IndInv'
<1>1. TypeOK /\ SaveInv(p)
  BY DEF IndInv, Name, SessionInv, SavePlaces
<1>2. PICK f \in Uniq(path[p].dir, Saving(p).kind,
                      IF dataFile[p] = None THEN "data" ELSE "config") :
        target' = [target EXCEPT ![p] = f]
  BY DEF Name
<1>3. /\ f \in FileNames /\ f.dir = path[p].dir /\ files[f] = None
      /\ f.part = IF dataFile[p] = None THEN "data" ELSE "config"
  BY <1>2 DEF Uniq, Numbered
<1>4. TypeOK'
  BY <1>1, <1>2, <1>3 DEF TypeOK, Name, disk, memory, SavePlaces
<1>5. \A q \in Procs \ {p} : Undisturbed(q)
  BY <1>1, <1>2 DEF Undisturbed, TypeOK, Name
<1>6. target'[p] = f /\ pc'[p] = "create" /\ f # None
  BY <1>1, <1>2, <1>3, NoneAssumption DEF TypeOK, Name
<1>7. SaveInv(p)'
  BY <1>1, <1>3, <1>6 DEF SaveInv, Name, Saving, disk, memory
<1>8. SessionInv(p)'
  BY <1>6, <1>7 DEF SessionInv, SavePlaces, LoadPlaces
<1>. QED
  BY <1>4, <1>5, <1>8, Moves DEF Name

(* Where the invariant holds, a file is never there before it is created.  *)
LEMMA CreateFailsStep ==
  ASSUME IndInv, NEW p \in Procs, CreateFails(p)
  PROVE  FALSE
  BY DEF IndInv, CreateFails, SessionInv, SaveInv, SavePlaces

(* Beginning to load keeps the invariant.                                  *)
LEMMA LoadBeginStep ==
  ASSUME IndInv, Apart, NEW p \in Procs, NEW x \in Paths, LoadBegin(p, x)
  PROVE  IndInv'
<1>1. TypeOK /\ SessionInv(p) /\ pc[p] = "idle"
  BY DEF IndInv, LoadBegin, Idle
<1>2. pickles[x] \in Seq(States) /\ Len(pickles[x]) > 0
      /\ \A i \in 1 .. Len(pickles[x]) : Sound(files, pickles[x][i])
  BY <1>1 DEF IndInv, DiskInv, TypeOK, LoadBegin, Complete
<1>3. TypeOK'
  BY <1>1, <1>2 DEF TypeOK, LoadBegin, disk, memory, LoadPlaces
<1>4. \A q \in Procs \ {p} : Undisturbed(q)
  BY <1>1 DEF Undisturbed, TypeOK, LoadBegin
<1>5. /\ states'[p] = pickles[x] /\ pc'[p] = "sign"
      /\ objs'[p] = <<>> /\ dataFile'[p] = None
  BY <1>1 DEF TypeOK, LoadBegin, SessionInv
<1>6. LoadInv(p)'
  BY <1>2, <1>5 DEF LoadInv, LoadBegin, disk
<1>7. SessionInv(p)'
  BY <1>5, <1>6 DEF SessionInv, SavePlaces, LoadPlaces
<1>. QED
  BY <1>3, <1>4, <1>7, Moves DEF LoadBegin

(* Reading what identifies an object keeps the invariant.                  *)
LEMMA SignStep ==
  ASSUME IndInv, Apart, NEW p \in Procs, Sign(p)
  PROVE  IndInv'
<1>1. TypeOK /\ LoadInv(p) /\ LoadsState(p) /\ pc[p] = "sign"
  BY LoadingState DEF IndInv, Sign, SessionInv, LoadPlaces
<1>2. Signature(Loading(p)) \in Signatures
  <2> DEFINE s == Loading(p)
  <2>1. s \in States /\ Sound(files, s)
    BY <1>1 DEF LoadsState
  <2>2. s.kind \in Kinds /\ s.data \in FileNames /\ files[s.data] \in Data
    BY <2>1 DEF Sound, States
  <2>3. Read(s.conf) \in Confs \cup {None, Partial}
    BY <2>1 DEF Sound, Read
  <2>. QED
    BY <2>2, <2>3 DEF Signature, Signatures, FileNames
<1>3. TypeOK'
  BY <1>1, <1>2 DEF TypeOK, Sign, disk, memory, LoadPlaces
<1>4. \A q \in Procs \ {p} : Undisturbed(q)
  BY <1>1 DEF Undisturbed, TypeOK, Sign
<1>5. /\ pc'[p] = "make" /\ Signature(Loading(p))' = Signature(Loading(p))
      /\ Loading(p)' = Loading(p)
      /\ key'[p] = IF Loading(p).kind \in Cached
                   THEN Signature(Loading(p)) ELSE None
  BY <1>1 DEF TypeOK, Sign, Loading, Signature, Read, disk
<1>6. LoadInv(p)'
  BY <1>1, <1>5 DEF LoadInv, Sign, disk, memory
<1>7. SessionInv(p)'
  BY <1>5, <1>6 DEF SessionInv, SavePlaces, LoadPlaces
<1>. QED
  BY <1>3, <1>4, <1>7, Moves DEF Sign

(* A load that fails keeps the invariant.                                  *)
LEMMA DeserializeFailsStep ==
  ASSUME IndInv, Apart, NEW p \in Procs, DeserializeFails(p)
  PROVE  IndInv'
<1>1. TypeOK
  BY DEF IndInv
<1>2. TypeOK'
  BY <1>1 DEF TypeOK, DeserializeFails, disk, memory
<1>3. \A q \in Procs \ {p} : Undisturbed(q)
  BY <1>1 DEF Undisturbed, TypeOK, DeserializeFails
<1>4. pc'[p] = "failed"
  BY <1>1 DEF TypeOK, DeserializeFails
<1>5. SessionInv(p)'
  BY <1>4 DEF SessionInv, SavePlaces, LoadPlaces
<1>. QED
  BY <1>2, <1>3, <1>5, Moves DEF DeserializeFails

(* A process without a session has one that is in order. *)
LEMMA Ended ==
  ASSUME TypeOK, NEW p \in Procs, NoSession(p)
  PROVE  /\ SessionInv(p)'
         /\ pc' \in [Procs -> {"idle", "failed"} \cup SavePlaces \cup LoadPlaces]
         /\ path' \in [Procs -> Paths \cup {None}]
         /\ objs' \in [Procs -> Seq(Objs)]
         /\ states' \in [Procs -> Seq(States)]
         /\ target' \in [Procs -> FileNames \cup {None}]
         /\ dataFile' \in [Procs -> FileNames \cup {None}]
         /\ key' \in [Procs -> Signatures \cup {None}]
         /\ \A q \in Procs \ {p} : Undisturbed(q)
<1>1. SessionInv(p)'
  BY DEF TypeOK, NoSession, SessionInv, SavePlaces, LoadPlaces
<1>2. \A q \in Procs \ {p} : Undisturbed(q)
  BY DEF TypeOK, NoSession, Undisturbed
<1>. QED
  BY <1>1, <1>2 DEF TypeOK, NoSession

(* The end of a session keeps the invariant.                               *)
LEMMA FinishStep ==
  ASSUME IndInv, Apart, NEW p \in Procs, Finish(p)
  PROVE  IndInv'
<1>1. TypeOK /\ NoSession(p)
  BY DEF IndInv, Finish
<1>2. TypeOK'
  BY <1>1, Ended DEF TypeOK, Finish, disk, memory
<1>. QED
  BY <1>1, <1>2, Ended, Moves DEF Finish

-----------------------------------------------------------------------------
(* Object o, in memory after the step, restores the next state: it is      *)
(* handed to pickle.                                                       *)
LEMMA Returns ==
  ASSUME IndInv, NEW p \in Procs, pc[p] = "make",
         NEW o \in Objs, Return(p, o), UNCHANGED disk,
         \A i \in 1 .. Len(objs[p]) :
           heap'[p][objs[p][i]] = heap[p][objs[p][i]],
         Restores(files, heap'[p][o], Loading(p))
  PROVE  SessionInv(p)'
<1>1. TypeOK /\ LoadInv(p) /\ LoadsState(p)
  BY LoadingState DEF IndInv, SessionInv, LoadPlaces
<1>2. objs[p] \in Seq(Objs) /\ states[p] \in Seq(States)
  BY <1>1 DEF TypeOK
<1>3. /\ objs'[p] = Append(objs[p], o) /\ states'[p] = states[p]
      /\ dataFile'[p] = None
      /\ pc'[p] = IF Len(objs'[p]) = Len(states[p]) THEN "loaded" ELSE "sign"
  BY <1>1 DEF TypeOK, LoadInv, Return
<1>4. Len(objs[p]) < Len(states[p])
  BY <1>1 DEF LoadInv
<1>5. \A i \in 1 .. Len(objs'[p]) :
        Restores(files', heap'[p][objs'[p][i]], states'[p][i])
  <2> TAKE i \in 1 .. Len(objs'[p])
  <2>1. CASE i \in 1 .. Len(objs[p])
    BY <1>1, <1>2, <1>3, <2>1 DEF LoadInv, disk
  <2>2. CASE i = Len(objs[p]) + 1
    BY <1>2, <1>3, <2>2 DEF Loading, disk
  <2>. QED
    BY <1>2, <1>3, <2>1, <2>2
<1>6. Len(objs'[p]) = Len(objs[p]) + 1
  BY <1>2, <1>3
<1>7. \A i \in 1 .. Len(states'[p]) : Sound(files', states'[p][i])
  BY <1>1, <1>3 DEF LoadInv, disk
<1>8. LoadInv(p)'
  BY <1>2, <1>3, <1>4, <1>5, <1>6, <1>7 DEF LoadInv
<1>. QED
  BY <1>3, <1>8 DEF SessionInv, SavePlaces, LoadPlaces

(* An object that is returned leaves the types and the other processes as  *)
(* they were.                                                              *)
LEMMA ReturnTypes ==
  ASSUME TypeOK, NEW p \in Procs, NEW o \in Objs, Return(p, o),
         heap' \in [Procs -> [Objs -> Objects \cup {None}]],
         cache' \in [Procs -> SUBSET [key : Signatures, obj : Objs]]
  PROVE  TypeOK' /\ \A q \in Procs \ {p} : Undisturbed(q)
<1>1. objs'[p] \in Seq(Objs) /\ objs' \in [Procs -> Seq(Objs)]
  BY DEF TypeOK, Return
<1>2. TypeOK'
  BY <1>1 DEF TypeOK, Return, disk, LoadPlaces
<1>. QED
  BY <1>2 DEF TypeOK, Return, Undisturbed

(* An object that is found in the cache keeps the invariant.               *)
LEMMA HitStep ==
  ASSUME IndInv, Apart, NEW p \in Procs, Hit(p)
  PROVE  IndInv'
<1>1. PICK e \in Hits(p) : Return(p, e.obj)
  BY DEF Hit
<1>2. /\ TypeOK /\ CacheInv /\ pc[p] = "make"
      /\ LoadInv(p) /\ LoadsState(p)
  BY LoadingState DEF IndInv, Hit, SessionInv, LoadPlaces
<1>3. /\ e \in cache[p] /\ e.key = key[p]
      /\ e.obj \in Objs /\ e.key \in Signatures
  BY <1>2 DEF Hits, TypeOK
<1>4. key[p] = Signature(Loading(p))
  BY <1>2, <1>3, NoneAssumption DEF LoadInv
<1>5. /\ heap[p][e.obj] # None
      /\ heap[p][e.obj].kind = Loading(p).kind
      /\ heap[p][e.obj].data = files[Loading(p).data]
      /\ heap[p][e.obj].conf = Read(Loading(p).conf)
  BY <1>2, <1>3, <1>4 DEF CacheInv, Signature
<1>6. Restores(files, heap[p][e.obj], Loading(p))
  BY <1>2, <1>5 DEF Restores, LoadsState, Sound, Read
<1>7. UNCHANGED <<disk, memory>>
  BY <1>1 DEF Hit, Return
<1>8. TypeOK' /\ \A q \in Procs \ {p} : Undisturbed(q)
  BY <1>1, <1>2, <1>3, <1>7, ReturnTypes DEF TypeOK, memory
<1>9. SessionInv(p)'
  BY <1>1, <1>2, <1>3, <1>6, <1>7, Returns DEF memory
<1>. QED
  BY <1>7, <1>8, <1>9, Moves

(* An object that is made from its files keeps the invariant.              *)
LEMMA DeserializeStep ==
  ASSUME IndInv, Apart, NEW p \in Procs, Deserialize(p)
  PROVE  IndInv'
<1> DEFINE s == Loading(p)
           o == CHOOSE o \in Free(p) : TRUE
           new == Object(s.kind, files[s.data], Read(s.conf),
                         IF s.kind \in Copies THEN s.data ELSE None)
<1>1. /\ TypeOK /\ pc[p] = "make" /\ LoadInv(p) /\ LoadsState(p)
  BY LoadingState DEF IndInv, Deserialize, SessionInv, LoadPlaces
<1>2. o \in Objs /\ heap[p][o] = None
  BY DEF Deserialize, Free
<1>3. /\ s \in States /\ Sound(files, s) /\ AddsFile(s.kind)
      /\ s.data \in FileNames /\ files[s.data] \in Data
  BY <1>1 DEF LoadsState, Sound, States, Deserialize
<1>4. Read(s.conf) \in IF s.kind \in Configurable THEN Confs ELSE {None}
  BY <1>3 DEF Sound, Read
<1>5. new \in Objects /\ ObjectInv(files, new) /\ new # None
  <2>1. new \in Objects
    BY <1>3, <1>4 DEF Object, Objects, States, Contents, Configurable
  <2>2. ObjectInv(files, new)
    BY <1>3, <1>4 DEF Object, ObjectInv, Sound
  <2>. QED
    BY <2>1, <2>2, NoneAssumption
<1>6. /\ heap' = [heap EXCEPT ![p][o] = new]
      /\ Return(p, o)
      /\ cache' = [cache EXCEPT ![p] =
                     IF s.kind \in Cached
                     THEN @ \cup {[key |-> key[p], obj |-> o]} ELSE @]
  BY DEF Deserialize
<1>7. /\ UNCHANGED disk
      /\ heap'[p][o] = new
      /\ \A i \in Objs : i # o => heap'[p][i] = heap[p][i]
      /\ \A q \in Procs : q # p => heap'[q] = heap[q] /\ cache'[q] = cache[q]
  BY <1>1, <1>2, <1>6 DEF TypeOK, Return
<1>8. s.kind \in Cached => key[p] = Signature(s) /\ Signature(s) \in Signatures
  <2>1. Signature(s) \in Signatures
    BY <1>3, <1>4 DEF Signature, Signatures, States, Sound
  <2>. QED
    BY <1>1, <2>1 DEF LoadInv
<1>9. /\ heap' \in [Procs -> [Objs -> Objects \cup {None}]]
      /\ cache' \in [Procs -> SUBSET [key : Signatures, obj : Objs]]
  <2>1. heap' \in [Procs -> [Objs -> Objects \cup {None}]]
    BY <1>1, <1>2, <1>5, <1>6 DEF TypeOK
  <2>2. s.kind \in Cached =>
          [key |-> key[p], obj |-> o] \in [key : Signatures, obj : Objs]
    BY <1>2, <1>8
  <2>3. cache' \in [Procs -> SUBSET [key : Signatures, obj : Objs]]
    BY <1>1, <1>6, <2>2 DEF TypeOK
  <2>. QED
    BY <2>1, <2>3
<1>10. TypeOK' /\ \A q \in Procs \ {p} : Undisturbed(q)
  BY <1>1, <1>2, <1>6, <1>9, ReturnTypes
<1>11. HeapInv'
  BY <1>5, <1>7 DEF IndInv, HeapInv, disk
<1>12. CacheInv'
  <2> SUFFICES ASSUME NEW q \in Procs, NEW e \in cache'[q]
               PROVE  /\ heap'[q][e.obj] # None
                      /\ e.key.kind \in Cached /\ AddsFile(e.key.kind)
                      /\ heap'[q][e.obj].kind = e.key.kind
                      /\ heap'[q][e.obj].data = e.key.data
                      /\ heap'[q][e.obj].conf = e.key.conf
    BY DEF CacheInv
  <2>1. CASE e \in cache[q]
    <3>1. heap[q][e.obj] # None /\ e.obj \in Objs
      BY <1>1, <2>1 DEF IndInv, CacheInv, TypeOK
    <3>2. heap'[q][e.obj] = heap[q][e.obj]
      BY <1>2, <1>7, <3>1
    <3>. QED
      BY <2>1, <3>2 DEF IndInv, CacheInv
  <2>2. CASE e \notin cache[q]
    <3>1. q = p /\ s.kind \in Cached /\ e = [key |-> key[p], obj |-> o]
      BY <1>1, <1>6, <1>7, <2>2 DEF TypeOK
    <3>. QED
      BY <1>3, <1>5, <1>7, <1>8, <3>1 DEF Signature, Object
  <2>. QED
    BY <2>1, <2>2
<1>13. \A i \in 1 .. Len(objs[p]) :
         heap'[p][objs[p][i]] = heap[p][objs[p][i]]
  <2> TAKE i \in 1 .. Len(objs[p])
  <2>1. objs[p][i] \in Objs /\ heap[p][objs[p][i]] # None
    BY <1>1 DEF TypeOK, LoadInv, Restores
  <2>. QED
    BY <1>2, <1>7, <2>1
<1>14. Restores(files, heap'[p][o], s)
  BY <1>3, <1>5, <1>7 DEF Restores, Object, Sound, Read
<1>15. SessionInv(p)'
  BY <1>1, <1>2, <1>6, <1>7, <1>13, <1>14, Returns
<1>16. DiskInv'
  BY <1>7 DEF IndInv, DiskInv, Complete, disk
<1>17. StepOf(p)
  BY <1>7, <1>10 DEF StepOf, Keeps, disk
<1>18. (\A q \in Procs : SessionInv(q))'
  BY <1>15, <1>17, OthersKept
<1>. QED
  BY <1>10, <1>11, <1>12, <1>16, <1>18 DEF IndInv

-----------------------------------------------------------------------------
(* Steps that write a file. *)

(* The file p writes to is its own. *)
LEMMA WritesOwn ==
  ASSUME IndInv, NEW p \in Procs, pc[p] \in {"create", "fill"},
         NEW c, files' = [files EXCEPT ![target[p]] = c],
         UNCHANGED <<pickles, memory>>,
         \A q \in Procs \ {p} : Undisturbed(q)
  PROVE  /\ target[p] \in FileNames /\ target[p].dir = path[p].dir
         /\ target[p].part = IF dataFile[p] = None THEN "data" ELSE "config"
         /\ files'[target[p]] = c
         /\ \A f \in FileNames : f # target[p] => files'[f] = files[f]
         /\ StepOf(p) /\ Follows(files, files')
<1>1. TypeOK /\ SaveInv(p)
  BY DEF IndInv, SessionInv, SavePlaces
<1>2. /\ target[p] \in FileNames /\ target[p].dir = path[p].dir
      /\ target[p].part = IF dataFile[p] = None THEN "data" ELSE "config"
      /\ path[p].dir \in Home[p] /\ files[target[p]] \in {None, Partial}
  BY <1>1 DEF SaveInv, TypeOK
<1>3. /\ files'[target[p]] = c
      /\ \A f \in FileNames : f # target[p] => files'[f] = files[f]
  BY <1>1, <1>2 DEF TypeOK
<1>4. StepOf(p)
  BY <1>2, <1>3 DEF StepOf, Keeps, memory
<1>5. Follows(files, files')
  BY <1>4, KeepsFollows DEF StepOf
<1>. QED
  BY <1>2, <1>3, <1>4, <1>5

(* Creating a file keeps the invariant.                                    *)
LEMMA CreateStep ==
  ASSUME IndInv, Apart, NEW p \in Procs, Create(p)
  PROVE  IndInv'
<1>1. TypeOK /\ SaveInv(p) /\ pc[p] = "create"
  BY DEF IndInv, Create, SessionInv, SavePlaces
<1>2. \A q \in Procs \ {p} : Undisturbed(q)
  BY <1>1 DEF Create, TypeOK, Undisturbed
<1>3. /\ target[p] \in FileNames
      /\ files'[target[p]] = Partial
      /\ \A f \in FileNames : f # target[p] => files'[f] = files[f]
      /\ StepOf(p) /\ Follows(files, files')
  BY <1>1, <1>2, WritesOwn DEF Create
<1>4. TypeOK'
  BY <1>1, <1>3 DEF TypeOK, Create, memory, SavePlaces, Contents
<1>5. pc'[p] = "fill" /\ UNCHANGED <<pickles, memory, path, objs, states, target, dataFile, key>>
  BY <1>1 DEF Create, TypeOK
<1>6. \A i \in 1 .. Len(states[p]) : Sound(files', states[p][i])
  <2> TAKE i \in 1 .. Len(states[p])
  <2>1. states[p][i] \in States /\ Sound(files, states[p][i])
    BY <1>1 DEF SaveInv, TypeOK
  <2>. QED
    BY <1>3, <2>1, SoundFollows
<1>7. SavesObject(p)
  BY <1>1, SavingObject
<1>8. dataFile[p] # None => files'[dataFile[p]] = Saving(p).data
  BY <1>1, <1>3, <1>7, StoreAssumption DEF SaveInv, SavesObject, ObjectInv, TypeOK
<1>9. SaveInv(p)'
  BY <1>1, <1>3, <1>5, <1>6, <1>8 DEF SaveInv, Saving, memory
<1>10. SessionInv(p)'
  BY <1>5, <1>9 DEF SessionInv, SavePlaces, LoadPlaces
<1>11. (\A q \in Procs : SessionInv(q))'
  BY <1>3, <1>10, OthersKept
<1>. QED
  BY <1>3, <1>4, <1>5, <1>11, MemoryKept DEF IndInv

(* The state of the object that is serialized is complete. *)
LEMMA Appends ==
  ASSUME IndInv, NEW p \in Procs, pc[p] = "fill", Follows(files, files'),
         TypeOK', NEW s \in States, Sound(files', s),
         states'[p] = Append(states[p], s),
         dataFile'[p] = None, UNCHANGED <<pickles, memory, path, objs>>,
         pc'[p] = IF Len(states'[p]) = Len(objs[p]) THEN "dump" ELSE "name"
  PROVE  SessionInv(p)'
<1>1. TypeOK /\ SaveInv(p)
  BY DEF IndInv, SessionInv, SavePlaces
<1>2. states[p] \in Seq(States) /\ objs[p] \in Seq(Objs)
  BY <1>1 DEF TypeOK
<1>3. \A i \in 1 .. Len(states'[p]) : Sound(files', states'[p][i])
  <2> TAKE i \in 1 .. Len(states'[p])
  <2>1. CASE i \in 1 .. Len(states[p])
    <3>1. states[p][i] \in States /\ Sound(files, states[p][i])
      BY <1>1, <1>2, <2>1 DEF SaveInv
    <3>2. Sound(files', states[p][i])
      BY <3>1, SoundFollows
    <3>. QED
      BY <1>2, <2>1, <3>2
  <2>2. CASE i = Len(states[p]) + 1
    BY <1>2, <2>2
  <2>. QED
    BY <1>2, <2>1, <2>2
<1>4. Len(states'[p]) = Len(states[p]) + 1 /\ Len(states[p]) < Len(objs[p])
  BY <1>1, <1>2 DEF SaveInv
<1>5. SaveInv(p)'
  BY <1>1, <1>2, <1>3, <1>4 DEF SaveInv, memory
<1>. QED
  BY <1>5 DEF SessionInv, SavePlaces, LoadPlaces

(* Writing the data of an object keeps the invariant.                      *)
LEMMA FillDataStep ==
  ASSUME IndInv, Apart, NEW p \in Procs, FillData(p)
  PROVE  IndInv'
<1> DEFINE o == Saving(p)
           s == State(o.kind, target[p], None, o.data)
<1>1. /\ TypeOK /\ SaveInv(p) /\ pc[p] = "fill" /\ dataFile[p] = None
      /\ SavesObject(p)
  BY SavingObject DEF IndInv, FillData, SessionInv, SavePlaces
<1>2. \A q \in Procs \ {p} : Undisturbed(q)
  BY <1>1 DEF FillData, TypeOK, Undisturbed
<1>3. /\ target[p] \in FileNames /\ target[p].part = "data"
      /\ files'[target[p]] = Content(o)
      /\ \A f \in FileNames : f # target[p] => files'[f] = files[f]
      /\ StepOf(p) /\ Follows(files, files')
  BY <1>1, <1>2, WritesOwn DEF FillData
<1>4. Content(o) = o.data /\ o.data \in Data /\ o.kind \in Kinds
  BY <1>1 DEF SavesObject, Objects, ObjectInv
<1>5. s \in States /\ (o.kind \notin Configurable => Sound(files', s))
  BY <1>3, <1>4 DEF State, States, Sound, Contents
<1>6. TypeOK'
  <2>1. files' \in [FileNames -> Contents \cup Confs \cup {None}]
    BY <1>1, <1>3, <1>4 DEF TypeOK, FillData, Contents
  <2>2. states' \in [Procs -> Seq(States)]
    <3>1. states' = states \/ states' = [states EXCEPT ![p] = Append(states[p], s)]
      BY DEF FillData
    <3>2. Append(states[p], s) \in Seq(States)
      BY <1>1, <1>5 DEF TypeOK
    <3>. QED
      BY <1>1, <3>1, <3>2 DEF TypeOK
  <2>. QED
    BY <1>1, <1>3, <2>1, <2>2 DEF TypeOK, FillData, memory, SavePlaces
<1>7. UNCHANGED <<pickles, memory, path, objs, target, key>>
  BY DEF FillData
<1>8. CASE o.kind \in Configurable
  <2>1. /\ states' = states /\ dataFile'[p] = target[p] /\ pc'[p] = "name"
    BY <1>1, <1>8 DEF FillData, TypeOK
  <2>2. \A i \in 1 .. Len(states[p]) : Sound(files', states[p][i])
    <3> TAKE i \in 1 .. Len(states[p])
    <3>1. states[p][i] \in States /\ Sound(files, states[p][i])
      BY <1>1 DEF SaveInv, TypeOK
    <3>. QED
      BY <1>3, <3>1, SoundFollows
  <2>3. SaveInv(p)'
    BY <1>1, <1>3, <1>4, <1>7, <1>8, <2>1, <2>2 DEF SaveInv, Saving, memory
  <2>. QED
    <3>1. SessionInv(p)'
      BY <2>1, <2>3 DEF SessionInv, SavePlaces, LoadPlaces
    <3>2. (\A q \in Procs : SessionInv(q))'
      BY <1>3, <3>1, OthersKept
    <3>. QED
      BY <1>3, <1>6, <1>7, <3>2, MemoryKept DEF IndInv
<1>9. CASE o.kind \notin Configurable
  <2>1. /\ states'[p] = Append(states[p], s) /\ dataFile'[p] = None
        /\ pc'[p] = IF Len(states'[p]) = Len(objs[p]) THEN "dump" ELSE "name"
    BY <1>1, <1>9 DEF FillData, TypeOK
  <2>2. SessionInv(p)'
    BY <1>1, <1>3, <1>5, <1>6, <1>7, <1>9, <2>1, Appends
  <2>3. (\A q \in Procs : SessionInv(q))'
    BY <1>3, <2>2, OthersKept
  <2>. QED
    BY <1>3, <1>6, <1>7, <2>3, MemoryKept DEF IndInv
<1>. QED
  BY <1>8, <1>9

(* Writing a configuration keeps the invariant.                            *)
LEMMA FillConfigStep ==
  ASSUME IndInv, Apart, NEW p \in Procs, FillConfig(p)
  PROVE  IndInv'
<1> DEFINE o == Saving(p)
           s == State(o.kind, dataFile[p], target[p], o.data)
<1>1. /\ TypeOK /\ SaveInv(p) /\ pc[p] = "fill" /\ dataFile[p] # None
      /\ SavesObject(p)
  BY SavingObject DEF IndInv, FillConfig, SessionInv, SavePlaces
<1>2. \A q \in Procs \ {p} : Undisturbed(q)
  BY <1>1 DEF FillConfig, TypeOK, Undisturbed
<1>3. /\ target[p] \in FileNames /\ target[p].part = "config"
      /\ files'[target[p]] = o.conf
      /\ \A f \in FileNames : f # target[p] => files'[f] = files[f]
      /\ StepOf(p) /\ Follows(files, files')
  BY <1>1, <1>2, WritesOwn DEF FillConfig
<1>4. /\ dataFile[p] \in FileNames /\ dataFile[p].part = "data"
      /\ files[dataFile[p]] = o.data /\ o.kind \in Configurable
  BY <1>1 DEF SaveInv, TypeOK
<1>5. o.data \in Data /\ o.kind \in Kinds /\ o.conf \in Confs
  BY <1>1, <1>4 DEF SavesObject, Objects, ObjectInv
<1>6. s \in States
  BY <1>3, <1>4, <1>5 DEF State, States, Contents
<1>7. Sound(files', s)
  BY <1>3, <1>4, <1>5, NoneAssumption DEF State, Sound
<1>8. TypeOK'
  <2>1. files' \in [FileNames -> Contents \cup Confs \cup {None}]
    BY <1>1, <1>3, <1>5 DEF TypeOK, FillConfig
  <2>2. states' \in [Procs -> Seq(States)]
    BY <1>1, <1>6 DEF TypeOK, FillConfig
  <2>. QED
    BY <1>1, <2>1, <2>2 DEF TypeOK, FillConfig, memory, SavePlaces
<1>9. UNCHANGED <<pickles, memory, path, objs, target, key>>
  BY DEF FillConfig
<1>10. /\ states'[p] = Append(states[p], s) /\ dataFile'[p] = None
       /\ pc'[p] = IF Len(states'[p]) = Len(objs[p]) THEN "dump" ELSE "name"
  BY <1>1 DEF FillConfig, TypeOK
<1>11. SessionInv(p)'
  BY <1>1, <1>3, <1>6, <1>7, <1>8, <1>9, <1>10, Appends
<1>12. (\A q \in Procs : SessionInv(q))'
  BY <1>3, <1>11, OthersKept
<1>. QED
  BY <1>3, <1>8, <1>9, <1>12, MemoryKept DEF IndInv

-----------------------------------------------------------------------------
(* Steps that write a pickle. *)
LEMMA SaveBeginStep ==
  ASSUME IndInv, Apart, NEW p \in Procs, NEW x \in Paths, NEW os \in Models,
         SaveBegin(p, x, os)
  PROVE  IndInv'
<1>1. TypeOK /\ SessionInv(p) /\ pc[p] = "idle"
  BY DEF IndInv, SaveBegin, Idle
<1>2. os \in Seq(Objs) /\ Len(os) > 0
  BY StoreAssumption DEF Models
<1>3. /\ states'[p] = <<>> /\ dataFile'[p] = None
      /\ pc'[p] = "name" /\ path'[p] = x /\ objs'[p] = os
      /\ pickles'[x] = Partial
      /\ \A y \in Paths : y # x => pickles'[y] = pickles[y]
      /\ x.dir \in Home[p]
  BY <1>1 DEF SaveBegin, TypeOK, SessionInv
<1>4. \A q \in Procs \ {p} : Undisturbed(q)
  BY <1>1 DEF SaveBegin, TypeOK, Undisturbed
<1>5. TypeOK'
  BY <1>1, <1>2 DEF TypeOK, SaveBegin, memory, SavePlaces
<1>6. StepOf(p)
  BY <1>3, <1>4 DEF StepOf, Keeps, SaveBegin, memory
<1>7. DiskInv'
  BY <1>3 DEF IndInv, DiskInv, Complete, SaveBegin
<1>8. HeapInv' /\ CacheInv'
  BY DEF IndInv, HeapInv, CacheInv, SaveBegin, memory
<1>9. SaveInv(p)'
  BY <1>2, <1>3, NoneAssumption DEF SaveInv, SaveBegin, memory
<1>10. SessionInv(p)'
  BY <1>3, <1>9 DEF SessionInv, SavePlaces, LoadPlaces
<1>11. (\A q \in Procs : SessionInv(q))'
  BY <1>6, <1>10, OthersKept
<1>. QED
  BY <1>5, <1>7, <1>8, <1>11 DEF IndInv

(* Writing the state keeps the invariant.                                  *)
LEMMA DumpStep ==
  ASSUME IndInv, Apart, NEW p \in Procs, Dump(p)
  PROVE  IndInv'
<1>1. TypeOK /\ SaveInv(p) /\ pc[p] = "dump"
  BY DEF IndInv, Dump, SessionInv, SavePlaces
<1>2. /\ path[p] \in Paths /\ path[p].dir \in Home[p]
      /\ states[p] \in Seq(States) /\ Len(states[p]) > 0
  BY <1>1 DEF SaveInv, TypeOK
<1>3. /\ pickles'[path[p]] = states[p]
      /\ \A y \in Paths : y # path[p] => pickles'[y] = pickles[y]
  BY <1>1, <1>2 DEF Dump, TypeOK
<1>4. NoSession(p) /\ UNCHANGED <<files, memory>>
  BY DEF Dump
<1>5. TypeOK'
  BY <1>1, <1>2, <1>4, Ended DEF TypeOK, Dump, memory
<1>6. StepOf(p)
  BY <1>1, <1>2, <1>3, <1>4, Ended DEF StepOf, Keeps, memory
<1>7. DiskInv'
  BY <1>1, <1>2, <1>3, <1>4 DEF IndInv, DiskInv, Complete, SaveInv
<1>8. HeapInv' /\ CacheInv'
  BY <1>4 DEF IndInv, HeapInv, CacheInv, memory
<1>9. (\A q \in Procs : SessionInv(q))'
  BY <1>1, <1>4, <1>6, Ended, OthersKept
<1>. QED
  BY <1>5, <1>7, <1>8, <1>9 DEF IndInv

-----------------------------------------------------------------------------
(* What users do to objects and config files, and crashes. *)
LEMMA ConstructStep ==
  ASSUME IndInv, Apart, NEW p \in Procs, NEW k \in Kinds, NEW d \in Data,
         NEW c \in Confs \cup {None}, k \in Configurable <=> c # None,
         Construct(p, k, d, c)
  PROVE  IndInv'
<1> DEFINE o == CHOOSE o \in Free(p) : TRUE
           new == Object(k, d, c, None)
<1>1. TypeOK /\ SessionInv(p) /\ pc[p] = "idle"
  BY DEF IndInv, Construct, Idle
<1>2. o \in Objs /\ heap[p][o] = None
  BY DEF Construct, Free
<1>3. new \in Objects /\ ObjectInv(files, new) /\ new # None
  <2>1. new \in Objects /\ ObjectInv(files, new)
    BY DEF Object, Objects, ObjectInv, Contents
  <2>. QED
    BY <2>1, NoneAssumption
<1>4. /\ heap' = [heap EXCEPT ![p][o] = new]
      /\ UNCHANGED <<disk, cache, session>>
  BY DEF Construct
<1>5. /\ heap'[p][o] = new
      /\ \A i \in Objs : i # o => heap'[p][i] = heap[p][i]
      /\ \A q \in Procs : q # p => heap'[q] = heap[q]
  BY <1>1, <1>2, <1>4 DEF TypeOK
<1>6. TypeOK'
  BY <1>1, <1>2, <1>3, <1>4 DEF TypeOK, disk, session
<1>7. DiskInv'
  BY <1>4 DEF IndInv, DiskInv, Complete, disk
<1>8. HeapInv'
  BY <1>3, <1>4, <1>5 DEF IndInv, HeapInv, disk
<1>9. CacheInv'
  <2> SUFFICES ASSUME NEW q \in Procs, NEW e \in cache[q]
               PROVE  heap'[q][e.obj] = heap[q][e.obj]
    BY <1>4 DEF IndInv, CacheInv
  <2>1. heap[q][e.obj] # None /\ e.obj \in Objs
    BY DEF IndInv, CacheInv, TypeOK
  <2>. QED
    BY <1>2, <1>5, <2>1
<1>10. SessionInv(p)'
  BY <1>1, <1>4 DEF SessionInv, session, SavePlaces, LoadPlaces
<1>11. StepOf(p)
  BY <1>4, <1>5 DEF StepOf, Keeps, Undisturbed, disk, session
<1>12. (\A q \in Procs : SessionInv(q))'
  BY <1>10, <1>11, OthersKept
<1>. QED
  BY <1>6, <1>7, <1>8, <1>9, <1>12 DEF IndInv

(* Objects that are changed are not cached: this is where it is needed     *)
(* that cached kinds are not.                                              *)
LEMMA MutateStep ==
  ASSUME IndInv, Apart, NEW p \in Procs, NEW o \in Objs, NEW d \in Data,
         Mutate(p, o, d)
  PROVE  IndInv'
<1> DEFINE new == [heap[p][o] EXCEPT !.data = d]
<1>1. TypeOK /\ SessionInv(p) /\ CacheInv
  BY DEF IndInv
<1>2. /\ heap[p][o] \in Objects /\ heap[p][o] # None
      /\ ObjectInv(files, heap[p][o])
      /\ heap[p][o].kind \notin Copies /\ heap[p][o].kind \notin Cached
  BY <1>1, StoreAssumption DEF TypeOK, Mutate, Apart, IndInv, HeapInv
<1>3. new \in Objects /\ ObjectInv(files, new) /\ new # None
      /\ new.kind = heap[p][o].kind
  <2>1. new \in Objects /\ ObjectInv(files, new)
        /\ new.kind = heap[p][o].kind
    BY <1>2 DEF Objects, ObjectInv, Contents
  <2>. QED
    BY <2>1, NoneAssumption
<1>4. /\ heap' = [heap EXCEPT ![p][o] = new]
      /\ UNCHANGED <<disk, cache, session>>
  BY <1>1, <1>2 DEF Mutate, TypeOK, Objects
<1>5. /\ heap'[p][o] = new
      /\ \A i \in Objs : i # o => heap'[p][i] = heap[p][i]
      /\ \A q \in Procs : q # p => heap'[q] = heap[q]
  BY <1>1, <1>4 DEF TypeOK
<1>6. TypeOK'
  BY <1>1, <1>3, <1>4 DEF TypeOK, disk, session
<1>7. DiskInv'
  BY <1>4 DEF IndInv, DiskInv, Complete, disk
<1>8. HeapInv'
  BY <1>3, <1>4, <1>5 DEF IndInv, HeapInv, disk
<1>9. CacheInv'
  <2> SUFFICES ASSUME NEW q \in Procs, NEW e \in cache[q]
               PROVE  heap'[q][e.obj] = heap[q][e.obj]
    <3>1. cache' = cache
      BY <1>4
    <3>. QED
      BY <1>1, <3>1 DEF CacheInv
  <2>1. heap[q][e.obj].kind \in Cached
    BY <1>1 DEF CacheInv
  <2>2. e.obj \in Objs
    BY <1>1 DEF TypeOK
  <2>. QED
    BY <1>2, <1>5, <2>1, <2>2
<1>10. SessionInv(p)'
  <2>1. CASE Idle(p)
    BY <1>1, <1>4, <2>1 DEF SessionInv, session, SavePlaces, LoadPlaces, Idle
  <2>2. CASE pc[p] = "name" /\ dataFile[p] = None
    <3>1. SaveInv(p)
      BY <1>1, <2>2 DEF SessionInv, SavePlaces
    <3>2. \A i \in 1 .. Len(objs[p]) : heap'[p][objs[p][i]] # None
      <4> TAKE i \in 1 .. Len(objs[p])
      <4>1. objs[p][i] \in Objs /\ heap[p][objs[p][i]] # None
        BY <1>1, <3>1 DEF SaveInv, TypeOK
      <4>. QED
        BY <1>3, <1>5, <4>1
    <3>3. SaveInv(p)'
      BY <1>4, <2>2, <3>1, <3>2 DEF SaveInv, disk, session
    <3>. QED
      BY <1>4, <2>2, <3>3 DEF SessionInv, session, SavePlaces, LoadPlaces
  <2>3. CASE pc[p] = "sign" /\ \A i \in 1 .. Len(objs[p]) : objs[p][i] # o
    <3>1. LoadInv(p)
      BY <1>1, <2>3 DEF SessionInv, LoadPlaces
    <3>2. \A i \in 1 .. Len(objs[p]) :
            heap'[p][objs[p][i]] = heap[p][objs[p][i]]
      <4> TAKE i \in 1 .. Len(objs[p])
      <4>1. objs[p][i] \in Objs
        BY <1>1 DEF TypeOK
      <4>. QED
        BY <1>5, <2>3, <4>1
    <3>3. LoadInv(p)'
      BY <1>4, <2>3, <3>1, <3>2 DEF LoadInv, disk, session
    <3>. QED
      BY <1>4, <2>3, <3>3 DEF SessionInv, session, SavePlaces, LoadPlaces
  <2>. QED
    BY <2>1, <2>2, <2>3 DEF Mutate
<1>11. StepOf(p)
  BY <1>4, <1>5 DEF StepOf, Keeps, Undisturbed, disk, session
<1>12. (\A q \in Procs : SessionInv(q))'
  BY <1>10, <1>11, OthersKept
<1>. QED
  BY <1>6, <1>7, <1>8, <1>9, <1>12 DEF IndInv

(* Editing a configuration by hand keeps the invariant.                    *)
LEMMA EditConfigStep ==
  ASSUME IndInv, Apart, NEW f \in FileNames, NEW c \in Confs, EditConfig(f, c)
  PROVE  IndInv'
<1>1. TypeOK /\ \A q \in Procs : SessionInv(q) /\ pc[q] = "idle"
  BY DEF IndInv, EditConfig, Idle
<1>2. Follows(files, files')
  BY <1>1 DEF EditConfig, Follows, TypeOK
<1>3. TypeOK'
  BY <1>1 DEF TypeOK, EditConfig, memory, session
<1>4. (\A q \in Procs : SessionInv(q))'
  BY <1>1 DEF SessionInv, EditConfig, session, SavePlaces, LoadPlaces
<1>. QED
  BY <1>2, <1>3, <1>4, MemoryKept DEF IndInv, EditConfig

(* The crash of a process keeps the invariant.                             *)
LEMMA CrashStep ==
  ASSUME IndInv, Apart, NEW p \in Procs, Crash(p)
  PROVE  IndInv'
<1>1. TypeOK /\ NoSession(p) /\ UNCHANGED disk
  BY DEF IndInv, Crash
<1>2. TypeOK'
  BY <1>1, Ended DEF TypeOK, Crash, disk
<1>3. DiskInv'
  BY <1>1 DEF IndInv, DiskInv, Complete, disk
<1>4. HeapInv' /\ CacheInv'
  BY <1>1 DEF IndInv, HeapInv, CacheInv, Crash, disk, TypeOK
<1>5. StepOf(p)
  BY <1>1, Ended DEF StepOf, Keeps, Crash, disk, TypeOK
<1>6. (\A q \in Procs : SessionInv(q))'
  BY <1>1, <1>5, Ended, OthersKept
<1>. QED
  BY <1>2, <1>3, <1>4, <1>6 DEF IndInv

-----------------------------------------------------------------------------

(* Every step keeps the invariant.                                         *)
LEMMA Inductive ==
  ASSUME IndInv, Apart, [Next]_vars
  PROVE  IndInv'
<1>1. CASE UNCHANGED vars
  BY <1>1, SMTT(30) DEF IndInv, TypeOK, DiskInv, Complete, HeapInv, CacheInv, SessionInv,
       SaveInv, LoadInv, Saving, Loading, Signature, Read,
       vars, disk, memory, session
<1>2. ASSUME NEW p \in Procs, Step(p)
      PROVE  IndInv'
  BY <1>2, NameStep, CreateStep, CreateFailsStep, FillDataStep, FillConfigStep,
     DumpStep, SignStep, HitStep, DeserializeStep, DeserializeFailsStep,
     FinishStep DEF Step
<1>3. CASE Next
  BY <1>2, <1>3, CrashStep, LoadBeginStep, SaveBeginStep, ConstructStep,
     MutateStep, EditConfigStep DEF Next
<1>. QED
  BY <1>1, <1>3

(* The invariant holds at the start.                                       *)
LEMMA InitInv == Init => IndInv
<1> SUFFICES ASSUME Init PROVE IndInv
  OBVIOUS
<1>1. TypeOK
  BY DEF Init, TypeOK
<1>2. DiskInv /\ HeapInv /\ CacheInv
  BY DEF Init, DiskInv, Complete, HeapInv, CacheInv
<1>3. \A p \in Procs : SessionInv(p)
  BY DEF Init, SessionInv, SavePlaces, LoadPlaces
<1>. QED
  BY <1>1, <1>2, <1>3 DEF IndInv

(* If no two processes save to the same directory and no cached kind of    *)
(* object is changed, the invariant holds at every step of saves, loads,   *)
(* crashes and edits (model_storage_local.cpp, json_persist_helper.cpp,    *)
(* model_context.h:52-68).                                                 *)
THEOREM StoreInvariant == ASSUME Apart PROVE Spec => []IndInv
<1>1. IndInv /\ [Next]_vars => IndInv'
  BY Inductive
<1>. QED
  BY <1>1, InitInv, PTL DEF Spec

(* Under the same conditions a model that has been saved keeps the         *)
(* contents its objects had, however many processes, models and objects    *)
(* there are.                                                              *)
THEOREM ModelsStayIntact == ASSUME Apart PROVE Spec => []ModelsIntact
<1>1. IndInv => ModelsIntact
  BY DEF IndInv, DiskInv, ModelsIntact, Sound
<1>. QED
  BY <1>1, StoreInvariant, PTL

(* Under the same conditions a load returns what was saved, whether it     *)
(* comes from the cache or from the files, configured as the config files  *)
(* say.                                                                    *)
THEOREM LoadsRestore == ASSUME Apart PROVE Spec => []LoadRestores
<1>1. IndInv => LoadRestores
  <2> SUFFICES ASSUME IndInv, NEW p \in Procs, pc[p] = "loaded",
                      NEW i \in 1 .. Len(states[p])
               PROVE  Restores(files, heap[p][objs[p][i]], states[p][i])
    BY DEF LoadRestores, Restores, Read
  <2>. QED
    BY DEF IndInv, SessionInv, LoadPlaces, LoadInv
<1>. QED
  BY <1>1, StoreInvariant, PTL

(* Under the same conditions, and without the kinds whose Deserialize      *)
(* looks for another key than Serialize wrote, no save or load throws.     *)
THEOREM NothingThrows ==
  ASSUME Apart, "linear_svm" \notin Kinds
  PROVE  Spec => []NothingFails
<1>1. Init => NothingFails
  BY DEF Init, NothingFails
<1>2. IndInv /\ NothingFails /\ [Next]_vars => NothingFails'
  <2> SUFFICES ASSUME IndInv, NothingFails, [Next]_vars,
                      NEW q \in Procs, pc'[q] = "failed"
               PROVE  FALSE
    BY DEF NothingFails
  <2>1. pc[q] # "failed" /\ pc \in [Procs -> {"idle", "failed"} \cup SavePlaces \cup LoadPlaces]
    BY DEF NothingFails, IndInv, TypeOK
  <2>2. PICK p \in Procs : CreateFails(p) \/ DeserializeFails(p)
    BY <2>1, ZenonT(60) DEF Next, Step, vars, session, Name, Create, FillData, FillConfig,
         Dump, NoSession, Sign, Hit, Deserialize, Return, Finish, Crash,
         LoadBegin, SaveBegin, Construct, Mutate, EditConfig
  <2>3. DeserializeFails(p)
    BY <2>2, CreateFailsStep
  <2>4. Loading(p) \in States
    BY <2>3, LoadingState DEF DeserializeFails, LoadsState
  <2>. QED
    BY <2>3, <2>4 DEF DeserializeFails, States, AddsFile
<1>. QED
  BY <1>1, <1>2, StoreInvariant, PTL DEF Spec

-----------------------------------------------------------------------------
(* Processes that race for the same names, saving tokenizers. *)

(* The session of a process goes on while others write other files.        *)
LEMMA RaceKept ==
  ASSUME TypeOK, NEW q \in Procs, RaceSession(q), Undisturbed(q),
         heap'[q] = heap[q], Keeps(files, files'),
         pc[q] = "fill" => files'[target[q]] = files[target[q]]
  PROVE  RaceSession(q)'
<1> USE DEF Undisturbed
<1>1. \A i \in 1 .. Len(states[q]) : Sound(files', states[q][i])
  <2> TAKE i \in 1 .. Len(states[q])
  <2>1. states[q][i] \in States /\ Sound(files, states[q][i])
    BY DEF RaceSession, TypeOK
  <2>. QED
    BY <2>1, SoundFollows, KeepsFollows
<1>. QED
  BY <1>1 DEF RaceSession

(* What a step of p may do to the disk and to the other processes: it      *)
(* creates a file that is not there, or writes to the one it has created.  *)
RaceStep(p) ==
  /\ \A q \in Procs \ {p} : Undisturbed(q) /\ heap'[q] = heap[q]
  /\ Keeps(files, files')
  /\ \A f \in FileNames : files'[f] # files[f] =>
       /\ f.part = "data"
       /\ files[f] = None \/ (pc[p] = "fill" /\ f = target[p])
  /\ pc'[p] = "fill" => target'[p] = target[p] /\ files[target[p]] = None

LEMMA RacesOn ==
  ASSUME RaceInv, NEW p \in Procs, RaceStep(p), RaceSession(p)',
         TypeOK', DiskInv', HeapInv'
  PROVE  RaceInv'
<1>1. /\ TypeOK /\ \A q \in Procs : RaceSession(q)
      /\ OneWriter /\ NoConfigFiles
  BY DEF RaceInv
<1>2. ASSUME NEW q \in Procs, q # p, pc[q] = "fill"
      PROVE  /\ target[q] \in FileNames /\ files[target[q]] = Partial
             /\ files'[target[q]] = files[target[q]]
  <2>1. target[q] \in FileNames /\ files[target[q]] = Partial
    BY <1>1, <1>2 DEF TypeOK, RaceSession
  <2>2. ~(pc[p] = "fill" /\ target[q] = target[p])
    BY <1>1, <1>2 DEF OneWriter
  <2>. QED
    BY <2>1, <2>2, StoreAssumption DEF RaceStep
<1>3. ASSUME NEW q \in Procs PROVE RaceSession(q)'
  <2>1. CASE q = p
    BY <2>1
  <2>2. CASE q # p
    <3>1. RaceSession(q) /\ Undisturbed(q) /\ heap'[q] = heap[q]
          /\ Keeps(files, files')
      BY <1>1, <2>2 DEF RaceStep
    <3>. QED
      BY <1>1, <1>2, <2>2, <3>1, RaceKept
  <2>. QED
    BY <2>1, <2>2
<1>4. OneWriter'
  <2>1. ASSUME NEW q \in Procs, q # p, pc'[q] = "fill", pc'[p] = "fill"
        PROVE  target'[q] # target'[p]
    <3>1. pc[q] = "fill" /\ target'[q] = target[q]
      BY <2>1 DEF RaceStep, Undisturbed
    <3>. QED
      BY <1>2, <2>1, <3>1, StoreAssumption DEF RaceStep
  <2>2. ASSUME NEW q \in Procs, NEW r \in Procs, q # p, r # p, q # r,
               pc'[q] = "fill", pc'[r] = "fill"
        PROVE  target'[q] # target'[r]
    BY <1>1, <2>2 DEF RaceStep, Undisturbed, OneWriter
  <2>. QED
    BY <2>1, <2>2 DEF OneWriter
<1>5. NoConfigFiles'
  BY <1>1 DEF NoConfigFiles, RaceStep
<1>. QED
  BY <1>3, <1>4, <1>5 DEF RaceInv

(* A step that leaves disk and memory alone. *)
LEMMA RaceMoves ==
  ASSUME RaceInv, NEW p \in Procs, UNCHANGED <<disk, memory>>,
         \A q \in Procs \ {p} : Undisturbed(q),
         TypeOK', RaceSession(p)', pc'[p] # "fill"
  PROVE  RaceInv'
<1>1. RaceStep(p)
  BY DEF RaceStep, Keeps, disk, memory
<1>2. DiskInv' /\ HeapInv'
  BY DEF RaceInv, DiskInv, HeapInv, Complete, disk, memory
<1>. QED
  BY <1>1, <1>2, RacesOn

(* A process without a session has one that is in order.                   *)
LEMMA RaceEnded ==
  ASSUME TypeOK, NEW p \in Procs, NoSession(p)
  PROVE  RaceSession(p)' /\ pc'[p] = "idle"
  BY DEF TypeOK, NoSession, RaceSession, SavePlaces

(* The object to serialize next is in memory and what its source file      *)
(* holds.                                                                  *)
LEMMA RaceSaving ==
  ASSUME RaceInv, NEW p \in Procs, pc[p] \in {"name", "create", "fill"}
  PROVE  /\ Saving(p) \in Objects
         /\ Content(Saving(p)) = Saving(p).data /\ Saving(p).data \in Data
<1>1. RaceSession(p)
  BY DEF RaceInv
<1>2. objs[p] \in Seq(Objs) /\ states[p] \in Seq(States)
      /\ heap[p] \in [Objs -> Objects \cup {None}]
  BY DEF RaceInv, TypeOK
<1>3. Len(states[p]) + 1 \in 1 .. Len(objs[p])
  BY <1>1, <1>2 DEF RaceSession
<1>4. objs[p][Len(states[p]) + 1] \in Objs
  BY <1>2, <1>3
<1>5. heap[p][objs[p][Len(states[p]) + 1]] # None
  BY <1>1, <1>3 DEF RaceSession, SavePlaces
<1>6. Saving(p) \in Objects
  BY <1>2, <1>4, <1>5 DEF Saving
<1>7. ObjectInv(files, Saving(p))
  BY <1>4, <1>5 DEF Saving, RaceInv, HeapInv
<1>. QED
  BY <1>6, <1>7 DEF Content, ObjectInv

(* A name uniq_file gives.                                                 *)
LEMMA RaceName ==
  ASSUME RaceInv, NEW p \in Procs, Name(p)
  PROVE  RaceInv'
<1>1. TypeOK /\ RaceSession(p)
  BY DEF RaceInv
<1>2. PICK f \in Uniq(path[p].dir, Saving(p).kind,
                      IF dataFile[p] = None THEN "data" ELSE "config") :
        target' = [target EXCEPT ![p] = f]
  BY DEF Name
<1>3. f \in FileNames /\ f.part = "data" /\ f # None
  BY <1>1, <1>2, NoneAssumption DEF Uniq, Numbered, RaceSession
<1>4. TypeOK'
  BY <1>1, <1>2, <1>3 DEF TypeOK, Name, disk, memory, SavePlaces
<1>5. \A q \in Procs \ {p} : Undisturbed(q)
  BY <1>1, <1>2 DEF Undisturbed, TypeOK, Name
<1>6. target'[p] = f /\ pc'[p] = "create"
  BY <1>1, <1>2 DEF TypeOK, Name
<1>7. RaceSession(p)'
  BY <1>1, <1>3, <1>6 DEF RaceSession, Name, disk, memory, SavePlaces
<1>. QED
  BY <1>4, <1>5, <1>6, <1>7, RaceMoves DEF Name

(* A save or load that fails.                                              *)
LEMMA RaceFails ==
  ASSUME RaceInv, NEW p \in Procs, CreateFails(p) \/ DeserializeFails(p)
  PROVE  RaceInv'
<1>1. TypeOK /\ RaceSession(p)
  BY DEF RaceInv
<1>2. /\ pc' = [pc EXCEPT ![p] = "failed"]
      /\ UNCHANGED <<disk, memory, path, objs, states, target, dataFile, key>>
  BY DEF CreateFails, DeserializeFails
<1>3. TypeOK'
  BY <1>1, <1>2 DEF TypeOK, disk, memory
<1>4. /\ pc'[p] = "failed"
      /\ \A q \in Procs \ {p} : Undisturbed(q)
  BY <1>1, <1>2 DEF TypeOK, Undisturbed
<1>5. RaceSession(p)'
  BY <1>1, <1>2, <1>4 DEF RaceSession, disk, SavePlaces
<1>. QED
  BY <1>2, <1>3, <1>4, <1>5, RaceMoves

(* A session that ends.                                                    *)
LEMMA RaceFinish ==
  ASSUME RaceInv, NEW p \in Procs, Finish(p)
  PROVE  RaceInv'
<1>1. TypeOK /\ NoSession(p) /\ UNCHANGED <<disk, memory>>
  BY DEF RaceInv, Finish
<1>2. TypeOK'
  BY <1>1, Ended DEF TypeOK, disk, memory
<1>3. RaceSession(p)' /\ pc'[p] # "fill" /\ \A q \in Procs \ {p} : Undisturbed(q)
  BY <1>1, Ended, RaceEnded
<1>. QED
  BY <1>1, <1>2, <1>3, RaceMoves

(* Loading: the states of a complete pickle are sound.                     *)
LEMMA RaceLoadBegin ==
  ASSUME RaceInv, NEW p \in Procs, NEW x \in Paths, LoadBegin(p, x)
  PROVE  RaceInv'
<1>1. TypeOK /\ RaceSession(p) /\ pc[p] = "idle"
  BY DEF RaceInv, LoadBegin, Idle
<1>2. pickles[x] \in Seq(States) /\ Len(pickles[x]) > 0
      /\ \A i \in 1 .. Len(pickles[x]) : Sound(files, pickles[x][i])
  BY DEF RaceInv, DiskInv, TypeOK, LoadBegin, Complete
<1>3. TypeOK'
  BY <1>1, <1>2 DEF TypeOK, LoadBegin, disk, memory, LoadPlaces
<1>4. \A q \in Procs \ {p} : Undisturbed(q)
  BY <1>1 DEF Undisturbed, TypeOK, LoadBegin
<1>5. /\ states'[p] = pickles[x] /\ pc'[p] = "sign"
      /\ objs'[p] = <<>> /\ dataFile'[p] = None
  BY <1>1 DEF TypeOK, LoadBegin, RaceSession
<1>6. RaceSession(p)'
  BY <1>2, <1>5 DEF RaceSession, LoadBegin, disk, SavePlaces
<1>. QED
  BY <1>3, <1>4, <1>5, <1>6, RaceMoves DEF LoadBegin

(* The state to restore next is sound.                                     *)
LEMMA RaceLoading ==
  ASSUME RaceInv, NEW p \in Procs, pc[p] \in {"sign", "make"}
  PROVE  LoadsState(p)
<1>1. RaceSession(p) /\ objs[p] \in Seq(Objs) /\ states[p] \in Seq(States)
  BY DEF RaceInv, TypeOK
<1>2. Len(objs[p]) + 1 \in 1 .. Len(states[p])
  BY <1>1 DEF RaceSession
<1>. QED
  BY <1>1, <1>2 DEF RaceSession, LoadsState, Loading

(* Reading what identifies an object.                                      *)
LEMMA RaceSign ==
  ASSUME RaceInv, Kinds \subseteq {"tokenizer"}, NEW p \in Procs, Sign(p)
  PROVE  RaceInv'
<1>1. TypeOK /\ RaceSession(p) /\ LoadsState(p) /\ pc[p] = "sign"
  BY RaceLoading DEF RaceInv, Sign
<1>2. Signature(Loading(p)) \in Signatures
  <2> DEFINE s == Loading(p)
  <2>1. s \in States /\ Sound(files, s)
    BY <1>1 DEF LoadsState
  <2>2. s.kind \in Kinds /\ s.data \in FileNames /\ files[s.data] \in Data
    BY <2>1 DEF Sound, States
  <2>3. Read(s.conf) \in Confs \cup {None, Partial}
    BY <2>1 DEF Sound, Read
  <2>. QED
    BY <2>2, <2>3 DEF Signature, Signatures, FileNames
<1>3. TypeOK'
  BY <1>1, <1>2 DEF TypeOK, Sign, disk, memory, LoadPlaces
<1>4. /\ pc'[p] = "make" /\ key'[p] # None
      /\ \A q \in Procs \ {p} : Undisturbed(q)
  <2>1. Loading(p).kind \in Cached
    BY <1>1 DEF LoadsState, States, Cached, AllKinds
  <2>2. Signature(Loading(p)) # None
    BY <1>2, NoneAssumption
  <2>. QED
    BY <1>1, <2>1, <2>2 DEF Undisturbed, TypeOK, Sign
<1>5. RaceSession(p)'
  BY <1>1, <1>4 DEF RaceSession, Sign, disk, memory, SavePlaces
<1>. QED
  BY <1>3, <1>4, <1>5, RaceMoves DEF Sign

(* The session of a load that hands over an object.                        *)
LEMMA RaceReturns ==
  ASSUME RaceInv, NEW p \in Procs, pc[p] = "make", NEW o \in Objs,
         Return(p, o)
  PROVE  RaceSession(p)' /\ pc'[p] # "fill"
<1>1. TypeOK /\ RaceSession(p) /\ LoadsState(p)
  BY RaceLoading DEF RaceInv
<1>2. objs[p] \in Seq(Objs) /\ states[p] \in Seq(States)
  BY <1>1 DEF TypeOK
<1>3. /\ objs'[p] = Append(objs[p], o) /\ states'[p] = states[p]
      /\ dataFile'[p] = None /\ files' = files
      /\ pc'[p] = IF Len(objs'[p]) = Len(states[p]) THEN "loaded" ELSE "sign"
  BY <1>1 DEF TypeOK, RaceSession, Return, disk
<1>4. Len(objs'[p]) = Len(objs[p]) + 1 /\ Len(objs[p]) < Len(states[p])
  BY <1>1, <1>2, <1>3 DEF RaceSession
<1>5. pc'[p] = "sign" => Len(objs'[p]) < Len(states'[p])
  BY <1>2, <1>3, <1>4
<1>. QED
  BY <1>1, <1>3, <1>5 DEF RaceSession, SavePlaces

(* An object found in the cache.                                           *)
LEMMA RaceHit ==
  ASSUME RaceInv, NEW p \in Procs, Hit(p)
  PROVE  RaceInv'
<1>1. PICK e \in Hits(p) : Return(p, e.obj)
  BY DEF Hit
<1>2. TypeOK /\ pc[p] = "make" /\ UNCHANGED <<disk, memory>> /\ e.obj \in Objs
  BY <1>1 DEF RaceInv, Hit, Return, Hits, TypeOK
<1>3. TypeOK' /\ \A q \in Procs \ {p} : Undisturbed(q)
  <2>1. /\ heap' \in [Procs -> [Objs -> Objects \cup {None}]]
        /\ cache' \in [Procs -> SUBSET [key : Signatures, obj : Objs]]
    BY <1>2 DEF TypeOK, memory
  <2>. QED
    BY <1>1, <1>2, <2>1, ReturnTypes
<1>. QED
  BY <1>1, <1>2, <1>3, RaceReturns, RaceMoves

(* A step of p that puts an object in order into a free place of its heap. *)
LEMMA RaceNewObject ==
  ASSUME RaceInv, NEW p \in Procs, NEW o \in Objs, NEW new \in Objects,
         ObjectInv(files, new), heap' = [heap EXCEPT ![p][o] = new],
         UNCHANGED disk, TypeOK', RaceSession(p)', pc'[p] # "fill",
         \A q \in Procs \ {p} : Undisturbed(q)
  PROVE  RaceInv'
<1>1. /\ heap'[p][o] = new
      /\ \A i \in Objs : i # o => heap'[p][i] = heap[p][i]
      /\ \A q \in Procs : q # p => heap'[q] = heap[q]
  BY DEF RaceInv, TypeOK
<1>2. HeapInv'
  BY <1>1 DEF RaceInv, HeapInv, disk
<1>3. DiskInv'
  BY DEF RaceInv, DiskInv, Complete, disk
<1>4. RaceStep(p)
  BY <1>1 DEF RaceStep, Keeps, disk
<1>. QED
  BY <1>2, <1>3, <1>4, RacesOn

(* An object made from its files.                                          *)
LEMMA RaceDeserialize ==
  ASSUME RaceInv, NEW p \in Procs, Deserialize(p)
  PROVE  RaceInv'
<1> DEFINE s == Loading(p)
           o == CHOOSE o \in Free(p) : TRUE
           new == Object(s.kind, files[s.data], Read(s.conf),
                         IF s.kind \in Copies THEN s.data ELSE None)
<1>1. TypeOK /\ pc[p] = "make" /\ LoadsState(p)
  BY RaceLoading DEF RaceInv, Deserialize
<1>2. o \in Objs
  BY DEF Deserialize, Free
<1>3. /\ s \in States /\ Sound(files, s)
      /\ s.data \in FileNames /\ files[s.data] \in Data
  BY <1>1 DEF LoadsState, Sound, States
<1>4. Read(s.conf) \in IF s.kind \in Configurable THEN Confs ELSE {None}
  BY <1>3 DEF Sound, Read
<1>5. new \in Objects
  BY <1>3, <1>4 DEF Object, Objects, States, Contents, Configurable
<1>6. ObjectInv(files, new)
  BY <1>3, <1>4 DEF Object, ObjectInv, Sound
<1>7. /\ heap' = [heap EXCEPT ![p][o] = new] /\ Return(p, o)
      /\ cache' = [cache EXCEPT ![p] =
                     IF s.kind \in Cached
                     THEN @ \cup {[key |-> key[p], obj |-> o]} ELSE @]
  BY DEF Deserialize
<1> HIDE DEF s, o, new
<1>8. heap' \in [Procs -> [Objs -> Objects \cup {None}]]
  BY <1>1, <1>2, <1>5, <1>7 DEF TypeOK
<1>9. cache' \in [Procs -> SUBSET [key : Signatures, obj : Objs]]
  <2>1. key[p] \in Signatures
    BY <1>1 DEF RaceInv, RaceSession, TypeOK
  <2>. QED
    BY <1>1, <1>2, <1>7, <2>1 DEF TypeOK
<1>10. TypeOK' /\ \A q \in Procs \ {p} : Undisturbed(q)
  BY <1>1, <1>2, <1>7, <1>8, <1>9, ReturnTypes
<1>11. RaceSession(p)' /\ pc'[p] # "fill"
  BY <1>1, <1>2, <1>7, RaceReturns
<1>. QED
  BY <1>2, <1>5, <1>6, <1>7, <1>10, <1>11, RaceNewObject DEF Return

(* An object the user builds.                                              *)
LEMMA RaceConstruct ==
  ASSUME RaceInv, NEW p \in Procs, NEW k \in Kinds, NEW d \in Data,
         NEW c \in Confs \cup {None}, k \in Configurable <=> c # None,
         Construct(p, k, d, c)
  PROVE  RaceInv'
<1> DEFINE o == CHOOSE o \in Free(p) : TRUE
           new == Object(k, d, c, None)
<1>1. TypeOK /\ RaceSession(p) /\ pc[p] = "idle"
  BY DEF RaceInv, Construct, Idle
<1>2. o \in Objs
  BY DEF Construct, Free
<1>3. new \in Objects /\ ObjectInv(files, new)
  BY DEF Object, Objects, ObjectInv, Contents
<1>4. /\ heap' = [heap EXCEPT ![p][o] = new]
      /\ UNCHANGED <<disk, cache, session>>
  BY DEF Construct
<1> HIDE DEF o, new
<1>5. TypeOK'
  BY <1>1, <1>2, <1>3, <1>4 DEF TypeOK, disk, session
<1>6. RaceSession(p)' /\ pc'[p] # "fill"
      /\ \A q \in Procs \ {p} : Undisturbed(q)
  BY <1>1, <1>4 DEF RaceSession, Undisturbed, session, disk, SavePlaces
<1>. QED
  BY <1>2, <1>3, <1>4, <1>5, <1>6, RaceNewObject

(* A crash: a file that is cut short stays so.                             *)
LEMMA RaceCrash ==
  ASSUME RaceInv, NEW p \in Procs, Crash(p)
  PROVE  RaceInv'
<1>1. TypeOK /\ NoSession(p) /\ UNCHANGED disk
  BY DEF RaceInv, Crash
<1>2. TypeOK'
  BY <1>1, Ended DEF TypeOK, Crash, disk
<1>3. DiskInv' /\ HeapInv'
  BY <1>1 DEF RaceInv, DiskInv, HeapInv, Complete, Crash, disk, TypeOK
<1>4. RaceStep(p)
  BY <1>1, Ended, RaceEnded DEF RaceStep, Keeps, Crash, disk, TypeOK
<1>. QED
  BY <1>1, <1>2, <1>3, <1>4, RaceEnded, RacesOn

-----------------------------------------------------------------------------
(* Creating a file: of the processes that were given its name, one.        *)
LEMMA RaceWrites ==
  ASSUME RaceInv, NEW p \in Procs, pc[p] \in {"create", "fill"},
         NEW c \in Contents, files' = [files EXCEPT ![target[p]] = c],
         files[target[p]] = IF pc[p] = "create" THEN None ELSE Partial,
         UNCHANGED <<pickles, memory, target>>,
         pc'[p] = "fill" => pc[p] = "create",
         \A q \in Procs \ {p} : Undisturbed(q)
  PROVE  /\ target[p] \in FileNames /\ target[p].part = "data"
         /\ files'[target[p]] = c
         /\ files' \in [FileNames -> Contents \cup Confs \cup {None}]
         /\ RaceStep(p) /\ Follows(files, files') /\ DiskInv' /\ HeapInv'
         /\ \A i \in 1 .. Len(states[p]) : Sound(files', states[p][i])
<1>1. TypeOK /\ RaceSession(p)
  BY DEF RaceInv
<1>2. target[p] \in FileNames /\ target[p].part = "data"
  BY <1>1 DEF TypeOK, RaceSession
<1>3. /\ files'[target[p]] = c
      /\ \A f \in FileNames : f # target[p] => files'[f] = files[f]
      /\ files' \in [FileNames -> Contents \cup Confs \cup {None}]
  BY <1>1, <1>2 DEF TypeOK
<1>4. RaceStep(p)
  BY <1>2, <1>3 DEF RaceStep, Keeps, memory
<1>5. Follows(files, files')
  BY <1>4, KeepsFollows DEF RaceStep
<1>6. DiskInv' /\ HeapInv'
  BY <1>5, DiskFollows, HeapFollows DEF RaceInv, memory
<1>7. \A i \in 1 .. Len(states[p]) : Sound(files', states[p][i])
  <2> TAKE i \in 1 .. Len(states[p])
  <2>1. states[p][i] \in States /\ Sound(files, states[p][i])
    BY <1>1 DEF RaceSession, TypeOK
  <2>. QED
    BY <1>5, <2>1, SoundFollows
<1>. QED
  BY <1>2, <1>3, <1>4, <1>5, <1>6, <1>7

(* A tokenizer's add_file creates a file only where there is none.         *)
LEMMA RaceCreate ==
  ASSUME RaceInv, Kinds \subseteq {"tokenizer"}, NEW p \in Procs, Create(p)
  PROVE  RaceInv'
<1>1. TypeOK /\ RaceSession(p) /\ pc[p] = "create"
  BY DEF RaceInv, Create
<1>2. files[target[p]] = None
  BY <1>1, RaceSaving DEF Create, Objects
<1>3. /\ files' = [files EXCEPT ![target[p]] = Partial]
      /\ pc' = [pc EXCEPT ![p] = "fill"]
      /\ UNCHANGED <<pickles, memory, path, objs, states, target, dataFile, key>>
  BY DEF Create
<1>4. pc'[p] = "fill" /\ \A q \in Procs \ {p} : Undisturbed(q)
  BY <1>1, <1>3 DEF TypeOK, Undisturbed
<1>5. Partial \in Contents
  BY DEF Contents
<1>6. /\ files'[target[p]] = Partial
      /\ files' \in [FileNames -> Contents \cup Confs \cup {None}]
      /\ RaceStep(p) /\ DiskInv' /\ HeapInv'
      /\ \A i \in 1 .. Len(states[p]) : Sound(files', states[p][i])
  BY <1>1, <1>2, <1>3, <1>4, <1>5, RaceWrites
<1>7. TypeOK'
  BY <1>1, <1>3, <1>6 DEF TypeOK, memory, SavePlaces
<1>8. RaceSession(p)'
  BY <1>1, <1>3, <1>4, <1>6 DEF RaceSession, memory, SavePlaces
<1>. QED
  BY <1>6, <1>7, <1>8, RacesOn

(* The copy is complete, and with it the state that names it.              *)
LEMMA RaceFill ==
  ASSUME RaceInv, Kinds \subseteq {"tokenizer"}, NEW p \in Procs, FillData(p)
  PROVE  RaceInv'
<1> DEFINE o == Saving(p)
           s == State(o.kind, target[p], None, o.data)
<1>1. /\ TypeOK /\ RaceSession(p) /\ pc[p] = "fill"
      /\ objs[p] \in Seq(Objs) /\ states[p] \in Seq(States)
  BY DEF RaceInv, FillData, TypeOK
<1>2. /\ o \in Objects /\ Content(o) = o.data /\ o.data \in Data
      /\ o.kind = "tokenizer" /\ o.kind \in Kinds
  BY <1>1, RaceSaving DEF Objects
<1>3. /\ files' = [files EXCEPT ![target[p]] = Content(o)]
      /\ states' = [states EXCEPT ![p] = Append(@, s)]
      /\ pc' = [pc EXCEPT ![p] =
                  IF Len(states'[p]) = Len(objs[p]) THEN "dump" ELSE "name"]
      /\ UNCHANGED <<pickles, memory, path, objs, target, key, dataFile>>
  BY <1>2 DEF FillData, Configurable
<1>4. \A q \in Procs \ {p} : Undisturbed(q)
  BY <1>1, <1>3 DEF TypeOK, Undisturbed
<1>5. /\ states'[p] = Append(states[p], s)
      /\ pc'[p] = IF Len(states'[p]) = Len(objs[p]) THEN "dump" ELSE "name"
  BY <1>1, <1>3 DEF TypeOK
<1>6. /\ target[p] \in FileNames /\ target[p].part = "data"
      /\ files'[target[p]] = o.data
      /\ files' \in [FileNames -> Contents \cup Confs \cup {None}]
      /\ RaceStep(p) /\ DiskInv' /\ HeapInv'
      /\ \A i \in 1 .. Len(states[p]) : Sound(files', states[p][i])
  <2> HIDE DEF o, s
  <2>1. /\ o.data \in Contents /\ pc[p] \in {"create", "fill"}
        /\ files' = [files EXCEPT ![target[p]] = o.data]
    BY <1>1, <1>2, <1>3 DEF Contents
  <2>2. files[target[p]] = IF pc[p] = "create" THEN None ELSE Partial
    BY <1>1 DEF RaceSession
  <2>3. UNCHANGED <<pickles, memory, target>> /\ pc'[p] # "fill"
    BY <1>3, <1>5
  <2>. QED
    BY <1>4, <2>1, <2>2, <2>3, RaceWrites
<1>7. s \in States /\ Sound(files', s)
  BY <1>2, <1>6 DEF State, States, Sound, Contents, Configurable
<1> HIDE DEF o, s
<1>8. \A i \in 1 .. Len(states'[p]) : Sound(files', states'[p][i])
  BY <1>1, <1>5, <1>6, <1>7
<1>9. TypeOK'
  <2>1. Append(states[p], s) \in Seq(States)
    BY <1>1, <1>7
  <2>2. states' \in [Procs -> Seq(States)]
    BY <1>1, <1>3, <2>1 DEF TypeOK
  <2>3. pc' \in [Procs -> {"idle", "failed"} \cup SavePlaces \cup LoadPlaces]
    BY <1>1, <1>3 DEF TypeOK, SavePlaces
  <2>. QED
    BY <1>1, <1>3, <1>6, <2>2, <2>3 DEF TypeOK, memory
<1>10. Len(states'[p]) = Len(states[p]) + 1 /\ Len(states[p]) < Len(objs[p])
  BY <1>1, <1>5 DEF RaceSession
<1>11. Len(objs[p]) \in Nat /\ Len(states[p]) \in Nat
  BY <1>1
<1>12. /\ pc'[p] \in {"name", "dump"}
       /\ pc'[p] = "name" => Len(states'[p]) < Len(objs[p])
       /\ pc'[p] = "dump" => Len(states'[p]) > 0
  BY <1>5, <1>10, <1>11
<1>13. RaceSession(p)'
  <2>1. dataFile'[p] = None /\ objs'[p] = objs[p] /\ heap' = heap
    BY <1>1, <1>3 DEF RaceSession, memory
  <2>2. \A i \in 1 .. Len(objs'[p]) : heap'[p][objs'[p][i]] # None
    BY <1>1, <2>1 DEF RaceSession, SavePlaces
  <2>. QED
    BY <1>8, <1>12, <2>1, <2>2 DEF RaceSession
<1>. QED
  BY <1>6, <1>9, <1>13, RacesOn

(* A save begins: the pickle is cut short.                                 *)
LEMMA RaceSaveBegin ==
  ASSUME RaceInv, NEW p \in Procs, NEW x \in Paths, NEW os \in Models,
         SaveBegin(p, x, os)
  PROVE  RaceInv'
<1>1. TypeOK /\ RaceSession(p) /\ pc[p] = "idle"
  BY DEF RaceInv, SaveBegin, Idle
<1>2. os \in Seq(Objs) /\ Len(os) > 0
  BY StoreAssumption DEF Models
<1>3. /\ states'[p] = <<>> /\ dataFile'[p] = None
      /\ pc'[p] = "name" /\ objs'[p] = os
      /\ pickles'[x] = Partial
      /\ \A y \in Paths : y # x => pickles'[y] = pickles[y]
  BY <1>1 DEF SaveBegin, TypeOK, RaceSession
<1>4. \A q \in Procs \ {p} : Undisturbed(q)
  BY <1>1 DEF SaveBegin, TypeOK, Undisturbed
<1>5. TypeOK'
  BY <1>1, <1>2 DEF TypeOK, SaveBegin, memory, SavePlaces
<1>6. RaceStep(p)
  BY <1>3, <1>4 DEF RaceStep, Keeps, SaveBegin, memory
<1>7. DiskInv'
  BY <1>3 DEF RaceInv, DiskInv, Complete, SaveBegin
<1>8. HeapInv'
  BY DEF RaceInv, HeapInv, SaveBegin, memory
<1>9. RaceSession(p)'
  BY <1>2, <1>3 DEF RaceSession, SaveBegin, memory
<1>. QED
  BY <1>5, <1>6, <1>7, <1>8, <1>9, RacesOn

(* A save ends: what the pickle names is sound.                            *)
LEMMA RaceDump ==
  ASSUME RaceInv, NEW p \in Procs, Dump(p)
  PROVE  RaceInv'
<1>1. /\ TypeOK /\ RaceSession(p) /\ pc[p] = "dump"
      /\ states[p] \in Seq(States) /\ Len(states[p]) > 0
  BY DEF RaceInv, Dump, RaceSession, TypeOK
<1>2. /\ NoSession(p) /\ UNCHANGED <<files, memory>>
      /\ pickles' = [pickles EXCEPT ![path[p]] = states[p]]
  BY DEF Dump
<1>3. TypeOK'
  BY <1>1, <1>2, Ended DEF TypeOK, memory
<1>4. RaceStep(p)
  BY <1>1, <1>2, Ended, RaceEnded DEF RaceStep, Keeps, memory
<1>5. DiskInv'
  BY <1>1, <1>2 DEF RaceInv, DiskInv, Complete, RaceSession, TypeOK
<1>6. HeapInv'
  BY <1>2 DEF RaceInv, HeapInv, memory
<1>. QED
  BY <1>1, <1>2, <1>3, <1>4, <1>5, <1>6, RaceEnded, RacesOn

(* The rest never happens to tokenizers: they have no config file, and     *)
(* users do not change them.                                               *)
LEMMA RaceNever ==
  ASSUME RaceInv, Kinds \subseteq {"tokenizer"}
  PROVE  /\ \A p \in Procs : ~FillConfig(p)
         /\ \A p \in Procs, o \in Objs, d \in Data : ~Mutate(p, o, d)
         /\ \A f \in FileNames, c \in Confs : ~EditConfig(f, c)
<1>1. \A p \in Procs : ~FillConfig(p)
  BY DEF RaceInv, RaceSession, FillConfig
<1>2. \A p \in Procs, o \in Objs, d \in Data : ~Mutate(p, o, d)
  BY StoreAssumption DEF Mutate, Copies
<1>3. \A f \in FileNames, c \in Confs : ~EditConfig(f, c)
  BY DEF RaceInv, NoConfigFiles, EditConfig
<1>. QED
  BY <1>1, <1>2, <1>3

(* Every step keeps the invariant of the race.                             *)
LEMMA RaceInductive ==
  ASSUME RaceInv, Kinds \subseteq {"tokenizer"}, [Next]_vars
  PROVE  RaceInv'
<1>1. CASE UNCHANGED vars
  BY <1>1, SMTT(30) DEF RaceInv, TypeOK, DiskInv, Complete, HeapInv,
     RaceSession, OneWriter, NoConfigFiles, vars, disk, memory, session
<1>2. ASSUME NEW p \in Procs, Step(p)
      PROVE  RaceInv'
  BY <1>2, RaceName, RaceCreate, RaceFails, RaceFill, RaceNever, RaceDump,
     RaceSign, RaceHit, RaceDeserialize, RaceFinish DEF Step
<1>3. CASE Next
  BY <1>2, <1>3, RaceCrash, RaceLoadBegin, RaceSaveBegin, RaceConstruct,
     RaceNever DEF Next
<1>. QED
  BY <1>1, <1>3

(* Tokenizers survive the race: whatever processes save to the same        *)
(* directory, where two may be given the same name by uniq_file before     *)
(* either creates the file (model_storage_local.cpp), a model that has     *)
(* been saved keeps the contents its objects had.  That add_file does not  *)
(* overwrite is what the proof rests on: the process that comes second     *)
(* throws.                                                                 *)
THEOREM RacesAreHarmless ==
  ASSUME Kinds \subseteq {"tokenizer"}
  PROVE  Spec => []ModelsIntact
<1>1. Init => RaceInv
  <2> SUFFICES ASSUME Init PROVE RaceInv
    OBVIOUS
  <2>1. TypeOK
    BY InitInv DEF IndInv
  <2>2. DiskInv /\ HeapInv
    BY InitInv DEF IndInv
  <2>. QED
    BY <2>1, <2>2 DEF Init, RaceInv, RaceSession, OneWriter, NoConfigFiles,
       SavePlaces
<1>2. RaceInv /\ [Next]_vars => RaceInv'
  BY RaceInductive
<1>3. RaceInv => ModelsIntact
  BY DEF RaceInv, DiskInv, ModelsIntact, Sound
<1>. QED
  BY <1>1, <1>2, <1>3, PTL DEF Spec

-----------------------------------------------------------------------------
(* The models on disk make a repository. *)
LEMMA OnDiskKept ==
  ASSUME IndInv, Follows(files, files'), NEW x \in Paths,
         pickles'[x] = pickles[x]
  PROVE  OnDisk'[x] = OnDisk[x]
<1>1. CASE Complete(x)
  <2>1. \A i \in 1 .. Len(pickles[x]) :
          files'[pickles[x][i].data] = files[pickles[x][i].data]
    <3> TAKE i \in 1 .. Len(pickles[x])
    <3>1. pickles[x] \in Seq(States)
      BY <1>1 DEF IndInv, TypeOK, Complete
    <3>2. pickles[x][i] \in States /\ Sound(files, pickles[x][i])
      BY <1>1, <3>1 DEF IndInv, DiskInv
    <3>. QED
      BY <3>2, StoreAssumption DEF Follows, Sound, States
  <2>. QED
    BY <1>1, <2>1 DEF OnDisk, Complete
<1>2. CASE ~Complete(x)
  BY <1>2 DEF OnDisk, Complete
<1>. QED
  BY <1>1, <1>2

(* What is on disk changes as a repository, or not at all. *)
LEMMA PickleSteps ==
  ASSUME IndInv, [Next]_vars
  PROVE  /\ Follows(files, files')
         /\ \/ pickles' = pickles
            \/ \E p \in Procs, x \in Paths, os \in Models : SaveBegin(p, x, os)
            \/ \E p \in Procs : Dump(p)
<1>1. ASSUME files' = files PROVE Follows(files, files')
  BY <1>1 DEF Follows
<1>2. TypeOK
  BY DEF IndInv
<1>3. ASSUME NEW p \in Procs, Create(p) \/ FillData(p) \/ FillConfig(p)
      PROVE  Follows(files, files') /\ pickles' = pickles
  <2>1. PICK c : files' = [files EXCEPT ![target[p]] = c]
    BY <1>3 DEF Create, FillData, FillConfig
  <2>2. \A q \in Procs \ {p} : Undisturbed(q)
    BY <1>2, <1>3 DEF Create, FillData, FillConfig, TypeOK, Undisturbed
  <2>3. UNCHANGED <<pickles, memory>> /\ pc[p] \in {"create", "fill"}
    BY <1>3 DEF Create, FillData, FillConfig
  <2>. QED
    BY <2>1, <2>2, <2>3, WritesOwn
<1>4. ASSUME NEW f \in FileNames, NEW c \in Confs, EditConfig(f, c)
      PROVE  Follows(files, files') /\ pickles' = pickles
  BY <1>2, <1>4 DEF EditConfig, Follows, TypeOK, IndInv
<1>5. ASSUME NEW p \in Procs, Step(p), ~Create(p), ~FillData(p),
             ~FillConfig(p), ~Dump(p)
      PROVE  files' = files /\ pickles' = pickles
  BY <1>5 DEF Step, Name, CreateFails, Sign, Hit, Deserialize, Return,
       DeserializeFails, Finish, disk
<1>6. ASSUME NEW p \in Procs, NEW x \in Paths, LoadBegin(p, x)
      PROVE  files' = files /\ pickles' = pickles
  BY <1>6 DEF LoadBegin, disk
<1>7. ASSUME NEW p \in Procs, Crash(p)
      PROVE  files' = files /\ pickles' = pickles
  BY <1>7 DEF Crash, disk
<1>8. ASSUME NEW p \in Procs, NEW o, NEW k, NEW d, NEW c,
             Construct(p, k, d, c) \/ Mutate(p, o, d)
      PROVE  files' = files /\ pickles' = pickles
  BY <1>8 DEF Construct, Mutate, disk
<1>9. ASSUME NEW p \in Procs, NEW x \in Paths, NEW os \in Models,
             SaveBegin(p, x, os)
      PROVE  files' = files
  BY <1>9 DEF SaveBegin
<1>10. ASSUME NEW p \in Procs, Dump(p)
       PROVE  files' = files
  BY <1>10 DEF Dump
<1>11. CASE UNCHANGED vars
  BY <1>1, <1>11 DEF vars, disk
<1>12. CASE Next
  BY <1>1, <1>3, <1>4, <1>5, <1>6, <1>7, <1>8, <1>9, <1>10, <1>12 DEF Next
<1>. QED
  BY <1>11, <1>12

(* At the start the repository is empty.                                   *)
LEMMA RepositoryInit == Init => Repository!Init
<1> SUFFICES ASSUME Init PROVE OnDisk = [x \in Paths |-> None]
  BY DEF Repository!Init
<1>. QED
  BY DEF Init, OnDisk, Complete

(* Every step is one of the repository, or none.                           *)
LEMMA RepositoryStep ==
  ASSUME Apart, IndInv, IndInv', [Next]_vars
  PROVE  [Repository!Next]_OnDisk
<1>1. Follows(files, files')
  BY PickleSteps
<1>2. CASE pickles' = pickles
  <2>1. \A x \in Paths : OnDisk'[x] = OnDisk[x]
    BY <1>1, <1>2, OnDiskKept
  <2>2. OnDisk' = OnDisk
    BY <2>1 DEF OnDisk
  <2>. QED
    BY <2>2
<1>3. ASSUME NEW p \in Procs, NEW x \in Paths, NEW os \in Models,
             SaveBegin(p, x, os)
      PROVE  Repository!Next
  <2>1. pickles' = [pickles EXCEPT ![x] = Partial] /\ TypeOK
    BY <1>3 DEF SaveBegin, IndInv
  <2>2. pickles'[x] = Partial
        /\ \A y \in Paths : y # x => pickles'[y] = pickles[y]
    BY <2>1 DEF TypeOK
  <2>3. OnDisk'[x] = Partial
    BY <2>2 DEF OnDisk, Complete
  <2>4. \A y \in Paths : y # x => OnDisk'[y] = OnDisk[y]
    BY <1>1, <2>2, OnDiskKept
  <2>5. OnDisk' = [OnDisk EXCEPT ![x] = Partial]
    BY <2>3, <2>4 DEF OnDisk
  <2>. QED
    BY <2>5 DEF Repository!Next, Repository!Begin
<1>4. ASSUME NEW p \in Procs, Dump(p)
      PROVE  Repository!Next
  <2> DEFINE x == path[p]
  <2>1. TypeOK /\ SaveInv(p) /\ x \in Paths /\ states[p] \in Seq(States)
    BY <1>4 DEF IndInv, Dump, SessionInv, SavePlaces, SaveInv, TypeOK
  <2>2. /\ pickles'[x] = states[p] /\ files' = files
        /\ \A y \in Paths : y # x => pickles'[y] = pickles[y]
    BY <1>4, <2>1 DEF Dump, TypeOK
  <2>3. OnDisk[x] = Partial
    BY <2>1 DEF SaveInv, OnDisk, Complete
  <2>4. OnDisk'[x] = [i \in 1 .. Len(states[p]) |-> files[states[p][i].data]]
    BY <2>1, <2>2, NoneAssumption DEF OnDisk, Complete
  <2>5. \A i \in 1 .. Len(states[p]) : files[states[p][i].data] \in Data
    BY <2>1 DEF SaveInv, Sound
  <2>6. OnDisk'[x] \in Seq(Data)
    BY <2>1, <2>4, <2>5
  <2>7. \A y \in Paths : y # x => OnDisk'[y] = OnDisk[y]
    BY <1>1, <2>2, OnDiskKept
  <2>8. OnDisk' = [OnDisk EXCEPT ![x] = OnDisk'[x]]
    BY <2>7 DEF OnDisk
  <2>. QED
    BY <2>1, <2>3, <2>6, <2>8 DEF Repository!Next, Repository!Commit
<1>. QED
  BY <1>2, <1>3, <1>4, PickleSteps

(* Under the same conditions the models on disk, read off their files, are *)
(* a repository: torn while they are saved, unchanged once they have been. *)
THEOREM RepositoryImplemented == ASSUME Apart PROVE Spec => ImplementsRepository
<1>1. IndInv /\ IndInv' /\ [Next]_vars => [Repository!Next]_OnDisk
  BY RepositoryStep
<1>. QED
  BY <1>1, RepositoryInit, StoreInvariant, PTL
     DEF Spec, ImplementsRepository, Repository!Spec

=============================================================================
