# Verification of python-inference-script

PyIS is a C++ library of inference operators (tokenizers, tries, featurizers,
linear models, ONNX sessions) with bindings for Python, TorchScript and ONNX,
and a way to save a Python object with the operators in it and load it
somewhere else. This directory holds TLA+ specifications of it, the TLC
configurations that check them on small instances, and TLAPS proofs.

Contents: 1 inventory, 2 plan, 3 modules, 4 runs and bounds, 5 fairness,
6 proofs, 7 disagreements with the documentation, 8 what is not modelled.

## 1. Inventory

| component | state it keeps | operations | hard behaviours | correct when |
|---|---|---|---|---|
| Dynamic batching (`pyis/ops/ort_session/ort_dym_batch_mgr.*`, `ort_batch_context.h`, `ort_tensor_utils.*`) | a queue of batches under a mutex, a condition variable, one detached worker; per batch the concatenated inputs, the outputs, one promise per call; per caller a span of rows | `Execute`, `WorkerLoop`, `ModelExecute`, `ConcatInputs`, `SliceOutputs`, `NotifyResults` | threads, wakeups, a timeout racing the answer, failure in the middle of a concatenation, one caller's input failing another's | every caller gets the rows the model computes from its own inputs, no call waits for ever, no promise is set twice |
| OrtSession (`ort_session.*`, `ort_globals.*`) | source path and storage of the model, the ONNX session, the manager, the process-wide ONNX Runtime environment | `Run`, `Serialize`, `Deserialize`, `BuildSession`, `InitializeOrt` | once-only global initialisation, a manager replaced while its worker runs | loading what was saved gives the same session |
| Model context (`pyis/share/model_context.*`, `py/*/model_context.py`) | the active context and the mutex that guards it, the file storage, a cache of loaded objects | `Activate`, `Deactivate`, `GetActive`, `SetFile`, `GetOrCreateObject`, Python `save`/`load` | a lock held across two calls and across the interpreter lock, a process-wide pointer | one context active at a time, released by its owner, operators loaded into the context they belong to |
| Storage and persistence (`model_storage*`, `json_persist_helper.*`, `cached_object.h`) | files under a root directory; the cached objects | `uniq_file`, `open_istream`, `open_ostream`, `add_prefix`, `remove_prefix`, `serialize` | test-then-create, a crash between files, one instance shared by equal states | nothing saved is overwritten or lost; a loaded operator equals the saved one |
| Tries (`pyis/ops/text/*trie*`) | `Trie`: either a `CedarTrie` or an `ImmutableTrie`, a packed byte image; `CedarTrie`: the vendored double array | `insert`, `erase`, `lookup`, `items`, `freeze`, `build`, `predict`, `prefix`, `longest_prefix`, `num_keys`, save and load | packed field widths computed from the data, values reserved or negative, which of two objects is there, tables missing after loading | the packed trie, and the one read back, answer as the dictionary they were built from; all queries answer for the same pairs |
| WordDict, example operators | a map from phrase to phrase | `Translate`, save, load | none beyond storage | translation survives save and load |
| Text featurizers (`ngram_featurizer.*`, `regex_featurizer.*`, `text_feature_concat.*`) | n-gram and feature dictionaries, regular expressions | `fit`, `transform`, dump and load of n-grams, concatenation | windows at the borders of a sentence, feature offsets, training through a file and prediction without | features describe the tokens they span; training and prediction see the same |
| Foma transducer | states and arcs | load, `Transduct` | cycles without input | all outputs of the transducer and no others |
| Tokenizers (`pyis/ops/tokenizer`) | vocabularies, merge ranks, added special tokens | `tokenize`, `encode`, `decode`, truncation of pairs | longest match, merge order, limits, special tokens | the pieces spell the word, limits are kept, decoding undoes encoding |
| Linear-chain CRF (`pyis/ops/linear_chain_crf`) | the sparse model: features, parameters, a table of transitions; the training data in chunk files; the state of a learner | `learn`, `decode`, `Predict`, save, load | shuffled chunks, a model that grows while data is indexed, weights kept twice, early stop, penalties put off, ties | every pass sees every sentence; decoding is best; what is loaded decides as what was learned |
| Linear SVM | weights | training, `predict`, save, load | the key of its file | saved and loaded it is the same |
| Shared utilities | strings, Unicode categories | search, split, trim | borders of the tables | a character is of its category |
| Bindings, C API, ONNX transpiler, Python packages | argument conversion; a graph being rewritten; the tagging pipeline | calls into the operators; passes over a graph | the interpreter lock | conversion loses nothing |
| Legacy `pyis/ops/dnn` | as dynamic batching | | not part of the build | |

How they interact: a Python model object holds operators; `ModelContext`
activates a storage, pickling calls each operator's `Serialize`, which writes
files into the active storage; unpickling calls `GetOrCreateObject`, which
either finds an operator in the context's cache or calls `Deserialize`. At run
time operators are called from any thread; `OrtSession::Run` either calls ONNX
Runtime directly or goes through the batch manager and its worker thread. In
the modules below, `DynamicBatch` is that worker and its callers;
`ModelContext` is who may save or load at a time; `ModelStore` is what happens
between activation and deactivation. The offline pipeline for tagging fits
featurizers, writes a training file, runs the learn command on it and loads
the model it leaves: `TaggerTraining` composes the featurizers, the chunked
data, the model, inference and the learners in this way.

## 2. Plan

In order of what goes wrong most expensively:

1. `Tensors`, `InferenceService`, `DynamicBatch` and their proofs (done).
2. `ModelContext`: callers, the activation mutex and the interpreter lock;
   safety of activation, the deadlock of two Python threads (done, with proofs).
3. `ModelRepository`, `ModelStore`: the object cache, unique names, save and
   load with crashes in between (done, with proofs).
4. `TrieImage`, `TrieFile`, `Dictionary`, `Tries`, `CedarTries`: a trie against
   the dictionary it promises to be, with the packed form computed cell by cell
   (done).
5. `TextFeatures`, `StreamData`, `SparseModel`, `ChainInference`,
   `CumulativeL1`, `Learners`, composed by `TaggerTraining` (done; all but
   `TrainPredictAgree` and `FeaturesDescribe` proved).
6. `CharUtils`, `GptTokens`, `BertTokens`, composed by `Tokenizers` (done; all
   proved).
7. What would be proved next: that prediction indexes a sentence as training did
   (the first part of `TrainPredictAgree`); `TypeOK` of `Tries`.
8. What would be modelled next: the text form of a CRF model and its development data,
   and `WordDict` and the example operators, which do little beyond the storage
   they share. The life cycle of ONNX Runtime (`InitializeOrt`, `BuildSession`)
   was planned and dropped: every state it could reach half way is inside a
   library that is not part of the repository.

## 3. Modules

| module | what it is |
|---|---|
| `Tensors` | the tensors of a call: shape past the leading dimension, element type, rows. The content of a row is its origin, `<<c, k>>` for row `k` of call `c`, so that a mixed-up row is seen. `ConcatTensors`, `CanConcat` and `CanSlice` are the tensor utilities; `ModelAccepts` and `ModelOutput` are ONNX Runtime, which is external: it rejects what its model does not take, and row `k` of its output is a function of row `k` of its inputs. |
| `InferenceService` | the abstract specification: what a caller of `OrtSession::Run` may observe. A call begins, then returns the model's output on its own rows, or throws, or times out; it throws, and the process dies, only if the calls made so far differ in shape or contain one that the model would reject by itself. |
| `DynamicBatch` | `DynamicBatchManager`, caller threads and worker. |
| `DynamicBatchInv` | the inductive invariant, in named parts. |
| `MCDynamicBatch` | argument lists for the runs. |
| `DynamicBatch_proofs` | types, mutex, queue, wakeups, promises; rows and answers; `DynamicBatch` implements `InferenceService`. |
| `ModelContext` | the active context, its mutex, the interpreter lock, and threads that use them. |
| `MCModelContext`, `ModelContext_proofs` | threads for the runs; its invariants proved. |
| `ModelRepository` | the abstract specification of models on disk: torn while being saved, unchanged once saved. |
| `ModelStore` | `save`, `load`, the files and pickles on disk, the objects and caches of several processes, crashes. |
| `ModelStoreInv` | two inductive invariants: of any kinds, under the condition `Apart`; and of tokenizers whose processes race. |
| `MCModelStore`, `ModelStore_proofs` | instances for the runs; the theorems. |
| `TrieImage` | `ImmutableTrie`: from a list of pairs to an array of cells, and lookups and items read from the cells. The width of a cell is a constant, from which tags, field widths and limits follow as they do in the code. |
| `TrieFile` | its binary file: numbers in groups of three bits, tags, `BinaryWriter` and `BinaryReader`. |
| `Dictionary` | the abstract specification of a trie: pairs, whether they can be changed, what is stored. |
| `Tries` | `Trie`, which implements `Dictionary`. |
| `CedarTries` | `CedarTrie` used by itself: searches by prefix, the counter of keys, its own file. |
| `MCTries` | keys and values for the runs; a program uses one of the two. |
| `Selecting` | What filters, sorts and insertions into maps of the standard library do. |
| `TextFeatures` | n-gram and regex featurizers, `TextFeatureConcat`, the training file. |
| `StreamData` | `StreamDataManager`: chunk files, two chunks in memory, shuffles. |
| `SparseModel` | `SparseLinearModel` and `DataFormatter`. |
| `ChainInference` | Viterbi decoding, forward and backward sums and marginals, for the three CRFs. |
| `CumulativeL1` | the penalty on one weight. |
| `Learners` | what the perceptron and the stochastic gradient do with one sentence. |
| `TaggerTraining` | the pipeline: fit, write, learn, load, decode, learn again. |
| `Folding_proofs` | lemmas: what a fold or a recursive function does, run by run; sequences put together, filtered and sorted. |
| `Learners_proofs` | the penalty on a weight, Viterbi decoding; what growing, shrinking, writing and reading make of a model, and what training on a chunk does. |
| `PathSums_proofs` | forward and backward sums, plain and sparse, are sums over paths. |
| `TaggerTraining_proofs` | the inductive invariant of trainings and what follows: types, passes, chunk files, caches, decoding, marginals, penalties, saved models. |
| `MCTagger` | jobs for the runs. |
| `CharUtils` | `str_utils.cpp`: search, split, trim, Unicode categories. |
| `GptTokens`, `BertTokens` | the two tokenizers as operators. |
| `Tokenizers` | a user who types and adds special tokens; what the tokenizers make of every text. |
| `Tokenizers_proofs` | its invariants proved for every vocabulary, table of categories, list of merges and text. |
| `MCTokenizers` | a small alphabet, vocabulary and merge list. |

State and actions of `DynamicBatch` against `ort_dym_batch_mgr.cpp`:

| TLA+ | code |
|---|---|
| `queue`, `mutex` | `batch_queue_`, owner of `queue_mutex_` |
| `members[b]`, `concat[b]`, `output[b]` | `error_message_promises_`, `concat_inputs_`, `concat_outputs_` of the `BatchContext` that call `b` created |
| `ready` | promises with a value |
| `pc[c]`, `first[c]`, `ctx[c]`, `start[c]` | where a caller is in `Execute`; its `first_query`, `batch_context`, `output_index_start` |
| `wpc`, `cur`, `notified` | where the worker is, its `batch_context`, the index in `NotifyResults` |
| `Lock`, `Enqueue`, `Concat`, `ConcatThrows`, `NotifyOne` | lines 29, 31-45, 46-48 (two ways to end), 51-53 |
| `GetOutputs`, `Timeout` | lines 58-61 with `SliceOutputs`, line 64 |
| `WorkerLock`, `WorkerWait`, `WorkerPop`, `ModelExecute`, `NotifyResult` | lines 69 and 91, 74, 78-80, 83, 88 |

What a thread does under the mutex is split (`Lock`, `Enqueue`, `Concat`; 
`WorkerLock`, then `WorkerWait` or `WorkerPop`), so that mutual exclusion is
something the properties can lose. `cv_.wait` releases the mutex and starts
waiting in one step, and wakes spuriously. A batch is named after the call that
created it, which costs nothing since a call creates at most one. Every caller
makes one call: a thread that calls again is another member of `Calls`.
Element types: a call of another type than the batch's is appended as bytes
(`ReadAs`), as `CreateConcatOrtTensor` does. One output stands for all of them,
since `SliceOutputs` treats each the same way.

`ModelContext` against the code: `gil` is the lock of the CPython interpreter,
`mutex` is `model_context_mutex`, `active` is `active_model_context`. `Enter`
and `Leave` are `__enter__` and `__exit__` of the `with` block in
`model_context.py`; `Lock` and `Publish` the two lines of `Activate`; `Clear`,
`Unlock` and `DeactivateThrows` those of `Deactivate`. A Python thread takes
steps only with the interpreter lock, and gives it away (`DropGil`) between
bytecodes, never inside `Activate` or `Deactivate`, which are bound without a
call guard. Native threads use the C API and need no interpreter. Threads in
`Sample` follow the sample in `pyis_c_api.h:42`, whose line 48 calls
`ModelContextDeactivate` where `ModelContextActivate` is meant: it throws, its
scope guard throws once more, and the process ends (`alive`).

`ModelStore` against the code:

| TLA+ | code |
|---|---|
| `files`, `pickles` | the files of a directory as `ModelStorageLocal` sees them; the pickle a model is saved to. `None` is absent, `Partial` begun and not finished |
| `heap`, `cache` | the operators of a process; `CachedObject<T>::cache` |
| `SaveBegin`, `Dump` | `open(pickle_file, "wb")` and the end of the `with` block of `save` |
| `Name` | `uniq_file` |
| `Create`, `CreateFails`, `FillData`, `FillConfig` | the operators' `Serialize`: `open_ostream`, `open_file` or `add_file`, then the content; `JsonPersistHelper::serialize` writes the config file |
| `LoadBegin`, `Sign`, `Hit`, `Deserialize`, `DeserializeFails` | `load`, and `GetOrCreateObject` line by line: sign, look up, make, add |
| `Construct`, `Mutate`, `EditConfig`, `Crash` | users and the operating system |

The thirteen operators that can be saved differ, as far as files go, in five
ways, the kinds of the module's head comment. The content of a file or an
object is one value; a state remembers in `was` what its object had in memory,
which the code does not record and the properties compare with. One process
saves or loads one model at a time, which `ModelContext` shows; other processes
interleave with it at every step. Files that belong to no model are the user's
and do not change. Config files are edited while nobody saves or loads.

`Tries` against `trie.cpp`: `cedar` is `cedar_trie_`, `frozen` is
`immutable_trie_`, `NoTrie` a null pointer; `file` is the file users save to.
`Insert`, `Erase`, `Freeze`, `Save`, `Load` and `Serialize`, `Deserialize` are
the methods; `Refuse` is the exception of a frozen trie that is changed.
`LoadMissing` is a load of a path that is not there: it deletes both tries and
throws before `immutable_trie_` is assigned, which stays null if it was and is
`Dangling` otherwise. Whoever then looks something up, saves (which has emptied
the file by then), loads again or destroys the trie uses or frees what is gone
(`UseLost`, `SaveLost`, `DeleteAgain`): `Crashed`, after which the user begins
anew (`Restart`). Freezing builds the image (`Construct`: histograms, tags, the layout of
nodes, edges and payloads) and copies it (`WriteToTrie`); saving writes it
nibble by nibble. `Careful` is whether users freeze only what the packed form
can hold (`Representable`). `CedarTries` has the same double array as a function
from keys to ints, its counter, and whether it was opened from a file, after
which it can no longer grow.

`TaggerTraining` against the code:

| TLA+ | code |
|---|---|
| `ngrams`, `regexes`, `concat`; `file` | the featurizers of a pipeline; the file `text_features_to_lccrf` writes |
| `FitNGrams`, `FitConcat`, `WriteData` | a turn each of the loops of the tutorial over the corpus |
| `data` | the two `StreamDataManager`s of `learn` and `decode`: `disk`, `names`, `mem`, `queue` |
| `ReadChunk`, `EndOfData`; `OpenInput`, `EndOfInput` | a turn of the constructor's loop with `Expand`, `IndexData` and `Save`, and its end, for either command |
| `model`; `learner`; `past` | `m_LinearModel` of the learner; its locals and those of `Learn`; losses and weights after every pass |
| `StartPass`, `TrainChunk`, `EndPass` | `Learn`, `SinglePassTraining`, the test of convergence |
| `FinishLearning`; `bin` | rolling back, `Shrink`, `Serialize` at the end of `Learn::Run`; the model file |
| `Load`, `SaveModel`, `LoadTagger`; `crf` | `LinearChainCRF`, `SaveModel`, the deserialised tagger with its featurizers |
| `LearnAgain` | `learn` with the model as its premodel |
| `DecodeChunk`, `EndOfDecoding`; `output` | `BatchDecode` of one chunk, end of the decode command; the tags written |
| stage `"failed"`, `LoadMissing` | the assertion on the loss has ended the training, there is no model file |

Weights, rates, potentials and probabilities are integers with a fixed unit
(`One`, `Precision`), rounded towards minus infinity. The exponential function
is replaced by one that maps sums to integer potentials, zero to 1, and the
likelihood by its distance from one: what the properties ask of them is that
sums over paths are what they should be, and that a loss falls or does not.

`Tokenizers` has two variables, the text typed so far and `token_list`, the
special tokens of a `GPT2Tokenizer`; `Type`, `AddSpecial` and `Reload` (saved
and loaded: the special tokens are gone) are its actions. Everything else a
tokenizer does is a function of the two, and every property compares such a
function with a definition of its result that has none of the code's loops.

Definitions marked as mutants are slips that the properties are shown to catch
and no part of the specification.

## 4. Runs and bounds

| run | instance | shows |
|---|---|---|
| `batching` | 3 calls, 2 inputs, `max_batch_size` 2, fair threads: one call of two rows and one of one row whose second inputs may have any of three element types (one that the tensor code does not handle) or either of two shapes, and a plain one | a full batch, a second batch behind it and a batch being run at the same time; refusals half way through a call's inputs, misread rows, termination; timeouts, spurious wakeups and notifications in every order. Answers are the callers' own, every call ends, every promise is kept, the proofs' inductive invariant `IndInv` and the refinement hold. 49,652 states |
| `terminated` | 3 calls, batches of 3 | section 7 |
| `turns` | 1 Python thread, 3 native ones, of which one follows the sample | contexts take turns, each is deactivated in the end. 240 states |
| `gil` | 2 Python threads | section 7 |
| `composite` | 1 process, models of 1 or 2 objects out of 2, kinds `regex` (changed by users), `ort_session`, `linear_svm`; 2 contents, 2 configurations, 2 names per series | the inductive invariant of the proofs, loads, refinement, every session ends; objects changed between two `Serialize` calls, config files edited between loads, saves cut short anywhere. 462,121 states |
| `contended` | 2 processes that share one of two directories, tokenizers | models copied from one another across processes; `add_file` refuses to overwrite, so the loser of a race throws and nothing is spoilt. 226,538 states |
| `tries` | cells of 5 bits, edge lists of up to 2, a `Trie` with keys `<<1,5,5>>`, `<<5>>`, `<<5,6>>`, `<<7>>` and values 0 and 40, or a `CedarTrie` with 3 keys and ints -100 (reserved), -2, 0, 3; careful users | the trie implements its dictionary, all queries agree, and a load that fails leaves a trie that cannot be used. 15,058 states |
| `frozen` | cells of 4 bits, 3 keys, users not careful | section 7 |
| `tagging` | the 22 jobs of `MCTagger`, with 3 shuffles each: four corpora and a file written by hand; chunks of 1, 2 and 4 sentences; perceptron and l1sgd; vanilla, sparse and constrained CRF; premodels | the ten properties of training, from the chunk files to the loaded tagger, and the variant. 2,872 states |
| `rollback`, `dumped` | the same | section 7 |
| `text` | 8 characters, texts of up to 4, every list of two special tokens | the tokenizers against what their results are defined to be. 23,405 states |

Three calls are enough for the hazards: two share a batch, the third is before,
after or between them, or opens the next batch. Two inputs are what a half-way
refusal takes, two rows what a shifted span takes. The proofs carry the safety
results to every number of calls, inputs, rows and every batch bound.

For `ModelStore` two objects are what it takes to load a model twice (the second
time from the cache) or to have one object of a model changed while the other
is serialized; two contents tell a mixed-up file from the right one; two
numbers let a name be free, or taken by the model that is being saved over.
`Room` keeps saves from needing more numbers than there are, and `LoadBegin`
keeps loads from needing more objects; `composite` has room for one save over
another after a crash. The proofs remove all of these bounds but those two
guards, and cover any number of processes with directories of their own.

The width of a cell decides how large a dictionary has to be to bring the
packed trie to its limits. With five bits, four keys reach edge lists and edge
tables, single edges to leaves and to inner nodes, and values of one and two
cells; with four bits a single character is more than the tags can name, for
which bytes would need 81. Nothing else of the layout depends on the width but
through the code's own formulas.

The jobs are chosen by what they make happen: `Learnable` has four sentences,
enough for one, two and four chunks and for chunks that wait on disk;
`Contradictory` is never learned, so that training ends by `MaxIter` or by
three iterations without improvement; of `AtOnce` nothing remains to be learned
after the first pass; `ByHand` has comments, blank lines, allowed tags, a tag
that no model knows and features of two sets. `Same`, `Turned` and `Reversed`
stand for the shuffles, which always start from one seed.

Texts of four characters over eight are enough for a word with its blank, a
contraction behind a word, a merge of a merge, a special token inside a text
and a suffix behind a piece.

The runs of `DynamicBatch` and `ModelContext` have `CHECK_DEADLOCK FALSE`: when
all calls have ended the worker waits for ever, and a terminated process does
nothing. `ModelStore` is checked for deadlock, which is weak there: a process
can always crash; `SessionEnds` is the stronger statement.

Every property of a passing run is broken by a mutant of the code, listed in
`PROJECT.json`: a worker that waits without looking at the queue, a queue that
is not popped or popped twice, a batch closed one call late, spans counted in
calls, callers that do not lock, a notification left out; a context that is not
reset, a body outside of a `with` block; names that are not tested, every kind
cached, a signature that leaves out the config file, `add_file` overwriting;
numbers that lose a group, a walk that unwinds one level, a trie kept after it was frozen; chunks that are not
popped, parameters put in front of others, a table that is not written back,
penalties paid twice; merges from the wrong end, the shortest piece, half a
text kept, types that part one id early.

## 5. Fairness

`FairSpec` assumes weak fairness of every caller and of the worker: a thread
that can go on eventually does, which any scheduler of running threads gives.
It assumes strong fairness of taking the mutex (`Lock`, `WorkerLock`):
`std::mutex` promises no order, but a waiter is not passed over for ever while
others come and go, of which there are finitely many here anyway. Nothing is
assumed of `Execute` (no call has to be made), of `Timeout` (calls must end
without it) or of `SpuriousWakeup` (nobody may rely on it).

In `ModelContext` threads that are in `Activate` or `Deactivate` go on if they
can (weak fairness). Leaving the body and taking the interpreter lock have
strong fairness: CPython makes the holder give its lock away after an interval
and lets a waiter in, and what is in the body ends. Nothing is assumed of who
wins `model_context_mutex`. In `ModelStore` a save or load that has begun takes
its next step (weak fairness of `Step(p)`); nobody has to begin one or crash.

`TaggerTraining` states no fairness. It is one sequential program, and that a
training ends is stated as a variant: every step before the model is saved
makes `Ahead` smaller in a well-founded order (`EveryTrainingEnds`), so that a
program which goes on finishes.

## 6. Proofs

Assumptions on constants: `Calls` and `NumInputs` are not empty, the model's
shapes and types are among those there are (`ModelAssumption`), requests are
argument lists, the worker and `NoCall` are not calls. The batch bound is any
integer, as the code takes it.

*Control* (`DynamicBatch_proofs`). `ControlInv` is the inductive invariant:
types; which locals are set where (`LocalsSet`); the mutex is held exactly in
the critical sections (`MutexHeld`); a promise is in one batch, once, and the
batch's creator comes first (`MembersAreCallers`); what is queued is distinct,
non-empty, not the batch being run and has no promise set (`QueueIsPending`);
a call that concatenates works on the last queued batch, of which it is the
last member (`ConcatOnLast`); promises are set from the front (`ReadyInOrder`).
`NoLostWakeup`, for instance, is not inductive alone: that a caller which found
the queue empty is still on its way needs `ConcatOnLast`, that the queue is
empty when the worker waits needs `MutexHeld`. From `ControlInv` follow
`TypeCorrect`, `WakeupsKept`, `PromisesKept`, `PromisesSetOnce`, and with a
step argument `BatchesSealed`. `BatchesBounded` needs `MaxBatchSize >= 1`.

*Rows* (`DynamicBatch_proofs`, assuming `EvenRequests`: every call passes
the same number of rows in all its inputs). `RowsInv` adds where the rows are.
The difficulty is the call that is refused half way: it leaves earlier inputs of
the batch longer than later ones. `LongerFirst` says the gap is only ever in
that direction, so it is never closed again (`EvenBefore`); a batch that the
model accepts has no gap, hence was never damaged, and in such a batch every
call's rows are in its span (`RowsInPlace`). `AnswersCorrect` follows.

*Refinement* (also `DynamicBatch_proofs`). `ShortMeansTrouble` adds that a
gap has a cause visible to callers, two calls of different shapes or a call the
model would reject; `RowsStayInPlace` is the invariant with all of these parts,
the `IndInv` that the run `batching` checks. `ServiceImplemented` then maps each
step: `Execute` begins a call, `GetOutputs` answers it, `ConcatThrows` refuses
it, a failing `ModelExecute` is the death of the process, and everything else is
invisible.

*Activation* (`ModelContext_proofs`): the mutex is held by exactly the thread
that is between `Lock` and `Unlock`, and the active context is that of exactly
the thread between `Publish` and `Clear`; for any set of threads.

*Storage* (`ModelStore_proofs`). Two conditions, `Apart`: no two processes save
to the same directory, and kinds of objects that are cached are not changed by
users. Neither can be dropped (section 7). Under
them `IndInv` is inductive:

- `DiskInv`: the files of a complete model are there, with what its objects had
  in memory, config files with some configuration;
- `HeapInv`: an object is what the file it was read from holds, so that a copy
  of the file is a copy of the object;
- `CacheInv`: an object cached under a signature has the contents that were
  signed, whatever has happened to the files since;
- `SessionInv`: the file a save is about to create does not exist and is in a
  directory of its own, the states serialized or loaded so far are sound, and
  an object that is being made was signed with the files as they are now.

The argument: every write goes to a file that is absent or just created
(`WritesOwn`), so files with content keep it (`Keeps`), except that config files
may be edited into others (`Follows`); everything above survives such changes
(`SoundFollows`, `ObjectFollows`, `SessionKept`), and the other processes write
elsewhere (`OthersKept`). From the invariant follow `ModelsStayIntact`,
`LoadsRestore`; `NothingThrows`, which also needs that no kind
asks for a key it did not write; and `RepositoryImplemented`: `SaveBegin` and
`Dump` are the repository's steps, all others leave every model as it is.

Of tokenizers, `RacesAreHarmless` proves `ModelsIntact` without `Apart`: processes may
save to one directory and be given the same name, since between `uniq_file` and
`add_file` another may create the file. Its invariant `RaceInv` does not have that
the file of a save is still absent, which is false there; instead, a file that is
created was absent (`Create` of a tokenizer throws otherwise), so that of the
processes between `Create` and `FillData` each has a file of its own
(`OneWriter`), and a file with content keeps it (`RaceStep`).

*Algorithms* (`Folding_proofs`). Tokenizers, decoding and the chunk manager are
folds and recursive functions over sequences, and the library's induction
theorems, which take an operator, cannot be instantiated. What is used instead
is induction over a set: a set of numbers that has 0, and with `k` also `k + 1`,
has all numbers up to `n` (`UpTo`, `DownFrom`, `FromTheEnd`). With it a fold, or
a recursive function, is shown to exist and to be a run: a function from `0 .. n`
that begins with the first value and takes one step at a time (`LeftRuns`). All
theorems below reason about such runs.

*Operators of the learners* (`Learners_proofs`, and `PathSums_proofs` for the sums), each for every model, sentence
and list of sentences. A model (`IsModel(m, K)`) has distinct features, of which
those of the input are in `K`, weights for some pairs of them and a label, and a
transition for each two labels.

- `PenaltyIsPaid`: for all integers, a weight that has not paid more than it owes
  has, after any update and `ApplyPenalty`, paid what it owes or is zero, and has
  not crossed zero.
- `ViterbiIsBest`: no sequence of labels scores more than the one `Viterbi` returns.
  By induction forwards, the score kept for a label at a word is that of some path
  that ends there and not less than that of any; by induction backwards, the walk
  along the kept labels has collected the difference. `DecodedIs` carries it to the
  decoders with a model and an indexed sentence.
- `SumsOverPaths`: forward and backward sums are the sums over all the paths up to
  and from a word, and their products the sums over the paths through it; the sparse
  sums are the same. A sum over a finite set is taken apart one element at a time
  (`SumIterates`, `Total`), in any order and by parts (`TotalByPart`). By induction
  over the words, the paths that end with a label are those of one word less, each
  followed by that label, and weigh as much more as the word and the transition do
  (`ForwardSums`, `BackwardSums`); a transition that the sparse sums skip has the
  potential 1 (`OthersAreOne`), for which they add the whole column at once.
- `ChunkSucceeds`: potentials are positive, so no plain or sparse sum is zero, and a
  training with them does not fail.
- `Expanded`: growing by any sentences keeps uids and weights, gives every feature
  and transition of the sentences its parameter, and refreshes the cache.
- `ChunkTrained`: training on a chunk leaves a model, and payments of its shape;
  after `l1sgd` all that the chunk names has paid, and what had paid still has.
- `ModelComesBack`: a model that is shrunk, written and read says the same. What a
  model says (`Says`) and what a file says (`FileSays`) are which feature, label and
  weight there are, without uids or order: `Shrink` takes the zeros out of it,
  `Serialize` and `Deserialize` keep it, and scores depend on nothing else.

*Passes* (`TaggerTraining_proofs`). `PassesAreComplete` is `EachSentenceOnce` for
every corpus, chunk size and permutation. Its inductive invariant says where
each chunk is: on disk, in one of the two places in memory or in the queue, as
multisets of sentences, since a shuffle keeps nothing else; the queue has
distinct chunks, of which the one handed out is none; what a pass has seen and
what is queued together are what is on disk.

*Progress* (`TaggerTraining_proofs`). `TrainingsEnd` is `EveryTrainingEnds`: a tuple
of numbers, the stage, what is left of it and the chunks in the queue, gets
smaller with every step before a training is over, in the lexicographic order.
That needs to know that no stage has run past its end (`ProgressKept`): the line
a chunk begins at is not behind the file, the iterations are not more than there
may be, and the queue of a pass has at most the chunks there are.

*Trainings* (`TaggerTraining_proofs`). `TaggerInv(K)` is the inductive invariant, for
the features `K` that files may name. None of its parts is inductive alone: a chunk
can be trained on only if it is a list of indexed sentences, which it is because the
chunk files are (`StreamInv`), which were indexed with an earlier, smaller model
(`ModelInv`), from lines that are lines (`TextKept`), by a stage that has not gone
past its end (`ProgressKept`, `ShapeKept`). `TrainingTypes` (`TypeOK`) follows. Then,
each with what it adds:

- `CachesAgree` (`CacheAgrees`): `CacheKept`, that the model has a fresh cache while
  it is read and between passes. It has two hypotheses: files name no feature of set
  0, which the code reserves for transitions (`EdgeSet`) without rejecting it, and
  jobs that reset a premodel also expand it (`ResetsExpand`). Otherwise the first
  pass starts with zero weights and the transitions of the premodel.
- `DecodingIsBest` (`DecodesBest`): from `DecodedIs`, for the weights of any pass. It
  needs no agreement of the cache, since the score is made of what is looked up.
- `MarginalsAreSums` (`MarginalsAgree`): from `SumsOverPaths`, for the weights of any
  pass; and `FailedKept`, that only a training confined to allowed tags has failed,
  from `ChunkSucceeds`.
- `IndexesAreKept` (`IndexesHold`): `IndexKept`, that the chunks written so far spell
  the sentences read so far, in the uids of the model as it is. Reading the file
  from chunk to chunk is cut at ends of sentences, so it reads what reading it at
  once reads; growing keeps uids; a model that does not grow skips the same features
  at any time.
- `AllPenaltiesPaid` (`PenaltiesPaid`): `PaidKept`, that what the sentences seen in
  a pass name has paid, and `OfFile`, that a model has no features but those of the
  sentences of the file. With `PassesAreComplete` every parameter has then been
  named when a pass is over.
- `WhatIsLearnedIsSaved` (`SavedAsLearned`): `SavedKept`, that the file says what the
  model said and the loaded model says what the file says; with `ModelComesBack`.

They assume of constants that tokens and regular expressions are sequences of
characters, tokens without a blank, and that the option `sparsity`
(`CumulativeL1SGDLearner.cpp:76`) is not negative, as a penalty is.

*Tokenizers* (`Tokenizers_proofs`). Every text the user can type is a sequence over
the alphabet, and every special token that can be added is not empty
(`ListIsTyped`, an invariant that the code keeps by throwing); the rest are facts
about the operators:

- `TokenizersTyped` (`TypeOK`): ids of `BertTokenizer` are numbered without a gap
  and give their tokens back, whatever lines the file repeats.
- `WordsMatchPattern` (`WordsOfPattern`): the words are the text, and each is what
  the first alternative of the pattern that matches takes. It assumes
  `CharactersCovered`: no character of the alphabet lies behind the beginning of
  the last range of the tables of letters and numbers. The binary search of the
  code (`str_utils.cpp`) finds nothing there, so that the theorem is false without
  it; the last ranges of the real tables are far out in the supplementary planes.
- `TokensSpellText` (`GptSpellsText`): words spell the text, a turn of `bpe` does not
  change what a list of ids spells (`MergeOnceSpells`), and splitting by special
  tokens leaves parts that spell the whole and in which no special token is left.
- `MergesGoByRank` (`MergesByRank`): a turn of `bpe` merges every occurrence of the
  pair of the lowest rank; the reference merges the first pair of the lowest rank,
  once. The proof cuts a turn into such steps: what has been merged so far ranks
  behind the pair wherever it could be merged again, so that the next step takes the
  next occurrence (`PairIsMerged`, `TurnIsSteps`). That needs `LinesInOrder`: a line
  of the file that takes a token stands behind every line that makes it. With the
  lines `xy x` and `x y`, in this order, it is false: of `xyxy` a turn makes
  `xy xy`, one pair at a time makes `xyx y`.
- `PiecesAreLongest` (`LongestPieces`), for words and vocabularies of any size.
- `PairsAreCut` (`TruncatesToLimit`): every pair of inputs that is too long is cut to
  the limit, from the right end, fairly; or only the first, and fails exactly where
  the second leaves no room for it. Of `only_second` it says that the first input is
  left alone; what it leaves of the second is not stated (section 7).
- `TypesPart` (`TypesPartInputs`): the types of a BERT pair part exactly behind the
  token that ends the first input, whatever was cut.
- `TextsComeBack` (`BertRoundTrip`): decoding what was encoded gives the words back.
  What it rests on is that a decoder can tell pieces of a word from words, which
  `BertTokensAssumption` states of the suffix mark, the special tokens and the
  replacements of `CleanUpTokenization`: the defaults of the code are such.

Assumptions on constants there are what the files are made of: characters are
numbers and tables have ordered ranges (`TablesAssumption`), ids are not used twice
and merged strings are in the vocabulary if their parts are (`GptFilesAssumption`),
which is how vocabularies and merges are made; TLC evaluates them in the run `text`.

The proofs changed the specification in some places. A `CASE` whose guards
overlap is any of the alternatives in TLA+, where TLC takes the first as the code
does: such ones are `IF`s now (`BertTokens`, `CedarTries`, `GptTokens`). Functions
that are extended at one place are written with `With`, since the operators of
module `TLC` are opaque to the prover; for the same reason filters, sorts and
insertions of `SparseModel` and `TextFeatures` are those of `Selecting`. `LongestPieces` names its parts (`Starts`, `CutInto`), so that they can be
reasoned about one at a time. Assumptions that had only been in comments have names.

Only model-checked are:

- liveness: fairness and `ENABLED` are out of the prover's reach;
- of trainings, `TrainPredictAgree` and `FeaturesDescribe`, whose statements filter sequences with `SelectSeq`, a
  recursive operator the prover cannot unfold, and join strings;
- of the tries, `TypeOK`, `QueriesAgree` and `ImplementsDictionary`: that the packed
  image answers as the dictionary is an argument about every cell of its layout.

## 7. Disagreements with the documentation

Five runs end in a violation.

- `terminated` (`docs_src/operators/word_dict.rst:5`, every operator "is
  thread-safe and reentrant"): with `dynamic_batching=True` three calls that the
  model accepts one by one can terminate the process. One is refused (it throws)
  because a call of another inner shape opened the batch, when it has already
  lengthened the batch's first input; the model rejects the uneven batch on the
  worker thread, where nothing catches (`NeverTerminated`).
- `gil` (`pyis_c_api.h:34`, deactivation "needs to be guaranteed when" a save or
  load is done): a Python thread that waits in `Activate` holds the interpreter
  lock, without which the thread whose context is active cannot leave its
  `with` block. Both wait for ever. `DeactivationGuaranteed` holds with one
  Python thread and any native ones (run `turns`).
- `frozen` (`docs_src/operators/trie.rst:7`, a trie "is allowed to be frozen to
  achieve a better performance"): with more characters than tags (80), freezing
  changes items (`FreezeKeepsItems`). In the trace the value 1 at `<<5>>` and at `<<5,6>>` is inserted; the table that decodes single edges loses the flags
  of its entries when it is copied into elements of another width.
- `rollback` (`BaseSupervisedLearner.cpp:148`, "Rolling back to the latest
  improvement point"): in the job `AtOnce` the loss is 6 after the first pass and
  0 from then on. An iteration without loss counts as no improvement, and what is saved are weights of zero (`KeepsImprovement`).
- `dumped` (`text_featurizers_exports.cpp:65`, an n-gram file has "two columns,
  separated by WHITESPACE or TABULAR characters", as in "the answer 0"):
  `LoadNGram` takes the first blank of a line for the one before the id and throws
  at the rest, so that a dictionary with n-grams of several tokens cannot be loaded
  from the file it was dumped to (`DumpedNGramsLoad`).

Further disagreements show in the conditions that properties need, without a
run of their own:

- `AnswersAreOwn` fails without `EvenRequests`: two malformed calls whose inputs
  disagree on the number of rows can cancel out in one batch, and a well-formed
  call between them returns rows computed from theirs.
- `ModelsIntact` fails without `Apart`. Two processes that save to one directory
  can be given one name (`word_dict.cpp:65`, "Use `uniq_file` to get a non-existing
  file"), and the second truncates the first's file; tokenizers are safe (run
  `contended`), because `add_file` does not overwrite. And the cache hands out the
  instance itself (`trie_export.cpp:98`, "create a new C++ instance"): who loads a
  trie, inserts into it and loads it again gets the changed trie.
- `LinearSVM` and `NGramFeaturizer` add the name of their file under a plain key and
  look for it with `get_file`, which appends `:file`: a saved one cannot be loaded
  (`docs_src/backends/cpython.rst:31`).
- A `CedarTrie` that was opened cannot take a new key: nothing makes the tables
  that new nodes need. Its `Items` stop at the first negative value.
- Special tokens of a GPT-2 tokenizer are lost when it is saved, and `Encode` gives
  them the id -1 whatever id they were added with (`GptSpellsText`).
- `BertTokenizer` is said to be the "same as Bert Tokenizer Fast"
  (`bert_tokenizer_exports.cpp:21`), which makes a lone `[UNK]` of a word that its
  vocabulary cannot spell. `GreedySearch` keeps the pieces before the place where it
  gets stuck and puts `[UNK]` for the rest, which is what `LongestPieces` states.
- `max_length` is the "max acceptable length" (`bert_tokenizer_exports.cpp:82,112`). Of
  one text and of a pair it limits what is encoded, to which BERT's special tokens
  are added: two ids more, or three. And each text of a pair is encoded by itself
  first, with its `[CLS]` and `[SEP]`, which are counted and cut as if they were
  text, and which the pair gets once more (`tokenizer_base.cpp:88`).
- `only_second` cuts the second text to the length of the first, not to what the first
  leaves of the limit (`tokenizer_base.cpp:69`), or pads it with zeros to that length;
  `TruncatesToLimit` says nothing of what it leaves. The test `<= 0` of an unsigned
  number (lines 56, 65) is true only of zero: where the other input alone is longer
  than the limit, `only_first` asks for a vector of enormous size, and the exception
  is another one; `only_second` does not fail at all, and the pair stays too long.
- `GPT2Tokenizer` adds no special tokens to a pair, but does not override
  `GenerateTypeId`, which counts two: the types of a pair part two ids late.
- The sums of the constrained CRF are confined to the allowed tags in a way that
  does not give the sums over allowed paths; a training with them may end by an
  assertion (stage `"failed"`, which `MarginalsAgree` allows of no other CRF).

## 8. Not modelled

*Dynamic batching.* Destruction of the batch manager, calls without inputs or
with tensors without dimensions, and calls that pass different numbers of
inputs: undefined behaviour that no schedule is needed for. Output types the
tensor code does not know. ONNX Runtime is external, and the model of it answers
row by row, so that slicing an output can only fail for a type that
`GetTensorSliceByIndexSpan` does not handle.

*Context and storage.* The file prefix; the torch binding, which creates contexts
in the same way from TorchScript; `ClearCache`, which nothing calls; objects are
never garbage collected, so a cached one is never lost either; the second file
of a GPT-2 tokenizer and the config file of `WordDict`; collisions of MD5
signatures, or of names whose variant ends in digits; a file that the user removes
before saving an object built from it; an edit of a config file while it is
being loaded. A torn pickle makes `load` throw before it changes anything, which
is no step of the model.

*Tries.* What is read or freed through a null or dangling pointer: the model stops
at `Crashed`. `ImmutableTrie::Matches`, which no operator calls; the double array of
`CedarTrie`, third-party code modelled by what it answers; the 256-byte buffers
of the file. Keys with bytes above 127 and values that are all zero are left to
careful users' judgement: what the build does then is undefined.

*Featurizers.* Regular expressions are literals: matching is the standard
library's. Sentences too short for an n-gram order, below which a window is
read out of bounds. Jobs in which a word has two features with one id.

*Tagger.* L-BFGS, a floating-point optimiser; averaging of weights; development
data, which only prints figures; the text form of a model; importance of words.
Jobs reset a premodel only when they expand it.

*Tokenizers.* UTF-8 decoding and the byte-to-character table of GPT-2: a character
is a byte and a code point. Two threads in one GPT-2 tokenizer, a data race.

*Not modelled at all*: the vendored foma transducer and its traversal, SVM training
(a vendored library), the ONNX transpiler (passes over graphs that PyTorch builds
and ONNX Runtime executes), `BuildSession` and `InitializeOrt`, `small_vector.h` and
`expected.hpp` (third-party headers), the logger, and `pyis/ops/dnn`, which no build
file names and which includes headers that do not exist.

`PROJECT.json` names for each component what is missing, and lists under `hazards`
what the properties are for.
