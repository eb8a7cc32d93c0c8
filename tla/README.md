# Verification of fea_libs

TLA+ models of the parts of fea_libs (`src/`) whose correctness depends on an
order of operations: threads that share storage, callbacks that call back,
versions that wrap, containers whose arrays must stay in step, walks that must
agree. TLC checks every model on small instances; TLAPS proves central invariants
and refinements for every instance.

The library is a collection of headers: most parts stand alone and interact with
the user's code by calls and callbacks. `include_cpp17/fea` and
`include_cpp20/fea` hold the code, `tests_cpp17` and `tests_cpp20` its unit tests,
`docs` a few guides. Paths below are relative to `include_cpp17/fea` unless they
say otherwise.

## Inventory

### Parts with state and a protocol

| Part | State it keeps | Operations | Interacts with | Hard behaviour | Correct when |
|---|---|---|---|---|---|
| `performance/tls.hpp` | two deques (user data, lock states), a mutex | `lock`, `unlock` (destructor of `tls_lock`), `combine_each`, `clear` | `deque_list`; the user's threads | `lock` scans without the mutex while others append under it | no datum is used by two threads; unlock finds its slot; locks return |
| `containers/deque_list.hpp` | chain of buckets, last bucket, size | push, pop, clear, shrink, copy, move, iterate | tls | an iteration that lasts while the list grows; buckets that are emptied but stay linked | implements a sequence; every bucket but the last is full |
| `graphs/lazy_graph.hpp` | nodes, parents, children, versions, cached evaluation orders | add/remove node and dependency, make_dirty, evaluate, clean, clean_mt | the user's evaluation function; TBB | versions wrap; caches go stale; nodes cleaned on several threads | a node is recomputed when, and only when, an ancestor was written |
| `containers/id_slot_lookup.hpp`, `flat_id_slotmap.hpp`, `id_slotmap.hpp` | key to position, position to key, values | insert, emplace, erase (by key, position, range), swap, clear | events, graphs; a user's erasing loop | erasing moves the last item; positions have the width of keys | implements a map; the two arrays are inverse |
| `containers/unsigned_hole_hashmap.hpp` | packed values; a table of own slots and collision slots | insert, emplace, erase, rehash | | collisions are repacked into holes, the table grows when no slot is left | implements a map |
| `containers/unsigned_slotset.hpp`, `unsigned_compact_slotset.hpp` | a vector of bitsets, a size | insert, erase (key, iterator, range), merge, swap, move | | a loop erases what its iterator is on; bitsets come to be empty | implements a set that counts its keys |
| `containers/stack_vector.hpp` | raw memory, a size | push, pop, insert, erase, resize, copy, swap | | elements are built, moved and destroyed in place; the value inserted may be one of them | does what std::vector does and assigns to nothing that was not built |
| `state_machines/fsm.hpp` | current and default state, tables, a flag for "in on_exit" | add_state, trigger, update, reset | the user's callbacks; `timer` | callbacks trigger, reset and throw | a state is exited once per entry, before the next is entered |
| `state_machines/hfsm.hpp` | tree of states, history, transition to handle, parallel machines | trigger, update | the user's callbacks | triggers recorded and carried out later by a queue; guards that trigger | every exit has its entry; substates follow parents |
| `ai/htn.hpp` | tasks, methods, actions; plan, current action | make_plan, run_plan, notify_finished | the user's world state and operators | backtracking; replanning while an action runs | a plan made is run in order and from its first action |
| `events/event_stack.hpp`, `event_system.hpp` | subscribers per event; notifiers and channels | subscribe, unsubscribe, trigger, clear | `id_slotmap`; `timer` | callbacks that subscribe, unsubscribe and trigger | each subscriber is called once per trigger |
| `time/timer.hpp` | counter, last ticks, one-shot callbacks | update, pause, unpause, subscribe | `fsm`, `event_stack`, a clock | callbacks collected, called and erased; ticks that cascade | a unit that began is announced; a due callback is called once |
| `include_cpp20/fea/graphs/flat_bf_graph.hpp` | builder: roots and nodes; graph: a forest in arrays, breadth first | push_back, make_graph, make_builder | `flat_id_slotmap`, `id_slot_lookup` | the spans of children point into the array being filled | the graph is the forest that was built |
| `functional/flat_recurse.hpp` | a stack, or the vector being filled | depth first, breadth first, staged walks | the user's children and culling | a walk over the vector it appends to | every walk meets what the recursive one meets |
| `algorithm/sort.hpp` | per thread and index type: counts | radix_sort, radix_sort_idxes | tls (its caches) | counts live from one call to the next; signs and floats | sorts, and stably |

### Parts without a protocol

Type machinery and macros (`meta`, `reflection`, `macros`), text (`string`,
`getopt`, `ini`, `base64`, `config_map`), floating point (`math`), system calls
(`terminal`, `utility/file`, `memory/fmap`, `cpu_info`), generated tables
(`language`), fixed arrays (`enum_array`, `enum_set`, `type_map`,
`descriptor_map`, `span`), type erasure (`functional/function.hpp` and its
neighbours), benchmarks. These, the unit tests and the tables are most of the
lines of the repository. `PROJECT.json` lists each with the reason it is left
out, and lists, under hazards, what is hard to test at the line where it bites.

## Modules

| Module | Models | Notes |
|---|---|---|
| `Tls` | `tls.hpp` and the `push_back` of the deques under it | one action per access another thread can observe |
| `ThreadSlots` | what tls promises | slots bound to threads, handed out and returned |
| `LazyGraph` | `lazy_graph.hpp`, one thread | |
| `LazyEval` | what a lazily evaluated graph promises | one dirty mark per dependency, no versions, no caches |
| `LazyGraphMt` | `clean_mt` and `evaluate_dirty_mt`; extends `LazyGraph` | lanes and tasks |
| `DequeBuckets`, `DequeList` | `deque_list.hpp` | its sizes, and the list |
| `SeqLists` | what lists promise | sequences |
| `IdSlotLookup` | `id_slot_lookup.hpp` as operators | used by `FlatIdSlotmap` and `FlatBfGraph` |
| `FlatIdSlotmap` | `flat_id_slotmap.hpp`; extends `IdSlotLookup` | |
| `KeyedMaps` | what maps promise | partial functions; `FlatIdSlotmap` implements it |
| `HoleHashmap` | `unsigned_hole_hashmap.hpp` | operations are functions on a map; a history variable keeps what was asked of it |
| `SlotSet` | `unsigned_slotset.hpp`, `unsigned_compact_slotset.hpp` | one module, bitsets of any width |
| `StackVector` | `stack_vector.hpp` and the element moves of `memory.hpp` | slot by slot |
| `Fsm` | `fsm.hpp` | callbacks as a stack |
| `Hfsm` | `hfsm.hpp` | a queue of events |
| `Htn` | `htn.hpp`: the planner as a recursive function, and the runners | |
| `PlanRun` | what running a plan promises | |
| `EventSystem` | `event_system.hpp`, its `event_stack`s and their `id_slotmap`s | triggers as a stack of walks |
| `Timer` | `timer.hpp` | |
| `FlatBfGraph` | `flat_bf_graph.hpp`: builder and graph; extends `IdSlotLookup` | |
| `FlatRecurse` | `flat_recurse.hpp` | a turn of a loop is a step |
| `RadixSort` | `sort.hpp` | a call is a step |
| `Containers` | | `FlatIdSlotmap`, `DequeList`, `SlotSet`, `StackVector` as one specification, with their constants; extends the first |
| `Machines` | | `Fsm`, `Hfsm`, `Timer`, `EventSystem` as one specification, with their constants; extends the first |
| `Trees` | | `Htn`, `FlatBfGraph`, `FlatRecurse` as one specification, with their constants |
| `Tls_proofs`, `DequeList_proofs`, `Hfsm_proofs` | | theorems about the module of that name |
| `LazyGraph_proofs` | | theorems about `LazyGraph` and `LazyGraphMt` |
| `Containers_proofs` | | theorems about the parts of `Containers`, those of `DequeList_proofs` among them |
| `Machines_proofs` | | theorems about `Fsm`, `EventSystem`, `Timer` and what `Machines` is composed of |
| `Trees_proofs` | | theorems about `Htn`, `FlatBfGraph`, `FlatRecurse` and what `Trees` is composed of |
| `Recursion` | | recursion and folds of the community modules, for the other modules of proofs |
| `MCTls`, `MCLazyGraph`, `MCLazyGraphMt`, `MCDequeList` | | the values TLC gives to the constants |
| `MCMaps` | | extends `Containers` with `HoleHashmap` and `RadixSort`, and gives all of them values |
| `MCMachines` | | extends `Machines` and `Trees` and gives both values |

`Containers`, `MCMaps`, `Machines` and `Trees` put several parts into one
specification: the variable `container`, `part` or `tree` says which of them a behaviour is
about, and the others stay as they began. Nothing is shared between them, so a run checks
each as it would on its own; a part that may begin in several states begins in one when it
is not the one that runs. `Containers`, `Machines` and `Trees` are what the proofs are
about. In the runs they are not alone: the constant `OtherParts` of `Containers` names the
parts that `MCMaps` adds, and in `MCMachines` either `part` or `tree` is "none". While
another runs they do nothing, so that a behaviour of `MapsSpec` is one of
`ContainersSpec`, and one of `PartsSpec` is one of `MachinesSpec` and of `TreesSpec`. The
parts of `Containers` and `MCMaps` are containers and algorithms that are called once at a
time, those of `Machines` are driven by a program that goes back and forth, and those of
`Trees` walk trees.

### Tls

`threadId` and `locked` are the two members of `thread_info`, per slot; `size` and
`last` are the size and last bucket of `_locks`, `dsize` the size of `_datas`.
`lock()` is cut where another thread can look: reading the size (288), taking the
iterator (289), each comparison of the scan, the claim of a slot (308 ff), the
mutex (325), the append to `_datas`, and the stores of the append to `_locks`
(deque_list 589 to 602), which are the constant `Ordered`'s subject: with TRUE
they become visible in program order, with FALSE in any order, which the data race
allows. `_datas` needs no such detail: a thread reads only elements it appended
itself. `held` counts the live `tls_lock` objects of a thread on a slot; Unlock is
the destructor. combine_each takes the mutex, checks and walks, in steps of their
own; `clear` is modelled while no thread is inside the storage (`ClearQuiescent`),
since called at another time it has the race that `tls_combine_race` shows for
combine_each. size() and empty() change nothing; that their assertion, which takes no
mutex, can fail while another thread is between the two appends is what `tls_sizes`
shows.

### LazyGraph, LazyGraphMt

`parents` is the sequence `_parents`, `children` the set `_children` (its order
decides nothing), `version` is `_dirty_version` and `seenBy[p][c]` the entry of
child c in `_children_versions` of p. Versions are unsigned, 0 is the sentinel
"dirty" and 2 the initial one: the space is `MaxVersion` wide and wraps in a
node's bump as in the code. `evalGraph` is the cached `_evaluation_graph`, empty
while it is flagged. The traversals are operators, folded over breadth-first
levels. The user's callbacks return and do not call back into the graph; graphs
have no limit on parents and children, which is the default.

`Next` is every operation in any order. `NextSettled` lets an edit of the graph
happen only above nodes that have no cached order: edits elsewhere leave caches
stale (`lazy_graph_stale`), after which nothing the header says can be expected.

`LazyGraphMt` starts from any graph of the instance and calls `clean_mt`. A lane is
an independent requested node, or the one lane of all that are not independent; a
task is a record in `running`. The graph does not change during the call.

### DequeList

A list is a chain of buckets (`chain[l]`, each a sequence of elements), `last` and
`size`. Buckets after `last` are empty but linked, as in the code after pops.
Assignments follow the code bucket by bucket. `Next` assigns only to lists that
never held anything, as the copy and move constructors do; `NextAssign` also to
the others, the subject of `deque_list_assign`. An iterator is the bucket it is in,
the last bucket it knows and its place.

### FlatIdSlotmap, IdSlotLookup

`lookup` is the vector of positions by key, cut to the width of the keys (`%`);
`keys` is `_reverse_lookup`, `vals` is `_values`. `Sentinel` is the largest value
of the key type, so every map of `Sentinel` keys can be full. erase by range keeps
the code's list of keys to erase and its loop; `loop` is a user's loop that erases
while it iterates. Constructors of values do not throw.

### HoleHashmap

A map is a record of the members: `hashMax`, `lookup` (the table), `keys`,
`values`, `maxLoad`. The own slot of a key is even, `2 * (key % hashMax)`; keys
that collide share the odd slots, from the own one on. insert and emplace look for
the key, then for a hole, and grow the table when there is none or the load is
reached; emplace may throw before anything is entered. erase moves the last value
into the place of the erased one, as the slotmap does, and repacks the collisions
behind the hole. `Next` erases only where that leaves the table well (every key
is found from its own slot); `NextAny` erases anywhere, the subject of
`hole_hashmap_lost`. `asked` is not of the code: it records which keys the program
inserted and has not erased since, each with the value it gave, and `MapAsAsked`
compares what find sees to it. A key that repacking or rehashing loses, or one that
is found again after it was erased, is seen in the state in which it happens.

### SlotSet, StackVector

In `SlotSet` the key is split into the bitset and the bit; `bits` is the size of a
bitset, 1 being `unsigned_slotset`, whose bitset is a byte. An iterator is the
place of its bit, and ++ stops at the next one that is set. `movedFrom` are the
sets whose `_size` the defaulted move left behind; a program clears or assigns to
them first.

In `StackVector` a slot is `Raw` memory, `Blank` (moved from) or a value; to assign
to raw memory, or to construct over an element, makes it `Bad` unless the type is
trivial. The operations are the loops of the code, one element at a time. A value
is passed as a reference: a value of the program's, or an element of the vector
itself, read when the code reads it.

### Fsm

The stack holds the callbacks that run, each with what its caller does next. The
user moves whenever control is with the innermost callback, or with the caller of
the machine: it calls trigger, update or reset, returns, throws or catches. A
trigger is therefore cut exactly where user code runs: after `maybe_init` (657),
after `on_exit` (674) and after `on_enter` (687). Every on_exit catches what is
thrown in it.

### Hfsm

trigger decides: it offers the transition to the states from the innermost out, and
records the decision (`pending`, `info`). update carries it out: it has a `queue` of
events (the states exited from the innermost out, the state or the substate changed,
the states entered down to the default substates) and runs them one by one. `call`
is the trigger or update that runs and how far it is, `running` the event whose
callback has control. A callback may trigger: behind its event the rest of the queue
gives way to the new transition, as in `execute_events`. `history` is for yield
transitions. `active` is only for the properties: what was entered and not exited.
The predicates of guards are the user's: `Takes` has the targets a state may let
through, and `TakenBy` keeps them from a yield without a previous state, which the
code leaves undefined, whether a trigger, an auto guard or the call that started the
machine would take it. `Sensible` keeps programs from what the code forgets:
to trigger out of an on_exit or while more than updates is to be given up, and to
trigger what may be refused while something is pending.

### Htn, PlanRun

`make_plan_imp` is the code's recursion over tasks, methods and actions, with the
plan and the world passed on and restored when a method fails. `sync` tells a
network whose operators return bool and are called again until they are done from
one whose operators return void and whose end is reported with `notify_finished`.
`started` is the action whose operator was called; `told` what the last call
returned; `trust` whether the world changed only by effects since the plan was
made. The program may change its world between two calls. An asynchronous program
plans only while no action is current, since make_plan keeps `_current_action`.

### EventSystem

Each channel and each notifier has a stack; each of its events has the sequence of
its subscribers, in the order the `id_slotmap` keeps them, and a generator of
ids. `walks` are the triggers that run, each with the place it is at. A callback
may subscribe (while the vector does not grow), trigger again, and unsubscribe or
clear what no trigger walks; elsewhere the code walks freed or moved memory.

### Timer

`real` is the machine's clock, `seen` the time of the last update that `counter`
was advanced to, `ticked` the last tick of each unit. An update is one step: it
announces the units that began, the smaller first, and calls what is due; the
calendar is small but has months and years of different lengths. A callback list
is parted as std::remove_if leaves it (an element that was moved from is an empty
function, which throws when called); what an empty one keeps from being erased stays
in the list. A program subscribes in any order. `called` are the callbacks that the
last update called: `CallsTheDue` says what that comes to in any order, and that it is
what it should be where what is due stands behind what is not; `NothingOverdue`, which
says what the header does, fails (`timer_due`).

### FlatBfGraph, FlatRecurse, RadixSort

The builder takes roots, children of nodes it has, and nodes with declared children
that are added later. make_graph appends breadth by breadth: `graph` has the keys,
the parent of each, the spans of children and breadths and the lookup, entered by
a range per breadth. make_builder is the way back. One of builder and graph is
kept at a time.

`FlatRecurse` runs the walk that keeps a stack, the breadth-first one (`place` is i)
and the staged one (`place` is its two indices) on any tree and any set of culled
nodes, one turn of the loop at a time; the recursive walk is the function the
others are compared to.

`RadixSort` has numbers as tuples of bytes in base `Base`, unsigned, signed and
float; `counts` are those of one thread, one table for each type of index, which
live until the thread ends. A call is a step: counts are reset and taken, turned
into places (for the sign byte of signed numbers and floats in the order that the
code uses), and items moved byte by byte.

## Runs

Passing runs are exhaustive for their bounds. All bounds are constants of the cfg
or of the instances in the MC module, or guards of the model named for what they
bound.

| Run | Shows | Bounds, and why they are enough |
|---|---|---|
| `tls` | exclusion, safe unlock, the scan stays in bounds and is complete, no needless growth; `ImplementsThreadSlots`; `lock` returns (`LockReturns`) | 2 threads, one of which combines; 2 nested locks each; buckets of 2, 4 slots: both threads append, reuse and cross a bucket border |
| `tls_combine_race` | violates `CombineExclusive` | as above |
| `tls_push_race` | violates `ScanInBounds` with unordered stores | as above |
| `tls_sizes` | violates `SizeAsserts` | 2 threads, 2 slots, no nesting |
| `lazy_graph_settled` | structure, versions, cached orders; implements `LazyEval` | 3 nodes: chains, joins and forks; versions 2 to 4, so they wrap after three writes |
| `lazy_graph_stale` | violates `EvalGraphsSound` | 3 nodes |
| `lazy_graph_mt` | no conflict between tasks, versions as if cleaned in turn, the call returns | all graphs of 4 nodes (diamonds included), requests of one node, the same node twice, dependent and independent pairs |
| `deque_list_assign` | violates `PushHasRoom` | 2 lists, buckets of 1 |
| `maps` | the slotmap (`LookupInverse`, `ImplementsKeyedMaps`), the hash map (`MapAsAsked`), deque_list (`BucketShape`, `IterInBounds`, `ImplementsSeqLists`), the slot sets (`SetsAsAsked`), stack_vector (`VectorsAsAsked`), the sorts (`SortsStably`) | slotmap: 3 keys, all in use at once, so that the hole is first, middle or last; hash map: 4 keys that share their own slots in tables of 3 and of 7, two load factors; lists: 2, buckets of 2, up to 3 elements: empty, full and partly filled buckets and the border; sets: 2, keys that share a bitset or not, bitsets of 1 and 2; vectors: 2, of 4 slots; sorts: 2 or 3 numbers of one and two bytes of 4 values, two calls with counts of two index types |
| `hole_hashmap_lost` | violates `KeysFound` | 4 keys, a table of 7 |
| `machines` | fsm (`ReadStateHolds`, `ExitOnce`, `EnterAfterExit`), hfsm (`RestsInCurrent`, `EntersAndExitsNest`, `UpdatesTheActive`), timer (`AnnouncesWhatBegan`, `CallsTheDue`), events (`IdsLeadHome`, `CallsWhoWasThere`), htn (`PlanSound`, `RunsThrough`, `ImplementsPlanRun`), flat_bf_graph (`GraphAsBuilt`), flat_recurse (`TraversalsAgree`) | fsm: 3 states, 2 transitions, 3 nested callbacks: a trigger in an on_enter in an on_exit; hfsm: 4 states on 2 levels with internal, guarded and yield transitions; timer: a calendar of 104 ticks with months of 2 and 3 days, two callbacks in any order; events: 2 nested triggers, 3 ids, a notifier; htn: 2 tasks, 6 methods, 3 actions, with a method that fails after it changed the world; every forest of 4 nodes in every order; every tree of 5 nodes and every set of culled ones |
| `timer_due` | violates `NothingOverdue` | as above |

Deadlock is checked in every run: no cfg turns it off.

What the invariants of the containers compare to is worth a word. `SetsAsAsked` and
`VectorsAsAsked` are checked in every state that operations build and say of every
operation, from there, that it does what a set of numbers or a sequence would do.
`MapAsAsked` compares the hash map to `asked`, the history of what was inserted and
erased: an abstract map that may lose keys would not do, as a step that loses one would
pass for an erasure.
`GraphAsBuilt` compares the arrays with the builder they were made of, kept in
`built`; `TraversalsAgree` the finished walks with the recursive one;
`SortsStably` the last call's result with its items.

### Fairness

`tls`: every thread that is inside `lock` or `combine_each` goes on (weak fairness
of its own steps), which is what a scheduler that does not starve a runnable thread
gives. The calls themselves are not fair: a thread need not call, nor unlock.
std::mutex is not fair either, so `LockReturns` says that a lock that was begun
returns unless another thread takes the mutex for combine_each again and again.
`lazy_graph_mt`: some lane or task that can move does (weak fairness of all work
together); the pool of TBB does not stop while it has tasks. No other run uses
fairness: the other parts run when, and only when, a program calls them.

### What the runs found

Each violation run shows one place where the code does what its own comment,
assertion or documentation excludes; `PROJECT.json` quotes both.

- `tls_combine_race`: combine_each checks that nothing is locked, then walks; a
  thread that already owns a slot can lock it in between, without the mutex.
- `tls_push_race`: the size, the element and the last bucket are plain members read
  without the mutex; seen in another order, the scan leaves the last bucket.
- `tls_sizes`: size() and empty() assert that both deques have the same size, without
  the mutex under which another thread appends to one and then to the other.
- `lazy_graph_stale`: only the node whose parents change drops its cached order;
  those of its descendants are kept.
- `deque_list_assign`: copying into a list that has more buckets leaves them filled.
- `hole_hashmap_lost`: repacking moves a key into a hole that is not behind its own
  slot, where it is never looked for again.
- `timer_due`: the one-shot callbacks called are what std::remove_if leaves behind
  those it keeps, which need not be those that are due: one that is due and was
  subscribed before one that is not may be lost, or wait on because an empty function
  in its place threw.

### What the code showed without a run

Met while modelling. The models keep programs from these, or leave the operation
out, because with them the properties fail at once or the code has no defined
behaviour.

- `flat_id_slotmap` 576: a key is entered before its value is constructed; a
  constructor that throws leaves a key without a value.
- `fsm` 670 to 672: an exception out of on_exit leaves the flag up, and the next
  trigger skips the on_exit of its state. A machine that is reset and used again
  inside an on_exit enters its default state, and the outer trigger then leaves it
  without its on_exit; `EnterAfterExit` spells this out.
- `hfsm`: `current_states` of a substate forgets `depth_first` (460); a trigger that
  is refused while another is pending clears what was recorded; a yield without a
  previous state is undefined (932).
- `htn` 1047 to 1056: make_plan keeps `_current_action`; an asynchronous program that
  plans while an action runs goes on checking the old action.
- `timer`: unpausing does not refresh `_new_update_time`, so the time of the pause
  counts (365 to 372); callbacks may not subscribe while they are called; with a
  start time other than 0 the first tick of months and years uses the mean month and
  year (180 to 182).
- events: a callback that unsubscribes itself, or makes the vector grow, moves what
  is being walked.
- `unsigned_hole_hashmap`: with a load factor above 2 an empty map is never given a
  table (912), and inserting works on one of a hash size of 0.
- `lazy_graph`: with limits on parents and children add_dependency edits the child
  before the parent refuses (848); a user's function that throws loses the dirty
  mark of its node (1139).
- slotsets: the constructors from a braced list leave the set empty; the defaulted
  move leaves `_size`; post-fix ++ and -- of iterators return a reference to a local;
  erasing a range returns the iterator one behind `last`; the largest value of
  size_t as a key wraps in the resize.
- `stack_vector`: inserting copies of a value that lies in the part that moves up
  reads an element that was moved from; inserting a range moves out of ranges of
  lvalues; the defaulted copies and moves and swap work on bytes.
- `flat_bf_graph`: clear of the builder keeps the roots; a copy of the graph keeps
  spans into the original's keys; a graph of no roots is undefined; cbegin and cend of
  the builder call themselves.
- `flat_recurse`: the staged walk leaves an empty stage behind when all children are
  culled; the walk with a stack asks the predicate twice of a first child.
- `sort`: equal negative floats come out in reverse.

### Hazards without a property

Five of the hazards in `PROJECT.json` have none, for the same reason each: the
property that would cover it fails in the first state after it, and nothing is
learnt from a longer run. These are the throwing callback of `lazy_graph`, the throwing
constructor of `flat_id_slotmap`, the throwing on_exit of `fsm`, the yield without
history of `hfsm` and the replan under an action of `htn`, all described above.

## Proofs

The proofs have the same argument: an inductive invariant holds initially and is
preserved by every action, one step per action and one per conjunct it disturbs.

`Tls_proofs`, for any number of threads, slots, nested locks and any bucket size. What
is true depends on the order in which the stores of an append are seen, which the plain
members of deque_list leave open, so each theorem says what it needs:

- In any order: `CountsInv` (`CountsInvariance`): the type invariant, `MutexOwner`
  (who is inside a guarded section holds the mutex), `SizesAgree` (the deques differ only
  between the two appends), `ScanCounts` and `PushCounts` (what a thread knows of its own
  scan and append). From it `TypeCorrect`, and `GuardedAssertions`: the assertions made
  under the mutex hold. Those of size() and empty() do not (`tls_sizes`).
- In any order, in a storage that is never cleared (`KeepsSpec`): `Exclusion` and
  `UnlockSafe`. `KeepsInv` adds `HandsInv` (`SlotExclusive`, `HandleLocked`, `ClaimState`:
  a slot about to be claimed is free and the thread's own, `PushWritten`) and `Unwritten`:
  a slot that has not been written yet is nobody's, so a scan that comes to it too early
  does not claim it.
- In program order (`Ordered = TRUE`): the same two also where the storage is cleared, by
  `IInv` (`Invariance`), in which `SizeLast` stands in for `Unwritten`: the size is stored
  after the element, so that no scan comes to the slot before. The condition is needed: a
  slot that was used before a clear keeps its old owner until it is written again, and with
  the size seen first that owner may claim it while another thread appends it.
- In program order: all that follows. `ScanInv` adds
  what the stores of an append have published (`StoreState`), what a scan has passed
  (`PassedState`) and that what is flagged is in its thread's hands (`LockedHeld`): from it
  `ScanSafe` (`tls_push_race` shows that the order is needed), `FastPath`, `Refinement`,
  that every step is a step of `ThreadSlots` or a stutter, and `SlotsWithinNesting`.

`SlotsWithinNesting` bounds the slots: before an append every slot of the thread is in
its hands, by `FastPath` and `LockedHeld`; its handles are on at most as many slots as
it has nested locks (`HandlesCount`), and these are below their bound since the lock
began (`NestState`).

`Recursion` is about what the modules are made of that is defined by recursion:
the traversals of `LazyGraph`, the sequence of a `DequeList`, the nesting of locks in
`Tls`, the planner of `Htn`. A fold over a finite set or a sequence is the last of a
chain of steps (`FoldExists`, `FoldLeftExists`, `FoldLeftTurns`), a recursive function
exists when each value is got from the one before (`IterationExists`) or from those of
a lower rank (`RankedExists`), a closure is the least set (`ClosureLeast`), and `FlattenSeq`
puts its sequences one after the other (`FlattenIsFlat`, and `FlatMapAppend`, `FlatMapConcat`
and `FlatMapFlatMap` of the sequences that a function has for the elements of one). An induction is done there
over the set of numbers for which the claim holds, by the theorem that a nonempty
set of numbers has a least one, since the induction theorems of the library cannot
be instantiated.

`LazyGraph_proofs`, for any finite set of nodes (`IdsAssumption`), any writable and cleaned
ones and any width of versions. `Anc(P, x)`, x and all that is above it in the graph
P, is what the walks are compared to: `Upward` reaches exactly it, because a walk that
goes up as often as there are nodes has come to an end. `StructureCorrect` rests on
`Linked` (both ends of every dependency agree, no parent is listed twice) and
`Acyclic`: the walk of is_invalid_child finds a loop whenever the new edge would
close one, and removing nodes closes none. `NeverAheadCorrect` rests on `AllBehind`: no child
saw a version beyond its parent's, which the wrap keeps because it makes all
children forget. Where edits happen only above nodes without a cached order
(`SpecSettled`), `SoundGraphs` says that a cached order holds the ancestors of its
node, each once, parents first (`EvalGraphsCorrect`): the fold of `SortedUpward`, which moves a
node that is met again to the end, keeps parents before children. The
refinement `ImplementsLazyEvalCorrect` maps a dirty mark to "saw another version than the
parent has"; its hard step is evaluate_dirty, where one pass of the loop over the order
must do what `LazyEval` says at once of all ancestors: `Visited` describes the
versions after each turn, for the nodes behind and those to come.
`SubgraphOnlyCorrect` is about the loop of remove_subgraph over the descendants: the set
it leaves holds a descendant exactly when it holds all its parents, since after each
occurrence of a node its children come again, so the last occurrence of a node is
looked at after all its parents (`OrphanedIs`). In a finite graph without
cycles that set is the complement of what chains of parents that avoid the
node lead to (`LedLeast`, `NoEndlessParents`).

The second part of `LazyGraph_proofs`, about `LazyGraphMt`, for any graph, calls, and interleaving of lanes and tasks, when
ids are numbers and calls sequences of them (`NumberedAssumption`,
`RequestsAssumption`). `LanesOK` says that what different lanes reach is disjoint, that a
lane's order has parents first, and that a lane's tasks neither run the same
node nor a node and its parent, for what a lane waits for is what it gave away
since its last wait. `NoConflictCorrect` follows. That the versions end as
if cleaned one after the other cannot be shown by comparing steps, because
lanes clean in another order. `TurnsOK` compares instead what is left:
a node is *due* when it or an ancestor has a parent whose version it did not see, or
has seen its parents and was not bumped yet. `Outcome(P, v, C, R, e)` says that e is what the versions
v become once all that is due in R was bumped once and all of R has seen its parents.
A turn of the sequential loop keeps the outcome (`CleanedOutcome`), and so do a task's two
steps (`OutcomeSees`, `OutcomeBumps`), provided its parents are no longer due (`TasksReady`,
which `OrderReady` supplies); when the lanes are done nothing is left,
and the outcome is what there is (`MatchesInTurnCorrect`).

`DequeList_proofs`, for buckets of any size, any number of lists and values: every
list is in shape (`ListOK`: buckets before the last full, those behind it empty, the
size the sum) and so is its iterator (`IterOK`). Sizes are products of bucket counts,
so a small theory of them comes first. From it `ShapeCorrect`, `IterCorrect`,
`TypeCorrect`, and `RoomCorrect`: the assertion of push_back holds while only new
lists are assigned to, which `deque_list_assign` shows to be needed.
`Refinement` maps a list to the sequence of its buckets up to the last one in use
(`Cat`), which is the only sequence that has the elements of each bucket where the sizes
of those before it say, and an iterator to what it has still to read (`Rest`): every
operation is one of `SeqLists`. In `Containers_proofs` they become theorems about
`ContainersSpec`, and so about the run `maps` (`BucketShapeCorrect`, `IterInBoundsCorrect`,
`ImplementsSeqListsCorrect`), as those of `Hfsm_proofs` below do.

`Containers_proofs` begins with `FlatIdSlotmap`, for any number of maps, keys of any width and any values:
`IInv` says that every map has as many values as keys and that `lookup` and `keys`
are inverse. The erase is the hard step: the last key moves into the hole and its
entry must follow. That a position always fits in the width of a key is a
pigeonhole argument: positions are distinct keys' and there are at most `Sentinel`
keys. From it `TypeCorrect`, `SizesCorrect`, `LookupCorrect`, `EqualCorrect`
(operator== compares what the maps hold, in any order) and `Refinement`: each
operation is one of `KeyedMaps`, by `IsMapOf`, which relates a map's arrays to the
function they stand for, and `OneCall`: a map is not being erased from by range and
looped over at once.
`PartsStep` says that a step of `Containers` is one of each part or leaves it, so these
hold among the others too (`SlotmapAmongOthers`).

`Containers_proofs`, `SlotSet`, for any keys, number of sets and width of bitsets, when a range that is
inserted is a sequence of keys with at least one (`SetsAssumption`): `SetsInv` says of every set that is not moved from
that its size is the number of its keys (`SetOK`). A key is a bitset and a bit of it
in one way only (`Division`, `SameKey`), which is what makes one mark one key. The loops are folds
over a batch or over the keys a loop comes to; after each turn the set is in shape and has the keys
of the turns so far (`FilledAdds`, and, by induction over the subsets of a finite set,
`MarksAll` and `ErasesAll`). merge marks and erases what only the other set has (`MergedTakes`).
From it `SetsAsAskedCorrect`.

`Containers_proofs`, `StackVector`, for any capacity, number of vectors and values, when raw memory is
told from an element (`SlotsAssumption`): `VecsInv` says that the elements are in front and are values, and that
what is behind them is raw memory, unless elements are trivial, which are left where
they were. Moving, building, destroying and assigning slot by slot are chains of memories
(`MovesRun` and its like), and what the memory is after each link is told by place: what was
moved, what was left behind, what is yet to be moved (`MovedToFront`, `MovedToBack`). So erasing and
inserting give the elements that cutting and splicing a sequence give (`CutIs`,
`SplicedIs`), also where the new value was an element that has moved by then
(`InsertedIs`), and no slot is assigned to that was not built: `VectorsAsAskedCorrect`.

`Machines_proofs` begins with `Fsm`, for any states, transitions, tables and nesting:
`IInv` is the type invariant and `StackOK`: the flag is up exactly while an on_exit has a trigger to finish,
which is the innermost on_exit on the stack, and unless the machine was reset the
state its trigger read is still the current one and no state is entered. From it `FlagCorrect`, `ReadStateCorrect`, `ExitsOnce` and `EntersAfterExit`.

`Machines_proofs`, `EventSystem`, for any channels, events, subscribers and bounds
(`EventsAssumption`): `EventsInv` says that the lists of subscribers have no id twice,
that an id is below the generator of its event, that `subscribed` (who an id was
given to) and the lists agree, and of every walk that it is at a place of
the list it began with, which may have grown behind its end but not changed before
it. What makes it inductive is that each place of a list is compared to the walk's
copy, and that what a walk is on is not erased from (`NotWalked`). From it `IdsLeadHomeCorrect`, `CallsWhoWasThereCorrect`.

`Machines_proofs`, `Timer`, for units of any length of which each is a multiple of the one before, any calendar whose
years begin with a month and any steps of the clock (`CalendarAssumption`): `TicksOK` says that each event was
ticked when it last began. It is inductive because what begins with a unit begins with
all that are looked at before it (`BeginsNest`): so if a smaller unit did not begin, this one
did not, and its tick is right without having been looked at. From it
`AnnouncesWhatBeganCorrect`, if the clock starts on a day on which the mean month and
year agree with the calendar (`StartsOnCalendar`; see above what happens on
others). `CallsTheDueCorrect` is about lists in any order (`WaitingOK` only says what their entries are).
In any order what is called was due and what is not due is left (`UpdateAny`), as what remove_if
leaves behind the kept ones is either due or empty, and an empty one throws before it is
called. In a list in which what is due stands behind what is not, what is kept is its
front (`KeptIs`), what remove_if leaves behind it was not moved from, none of it throws,
and all of it is called (`UpdateInTurn`). In other orders it is not: `timer_due`.

`Hfsm_proofs`, for any machine as its builder makes it (`HierarchyAssumption`: a default
substate is a substate, the default state has no parent), whatever its guards let
through, whose substates have no substates (`TwoLevels`). `HierInv` relates what is left of the queue to what
is entered, by cases of what the queue is doing: only updates are left and all that
is current is entered, or it is entering, leaving or switching
states, and then just what it has yet to exit is there and just what it has yet to enter
is missing (`RestOK`). A transition is pending only in the first case, and can be
carried out in the current state (`DecisionOK`): so what replaces the queue begins
where all is entered. From it `RestsInCurrentCorrect`, `EntersAndExitsNestCorrect` and
`UpdatesTheActiveCorrect`. `TwoLevels` is needed: with three
levels `current_states` forgets `depth_first` (460) and exits the outer of two substates
first, and an internal transition exits only the state that decided and not what is
inside it, so that the properties fail.

`Hfsm_proofs` is about a module of its own. `Machines` instances the same
module with its variables: `Machines_proofs` instances the module of proofs in the same
way, shows that both instances have the same assumptions, initial states and steps, operator
by operator, and that a step of any other part is a stutter of it
(`HierAlone`). So its theorems hold of
`MachinesSpec`, and so in the run `machines`.

`Trees_proofs`, `Htn`, for any network whose tasks do not lead back to themselves (`Layered`; the
planner of one that do may call itself for ever, and its recursive
definition then says nothing), any predicates, effects and worlds: the planner is a
function (`PlannerIs`), since it calls itself for nodes of a lower rank, and so are the
`Ways` (`WaysAre`). By induction over the ranks a node makes of a plan one of its
ways, or leaves it (`NodesSound`): the loop over methods tries each on the same plan and
world, the loop over subtasks extends the ways of those before, and when one fails
the plan, which only grew, is cut back (`CutBack`). From it `PlanSoundCorrect`. Every way
is a course, each action of which is done where its predicates hold (`WaysTyped`); so what is
left of a plan nobody disturbed is runnable from the world there is (`PlanOK`), which
every step keeps: `RunsThroughCorrect`. With `RunnerOnHead`, that the asynchronous
runner works on the head of the plan, `ImplementsPlanRunCorrect` follows. TLC
evaluates the assumptions on the network of its run.

`Trees_proofs`, `FlatBfGraph`, for any number of keys and any way of adding
them: the builder is a forest in every state (`ForestOK`), as every node has a depth, which is
why a breadth is not empty before all are placed. A turn of `recurse_breadths` keeps what was
filled so far (`FlatUpTo`): the keys are the nodes of the first breadths,
each once; parents and spans are theirs, though the spans point behind what is there; the
spans of the children follow one another, so that the next breadth fills them in
order (`NextBreadthIs`, `ChildCountIs`); the lookup has the position of each key. When the keys are as
many as the nodes nothing is left (`CompleteIs`), the spans of the breadths are the keys again
(`BreadthsAre`), and adding the nodes in this order gives the roots and the nodes back
(`RebuiltIs`). From it `GraphAsBuiltCorrect`; that the builder is a forest again after
`make_builder` is one of the steps of `GraphInvariance` and rests on it.

`Trees_proofs`, `FlatRecurse`, for any tree and any culled nodes: the recursive walk is a
function, as children have higher numbers than their parent (`DepthFirstIs`, `DepthIs`), and
what it meets at a depth are the children of what it meets at the depth above, in the
same order (`LevelNext` of `Recursion`, `AreBreadths`). The invariant of `WalksInvariance` says
where each walk is in this. What the walk with a stack has done, followed by the recursive
walks of its stack from the top, is the recursive walk of the root (`DepthOK`); it is why the
children are pushed back to front. The vector of the breadth-first walk is the
root and the children of the nodes it has passed (`BreadthOK`), and a sequence that is the root and
its own children is all breadths one after the other (`BreadthsWhole`). The stages up to
the ith are breadths, and the next has the children of the nodes passed (`StagedOK`); after an
empty breadth there is none (`BreadthsEnd`). From it `TraversalsAgreeCorrect`.

The type invariants of `Tls`, `LazyGraph`, `DequeList`, `FlatIdSlotmap`, `Fsm` and `Htn`, the assertions
of tls made under its mutex (`SizesAgree`), the flag of fsm
(`FlagMeansPending`), equality of slotmaps (`EqualSound`) and the runner's current
action (`CurrentIsHead`) are theorems and not properties of a run.
The other theorems state properties that a run checks: the run shows them on an instance, with
bounds, the theorem for every value of the constants.

Only model-checked: liveness (`LockReturns`, `CleanMtReturns`), which TLAPS cannot
reason about, and `HoleHashmap` and `RadixSort`. The properties of `HoleHashmap` hold of
the programs of its run and not of all; `RadixSort` is an algorithm that is compared to a
definition over bounded inputs.

## Not modelled

- tls: `clear` while other threads are inside; moving a tls; the contents of data.
- lazy_graph: evaluation functions that throw or call back; limits on parents and
  children.
- deque_list: destruction of elements, decrementing iterators.
- flat_id_slotmap: insertion of ranges is repeated insertion; comparison of iterators.
- id_slotmap: the same algorithm on pairs; `FlatIdSlotmap` stands for it, and
  `EventSystem` has its order of subscribers.
- unsigned_hole_hashmap: swap, copies, iterators.
- stack_vector: the rvalue overloads, elements whose constructors throw.
- fsm: which registered function an event selects, finish_state, FEA_FSM_NOTHROW.
- hfsm: parallel machines, on_enter_from and on_exit_to, printing.
- htn: networks whose tasks lead back to themselves until a predicate stops them:
  the run has none, and the proofs exclude them.
- event_stack, event_system: trigger_mt, swap and merging of notifiers.
- timer: ratios and rounding of floating point durations.
- flat_bf_graph: the values of nodes; iterators over breadths.
- `jump_span`, `back_ptr`, `fmap`, the wide arithmetic of `numerics` and the parts
  without a protocol above. The map of definitions to lines therefore covers little
  of the whole repository: most of its lines are tests, tables of languages and CPU
  features, text and templates, which have no state to model.

## Plan

In this order, most important first:

1. `Hfsm`: parallel machines, which run their own transitions in one update.
2. trigger_mt of `event_stack`, with the callbacks as tasks; `back_ptr`, whose two
   ends follow moves of each other; the windows of `fmap`.
3. Arithmetic of `numerics` and `clamp_cast` on small widths, as operators checked
   against a definition.
