# Verification of fuguex-core

fuguex-core is an emulator for lifted machine code (Fugue p-code): it keeps the
state of the emulated program in layers of byte stores, executes the p-code of
one instruction after another, and lets its users fork a whole machine, run it,
and rewind it to the fork. This directory holds TLA+ models of that code, TLC
configurations that check them on small instances, and proofs, checked by TLAPS,
of the properties that matter most for every instance.

Line numbers refer to the files under `src/`. `PROJECT.json` maps every
definition to the lines it stands for and lists runs, hazards and theorems.

## 1. The system and its parts

```
            Machine (step, step_until)                 fuguex-machine
               |  lift, operation, one call per p-code operation
            ConcreteContext  --- hooks, walkers, tracker, policies, intrinsics
               |                    fuguex-concrete, -hooks, -microx, -intrinsics
               |  operands, addresses, fork, restore
            PCodeState                                  fuguex-state
             /    |     \
   RegisterState Unique  PagedState  <--- built by fuguex-loader
       |          |       /     |    \
   FlatState  FlatState  Static ChunkState StaticMapping
                         (slice   |           |
                        of one  FlatState  FlatState
                       FlatState)
```

Everything is called by one owner through `&mut`, so a state is never used by two
threads at once; the exception is the lift cache, which forks share (`Arc`).
What makes the code hard is not parallelism but *history*: states are forked
from one another, written, and restored in any order, and restore trusts records
(dirty blocks, chunk lists, interval sets, permission bits) kept by all the calls
before it.

| component | state | operations | what is hard | what makes it correct |
|---|---|---|---|---|
| flat state, `flat.rs` | bytes; permission bits; dirty blocks as list and bitmap | read, write, mutable view, copy; set and clear permissions; fork, restore | restore copies only blocks marked dirty; overlapping copies; blocks at the end of the backing | forks independent, restores exact, copies are memmoves, accesses admitted by permission alone |
| chunk heap, `chunked.rs` | chunk list; interval set of regions; a flat state | allocate, reallocate, deallocate, accesses, fork, restore | three records of what is allocated; resizing in place, up, down or by moving | chunks tile the heap and are the regions; writes confined to one region; contents kept |
| paged state, `paged.rs` | map from address intervals to segments (slices of one flat state, heaps, flat states) | map, translate and access, copy across segments, fork, restore | accesses at the end of a segment; restoring when the segments differ; fault addresses | an access reaches the cells of exactly one segment; restore leaves the segments common to both |
| p-code state, `pcode.rs`, `register.rs`, `unique.rs` | register, unique and paged state | read and write operands and addresses, fork, restore | routing by address space; writes to constants panic | one write changes one space; the three states fork and restore together |
| machine, `machine.rs`, `types.rs` | the instruction being executed and the position in it | step, step_until | redirections by hooks before and inside an instruction; errors ignored or not; bounds | every operation in order, no position out of the instruction, bounds respected |
| concrete interpreter, `interpreter.rs`, `hooks.rs` | p-code state, hooks, intrinsics, shared lift cache | one per p-code operation; lift; fork, restore | hooks that change state, skip or redirect; retry after a fault; the cache under forks and self-modification | hooks see each access once and in order; a skipped access has no effect |
| walkers, tracker, policies, `driver.rs`, `tracker.rs`, `microx.rs` | path or random state; trace; policy | hooks of conditional branches, calls, faults | a flip and a halt in one step; recorded against taken branch | the recorded path is the path taken |
| intrinsics, `fuguex-intrinsics` | table of handlers | register, handle | handlers that change state or branch | the named handler runs, or the default |
| loader, `fuguex-loader` | none | build a paged state | overlapping or empty segments | the mapped bytes are the database's |
| hook and policy types, state traits and derive | none | declarations | | |

There are no tests in the repository and almost no documentation; comments state
a few intentions, and section 6 says where the code disagrees with them.

## 2. Modules

| module | what it models |
|---|---|
| `SnapshotMemory` | *abstract specification*: a family of memories with their own bytes and permissions; memmove copies; independent forks; exact restores |
| `CopyRegion` | the copies of `FlatState::copy_values` as functions of the contents |
| `CopyLoop` | the two `unsafe` loops of `copy_values`, one iteration per step |
| `Rewinding` | the history `tracks`, shared by the three modules with fork and restore: what may be rewound to what |
| `FlatState`, `MCFlatState` | `flat.rs`: all accesses, permissions, dirty blocks, fork, restore |
| `RegionHeap` | *abstract specification*: a heap of regions with contents, without chunks, and one snapshot |
| `ChunkHeap` | `chunked.rs`: chunk list, regions, red zones, permissions, contents |
| `HeapSnapshots`, `MCHeapSnapshots` | a `ChunkHeap` with fork and restore |
| `SparseMemory` | *abstract specification*: memories with holes; an access stays in one block; reads return what was seen |
| `PagedState`, `MCPagedState` | `paged.rs`: segments, translation, all accesses, mapping, fork, restore |
| `PCodeState`, `MCPCodeState` | `pcode.rs` with `register.rs` and `unique.rs`: operands and addresses in three parts |
| `Machine`, `MCMachine` | `machine.rs`, `types.rs`: `step` and `step_until`; a program for TLC |
| `ConcreteContext`, `MCConcreteContext` | `interpreter.rs`: every p-code operation as its accesses and hook calls; the policies of `microx.rs` among the hooks |
| `LiftCache`, `MCLiftCache` | `ConcreteContext::lift` on several threads, with the cache and its lock |
| `Walkers`, `MCWalkers` | `driver.rs`, `tracker.rs`: hooks that steer and record branches, and are rewound |
| `Loader`, `MCLoader` | `fuguex-loader`: from segments of a database to windows on a backing |
| `FlatStateProofs`, `ChunkHeapProofs`, `PCodeStateProofs`, `ConcreteContextProofs`, `WalkersProofs`, `MachineProofs`, `LiftCacheProofs`, `PagedStateProofs` | theorems about the modules they are named after; `FlatStateProofs` holds those about `CopyRegion` and `CopyLoop` too, `PagedStateProofs` those about `Loader` |

The modules meet at their abstractions. `FlatState` is proved to implement an array
that is copied by fork and restore, and this array is what stands for a flat state
in `HeapSnapshots`, `PagedState` and `PCodeState`. A heap is its regions in
`PagedState`, which `HeapSnapshots` is proved to implement. An operand is a place with a value in `ConcreteContext`. `Machine`
takes any interpreter. `Loader` promises `PagedState` what its assumption asks
(`WindowsApart`), and both are proved in `PagedStateProofs`.

### FlatState

The handles are the `FlatState` values a program holds: a state and its forks,
and the forks of those. Each variable is a function of the handle:
`backing` (the bytes), `indices` and `bitsmap` (the two fields of
`DirtyBacking`, both as sets of blocks), `readable` and `writable` (the bits of
`Permissions`, which packs them in words: the model keeps the bits). `result` is
the outcome of the last call, and `tracks` is history.

Every method is one action with its outcomes as disjuncts, tested in the order of
the code: `ViewValues` (also `get_values`), `SetValues`, `ViewValuesMut`,
`CopyValues`, `SetRegion` and `ClearRegion`, `Fork`, `Restore`. `Restore` reads
back the blocks of the restored state's own list and takes marks and permissions
from the other.

`flat.rs` says nothing of when `restore` is exact, and it is not always: a fork
taken before the writes it is asked to undo were marked, or a restore from an
unrelated sibling, leaves stale bytes. `tracks[h]` records the states `h` may be
rewound to: those it was forked from or that were forked from it, as long as
they were not written since, and what follows by restoring. `call` is history too: the last
call with its arguments. It is shared with `SnapshotMemory`, so that the refinement
is call by call: a copy of these cells must be that copy of the abstract memory, a
refusal must be of a call that is not admitted. `Spec` restores
without discipline; `DisciplinedSpec` restores along `tracks` only, and under it
`FlatState` implements `SnapshotMemory`.

`copy_values` panics on ranges that do not overlap unless the upper one ends
with the backing (`clone_from_slice` on slices of different length,
`flat.rs:166-171`). The model has this outcome (`LengthsDiffer`), and so has the
abstract specification (`CopyAborts`); a panic ends the history.

### CopyLoop

For overlapping ranges `copy_values` copies cell by cell through raw pointers,
upwards when the destination is below the source and downwards otherwise. The
module starts from any overlapping arguments and *either* direction; its property
says that the direction the code picks ends as memmove.

### ChunkHeap

`chunks` is the `ChunkList`, in order; `regions` the interval set of what the
client may use; `writable` the write permission of the backing; `data` its
bytes. A chunk is one byte longer than its region, and that byte, the red zone,
is sealed. `Reallocate` is split by what the chunk list does (`ReallocateKeep`,
`ReallocateShrink`, `ReallocateUp`, `ReallocateDown`, `ReallocateMove`), each
followed by the same `Commit` (permissions, copy if moved, interval set), as in
the code. `FirstFit`, `Holds` and `RegionAt` are the code's searches: first in
list order, first in address order.

Abstractions: addresses are relative to `base_address`; all of the backing is
readable, since no operation of the heap changes that; accesses of size 0 are
left out; the interval set (an external library) is a set of intervals that
panics on an empty one. Merging with the chunk below can tear the list (section
6); `torn` records it, and the model stops at the first torn list, so nothing is
claimed of what follows.

`HeapSnapshots` adds a fork that is kept and restored: the chunk list and the
regions from the snapshot, bytes and permissions as `FlatState` copies them. It is
checked, and proved, to implement `RegionHeap`, which knows regions and contents but no chunks,
no red zones and no permissions, and says in particular that a request is refused
for want of space only if there *is* no room between the regions. `RegionHeap`
leaves open what the code leaves open or gets wrong: it may abort a reallocation
that moves, and a region that grew downwards may have bytes that cannot be written.

### PagedState

`segments[h]` is the interval map of handle `h`, `flat[h]` its flat states (`inner`
and one for every mapping, named by its base). `WithFlat` is `with_flat` and `with_flat_mut`: the check for the last
address, the segment found by the first address, the unchecked addition at its end
(`Plus` is modulo the address space), and the translation into a flat state and a
position, which a heap refuses in three ways and in one panics. `See` and `Put` are
what the flat state then says. `ViewValues`, `SetValues` (also `view_values_mut`, by
the name of its error), `CopyValues`, `ViewValuesFrom`, `Map`, `Fork` and `Restore`
are the methods.

A heap is a segment with its `regions` and its `writable` addresses. Neither changes once the heap is in a
paged state: `mapping_for_mut` lends a `MappingMut::Dynamic`, which holds a *shared* `&ChunkState`
(`paged.rs:95-98, 138-148, 359-371`), and `allocate`, `reallocate` and `deallocate` ask for `&mut self`. A heap made by
`mapping` thus never has a region and refuses all accesses. A heap with regions is made and filled before, by the operations of
`ChunkHeap`, and handed to `new` or `from_parts` in `Segment::mapping`: these are the constant `Heaps`, with any
regions, a byte without write permission behind each and none with it before, as `RegionsAreChunks`,
`ChunksTileHeap` and `ChunksSealed` say. Bytes of a region may be without write permission too, as in a
heap where a region grew down over itself (section 6).

`SparseMemory` is what callers may rely on: an address holds one cell, an access
that fits one block succeeds (a write if nothing in it is sealed), one that does not changes nothing, a restore gives
back areas, blocks and contents. The refinement mapping reads each address through
its segment, so two addresses that shared a cell would show.

The sum at the end of an access is not checked ("FIXME", `paged.rs:411`), so that an access which
ends at or beyond the end of the address space passes the comparison with the end of its segment.
A mapping's own flat state then refuses it, since the mapping ends before; a window reads or writes on in
`inner`, in the cells of other windows, unless `inner` ends there (section 6). `SparseMemory` says what is left of the
promise for these accesses (`Astray`): as far as its window goes such an access sees and writes the memory; beyond, it
sees anything, and what it writes there changes windows only, and nothing sealed.

Abstractions: flat states are exact snapshots, for restores along `tracks`; accesses of no bytes are left out; window
permissions are the constant `ReadOnly`; a state is made with windows and heaps, and a heap's base address is its
segment's. A caller that changes flat states behind the back of the segments (`inner_mut`, or the closure of
`with_flat_mut`) is left out.

### PCodeState

`cells[h]` holds the three parts. An operand names a part, an offset and a size, or is
a constant. Bytes are digits of radix `Base`, so that with radix 2 every number of the
longest pointer can be told apart. Digit `i` of a number (`Digit`) is the byte at `Place(i, n)` of `n`, which is where
the byte order comes in; `IntoBytes` and `FromBytes` are the casts. `OperandValues` is `with_operand_values`, with
the buffer of 8 bytes for constants and the byte order; `WithOperandValuesMut` panics
on constants. `GetAddress` and `SetAddress` refuse sizes no pointer has. `Restored` are
the parts `restore` goes through, in turn.

### ConcreteContext

An operation is a list of *tasks* (`todo`), made when it begins (`Tasks`): the size checks,
the accesses and the hook calls in the order of the code. One step does one task and
may put others in front of the rest: an access that fails asks every hook
(`InvalidHook`) and then decides (`Refetch`, `Restore`); `load` and `store` make an
operand of the pointer they read (`Dereference`). The first error, halt, branch or panic ends
the operation. Each hook, at each call, may change any place in `Touchable`, map or unmap
it, fail, and answer anything; the hooks in `Policies` are `PolicyHook`s with the zero
policy. `steer` is the local `flip` of `cbranch` or `skip` of `call`.

Sixty p-code operations differ only in the value they compute. They are kept as the classes that
differ in accesses, errors or order (`Int1`, `Int2`, `Divide`, `Bool1`, ...), and `Compute` leaves any value.
Whether a size is supported is left open (`Sized`). A place holds one value,
whatever its size, and the return address is at the stack pointer itself. A handler
for an intrinsic cannot be registered with the context, so an intrinsic passes.

### LiftCache

Contexts on threads of their own share `cache` behind a `parking_lot::RwLock`, whose
`readers` and `waiting` writers are state. A lift is six steps, of which only
the look-up and the insertion hold the lock. Between lifts a context stores to its code,
is restored, is made anew as a fork, or lends a read guard to its caller (`lifted_cache`). One context runs on one thread
and does one thing at a time (`&mut self`).

What a lift makes of the bytes depends on the translator's context database as well, which says how each address is
decoded (ARM or Thumb, say), and which a lift may change (`&mut self.translator_context`, `interpreter.rs:1545`).
`context[c][a]` is what the database of `c` says of `a`, its *mode*. Every context has a database of its own: a
new one in a fork (`:648`), and `restore` does not bring it back (`:658-662`). An instruction is therefore a function from
its addresses to bytes *and* modes (`Contents`), and its first address says how long it is. The lifter is external: any
lift, also one that fails, leaves any modes at the addresses in `Marked` (`Commit`); it is taken to look at the bytes and modes
of the instruction only. A lift from the cache changes no mode, so that two contexts that ran the same
instructions can have different databases.

The properties are conditional on that: they speak of instructions none of whose bytes or modes any context changed
(`touched`). Of others nothing holds: their cached step can be another context's (section 6).

### Walkers

A program is its instructions with their conditional branches. `CBranch` calls the path
walker, then a random walker and the tracker if they are there (`hooked`), and flips the
branch if one of them asks; the conditions are left open. `saved` is one fork of the
context. The hooks are cloned by fork and restore (`HooksRestored`), and that is what
the properties about walks need. The walkers are added in this order; `flip` is sticky, so the order of
two that only flip has no effect. A walk names a branch by the address of its instruction, so
walks are asked about whose instructions have one conditional branch, which leaves them
(`WalksAssumption`); for others `PathWalker` has no way to say which branch is meant, and a branch within the instruction
can use up the entry (`driver.rs:90`). Programs have such instructions, walks do not name them. An error of the tracker ends the
context for good, as it ends `step_until`: what a caller who goes on after it would see is not modelled.

### Loader

One segment of the database per step, taken or left by the filter: a window at the end of
the backing, the bytes, the padding.

### Machine

One run of `step_until` over any program (`Code`, `Ops`, `Length`) with an
interpreter that may answer anything its trait allows. `phase` names the call
that comes next: `Check` is the head of the loop (`machine.rs:316-317`), `Lift`
and `Operation` are the two places where a hook may redirect or end the run,
`Execute` is the dispatch on the operation (`machine.rs:76-301`, whose sixty
branches differ only in the method called) with `StepState::branch`. `at` is
`step_state`, with the instruction named by its address. The recursion of `step`
(`machine.rs:62, 71`) is a tail call, hence a jump back to `Lift`. An interpreter
lifts at an address the instruction of that address, as `ConcreteContext` does, so
the assertion of `with_location` holds and is not modelled. `asked`, `redirected`
and `begun` are history. Addresses wrap at `AddressSpace`.

## 3. Runs

| run | module | what it asks | distinct states |
|---|---|---|---|
| `flat_rewind` | `MCFlatState` | three states forked, written, copied, restored in any order: do dirty blocks cover every difference from a state one may rewind to, do list and bitmap agree, are all blocks in range, the one past the end of the backing included? | 100566 |
| `flat_permissions` | `MCFlatState` | with permissions changed at will and disciplined restores: is every behaviour one of `SnapshotMemory`? | 15920 |
| `copy_loop` | `CopyLoop` | does the loop the code picks stay in the backing and end as memmove? | 25272 |
| `heap_regions` | `MCHeapSnapshots` | do chunks, regions and permissions stay consistent, writes confined, contents kept, and is every behaviour one of `RegionHeap`? | 18104 |
| `paged_space` | `MCPagedState` | is every access, mapping, fork and restore one of `SparseMemory`? | 1540 |
| `pcode_operands` | `MCPCodeState` | are addresses read and set as the number the operand holds, and does a call change only what it names? | 134785 |
| `machine_run` | `MCMachine` | is the bound respected, are branches predicted as taken, does a run bounded in steps end? | 3584 |
| `concrete_hooks` | `MCConcreteContext` | do failed operations leave no write, does the policy keep programs going, do branches agree with their conditions, do skipped calls return, does every operation end? | 710048 |
| `lift_cache` | `MCLiftCache` | is code that nobody stores to, in a mode that no lift sets, lifted as the context itself would, is the race harmless for it, does every lift end? | 286068 |
| `walks` | `MCWalkers` | is the walk asked for the walk taken and used up, each branch tracked once, and no flip undone? | 69342 |
| `loader_windows` | `MCLoader` | do windows lie apart and show their segments' bytes? | 12073 |
| `heap_move` | `ChunkHeap` | *violation*: a reallocation that moves its region never completes (section 6) | |

The bounds, and why they are enough:

- *flat_rewind*: three handles, so that there is a state, its snapshot, and a third that
  is forked between two writes or becomes a copy of either. Every way to break
  restore found while modelling needs at most three. The handles are
  interchangeable, hence the symmetry (no liveness is checked in these runs).
  Size 4 with blocks of 2: a length that is a multiple of the block size, so that a write of the last cell marks the block of
  the first address past the region (`flat.rs:398`), which is past the end, and a restore has to copy nothing for it. Offsets
  reach past the end. A last block that is partial is met in
  `flat_permissions`, whose blocks are longer than its states. That three
  and more states are snapshots of one another *call by call* is not left to a run: it is
  proved (`FlatImplementsSnapshots`).
- *Views*. In `flat_*`, `heap_regions` and `paged_space` the view `Relevant` leaves out the last call
  and its outcome (but for a panic): no action reads them, and TLC checks
  refinements and action properties on every step, also on those to a state seen before. No
  invariant of these runs reads what a view leaves out.
- *flat_permissions*: two handles and two cells, set and cleared over every range;
  permissions are per cell and copied as a whole by fork and restore, so a third
  cell or state adds nothing that tells outcomes apart.
- *copy_loop*: all overlapping ranges of a backing of 5 and all contents over
  3 values, enough for a loop to catch up with itself twice.
- *heap_regions*: 7 bytes hold three smallest chunks, hence a taken chunk with a free
  or taken neighbour on either side; growing up and down, shrinking with a rest, exact fits,
  no fit and a size of 0 all happen. Accesses of one byte and of nearly the whole heap reach
  into and across every region. The theorems of section 4 hold for every size.
- *paged_space*: two windows, laid in the opposite order in `inner`, which has a read-only cell that no window shows; a
  heap of three bytes between them with one region, whose first byte is without write permission, and the red zone
  behind it; room for one mapping, of either kind. The second window holds the last address but one: accesses of two
  and three bytes from it wrap round the address space and go on in the cell of the first window and in the read-only one.
  Accesses of one to three bytes at every address end in, at and beyond each segment and region. In three bytes
  there is no second region, so an access that touches two (`HeapOverflow`) is not met; the theorem is for any number. `UnwrittenSet`
  is a bound: cells that are never written begin with the other value than the default.
- *pcode_operands*: bytes are bits and addresses have two; big-endian, where offsets count from the
  other end. Operands that overlap, a narrow register inside a wide one, an operand partly unmapped, constants
  of the width of an address, of all 8 bytes, of no pointer's width, and wider than the buffer.
- *machine_run*: instructions of no, one and two operations, an address without an
  instruction, one that runs over the end of the address space; entries in the
  middle and past the end of an instruction; branches back, in place, forward, past
  the end and global; bounds of 0 to 3 steps, at two addresses, and none.
- *concrete_hooks*: two hooks that do as they like and a policy asked last; one register
  besides the stack pointer and program counter, two cells of memory, one of them
  touched by hooks. Operations of every class, on operands valid, invalid, or made so by a hook between two
  accesses; the register is its own operand and destination in places. Return addresses are on the
  stack (`LinkRegister` is false), the harder case: they are read at a pointer that is popped afterwards, by `ExtraPop` = 1.
  (Where nothing is popped, `ExtraPop` = 0, `SkippedCallReturns` asks for nothing.)
- *lift_cache*: two contexts, two addresses, instructions of one and two bytes in one mode and of one in the other, so that they
  overlap, one does not fit, and the same byte is another instruction in another mode. The program stores to the first address
  (`Stores`) and lifts set the mode of the second (`Marked`): an instruction is stored to, decoded
  anew, both, or neither. Three threads would only add a second waiting writer, and safety is proved for any number.
- *walks*: loops forwards and backwards, an instruction with a branch within it, a target that
  memory does not hold; walks up to `MaxWalk` = 4 along the program, every combination of the other hooks;
  `Rewinds` = 2 restores; `MaxMet` = 6 bounds what the tracker records (the
  path alone is unbounded).
- *loader_windows*: two and three segments of one to three addresses with fewer, as many or more bytes.

Only `lift_cache` checks deadlock. Elsewhere a panic or error ends the history, as do a
finished copy loop, a torn list, the return of `step_until`, the end of the database.

Fairness. The states are sequential data structures whose calls return; their properties are about safety.

- `Machine` is a loop of one thread, which goes on as long as it can: `WF_vars(Next)`.
  What it cannot rely on is the interpreter, which may redirect a step for ever, or branch
  back within an instruction for ever; so `StepsEnd` claims an end only for runs that
  stop doing so.
- `ConcreteContext`: `WF_vars(Step)`, an operation that was begun goes on. Hooks return, but nothing is
  assumed of their answers.
- `LiftCache`: weak fairness of each thread that can go on, and of the caller who
  drops a guard. That weak fairness is enough rests on the lock: a waiting
  writer holds off new readers, and the number of insertions is bounded because an entry is never removed.
- `Walkers`: `WF_vars(Execute)`, for a machine that goes on running. Restores are bounded by `Rewinds`.

Every property of a passing run has a mutant, an operator just before the definition
it replaces, marked *(mutation)*: a mistake one could make in that code
(the commented-out `fork` at `flat.rs:374-379` is one of them). TLC finds the
property violated under the same configuration.

## 4. Theorems

All are for every value of the constants under the named assumptions
(`SizeAssumption`, `FlatAssumption`, `HeapAssumption`, `PagedAssumption`, `PCodeAssumption`, `LiftAssumption`,
`LoaderAssumption`: lengths and block sizes are naturals, a block has at least one byte, a heap
too, the default is a value, an instruction has a length, a segment ends after it starts, the
windows and heaps of a paged state lie apart in the address space, the windows in `inner`
too, and a heap's regions lie in it with a byte that is not writable before and behind each;
`ConcreteAssumption`, `OperationsAssumption`: there are a stack pointer and a program counter, an
operation has operands that exist, the condition of a branch, one byte, is not the stack pointer, and hooks
touch places that exist; `WalkersAssumption`, `WalksAssumption`: a branch within an instruction goes
forward in it, and an entry of a walk names an instruction with one conditional branch, which leaves it, and
one of the two ways it can go). TLC evaluates each of them on its run.

- `LoopTyped`, `LoopIsMemmove`: the raw-pointer loops stay in the backing and the
  one chosen ends as memmove. The invariant says that the cells done hold the
  old source cells and that those still to be read are untouched.
- `FlatTypeOK`, `FlatListMatchesBitsmap`, `FlatDirtyBlocksInRange`: by induction;
  the last needs the arithmetic of `flat.rs:364-403` (words reserved, block of the
  address past the end).
- `FlatRewindCovered`: the inductive invariant (`RewindInv`) is type correctness,
  agreement of list and bitmap, and coverage for *every* pair in `tracks`, not only
  for the one about to be restored. Agreement is needed because a write pushes a
  block only if its bit was clear.
- `FlatImplementsSnapshots`: every step of `DisciplinedSpec` is a step of
  `SnapshotMemory` or a stutter, with the backing as the abstract memory. `Restore`
  maps to `Become` by the invariant above, `CopyValues` to `Copy` because the chosen
  direction is memmove (`OverlapCopyIsMoved`).
- `HeapTypeOK`, `HeapChunksTile`, `HeapFreeChunksMerged`, `HeapRegionsAreChunks`,
  `HeapChunksSealed`, `HeapWritesConfined`: from one inductive invariant, `HeapInv`:
  as long as the list is not torn, chunks tile the backing, free chunks are merged,
  a taken chunk has room for a region and its red zone, the regions are the taken
  chunks, and the last byte of each chunk is sealed. None of these is inductive
  alone: the regions are looked up by address and the chunks by offset, and only
  tiling makes the two searches meet. Each operation replaces the neighbours p..q of
  the list by one or two chunks over the same bytes; the `Splice` lemmas show once
  that this keeps the layout. `WritesConfined` follows from the layout: an access
  that leaves a region crosses its red zone. All of them are stated of `Spec` and of
  `SnapshotSpec`; for the latter the snapshot has to be sound too (`SnapshotInv`), which it is since
  it cannot be taken of a torn list.
- `HeapContentsKept`: an action property from `HeapInv`, with `CopiedIsMoved` for
  regions that grow downwards. On the way, `MoveNeverCommits` shows for every heap
  what the run `heap_move` shows on one: a reallocation that has to move never
  completes.
- `HeapImplementsRegions`: every step of `HeapSnapshots` is a step of `RegionHeap` or a stutter; regions
  stand for themselves, bytes and denied bytes are those within regions. `SnapshotInv` gives what each
  step needs. A request is refused only if there is no room (`NoFitNoRoom`): an address of any room lies in
  a chunk, which is free, since regions and the bytes behind them fill the taken ones, and a free chunk ends at a
  taken one or the end, since free chunks are merged, so that the room lies in it whole and would have fit.
  A region is opened whole and the byte behind it sealed; one that grew downwards has its old place sealed after
  that, where the two may overlap, so only there are bytes denied (`GrantDenies`). A
  store stays in one region by its red zone (`WriteMaps`). The step that tears the list maps as well: regions are still apart
  after it, only the chunks are not. Panics and refusals are
  steps of the abstract heap where it has regions, or a size of zero is asked for; `Sized`, that there are
  regions only if a size other than zero is asked for, rules out the degenerate instance.

- `MachineTypeOK`, `MachineBoundRespected`, `MachineLocationsAgree`: `MachineInv`
  says that steps begun, steps owed (checked, not yet lifted) and steps left are
  those asked for, and that the last check did not find the address to stop at.
  `MachineLocationsAgree` needs type correctness only.
- `MachineStepsShrink`: the part of `StepsEnd` that needs no fairness. What is left of a run bounded in steps
  is a triple of naturals (`LeftIsNat`), compared lexicographically (`Shrinks`): the steps of the bound, the
  phases of the current step, and the operations of its instruction. Every step lessens it unless a hook redirects it or an
  operation branches backwards within its instruction, so these are the only two ways of going on for ever.
- `PCodeOthersKept`: every step is harmless, a write within one operand, or the copy of
  one state (`Kinds`); that every state has the same bytes (`PartsInv`) is
  the invariant it needs. Byte order and widths do not matter: whatever bytes are written, they go where the operand is.
- `PCodeAddressesRead`, `PCodeAddressesSet`: `AddressInv` adds that every byte is a digit of the radix, and the two properties
  themselves, which speak of the last call. `FromBytes` sums digits by powers of the radix; powers and sums are
  functions defined by recursion, and what they are is shown by induction. Since the provers cannot instantiate a
  theorem with a predicate, the induction is over a *set* of naturals (`NatInduct`), and that there is a function such
  as the definition asks for is shown from its beginnings (`Iterated`, `IteratedForever`).
  Then the digits of a number sum up to its remainder (`ModDigit`), any
  digits make a number with those digits (`DigitsMake`), and a remainder keeps its low digits
  (`DigitOfMod`), in either byte order (`Places`). A read thus gives the number whose digits the operand holds
  (`GetAddressReads`), and a set leaves the digits of the address, cut to its width (`SetAddressSets`).
- `LiftTypeOK`, `LiftStepsFaithful`, `LiftRaceHarmless`: `LiftInv` says, besides the types,
  that memories and databases agree where nobody changed them (`MemoriesAgree`), that entries of the map and steps
  of a context are, where nobody did, the instructions *every* context would lift
  (`EntriesFaithful`, `StepsEverywhere`), and that what waits to be inserted was lifted
  (`LiftedPending`). None is enough alone: a step comes from the map, an entry from another
  context's step, and both from another memory and another database. A fork gets a new database, which agrees with the
  old ones where no lift set a mode; a restore keeps the context's own. No fairness is used.
- `LiftNobodyStuck`, `LiftsAdvance`: the parts of `LiftsEnd` that need no fairness. In every state a holder of the lock can go
  on, a writer waits for holders only and a reader for writers only, so that there is no circle; and a lift passes each phase once.
  What is left to fairness is that a thread which can go on does, and that a reader or a writer that waits gets its turn.
- `ContextTyped`, `FailuresClean`, `PoliciesAnswer`, `BranchesHold`, `SkippedCallsReturn`: an operation
  of `ConcreteContext` is the list of its tasks, and what the properties ask of its end is decided by what is
  left to do in the middle. `ContextInv` is therefore mostly about `todo`. Its tasks come in an order that
  `WellFormed` states for every operation at once, and a condition is fetched right before it is decided on.
  While hooks are asked about an invalid access, those not asked yet come first, then the second
  attempt, and policies have given their answer (`Asked`). After a write come only its hooks, and a
  branch only if the call is skipped or the branch flipped (`WritesLast`). The value a
  branch is decided on is the one its condition holds (`ConditionHeld`). The return of a skipped
  call goes where the stack pointer, before it was popped, pointed (`StackPopped`). Each kind of
  task at the head of the list is one lemma, and the tasks of each class of operations are shown to
  begin as the invariant wants.
- `OperationsShrink`: the part of `OpsEnd` that needs no fairness. A list of tasks is measured by whether a pointer or a skipped
  call is still to be followed, by the number of tasks from the first access on (`Waiting`), and by its length.
  Following (`PlainLess`) lessens the first, an access that fails and has all hooks asked about it the second
  (`AskingLess`), and all other tasks the last (`RestLess`). An access tried again as long as hooks claim a change would lessen none.
- `BranchesAreTracked`, `WalksAreFollowed`, `FlipsAreKept`: `WalkersInv` is an invariant of a *context*
  (`Good`) that holds of the running one and of the one saved, so that a restore keeps it. It adds
  what is true within an instruction: both hooks have noted where it falls through to
  (`InstructionNoted`); a failed context stays within one, hence is never saved (`FailedWithin`);
  and an entry used up by a branch not taken is pending, with nothing left of the instruction but to
  fall through to where the entry asked (`EntryPending`, `WalkKept`). The conditions and what
  a random walker asks are arbitrary.
- `PagedTyped`: the inductive invariant, `PagedInv`, says of every handle (`Sound`) that its segments lie apart and
  its windows and heaps with regions are those it was made with (`Laid`) and that `inner` and each mapping have a flat state of
  their length (`Backed`). It also says that a state has at least the segments of
  every state it may be rewound to (`TracksGrow`): `restore` only drops segments, so that without it
  a restore would leave the snapshot's last mapping out, or meet a segment of another kind and panic.
- `PagedImplementsSparse`: every step of `PagedState` is a step of `SparseMemory` or a stutter, for every layout.
  The first address of an access finds one segment, and a position in the flat state of that
  segment alone (`SegmentHere`, `FoundAtPosition`); what the flat state then admits is what
  lies in the segment, or in the heap's region (`Reaches`), unless it is a window's and the sum wraps; so an access that
  is not astray succeeds exactly where the abstract memory admits it (`AdmitsIs`). A write that is not astray reaches no other address
  because two segments share a flat state only if both are windows, which lie apart in it (`FlatShared`, `WrittenMem`).
  An astray write stays in `inner`, hence in windows, and in cells that may be written (`SpillIs`).
  `Restore` is an exact copy by `TracksGrow` (`RestoreIs`).
- `LoaderWindowsApart`, `LoaderBytesLoaded`: `LoadInv` is both together with the types and
  that the segments left end after they start (`LeftForward`): a new window begins where
  the backing ends, and the backing only grows.

### What is only model-checked

Liveness, since fairness and ENABLED are out of the prover's reach: `StepsEnd`, `OpsEnd`, `LiftsEnd`, `WalkConsumed`. Of the first three the
safety half is proved (`MachineStepsShrink`, `OperationsShrink`, `LiftNobodyStuck`, `LiftsAdvance`): each step leads towards the end.
That the steps are taken is the fairness TLC uses. Of `WalkConsumed` nothing is proved: its run is of
one program whose only loop passes the branches of the walk, and it is not true of every program.
`heap_move` is a single counterexample, made general by `MoveNeverCommits`.

## 5. What is not modelled

- The values computed by single p-code operations (arithmetic, floating point, bit
  vectors of an external library), as conversions of data without state. `Compute` leaves them open.
- Names, conventions and constructors of registers and states; the registry of hook names
  (`interpreter.rs:172-215`), a map no operation reads but by its caller.
- Handlers of intrinsics that change the state or branch: the context keeps its table empty and
  private, so they cannot be reached.
- The importers that turn a file into a database, and lifting itself: external libraries.
- State traits, the derive macro, formatting: declarations and generated delegation.
- The packing of permission bits into words.
- Restores against the discipline `tracks` in `PagedState` and `PCodeState`; `FlatState` has them, and
  they are inexact by construction of the dirty blocks.
- Walks that name an instruction with several branches, or one within itself, and contexts that go on after an error of the
  tracker (`Walkers`).
- Flat states changed behind a paged state (`inner_mut`, `with_flat_mut`), and heaps given to one at another base address than their segment's.
- Read permissions in `ChunkHeap` and `PagedState`, which the program never takes away; `FlatState` has them.

What could be added: several path walkers at once; a context that runs in `Machine` rather than any interpreter.

## 6. Where the code and its comments disagree

The run `heap_move` shows the first. The others are in the models as the code has them, and
the properties are stated so that they hold beside them; each would be violated by a property that
asks for what the comment says.

- "copy if moved" (`chunked.rs:380`). A reallocation that has to move a region to another
  chunk panics in `copy_values`, whose two slices differ in length (`flat.rs:166-171`).
- "set R/W permissions" (`chunked.rs:370`). A region that grew down over itself is read-only
  where it overlaps its old place, since the old permissions are cleared last (`chunked.rs:387`). `RegionHeap` and
  `PagedState` allow for it, and no property asks that a region can be written.
- "test if we can merge frees" (`chunked.rs:144`). Merging with the free chunk below removes the chunk
  above without testing it (`chunked.rs:171`): a live region loses its chunk. `torn` marks these states, at which the model
  stops; the properties of the list are about the states before, and none reports the tear.
- "out-of-bounds read of {size} bytes at {address}" (`flat.rs:13-16`). Faults of a paged state name a wrong
  address: the translated position shadows the address in the closures (`paged.rs:641`), and `Error::backing`
  adds it to a position (`paged.rs:58`). Hooks for invalid accesses get this address. `Rebased`
  has the error, and no property speaks of the address.
- "checked arith." (`paged.rs:411`, a FIXME). The end of an access is a sum that may wrap. With windows at [5, 6) and [0, 1)
  on the cells 0 and 1 of `inner`, and 7 addresses, a read of two bytes at 5 ends at 0, passes the comparison, and returns
  the cell of address 0 for the unmapped address 6; a write changes it. `Astray` names these accesses, and the run meets them.
- "mut" of `mapping_for_mut`, `as_mapping_mut` and `MappingMut` (`paged.rs:95-98`): what they lend is shared, so
  a heap in a paged state can be looked at but not allocated from.
- "view whole allocation" (`paged.rs:519`). `view_values_from` asks a heap for as many bytes as it is long from
  any address, so that it fails past the first address of the heap (`paged.rs:521`). `ReadFrom` of
  `SparseMemory` allows the refusal.
- "possible race here [...] We don't really care" (`interpreter.rs:1536`). It is harmless for code nobody stores to, in a
  mode no lift sets (`RaceHarmless`). A context that stores to its code, or is restored, goes on with the instructions
  cached before, its own or another's (`interpreter.rs:1518-1549`). So does one whose database says another mode than that of
  the context that cached them: forks share the cache but not the database (`:648`), which a lift from the cache does not change, and which a restore does not
  bring back (`:658-662`); the second of two lifts of the same bytes can put another instruction in the cache.
- "cannot mutate Operand::Constant" (`pcode.rs:167`) is a panic, and a hook that flips a branch on a
  constant condition runs into it (`interpreter.rs:787`).
- "destination operand does not store branch target, it is branch target" (`interpreter.rs:738`). `BranchTracker`
  records what memory holds at the target (`tracker.rs:67`), and fails the run if nothing is mapped there.
  `BranchesTracked` speaks of the other two entries.
