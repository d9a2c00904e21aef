# A TLA+ model of gralloc-gbm

This directory holds TLA+ modules, TLC configurations and TLAPS proofs about
gralloc-gbm: an Android allocator service and a stable-C mapper that allocate,
import, lock and free graphics buffers through GBM (`common/gralloc_gbm.c`)
and, for linear blobs, through DMA-BUF heaps. Paths below are relative to
`src/`; `gralloc_gbm.c` is `common/gralloc_gbm.c`.

    tlc -config MCGbmMapper.cfg MCGbmMapper.tla       # any run of PROJECT.json
    tlc -continue -config MCGbmDriverKnown.cfg MCGbmDriver.tla   # section 3
    tlapm GbmMapperProofs.tla                         # the proofs

## 1. The system

| Component | State | Operations | Interacts with |
|---|---|---|---|
| libgralloc_gbm, buffers (`gralloc_gbm.c`) | `android_buffer_table` (uthash, key: descriptor in the handle, value: `gbm_bo*`); per BO `map_data`, `lock_count`, `locked_for`, metadata | `find_buffer_k`, `add_buffer`, `delete_buffer`; `gralloc_gbm_android_buffer_new`, `_import`, `_free`, `_lock`, `_unlock`, `_query`, `_get_extdata` | libgbm, the kernel's descriptor table; called by both backends; one copy of the state per process |
| libgralloc_gbm, driver | `g_driver` | `gralloc_gbm_init`, `_deinit`, `is_gralloc_gbm_ready` | called by `init`/`isReady` of the backends |
| libgralloc_gbm, formats | none (tables) | `color_fmt_a2g`, strides, GBM flags, descriptor support | every allocation and import |
| Mapper front end (`mapper_stablec/Mapper.cpp`) | `mBackend` | `importBuffer`, `freeBuffer`, `lock`, `unlock`, `flushLockedBuffer`, `rereadLockedBuffer`, metadata | client threads of any process; `selectBackend` looks at the handle |
| Mapper GBM backend | none of its own | wrappers; get and set of standard metadata | libgralloc_gbm |
| Mapper DMA-BUF backend | `importedBufferTable`, per buffer a mapping | import, free, lock, unlock, metadata | DMA-BUF heaps |
| Mapper plane layouts (`MapperPlaneLayouts.hpp`) | none (table) | `getPlaneLayouts` | metadata of GBM buffers |
| Allocator service (`allocator/Allocator.cpp`, `Main.cpp`) | `mBackend`, a static `weak_ptr` per backend class | `allocate2`, `isSupported`, `selectBackend` | binder threads (4, and the main thread) |
| Allocator GBM backend | none of its own | `grallocGbmAllocate`: make, register, publish, release; rollback | libgralloc_gbm |
| Allocator DMA-BUF backend | heap allocator pointer | `allocate2`, `isSupported` | DMA-BUF heaps |
| Handle (`include/drm/android/gralloc_handle.h`) | `prime_fd`, size, stride, format, usage, modifier | `gralloc_handle_create` | travels from allocator to mapper |
| uthash (`include/uthash/uthash.h`) | the links and buckets of a table | `HASH_FIND`, `HASH_ADD`, `HASH_DEL` | the buffer table |

What is hard here. Neither library nor service nor mapper takes a lock (but for
the `fetchBackend*` functions): the table, its links, BO data, the map of
DMA-BUF buffers, `mBackend` and `g_driver` are shared by threads. The table's
key is a descriptor *number*, which the kernel reuses as soon as it is closed,
so that the table is right only as long as every key stays open; and a
descriptor can also be -1. Several calls stop half way (failed BO, failed entry,
failed map, failed initialisation, failed heap). Sizes are computed three times,
in two processes, from tables kept by hand. `PROJECT.json` lists the hazards
one by one at their lines, with the properties that watch them, or a note on
what the code does there and which configuration shows it.

What makes each part correct:

- **table**: keys are distinct; a key's descriptor and BO are the same memory;
  what a lookup returned outlives the call that uses it; no BO is lost; the
  pointers of uthash always form the table that the code thinks it has.
- **locks**: `lock_count`, `locked_for` and `map_data` agree; a CPU lock is
  exclusive; compatible locks share; handles do not disturb each other; every
  CPU access that starts also ends.
- **allocation**: a request is answered in full or not at all, leaves nothing
  registered; replies share no memory; every request is answered.
- **routing**: the backend that supports a descriptor is the one that answers;
  a buffer stays in the backend it was imported by.
- **driver**: it is used when it is ready and at no other time.
- **metadata, geometry**: what was set is what one gets, whole; sizes and strides
  of allocation, import and metadata agree, and planes stay in the buffer.

## 2. The modules

| Module | Stands for |
|---|---|
| `GrallocGbm` | the library's buffer state in one process and the effect of its functions, with the two services it leans on: descriptors (kernel) and buffer objects (libgbm) |
| `GbmMapper` | threads of a client process inside the mapper's calls on GBM buffers; extends `GrallocGbm` |
| `BufferLease` | abstract specification: what those calls promise, handle by handle, in atomic steps |
| `GbmAllocator` | binder threads inside `grallocGbmAllocate`; extends `GrallocGbm` |
| `AllocatorRouting` | `selectBackend` and dispatch of the service, with the life of backend objects |
| `DmaBufAllocator` | binder threads inside `AllocatorBackendDmaBuf::allocate2` |
| `MapperRouting` | `mBackend` of the mapper, composed with what each backend manages and has locked |
| `MapperDmaBuf` | threads inside the mapper's calls on DMA-BUF buffers |
| `BufferMetadata` | get and set of standard metadata of a buffer of each backend |
| `GbmFormats` | the tables of formats, bits per pixel and plane layouts, and their lookups |
| `BufferGeometry` | sizes, strides and flags of a buffer from request to metadata; extends `GbmFormats` |
| `GbmDriver` | `g_driver` and its initialisation |
| `HashTable` | `add_buffer` and `delete_buffer` down to the pointers of uthash |
| `BufferTable` | abstract specification: the table as a set |
| `*Proofs` | theorems about the module of the name; `MetadataProofs`: about `BufferMetadata` and `BufferGeometry`; `LibraryProofs`: about `GbmDriver` and `HashTable` |
| `MC*` | instances for TLC |

How they fit together. `AllocatorRouting` decides which of `GbmAllocator` and
`DmaBufAllocator` serves a request, `MapperRouting` which of `GbmMapper` and
`MapperDmaBuf` a call reaches; there a method of a backend is one step, in the
module of the backend it is a sequence of them. `GbmMapper` and `GbmAllocator` use the table of `GrallocGbm` as
`BufferTable` has it, and `HashTable` shows that uthash is such a table.
`BufferGeometry` has the numbers that the others leave out.

Modules declare, before the definition they vary, a few operators commented
*faulty variant*: bugs that `PROJECT.json` pairs with the properties they
break, to show that each property can fail. No specification uses them.
*History* variables (`overlapped`, `raced`, `last`, `lost`) record what has
happened for the properties and decide no step.

### GrallocGbm

`fds` maps each descriptor to the dma-buf it names (`NoBuf`: closed); `bos`
maps each BO to its dma-buf and `gbm_bo_data_t`; `android_buffer_table` is the
set of entries `[fd, bo]`. `find_buffer_k(fd)` is the set of BOs a lookup may
return: `HASH_ADD_INT` does not replace, so it may have two members.
`Compatible`, `Locked`, `Unlocked` are the lock arithmetic on usage words, a
word being a set of bits. `Pick` says which free name a service may hand out:
any (the mapper runs: other code in the process opens and closes descriptors)
or the lowest (the allocator runs: POSIX, and the earliest reuse there is).

### GbmMapper

A call is a record per thread: step, handle, the BO its lookup found, usage.

| Calls | Steps |
|---|---|
| `importBuffer` | `ImportClone` (`native_handle_clone`), `ImportBo` or `ImportFail`, `ImportAdd` |
| `freeBuffer` | `FreeFind`, `FreeDestroy`, `FreeDelete` |
| `lock` | `LockFind`, `LockCheck`, `LockMap` or `LockMapFail`, `LockCommit` |
| `unlock` | `UnlockFind`, `UnlockUnmap`, `UnlockCommit` |
| `getStandardMetadata` | `QueryFind`, `QueryFd` |

A step is one access to state that another thread may change, with the local
work around it: moving local work into its neighbour hides no interleaving. Calls
that fail before they change anything are not steps. What a client does is
external and named: `Given` (handles that `importBuffer` returned, *freed ones
included*: the code detects those), `MayFree` (freeBuffer is alone on its
handle, the client's promise in the AIMapper interface), `MayCall`. The
constant `SharedCalls` says whether the other calls may overlap on one handle.
As in the code, `freeBuffer` leaves the descriptor of the handle open, and a
query opens one that nobody closes.

`BufferLease` has one variable, `lease[h]`: phase (none, held, freed), number of
locks, the usage they are for. `GbmMapper!ImplementsLeases` is `BufferLease`'s
specification under the mapping `LeaseOf`: an import takes effect when it
returns, a free when the BO dies, a lock or unlock when `lock_count` changes.

### GbmAllocator and DmaBufAllocator

A request of `GbmAllocator` runs two loops. Making: `NewBO` (BO and
`gbm_bo_get_fd`), `NewAdd` (entry, and the descriptor the log message opens), or
`NewBOFail`, `NewAddFail`, after which `Rollback` sets the second loop to release
without publishing. Releasing, over the handles in order: `FreeFind` (`dupToAidl`
and the lookup), `FreeDestroy`, `FreeDelete`, `Close`. `Reply` sends the parcel
and drops the duplicates. Running out of descriptors is no choice of the model:
it happens when none is closed, and then `prime_fd` is -1, unchecked as in the
code.

The loops of `DmaBufAllocator` are `Make` or `MakeFail`, then `Publish` and
`Close` for each buffer, then `Reply`. There is no rollback: `MakeFail` answers
at once, and what the handles made before it hold stays open (`lost`). The size
is a product of two `int32_t`, and wraps (`Int32` values, 2^32 in the code, 256
in the runs, any even number in the proofs); a negative one asks the heap for
more than there is. Descriptor 0 is open in every service, so that the code's
test `fd <= 0` is one for failure.

### AllocatorRouting and MapperRouting

A call of the service fetches a GBM backend (`Enter`), asks it (`Select`), else
fetches and asks DMA-BUF (`TryDmaBuf`, `Select`), else drops the error
(`SelectNone`); then `NoBackend` or `Dispatch` goes through `mBackend` as it is
by then, and `Return` gives the backend's result. An object is owned by
`mBackend` and by the locals of `selectBackend`, not by the call that runs on it.

In the mapper `selectBackend` cannot fail: `Enter` assigns the class that the
buffer's format and height ask for. `Check` is `CHECK_BACKEND` (`CheckFail` where
`gralloc_gbm_init` fails), and a method's effect on the backend's table is one step each,
in two outcomes (`Import`, `ImportFail`, ...). `Flush` stands for the calls that change
nothing: flush, reread and metadata. `Crash` is the null `allocator` of a DMA-BUF backend that
has not been made ready. Backend objects have no state in the mapper,
so that only their class matters.

### MapperDmaBuf

| Calls | Steps |
|---|---|
| `importBuffer` | `ImportCreate` (`calloc`), `ImportInsert` |
| `freeBuffer` | `FreeFind`, `FreeInfo` (`free(bi)`), `FreeErase` (of the key read from the freed block) |
| `lock` | `LockFind`, `LockMap` or `LockMapFail`, `LockRefuse` or `LockSync` |
| `unlock` | `Unlock` |

`importedBufferTable` is a `std::unordered_map` without a lock. Its data race is
one choice: an insertion that overlaps with another change of the map may lose
the entry. The constant `Intact` says whether freed memory keeps its content
until it is reused, as it does with the allocators at hand, or may hold anything.
`mappings` and `sync` count what the kernel was asked for.

### BufferMetadata

A set stores its members one by one (`SetScalar`; `SetPointer`, `SetSize`), a get
copies them one by one and follows the pointers later (`GetSize`, `GetValue`,
`GetOptional`, `GetPayload`). `heap` has the memory that `calloc` returned, with
content and size. The first `calloc` of a set may fail (`SetNoMemory`); that the
others do not is what the code asserts, and the guard of `SetEnter`. Nothing is freed before the BO: `Reimport` frees what the
user data leads to. Memory that nothing leads to any more is leaked by the code and its
name used again by the model. `ReadOnly`, `RefusedTypes`, `GbmAnswers` and `DmaBufAnswers` are
the four places where the code lists the types.

### GbmFormats and BufferGeometry

The tables are records from names to names; `color_fmt_a2g`, `color_bpp` and
`getPlaneLayouts` look them up, failures included: `-EINVAL` as an unsigned
number is a format like any other to its callers (`BadFormat`). In
`BufferGeometry` one buffer goes from `Ask` (conversion and
`gralloc_gbm_is_allocator_desc_supported`) over `Allocate` or `AllocateFail`
(`gralloc_gbm_android_buffer_new`, the reply) and `Import` to `Query` (the
metadata) and `Free`. The macros of the build are a variable chosen at the start.
libgbm is external: that a pitch is a row of bytes rounded up, that
an imported BO has the size and pitch it is imported with, and the rules of its
DRI backend that the comments of `gralloc_gbm.c` quote. Its specification is
`GeometrySpec`, so that one module of proofs can extend both this module and
`BufferMetadata`.

### GbmDriver

`Check` is `isReady`; not ready, a call goes on to `InitTest`, `InitCalloc`,
`InitOpen`, `InitDevice`, `InitReady`, each of which may fail. Every step reads
`g_driver` again, as the code does, so that a thread may fill in the driver
of another. After a failure it points to freed memory. `Enter` and `Use` are a call
that relies on what `isReady` said. Initial states are those of a
mapper (no driver) and of the service (`Main.cpp` initialises before it starts
the thread pool).

### HashTable

Entries are in two doubly linked lists, that of the table and that of their
bucket. `AddTest`, `AddMake` or `AddAppend`, `AddToTable`, `AddAssert` are
`add_buffer` with `HASH_ADD_INT`; `DeleteOnly`, or `DeleteUnlink` and
`DeleteBucket`, are `delete_buffer` with `HASH_DEL`. An inner macro is one step.
`Hash` gives each key its hash value, `InitialBuckets` and `Thresh` are 32 and 10
in the code and smaller in the runs, so that few entries are enough to
expand. `FsckPasses` is `HASH_FSCK`, the check uthash has for itself.
`BufferTable` has one variable, the set of entries that can be found;
`ImplementsTable` is its specification under that mapping: an addition takes effect
when the entry is in its bucket, expansion of all others included. `op` is what
each `Caller` has in progress; `Overlap` says whether two may be in a call at once.
`Emptied`, `NewChains`, `Relinked` and `Expanded` are `HASH_EXPAND_BUCKETS`: the chains
as the loop fills them, the links that follow, and the counts.

## 3. The runs

| Run | Shows | Bounds |
|---|---|---|
| `mapper` | table, BOs and lock data consistent; the calls implement `BufferLease` | 2 threads, 3 handles, 4 descriptors, 3 BOs, 2 dma-bufs, 3 lock usages (none, hardware, CPU and hardware), up to 2 locks; calls on one handle one at a time |
| `allocator` | consistency, complete or failed replies, nothing left, every request answered | 2 threads, requests for 2, 11 descriptors, 4 BOs, BO and entry failing |
| `routing` | no wrong yes, no refusal for want of a backend; leftovers in `mBackend` decide nothing while calls come one at a time | 2 threads, 3 objects per class, 5 descriptors |
| `geometry` | sizes and strides of two processes agree; planes stay in the buffer and match `gbm.h` | 12 formats, 7 sizes, 10 usages, 1 or 2 layers, 4 builds, pitches rounded to 1 or 64 bytes |
| `dmabuf` | accesses balance; while calls come one at a time every call finds its own buffer, mapped once | 2 threads, 3 handles, 3 blocks, up to 2 locks, freed memory intact, no framebuffers |
| `mapper_routing` | a failed import leaves nothing, no blob in GBM; while calls come one at a time every buffer stays in its own backend | 2 threads, 2 images, 2 lines, 1 sheet |
| `metadata` | no get follows a pointer to freed memory, no two pointers share; while calls come one at a time what was set is read, whole | 2 threads, 5 blocks, payloads of 0 to 2 bytes, limit 1 |
| `driver` | until initialisations race no call uses half a driver and the ready one stays; no write through a bad pointer before a failure | 3 threads, 3 blocks, 2 failures |
| `dmabuf_allocator` | replies complete or failed, nothing open that is not accounted for, every request answered | 2 threads, 3 descriptors, 3 buffers, requests of sizes 0, 20 and 127 for up to 2 |
| `hash_table` | `HASH_FSCK` passes, the table is a set | 1 thread, 4 entries, 4 keys of which all collide at first, 1 to 4 buckets, 2 items a bucket |
| `routing_stale` | *violated*: only linear blobs come from DMA-BUF | 1 thread, 2 objects per class |
| `geometry_yv12` | *violated*: a buffer is imported with the size it has | `YV12` |

Why the bounds are enough. Every hazard of shared state is between two calls: two
threads show each pair; the driver has three, because it takes one to fail, one
to fill in and one to use. Three handles let one handle be freed, its numbers be
taken by a second, and a third be in use. There are more handles and
descriptors than threads, so that names run out (the clone fails) and are used
again. Two locks are the least that lets a lock join another and an unlock
leave one behind; `MaxLocks` only limits the counter, in both directions. A
request for two buffers is the least with a rollback of something and a release
loop that goes on. `FdReserve` keeps requests of the run `allocator` from
starting when too few descriptors are left, because every buffer leaks one: the
run is about requests that do not run out (`MCGbmAllocatorExhausted`, below, is
about those that do). The five
descriptors of `MCDesc` are the five ways `selectBackend` and the backends can
answer. The sizes of the geometry lie on both sides of what the code rounds to
and compares with (64, odd, the maximum, zero), its usages set every flag and
every pair of flags the code looks at together. Four entries in a table of one
bucket expand it twice.

Symmetry is used where names are interchangeable and only safety is checked:
threads, handles, descriptors, BOs, blocks, objects. The two runs with liveness
(`allocator`, `dmabuf_allocator`) use none.

Deadlock is checked in `routing`, `geometry` and `dmabuf_allocator`, which never
stop. The others may: `mapper`, `dmabuf` and `allocator` use up handles or
descriptors, which the code leaks; in `mapper_routing`, `driver` and `metadata`
all threads may have crashed or aborted; `hash_table` ends where an assertion fails
(it never does there, but does in a faulty variant).

Fairness. Only `RequestsAnswered` needs any: weak fairness of `Serve(t)` for
each binder thread. A thread of the pool that `Main.cpp` 41-43 starts is
scheduled until its call returns; no step of a request waits for another
thread. Requests need not arrive.

### Findings

The violated properties are statements of the repository which the code does
not keep; `PROJECT.json` quotes them:

- "We currently ONLY support Linear BLOB" (`AllocatorDmaBuf.cpp` 91): the
  failure of `selectBackend` is dropped (`Allocator.cpp` 180) and a stale
  DMA-BUF backend allocates anything;
- `gralloc_gbm.c` 419 and 499: the size of a YV12 buffer is converted for GBM
  when it is allocated, stored converted in the handle, and converted again
  when it is imported.

### Further configurations

These are kept beside the runs. Each checks statements of comments and
documentation that the code does not keep, or what a reader might expect and
must not rely on, or a run's properties on other ground. With `-continue` TLC
reports every violated property.

| Configuration | What it shows |
|---|---|
| `MCGbmMapperShared` | passes: the table's properties with calls of two threads overlapping on a handle |
| `MCGbmMapperKnown` | "allow multiple locks with compatible usages" (`gralloc_gbm.c` 603): two CPU locks never share, because `gralloc_gbm_bo_map` refuses a mapped BO (`CompatibleLockGranted`); and where calls overlap on one handle, incompatible locks are both granted, since the check and the count are not one step (`OnlyCompatibleLocks`) |
| `MCGbmAllocatorExhausted` | passes: what remains true where descriptors, BOs and entries run out in the middle of requests for 1 to 3 |
| `MCGbmAllocatorKnown` | "Release buffer and handle" (`AllocatorGrallocGbm.cpp` 64): the argument of a `LOG_D` (`gralloc_gbm.c` 470) leaves one descriptor open per buffer (`DescriptorsReturned`); "trying to add an existed buffer, skip." (65) is followed by the addition, reached with the key -1 (`KeysUnique`) |
| `MCAllocatorRoutingKnown` | "returns a shared-singleton ... backend" (`Allocator.h` 84): the singleton dies with the last `mBackend`, possibly under a running call (`BackendAlive`) |
| `MCMapperRoutingKnown` | overlapping calls leave buffers in the other backend, or managed by none (`ManagedByOwn`) |
| `MCMapperDmaBufKnown` | with data races and freed memory of any content: an imported buffer that is not found (`ImportedIsManaged`), an entry that outlives its memory (`EntriesLive`), a framebuffer that is locked, since lock and unlock look for `HW_FB` in different usages (`FramebufferNotLocked`) |
| `MCDmaBufAllocatorKnown` | callers that have not asked `isSupported`: sizes wrap around (`BufferHoldsRequest`), the stride is a byte for 8 pixels (`StrideInBytes`) |
| `MCGbmDriverKnown` | racing and failing initialisations: a driver that is ready and has no device (`ReadyIsUsable`), writes through freed or null pointers (`NeverCrashed`), two render nodes (`OneRenderNode`) |
| `MCBufferGeometryKnown` | formats without a plane layout (`LayoutsAnswered`); plane strides rebuilt from rounded pixels (`PlaneStrideIsPitch`); strides of formats whose bits per pixel are not libgbm's (`StrideInPixels`); supported descriptors that cannot be allocated (`SupportedIsCreatable`); layouts of unmapped formats against `gbm.h` (`TableMatchesFourcc`) |
| `MCBufferMetadataKnown` | writable types that cannot be read back (`WrittenIsRead`), read-only ones whose set succeeds (`ReadOnlyRefused`), listed ones that no backend answers (`ListedIsAnswered`), failures that look like sizes (`FailuresNegative`) |
| `MCBufferMetadataTorn` | a get during a set copies a new size with an old payload (`PayloadWhole`) |
| `MCHashTableKnown` | two threads in `add_buffer` at once: the assertion of line 75 (`AddedIsFound`) |

## 4. The proofs

Eight modules hold theorems; every one holds for every value of the constants
that satisfies the module's assumptions (any number of threads, handles,
descriptors, blocks, BOs; any requests). `PROJECT.json` lists them. The last
column says what is assumed beyond the named assumptions of the module.

| Module | Theorems | Assumes |
|---|---|---|
| `GbmMapperProofs` | `TypeCorrect`, `KeysStayUnique`, `KeysNameTheirBo`, `BuffersOutliveCalls`, `NoBoIsLost` | nothing: `SharedCalls` either way |
| | `LocksAddUp`, `CallsAreLeases` | `~SharedCalls` |
| `GbmAllocatorProofs` | `AllocatorTypeCorrect`, `DescriptorsKeepKeysUnique`, `KeysNameTheirBo`, `ReleasesFindTheirs`, `NoBoIsLost`, `IdleTableIsEmpty`, `RepliesShareNothing`, `RepliesComplete` | `[]Plenty` |
| `DmaBufAllocatorProofs` | `DmaBufAllocatorTypeCorrect`, `NothingElseOpen`, `RepliesShareNothing`, `RepliesComplete` | nothing: also where descriptors run out |
| `AllocatorRoutingProofs` | `RoutingTypeCorrect`, `YesIsYes`, `SupportedIsServed`, `SupporterIsAsked`, `NoIsNo` | nothing |
| `MapperRoutingProofs` | `MapperRoutingTypeCorrect`, `FailedImportLeavesNothing`, `NoBlobReachesGbm`, `SerialCallsReachOwnBackend` | nothing |
| `MapperDmaBufProofs` | `DmaBufTypeCorrect`; `AccessesBalance`; `SerialCallsFindTheirs`, `SerialCallsMapOnce` | nothing; `LocksMatch`; `Intact` |
| `LibraryProofs`, driver | `CorruptionNeedsFailure`; `SerialInitIsSound`, `ReadyStaysReady` | nothing; `Intact` |
| `LibraryProofs`, table | `TablePassesFsck`, `TableImplementsSet`, `TableFindsKeys`, `TableAssertionHolds`, `TableUsesLiveMemory` | `~Overlap` |
| `MetadataProofs`, metadata | `MetadataTypeCorrect`, `PointersStayOwned`, `CopiesStayLive`, `SerialCallsGetRight` | nothing |
| `MetadataProofs`, geometry | `GeometryTypeCorrect` | the device does not support `EXT_UNKNOWN` |
| | `LayoutsMatch`; `ImportsKeepSize`; `StridesAreRight`; `PlanesStayInBuffer` | nothing; of requests that are not YV12; of `CountedFormats`; of `CountedFormats` but YV12 |

What the conditions mean. `~SharedCalls`: clients do not let calls overlap on
one handle; without it `MCGbmMapperKnown` shows the lock data wrong. `Plenty`:
at least one descriptor is closed; the theorems say that a behaviour in which
this is always so satisfies the property in every state. Since a behaviour may
stop anywhere, that covers every state reached while descriptors lasted.
`~Overlap`: one call of
`add_buffer` or `delete_buffer` returns before the next begins, whichever threads make
them. The code takes no lock for this, and it is needed: with `Overlap` TLC finds
the assertion of `add_buffer` violated (`MCHashTableKnown`). Nothing is
assumed of the hash function, of the keys (two entries may have one) or of how
often the table has expanded; there are finitely many addresses for entries
(`HashTableAssumption`).
`LocksMatch`: clients lock with the CPU usage of the handle; otherwise unlock ends
another direction of access than lock has started. `Intact`: freed memory keeps its
content until it is reused, on which `freeBuffer` (`MapperDmaBuf.cpp` 125) and the
test of `g_driver->ready` after a failure depend. `EXT_UNKNOWN` is the placeholder
of the table of formats, with 0 bits per pixel: if a device supported it, the
stride would be a division by zero. `CountedFormats` are the 12 Android formats whose
bytes per pixel in `gralloc_gbm_format.h` are the bytes of a row of libgbm. For
the others (`YCBCR_422_SP`, `YCBCR_422_I`, `YCBCR_P010`, what is not in the
table) `StrideInPixels` fails, which `MCBufferGeometryKnown` shows; YV12 is
imported with another size than it has (the run `geometry_yv12`), and with the
usage of a cursor wider than its rows. The conditions on formats are about the request,
not about the constants: the theorems hold whatever else clients ask for. In the modules with a
history variable, the properties that start `~overlapped =>` or `~raced =>`
say themselves that calls come one at a time.

No property is inductive alone. What is added, by module:

- **GbmMapper**, `IInv`. A thread that is not idle has a handle, and after its
  lookup a BO (`CallsFormed`); import and free are alone on their handle
  (`CallsExclusive`). Keys are distinct because the descriptor of every
  handle is open (`HandlesOpen`), hence a clone gets a number that no handle
  has (`HandlesDistinct`); every key is the descriptor of a handle the client
  was given (`KeysGiven`), and a handle being imported has no entry yet
  (`ImportsUnregistered`). Lookups stay valid because no two entries have one
  BO (`BosDistinct`), the BO of an import is in no entry and no other call
  (`ImportsPrivate`), and a call in progress has its entry in the table
  (`CallsRegistered`), which only freeBuffer removes, alone on its handle.
  Between destroy and delete the BO is dead (`DestroyedDead`). `HandlesOpen` is
  where the code's leak of descriptors is what makes it right: since
  `freeBuffer` never closes, no number becomes free while a handle or an entry
  still has it. For the locks, `LockInv` adds what a call half way has already
  done to its BO (`Balanced`, `Counted`, `Outstanding`); the refinement needs one thing
  more, that an imported BO is fresh (`ImportsFresh`). Then every step is one
  of `BufferLease` or changes no lease: one lemma for each way a lease changes
  (`ImportLease`, `LeaseFreed`, `CommitLease`, ...) and one for those that
  leave it alone (`QuietLease`).
- **GbmAllocator**, **DmaBufAllocator**. Each request has, at each step, so many
  handles, so many still to make and so many published (`Formed`); what two
  requests hold is disjoint, and what is open is what they hold. Two lemmas
  (`AppendRange`, `TailRange`) say what the loops do to the sequence of handles.
- **AllocatorRouting**, **MapperRouting**. The object a call holds is of the class
  its step asks; `mBackend` is never null again; for calls one at a time,
  `mBackend` is what the call in progress has assigned.
- **MapperDmaBuf**. `sync` is a function of `locks` (`SyncIsLocks`). For calls one at a time,
  what is true of a handle by its phase (`HandleFits`) and of the one call by its
  step (`CallFits`): entries are distinct because each block names its handle,
  and `freeBuffer` erases the right one because the freed block still does.
- **GbmDriver**. Before any failure nobody frees a driver (`Unfailed`); for
  initialisations that do not race, how far the driver is follows from the
  step of the one that makes it (`Serial`).
- **HashTable**, `TableInv`: there is a call, or none, in progress (`Current`) with which
  the pointers are `Consistent`. The list from the head is the entries
  `Listed` at that step and the chains of the buckets those `Bucketed`, both doubly
  linked without a repetition (`Linked`); counts are lengths; every entry leads
  to the one live table. What a step does to a list is in one lemma each:
  appended (`Appended`), put first (`PushedFirst`), taken out anywhere
  (`TakenOut`), not touched (`Untouched`). For the expansion, the new chains partition
  the entries by their new bucket (`Filled`, `NewChainsFilled`), and the links written are
  theirs (`RelinkedChain`). `Chain`, `Emptied` and `NewChains` are recursive functions. What
  they compute is proved by induction in a form that names sets and no
  operator: a set of numbers has a least one (`Least`, from the library's theorem
  on well-founded orders), a set with 0 and closed under + 1 has all up to n
  (`UpTo`), and a recursive definition over 0..n has a solution (`Recursion`). TLC
  has checked the invariant on an instance before it was proved.
- **BufferMetadata**. Pointers do not share because the memory that a set has
  filled and not stored yet is in no pointer and in no other set's hands
  (`PendingOwn`): that is what storing it without a mutex relies on. For calls
  one at a time, the user data has what was set last, except between the two
  stores of a payload, where the call itself has it (`Kept`, `Synced`), and what
  a get has copied so far is what it must return (`CallSynced`). The proof needs
  three blocks, the members that `gralloc_gbm_bo_user_data_init` allocates.
- **BufferGeometry**, `GeometryInv`: each number as a function of the request,
  the build and one pitch that a row fits into (`Made`, `Published`, `Imported`,
  `Told`). The content is in the lemmas: rounding up a cursor twice is rounding
  it up once, in builds with and without alignment (`CursorSideTwice`); whole
  pixels of a pitch still hold a row (`WholePixels`); no sample is wider than
  the pixel (`LayoutsFit`); and the recursive sum of `ComponentsOf`, for the
  words of up to four components that there are (`BelowExists`).

The proof that a step keeps an invariant has one lemma or step per action, and
below it one per conjunct the action can disturb.

Only model-checked: liveness (`RequestsAnswered` twice), since the prover does
not do liveness under fairness or `ENABLED`. Every other property of a passing run is
stated by a theorem, `StridesAreRight` and its like under the conditions above.
The runs that expect a violation, and the `*Known` configurations, show on
instances what is not true.

## 5. What is abstracted, what is not modelled

- *Inside uthash.* In `GrallocGbm` a table operation is one step, which
  `HashTable` justifies for calls that do not overlap in it. Two threads in
  `HASH_ADD` or `HASH_DEL` race on links and buckets: `MCHashTableKnown` shows
  one outcome. What is said of the table elsewhere is what remains true if
  its operations are atomic. In `HashTable` itself the inner macros are atomic
  and allocations succeed (uthash exits when one does not).
- *Single fields.* `lock_count++`, `map_data` tested and set, and the assignment
  of a `shared_ptr` are one step each. With `SharedCalls` the first two could
  also lose updates; no property checked with `SharedCalls` depends on them.
  The races inside `std::unordered_map` have one outcome, a lost insertion.
- `GbmMapper` and `MapperDmaBuf` start with their backend selected and ready;
  selection is in `MapperRouting`, readiness in `GbmDriver`.
- Descriptors, blocks and BOs are names; sizes matter in `BufferGeometry`,
  `DmaBufAllocator` and, as bytes of a payload, in `BufferMetadata` only.
- The bytes that metadata values are encoded in: Android's support library
  encodes and decodes them.
- `dumpBuffer`, `dumpAllBuffers`, `getReservedRegion` (`Mapper.cpp` 530-568)
  and `getTransportSize`: they look at no state that changes. The fences that
  calls take and return are ignored by the code.
- `gralloc_gbm_deinit`, `gralloc_gbm_get`, `find_buffer_v`, `delete_buffer_fd`,
  `color_pitch`, `color_stride`, `color_fmt_g2a`: nothing calls them.
  (`delete_buffer_fd` tests `fd` where it means `tmp`, `gralloc_gbm.c` 100.)
- Handles given to freeBuffer while another call uses them, and `unlock` of a
  DMA-BUF buffer that is not locked: promises of the client.
- Failure of `calloc` and `malloc` without a check (`gralloc_gbm.c` 196, 534) or
  under an assertion (`Mapper.cpp` 434, 452, 468), where the code does not go on.
- Logging, but for the descriptor that the argument of one message opens; build
  rules, service files; the parts of uthash that nothing uses (bloom filters,
  sorting, selection) and the vendored headers that nothing includes.

## 6. What could come next

1. A composition of `GbmAllocator` and `GbmMapper`, handles travelling between
   two processes with descriptor tables of their own; today the handle is
   where one module ends and the other starts.
2. `MapperRouting` over the steps of `GbmMapper` and `MapperDmaBuf` in place of
   one step per method.
3. `MapperDmaBuf` against an abstract specification in the manner of
   `BufferLease`, for calls one at a time.
