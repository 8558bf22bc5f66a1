# Verification of libotfs

TLA+ models of libotfs, the filesystem library of OpenTag: what TLC checks of
them on small instances, and what TLAPS proves of them for every instance.
Paths are relative to the root of the repository; `veelite.c` is
`otlib/veelite.c`, and so on. The models are of the POSIX build (`platform/posix_c`)
with the features that the applications of the repository enable: `MULTIFS`,
file actions, modification times, AES keys statically allocated. Where the C2000
port differs in a way that shows (queues, encryption of queues, the filesystem
of `csip_c2000`), it is modelled beside it.

Run a model with `tlc -config orderly.cfg MCVeelite`, a proof with
`tlapm OtfsProofs.tla`. `PROJECT.json` lists runs, findings, hazards, the
lines of the source each definition stands for, and for each property a mutation
of the code that breaks it.

## 1. The system

| Component | State | Operations | Modelled in |
|---|---|---|---|
| File layer (`veelite.c`) | `vlfile[]`, a table of VLFPS=3 file pointers; `vlaction[]`, `vlaction_users[]`, VLACTIONS=16 file actions; in memory, the headers (length, alloc, ID and mode, base, action code, modification time) and the data | open, write, store, append, execute, close, touch, chmod, set modification time, add and remove action, init; new and delete compiled out | `Veelite`, abstractly `FileSessions` |
| Group (`main/otfs.c`, `veelite_multifs.c`) | `fstab`, a Judy array from ID to memory base with a cursor; `fsram`, the base of the active filesystem | init, deinit, load_defaults, new, del, setfs, activeuid, iterator | `Otfs`, abstractly `FsGroup` |
| Memory driver (`otsys_veelite_generic.c`) | `fsram` | 16-bit reads and writes through `fsram`, `vworm_init`, loading of the default data | `Veelite` (rounding of addresses), `Otfs` (`fsram`), `Files` (the image) |
| Search and permissions (`veelite.c`, `auth.c`) | the headers in memory | search for a header by block and ID, `vl_getheader_vaddr`, `vl_chmod` | `Files` |
| Applications (`include/app/*`) | none: tables of macros | bases, allocations, headers, default data of each file | `NullFs`, `CsipMasterFs`, `CsipC2000Fs` over `FsLayout` |
| Authentication (`auth.c`) | `dlls_info[]`, `dlls_ctx[]`, `dlls_size`: the keys of root, user and remote users; `dlls_nonce` | init, deinit, search, check, create, refresh, delete key | `Auth` |
| Nonces and encryption (`auth.c`, `crypto.c`, `otlib_eax.c`) | `dlls_nonce`; the queue a frame is in | get and put nonce, encrypt and decrypt buffers and queues | `Crypt` |
| Queues (`queue.c`, `buffers.c`) | buffer, get and put cursor, limit, a lock in `options` | empty, rewind, start, rebase, reads, writes, moves, swap; lock, unlock, block | `Queue`, abstractly `Fifo`; the lock in `Alp` |
| ALP processor (`alp_main.c`) | input and output queue, record headers, table of protocols | parse a message, process a record | `Alp` |
| File data protocol (`alp_filedata.c`) | none of its own: a loop over items | permissions, headers, read, write, delete, create, restore | `AlpFile` |
| Other protocols (`alp_security.c`, `alp_sensor.c`, `alp_logger.c`) | task of the sensor | adapters over `auth.c`, actuators, the logger | the actuators, in `AlpFile` |
| Clock (`otsys/time.c`) | UTC seconds and a fraction | get, set, add, load | its value, as `now` |

How they interact. A client of the group checks a filesystem out by ID
(`otfs_setfs`, `otfs_new`, the iterator), which points `fsram` at its memory,
runs `vl_init`, which wipes the table of file pointers, and in `otfs_new`
`auth_init`, which reads the root and user key files through the file layer. The
file layer then works on whatever `fsram` points to. `vl_close` calls file
actions, functions of the application that call the file layer again.
`vl_getheader_vaddr` asks `auth_check` for users other than NULL. ALP decodes
messages into calls of the file layer and the key table: drivers and tasks hand each
other queues, each under its lock word.

What is hard here. Nothing is protected from being called at the wrong time:
there is one global context, a pointer to a file is an entry of a table
(`FP_ISVALID` only tests for NULL), the length of an open file lives in the
entry and is written back by `vl_close`, user counts are bytes, and writes are in
16-bit words. The file layer is sequential, so the interleavings that matter there are those
of *holders*: two parts of the application with pointers on the same file, a file action that
runs in the middle of `vl_close`, a pointer kept over a change of context, an
iteration interrupted by file calls, an index of a key kept over a deletion, a
key that expires between two calls. Failing calls (no free entry, an ID twice, a
full table) must leave the rest as it was. Blocks of memory are freed and
reused. The queues are where tasks and drivers do meet: their locks are
spin locks that one function takes in pairs and gives back on all paths but one, and the layers above
count bytes in cursors, 8-bit lengths and 16-bit remainders by hand. Frames
are encrypted in place, in queues whose cursors those functions move.

## 2. Modules

`Veelite` is the core: one action for each call of the file layer.
`vlfile`, `vlaction`, `vlaction_users` are the tables of the code;
`hlen`, `hmod`, `hact` are the fields of the headers that calls write; `heap` maps each 16-bit word
to the file whose data was last written there, which is as much of the data as
the properties tell apart. `held` and `bound` are the application's: the pointer
each of two places keeps, and the files it added an action to. `stack` is the
call stack of `vl_close` calls whose file action is running: `RunAction` (line
975 of `veelite.c`) pushes, `action_return` does the rest of `vl_close`, and any
call may come in between, as from the body of an action. `fault` records the
undefined behaviour the program ran into (a call of NULL, a header at
`NULL_vaddr`); nothing happens afterwards. The application is described by
`Licence`: without licences it closes each pointer once and pairs its actions; `share`,
`retain`, `unpaired` and `reinit` each lift a restriction the code does not enforce. Calls
that return before they change anything (no free entry, offset past the allocation, append that does
not fit) are disabled.

`FileSessions` is what users of the file layer are promised: a session starts from the
committed length, is private while it lasts, and commits when it ends.
`Veelite!SessionsSpec` maps a session to a held pointer and its length.

`Otfs` is the group. `fstab` and `cursor` are the Judy array, external to the
repository: a successful lookup puts the cursor on the key, and after a failed one, or a
deletion, it may be anywhere (`Unsettled`). `live` are the blocks malloc gave and
nobody freed, `own` those the application must still free. `open` and `header`
are the parts of the table of file pointers the switch of context matters to.
`ctx`, `walk`, `visited` and `home` are ghosts: what the application knows from
return codes, and where it opened its pointers. `keys` is the block from which `auth_init` loaded last.
A file call is `Touch`: an access through `fsram`, to freed memory or not.

`FsGroup` is what `README.md` of the repository promises of the group: members with data of their own,
one of them checked out, file calls change that one only. `Otfs!GroupSpec` maps a member's data to the
memory at its base.

`Auth` is the key table: entries 0 and 1 are the local keys, entries from 2 on
remote users'. `Found` is what the linear search answers and `Passed` the entries
it finds expired on its way, which it wipes (`SweptInfo`, `SweptCtx`): each call that
searches takes both. The mode of files is abstracted to the rights of user and guest, and
`Required` is the conversion of `auth_search_user`. `granted` and `local` are
ghosts: the last key each remote user was given and the time it is good until,
and the local keys that `auth_init` loaded. The end of life of local keys is written and
never read by a search, so their value is not modelled beyond its type.
Calls before the first `auth_init` are not modelled (`Ready`).

`Crypt` is the rest of `auth.c`: the nonce counter and the encryption of buffers
and queues, on two devices with a key in common that send each other frames. A frame is
written with its IV, sealed, sent, perhaps damaged or repeated, opened; between these steps
key tables are loaded and wiped. A byte is a tuple that tells what it is, and
the cipher (OTEAX, external) maps data to bytes that only the same key and IV
undo. `port` chooses between `sub_crypt_q` of the POSIX build, which takes the IV at the
getcursor, and that of C2000, which takes it from the front of the buffer.

`Queue` is `queue.c` without its lock word: every call that moves a cursor or a byte. A
rewind by memcpy of overlapping regions is undefined, and the copy may run up or
down (`CopiedDown`). `RewindApart` is the discipline of rewinding only
onto space the unread bytes do not reach. `Fifo` is
the promise: a sequence of bytes, which `Queue!FifoSpec` finds between the cursors.

`Alp` has the lock word and the tasks. Each statement of `alp_parse_message` that moves a cursor or writes is a step, and
other tasks and drivers act between any two: the locks are taken one after the other, the room is tested, the place
of the header reserved (`Reserve`, `alp_main.c:356`), the processor puts out item by item (`Item`), the putcursor goes back,
the header is written, the putcursor goes forward (`GoBack`, `WriteHeader`, `GoForward`), the input queue is rewound, and
both locks are given back. `at` is where each task is and `job` has the variables of its call: `hdr_position`, `savedput`,
what is put out and what is still to be. `tail` is the putcursor of an output queue and `out` the units written in it, the place
of an open header left free. `kernel` says if another task may also run between the test and the set of `q_lock`; a task that others
preempt has an input queue and an ALP object of its own (`AlpAssumption`).
Drivers deliver messages into input queues and drain output queues, as `queue.h` asks them to: when the
queue is unlocked, or after `q_blockwrite`. `cell` keeps the messages in the buffer
of an input queue, those behind the putcursor too, as the processor treats what it finds.
A header is a unit, so is an item, and PLEN is modulo `LenMod`. From `AlpFile` the module takes that a processor counts what it
puts out (`ReplyCounts`; not so when a reading of several files fails).

`AlpFile` is the item loop of `alp_filedata.c` for one message, one step an item: `left` is `data_in`,
`got` and `put` the cursors, `mod` is `file_mod`, and `fp` the file pointer that
outlives `vl_close`. Items are what the sender put where they start (`Start`); where the loop
reads from the middle of one, it reads anything. Files are their length and mode; their first lengths (`Lengths`) are within
their allocations.

`FsLayout` has the macros that lay the files of an application out; `NullFs`, `CsipMasterFs` and
`CsipC2000Fs` are the three tables of the repository. `Files` loads one of them the way the
memory driver does, byte by byte, then searches, opens, stores, loads and
changes modes on it, as su, root, user and guest; who may is `Auth`'s `Required` and `Access`, by INSTANCE.

`MCVeelite`, `MCOtfs`, `MCAuth`, `MCCrypt`, `MCQueue`, `MCAlp`, `MCAlpFile` and `MCFiles` give constants their
values; `VeeliteProofs`, `FilesProofs`, `OtfsProofs`, `AuthProofs`, `CryptProofs`, `QueueProofs`, `AlpProofs` and
`AlpFileProofs` hold the theorems.

## 3. Runs

| Run | Asks | States |
|---|---|---|
| `orderly` | An orderly application with nested file actions: are pointers exclusive (`HandleExclusive`), is no entry lost (`NoSlotLeak`), is NULL never called (`ActionsLive`), are user counts right (`UserCountExact`), do only resizing sessions change lengths (`LengthNeedsResize`), and stamp them (`ModStamped`)? | 418,000 |
| `anyuse` | Every licence at once, counts of one bit: does data stay in its allocation (`HeapIsolated`), lengths too (`LengthWithinAlloc`), no function in two entries (`ActionUnique`)? | 1,230,000 |
| `sessions` | Two pointers on shared files: does the file layer implement `FileSessions`? | 21,000 |
| `group` | Three IDs, three blocks, pointers kept over switches: `ContextTrue`, `NoFreedAccess`, `BlocksAccounted`, `WalkExact`, `StaleIsDead`, and does the group implement `FsGroup`? | 59,000 |
| `auth` | Two remote users, two remote entries, a clock: does a search find the key that is good and no other (`LookupExact`, `LiveUnique`), `auth_check` grant what it should (`AccessExact`), expiry and deletion leave nothing (`ExpiredWiped`) and spare the local keys (`LocalKept`)? | 200,000 |
| `crypt` | Two devices and a network that damages and repeats: is no IV used twice with a key (`NonceFresh`), does decryption succeed exactly on intact frames and leave exactly their data (`OpensExact`)? | 1,774,000 |
| `queue` | Two queues with rewinds, moves and swaps on both ports: cursors in order, and do they implement `Fifo`? | 15,000 |
| `alp` | Two tasks with one output queue, and drivers. In a cooperative kernel: one holder a queue (`MutualExclusion`), output that can be parsed whenever a driver may take it (`OutputParses`)? There, and where tasks preempt each other, so that two may hold the output queue and write across each other: each message treated once and in order (`TreatedOnce`), every lock let go (`LockReleased`)? | 395,000 |
| `alpfile` | Messages of every command with up to two items: is the answer's length right (`ReplyCounts`), the message read exactly to its end (`Consumed`), which files change in length (`LengthsKept`) or mode (`ModesKept`)? | 1,350,000 |
| `files` | The three applications' filesystems: does a search find each file and no other (`LookupExact`), is what is loaded what was stored, default data included (`LoadTrue`), who may change files that are root's (`RootOnly`)? | 3,000 |
| `append`, `read` | Two of the disagreements below. | |

`TypeOK` is checked in `anyuse`, `auth`, `crypt`, `queue` and `alpfile`.

Bounds, and why they do. `orderly` has VLFPS=3, the value of the code, two places
and actions nested two deep: two held pointers and one being closed fill the
table, and a third open finds it full. Two functions in two entries, for two files, give sharing
of an entry, two entries in use, and removal in either order. `anyuse` has user
counts modulo 2, so that they wrap, stores of three bytes into files of two, so that clipping and
rounding matter, and files side by side, so that a word past the end is the
next file's. `sessions` adds writes at 0 and 2 of files of 4 and 2 bytes. `group`
has VLFPS=1, so that a retained pointer and a new one fight for the same
entry, and as many blocks as IDs so that freed blocks are reused while others
are members. `auth` has a table of 4 entries (the code has 3, room for one remote
key: with 4 the keys move on a deletion), times 0..4 and lifetimes of 1, refused,
and 2, so that a key expires, is refreshed, replaced, and expires again. `crypt`
has bytes of two values, so nonces are modulo 16, and the first is 15, so they wrap at once;
two frames of no and one byte of data, in queues of 13 bytes that
the larger frame, at offset 1, fills exactly; a damaged byte or a lost one, and
repetitions without limit. `queue` has two queues of three bytes, enough for a read in the middle, a rewind
and a move that does not fit. `alp` has outputs of three units, so that a
message finds room for its header and no payload, or none at all, three messages a queue, and PLEN modulo 4, which
does not wrap there: a payload of 256 bytes needs a queue longer than any of
the repository. Where tasks preempt each other each queue gets one message, a reading of one item (`Traffics`): the states multiply with
the places of both tasks, and two writers across each other need no more (with two messages a queue and outputs of two units the
safety properties hold as well, in 13,300,000 states, too slow to keep). `alpfile` has files of four bytes, items that
end before, at and beyond them, one with an odd span and one for no file, rooms
of 9 and 16 bytes (three items fit, or a bit more than one), and a backlog of two
bytes behind the message. With three items and one room it holds as well (4,300,000 states, too slow to keep).
`files` takes the tables whole. `MaxNow`, `MaxDepth`, `MaxSent`, `Traffic`, `MaxSeals`, `MaxItems` and the sets of
arguments are the only bounds; no other quantity is cut.

What the runs take for granted, as the code does not enforce it. `orderly`: actions are added and removed in pairs, so
counts of users do not wrap. `anyuse`: the offsets of `vl_write` are even (`EvenOffsets`; at odd ones `LengthWithinAlloc` fails). `auth`: times stay
below the wrap of 32 bits. `queue`: reads and moves take only bytes that were put, and rewinds do not overlap
(`RewindApart`). `crypt`: callers
leave room for the tag (`auth_encrypt_q` does not test it), refuse frames shorter than 11 bytes, reset the getcursor before they
retry, and a device takes its nonces by `auth_putnonce` or by
`auth_getnonce`, not both: one increments after, the other before, so they hand out the same value. A restart draws a new
random nonce and may repeat one; it is not modelled. `alp`: one message at a time in an input queue (`OneAtATime`; a
second one behind it is lost, or the first treated again, as `alp_main.c:383` rewinds
the queue whole), and readings ask for a response (`ReadsRespond`; otherwise
`alp_filedata.c:150` leaves a header whose payload was taken back); `MutualExclusion` and `OutputParses` are claimed of the
cooperative kernel alone. `UsersExclude` fails in the other one, and so does the framing: while one task is between
`Reserve` and `WriteHeader` the other reserves its header behind it and writes its items in between, or a driver that blocked the queue
drains it, and what is left cannot be parsed and may end beyond the space.
`alpfile`: the exceptions are spelled in the properties themselves: `LengthsKept` allows what the double close of
run `read` does, `ModesKept` what a mode of VL_ACCESS_W does, `Consumed` leaves out odd
lengths and second items of changes.

Deadlock is checked except in `anyuse` and `group`, where the program may run into
undefined behaviour and the model stops, and in `alp`, where the early return leaves both queues
locked for good.

Fairness and liveness. Every call of the file layer, the group and the
key table returns by itself, so progress is a question of the queues' spin locks only.
`LockReleased` is checked under `FairSpec`: weak fairness of each task's steps,
as a task that is not spinning is run in the end by any scheduler the library is built for,
and of `Unblock`, as a driver ends its transfer. Nothing is assumed of calls, deliveries and drains. The property excepts what is
true of the code: that the early return of `alp_main.c:329` abandons both locks, and that a driver that blocks a queue each time
it comes free may starve a task. That two tasks that take one queue in opposite
roles wait for each other for ever is excluded by the types (`InQueue` and
`OutQueue` are disjoint), not by the code.

### Where the code and its documentation disagree

The first two are runs whose property states what a comment or document says, and which TLC refutes.

* `append`: `vl_append` writes as many bytes as the new total length, from the
  old end on, so it writes into the file behind (`veelite.c:896`).
* `read`: `sub_filedata` closes its file pointer once for every item, also for an item that failed before
  it opened one: the pointer of the item before is closed twice, and the
  second close writes length 0 into its header (`alp_filedata.c:385`). A message that only reads files truncates one.

The others were met on the way; the definition named at the end shows each.

* `vl_write` bounds the offset and sets the length to two more, so at an odd offset it makes a file
  one byte longer than its allocation (`veelite.c:797`), though `veelite.h:535` tells callers to use odd offsets for odd lengths
  (`LengthWithinAlloc` in `anyuse`, with odd numbers in `WriteOffset`).
* `q_lock` tests the word and then sets it (`queue.c:171`), so where threads preempt each other two hold a queue,
  against `queue.h:262` (`UsersExclude` in `alp`, as an invariant).
* `alp_parse_message` returns with both queues locked when there is no room for a header
  (`alp_main.c:331`): the jump goes behind the unlocks, though the comments at `:321` and `:386` lock for the time of parsing
  (`LockReleased` without `Abandoned`).

Met while reading, and not given a run:

* File layer: `vl_execute` calls the action only when
  `vl_store` failed, and it never does (`:922`, against `veelite.h:576`); `vl_remove_action` on a file
  without action takes a user from entry 0 (`:371`); `vl_touch` ignores its flags (`:770`). Any one of the rights asked for is enough
  to open, so a reader may `vl_chmod` (`:594`).
* Group: `otfs_setfs` does not load the keys of the filesystem it switches to (`veelite_multifs.c:166`, against
  `auth.c:242`); with a member of ID 0 `otfs_deinit` frees nothing (`:190`); `otfs_new` and the iterator
  change the context too (`README.md:95` says only `otfs_setfs` does); a NULL handle makes each call return -1 though
  `README.md:65` allows it; `otfs_activeuid` reads the cursor of the Judy array, which may name another filesystem after a failed
  lookup or `otfs_del`.
* Keys: `auth_check` refuses the local root a file whose user has all rights (`auth.c:642`, against
  `:636`); `auth_get_user` has its range test inverted (`:666`); `test/auth.c:164` decrypts with a
  length that leaves the tag out, though `auth_decrypt` counts it.
* Queues: `q_empty` and `q_start`
  clear the lock word whoever holds it; `q_movedata` returns a positive deficit where `queue.h` says a negative one; the `_be` writers write the
  least significant byte first.
* ALP: chunked records are dropped though `alp.h` promises `MSG_Chunking_In`; the access mode is overwritten on the first
  item, so the second write item is treated as a reading (`alp_filedata.c:292`); an odd span wraps the remainder (`:326`).
* Applications: files with the IDs 0xFE and 0xFF of `null` and 0xFF of `csip_master` are not counted in their header, so searches never find them;
  the GFB files of `csip_c2000` lie outside their section, and its default data for `csip_setarray` is four
  bytes short, which shifts that of the four files behind (`Astray`).

## 4. Proofs

Everything proved holds for all values of the constants that satisfy the
assumption of the module: any number of files, file pointers and actions, of filesystems and
blocks, of users and times, of devices, keys and nonces, of tasks and queues, queues of any length and messages of any
number of items. What a theorem assumes beyond that stands in its statement and below.

`VeeliteProofs`:

* `TypeCorrect`: every step keeps the types.
* `HeapIsolation`: no word of the heap is written through another file's pointer,
  for every licence, provided `vl_append` is not called (`AppendLen = {}`: the
  run `append` shows that with it the claim is false). The invariant is
  inductive with `TypeOK`: `vl_write` and `vl_store` are bounded by the
  allocation that belongs to the header of the entry, so `WordsAt` stays in `Region`.
* `LengthBound`: lengths stay within the allocation provided the offsets of
  `vl_write` are even (at an odd one the length ends up one byte beyond), whatever else the application does.
  It needs lengths in the entries as well as in the headers, as `vl_close` copies the one to
  the other.
* `ActionsUnique`: no function is entered twice.
* `HandlesExclusive`: `HandleExclusive` provided the application neither retains closed pointers nor
  re-runs `vl_init` with pointers held. It is not inductive: the entries on the call stack must be known to
  be open, or `sub_new_fp` could hand one out to the file action. `HandleInv` adds that.

The second half of `VeeliteProofs` is the rest of the properties of runs `orderly` and `sessions`. Each theorem names
the licences it excludes. `StepKinds` groups the calls by what they do to pointers.

* `CountsExact` (`UserCountExact`) and `ActionsStayLive` (`ActionsLive`), for paired actions and fewer files than a user
  count has values (`FewFiles`; with more it wraps). `ActionInv` adds that a file with no action asks for none and one
  with an action names an entry of the table.
* `NoneLost` (`NoSlotLeak`): no entry is lost. It needs `ActionsLive`, as a call of NULL ends `vl_close` before it
  releases the entry.
* `PrivateSessions`: `Spec => SessionsSpec`, the file layer implements `FileSessions`, files opened twice included. The
  invariant is `HandleInv`, and that an open entry is on a file (`OnFile`). `HeldUntouched` says that
  `vl_touch` and returning actions leave the entries that are held.
* `OnlyResizing` (`LengthNeedsResize`) and `ResizingStamped` (`ModStamped`), without files opened twice: a session that
  lasts while another resizes its file would write the old length back. `LengthInv` says that an unresized pointer
  has the length of its header.

`FilesProofs`: every property of run `files`, for any tables, and any IDs, modes and lengths callers ask for. What
the proofs take from the tables is in `FilesAssumption`, which TLC evaluates on the three of the
repository: IDs tell the files of a block apart, or are in the order of the rows where these are computed (`IdsTell`);
the extents of files that may be found are whole words, in the filesystem, and apart, and none has a mirror
(`ExtentsApart`); the loader puts the default data where the headers say, but for `Astray` (`DefaultsInPlace`). The theorems say that
no sequence of calls spoils that. One invariant, `FilesInv`:

* `SearchesAreExact` (`LookupExact`): `vl_chmod` writes an ID next to the mode, so it must be the one that was there (`IdsKept`).
  That needs that a search answers with the ID it was asked for, which needs in turn that no `vl_chmod` before has changed one.
  Where rows are computed `IdsKept` is not so: `vl_chmod` of ID 0x19 in `csip_c2000` gets at the file behind the last, and
  changes its ID from 0xFF to 0x19; there searches do not read IDs, so the property holds.
* `LoadsAreTrue` (`LoadTrue`): a store is cut to the allocation and then rounded up to whole words (`RoundedFits`), so it writes in no
  extent but its own (`StoredApart`); only files that may be found are stored in (`FoundSought`), which in
  `csip_c2000` keeps the two GFB files out, whose extents do overlap.
* `RootsFilesKept` (`RootOnly`): a file nobody has had a hand in has its default mode (`DefaultModes`), and a mode of 0
  grants user and guest nothing, whatever they ask for (`RootsRefused`).
* `HeadersTyped`: the types of the headers, lengths within allocations.

`OtfsProofs`: every property of run `group`, and the refinement.

* `ContextKept` (`ContextTrue`), `NeverFreed` (`NoFreedAccess`) and `StaleDead`
  (`StaleIsDead`) follow from one inductive invariant, `GroupInv`. That the context is
  allocated needs that blocks have one owner (`BlocksKept`: two members never share a base, so freeing one leaves
  the other), that a group that is closed has no context (`Closed`), and that the application holds no pointer once its
  context is gone (`Parted`, its part of the bargain in `otfs_del` and `otfs_deinit`). Of stale pointers the invariant says that each
  entry in use was opened in the present context by one of its holders.
* `NothingLost` (`BlocksAccounted`) and `WalkComplete` (`WalkExact`) assume that no filesystem has ID 0, which the iterator
  takes for its end. That Judy's least member exists (`Least`) rests on the well-foundedness of `<` on Nat from the library.
* `Isolation`: `Spec => GroupSpec`, the group implements `FsGroup`. One lemma for
  each kind of step maps it to a step of `FsGroup` or a stutter; `MapsToWrite` needs that bases are distinct, and the
  reuse of a block in `otfs_load_defaults` that no member's base is free.

`QueueProofs`, both provided `RewindApart` (`RewindCopies`: then a byte is never read
after it was overwritten, whichever way memcpy runs):

* `TypeCorrect`: cursors in order and in the buffer.
* `FirstInFirstOut`: `Spec => FifoSpec`. The unread bytes are a sequence (`ContentIs`); a write appends to it
  (`WrittenBehind`), a read cuts its front off (`ReadOff`), a rewind
  leaves it (`RewoundSame`); the lemmas `MapsTo...` make steps of `Fifo` of them.

`AlpProofs`: `MutuallyExclusive` (`MutualExclusion`). It is not inductive: a task must be known to hold only queues whose lock word is
set, and drivers to block only such queues (`LockInv`). Early returns
do no harm: they leave words set that nobody holds. `OnceInOrder`
(`TreatedOnce`) assumes that each task has an input queue of its own (`OwnInput`): two tasks could both find the one message there
is, and the second treat what is left of it. `OnceInv` adds which message is at the front, and that a task on
its way to it still has it. It does not need the locks: with one task and a driver that waits, the putcursor is the handshake.
`OnceInOrder` holds in either kernel: with two tasks in one output queue the records are garbled, but the messages behind them are
treated. `DataInv` has the types of the buffers and of the variables of calls, and that a task always finds a message.
`OutputIsRecords` (`OutputParses`) rests on `LockInv`, and so on the cooperative kernel: as a queue has one holder, what is in front of
its putcursor is whole records (`Settled`) unless that holder is writing one, and then `Stage` follows it from step to step, the payload
behind the free place of its header, behind records that are whole (`Whole`); `BodyFrame` says that a step of one task leaves the queues
and jobs of the others, and `RecordParses` that with the header in place there is one whole record more. Drivers take a
queue nobody holds (`DrainStep`). It assumes that readings ask for a response (`ReadsRespond`), of every message that may still
lie in an input buffer, since a stale one may be treated again (`BufferInv`); and `PayloadsFit`: PLEN does not wrap,
or the queue is too short for the payloads for which it would.

`AlpFileProofs`: every property of run `alpfile`, for any number of items.

* `Typed` (`TypeOK`): the answer stays in its queue and files end at most a byte behind their allocation, though the loop may read
  items where there are none and `data_in` go below 0.
* `PermissionsKept` (`ModesKept`) and `MessagesChangeLengths` (`LengthsKept`). `ModInv` is what is true of the reused
  variable `file_mod`: a message that reads data never has "W" in it, one that writes data has at most that, and one that reads
  permissions gets exactly that only from a file whose mode is VL_ACCESS_W; and the pointer that outlives `vl_close` is on
  a file the message opened.
* `RepliesCounted` (`ReplyCounts`). `CountInv`: put and counted differ only after an item of file data failed, and as
  long as a reading has opened no file, or a writing has one item, they do not differ.
* `MessagesConsumed` (`Consumed`). `AtInv`: as long as nothing fails, the getcursor is where an item starts, and the
  remainder what is behind it. Where items start is a recursive sum; that it has the values the proof needs
  (`SumsExist` and the lemmas behind it) is shown without induction, from the least
  number at which it would not (`LeastNumber`, from the well-foundedness of `<` in the library).

`CryptProofs`: every property of run `crypt`. The lemmas `NumbersIs`, `EncryptIs` and `DecryptIs` reduce
the three ways to take a nonce, the three to encrypt and the two to decrypt, on both ports, to one step each
(`Numbers`, `Seals`, `Unseals`): where frames start, IV and data are in the same place for all.

* `CursorsInOrder` (`TypeOK`). `TypeInv` adds where the cursors are at each stage of a frame (`Cursors`).
* `NoncesAreFresh` (`NonceFresh`). `IvInv` says whose each IV is: the i-th nonce back of some device, with i at most the
  number of frames sealed, plus one if that device has taken a nonce it has not sealed with yet (`Sealer`, `Pending`). As fewer
  frames are sealed than a nonce has values (`MaxSeals < NonceMod`; 2^32 in the code), going back never comes round to
  the present one (`BackIs`); four digits tell nonces apart, in either order (`DigitsDiffer`, `LowDiffer`), and the ID tells devices
  apart (`IvsDiffer`). That `auth_init` draws a nonce only for an empty table is needed: no such device has sealed
  anything. The invariant gives more than the property: no IV occurs twice, under one key or two.
* `DecryptionIsExact` (`OpensExact`). `OpenInv` follows a frame from the seal to the receiver: what is in the queue of the sender, then
  on the way, are the bytes of a seal (`Holds`), and what arrives are these, or bytes that no seal makes (`Spoilt`:
  they end in the third byte of a tag, or one of them is junk). `OpensOne` and `OpensNone` say what that means for the search of
  `Opens`. It rests on `IvInv` only in that an IV has no junk in it. The cipher is ideal by the way the bytes are modelled;
  of EAX itself nothing is shown.

`AuthProofs`: `TypeCorrect`, `SearchExact` (`LookupExact`), `CheckExact` (`AccessExact`),
`OneKey` (`LiveUnique`), `NothingLeft` (`ExpiredWiped`) and `LocalKeysKept`. All but the first assume `NoWrap`: no
time plus lifetime reaches 2^32, as an end of life that wraps around to 0 means
never. They rest on one inductive invariant, `KeyInv`. `LookupExact` speaks of
what a search would answer, which says nothing of the entries the search skips;
the invariant says of *every* entry what it is: a remote entry is live or was found expired
(`RightsOK`); a live entry holds the last key granted to its ID, with the end of life granted
(`LiveGranted`); IDs of live entries differ (`LiveUnique`); and conversely a
grant that is still good has a live entry (`GoodLive`). A
search preserves it because it only wipes entries that are expired, thus not
good (`SweptIs`); a creation because every live entry of that ID was wiped by the
search before it; a deletion because the renumbering of the
entries behind the one it removes is an injection onto the entries that are
left (`DeleteStep`). `Exact` and `Granted` derive the two properties.

Two assumptions the proofs brought out. `AlpFile` let files be longer than their allocation at first when an allocation was
smaller than the one length it began with; initial lengths are now within the allocations, as those the tables of the applications
give. In `Crypt` offsets leave room for an IV in the queue (`CryptAssumption`); otherwise `auth_putnonce_q` moves the putcursor
past the end of the buffer.

Only model-checked: `LockReleased` of `alp`. It is liveness, which the prover does not reach. What the folds over the three tables of the
repository compute (`Bases`, `Image`) is left to TLC, which evaluates `FilesAssumption` in the run `files`: it is
induction over data, and of constants at that.

## 5. Not modelled, and why

* Reads of the file layer (`vl_read`, `vl_memptr`, `vl_checklength`, ...) outside `Files`: they change no state.
* The creation and deletion of files (`vl_new`, `vl_delete`): compiled out in every configuration of the
  repository, and the variant for several filesystems does not compile; the RAM mirror (`vsram_*`): disabled in all three.
* The Judy array, malloc, the cipher and the application: external, modelled by what the code uses of them.
* `alp_security.c`, which does not compile against the present `auth.h`; `alp_logger.c` and `logger.c`, which copy payloads;
  `alp_tmpl.c` and the NDEF framing, disabled.
* Several records in one input queue: modelled only so far as they are lost (above).
* `otsys/time.c` beyond the value of its clock; `utils.c`, `otlib_memcpy.c`, delays, the timers of the C2000 port: no state of their own.
* File calls with no filesystem checked out: `fsram` may be NULL or dangle, and only the application can know.
* The IDs of `csip_c2000` beyond its table (0x19 to 0xFE): its search computes the row without a check and reads what lies behind.

## 6. Plan

Next, in this order:

1. A `Clock` module for `otsys/time.c`: seconds and fractions against exact arithmetic, and the effect of a
   clock set back on expiry in `Auth`.
2. `sub_find_empty_heap` (disabled code) against a reference definition of a best fit.
3. Proofs: `UserCountExact` modulo the width of a count, beyond `FewFiles`; that the properties of `Crypt` survive
   the expiry and renumbering of keys in `Auth`, once the two are composed.
