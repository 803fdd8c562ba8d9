# WishList: a TLA+ development

WishList (`src/PriceTracker`) is an iOS app in Swift. Users keep wish lists, follow
each other and see each other's latest wishes. There is no server of its own: every
screen is a client of Firebase that reads whole nodes of a Realtime Database in callbacks
and writes whole arrays back. The repository also holds the sources of the pods that are
compiled into the app; two of them have logic of their own that is worth checking: leveldb
1.20 (`Pods/leveldb-library`, the store on the device) and nanopb 0.3.8 (`Pods/nanopb`,
protocol buffers in C).

What is hard in the app is what a screen believes when it writes, in which order callbacks
run, and what is left when the process dies between two writes. What is hard in leveldb is
that writers, readers, one background thread and crashes meet in the same files. In nanopb
it is input that was written by somebody else, or cut.

Paths below are relative to `src/PriceTracker/PriceTracker` (Swift),
`src/PriceTracker/Pods/leveldb-library` and `src/PriceTracker/Pods/nanopb`.

## The system

| Part | State it keeps | Operations | Modules |
|---|---|---|---|
| Realtime Database, its client, Auth (external) | `users`, `items` on the server; per device the writes not yet sent and the signed-in user | take a write, answer a request, sign in | `Firebase` |
| `Authentication/LogInVC`, `SignUpVC` | texts of the form, and copies of them taken when editing ends | log in, sign up, the callbacks of both | `Authentication` |
| `Friend Feed/FriendFeedVC` | three arrays, filled by three requests; the rows of a table | appear, three answers, reload, select | `FriendFeed` |
| `User/UserVC` | a friend and their items | two requests on every appearance | `UserPage` |
| `People Search/PeopleSearchVC` | all emails, the emails found | one request; filter; select | `PeopleSearch` |
| `User/UserCopyVC` | the person, `friendID`, `myFriendList` | find the person, load the friends, follow | `UserCopy` |
| `Profile/ProfileVC` | `IDList`, `ItemList` | two requests on every appearance; Add | `Profile` |
| `Entry/AddEntryVC` | `itemIds` | load the list; Save | `AddEntry`, `WishList` |
| `Item/*`, `Entry/ItemEditVC`, `UserEditVC`, cells, `CurrentUser` | the item they were given, or nothing | display | not modelled |
| leveldb `db/db_impl.cc` | queue of writers, memtables, logs, MANIFEST, snapshots | write, get, flush, merge, recover | `DBImpl` |
| leveldb `db/version_set.cc` | files of each level | place, pick, merge, read | `VersionSet` |
| leveldb iterators, skip list, tables, blocks | positions in them | seek, next, prev; build, open | `DBIterator`, `Cursor`, `SkipList`, `InternalKey`, `Table`, `Block`, `Coding` |
| leveldb log, `RepairDB`, version edits | bytes of a file; files of a directory | append, read, repair | `LogFile`, `Repair`, `VersionEdit`, `Files` |
| leveldb table cache | shards of handles, readers of tables | look up, insert, release, evict, close | `LRUCache`, `TableCache` |
| leveldb `util/env_posix.cc` | file locks, the work queue, limits | lock, unlock, schedule | `PosixEnv` |
| nanopb | a stream, a message | decode, encode | `PbWire`, `Pb` |

The screens share nothing but the database and the signed-in user. A segue
(`Base.lproj/Main.storyboard`) hands over an email, an id or an item, and coming back runs
`viewWillAppear`, which asks for everything again. All callbacks run on the main queue, one
at a time: the interleaving is of callbacks, user actions, the client's sending of writes,
and other devices.

Several screens at once are composed where one opens another: `Profile` EXTENDS `AddEntry`
(Save unwinds to the profile), `UserPage` EXTENDS `FriendFeed`, `PeopleSearch` EXTENDS
`UserCopy`. In leveldb `DBIterator` stands on `SkipList` and `Table`, `Repair` on `LogFile`,
`VersionEdit` and `Files`, `TableCache` on `LRUCache`; `DBImpl` and `VersionSet` divide the store:
the first has threads, logs, crashes and recovery over two levels, the second the choice
of files over all levels, without crashes in between.

### What makes each part correct

- *Copies that are written back.* `addItem` and `addFriend` append to an array read earlier
  and write the whole array. Wish lists should only grow (`ImplementsWishList`,
  `WishlistGrows`), and no list repeat an entry (`EachItemListedOnce`, `FriendsAreNamedOnce`).
- *Writes that belong together.* A Save makes two, a sign-up four, and the process may die
  between any two: `ListedItemsExist`, `RecordsFillInOrder`.
- *Requests that depend on each other.* The second callback filters by what the first one
  left, and rows are counted at one moment and looked up at another: `ProfileIsLatest`,
  `FeedIsLatest`, `PersonIsShown`, `PersonIsFollowed`, `TitleIsRight`, `RowsMatchSearch`.
- *Callbacks that come late.* The one of `createUser` reads the form as it then is
  (`RecordsMatchForms`); the one of `signIn` changes the user below whatever is shown
  (`HomeStaysMine`).
- *What the user sees comes true*: `SavedIsShown`, `FollowedIsStored`.
- *The store.* A write that was acknowledged survives what it was promised to survive
  (`AckedAreRecoverable`, `SeenIsRecoverable`), a read sees the store as of its snapshot
  (`ReadsSeeStore`, `ReadsFindNewest`, `PointReadsFindNewest`, `ImplementsCursor`), files in
  use are not deleted (`FilesInUseExist`, `HeldAreOpen`), numbers are not reused
  (`NumbersNameOneWrite`), nobody waits for ever (`WritesReturn`, `MemtableIsFlushed`,
  `Settles`, `WorkIsRun`), damage is reported and not made worse (`ScansReportDamage`,
  `ReadsBack`, `NothingIsDestroyed`, `RepairedIsWhole`), the space a client is told of is that of its
  range (`SizesAreOfRanges`).
- *Messages*: `AcceptedAreWhole`, `CopyIsEqual`, `CutIsNoticed`.

## How the modules correspond to the code

Names of definitions are those of the code where TLA+ allows it; `PROJECT.json` maps each
of them to its lines. A comment *A mutant* marks a bug that a programmer could have written
in place of the definition after it: no specification uses it, and it makes a property fail.

**`Firebase`** is everything outside the repository, read off the calls in the Swift sources
and the headers under `Pods/FirebaseDatabase`: a write is visible at once to its device and
sent later, in order (`FIRDatabaseReference.h:85`); `setValue` on a record removes the lists
below it (`:76`); without persistence, unsent writes are lost with the process
(`FIRDatabase.h:128`). `Seen` is what a device reads, the server's value under its own unsent
writes. `Turn` says which request may be answered now: of one kind in order, of different
kinds in order or not (`inOrder`), since the headers promise nothing.

**The screens.** One action for each handler: `viewDidLoad` and `viewWillAppear` are `Open`,
`Appear`, `Reappear` or `Select`; each callback of a request is an action for each of its
outcomes (found, nothing there, forced unwrap of `nil`); a block queued on the main queue
(`DispatchQueue.main.async`) is an action of its own (`Reload`). A forced unwrap of `nil` ends
the process: unsent writes are lost, screens are gone, Auth keeps the user. A `AddEntryVC` that
was left with its request unanswered leaves a *stray* callback, since the closure keeps the
screen alive. In `UserCopy` an answer has two phases, so that what it holds may be older than what
the device has written when it is applied; elsewhere it is computed when its callback runs.
Texts, uids and keys are model values. Dictionaries have no order, so rows are sets. An item
has no attributes, since nothing changes them.

`Patient`, `WaitsFor` and `careful` are assumptions about *users*: that they wait for a
screen to fill before they press its button. No code enforces them. The properties that need
them fail without. `FriendFeed` has of the two screens that write lists beside the feed the copy each writes back
(`userCopyVC`, `addEntryVC`): empty at first, filled by an answer (`LoadMe`, `LoadEntry`), written with one entry more by `Follow` and
`AddItem`. With `Patient` they are pressed when the copy has come; without it also before, also for a person who is not
found yet, as in `UserCopy` and `AddEntry`, which have the rest of these screens.

**`WishList`** is the abstract specification of the wish lists: `Add` puts one new item on one
list, and nothing else happens. `AddEntry` implements it with the server's lists read as sets.

**leveldb.** `DBImpl`: program counters for the writers (`Write`: the queue, the group, the log
with the mutex released), the reader, the background thread and a recovery; an Env call may
fail where the budget says so. A descriptor file is the states its edits build, one after the other, and how many of them are
on the disk; a recovery replays the logs record by record and writes a table when the memtable is full. A write with sync protects the log it goes to, as in the
code, and not the one before a switch. A loss of power takes bytes from files and never an entry from a directory: `PosixWritableFile::Sync` syncs the
directory only for a MANIFEST, so that the name of a new log, or the rename of `CURRENT`, is as safe as the file system makes it, and the
model takes it to be safe. `VersionSet`: the size of a file is its number of entries;
`Flush`, `PickCompaction` with boundaries and grandparents, `IsBaseLevelForKey` with its level
pointers (moved only when it is asked, which is of deletions, and only as far as it looks), trivial moves, seek compactions, `CompactRange` and `GetApproximateSizes`. `SkipList` has the arena as well. `DBIterator` has `DBIter` over
`MergingIterator` over a memtable (being linked node by node), a table and a level, in both
directions; `Cursor` is what `iterator.h` promises, and the refinement is checked. `Table` and
`Block` are cell by cell: a digit of a varint is a cell (to the base `Radix`), a fixed32 is one
cell, and crc32c and the Bloom hash are stood for by functions that tell unequal things apart. `LogFile` is
byte by byte with blocks of a few bytes; a crc is the pair it was computed from. `Files` has the
names of files, made from numbers and parsed back, and the calls on a directory. `LRUCache` and `TableCache` have
handles with counts in the hash tables of the shards, threads between `Lookup` and `Insert`, any table that fails to open at any time, and the end of the cache with the store
(an mmap that fails takes and gives back its place in the limit in one step). `PosixEnv` has `locks_`, the lock of
`fcntl` (which belongs to the process and goes when any descriptor of the file is closed), and the
background thread.

**nanopb** is `pb_decode` and `pb_encode` over field descriptors, with nested, repeated, packed, oneof,
extension and callback fields. Widths are scaled: `LongBits` for 64, `WordBits` for 32 bits; `fields_seen` is words of `SeenBits` (32) bits
for `MaxRequired` (64) fields, and in the run a submessage has one required field more than a word has bits. `CopyIsEqual` compares what a
message holds with what its copy holds and lets two things differ, which the code does: all extensions are encoded, found or not, so
that the copy has found them (`pb_decode.c:717`); and a singular submessage that passes for zero is not written. That test
(`pb_encode.c:205-267`) asks for no `has_` flag and looks at the first item of an array only: an optional zero and an array that begins with
zero are lost with it. `SchemaIsDescribed` says which descriptors are left out: a singular submessage with a oneof (the test reads the union
without its tag), and required fields that fill the last word, or are more than there is room for.

## Runs

| Run | Instance | Checks |
|---|---|---|
| `ProfileShown` | 1 device, another user's item, a save, records complete, cut and absent, any order of answers, fair | `ListedItemsExist`, `EachItemListedOnce`, `ProfileIsLatest`, `ImplementsWishList`, `SavedIsShown` |
| `AddEntryTwoDevices` | 2 devices of 1 account, patient | *violation* of `WishlistGrows` |
| `Search` | 1 device, 3 users, equal emails, a record without a profile, sign-ups meanwhile, fair | `RowsMatchSearch`, `FriendsAreNamedOnce`, `TitleIsRight`, `FollowedIsStored` |
| `Auth` | 1 device, careful users and careless ones with 2 calls in flight, deaths anywhere | `RecordsFillInOrder`, `RecordsMatchForms`, `HomeStaysMine` |
| `FeedRows` | a viewer and a device that adds items, 3 users, lists complete, cut, with an empty id, users patient | `FeedIsLatest`, `PersonIsFollowed`, `PersonIsShown` |
| `DBStore` | 2 writers, a reader, 2 to 4 writes, 1 to 3 openings, each fault but a torn record with a death or a loss of power | `AckedAreRecoverable`, `ReadsSeeStore`, `FilesInUseExist`, `NumbersNameOneWrite`, `SeenIsRecoverable`, `WritesReturn`, `MemtableIsFlushed` |
| `LSM` | 4 levels, 3 keys, up to 5 memtables, eleven settings of options and clients, fair | `ReadsFindNewest`, `OlderIsDeeper`, `SizesAreOfRanges`, `Settles` |
| `LSMSplit` | files of one entry, 2 keys, 4 memtables, a snapshot | *violation* of `LaterLevelsAreIrrelevant` |
| `Iterator` | a memtable with an insertion under way, a table of two blocks, a level of two files; nine layouts | `PointReadsFindNewest`, `ScansReportDamage`, `ImplementsCursor` |
| `PbCopy` | messages of up to 3 pieces of 21, cut anywhere in the last | `AcceptedAreWhole`, `CopyIsEqual`, `CutIsNoticed` |
| `RepairAndTables` | a directory: blocks of 8 bytes, 2 records, a fault, a repair killed once | `ReadsBack`, `NothingIsDestroyed`, `RepairedIsWhole` |
| | then a cache: 3 threads, 2 tables in one shard with room for one, limits of 1 | `CacheIsConsistent`, `HeldAreOpen`, `LimitsBalance` |
| `Env` | 2 processes, 4 objects of 2 databases | `OpenOnce`, `WorkIsRun` |

The bounds limit how often users and clients act, never an answer, a send or the background thread:
`MaxAsked`, `MaxUnsent` (requests and writes outstanding when a user acts again), `MaxHandles`, `MaxRecords`, `MaxFaults`, `MaxKills`, `MaxPieces`,
and the budgets of `MCDBImpl` and `MCVersionSet`. They are as small as the hard cases allow. A lost
update needs two devices, an overlap of one round of requests with the next needs a second appearance, a merge
during which a memtable is flushed needs three writes with a buffer of none, an overwritten trailer needs a record that
ends within a header of a block's end; the settings that do not matter for a case are reduced in it. The comments in the MC modules
say what each instance is for. Pure functions are compared with their definitions in ASSUMEs, which TLC evaluates at the start of a run: `OffsetsGrow` in `MCDBIterator`,
others beside what they are about. Deadlock is checked wherever the modelled program cannot simply be done;
`CHECK_DEADLOCK FALSE` is said of the store, the logs, the cache and nanopb, where clients have a
bounded number of things to do.

`RepairAndTables` looks at two components that share no variable, so that a step of one says nothing of the other: each takes steps
only while the other is as it was at first. Symmetry is used for the threads of its cache; no liveness is checked there.

`LSM` has the setting of `LSMSplit` too. A snapshot may keep two entries of a key, a merge with small files may close an output between them,
and the file of the newer may be an input later without that of the older. The code then reads the older entry (`LSMSplit`). `parted` is a history
variable: the keys of which a compaction took an entry deeper and left an older one in the level it took it from. `ReadsFindNewest` and `OlderIsDeeper` speak of all
other keys, in all settings: that exchange is the only way in which a read goes wrong.

### Fairness

- `Profile`: weak fairness of the answers (`ProfileAnswer`: a list or items, there or not), of no reload and no sending: a client
  sees its own writes before they are sent. `PeopleSearch`: weak fairness of the page's answers and of sending; a client with a connection gets its answers
  and keeps re-sending (`FIRDatabase.h:124`). No button is ever assumed to be pressed, and each liveness
  property ends in "or the process dies".
- `DBImpl`: weak fairness of each thread inside a call and of `BackgroundCall`: the scheduler of the operating system. A client owes nothing.
- `VersionSet`: `[]<>~HasWork \/ []<><<InBackground>>_vars`, which is weak fairness of the background thread with its guard written out.
- `PosixEnv`: weak fairness of `BGThread` in each process.

### Findings

`AddEntryTwoDevices`: `Entry/AddEntryVC.swift:74` writes the list that was read when the screen loaded over the one in
the database: what another device of the account has added since is gone, however long the user waited.
The comment at line 72 says the id is added to the list.

`LSMSplit`: `db/version_set.cc:1305` takes whole files as the inputs of a compaction, below level 0 only the one that was picked (and `SetupOtherInputs` adds
none that begins with the key the input ends with). With a snapshot and small files, a merge leaves the newer of two entries of a key in one file of a level and the
older in the next; the first is then moved deeper, and `Version::Get` finds the older one above it. The comment at line 346 says that entries never hop across levels, so
that "if we find data in an smaller level, later levels are irrelevant".

Seen while modelling, where nothing in the repository says otherwise, or where the condition is an assumption of a theorem below:

- Save pressed before the list has come replaces the list by the new item; without `Patient` TLC refutes `ImplementsWishList`.
- The button of a page pressed before the *user's* list has come writes a list of that one person over the user's friends, the user included
  (`User/UserCopyVC.swift:33,51-53`). The feed below has counted its rows by then, and its next answers leave a `friendList` that is shorter: the row that is selected
  indexes out of range (`FriendFeedVC.swift:105`). With `Patient = FALSE` TLC refutes `FeedIsLatest` in 13 states.
- The button of a page pressed before the person is found stores the empty string as a friend; the row of such a
  "friend" ends the process when it is opened (`User/UserVC.swift`, unwrap of the missing record).
- A record written by a form whose fields were never left has empty names: what is checked are the fields, what is written the copies.
- An account whose sign-up was cut can sign in, but the feed unwraps the missing record, so the app ends at once every time (`IDsTrap`).
- The row of a name in the feed and the friend that the row opens come from two dictionaries: only that *some* friend opens is true.
- A write with sync that comes after a switch of the log does not make the log before it safe; `NewDB` does not
  sync its MANIFEST before `CURRENT` names it. Reopening is therefore only checked for what was promised.
- `CompactRange` (`db.h:141`) does not wait for what is written meanwhile (`GapSettings`); with `reuse_logs` a torn record is not followed by a good one.
- A record that reaches the log in part is where the next recovery stops reading. `db_impl.cc:1236-1241` refuses later writes after a
  *sync* that failed, not after an append that did, so that later writes go behind the torn record, are answered OK, and are gone after a death of the process;
  `options.h:193-196` says that no write is lost then. With `TornBudgets` TLC refutes `AckedAreRecoverable` and `SeenIsRecoverable`; the
  other three invariants of the store hold. `MCBudgets` has no torn records (`NoTorn`, below).
- `LockFile` opens the file before it looks the name up, and closing it again when it refuses drops the process's own
  `fcntl` lock (`env_posix.cc:464`); `UnlockFile` forgets the name before the lock is dropped. `env.h:112` promises
  exclusion without a condition; `OpenOnce` states the one that is needed.
- `repair.cc:189` says checksums are verified and passes `false`. An append that fails leaves `block_offset_` out of step with the file. The reader
  skips `kBlockSize - 6` and not `- 7`. A repair that follows another may bring obsolete tables back, takes logs
  in the order of the directory, archives a log whose table could not be built, and takes no lock.
- nanopb: 32 required fields shift by the width of a word, 64 read past the array; a singular submessage of zeros loses its `has_` flags and arrays; a tag that is cut is a clean end of input; the submessage of a
  oneof is reset each time it comes; an extension that was not found is encoded all the same.

## Theorems

TLC checks an instance; the theorems hold for all values of the constants. All are proved by `tlapm` with SMT, Zenon and LS4.

| Module | Theorem | States |
|---|---|---|
| `ProfileProofs` | `TypeCorrect`, `ListedItemsAlwaysExist` | of `AddEntry`: `TypeOK`; a list on the server names only items that are there |
| | `SavesOnlyAdd`, `AddEntryImplementsWishList` | with `Patient` and `AccountsExclusive` no save takes anything off a list, and the app's lists refine `WishList` |
| | `ItemsAlwaysListedOnce` | no item twice, nor on two lists, with no condition on users or accounts |
| | `ProfileImplementsAddEntry` | profile and entry screen together do only what `AddEntry` allows, and so have its theorems |
| | `ProfileAlwaysLatest` | no missing cell in any order of answers; in order, the profile shows the latest list |
| `PeopleSearchProofs` | `SearchTyped`, `NamedOnce`, `RowsAlwaysMatch`, `TitleAlwaysRight` | types; no friend twice; the rows are those of the search; the button is right |
| `UserPageProofs` | `FeedAlwaysLatest`, `PageAlwaysFollowed`, `PageAlwaysShown` | with `Patient`, the tables of the feed and of a friend's page never ask for what is not there, and show what they should once settled |
| `AuthenticationProofs` | `HomeAlwaysMine`, `RecordsAlwaysFillInOrder`, `RecordsAlwaysMatch` | the three invariants of `Auth` |
| `PosixEnvProofs` | `OpenedOnce`, `LockIsEnough`, `WorkIsSafe` | the lock excludes, and when; the thread works only for open databases and forgets no work |
| `DBImplProofs` | `FilesHold`, `FilesExist` | the invariant of types and files; `FilesInUseExist` |
| `DBImplRecoveryProofs` | `ContentHolds`, `NumbersAreOnce` | the invariant of what tables and logs hold; `NumbersNameOneWrite` |
| | `ReadsHold` | `ReadsSeeStore`: a read sees the store as of its snapshot, whatever is flushed, merged or deleted meanwhile |
| | `PromisesHold`, `SeenRecovered`, `AckedRecovered` | with `NoTorn`, the invariant of what was promised; `SeenIsRecoverable`, `AckedAreRecoverable` |

The theorems of the store hold for any number of threads, keys, calls and openings, any buffer size and triggers, and any number of faults of each kind, deaths and losses of power in the middle of a flush, a merge, a clean-up or a recovery included.

`FirebaseProofs` holds the lemmas the screens share: types of writes, ids of lists, sequences of writes and of requests.

### Along which argument

None of the invariants is inductive as it stands; TLC checked each strengthening on the instance of its run before it was proved.

- *`ListedItemsExist`*: `NamedItemsComeFirst`. Every unsent list names only items that are on the server or
  come earlier in the same device's queue; a screen's copy, only items that are there or in its own queue.
- *`ImplementsWishList`*: `AllChained`. The server's list, the unsent lists of the only device of the account and the copy in
  its open screen form a chain under inclusion; this is where `Patient` and `AccountsExclusive` are used. `ListedApart`: an item that
  is on a list, unsent list or copy of one user is on none of another, and repeats in none; it follows from the freshness of keys
  alone. `AllStepwise`: each link of the chain is one item longer, so that sending it is one `Add`.
- *`ProfileIsLatest`*: `ScreenOK` says what each table holds against the database, `InTurn` which answers are
  still to come in order; with `AllChained`, what was read when the list came can only have grown by the screen's own saves.
- *`FriendsAreNamedOnce`*: `ListsNameOnce`, of server, queue, answers and copies together. *`RowsMatchSearch`*: `RowsInv`. *`TitleIsRight`*: `TitleInv`, a
  relation between what the page knows of the person, the friends it was given and the answers outstanding.
- *The feed and the page*: `PagesInv /\ CopiesInv`. `CopiesInv`: a copy that has come is the list its device sees, since nobody else writes that list
  (`AccountsExclusive`) and the screen's own writes go into the copy as well; so that what patient users write over a list is that list with one entry more. This is where
  `Patient` is used, and without it lists shrink. `PagesInv` is in three parts. `DataOK`: users stay on their own list, lists and queues only grow, name what is there, and are
  apart between users. `FeedInv`: each array belongs to the one before it *as it is or was*, which is why cells exist in any order of answers; the cardinality of the
  latest items is that of the friends, since lists are apart; what has been answered in order is as it is now, if nothing was written. `PageInv` is the same for the page,
  and that its person is on the list of the viewer.
- *Authentication*: `AllScreensOK` ties the forms to the calls in flight, `AccountsOK` accounts to records,
  `FillsOK` says that in every queue the writes of a sign-up come in order, `ProfilesMatch` that a careful user's profile is the form's.
- *`OpenOnce`*: `LockInv`, that a name is in `locks_` because of exactly one object and the open ones
  hold the lock of the process unless it was lost. *`WorkIsSafe`*: `WorkInv`.
- *The store*, in four layers, each on those before it, so that no step has to be looked at with everything at once:
  - *`FilesInUseExist`*: `TypedInv` and `FilesInv`. The core is `Possible`, the states that a loss of power may leave of the descriptor: each of them can
    be opened (`Openable`: its tables are there and complete, its numbers below its counter). `OpeningInv` and `SwitchInv` say how far a recovery is, `UpInv` what the
    open store knows of its files, `JobInv` what the background thread rests on: its inputs are in the version, its output is protected by `pending_outputs_`
    until its edit is in the descriptor.
  - *`NumbersNameOneWrite`*: `ContentInv`. A table that is written holds what it replaces (`WorkInv`), what has been replayed and what is left of the logs is what
    the logs held (`ReplayInv`), and all numbers handed out lie below the counters in memory and in every descriptor (`NumbersInv`).
  - *`ReadsSeeStore`*: `ReadInv`. A merge drops only entries that no snapshot sees, because the oldest snapshot it was given is no newer than any there is;
    what a `Get` holds (memtables and files of its version) covers the view at its number although the version moves on. That the view of a set
    finds a newest entry of each key is `NewestExists`, by a minimal counterexample.
  - *`AckedAreRecoverable`, `SeenIsRecoverable`*: `PromisedInv`. Memory is in the logs (`KeptInv`); every state of `Possible`, with the logs as they are, finds what could be read
    (`SeenInv`) and what was answered OK (`AckedInv`); with the logs cut back to what was synced it finds what a synced write was promised (`DurableInv`). The
    hard steps are those that take something away: a descriptor that makes logs obsolete (its tables must cover them in every state that may survive), the clean-up, a loss of
    power in the middle of writing a new descriptor.

### From which assumptions

The ASSUMEs of the modules say only what the constants are, and that `Missing` is not a value. TLC evaluates them in the runs. The conditions of
theorems are stated in them:

- `Patient`, `WaitsFor`: the user waits for a screen to fill. `AccountsExclusive`: no account on two devices. Both are needed, by the
  wish lists and by the feed and the page: see the findings.
- `FoundListedOnce`, `FoundNamedOnce`, `FoundWell`: the database that is found is as the app leaves it: no list has a repetition, items belong to
  one user, users are on their own list, lists are not the empty array. `SignUpVC` writes records of this kind; `MCProfile`, `MCPeopleSearch` and
  `MCUserPage` have only such databases, complete, cut short or empty, so the conditions are satisfied where the runs explore.
- `InOrder`: answers come in the order of the requests, where a property speaks of one screen's result.
- `NoTorn` (`PromisesHold`, `SeenRecovered`, `AckedRecovered`): no record of a log is written in part. It is needed, see the findings; all other faults
  may happen. `MCBudgets` satisfies it. The other theorems of the store do not need it.
- `OneObjectEach` (`LockIsEnough`): a program makes one `DB` object for a directory, as `db.h` asks.

What else the properties assume is in their definitions: `RowsMatchSearch` leaves out an answer that comes after the text (`early`: the filter is then ignored
until the next key), `TitleIsRight` and `FollowedIsStored` two records with one email, `RecordsMatchForms` and `HomeStaysMine` users who edit a form or go to another screen while a
call is in flight. The code does not prevent any of these.

Proving showed three mistakes in the models that the runs had not, and they are mended: `EmailsDiffer` asked that *every* user have a profile, so that
`TitleIsRight` said nothing while a sign-up was under way; the last write of somebody's sign-up (`Arrived`) could replace a record that was complete before; and a new
item's key was only fresh for the device that made it (`AddItem` of the feed), where `childByAutoId` never gives one out twice.

### What is only model-checked

- Liveness (`SavedIsShown`, `FollowedIsStored`, `WritesReturn`, `MemtableIsFlushed`, `Settles`, `WorkIsRun`): out of reach of the provers.
- `VersionSet`, `LRUCache`, `TableCache`, `LogFile`, `Repair`, `Table`, `Block`, `DBIterator`, `Pb`: what they compute is defined by folds or recursion
  over data, and their invariants need induction over it.

## Not modelled, and why

- Display screens, cells, colours; `CurrentUser.swift` is dead code; `UserVC.follow` is connected to no control of the storyboard.
- Tabs are not composed into one device: each screen is checked with the writes of the others, not with their state.
- The items table of `UserCopyVC`, which is that of `UserVC`; passwords, alerts and the display name of an account.
- leveldb: `DestroyDB` (it deletes LOCK after unlocking it), `Prune` of a cache, damage of an index block,
  snappy (not compiled in), a rename that fails in `ArchiveFile`, the C bindings, statistics. The bytes of a MANIFEST are only in `VersionEdit` and `Repair`.
- nanopb with `PB_ENABLE_MALLOC` (not set, `nanopb.xcconfig:2`).
- Binary frameworks, `GTMSessionFetcher`, `GoogleToolboxForMac`, `SDWebImage`: they have no part in what the app or the store keeps.
