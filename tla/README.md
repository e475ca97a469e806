# A TLA+ model of the Instagram clone

The repository is an iOS app (`instagram/instagram/`, about 3,000 lines of Swift)
on top of the Firebase SDK (`instagram/Pods/`). Users sign up, follow each other,
publish photos and see the posts of those they follow. There is no server code:
every rule about the shared data is carried out by the clients, as separate
database writes started from callbacks. The pods carry a storage engine with hard
rules of its own, leveldb, which Firebase's persistence is built on. This directory
models that behaviour, checks it with TLC on small instances and proves with TLAPS
that every safety property holds for every number of users, posts and views, and of
keys, writes, levels, files, crashes and snapshots.

## Inventory

| Component | State | Operations | What is hard |
|---|---|---|---|
| Follow relation and feeds (`model/User.swift`) | `user-following`, `user-followers`, `user-feed`; one leaked observer per tap | `follow`, `unfollow`, the `childAdded` blocks | two copies of one relation, kept by two writes; old observers keep editing the feed |
| Publishing (`UploadPostVC.swift`) | `posts`, `user-posts`, `user-feed`; a chain of callbacks per post | `handleUploadPost`, `updateUserFeeds` | silent early returns, an ignored error, sign-out or death in the middle, a fan-out that races unfollows on other devices |
| Firebase write path (`FRepo.m`, `FPersistentConnection.m`) | `outstandingPuts`, unanswered requests | `put`, `sendPut`, `ackPut`, `onDisconnect`, `restoreState` | writes already applied are sent again; nothing survives the process |
| Photo picker (`SelectImageVC.swift`) | `images`, `assets`, `selectedImage`, the header's picture | `fetchPhotos`, data source methods, taps, Next | arrays filled on a background queue while the main thread reads them; late pictures |
| Session (`SceneDelegate`, `MainTabVC`, `LoginVC`, `SignupVC`, `FeedVC.handleLogout`) | current user, loaded tabs, presented screens, the form | launch, login, sign-up, logout | requests overlap; answers arrive after the user went elsewhere; three steps create one account |
| Post lists (`FeedVC.fetchPosts`, `UserProfileVC.fetchPosts`, `Extensions.swift`) | `posts` on screen | `childAdded`, `fetchPost`, `fetchUser` | chains of reads overtake each other; only additions are observed |
| Follow buttons (`FollowLikeCell`, `UserProfileHeader`, tap handlers) | titles, `isFollowed` | `checkIfUserIsFollowed`, taps | reused cells, answers for the user shown before, taps racing reads |
| Image loading (`CustomImageView.swift`) | global `imageCache`, last URL per view | `loadImage` | reused views, downloads in any order, an unlocked global cache |
| User lists (`FollowLikeVC.fetchUsers`, `SearchVC`) | `users` | `childAdded` then a read | like post lists, unsorted; who unfollows stays on screen |
| Profile statistics (`setUserStats`) | labels of a reused header | a `.value` observer and a count per layout | observers pile up and write to headers that went back to the pool |
| Local store (`Pods/leveldb-library/db/`) | log, tables, manifest; memtables, versions, snapshots, the queue of writers | `Write`, `Get`, snapshots, the background compaction, `DB::Open` | group commit, files removed while others use them, crashes between any two steps, failing I/O, entries dropped while snapshots live |
| Layout, notifications, other vendored pods | none of their own | - | - |

The components meet in the database: `User.follow` on one device reads
`user-posts` that `UploadPostVC` writes on another, `updateUserFeeds` reads
`user-followers` that `User.follow` writes, and the lists show what both leave in
`user-feed`. On one device they meet on the main queue, on Firebase's worker queue
and in `Auth.auth().currentUser`. What must hold: the two copies of the relation
agree, no list names a post that does not exist, a settled feed is what the
relation says, every upload and sign-up ends, nobody sees the tabs of somebody
else, screens end up showing what the data says, the local store keeps and shows
what it has acknowledged.

leveldb stands apart: Firebase opens it (`FLevelDBStorageEngine`) only when
persistence is enabled, which this app never does. It is modelled because it is the
part of the shipped program with the most demanding concurrency and recovery code.

## Modules

| Module | Models | Runs |
|---|---|---|
| `FollowFeed` | following, publishing, feeds, the write queue and connection, on all devices together | `follow`, `publish` |
| `FollowRelation` | abstract specification: one relation that is as the follower's last tap says | (property of `follow`) |
| `FollowFeedProofs` | theorems about `FollowFeed`: publishing; the relation and its refinement; the feeds | - |
| `PhotoPicker` | `SelectImageVC` and the visible part of `UploadPostVC` | `photo_picker`, `photo_picker_last_broken` |
| `Session` | launch, login, sign-up and logout on one device | `session`, `session_signup` |
| `FollowButton` | a list's reused cells and a profile header | `follow_button` |
| `ListScreen` | one screen of posts or users, with the profile's statistics | `lists` |
| `ImageView` | reused image views over the cache | `image_view` |
| `PhotoPickerProofs`, `SessionProofs`, `FollowButtonProofs`, `ListScreenProofs`, `ImageViewProofs` | theorems about the module of that name | - |
| `LevelDB` | leveldb's way from `Write` to the disk, and recovery | `leveldb` |
| `LevelCompaction` | leveldb's levels: reads, snapshots, merges | `level_compaction`, `level_compaction_split` |
| `LevelDBProofs`, `LevelCompactionProofs` | theorems about the module of that name | - |

Each `MC*` module only names the model values and the bounds of its runs. In every
module an action carries the name of the handler, callback or library step that it
models, and models all of it; where a handler waits for a callback the rest is an
action of its own. Operators marked "Mutant" are plausible wrong versions of the
definition below them. They are used by no specification: put in the place of
that definition they show that the properties notice.

### FollowFeed

The database is a set of paths; every leaf the handlers write is the constant 1 or
a complete post, so existence is all there is to a path. Every account is used on
one device, so clients are named by accounts.

* `follow` and `unfollow` queue their two writes and append an observer to
  `observers[c][u]`. Observers are never removed. `userPostsChildAdded` calls the
  next one, in order of registration, for a post the client has heard of
  (`heard`); its write edits the tapper's own feed.
* `handleUploadPost`, `putDataDone`, `downloadURLDone` and `postCompletion` are the
  chain of `UploadPostVC`; `storageFailed` is its error returns. `postCompletion`
  ignores the error and looks at the current user only then, as
  `updateUserFeeds` does. `userFollowersUpdate` brings the children of
  `user-followers` to the observers that `updateUserFeeds` leaves behind, and
  `followerChildAdded` is the body of those.
* `outstandingPuts` is the queue of `FPersistentConnection`. The server answers in
  order (`serverAccepts`, `serverRefuses`), `ackPut` takes the oldest answer, and
  `onDisconnect` loses the answers, so that every queued write is sent, and
  applied, again. Persistence is never enabled: `processDeath` loses the queue,
  the caches, the observers and the uploads.

`torn`, `unposted` and `fanned` are history: the pairs whose last tap was cut short,
the posts whose record was refused, and the feeds a fan-out has written. They only
appear in properties, to say which failures the code does not promise to survive.

`FollowRelation` is what `follow` and `unfollow` promise: one relation that is
as the follower's last tap says, changed by `Follow`, `Unfollow` and, when a client
fails, by `Cut`, which may leave the client's own pairs, marked as torn, either way. `FollowFeed` implements it with
`rel` mapped to the pairs that will be stored once the queued writes are accepted
(`FollowersRel` reads them off `user-followers`) and `lastTap` to the newest observer
of a pair. Writes that are sent again, and old
values that come back for a while, are stutters of the abstract specification.

### PhotoPicker

`nextStep`, `appendImage`, `appendAsset`, `selectFirst` and `finishPhoto` are the
block of `fetchPhotos`, interleaved statement by statement with the main thread:
`layout` (all data source methods), `scrollToHeader`, `didSelectItem`, `headerImage`
(a result of `requestImage`, in any order, possibly a first low-quality one), and
the buttons of both screens. The arrays have no lock: `readDuringAppend` is the
crash that a read in the middle of an append may be. There is one header view, and
photos are distinct. `assets[index]` can be out of range: when the user taps the newest
thumbnail and the header is laid out before its asset is appended. `HeaderInRange`
says that this is the only way.

### Session

The tabs capture the current user when they load: the feed when its `MainTabVC` is
built, the profile when it is first selected. Auth sets the current user on its own
work queue (`updateCurrentUser`, `accountCreated`) and queues the completion block on
the main queue; the user may log out, select a tab or start another request before
it runs. `signInDone` installs a new `MainTabVC` for whoever is signed in by then;
UIKit releases the old root with whatever it presented. `createUser` may make the
account and still answer with an error, or its answer may be lost with the process
(`signUpFailed`, `processDeath`): such an account stays without a record, and
`AccountsRecorded` says that only those do. `saveUserDone`
finds a `UINavigationController` as the window's root, fails to cast it to
`MainTabVC` and leaves the tabs. The login form's button is enabled exactly while
both fields have text, so filling it in is part of `handleLogin`; the sign-up form
is modelled, because choosing a photo does not validate it: a complete form may stay
disabled, and a form whose photo was withdrawn enabled. No property is stated of
that, as the code gives no guarantee and no comment claims one.

### FollowButton

Firebase's worker queue and the main queue are FIFO. A tap writes on the worker
queue; a check adds an observer there, gets its snapshot (`snapshot`) and answers on
the main queue (`checkDone`) to the cell that asked, whoever that cell shows by
then. `doubtful` is history: the buttons of a user who was tapped elsewhere, or
tapped while a check was under way. User records carry all three fields, so
the guards of `FollowLikeCell` pass.

A check that was under way when the user tapped answers with the value of before
and overwrites the title; `ButtonTruthful` leaves out the doubtful buttons for that
reason. `NoSelfFollow` is about the button that is hidden for the current user and
never shown again: no order of displays and taps leads to a user following themself.

### ListScreen

Each id added to the observed list starts a chain of reads (`childAdded`,
`recordRead`, `ownerRead`); a chain ends with append, sort and reload in one step on
the main thread. Which chain it is depends on the screen: posts are read and then
their owner, followers are read, and the search gets its users with their records.
Swift's `sort` promises no stability, so `Sorted` is a set. `layout` is the
collection view asking for its rows; on the profile it dequeues a header, any one of
the pool, and `setUserStats` adds an observer of `user-followers` that is never
removed and counts `user-posts` once. Observers and reads are started on the worker
queue and answer on the main queue, both FIFO.

### ImageView

`loadImage` runs on the main thread, `taskDone` on the session's serial callback
queue, `setImage` on the main queue again. The cache is a plain dictionary:
`readDuringWrite` is the crash that the race may be.

### LevelDB

The variables are the disk (logs with the number of their synced records, tables,
the manifest with the records that are not sure to be found), the callers of `Write`
and `DBImpl`'s own fields. A record of the manifest carries the version that a
manifest ending with it leads to, instead of the edit alone: what `DB::Open` builds
by applying edit after edit is then the version of the last record it keeps. The mutex is not a variable: what the code does while it
holds the mutex is one step, and every place that releases it (logging a group,
building a table, merging, writing the manifest) is a step of its own.

* `Write` queues; the writer in front sleeps, refuses, switches memtables
  (`MakeRoomForWrite`) or builds a group and logs, syncs and inserts it.
* The background thread flushes `imm_` (`CompactMemTable`, `BuildTable`), also in the
  middle of a merge, moves or merges tables (`PickCompaction` up to
  `InstallCompactionResults`), and records each edit (`LogEdit`, `InstallEdit`).
  `DeleteObsoleteFiles` is part of the steps that call it.
* `*Fails` are failing file operations with what the code does about them.
  `processCrash` keeps what was written, `machineCrash` cuts every log and the
  manifest anywhere behind their synced part; both also strike during `DB::Open`
  (`Recover`, `RecoverLogFile`, `NewLogAtOpen`, `Opened`).

A table is the set of the writes it holds or hides. A failed append always leaves a
`Torn` record: either a part of it is in the file, or nothing is and
`EmitPhysicalRecord` (`log_writer.cc:106`) has counted its bytes all the same, so that
later records no longer lie in the blocks that `log::Reader` reads. Leveldb reports
the failed write and goes on. `Hidden` are the writes behind such a record; the reader
may find them or drop them, acknowledged and synced or not, and `SyncedDurable` and
`AckedKept` do not speak of them. After a crash they are no longer counted as
acknowledged, so `AckedVisible` does not either.

The manifest is written by the same code. After a failed manifest write a merge may
still append further records behind the one that failed. The next `DB::Open` may find
them, take the file for ended at any record from there on (`Ends`), or report
corruption (`db = "corrupt"`), where the model stops; the properties hold for every
version that it can find. `PickCompaction` merges level-0 tables into one output;
deeper levels and outputs that are cut are in `LevelCompaction`.

### LevelCompaction

The levels as sets of tables, a table as the set of its entries (user key, sequence
number, deletion or value). `Get` looks in the memtables and level by level, as the
code does. `CompactMemTable` puts a table in one of the levels that
`PickLevelForMemTableOutput` allows, `PickCompaction` with `SetupOtherInputs` chooses
the inputs, `DoCompactionWork` drops entries by the smallest snapshot and
`IsBaseLevelForKey` as of the version the merge began with. Where the code compares
byte counts with limits both outcomes are taken. The loops of `GetOverlappingInputs`
(which starts again when a table of level 0 widens the range) and of
`AddBoundaryInputs` are the least sets of tables that are closed under the step of
the loop.

## Runs

All passing runs finish within three minutes with two workers.

| Run | Instance | States | What it shows |
|---|---|---|---|
| `follow` | 2 users, 1 post, 3 taps; a death, refused write or broken connection of the follower | 1,400,978 | `FeedComplete`: a settled follower has the post, whatever the old observers did. `StaleOnlyByFanout`: after an unfollow only the owner's fan-out can leave a post in the feed. `RelationSymmetric`. `FollowersRefines`: `user-followers` implements `FollowRelation`. |
| `publish` | 1 post, 2 taps of a follower; a death, refused write, broken connection or sign-out of the owner | 93,280 | `NoDanglingPost`, `TypeOK`; `UploadSettles`, `FanoutDelivered`, `FollowerFed`. |
| `photo_picker` | 3 photos, the second without a thumbnail, 2 taps | 428,464 | `HeaderInRange`, `HeaderShowsSelection`, `SharedWasSelected`, `GridComplete`. |
| `photo_picker_last_broken` | 2 photos, the last without a thumbnail | violated | `GridComplete` fails: the reload is queued only for a photo with a thumbnail. |
| `session` | 2 accounts, 1 of them new, 1 login in flight each, 2 completion blocks, 1 death | 231,397 | `LoginCovers`, `TabsOwned`, `AccountsRecorded`, `SignupSettles`. |
| `session_signup` | the same with 1 completion block and without deaths | violated | `TabsConfiguredForNewAccount` fails: after a sign-up the tabs loaded before are shown. |
| `follow_button` | 3 users, a cell and a header, 3 displays, 2 taps | 147,946 | `ButtonTruthful`, `TapAsLabelled`, `NoSelfFollow`, `ButtonLoads`. |
| `lists` | each of the screens; 4 ids: two good, one of them added twice; one without record; one without owner; 2 headers | 163,796 | `ShownPerAdd`, `StatsCounted`, `ListedIsShown`. |
| `image_view` | 2 views, 2 URLs and a string that is none, 4 loads | 29,977 | `ImageSettles`. |
| `leveldb` | 2 threads, 3 writes, two of them synced; 2 crashes, or a crash and a fault or a reader | 1,007,110 | `SyncedDurable`, `AckedKept`: nothing acknowledged is lost, but for writes behind a failed append to their log. `AckedVisible`: it is visible, with a sequence number of its own. `NeededExist`: no needed file is removed. `WritesReturn`. |
| `level_compaction` | 2 keys, 3 levels, 4 writes, 1 snapshot at a time, any number of times | 1,012,722 | `LevelsOrdered`; `ReadsCorrectUnsplit`: reads are right unless a merge has divided the entries of a key, and even then no live value is lost. |
| `level_compaction_split` | the same | violated | `ReadsCorrect` fails: a deleted key is read again. |

**Bounds.** Two users suffice for the relation and the feeds: every path and every
write concerns one pair, and no handler relates two pairs (the theorems below do not
depend on it). Three taps are follow, unfollow, follow, the shortest sequence in
which observers of both kinds precede the one that must win. Overlapping uploads of
one user are beyond the run `publish` and covered by the theorem `PublishSafe`.
`MaxTrouble` bounds the faults, crashes and broken connections of a run together.
Three photos have a first, an inner and a last one. Three displays let a cell be
reused while the answers for two earlier users are under way. Two views and four
loads let a view be reused twice while another one fills the cache.

In `leveldb` a memtable is full after one write and level 0 with one table, so three
writes give a flush during a merge, a writer that waits for `imm_` and one that
waits for level 0, and groups of synced and unsynced writes. A recovered log becomes
one table. In `level_compaction` four writes give a value and its deletion on one
key, a second key that makes tables overlap, and a snapshot between them; three
levels are a merge's two and one below. An output is cut at most once. Four writes
are too few for the expansion of level-0 inputs to go on over three tables, and one
live snapshot for a merge to choose the smallest; the theorems about
`LevelCompaction` cover both.

**Deadlock** is switched off, except for `Session`, because bounded taps, loads,
writes and additions end all activity: a settled system may stop.

**Fairness.** `FairSpec` is weak fairness of callbacks, queues and answers. Storage
calls give up after a retry limit (`maxUploadRetryTime`), so an upload gets an
answer or an error; the database server answers what it is sent once the connection
stays up, and `MaxDrops` bounds how often it breaks. In `LevelDB` it is weak fairness
of the writer in front, of the background thread and of `DB::Open`: each is a thread
that runs, and only its own steps. Nothing is assumed of the user, of readers, of
faults or of disconnections: taps, sign-outs, deaths and refusals are never fair.

### Disagreements between code and comments

1. `SelectImageVC.swift:179` says "reload collection view with images once count
   has completed". If the last photo has no thumbnail the block that tests the count
   is skipped, and the grid keeps the number of items of its first layout.
2. `SignupVC.swift:240` says "configure view controllers in maintabvc". The
   window's root is never a `MainTabVC`, so the feed remains the one
   that was loaded without a user, or for the previous user.
3. `db_impl.cc:955-958` says that older data in the layers being compacted "will be
   dropped in the next few iterations of this loop (by rule (A) above)", so that a
   "deletion marker is obsolete and can be dropped". `SetupOtherInputs`
   (`version_set.cc:1410`) adds boundary files to the inputs of its level but not to
   those of the next one. When a live snapshot makes a merge keep a value and its
   deletion, and the output is cut between them, a later merge can take the table with
   the deletion only, drop it, and leave the value.

## Theorems

Every theorem holds for every value of the constants, from the named assumptions of
the modules alone: all sets of users, posts, ids, views, cells and photos and all
bounds on taps, loads, logins and faults, all numbers of keys, levels, writes, files,
crashes and snapshots, not only the instances of the runs. Every safety property
that a passing run checks is proved.

| Module | Theorem | States |
|---|---|---|
| `FollowFeedProofs` | `TypeCorrect`, `PublishSafe`; `RelationSafe`, `FollowersImplement`; `FeedsComplete`, `OnlyFanoutIsStale` | `TypeOK`, `NoDanglingPost`; `RelationSymmetric`, the refinement `FollowersRefines`; `FeedComplete`, `StaleOnlyByFanout` |
| `SessionProofs` | `TypeCorrect`, `LoginAlwaysCovers`, `TabsSafe`, `AccountsSafe` | `TypeOK`, `LoginCovers`, `TabsOwned`, `AccountsRecorded` |
| `PhotoPickerProofs` | `TypeCorrect`, `HeaderSafe`, `SharedSafe`, `HeaderSettles` | `TypeOK`, `HeaderInRange`, `SharedWasSelected`, `HeaderShowsSelection` |
| `FollowButtonProofs` | `TypeCorrect`, `SelfSafe`, `TitlesTruthful`, `TapsAsLabelled` | `TypeOK`, `NoSelfFollow`, `ButtonTruthful`, `TapAsLabelled` |
| `ListScreenProofs` | `TypeCorrect`, `NoneLostOrDoubled`, `StatsSafe` | `TypeOK`, `ShownPerAdd`, `StatsCounted` |
| `ImageViewProofs` | `TypeCorrect`, `ImageSafe` | `TypeOK`, `ImageSettles` |
| `LevelDBProofs` | `StoreTypeCorrect`, `SyncedWritesDurable`, `AcknowledgedKept`, `AcknowledgedVisible`, `NeededFilesExist` | `TypeOK`, `SyncedDurable`, `AckedKept`, `AckedVisible`, `NeededExist` |
| `LevelCompactionProofs` | `LevelTypeCorrect`, `LevelsStayOrdered`, `ReadsStayCorrect` | `TypeOK`, `LevelsOrdered`, `ReadsCorrectUnsplit` |

Hardly any of these properties is inductive: they speak of what is on screen or in
the tree once things are quiet, and are silent about what is still queued. The
inductive invariants say where the truth is meanwhile. They were checked with TLC
before they were proved.

* **Publishing** (`PublishInv`). Each write is tied to the phase of its upload: the
  posts write is queued once, by the owner, only while the upload waits for it
  (`PostWriteOnce`); once answered "ok" it is in the tree (`PostWriteApplied`), so a
  completed upload is stored or was refused (`CompletedIsStored`); and nothing that
  names the post exists, in the tree or in any queue, before completion
  (`ListedIsCompleted`). Writes that are sent again keep it because nothing ever
  removes a post.
* **The relation** (`RelationInv`). While writes are queued the copies differ, and a
  re-sent old write undoes a newer one for a while. The invariant therefore speaks
  of `Settled`, what a path will be when the queue has been accepted: both copies
  will be the same (`SettledSymmetric`). That needs to know that only a client itself
  writes its half (`OwnRelationWrites`), and that the last accepted write on a path
  is what the tree shows (`LastAcceptedShows`), so that taking it off the queue
  changes nothing.
* **The refinement.** `FollowersRel` is the set of settled `user-followers` paths. From
  `RelationInv` every step is shown to be a `Follow`, an `Unfollow`, a `Cut` or a
  stutter of `FollowRelation`: a tap settles its own pair and no other, a refused
  write or a death moves only the client's own pairs and marks them as torn, and
  everything else, re-sent writes included, moves none.
* **The feeds** (`FeedInv`). Every path of a client that has not failed is `Tracked`:
  its queue will leave there what it last decided, by its last tap
  (`TappedFollow`) or by the last of its observers that was called for the post
  (`WantsPost`). In its feed others interfere, so the invariant is lax there in one
  direction: a post may be there although it is not wanted, once a fan-out has been
  made to that feed (`MayBeGiven`). `QueuesPermitted` says that nothing else comes
  from others: no queue holds a removal from another's feed, or a write on another's
  following list. `ObserversSane` keeps calls behind registrations.
* **Sessions** (`SessionInv`). `TypeOK` alone is not inductive, because the profile tab
  takes whoever is the current user: that somebody is signed in whenever a tab can
  load is `LoginCovers`. That needs `ScreensFit` and `ShownIsSignedIn`, since the end
  of a sign-up dismisses a screen long after it was opened.
* **Photo picker** (`PickerInv`, `HeaderFollows`). The thumbnails are in the order of
  the fetch and so distinct (`Increasing`); `assets` is a prefix of `images` that is
  short by one exactly in the middle of a photo (`InStep`); the first selection has
  its asset. `HeaderFollows` orders the unanswered requests behind the answered ones.
* **Follow buttons** (`SelfInv`, `ButtonInv`). The last check of a button is in the
  worker queue behind every write about its user, or waits, or has been answered
  with what the client holds, or is through and title and queued writes agree
  (`Tracks`). `SelfInv` keeps the current user out of all queues: his cells are hidden
  and his header has no check that could overwrite "Edit Profile".
* **Lists** (`RowsInv`, `StatsInv`). `ShownPerAdd` counts an id through all stages of
  its chain; the proof needs that append and tail change the count of one id by one
  and that a sort changes none. For the statistics, the answers under way to a header
  end in an acceptable number (`Settles`), and as nothing leaves the list of a
  profile (`ProfileGrows`) its rows are no more than its list.
* **Images** (`ImageInv`). The picture a view wants is being downloaded, or is the last
  assignment queued for the view, or is shown (`OnItsWay`).

* **The store** (`IInv` of `LevelDBProofs`). A crash can come between any two steps and
  lead `DB::Open` to any version of the manifest that is not yet superseded for sure, so
  the properties are stated of every such version (`Manifested`): its tables are there,
  it leads to everything acknowledged in them and in the logs it still needs, and its
  counters are ahead of all file and sequence numbers in use (`Numbers`, `Sequenced`).
  The last of them holds all that the current version holds (`Ahead`): an edit that
  failed after it was written is in the manifest and not in memory, never the other
  way round. What the
  background thread has half done is tied to that: the output of a merge holds what
  its inputs hold and is protected from removal (`Merging`), the table of `imm_` holds
  `imm_` (`Flushing`), and the edit being recorded replaces files by others with the
  same writes (`Editing`). Without an error the manifest says what the current version
  is (`Clean`); with one, files that only the manifest names must be kept, which is why
  `NeededExist` is not inductive alone. On the side of the callers, the group is the
  front of the queue and is logged, and synced if a member asked for it, before anybody
  is told (`Queued`, `Memory`). `Recovering` and `Quiet` say the same of `DB::Open`,
  which may be cut short, too.
* **The levels** (`IInv` of `LevelCompactionProofs`). `LevelsOrdered` is kept by a merge
  only if its inputs were chosen well and still fit when it ends, although memtables
  were flushed in between. `Mergeable` says what "well" means: of the keys of the
  inputs only newer entries stay in their level, the tables that stay in the next
  level lie before or behind all of them, and there is no gap between the inputs
  (`Covered`) into which a memtable could be flushed. That `SetupOtherInputs` finds
  such inputs is the longest part of the proof, for the closure in level 0 and for
  boundary files below it (`InputsMergeable`). For reads, `Answered` says that what was
  written last is stored, or is a deletion and nothing older of its key is: a merge
  drops a deletion only if every older entry is among its inputs, since deeper levels
  had none when it began and what has come below since is about other keys
  (`Merging`). This is where a divided key breaks the argument (`Whole`), the third
  disagreement above. That `Get`, which stops where it finds something, finds the newest
  entry that is stored is `GetNewest`, from the order of the tables of level 0
  (`ZeroOrdered`), of the levels (`Deeper`) and of tables in a level (`Apart`).

Both proofs need the least or the greatest element of a set of numbers. They take it
from the theorem that every set of naturals has a minimal element (`WFMin`), which
stands in for induction.

What is only model-checked is liveness (`UploadSettles`, `FanoutDelivered`,
`FollowerFed`, `GridComplete`, `SignupSettles`, `ButtonLoads`, `ListedIsShown`,
`WritesReturn`): the prover does not reason about fairness and `ENABLED`.

## Not modelled

* Layout and appearance of views, `FeedCell`'s buttons (their handlers only print),
  `NotificationVC` (template code), the commented-out parts.
* The Firebase SDK beyond the write path and event delivery: transactions,
  `onDisconnect` operations, priorities, persistence (never enabled), and the merge
  of local and server data. No handler of `FollowFeed` observes a path that the same
  client writes; the lists of `ListScreen` and the relation of `FollowButton` are
  what the client sees, its own writes included. A refused write that the client
  reverts, and a read that is cancelled, are not seen there.
* Of leveldb: the formats of blocks, tables and records, caches and iterators,
  `CompactRange`, `reuse_logs`, `paranoid_checks`, creating and repairing a database, and
  closing it. A version is the set of its tables in `LevelDB` and levels of entries in
  `LevelCompaction`; the two are not composed.
* Other pods (Protobuf, nanopb, the session fetcher, messaging): third-party
  libraries the app never calls itself.
* One account on two devices, and two accounts in turn on one device, in
  `FollowFeed`.

## Plan

1. Accounts apart from devices in `FollowFeed`: `updateUserFeeds` takes the current
   user after two network waits, who may be somebody else by then.
2. A composition of `FollowFeed` with `ListScreen`: what the home screen shows after
   follows, unfollows and publications.
3. `LevelDB` and `LevelCompaction` as one: the versions that are recovered, with their
   levels.
