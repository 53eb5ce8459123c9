# Verification of the Belgian eID test infrastructure

This directory holds TLA+ models of the Belgian eID test infrastructure (the
repository beside it), the TLC configurations that check them on small
instances, and proofs that TLAPS checks for every value of the constants.

The system lets an application that uses a smart card through PC/SC work with
*virtual* Belgian eID cards. A proxy library stands in for the PC/SC library
(`winscard.dll`, `libpcsclite`). For each real reader it shows a second, virtual
one; a card in a virtual reader answers the commands that read data from an XML
file, and passes all other commands on to the real test card. A control file
says which virtual card goes with which real card and which readers are shown; a
Java tool edits it.

## Inventory

| Component | Code | State | Operations | Hard behaviour |
|---|---|---|---|---|
| Recursive mutex | `eidtestinfralib/Mutex.cpp` | the POSIX mutex, its owner, a count | `Lock()`, `Unlock()`, `CAutoMutex` | the owner is read without the mutex |
| Card thread pool | `pcscproxy/WinscardImpl.cpp:629-764` | entries (reader, thread, handle, counter) | connect, disconnect | threads share one handle; calls that fail half-way |
| Transaction | `pcscproxy/Transaction.cpp` | `cnt`, `isJustStarted`, a system mutex named after the handle and `clock()` | `aquire()`, `release()`, `justStarted()` | `cnt++` of several threads; who unlocks; waiting |
| Soft card session | `WinscardImpl.cpp:73-334, 524-625`, `SoftCard.cpp` | loaded data, selected file, who answered last | begin, end, transmit, load | two cards to keep in step; a card that fails; other applications |
| Virtual card commands | `SoftCard.cpp:223-423`, `FileStructure.cpp`, `Carddata.cpp` | tree of files, selected file, rest of an answer | SELECT FILE, READ BINARY, GET CARD DATA, GET RESPONSE | byte counts at their limits, stale rest |
| Reader list | `SoftReaderManager.cpp`, `SoftReader.cpp`, `Control.cpp` | soft readers and their cards, visibility | list, connect, look-up, disconnect | readers come and go; pointers used after a lock |
| Status calls | `WinscardImpl.cpp:262-522` | none | status, status change, attributes, control | a blocking call between two look-ups |
| Control file access | `pcscproxy/Control.cpp` | one buffer for the file | visibility, the card file of a chip | another program writes the file |
| Control tool models | `ControlModel.java`, `PropertyModel.java`, `Main.java` | file, backup, original and active control | edit, save, reload, choose a file | failures and crashes in the middle of a save |
| Control tool window: saving | `gui/SaveAction.java`, `ReloadAction.java`, `ExitAction.java`, `MainSession.java`, `DefaultActionMap.java` | list of items, enabled actions, a thread per action | set, save, reload, leave | settings changed while another thread saves or reloads |
| Control tool window: readers | `gui/CardReaderMonitorImpl.java`, `CardReaderMenuUpdator.java`, `CardUnblockAction.java` | `run`, `exit`, the status reported last, the menu, the reader to unblock | start, pause, resume, stop, unblock a card | threads, call-backs, time-outs |
| Helpers | `Logger.cpp`, `xml.cpp`, `virtualCardAccess.cpp` | log level | parse, format | none |
| Glue and tools | `pcscproxy/linux`, `windows`, `extra_tools`, `gen_virtual_cards` | none | forwarding, batch programs | none |

An application calls the exported functions from any of its threads; they end in
one `WinscardImpl`. It looks up the `SoftCard` of a handle through
`SoftReaderManager` and `SoftReader`, calls the real PC/SC library with the real
handle, and then the `SoftCard` with its `Transaction`. Connect and disconnect
go through the card thread pool. The control file is the only thing the proxy
and the Java tool share.

What makes a component correct:

- *Recursive mutex*: one thread inside, nested as it likes; nobody waits for
  ever once the holder leaves. Everything below that says "under the mutex"
  rests on it.
- *Card thread pool*: a handle an application has is connected, to the reader it
  asked for, until that application disconnects it, and is given back
  afterwards.
- *Transaction*: what a thread does in a transaction no other thread interrupts;
  after the last end, nothing is left locked, counted or marked.
- *Soft card session*: the virtual card is in a transaction only inside one of
  the physical card; the selection of the physical card is moved to load the
  data of the virtual card and once a transaction; a command the physical card
  executes finds there the file that was selected on the virtual card; the rest
  of an answer comes from the card that has it.
- *Virtual card commands*: answers fit, say the right length, and a long answer
  comes whole and in order; a search finds the file the real card would.
- *Reader list*: each real reader that may be shown, and its virtual twin, is in
  the list once, in the order the control file asks for, and the list fits;
  nothing is used after a list or a disconnect has deleted it.
- *Control file access, status calls*: a list shows what the control file says
  when it is made; a status call answers for each virtual reader what the
  library answers for its real one.
- *Control tool models and saving*: a setting that was made is in the file when
  all is done; a crash at any step leaves a control that had been saved.
- *Readers in the window*: the menu shows the cards there are; a card is
  unblocked while nobody else watches the readers, and in the reader that was
  clicked; an unblock, and the exit, come to an end.

## Modules

| Module | What it is |
|---|---|
| `ReentrantLock` | abstract: a lock its holder may take again |
| `RecursiveMutex` | `CMutex`; implements `ReentrantLock`; its proofs end `ReaderListProofs` |
| `HandleSharing` | abstract: what connect and disconnect promise about handles |
| `CardThreadPool`, `CardThreadPoolProofs` | the pool and its two callers; implements `HandleSharing` |
| `SoftTransaction`, `SoftTransactionProofs` | `Transaction` under `SoftCard`, threads interleaved; proved to implement `ReentrantLock` |
| `CardSession`, `CardSessionProofs` | one connection: virtual card, physical card, other applications |
| `FileStructure` | operators: the tree of files and the searches in it |
| `SoftCardCommands`, `SoftCardCommandsProofs` | the commands a virtual card answers |
| `SoftConnections`, `SoftConnectionsProofs` | soft readers and soft cards above the pool, threads interleaved; implements `CardThreadPool` |
| `ReaderList`, `ReaderListProofs` | lists of the readers, their order and lengths, and status calls |
| `AtomicSave` | abstract: what a save promises of the file and its backup |
| `ControlTool`, `ControlToolProofs` | the control tool and its file; implements `AtomicSave` |
| `CardReaderMonitor`, `CardReaderMonitorProofs` | the monitor thread, the menu and the unblock action |
| `MC*.tla`, `MC*.cfg` | the instances TLC checks |

Definitions keep the names of the source. A definition whose comment begins with
*Mutant* is a wrong version of the one after it; no specification uses it. Each
property is broken by one of these, which shows that the run reaches the case
the property is about.

### RecursiveMutex

`m_Mutex` is the pthread mutex, `m_MutexOwner` and `m_MutexLockcount` are the
fields. `pc` says where a thread is in `Lock()` or `Unlock()`, `depth` how many
`CAutoMutex` objects it has. One step is one access to memory that another
thread can see, because `Lock()` compares the owner **without** holding the
mutex (Mutex.cpp:61). Reads and writes of the owner are atomic in the model: it
is a machine word in the POSIX build. The WIN32 branches call a critical section
of the operating system and are left out.

### CardThreadPool

`readerThreadHandles` is the vector of entries, as a set: the proofs show that
no two entries have one reader or one handle, so the order never matters.
`handle` and `szReader` are the application's variables, `connectedTo` and
`connectedBy` the PC/SC library. Both functions hold `cardThreadPoolMutex` from
beginning to end, so each call is one step, with the three ways it can end:
shared or counted down, done, failed.

### SoftTransaction

`cnt`, `isJustStarted` and `hMutex` are the fields of each `Transaction` and its
named mutex. `objectOf` says which thread uses which object: threads with a
`SoftCard` each, or threads that were given one handle and so share one.
`nameOf` says which objects have one mutex: the name contains the handle and
`clock()`, so two objects of one handle may or may not. `cnt++` and `cnt--` are
a load and a store. Applications begin, end and transmit in any order, but end
only what they have begun.

### CardSession

The two cards, the `Transaction` and what was answered last; the history
variables `pending`, `sent` and `synced` say what the application may rely on. A
call is one step: one application thread uses the connection (several are in
`SoftTransaction`). The physical card and the PC/SC library are **external** and
modelled by what the proxy asks of them: a selected file, whether the eID applet
is selected, and a number of transactions. Unless `Reliable`, a command fails
without effect, and a begin or an end may fail, nested or not. `loadSoftData()`
goes on when its begin has failed and ends a transaction in any case, that of
the application then: `overended` notes it, and `VirtualInsidePhysical` and
`StaysSynced` name it as their exception. `OtherApplication` moves the card to
any file or applet whenever this connection holds no transaction. Whether the
virtual card file is found is a choice (`DataNotFound` or not). `release` and
`aquire` are the sequential form of the calls `SoftTransaction` takes apart; a
`transmit()` is both in one step. What moves the selection of the physical card,
`OneSelectPerTransaction` says of every step: other applications,
`loadSoftData()` until the data is there (WinscardImpl.cpp:604, inside a
transaction or outside), and the first command of a transaction that is passed
on.

### FileStructure and SoftCardCommands

A file is its path. `searchId` is the recursive search, as a recursive function
over the tree; `FirstBelow` is the definition it is compared with. Bytes are
counted, not shown: the data of an answer is the position of its first byte and
how many there are, which is all that the lengths, the rest and the retries
depend on. `Le` 0 is 256, and casts to a byte are `% 256`. Requests that another
length byte or other parameters make invalid are `Refused`; a SELECT FILE whose
length byte promises more bytes than were sent is left out, because what it
reads is whatever lies behind the request. The conversion of a card file from
XML and hexadecimal is abstracted to whether it succeeds and what paths, sizes
and chip number it gives.

Three things the model has as the code has them, which a reader might not
expect: an answer with 256 bytes of data reports a length of 2 (`AnswerFits`
says so); the chip number is compared over 11 of its 16 bytes, because `len`
holds the length of the version numbers by then; and the rest of a GET CARD DATA
stays available after a later GET CARD DATA has been answered in full.

### SoftConnections

`softReaders` are the names in the manager's list, `softCards` all the
`SoftCard` objects, `call` says for each thread which call of the proxy it is in
and what it points to. A call is as many steps as it has look-ups and calls of
the library: a list of readers is two (`pSCardListReaders`,
`createSoftReaders`), so is a use of a card (`LookUpCard`, `UseCard`); a connect
is three (`LookUpReader`, `HardConnect`, `CreateSoftCard`), and so is a
disconnect. Between them other threads make and delete objects. `pool` is the
whole of `CardThreadPool`, instantiated: the middle steps of connect and
disconnect are its actions. A pointer whose object has been deleted is marked
(`gone`, card 0); what its use then does is undefined, and the model takes the
memory to have its old contents, or the process to stop. `causes` notes the
three ways in which a pointer can be lost, and each property says which of
them it excludes. A look-up is one step, under the mutex of the manager. A list
that deletes a SoftReader does more than that: the SCARDHANDLEs of its soft
cards lead to nothing any more, so that their users cannot give the hard handle
back. `HandlesReturnable` in the proofs says that this happens in no other way,
as long as the library gives no handle out too soon.

### ReaderList

A name is a number, with a length, and with a mark if its first letter is one
of those of the prefix; the numbers are in the order of the alphabet. The three
forms of `SCardListReaders()` are actions of their own; the list is made in a
second step, with the visibility that the control file has by then, or the
default where there is none or there was none at first. What the code does not
test is there: the length that was asked for without readers may be any, and
`SCARD_AUTOALLOCATE` without readers reads a null pointer, which ends the
program (`Crashed`).

A status call is taken apart at each use of a pointer. In both loops
`FindReader` looks the element's name up under the manager's mutex, and
`AddState` or `UpdateStates` uses the reader after that; `pSCardGetStatusChange`
comes between the loops and blocks. An entry of `realReaderStates` says where
its name is (`from`): with the caller, in a soft reader, or in a soft reader
that a list of another thread has deleted (`Mark`, `Freed`). Comparing with a
deleted name has any outcome (`MayBeSame`), and the library answers anything for
one. `moved` collects the readers that lists have made or deleted since the call
began. `StatusReported` names the two kinds of element this may reach: those
whose own soft reader came or went, and those before whose place a deleted name
stands (`Blurred`).

### ControlTool and AtomicSave

`file` and `backup` are a control, or missing, empty or a part; `active`,
`original` and `image` are the fields of `ControlModel` and what `save()`
marshals. `items`, `tree` and `enabled` are the session, the shown tree and the
action map. Each action of the window is a thread; a reload and the exit have
one each, the settings share a set of threads that save. The command line uses
the same actions from `checking` on, and never at the same time as the window.
A write may fail, and the tool be killed, at every step. `wanted` is what the
user asked for, and `cause` how it was first lost; both are history. Left out:
a failing conversion to XML (nobody looks at the files between it and the
backup), the order of the entries in the file, and which of the changes of a
save that ends with a `ConcurrentModificationException` took effect: it is
either none or all. Every chip has an item. `AtomicSave` maps `stored` to what
can be read back: the file, or its backup when the file is broken.

### CardReaderMonitor

`status` is what the library would answer, `terms` what the monitor reported
last, `menu` what the event dispatch thread has made of it and `events` the
`Runnable`s in between. `monitor` has a slot for each thread of the monitor:
`pause()` and `resume()` may leave two. `run` and `exit` are the fields that
`pause()` and the threads exchange, one step for each access. `unblocker` is
`CardUnblockAction.run()`, `daemon` its thread that talks to the card and may
never come back; `lock` is the monitor of the action, for which a click waits on
the event dispatch thread. `causes` notes the races that were lost. After the 15
seconds of the latch `run()` resumes the monitor, whether the daemon has found
its card or not, and does not stop it: it is then `late` or, when it is
connected, `overrun`, and the card is still being unblocked while the readers
are watched again. A click is not considered while both slots for an
unblock are in use.

## Runs

Run with `tlc -config X.cfg M` for a module `M` and its configuration `X`.

| Run | Distinct states | Shows |
|---|---|---|
| `RecursiveMutex` | 632 | exclusion, the count, no lost unlock, refinement of `ReentrantLock` |
| `CardThreadPool` | 54 452 | handles usable and not leaked, refinement of `HandleSharing` |
| `SoftTransaction` | 21 700 | one thread in a transaction, back to start, waiting threads go on |
| `CardSession` | 7 863 | nesting, agreement of the cards, routing of a rest, what moves the selection |
| `SoftCardCommands` | 54 571 | buffers, announced rest, retries, search order |
| `SoftConnections` | 1 275 399 | pointers kept, one card for each user, the right card found, refinement of `CardThreadPool` |
| `ReaderList` | 1 567 468 | lists fit their buffers and are in order, what a status call reports |
| `ControlTool` | 743 613 | settings reach the file, refinement of `AtomicSave` |
| `CardReaderMonitor` | 425 354 | the menu is true, an unblock is alone with its card and ends |
| `OneThreadConnects` | violation | two threads connect to one reader |
| `Unblocked` | violation | a thread waits for ever |
| `WithinTransactionSynced` | violation | a command is executed with the wrong file selected |

### Bounds

- `RecursiveMutex`: three threads (two can race at the unguarded comparison
  while a third is inside), two nested locks (the outermost and one that is
  not).
- `CardThreadPool`: three threads, four variables, two readers, three handles.
  Two users share, one has a connection of its own, and a third thread comes
  when either has left. The handles run out, which stands for a library that has
  no more.
- `SoftTransaction`: three threads with an object each and one mutex, two nested
  transactions: a thread inside, and two that wait and overtake each other.
- `CardSession`: three files on each card, two of them on both, and up to three
  transactions: one for the application, a second nested in it and one for
  loading. All calls may fail.
- `SoftCardCommands`: lists with a directory before and after its files, an id
  that occurs in two directories, a file made twice, an entry that cannot be
  parsed, and files below, at and above 256 bytes; requests for 1, 16, 28, 37
  and 256 bytes; buffers with no room for the status bytes, with room for just a
  part, and with room for all. The position in the card data takes every value
  these requests can reach.
- `SoftConnections`: two threads with a handle each, two readers, two hard
  handles 10 below their virtual ones, and two soft cards in all (`MaxCards`):
  enough for two threads to share a handle, for a list to delete a reader under
  a call, and for a handle to be given out again before its card is deleted.
- `ReaderList`: two threads, two readers with names of 3 and 5 letters of which
  the second begins with a letter of the prefix of 9, and two arrays of names: a
  virtual reader with its physical one, and two virtual ones. One status call at
  a time (`MaxStatusCalls`): the other thread lists, which is all that a status
  call can notice of another.
- `ControlTool`: two threads that save, a reload, an exit, two visibilities, one
  chip with one card file, and four events in all (`MaxEvents`: starts, actions
  of the user and failed writes). Two settings can overlap with a reload, or a
  save fail twice. Five events have been checked too (6.5 million states).
- `CardReaderMonitor`: two readers with a card each, two slots for threads of
  the monitor, two for unblocks, and three events in all (`MaxEvents`: status
  changes, clicks, failed calls and the exit): two unblocks and an exit, or a
  card that goes between a click and its unblock.

The only caps are `MaxDepth`, `MaxNest`, `MaxCards`, `MaxStatusCalls`,
`MaxEvents`, and the sets of handles and requests. The proofs hold for every
value of them. Symmetry is used in runs without liveness, over sets whose
members are not told apart.

### Fairness

Three properties are liveness properties. `NoLostUnlock` assumes that a thread
inside `Lock()` or `Unlock()` is scheduled and that a `CAutoMutex` goes out of
scope in the end; that is justified as every block of the code that has one is
finite. `Unblocked` assumes that threads are scheduled and that an application
ends the transactions it begins, which PC/SC asks of it. `UnblockEnds` assumes
that the threads of the monitor and of an unblock run, that their waits end when
they are notified or time out (both have a time-out in the code), and that the
event dispatch thread handles what is queued. It assumes nothing of the card: a
session with it may never end. Nothing is assumed
about the order in which a mutex serves its waiters, so neither property says
that one particular thread gets it: it could not be proved of the code, whose
mutexes promise no order.

## Findings

1. `OneThreadConnects`. The comment above the pool says that only one thread
   connects to a reader. When that thread connects twice, the second connection
   is not entered; once the first is dropped, another thread connects by itself.
   The run uses a library that does not fail.
2. `Unblocked`. Threads that share a handle share the `Transaction`, whose
   counter is not guarded. When `cnt++` and `cnt--` of the two interleave, one
   count is lost and the mutex stays locked: the hang the pool is there to
   prevent comes back in the virtual transaction.
3. `WithinTransactionSynced`. The file is set on the physical card for the first
   command of a transaction only; a file selected after that is not.

None of these depends on a failure of the card. For 1 and 3 the property that
does hold is checked beside it (`HandlesUsable`, `StaysSynced`), for 2 it is
proved for threads with objects of their own. The name of the system mutex
contains `clock()`, so that two soft cards of one handle may have two mutexes
and exclude nobody: `OneThreadInTransactionHolds` therefore assumes one mutex.

The other known weaknesses are exceptions that the properties name, each of
which a behaviour of the run reaches: `overended` in `CardSession`, `causes` in
`SoftConnections` and `CardReaderMonitor`, a daemon that is `overrun` in the
latter, `moved` and deleted names in `ReaderList`, `cause` in `ControlTool`.
Such a property does not catch its exception; it says that there is no other.
Where the code disagrees with its comments without a run of its own:

- `WinscardImpl.cpp:56-61` says a list creates the virtual readers; asked for
  the length only, as `ForceListReaders()` does, it does not. A connect calls
  that function when there was no list (`646-647`), after it has looked for the
  virtual reader; an application that connects to one must list first.
- `WinscardImpl.cpp:223-230` and `396-401` test for a buffer that is too small
  with a length that never is: neither test can reject.
- `DefaultActionMap.java:54-59` promises that an action disabled twice needs
  enabling twice. The count is a local variable that is not written back.
- `CardReaderMonitor.java:44-49` promises no call after `pause()`. Calls that
  were queued for the event dispatch thread still come, and a thread that had
  not begun sets `run` again.
- `Main.java:271`: on the command line a control that is the default is not
  saved when there is no file yet.

Steps of the models that no comment of the code speaks of, and that can hardly
be meant:

- `WinscardImpl.cpp:188` and `198` go on when the library has failed. Without
  readers the first tells a length that is read from a fresh buffer, the second
  reads through a null pointer.
- `WinscardImpl.cpp:601-612` ends a transaction that it may not have begun.
- `WinscardImpl.cpp:439-457` compares names of readers that a list may have
  deleted, and `SoftReaderManager.cpp:136` deletes soft cards whose handles are
  in use.
- `CardUnblockAction.java:72-85` reports that the card did not respond and
  resumes the monitor, while the daemon goes on with the card.

## Proofs

`tlapm M.tla` for each of the eight `*Proofs` modules. All theorems hold for any
sets of threads, users, readers, handles, files and requests, and any bound.
What they assume about the constants is in the named `ASSUME`s of each module,
which TLC evaluates in the runs; what else a theorem needs is in its statement.
Every invariant the passing runs check is proved, and so is every refinement.

- **ReaderListProofs, last part: `CMutex`** (the lists and look-ups run under
  the manager's): types, `MutualExclusion`, `CountIsDepth`, and the refinement
  of `ReentrantLock`. `MutualExclusion` alone is not inductive: it does not say
  what the unguarded comparison may read. The invariant adds that the mutex
  belongs to the thread that is inside (`MutexHolder`), that the owner field
  names exactly that thread except between its lock and its store and after it
  has cleared the field (`MutexOwner`), so that no other thread ever reads its
  own name, and what the count is at every point (`MutexCount`).
  `MutexNobodyStuck` is what the liveness property `NoLostUnlock` rests on: who
  waits, waits for another thread, which does not wait and whose `Unlock()`
  will find it the owner.
- **CardThreadPoolProofs**: types, `HandlesUsable`, `NoLeak`, and the refinement
  of `HandleSharing`. The invariant relates entries and users: an entry's handle
  is connected to its reader, a reader has one entry, the counter is the number
  of users of the handle, and a handle outside the pool has one user. The last
  is what makes a disconnect of such a handle safe.
- **SoftTransactionProofs**: types (for shared objects and any names too); for
  threads with an object each `BackToStart` and `NobodyStuck` with any names,
  `OneThreadInTransaction` and `TransactionsAreALock` with one mutex. The
  assumptions are hypotheses of the theorems, and finding 2 and the `clock()` in
  the names show that they are needed. The invariant gives, for each place a
  thread can be, its count, what it has read and its mark (`Local`), and says
  that a thread has the mutex exactly where its count says so (`HolderInv`).
  `TransactionsAreALock` maps the calls a thread is inside of (its transactions
  less the one it is ending, and a command) to `ReentrantLock`: a thread enters
  at the store or the mark that ends `aquire()`, and leaves when it asks for the
  end. `NobodyStuck` is the safety behind `Unblocked`, which fails for threads
  that share an object.
- **CardSessionProofs**: all six properties the run checks. `MarkInv` is the
  heart: `isJustStarted` is up exactly in a transaction none of whose requests
  has gone to the physical card. `SyncInv` adds that agreement is only claimed
  inside a transaction, where no other application can move the card, which
  needs `VirtualInsidePhysical`.
- **SoftCardCommandsProofs**: types, `AnswerFits`, `RestIsAnnounced` and
  `RetryIsAnswered`, for files, requests and buffers of any size. Lemmas say
  what each kind of answer is (`DataAnswers`, `StatusAnswers`,
  `CardDataPartAnswers`, `FilePartAnswers`); the invariant is the conjunction of
  the first three. `RetryIsAnswered` follows from the types.
  `SearchIsDepthFirst` and `SearchFindsOneFile` are about the recursive search,
  for every list of files. Two files below a directory are in the order of their
  ancestors in it (`BeforeIs`), so the first file below it is that of its first
  child that has one (`FirstBelowIsSearch`); a directory for which the search
  and the definition differ would be deepest among those (`DeepestOne`), and its
  children agree. `OnlyOneBefore` makes the first file the only one.
- **SoftConnectionsProofs**: types, the refinement of `CardThreadPool`,
  `ObjectsKept`, `RightCard` and `OneCardPerUser`; and, with what
  `CardThreadPoolProofs` shows of the pool, that a handle stays usable and that
  whoever has one can give it back (`PoolPromisesKept`), until a list removes a
  reader or a handle is given out too soon. The refinement needs that no
  two calls are for one user (`OwnUser`), so that what a call found of its user
  still holds after the library has answered. `ObjectsKept` rests on `ObjCore`,
  which holds until the first cause: a handle has one user, and each soft card
  one connection. The other two rest on `OwnerInv`, which survives sharing and
  deletion: a handle never has more soft cards than owners (users who got their
  card and keep the handle, or are about to delete it), exactly as many while no
  reader was removed, and all of the reader that the handle is connected to. It
  takes the counting to prove `RightCard`: that no old card has the handle of a
  new connection follows because it would have an owner. That a user's handle
  leads to a soft card (`OwnerHasCard`) is the same counting the other way.
- **ReaderListProofs**: types, `ListFits`, `ListOrdered` and `StatusReported`,
  for any finite set of readers and names of any length. The sum of the lengths
  of a list does not depend on its order and grows with the set it shows, so
  that a buffer measured for a set is long enough for a part of it
  (`ListFits`); sorting is a bijection that respects the ranks, so a list has
  every name once (`ListOrdered`). `FormInv` is what TypeOK leaves open of a
  status call: where it stands in its arrays. `AnswerInv` says of each call what
  `StatusReported` will say of it (`StatusOf`): no two names in its
  `realReaderStates` are the same that have not been deleted, the names of the
  elements dealt with so far can be found there, or are excused, and those dealt
  with in the second loop have their answers. It survives a list of another
  thread because a name that is deleted blurs only what is searched behind it
  (`FreedFinds`, `FreedStatus`).
- **ControlToolProofs**: types, the refinement of `AtomicSave`, and `EditsKept`.
  The refinement needs that one thread at most is between the steps of `save()`
  (`Exclusive`) and that the backup is as good as the file when it is opened
  (`BackedUp`); the types, that the tree shows only items that are there
  (`Shown`). `EditsKept` is not inductive: it says nothing while a thread is on
  its way. Until the first `cause`, its invariant (`KeptInv`) says where what
  the user asked for is: the items are those cards (`ItemsInv`), the active
  control has that visibility, and the cards too or a thread that has yet to
  copy them, and a control that differs from the file has a thread that may
  still save it, or a write has failed (`WantedInv`); if nothing was asked for
  everything is as by default (`NothingWanted`). `ModeInv` says which threads
  can be on their way in the window and on the command line and that disabled
  actions are enabled again, `TreeInv` what a reload shows on its way.
- **CardReaderMonitorProofs**: types, `MenuTrue`, `UnblockAlone`, and
  `PausesAreAnswered`, the safety behind `UnblockEnds`. `MenuTrue` is an
  invariant by itself once a fold over the queue is known to take an event at
  either end (`FoldTail`, `FoldAppend`) and reported changes to lead from the
  old status to the new in any order (`FoldReported`). `UnblockAlone` needs who
  has the action's lock (`LockInv`), for which daemons run() waits and which of
  them have a card open (`DaemonInv`), that one thread of the monitor lives at a
  time and announces its end exactly once (`MonitorInv`), and which reader an
  unblock is for (`ReaderInv`, `SessionInv`). `PauseInv` adds that who pauses
  has switched the monitor off and that an end nobody watched stays announced.
  It takes a slot for a thread of the monitor (`Monitors # {}`), which the code
  makes on demand.

Facts about data of any size (folds, sums, sorting, the recursive search) cannot
use the library's induction theorems, which take an operator. They are proved by
a smallest or largest counterexample instead: a non-empty set of numbers has a
smallest element (`SmallestSet`, `MinIsSmallest`), and a recursive function
over a finite set is its own only solution (`RecursionIsUnique`).

Proving corrected the models in three places. `Change` in `CardReaderMonitor`
and `Check` in `ControlTool` had arms of a `CASE` that overlap, of which TLA+
takes any, where the code takes the first. A daemon that finds no reader after
its unblock has ended left its slot occupied for ever; `CountedDown` is now the
same for both ends of a daemon. `ReadersAssumption` now says that the readers
are finitely many, as the sequences of events and names need. `ReaderList`
states the order of a list by the rank of its names, with which it can be
reasoned about; it is the same list.

Only model-checked are the three properties that need fairness, `NoLostUnlock`,
`Unblocked` (which fails for threads that share an object) and `UnblockEnds`, as
liveness is beyond the prover; the safety each rests on is proved.
Temporal steps use PTL; the refinements are proved step by step.

## Not modelled

- The order of bytes in answers and the contents of files: they are copied
  whole.
- The WIN32 branches of the mutexes: the operating system provides them.
- Logging, XML parsing, formatting, the glue that forwards exported functions,
  the test programs (`pcsctool`, `dlopenproxy`) and the generator of virtual
  cards: sequential programs without state that interacts.
- `client_software/`: an older copy of the same sources, about half of the
  repository. With the programs above, `jpcsc.c` (forwarding between Java and
  PC/SC) and the declarations of the proxy it is why most lines of the
  repository belong to no module.
- Of the control tool: `PropertyModel` and the include directories, choosing
  another control file, the commands that only print, and `gui/jpcsc`, another
  monitor by the same interface.
- Of the proxy: the name and the buffer that `SCardStatus()` returns,
  `SCardReconnect()` and `SoftReader::reconnect()`, which do nothing, and
  `SoftCard::reset()`, which nothing calls.
- Access to `m_autoAllocs`, to the vectors of a soft reader and to the buffer of
  the control file without a common mutex: what a torn vector or text gives has
  no outcomes to enumerate.

`PROJECT.json` lists the components, and every hazard at its line with the
properties that cover it or the reason why none does yet.

## Plan

What is left, in this order:

1. A composition of `CardSession` with `SoftCardCommands`, in which the rest of
   an answer that a session routes is the one the card has announced, and of
   `SoftTransaction` with `SoftConnections`, in which a soft card is deleted
   inside a transaction of its handle.
2. `PropertyModel` and the choice of another control file, as further settings
   of `ControlTool`.
