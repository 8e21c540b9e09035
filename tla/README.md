# A verification development for the C++ package manager

This directory holds TLA+ models of the package manager in `src/`: modules that
follow the code operation by operation, TLC configurations that check them on
small instances, and theorems that TLAPS proves for instances of every size.
`PROJECT.json` lists for each definition the lines it stands for (`map`), the
runs and what they check, for each checked property a plausible bug that breaks
it (`mutants`, defined in the modules next to what they replace and marked
`Fault:`), the disagreements found (`findings`), and what in the code is hard to
test (`hazards`).

All paths below are relative to `src/src/` unless they say otherwise.

## 1. The system

Three programs share a library. The **client** keeps a set of installed packages
in memory and in a storage file, and installs from json repositories. The
**server** sends repository files to clients and lets an **administrator** change
them.

| part | state | operations | who calls it |
|---|---|---|---|
| `Package` kinds (`package/`) | fields, the *using* flag, a sorted vector of `shared_ptr` to required packages | comparison, reading and writing of fields, version update, connecting | everybody below |
| `Map` (`map/map.h`) | array of chains, size, capacity | insert, emplace, erase, find, rehash, copy, move | `Package_manager` |
| `Package_manager` | a `Map` from file names to objects | `add`, `remove`, `remove_unuse`, `global_update`, `cycle_destroy`, `find`, `size`, ... | `Controler`, client |
| readers and writers (`controler/strategy.*`) | the names met so far | make an object tree from json, and json from a tree | `Controler` |
| `Controler` | a manager, repository files, a storage file | `add_package`, `remove_package`, `remove_unuse`, `global_update`, load, store | client, server |
| sockets (`network/sockets.h`) | a descriptor | length-prefixed messages over partial sends and receives | network controlers |
| network controlers, handle strategies (`network/`) | none of their own | request and response for adding, removing, updating | client, server, admin |
| client (`application/client_app.cpp`) | the menu loop | options 1 to 9 | the user |
| server (`application/server_app.cpp`) | a listening socket, child processes | accept, fork per user, administration in the parent | |
| administrator (`application/admin_app.cpp`) | one request | add, remove | the user |
| view (`view/view.h`) | none | terminal input and output | client, admin |

How they interact:

- Packages point to one another with shared pointers, across the map: erasing a
  name from the map frees the object only if no other object requires it. An
  object can therefore outlive its entry, and a second object with the same file
  name can take its place in the map.
- `remove` and `remove_unuse` start threads (`Thread_visit`) that walk this graph
  and share a table of relaxed atomic colours; nothing else is locked. The main
  thread joins them before it erases.
- The controler writes its storage file in place: the file is opened, which
  empties it, before the text is made, which may throw.
- A process that starts from the storage file loads only the entries with the
  flag, and finds the rest through what they require.
- The client removes through the manager and not through the controler.

Hard behaviours, and what makes each part correct:

- **Removal.** Threads load a colour, then store another one, in two steps, with
  stale loads allowed. Correct: exactly what other users need is marked when they
  are joined; nothing a user's package needs is erased; whatever the
  interleaving, the result is that of a sequential traversal; the operation
  returns.
- **Addition.** It is recursive, connects pointers as it goes and may throw
  anywhere. Correct: a refused addition changes nothing; one file name is one
  object; no circles; all that is needed is there.
- **Storage.** Correct: it always agrees with the map and can be loaded.
- **Client.** Correct: nothing that is installed is lost with the process; only
  option 9 ends it.
- **Map.** The tail pointer is part of the test whether a key is there, the size
  is counted again by a rehash. Correct: it is a dictionary.
- **Server.** Blocking reads in the parent, one process per user, administration
  inside the loop. Correct: files change only as asked, one connection does not
  stop the others.
- **Sockets.** Correct: messages arrive whole although calls move only a part.

## 2. Modules

```
DependencyGraph --- RemovalSpec --- ParallelRemoval --- MCParallelRemoval
                                          |
                                ParallelRemovalProofs

Packages --- Controler --- MCControler        Dictionary
                 |                                |  (INSTANCE)
              Client ---- MCClient             HashMap --- MCHashMap
                                                  |
MCRepositories (for both MC modules)         HashMapProofs

PackagesTheorems (over Packages) --- ControlerProofs (over Client)
        |                                   |
CoherenceTheorems ------------------ CoherenceProofs

Server --- Network --- MCNetwork              Channel
              |                                   |  (INSTANCE)
          NetworkProofs                        Framing --- MCFraming
                                                  |
                                             FramingProofs
```

### Removal: `DependencyGraph`, `RemovalSpec`, `ParallelRemoval`

`RemovalSpec` says what `remove` and `remove_unuse` promise as atomic steps over
the whole graph. `ParallelRemoval` is `package_manager.cpp:90-226`, one step per
atomic access of a thread:

| model | code |
|---|---|
| `deps`, `installed`, `using` | pointers, keys of the map, using flags of the objects |
| `colour`, `table` | the `std::atomic<Colour>` of each name; the names that have an entry in the `unordered_map` of colours |
| `todo`, `root`, `edges` | where the loop over the map is in `remove` |
| `tasks`, `batch` | the queue of `remove_unuse` and the threads of the batch |
| `stack[t]` | the activations of `Thread_visit` in thread `t` |
| `known[t]`, `mainKnown` | the names a thread can no longer read as white |
| `Enter`, `Descend`, `Skip`, `Finish` | grey store, load of white, load of another colour, black store |
| `EraseTarget`, `RefuseTarget`, `Sweep` | `map_erase_visit` and the ends of the operations |
| `Race`, `Lost` | `operator[]` inserts a name at line 96 or 166 while another thread uses the table |

The accesses are relaxed. Each location goes from white to other colours and
never back, so what a load may return is white (unless happens-before or
coherence rules it out) or some other colour (if one was stored); `known` and
`mainKnown` keep what is ruled out. Grey and black are not told apart by any
load.

Every graph, map and set of flags is an initial state, and a package is its file
name: a pointer leads to the object the map has under that name, or to one whose
name is not in the map. (States with two objects of one name are reachable with
support packages; `Packages` and `Controler` have them.)

A map may lack what its users need. Install support package 2, which requires 1;
remove 1, which succeeds, since only packages with the flag are protected
(`package_manager.cpp:161`); install main package 3, which requires 2: `add` finds 2
in the map and returns (lines 28-29). The map is {2, 3}, and a user's package still
leads to 1. The table of colours has the names of the map, so the next removal looks
up a name that it lacks, and `colour["1"]` inserts it (lines 96, 166), while other
threads may be using the table. That is a data race: the insertion happens as one
step (`table'` in `StartVisit` and `Descend`), or nothing is said of the process any
more (`Race`, `op = "undefined"`). `RemovalSpec` makes the same exception
(`Undefined`, only where `UsersComplete` is false). `Controler` takes removals as one
step, and where the map is not complete its runs see the harmless outcome, and the
end of the process (`Stop`). With main packages and without wrappers a map is always
complete: `ControlerExactlyNeeded` of section 4.

### Addition, storage, controler: `Packages`, `Controler`

`Packages` has the functions of the manager, of `Default_read` and of `P_IOF` as
operators on a *world*: a heap of objects, the map, and the exception if there
was one. An object is a file name and a stamp, so that several objects can have
one name. Freed objects leave the heap (`Settle`). `Controler` makes one action of
every operation (the program has one thread outside removal, whose threads are
joined); `Visited` keeps every outcome the threads may produce when two objects
have one name: which of them is met first is open. `write_package_manager_to_file`
iterates over buckets, so every order of the map is considered (`Orders`).
`Stop`, `Start` and its branches are the endings and starts of the process;
`NewRepositories` replaces the repository files.

The functions that call themselves in the code (`DFS_visit`, `add`,
`connect_equal_pointers`, `operator==`, `DFS_visit_destroy`,
`write_package_to_json`) are pairs: one call, which is given what it calls
(`VisitOnce`, `AddOnce`, `ConnectOnce`, `SameBut`, `DestroyOnce`, `WriteNested`), and
that call nested in itself. A call is for a file name that those around it are not
for, so as many as there are file names (`Depth`) are enough. They are recursive
functions and not recursive operators, so that the prover takes them.

File names are numbers in alphabetical order. Versions are numbers, two for each
package, in the order the code compares them in, which is that of texts;
publishers are only compared, together with the versions, which stand for them
too. The condition takes part in no branch that is modelled and is left out.

An `Empty_package` is a wrapper around another package, to which it passes every
call but that for its own name: an object with the fields of what it wraps and
the mark `wrapped`. Its title is the display name of what is linked; its own is
the same with `-last`. `FindLast` is the search of `Empty_read` for what a wrapper
is to be linked to, `AddLast` installs what it finds through
`add_package_external`: `add_package` looks for file names, which never end that
way. `operator==` of wrappers compares as many requirements as the left one has
and reads behind the end of a shorter vector on the right: the comparison is
false, or the process ends (`Overrun`).

### Client: `Client`

The menu: additions and sweeps go through the controler, removals through the
manager, so that option 2 neither reads the storage nor writes it, and goes on after
a failed write has emptied it. `Caught` is its handler, which for `cycle found` calls
`cycle_destroy` on a shared pointer that is never set. `RemoveFreed` is the end of a
process whose `map_erase_visit` comes back to the package it erases.

### Sockets: `Channel`, `Framing`

`Channel` is what `send_json` and `recv_json` promise: objects arrive once and in
order. `Framing` is how they do it, for one direction of a connection:

| model | code |
|---|---|
| `wire` | the bytes in the buffers of the connection |
| `sender.gone` | `current` of `send_n` |
| `receiver.len`, `receiver.buf` | `len` of `recv_json`, what `recv_n` has filled |
| `SendLength`, `RecvLength` | the single calls for the length, which may move a part of it |
| `SendText`, `RecvText` | an iteration of `send_n`, of `recv_n` |
| `Parse` | the end of `recv_json` |
| `SendFails`, `RecvEof` | the exceptions of a connection that the other end has closed |
| `SenderEnds`, `ReceiverEnds` | a program that closes or is ended |

A length of which bytes are missing is any of `Lengths`: those bytes are of an
uninitialized variable. `auto_recv` is never called.

### Map: `Dictionary`, `HashMap`

`HashMap` is `map.h`: a chain has its nodes and, apart from them, the key at its
tail pointer. `Dictionary` is what it should be: functions from keys to values.

| model | code |
|---|---|
| `chain[i].nodes`, `chain[i].tail` | the list from `head` on, the node `tail` points to |
| `Entries`, `Loop` | what an iteration meets, and a loop over it |
| `ContainsKey`, `Finds`, `Find` | `contains` (both ends, then all but the last node), `find` |
| `Place`, `Rehash`, `Grow` | `chain_insert` with the index, `rehash`, the test of the load factor |
| `Insert`, `InsertMoved` | `insert(const &)` and `emplace`; `insert(&&)`, which grows before it looks |
| `Copied`, `CopyConstructed` | `operator=(const &)`; the copy constructor, which starts from the size of the original |
| `Same`, `Overruns`, `MoveAssigned` | `operator==`, also where it follows a null pointer; `operator=(&&)` |

The loops are recursive functions and not recursive operators, so that the prover
takes them.

### Server and its peers: `Server`, `Network`

`Server` is the parent process and its children, `Network` adds the programs at
the other end of the connections: `Client_network_controler::update` and the
administrator.

| model | code |
|---|---|
| `files` | the repository files, `Truncated` between `ofstream` and the write |
| `queue`, `open`, `present` | the backlog of `listen`; the ends of each connection |
| `loop` | where `main` is, whom it serves, which file is next |
| `Check`, `Accept`, `Fork`, `ReceiveAdmin`, `ReceiveFails` | the loop, `server_app.cpp:54-124` |
| `OpenFile`, `WriteEmpty` | the constructor of `Controler`, once per file |
| `Refuse`, `StartAdd`, `WriteAdded`, `Crash` | what can become of the request |
| `child[u]`, `ChildSends`, `ChildReturns`, `ChildFails` | `User_update_request::handle` in a process of its own |
| `request`, `inbox` | the messages of `send_json` and `recv_json`, whole |
| `local`, `writing` | the repository files of a client; whether it has opened the next one and not written it |
| `Update`, `ReceiveEcho` | `update`; `Echo` is the request that comes back |
| `OpenLocal`, `WriteLocal` | the loop over the files: `ofstream` empties one (`network_controler.h:108`), then it is written (line 114) |
| `Leave`, `Eof` | option 3, exceptions, a program that is ended |

An administrator's request is handled with a manager that no longer exists
(`server_app.cpp:72` is local to the loop of line 71). The model lets it behave as
an empty one, throw, or end the process; other damage to memory is left out. A
file is read and written with one call: repository files are smaller than the
buffer of a stream. What the programs of this repository never send (requests
without a type, a password or a file name, other types of users) is left out.
Packages are entries of a file; a package that is added brings its requirements
with it, which the model does not tell apart from the package.

## 3. Runs

| run | question | states |
|---|---|---|
| `removal` | do the threaded removals erase what atomic ones would, under every interleaving and stale load? | 391 000 |
| `removal_returns` | does every removal return, also when the number of hardware threads is unknown? | 38 700 |
| `controler` | do map, objects and storage agree after any sequence of operations and restarts? What stays true with support packages and requirements that turn around? | 15 700 |
| `client` | does the file always have what is installed, although removals are not stored, and what stays true when the process ends? | 19 200 |
| `hash_map` | are two maps with colliding keys dictionaries, with short chains, which operations make `size()` wrong, and what does that do to `find` and to move assignment? | 6 500 |
| `server` | what do updates and administration do to each other, with peers that leave at any moment, and does an update return? | 213 600 |
| `framing` | do messages arrive whole and in order although calls move only a part, and does nobody wait for a sender that is gone? | 55 900 |
| `acyclic`, `sweep`, `two_repositories`, `latest`, `server_files` | the findings of section 5 | |

Properties, in words, stand above their definitions. The ones that carry most:

- `MarkedExactly`: at the joins, marked is exactly what other users need.
- `AtomicRemoval`: `ParallelRemoval` implements `RemovalSpec`.
- `UsersKeepDependencies`: a step takes nothing away that the users it leaves need,
  also where the map lacks a part of it.
- `NoConcurrentInsert`: if the map is complete, no thread inserts into the table that
  others read, and no operation ends in the race. Without the premise it fails.
- `GreyIsVisited`: no colour is left grey at a join, although the stores of
  several threads to one location interleave.
- `Coherent`: one file name is one object, for all that the map reaches. It holds
  with main packages only; with support packages it does not, which is where
  `sweep` and `acyclic` come from.
- `StorageIsCurrent`: map and file have the same packages with the same fields
  (but for the flag, section 5).
- `TargetOutlivesRemoval`: `map_erase_visit` holds its package by a reference
  into the map it erases from; in the controler, which reads the storage before it
  removes, it never comes back to it.
- `OptionTargetOutlives`: the same of option 2 of the client. With main packages also
  after a write that failed; with support packages as long as none has failed
  (section 5 has what happens then).
- `SweepsAgree`: `remove_unuse_one_thread` keeps what the threads of
  `remove_unuse` may keep, in whatever order it comes to the users.
- `UsersStay` and `OptionsKeepUsers`: whatever is added, refused, swept or written,
  what users asked for is taken away by the removal that names it only.
- `NothingLost`: unstored removals may leave too much in the file, never too
  little, while repositories agree (`Agreeing`); two that do not make a write fail.
- `CopiesAreServed`: children read files while the parent rewrites them; a client
  still has only contents that the file of that name may have, and no empty file but
  the one it has just opened, or had opened when its program ended. Whether
  the files of one update are of one time it does not say, and they need not be.
- `RefusalChangesNothing`: an update that is refused has opened no file.
- `UpdatesReturn`: a user's update ends, unless a peer that has connected keeps
  silent for ever. That one peer can do this is what the premise says; the property
  does not cover it.
- `ImplementsChannel`: whatever the calls move, half a message or the end of one
  and the start of the next is never returned, even after a length that was not
  moved whole; `WholeNeverGarbled` and `AllReceived`: while lengths are moved whole
  nothing is cut in the wrong place and all of it arrives; `ReceiveEnds`: whoever
  waits in `recv_json` is not left there by a sender that is gone.
- `NetInv`: the inductive invariant of section 4.
- `ImplementsDictionary`: through rehash, copy, move and erasure.
- `FindAgrees`: `find` gives up if `size()` is 0 and goes through all nodes,
  `contains` looks at the tail; they agree on every key.
- `MovesArrive`: move assignment asks `operator==` instead of comparing addresses;
  between maps that count right the target still ends with what the source had.

### Bounds, and why they are enough

- `removal`: four packages and two graphs: the diamond, where two visits of one
  walk meet below, and two users that share a package that has a requirement of
  its own, where threads of different users meet. Every set of installed and of
  using packages is an initial state, complete or not, and operations follow one
  another. Two hardware threads, so a batch can be full with users left over.
  The theorems of section 4 hold for every size.
- `removal_returns`: the fork, two users above one package, and 0 hardware
  threads (unknown), where the fallback of 4 is used.
- `controler`, `client`: families of repositories, one of which is chosen at the
  start and whose members may replace each other. Main packages: five file names,
  two users over a shared requirement with one of its own, a package that would
  need it twice, and newer versions of two of them. Wrappers: one that another
  package requires, two newer packages of its title of which the nearer is the
  older, and a repository in which the wrapper requires less. A wrapper around a
  support package, which can be written and not read again. Support packages: 2
  needs 1 in one repository and 1 needs 2 in the next, 2 is a support package. For
  the client also two repositories that disagree, from which a diamond is installed
  that cannot be written, so that options follow a failed write.
  Most properties hold with main packages and wrappers around them only
  (`MainOnly`): `acyclic` and `sweep` show what becomes of them otherwise. Four
  stamps: the installed object, one that is being read, one that was removed and
  is still referenced, and a spare one. `HasRoom` guards additions: where no stamp
  is left, nothing is read. No package requires two wrappers.
- `sweep` needs five names, `two_repositories` four.
- `hash_map`: three keys of which all, and after growing still two, collide; the
  initial capacity and the load factor are 1 instead of 10 and 3, so that
  rehashing happens with two entries. `MaxSize` keeps copies of copies from
  counting without end. Maps and values are symmetric.

- `server`: one user and one administrator, who come again without end, two
  repository files, requests that are accepted and refused for each reason, and a
  list with a file the server does not have. Two peers are enough for one to
  overtake the other. The queue holds at most one connection of each, less than
  the backlog of 8.
- `framing`: lengths of three bytes, a text as long and one of five, which never
  fits the buffer of four (`Capacity`), so that every call can move less than it
  is asked to; three messages (`SendLimit`), so that one can be cut out of sight
  between two others. `Lengths` has numbers below, at, between and above those of
  the texts. No text is shorter than a length: JSON objects of the programs are
  not.

### Fairness

`LiveSpec` has weak fairness of the main thread's steps and of each thread's:
`std::thread` gives every started thread to the scheduler of the operating
system, no step waits for anything but a join, and nothing is locked.

`Network` has weak fairness of the parent, of each child and of the update of each
user, which sends its request and reads what comes without asking anybody. The
administrator, who is asked at the terminal, and the start of a server that has
ended have none; connecting and leaving have none.

`Framing` has weak fairness of sending the rest of a message that was begun and of
receiving: the loops of `send_n` and `recv_n` wait for nobody but each other, and
the programs call `recv_json` until they close. Starting a message and closing
have none. No other liveness is claimed: the client waits for input.

### Stops

Deadlock is checked in every run but `framing`, where both ends may have closed.
The models of removal, controler, client, map and server can always take a step.

## 4. What is proved

`ParallelRemovalProofs` proves, for every finite or infinite set of packages, every set of
graphs and every number of hardware threads:

| theorem | property |
|---|---|
| `TypeCorrect` | `TypeOK` |
| `MarkInvariant` | `MarkInv`, the inductive invariant |
| `MarkingIsExact` | `MarkedExactly` |
| `UsersAreKept` | `UsersKeepDependencies` |
| `TableIsComplete` | `NoConcurrentInsert`, for the maps that are complete |
| `GreyEnds` | `GreyIsVisited` |
| `ImplementsAtomicRemoval` | `AtomicRemoval` |

Assumed of the constants: `HardwareThreads` is a natural number, `Graphs` are
graphs over `Package`, `NoPackage` is no package.

The argument. `MarkedExactly` says something of the joins only and is not
inductive. What holds at every step is `NoneForgotten`: a requirement of a marked
package is marked, or somebody has still to look at it: a visit that has it on
its list, a visit that has not stored grey yet, the main thread, or a task of the
batches to come. Two threads may visit one package and one may finish while the
other does not: each visit that marks a package has all its requirements on a
list of its own (`VisitsComplete`), so none depends on the other. A thread skips a
requirement only if it has read a colour other than white, which is never taken
back. At the joins nobody is left to look, so the marked packages are closed
under requirements, and they contain the users (`UsersMarked`): they contain all
that the users need. `OnlyNeeded` gives the other inclusion. `StartsFresh`
says that a thread that is started was not running, without which a start would
drop visits of another. From exact marking follow the two erasing steps: white is
what no other user needs, so `EraseTarget` and `Sweep` are the steps of
`RemovalSpec`; all other steps but `Race` leave its variables alone. Nothing is
assumed of the map: a load that inserts a name changes the table only
(`TableFilled`), and what is visited is what users need (`OnlyNeeded`), so a name
that the table lacks, and with it a race, shows that the map is not complete
(`RacesNeedGaps`). `GreyIsVisited` is inductive together with `MarkInv`.

`NetworkProofs` proves, for every number of users, administrators, packages and
repository files, whatever lists and requests they send:

| theorem | property |
|---|---|
| `Inductive` | `NetInv`, the inductive invariant |
| `NetworkTypes` | `TypeOK` |
| `ClientsGetServedFiles` | `CopiesAreServed` |
| `OkMeansStored` | `OkIsStored` |
| `RefusedUpdates` | `RefusalChangesNothing` |

Assumed of the constants: users and administrators are different peers, `Nobody`
is none; the server has at least one file, and what it has at first are sets of
packages; lists are sequences of names, none of them empty (`ListsAssumption`); requests are records
that ask to add or to remove (`RequestsAssumption`).

The argument. None of the properties is inductive: they speak of messages that
were sent long ago. `Connections` says that one part of the server holds each
connection: the queue, the parent or one child, so that no two of them answer the
same peer. `FilesServed` and the types of the inboxes say that every file, and
every copy on its way, has contents that the file of that name may have; a child
that finds a file truncated fails, so no half copy leaves the server. That the files
of a client are whole is proved with the place it is at: it opens them in the order of
the list, and `writing` says of which one the contents are still to be written.
`UpdateCounted` ties child and client together: the files the client has received
and those in its inbox are those the child has sent, a child that has sent one has
opened all, and the echo is the last message, before the first file or after the
last. From that follows `RefusalChangesNothing`: an echo that is next while files
were received comes after the last, where the client has stopped receiving.
`OkWritten` and `AnswersClose` follow an answer from the write to the inbox.

`FramingProofs` proves, for all messages, lengths of texts and capacities of the
connection, and for every number of bytes that a length has:

| theorem | property |
|---|---|
| `FramingTypes` | `TypeOK`: no call asks for more than is left, or than there is room for |
| `NeverGarbled` | `WholeNeverGarbled` |
| `FramingImplementsChannel` | `ImplementsChannel` |

Assumed of the constants: a length has at least one byte, no text is shorter than
a length, and the connection has room for one byte (`LengthsAssumption`). The
second is what the argument needs most: a text of three bytes could be swallowed
whole by a length that arrived in part, and the next message would then be
received without it.

The argument follows the stream of all bytes that were ever sent: where each
message begins in it, and how many bytes of its length were sent (`Layout`).
The bytes on the way are those behind the place of the receiver (`OnTheWay`) up to
the place of the sender (`SenderAt`). The receiver is in step (`InStep`) as long as
it is between two messages or in the text of the next, with the beginning of that
text in its buffer (`ReceiverAt`); then what it parses is the next message. A
length that was not moved whole can get it out of step. Then it is lost (`Lost`):
its buffer begins, or will begin, with a byte that begins no text, or it expects
another number of bytes than the text that begins there has, and no such buffer
parses. That it cannot get back into step is what makes the channel hold without
assuming that lengths are moved whole.

`HashMapProofs` proves, for every set of keys, values and maps, every hash
function, initial capacity and load factor, all that the run `hash_map` checks:

| theorem | property |
|---|---|
| `Invariant` | `Inv`, the inductive invariant |
| `Typing` | `TypeOK` |
| `SizeNeverWraps` | `SizeCoversEntries` |
| `ChainsStayShort` | `LoadBounded` |
| `FindsWhatIsContained` | `FindAgrees` |
| `MovesArriveAlways` | `MovesArrive` |
| `SizeExactUnlessCopied` | `SizeStaysExact` |
| `MapsAreDictionaries` | `ImplementsDictionary` |
| `RehashInserts` | none: it justifies the model, see below |

Assumed of the constants: hashes are natural numbers, the initial capacity and the
load factor are positive, and `NoKey`, which marks an empty chain, is no key.

The argument. `Inv` is the conjunction of `TypeOK`, `SizeCoversEntries` and
`LoadBounded`, all of which the run checks; none of the three is inductive alone.
`TypeOK` has the most in it: every node is in the chain of its hash, no key is in
a chain twice, and the tail is at the last node (`ChainOK`). The last is needed
since `chain_contains` stops before the last node and asks the tail pointer for
that one: with the tail left behind by an erasure the last node would not be
found, and a second one with its key inserted (`ContainsEveryNode`,
`InsertAddsNode` and `EraseRemovesNode` say what the operations do to a chain). That sizes cover entries is needed for the subtraction of an
erasure, and again for the load: `Grow` looks at the size, and what makes room is
that the entries are not more.

The proof sees a map as the nodes it has (`Has`). `EntriesMeet` says that an
iteration meets each of them once, `Count` is how many it meets, and
`OneChainDiffers` how many more or fewer there are when one chain is replaced; so
`PlaceAddsNode` and `EraseTakesNode` say what an insertion and an erasure do to
nodes, size and number of entries. The loops of rehash, of copies and of
`erase(first, last)` are followed turn by turn (`PlaceTurns`, `InsertAll`,
`EraseAll`). Equal nodes are equal content (`SameContent`), and from there every
step is one of `Dictionary` or leaves the contents alone (`EveryStep`).

`Rehash` places the nodes, while the loop in the code calls `insert`, which looks
for the key and grows the array if the load is high. `RehashInserts` shows that
this is the same: in a map with `Inv` no insertion of a rehash finds its key or a
high load, so `rehash` never calls itself.

`ControlerProofs` (over lemmas on the operators of `Packages` in
`PackagesTheorems`) proves, for every set of file names, every bound on objects
and all repositories, replaced however they are:

| theorem | property |
|---|---|
| `ControlerTyping` | `TypeOK`, of `Spec` |
| `ControlerUsersStay` | `UsersStay` |
| `ClientTyping` | `TypeOK`, of `ClientSpec` |
| `ClientKeepsUsers` | `OptionsKeepUsers` |

Assumed of the constants: file names are finitely many numbers (their
alphabetical order), stamps are finitely many and at least one, and repositories
are lists of files whose entries have the fields of a package
(`RepositoriesAssumption`; what the readers throw at otherwise). Nothing is assumed
of what requires what: circles, missing entries, shared requirements and support
packages are all in.

The argument. `TypeOK` is inductive as it stands, and has the most in it: pointers
lead to objects that are there, the map has one object under a name (`OneEach`),
and the heap is what the map reaches, no more and no less. What an operation works
on in between is looser: objects that were just read are in no map, and an
addition that throws has rewired some pointers and not others. `Worlds` says what
is true there; `Sound` what an operation leaves, and `Settled` that freeing what is
no longer reached makes `TypeOK` of it, for which `ClosureIs` is needed: the search
through requirements gives the least closed set. For each function of the code
one lemma says what it may change: pointers and the exception only (`Kin`:
`CycleCheckIn`, `ConnectIn`, `CycleDestroyIn`, `WriteAllIn`), or, for `add`, also new
objects in the map and flags that are set and never set back (`Additions`:
`ManagerAddIn`). That `add` with a flag that is not set would set one back, and does
not since it is called so for names that are not in the map only, is the one place
where the guard matters. The functions nest, so each lemma is proved for one call
under the hypothesis that the calls it makes obey it, and then for every depth
(`Nested`); the loops in them are followed element by element (`LoopIn`). For the
two removals, what users need is in what the threads visited, whatever they met
first of two objects with one name (`ManagerRemoveIn`, `ManagerRemoveUnuseIn`).
`UsersStay` and `OptionsKeepUsers` follow from the same lemmas.

Two theorems of `PackagesTheorems` are the part of `Coherent` and `ExactlyNeeded`
that is about the removals. `SweepLeavesNeeded`: if the objects are those of the
map, `remove_unuse` leaves exactly what users asked for and what that needs, and the
objects are again those of the map. `RemoveLeavesNeeded`: if all of them are
needed as well, `remove` is refused exactly for what other users need, and else
leaves just that. Colours by name are then as good as colours of objects
(`VisitedReaches`). That everything was needed before is used: `map_erase_visit`
starts from the package that is removed, and would leave a package nobody needs
that requires one it erases. Circles do no harm here. With support packages the premise
fails: no flag can be set on one, so one that was installed on its own counts as
needed by nobody, and a removal may take away what it requires.

`CoherenceProofs` (over `CoherenceTheorems`, on what the operators of `Packages` leave
of a manager that is tidy) proves what holds of repositories of main packages, for
every set of file names and all such repositories:

| theorem | property |
|---|---|
| `ControlerCoherent`, `ClientCoherent` | `Coherent` |
| `ControlerExactlyNeeded`, `ClientExactlyNeeded` | `ExactlyNeeded` |
| `ControlerTargetOutlives` | `TargetOutlivesRemoval` |
| `ClientTargetOutlives` | `OptionTargetOutlives`, also after a write that failed |
| `ControlerSweepsAgree` | `SweepsAgree` |
| `ControlerAcyclic` | `NamesAcyclic`, which support packages break (section 5) |
| `ControlerStorageIsCurrent` | `StorageIsCurrent` |
| `ControlerStorageReadable`, `ClientStorageReadable` | `StorageReadable` |
| `ControlerRefusedChangesNothing` | `RefusedChangesNothing` |
| `ClientNothingLost` | `NothingLost` |

Their hypotheses are conditions on the repositories: `MainOnly`, which is part of
`Coherent` and `ExactlyNeeded` anyway, and `NoWrappers`. With wrappers the two do not
hold for all repositories: a wrapper is equal to a newer one that requires more
(section 5). Of what the entries require, of versions and of how repositories are
replaced the first six rows assume nothing; circles, missing entries and names that
are required twice are refused by the reader, and that this is enough is part of the
proof. The last four, on the storage file, assume `Agreeing` as well: a package
requires the same in all repositories of a list and in those that may replace it,
whatever versions they have of it. Without it they do not hold (`two_repositories`);
the main packages of the runs `controler` and `client` satisfy it, but for the two
repositories of `client` that are there to disagree.
Assumed of the constants, besides the above: the sets of lists that replace each
other do not overlap (`FamiliesAssumption`), so that being replaceable is an
equivalence and `MainOnly` keeps its value, and no text of entries is the empty one
(`TruncatedAssumption`).

The argument. The inductive invariant is `CoherenceInv`: the objects are those of the
map, the storage has main packages only, and the map is `Tidy`. That is: one object
of a name; all requirements are objects of the map; none of them leads back to its
own name, however far; and everything can be reached from what users asked for. None
of these is inductive without the others. An addition starts from what was read: a
tree, since the reader refuses a name that it meets twice (`ReadPackageTree`), whose
names partly are those of the map. `connect_equal_pointers` descends only where the
map has no object of the name, and stops below a pointer it has redirected; that
all the tree above those places is joined to the map (`ConnectJoins`) needs that the
tree has each name once. Redirected pointers could close a circle through the map.
They do not: what the map has leads to the map only, and the map has none of the
names above. So the checks on the way find nothing (`BetweenCheck`), `add` of what is
required never meets a name with another configuration (`AddTurn`), and the manager
is tidy again (`ManagerAddTidies`) or nothing was changed (`Answered`). The depth of
the calls matters here, since a call that is cut off would connect nothing: calls
nest no deeper than there are names below (`Size`, `SizeShrinks`). Removals and
sweeps leave a closed part of the map that users need (`TidyPart`), and a process that
starts finds trees in its file (`LoadedTidies`). `SweepsAgree` follows since the
search of `remove_unuse_one_thread` visits every name whose object it meets
(`OneThreadColours`): without a way back no name it meets is grey.

For the storage file a second invariant is needed, `MirrorInv`. Repositories that agree
are parts of one file, `base` (`HasBase`), and the objects require what its entries do
(`Mirrors`), each of them in a way that the reader would accept. That is what makes
writing safe: `write_package_to_json` throws when it comes to a name twice, so a
diamond in the map empties the file; what mirrors entries that can be read is a tree
below each object (`MirrorSprouts`), and is written whole, in whatever order the map
has its entries (`WriteExact`, `WriteAllExact`). The invariant says of the file that it
is `Backed`: its entries require what base says and can be read there, all that they
require is in the file, and every entry is needed by one with the flag. The last is
what lets the next process start with all of it (`BackedLoads`, `LoadedMirrors`); it
is not lost when `add` keeps the entry of a dependency and drops the new flag, since
the entry was needed before (`AddedBacked`). The client removes without writing, so
there the file only has the names of the map and perhaps more; in the controler it is
up to date (`UpToDate`, `CurrentInv`), which every writing makes true again and `add`
keeps, as the manager changes no field of what was installed but the flag
(`AddedUpToDate`). `RefusedChangesNothing` follows: with nothing to throw at while
writing, only refusals of the manager before it changes anything are left.

The proofs about maps and packages are by induction over the turns of loops and
the depth of calls. The induction theorems of the library take an operator, which
the provers cannot instantiate; `Induction` states the principle for sets instead,
and follows from `LeastNumber`, that every set of natural numbers has a least one,
which the library has for well-founded relations. That a recursive function has
the values its definition says is proved from there (`Steps`, `GrowingIsLeast`).

Only model-checked:

- liveness (`OperationsReturn`, `UpdatesReturn`, `AllReceived`, `ReceiveEnds`):
  neither fairness nor ENABLED is in reach of the prover;
- `Coherent`, `ExactlyNeeded`, `SweepsAgree`, `TargetOutlivesRemoval` and
  `OptionTargetOutlives` for repositories with wrappers or support packages, of which
  they do not always hold;
- `StorageIsCurrent`, `StorageReadable`, `NothingLost` and `RefusedChangesNothing`
  where repositories do not agree on what a package requires, of which they do not
  always hold (`two_repositories` empties the file).

## 5. What disagrees with the code's own words

Each is a run that ends in a counterexample:

- `acyclic`: `connect_equal_pointers` replaces a pointer after it was checked for
  circles. With a removed package that is still referenced and a changed
  repository, packages come to require one another by name.
- `sweep`: colours are kept by name, pointers lead to objects. A thread that
  meets a removed object first colours its name, and the requirements of the
  object now in the map are swept although a user's package needs them.
- `two_repositories`: a diamond can be installed from two repositories, and
  cannot be written: the storage file is left empty.
- `latest`: the search for the last version of a package ends at the first entry
  that is newer than the wrapper (`controler/strategy.cpp:161`), and versions are
  compared as texts; `package/empty_package.h:18` and `:30` speak of the latest
  version.
- `server_files`: every request of an administrator, also one with a wrong
  password, empties all repository files of the server.

Seen while modelling, without a run of their own: `remove` takes away what an
installed support package requires, since only packages with the using flag are
protected (`package_manager.cpp:161`), and after that and an addition the threads of
the next removal race on the table of colours (`package_manager.cpp:96`; section 2 has
the steps); if 2 requires 1 and 1, which is removed and comes back from another
repository, requires 2, the write of that addition fails, the circle stays in memory,
and option 2 for package 2 ends in freed memory (`package_manager.cpp:142`;
`RemoveFreed`); adding a package twice ends the client
(`client_app.cpp:133`); an administrator can remove no package, since the manager
has just been emptied (`server_app.cpp:73`), and ends the server by choosing to
leave (`admin_app.cpp:57`, `server_app.cpp:58`); a refused user gets the request
back instead of the refusal (`handle_strategy.h:158`); a dependency that the user
installs later keeps its entry in the storage without the flag
(`strategy.cpp:315`); removals in the client come back with the next process
(`client_app.cpp:87`); a support package that a user installed on its own is not
loaded again, as no entry with the flag leads to it; a copy-constructed map
counts its entries twice (`map.h:568`; `SizeStaysExact` names it as the only
operation that does); move assignment between maps with equal content leaves the
source its entries (`map.h:655`), and what counts as equal is `size()` and the
entries up to the end of one iteration, so that a copy-constructed map is equal to
one with more entries and follows a null pointer when it is compared with one with
fewer (`map.h:738`; no code in `src/` assigns maps by move, and `MovesArrive` says
when it is safe); a wrapper is equal to a newer one of the same name that requires
more, so that installing the newer one adds what only it requires and keeps the
older one, which does not: nobody needs what was added, and it stays
(`empty_package.h:304`; breaks `ExactlyNeeded` when a repository whose wrapper
requires nothing is replaced by one whose wrapper requires a package); a wrapper
around a support package is written to the storage and refused by the reader (`strategy.h:194`); `Controler::add_package` never finds a
name that ends in `-last`, as the names of entries end in `.dep`
(`controler.cpp:156`); the last version of a package that is installed is refused,
as it has the same file name and is of another kind.

## 6. What is not modelled

- A kill inside a write of the storage file: it leaves the empty or half file
  that `two_repositories` also reaches.
- What a data race on the table of colours does to the process (section 2).
- `add_with_deep_copying` and `clear`: only tests call them. `devide` and `connect`
  of support packages: nothing calls them. What the setters of packages refuse:
  the entries of the files are well-formed.
- Packages that are made outside of the readers, in circles or with a shared
  requirement: no program makes them. `cycle_destroy` is modelled as the controler
  calls it.
- Allocation failures; allocators and iterator types of `Map`; values written
  through references that `operator[]` and `at` return.
- Partial sends and receives in `Network`: messages are whole, as `Framing` shows
  they are when they are received at all. `NewRepositories` of `Controler`
  replaces the files at once; `Network` has the exchange, and the client that ends
  between opening a file and writing it.
- A server killed while it writes a file; SIGINT is modelled.
- The view: terminal text only.

## 7. Plan

Done: 1. removal with its threads, its atomic specification and proofs;
2. packages and controler; 3. the client's menu; 4. the map; 5. the server, the
update of the client and the administrator; 6. framing, against a channel of whole
messages; 7. wrappers and the search for the last version; 8. proofs about the
server and its peers and about framing; 9. proofs about the map: all that its run
checks; 10. `Packages` without recursive operators, and proofs about controler and
client: what their objects look like, and that users lose nothing; 11. proofs that
map and objects agree, with main packages; 12. proofs that the storage file agrees
with them, if the repositories do with each other.

Next, in this order:

13. `Repositories`: what the server's files promise a client, as an atomic
    specification that `Network` implements.
14. Packages made outside of the readers: `cycle_destroy` (does it leave no circle
    and erase only pointers on circles?), `add_with_deep_copying`, `clear`,
    `devide` and `connect`.
