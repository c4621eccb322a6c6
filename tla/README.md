# A TLA+ model of whispercast-extra

This directory holds TLA+ modules that model the programs of this repository, TLC
configurations that check them on small instances, and proofs that TLAPS checks for every
value of their constants. The model is translated from the sources; line numbers are in
`PROJECT.json` (`map`).

The repository is a collection of programs and plug-ins around the whispercast media server:

- **transcoder/**: a master that accepts media files from users and hands them to slaves,
  slaves that run a transcoding process per file, RPCs in both directions, state on disk on
  both sides;
- **whisperproc2/**: a thread that composes recorded parts into time range files;
- **extra_library/** and **osd/**: elements, policies and authorizers that a media server loads:
  play lists by the time of the day or by a state machine, authorization over HTTP, streams in
  several flavours, and on-screen displays (OSDs) that are added to the streams of clients;
- tools, statistics and user interfaces.

The first three are modelled here, but for the parts that section 5 lists.

## 1. Inventory

### Components

| component | state | operations | what makes it correct |
|---|---|---|---|
| `transcoder/multi_process` | process vector, `is_running_` flags, one completion callback | `Start`, `ProcessExit` (in threads of their own), `StopAndClear` | order of a sequence; one completion, after everything ended, with the right outcome |
| `transcoder/master`: `RPCMasterManagerService`, `RPCMasterControlService` | `pending_files_`, slaves, state keeper | user `AddFile`, `DelFile`, queries; `GrabMediaFile`; `NotifyStateChange`; start, stop, load, save | no file lost, none in two places, disk and memory agree |
| `transcoder/master`: `SlaveController` (one per slave) | `files_` with an alarm each, RPC client, state keeper | grab alarm, file alarm, RPC results, notifications, load, save | limits; offers are repeated until accepted |
| `transcoder/slave`: `RPCSlaveManagerService` | `files_`, `masters_`, `active_processes_`, state keeper | RPC `AddFile`, `DelFile`, queries; process exit; notification result; start, stop, load, save | limit of processes; one process per file; results are final and durable |
| `transcoder/slave`: `MasterWrapper` | RPC connection, `pin_count_`, `files_` | `Pin`, `Unpin`, `Start`, `Stop` | not freed while in use |
| `transcoder/transcoder/media_transcoder` | GStreamer pipelines | an application | (run as a process by the slave) |
| `transcoder/directory_*monitor`, `common` | directory contents, path syntax | used by no manager | pure |
| `whisperproc2` | a directory of recorded parts, a thread | scan, join, rename, delete | no part lost or used twice, across crashes; names are ranges that do not overlap |
| `extra_library`: schedule policy | items, current item, alarm, state keeper | alarm, end of stream, RPCs, load, save | what is due is played; always an alarm to come; play lists survive |
| `extra_library`: logic policy | states, current state, counts of tags, timeout | tags, timeout, RPCs, load | the current state is alive; its timeout rings in it |
| `extra_library`: time delay policy | current media, alarms | (unfinished) | — |
| `extra_library`: HTTP authorizer | `active_` | `Authorize`, `Cancel`, reply | one reply each, none after cancel |
| `extra_library`: flavouring element | flavours, clients, upstream requests | add, remove, EOS, RPCs, close, load, save | all three agree; no use of what was removed; close ends |
| `extra_library`: time range, time shift, feature elements | positions in files | `AddRequest`, tags | — |
| `extra_library`: auxiliary element mapper | media aliases | RPC | — |
| `osd`: associator | overlay and crawler types, OSDs per media, clients | RPCs, tags, load, save | clients show what is associated with their media; no dangling objects |
| `osd`: remote associator client | servers, cache, clients | RPC to a server per client, its answer, tags, RPCs | answers reach the client that asked |
| `osd`: state keeper | overlays, crawlers, ... seen so far | tags, clients that come late, load, save | late clients see what others see |
| `osd`: injector, tag coding | — | conversions | — |
| `flash_policy_server` | connections with a timeout each | request, reply, close | every full request answered |
| `stats`, `whispercmd`, `whisperproc`, `utils`, `features` | — | tools | — |
| `admin`, `happhub`, `flash`, `whisperPlayer` | — | user interfaces | — |

`whisperlib` and `whisperstreamlib` are not in the repository: their RPC clients, processes,
state keepers, savers, caches and media mapper are modelled from how this code uses them (marked
external in the map).

### How the parts interact

    user --AddFile/DelFile--> MasterControl -> MasterManager.pending_files_
                                                   | grabbed by the 3 s alarm
                                                   v
                               SlaveController.files_ --AddFile RPC--> SlaveManager.files_
                                        ^                                  | process per file
                                        +---- NotifyStateChange RPC -------+ via MasterWrapper

    saver --part files--> directory --Processor thread--> media/ (time range files)

    media server: users --RPC--> element or policy <--> its media, clients, alarm, state keeper

Each process of the transcoder and each media server has one selector thread, so a handler is
atomic with respect to other handlers of the same process, and that is the grain of the actions
of the models, but for calls back into the caller, which are part of the action. Two places are
different. In `multi_process` exits are handled in other threads and `Start()` takes no lock, so
its model splits `Start()` at every process into spawning and marking. The thread of `Processor`
works on files that survive a crash, so its model has a step for each operation on files.

Elements, policies and authorizers of a media server do not call each other and share no state
in this repository: they meet in the server's own mapper, which is not here. So their modules are
put side by side in `Elements`, with one of them active in each behaviour: it is what one run checks
and what the theorems about them are about.

### What is hard here

`hazards` in `PROJECT.json` lists them at their lines. They are of these sorts: threads against
an unlocked loop (`multi_process`); two lists persisted at different times and a crash between
(`master`); lost calls, lost answers and repeated offers (`SlaveController`); late notifications;
counting of what runs against what is in a list (`slave`); an uninitialised reference count, its
wrap-around and the objects it frees (`MasterWrapper`); repeated `Stop()`; a crash between
composing, renaming and deleting files (`Processor`); objects whose addresses clients keep while
users replace them (`osd`, flavouring, logic policy); answers that come after the client has left
(HTTP authorizer, remote associator); calls back that remove what is being iterated over
(flavouring); alarms that must always leave another alarm behind, and the moments at which items
begin and end (schedule policy).

## 2. Modules

| module | models | composed of |
|---|---|---|
| `FStates` | `constants.{h,cc}`: file states; a `MediaFile` is its state and whether it has an error text | |
| `MultiProcess` | `multi_process.{h,cc}` | |
| `MasterManager` | both services of the master and its slave controllers; slaves are an arbitrary environment | `FStates` |
| `SlaveManager` | the slaves' service, wrappers and processes; masters are an arbitrary environment | `FStates` |
| `Job` | abstract specification: where a file is at its slave and what the master shows of it | `FStates` |
| `Transcoder` | one master, its slaves and the network between them; implements `Job` | `INSTANCE` of the two managers and of `Job` |
| `Processor` | `whisperproc2/processor.{h,cc}`, savers and crashes | |
| `SchedulePolicy` | `schedule_policy.{h,cc}` | |
| `LogicPolicy` | `logic_policy.{h,cc}` | |
| `HttpAuthorizer` | `http_authorizer.{h,cc}` | |
| `Flavouring` | `flavouring_element.{h,cc}` | |
| `OsdAssociator` | `osd_associator_element.{h,cc}` | |
| `OsdAssociatorClient` | `osd_associator_client_element.{h,cc}` | |
| `OsdStateKeeper` | `osd_state_keeper_element.{h,cc}` | |
| `Elements` | the last seven side by side, one of them active | `INSTANCE` of each |
| `MC...` | constants and symmetry sets for TLC | |
| `..._proofs` | theorems | |

An operator whose name ends in an underscore and a word (`SetFile_Unsaved`), with a comment
that begins "Deviation", is not part of a model: it is a plausible bug in the definition that
follows it, and `PROJECT.json` (`mutants`) says which property it breaks.

### MultiProcess

`os[i]` is the life of the OS process, `isRunning` the flag of its `ProcessState`, `startPc`
and `startIdx` where `Start()` is. `SpawnOk`/`SpawnFails` and `MarkRunning` are the two steps
of `Start()` per process, which take no lock; `ProcessExit` is the whole callback, including
the spawning of the next process in a sequence and the run of the completion callback.
`StopAndClear` may come whenever the owner is not inside `Start()`. `Kill()` is taken at its
best (a killed process runs no callback); an exit that is already waiting for the lock does run,
on a freed `ProcessState`, and sets `aborted`.

### MasterManager

`pending` is `pending_files_`, `cfiles[s]` is `files_` of the controller of slave s,
`calls[s]` its `AddFile` RPCs without a result, `hasKey`, `savedPending` and `savedFiles` the
state keeper. `phase = "stopped"` is the time between the explicit `Stop()` and the destructor,
which calls `Stop()` again. Every action is a whole handler with its trailing `Save()`:
`MaybeGrabMediaFile` includes `GrabMediaFile`, `AddFile` and `Save`; a failing CHECK or
LOG_FATAL in it is `Abort`, which ends the process and remembers why. `CrashInLoad` is a crash
between two of the `Save()` calls that `Load()` makes. Other crashes in the middle of a handler
are those before or after it, because each handler writes at most once. `FilesAreKept` follows
each file of a controller through all of this: what is known of it is on disk after each step, and
nothing but a handler of an up master changes it. It names the three ways in which the code loses a
file (`KnownLoss`): a `Load()` that dies truncates the list, the second `Stop()` writes an empty one,
and after a `Load()` without the pending key the first `Save()` of a controller overwrites its list.
A crash between two handlers loses nothing.

Abstracted: paths, processing parameters, dates, the transcoding status, the removal of files
on disk, the kind of RPC connection. The alarm periods are left out (an alarm may ring at any
time). RPCs that the selector might still serve between `Stop()` and its exit are not modelled.
`SlaveController::pending_files_` is always empty, because nothing calls `QueueMediaFile`, and
`DeleteMediaFile` of the controller has no caller either.

### SlaveManager

`mem[s]` is the memory of slave s, a record: `files`, `masters` (by recomposed URI), `heap`
(the `MasterWrapper` objects, live or freed, with their pins), `procs` (processes per file id)
and `notes` (notifications without a result). Operators on such a record are the functions of
the code: `ChangeFileStates` sets the state, pins the wrapper and sends the notification for a
set of files (the code does it one by one, within one handler), `MoreFiles` is
`StartProcessingMoreFiles`, `AfterAddFile` finds or makes the wrapper. `Return` ends a handler
with the `Save()` of `ChangeFileState`. `pin_count_` is never initialised in the code: its first
value is any member of `PinGarbage`, and it counts modulo `W`. What a freed wrapper does to its
user is a choice: the call goes through the CHECK in `RPCWrapper()` (freed objects have a NULL
there) and fails, while reading `uri()` of a freed object in `Save()` may succeed or not.

Abstracted: the output directories, progress messages, texts of errors (whether there is one is
kept), failures to parse a URI or to open a connection.

### Transcoder and Job

`Transcoder` joins them: an `AddFile` RPC is executed and answered, executed and its answer
lost, or lost, and so is a notification. `ScpPath` is the path by which the slave knows a file:
`ProcessFile` swaps the first two arguments of `AddFile`, so the slave takes the path for the
id. With ids of their own (`MCOwnPath`, run `names`) users' files are never found when a
notification comes. The other runs use ids that are equal to the paths (`MCSamePath`), where
the system works as intended, to check everything else.

`Job` has two variables per slave and file: `stage`, how far it has come at the slave, and
`view`, what the master shows. The mapping (`Stage`, `Shows`) takes for `stage` what the slave
has on disk once it is beyond PENDING, and for `view` the master's memory, or its disk while it
is down. `ImplementsJob` says that every step of the composition is a step of `Job` or none.

### Processor

A part is one unit of recorded time, `[ts, ts + 1)`, and says whether it starts a new chunk;
`parts[d]` are the part files of a directory, `media[d]` the time range files, each with its name
(`begin`, `end`), what was written to it and whether it is complete. `thread.pc` is where the
thread is: `ListDirs` and `NextDir` are the scan of `ThreadRun`, `Choose` is
`GetProcessableFiles` (`Processable`, `Selection`, `NextTs`), and then come the operations on files
of `ProcessDirectoryOnce`: the joiner opens its output (`JoinBegins`) and ends with media, without,
or with an error; an output of unknown end is renamed (`Rename`); the parts are consumed one by
one (`Consume`). `Crash` may come before each of them and leaves the files as they are. `Tick`
is the savers: each of them may leave the part of this unit or not.

The length of an output is what the joiner (of the media library, not of this directory) returns: any
member of `Lengths`, shorter or longer than the time of the parts. The end of a range is the time of
the next part, or follows from the length; `RangesAreDisjoint` says that ranges do not overlap, except
where such a length is more than the time of the parts.

Abstracted: failures of `io::Rm` and `io::Rename`, that a saver writes a part over some time (a part
appears complete), `done_files/`
(a moved part is a consumed part), the order in which directories are listed. The clock counts
parts, so times that are not multiples of a part do not occur.

### SchedulePolicy

The clock counts units of `kMinScheduleError`. `policy` is the object, with `specs_`, the current
item, the moment at which it began and the alarm; `player` what its element plays; `keeper`
the state keeper. `GetItemAtTime`, `GetNextItem` and `GoToNext` are the functions of that name,
`Register` registers the alarm. Actions: `Start` (with `LoadState`, whose calls save over what is
being loaded), `RpcSetPlaylist`, `RpcSetDefaultMedia`, `Alarm`, `NotifyEos`, `Crash`. `Due` is a
reference definition of what is due, from the text of the header; `EndsWhenInterrupted` compares
`GetItemAtTime` with it at each moment.

Abstracted: items of other periods than a day; one zone of time; temporary policies, which save
nothing; RPCs that only read.

### LogicPolicy

`states` and `heap` are the map of states and the objects in it, `crt` the address of the current
one (`crt_state_`), `actions` and `counts` its `crt_action_map_`. `SwitchToState`,
`SetPlaylist` and `NotifyTag`, `NotifyEos`, `NotifyTimeout` are as in the code. A play list that
leaves out the current state makes the code use `end()` of a map: the program ends, or goes on
(`logicFailed`). Abstracted: extra medias, parameters of tags.

### HttpAuthorizer

`active_` is a set of addresses of completion callbacks, and an address may be used again, so the
model counts answers per authorization and not per address (`answers`). Abstracted: the request
and what the reply says.

### Flavouring

A flavour is a mask, a set of bits; `flavours` has the `FlavourStruct` of each mask, `rs[o]` the clients
registered there, `reqs` is `req_map_`, `internal[c]` the flavours a client has, and `upstream` the
requests at the media mapper. A client that is sent an EOS may leave within the call, so that
operations that send one to a set of clients also choose who of them leaves
(`RemoveRequests`, `Unregister`): what the loops do for one client touches only what is its own, so
that their order does not matter.
Abstracted: masks and time stamps of the tags that pass; `HasMedia`, `ListMedia`.

### OsdAssociator, OsdAssociatorClient, OsdStateKeeper

In all three a client's view is modelled next to what the element knows. `pending_osd_tags_` is a
list of tags; the model keeps what it does to each overlay (create in a style, destroy, nothing).

`OsdAssociator`: `elem.types` is `overlay_types_`, `elem.osds` maps medias to addresses of `ClipOsds`
in `elem.heap`, `clients[c].assoc` is `assoc_paths_`, which holds such addresses. The RPCs are
operators on the whole state (`SetAssociatedOsds`, `DestroyOverlayType`, ...), because
`SetFullState` calls them one after the other. `NormalizePath` is a constant: of the operations only
`SetAssociatedOsds` normalizes the path it is given; the others, the tags of sources and the
comparisons of `SetFullState` use paths as they are written. Crawlers are kept by code of the same shape as
overlays and are left out, as are pictures in pictures, click URLs and contents.

`OsdAssociatorClient`: `heap` has the `ClientCallbackData` objects, whose addresses are in `known`
(`clients_`) and in the RPCs under way (`calls`). A call remembers whether the client at its address
is the one that asked. The first use of a freed object ends the behaviour. An OSD is a set of
overlays; other sorts are created and destroyed in the same way. `PathBased` is the search along
directories (`Above`) in the map of servers and in the cache, where an entry may leave at any time (it
expires, is pushed out or cleared).

`OsdStateKeeper`: clients and the element get the same tags from the same source, the element
before or after a client, and a client is sent a bootstrap with its first tag (`FilterTag`). Movies
are left out.

## 3. Runs

All runs together take about ten minutes on two cores.

| run | configuration | checks | result |
|---|---|---|---|
| `mp_sequential` | N = 5, codes 0..2, stop at any time, fair | `SequentialOrder`, `SequentialResult`, `CompletionFollowsStart` | hold |
| `mp_parallel` | N = 3 | `ParallelResultUnlessEarly` | holds |
| `master_files` | 2 ids, 2 slaves, 2 lives | `TypeOK`, `OnePlace`, `NothingForgotten`, `FilesAreKept` | hold |
| `master_grab` | 1 slave, a crash | `GrabNeverDuplicates` | violated |
| `master_stop` | a regular shutdown | `StopKeepsFiles` | violated |
| `slave_files` | 3 files, 2 at a time, DelFile, a wildcard URI, pins from 0, 1 or W - 1 | `TypeOK`, `ParallelLimit`, `OneProcessEach`, `WorkIsDurable`, `PinsCountCalls`, `ReadyIsFinal`, `MastersLive` | hold |
| `two_slaves` | 1 file, 2 slaves, 2 lives of each process | `TranscodedOnce`, `ImplementsJob` | hold |
| `live` | 1 file, 1 slave, which may crash, fair | `OffersReachTheSlave`, `StartedJobsEnd` | hold |
| `names` | ids that are not paths | `NotifiedIdsAreKnown` | violated |
| `recording` | 1 directory, 4 parts, 3 starts, fair | `TypeOK`, `NothingIsLost`, `ComposedOnce`, `RangesAreDisjoint`, `ChunksStayApart`, `EveryPartIsProcessed` | hold |
| `elements` | see below | `TypeOK` of each module; `NoDanglingClip`, `ShownIsAssociated`, `SetFullStateIsExact`, `AssociationsAreDurable`, `EosClears` (OSDs); `EndsWhenInterrupted`, `FollowsSchedule`, `NeverAsleep`, `PlaylistIsDurable` (schedule); `OneAnswerEach`; `RegistrationsMatch`, `CloseIsNotStuck` (flavouring); `LateClientsCatchUp`; `CurrentStateIsLive` (logic) | hold |
| `remote_osd` | 1 client at a time, a file and its directory | `LateAnswersAreIgnored` | violated |

What the violated ones show (quotes and lines are under `findings`):

- `master_grab`: the pending list is saved by `Stop()` only, the controllers' lists at each
  change. After one regular stop, one grab and one crash, a file is in both, and every later life
  of the master ends in the CHECK of `MaybeGrabMediaFile`. `OnePlace` shows that without a
  crash no file is ever in two places.
- `master_stop`: the application calls `Stop()`, and the destructor calls it again. The second
  call saves the lists that the first one emptied: the next life forgets every grabbed file.
- `names`: see `Transcoder` above.
- `remote_osd`: a client asks, leaves, and the answer comes. `DeleteCallbackData` never takes a
  client out of `clients_`, so that the test meant for this case finds it there, and before that
  test its path is read from the freed object. At a path whose address was used again, the answer
  is given to another client.

### Configurations that are not runs

These are kept for a reader to run (`tlc -config X.cfg M`); they check statements of the code and
its comments that are written down in the modules and that the code does not satisfy, or other
instances.

| configuration | module | checks | result |
|---|---|---|---|
| `MultiProcessEarly` | `MCMultiProcess` | `CompletionMeansAllFinished` | violated: in parallel, an exit handled before the next process is marked completes the whole run (`ParallelResultUnlessEarly` shows that this is the only way to a wrong report) |
| `MultiProcessLost` | `MCMultiProcess` | `CompletionFollowsStart` in parallel | violated: an exit handled before its own mark leaves the mark for ever |
| `MultiProcessAbort` | `MCMultiProcess` | `NeverAborts` | violated: an exit waits for the lock during `StopAndClear()` |
| `MasterDelete` | `MCMasterManager` | `DeletedIsGone` | violated: `DelFile` finds pending files only |
| `MasterLimit` | `MCMasterManager` | `AtMostMaxProcessing` | violated: grabbed files are not counted |
| `MasterReady` | `MCMasterManager` | `ReadyIsDistributed` | violated: the alarm of a finished file is a LOG_FATAL |
| `SlavePins` | `MCSlaveManager` | `NoUseAfterFree` | violated: `pin_count_` starts at 0 |
| `SlaveErase` | `MCSlaveManager` | `ErasedMasterFound` | violated: a wildcard URI is erased under another key |
| `SlaveIdle` | `MCSlaveManager` | `PendingMeansBusy` | violated: nothing is started when a process ends |
| `SlaveLimit` | `MCSlaveManager` | `ProcessesWithinLimit` | violated: `DelFile` leaves the process alone |
| `TranscoderLost` | `MCTranscoder` | `OutcomeIsLearned` | violated: lost notifications are not repeated |
| `Job` | `MCJob` | `ViewIsNeverAhead` | holds |
| `ScheduleSilence` | `MCSchedulePolicy` | `AlarmEndsSilence` | violated: after a very short stream the alarm rings, and finds the item that is due to be the current one: the element stays silent |
| `SchedulePolicy` | `MCSchedulePolicy` | all of the module, with `ChecksHold` | hold |

### Further observations

Met while modelling, and kept in the models as they are in the code:

- `Processor`: the header says that the next time stamp is that of "the file following the current
  selection"; when the selection takes all files, it is that of its last one, and the last part of
  the output is not in the range of its name (`NextTs`). After a crash between
  the renaming and the consuming, the name of a chunk is taken: the output of the repeated
  composition keeps the name `[begin, 0]` beside it. After other crashes a part may be in two
  outputs.
- `MasterManager`: `Load()` of a slave controller saves after each file it adds, so that a crash within it
  loses the files not yet added; and a master that crashed before its first `Stop()` has no pending
  list on disk, so that its `Load()` returns before the controllers load theirs, which they then
  overwrite. `FilesAreKept` allows these two losses and the one of `master_stop`, and no other.
- `OsdAssociator`: at EOS the tags that end overlays come before those that were pending, so an
  overlay created just before stays. `DestroyOverlayType` removes an overlay from clips in
  memory, but saves only the type. `GetOverlayType` of an unknown id uses `end()`. What was set
  under a path with "//" is not found under it by `DeleteAssociatedOsds`, nor for a source of that
  path, and a `SetFullState` that gives it again deletes it and sets it again.
- `OsdAssociatorClient`: an answer's `specific` OSD replaces the `global` one, while `GetMediaOsd`
  appends it; the cache holds the `global` one only, for the client's path and all below it. The
  flags `eos_clear_...` are not read: everything ends at EOS. `GetMediaOsd` searches for an empty path.
- `OsdStateKeeper`: after an EOS the element is deaf for good; the click URL is not saved.
- `SchedulePolicy`: which of two items that begin at once is due depends on the order of a hash map.
  After a restart the saved item is played though another is due, until the alarm. An item that ends
  within a millisecond fails `CHECK(now > current_begin_ts_)`. A default media that is set
  while an item plays is not saved. The current id is an `int`, ids are 64 bits wide. With an empty
  default media and nothing due, a start overwrites the play list on disk.
- `LogicPolicy`: a play list without the current state uses `end()`; nothing calls `SaveState`, so
  `Refresh` finds nothing; a failed switch forgets the timeout.
- `HttpAuthorizer`: when a cancelled authorization's address is used again, the late reply of the
  old request answers the new one.
- `Flavouring`: the flavours of the configuration are added, and saved, before `Load()`, over what
  users have set. `Unregister` erases the element that the iterator of `DelFlav` is at.
- `FlashPolicyServer` (not modelled): a request in two segments loses the first and is refused.

### Bounds

- `MaxStarts`, `MaxSlaveStarts` = 2: one crash or shutdown of each process and one recovery.
  What a third life starts from is what is on disk, as for the second.
- `MaxCalls` = 1: outstanding `AddFile` RPCs per controller. RPCs on one connection are served
  in order, and a second offer of a file is answered like a repeated one.
- `MaxNotes` = 1 or 2: notifications in flight per file. A file sends two in one life (PROCESSING
  and the outcome), so 2 lets both be in flight.
- `MaxProcs` = 2: a stale process beside the new one, for an id that was deleted and added again;
  `MaxDeleted` = 1 is the number of calls of `DelFile`.
- `Wrappers`: addresses are not reused, so there are as many as wrappers can be made in the run.
- `W` = 8 for 2^32 and `PinGarbage` with both ends of the range: the count wraps in two calls.
- 3 files with a limit of 2: one waits. 5 processes in sequence: a first, a last and three
  between; the proofs cover every number.
- `recording`: lengths are 1 and 2, for outputs of one or two parts: the exact one, a longer and a
  shorter one. Savers end before time 5, which leaves room for two outputs and a remainder; the
  clock goes on to 7, when the last part is older than `MaxDelay`. Three starts: a crash in the
  repetition of what a crash has cut.
- `elements`: one client and two medias, one of which has a second path, with one overlay in two
  styles, four addresses for clips (one per path and a new one); full states with either path of
  that media, and one with both; a schedule of two items, a day of nine units, on a clock that runs
  for one day and two units, one play list set by a user; two addresses and four
  authorizations; two bits, three masks, two clients; two states of the logic machine, with four
  addresses; a file and its directory with two overlays. Interactions are between an
  operation and one client, or two clients of one flavour, or two items; a third would repeat them.
- Deadlock is not checked where the system may stop: all processes ended, no start is left, or the
  clock has stopped. `Job` never stops and is checked for deadlock.

### Fairness

`MultiProcess`: `Start()` goes on, every process exits some day, and its callback runs (it has a
thread of its own). `Transcoder`: alarms are periodic and the selectors run the callbacks they
are given; a started process exits; a slave that is down is started again while starts are
left; each RPC is executed or fails; and an offer that is repeated for ever is executed some
time (strong fairness on `AddFileExecuted` per file). No fairness is assumed of users, of
crashes, or of the master's start; the properties except a master that ends and a slave that
stays down. `Processor`: time passes, the thread runs, a program that is down is started while
starts are left, and a composition that is tried for ever succeeds some time (strong fairness on
`JoinEnds`); `EveryPartIsProcessed` excepts a program that stays down or was told to stop.

## 4. Proofs

Each theorem holds for every value of the constants that the assumptions at the end of this section
allow. In the proof modules, an invariant that is proved is split into named parts, each handler has
a lemma of its own, and what an operator on a memory does (`ChangeFileStates`, `AfterAddFile`,
`Saved`, ...) is a lemma that the handlers cite.

| theorem | states | argument |
|---|---|---|
| `RunsInOrder` | `SequentialOrder` in every sequential execution | `OrderInv` adds where `Start()` is: nothing is spawned before it. Lemma `Alone`: around a live process, all earlier ones are reaped and well, all later ones not started. |
| `ReportsRightly` | `SequentialResult` in every sequential execution | `ResultInv` adds that the callback is there until its one run. A live process means no report yet, so an exit finds the callback. |
| `ReportsAllInParallel` | `ParallelResultUnlessEarly` in a parallel execution that nobody stops | `ParallelInv` says, as long as no exit came early, that the marks are on the processes that were begun and have yet to exit, and that the outcome so far is that of the exits handled. So an exit that finds no mark left is the last. After an early exit only the types are left. |
| `TypeCorrect` (master) | `TypeOK` of the master | inductive as it is |
| `Durability` | `FilesAreKept`, an action property | `DurableInv`: while the master is up, a list on disk is the one in memory, unless there was no pending key and the controller holds nothing yet; and memory is empty while it is down. One lemma per kind of step says what stays known of each file. |
| `SinglePlace` | `OnePlace` | `PlacesInv` adds the same of the lists on disk while the master is not up (a later start loads them), and that every id in memory or on disk was submitted |
| `NothingLost` | `NothingForgotten` | `KeptInv` adds that before the first start nothing was submitted; lemma `KeptGrows`: lists of controllers only gain ids, so what is kept stays kept |
| `TypeCorrect` (slave), `ParallelIsLimited`, `ProcessesAreFiles`, `WorkSurvives` | `TypeOK`, `ParallelLimit`, `OneProcessEach`, `WorkIsDurable` of the slaves | `WorkInv` has all four for each slave (`WorkOK`), and three facts without which they are not inductive: a memory refers only to wrappers that were made, in numbers that can be counted; what a start would resume from the disk is within the limit; and what is ready on disk is in memory while the slave runs, or the next `Save()` would lose it. Lemma `AddWork`: a file that is added starts no more files than there are free places, whichever of the processes start. |
| `ReadyStays` | `ReadyIsFinal`, an action property | every handler keeps what is ready (`Kept`), by `WorkInv` |
| `PinsCount` | `PinsCountCalls` | `PinInv`: the count of a wrapper in use is its first value and the active calls on it, modulo `W`. A wrapper is in use by as many calls as it has places in the lists of notifications; a call that is sent adds one of each, an answer takes one of each. Modular arithmetic has lemmas of its own. |
| `LuckyMastersLive` | `MastersLive`, an action property | a first value from 1 to `W - 1` less the most calls there can be never becomes 0, by `PinInv`, so the wrapper is live and no CHECK fails |
| `NeverAhead` | `ViewIsNeverAhead` of `Job` | inductive together with the types: what is shown stays true when a file advances |
| `PartsHold` | the composition implements `MasterManager` and `SlaveManager` | each step of the network is a step of both, of one, or of none. So all the theorems about the parts hold of the composition, where their environment is the real one and not an arbitrary one. |
| `GivenToOneSlave` | `TranscodedOnce` | `TouchInv`: until a crash of the master, a slave that has a file in memory or on disk, or is asked to take it, is that of the only controller that has it (`Only`, from `OnePlace` and the states that go with unanswered calls), and no other slave is. It needs the invariants of both parts. |
| `FollowsJob` | `ImplementsJob`: each step of the composition is a step of `Job` or none | `JobInv`: for each file, what the master keeps in memory and on disk has happened at the slave; and once the outcome is known to it, the news that the file is PROCESSING is no longer under way. The second part is why the view does not go back: notifications of one file arrive in order. Per action, the lemmas say which `stage` moves, and that `view` moves to what is true of it. |
| `AnsweredOnce` | `OneAnswerEach` of the HTTP authorizer | `AnswersInv` adds that the active addresses are those whose owners wait, each for an authorization of its own: so a late reply to a cancelled request may answer a later one at its address, but only once |
| `RecordingTypes` | `TypeOK` of the recorder | inductive with the next two: the time in the name of an output needs a last part, which a directory has because all parts are older than the clock, and its length needs finitely many |
| `PartsAreKept` | `NothingIsLost` | `FilesInv` and `ThreadInv` say that parts are consumed in the order of time, and that an output has no part older than its begin; `SafeInv`, that what is about to be consumed is kept. A repeated composition begins at a part that is not consumed, so the outputs it replaces have no consumed part (lemma `OthersAreReplaced`). |
| `ChunksAreApart` | `ChunksStayApart` | lemma `SelectionIsPrefix`: of a new chunk only its first part can be selected, as the first of the selection |
| `PartsAreComposedOnce`, `RangesStayDisjoint` | `ComposedOnce`, `RangesAreDisjoint` | `OnceInv`, while nothing crashed or failed: the outputs of a directory that are done end before every part that is left, and are apart from each other; the output at work begins at its first selected part and its end, if known, is not after a part it leaves. An output named by its length ends before the rest, because its parts have different times (`PartsFit`), or it is longer than these (`TooLong`). |
| `ClipsAreThere`, `ShowsAssociated`, `Durable`, `Clears` | `NoDanglingClip`, `ShownIsAssociated`, `AssociationsAreDurable`, `EosClears` | For `OsdAssociator`, `OsdInv` says that each media has an address of its own for its clip, that clips are at normal paths, and that there are no others (`ElemOK`), that a client holds exactly the addresses of the clips of the medias it plays, and that what it shows after its pending tags is what these want (`ClientOK`); after an EOS, that what it still shows is accounted for; and that the state keeper has the same clips (`Kept`). An RPC, and each call within `SetFullState`, is a lemma on whole states. For `OsdAssociatorClient`, `RemoteInv` says of each client that was not deleted that its tags lead to what was last set (`InOrder`). |
| `FullStateIsExact` | `SetFullStateIsExact` | by `OsdInv` and what the four loops of `SetFullState` leave at each overlay and media (lemmas about folds over finite sets, in any order). The property is restricted to states that give no media twice (of two paths of one media the order of the names decides) and have the types they use (an overlay whose type it destroys leaves the clips that it does not set again) |
| `CatchUp` | `LateClientsCatchUp` | `KeeperInv` adds that nobody plays while the element is down and that who has not got a bootstrap has seen nothing. Lemma `BootstrapAfter`: a bootstrap that is appended to the tag that both have seen leads a new client to what the element has seen. |
| `CurrentIsLive` | `CurrentStateIsLive` | `LogicInv` adds that the state of every name is an object that is not deleted; a switch from a state and a new play list are lemmas |
| `RegistrationsAgree`, `CloseEnds` | `RegistrationsMatch`, `CloseIsNotStuck` | `FlavInv` adds that flavours do not overlap, in memory and on disk, and have objects that know their masks. Lemma `FlavourDeleted`: whomever the loop of `DelFlav` reaches and whoever leaves in it, all three still agree. |
| `OneAnswer` | `OneAnswerEach` in the composition | from the lemmas of `HttpAuthorizer_proofs` |
| `EndsAtInterruption` | `EndsWhenInterrupted` | what `GetItemAtTime` finds at any time: of the items that run, the one that began last (`CurrentOK`, by the least number of items for which it would not be so), until it is over or the next one begins (`EndCases`); in between nothing begins and the same one runs (`TimesStay`, `DueStays`) |
| `PlaysWhatIsDue`, `AlarmIsSet` | `FollowsSchedule`, `NeverAsleep` | `ScheduleInv`: the alarm is not after the end of what was due when it was set, and now is not beyond the alarm, so what was played then is due still (`PlaysUntilAlarm`). It needs that `GetNextItem` finds a moment after now, and before the end of what is due. |
| `PlaylistIsSaved` | `PlaylistIsDurable` | every change of the play list is saved in its step |
| `DelayIsPositive` | `ChecksHold` of `SchedulePolicy`: of the CHECKs only that of an item that ends as it begins fails | the same lemma on the alarm |
| `Typed` | `TypeOK` of each | the invariants above include the types |

By `PartsHold` the theorems about the master and the slaves are theorems about the composition; and
by `FollowsJob` and `NeverAhead` a user is never shown more of a file than what happened to it.

What the theorems assume of the constants is what the modules assume of them
(`MultiProcessAssumption`, `MasterAssumption`, `SlaveAssumption`, `TranscoderAssumption`, which is the
conjunction of the last two with what joins them): that limits are numbers, that a slave can be given
finitely many file ids (which a memory has), and that the first values of pin counts fit their width.
`ProcessorAssumption` is needed for lengths, which are positive numbers. `ElementsAssumption` says of the constants of the elements:

- the names of styles, medias and addresses are not those that mark "none" or NULL;
- there are finitely many overlays, medias, bits and states of a logic policy, and more addresses than
  the objects that can live at one time (one per path of a media, flavour, or state of the two play lists): the
  allocator finds a free one;
- what users write is of its type (full states, states, offsets and durations, which are not negative);
- a day and the length that stands for "unknown" are whole seconds, and a second is longer than the
  tolerance (`kMinScheduleError` is 100 ms);
- `NormalizePath` gives paths, and leaves those that it gives as they are;
- `Above` is what directories are: of those above a path, one lies below all others;
- the flavours of a configuration do not overlap: the constructor ends the program
  (`flavouring_element.cc:123`) if they do.

Further hypotheses are part of the theorems:

- `ReportsAllInParallel`: the execution is parallel and its owner does not stop it (`~CanStop`). What `StopAndClear()` does to
  a parallel execution is `MultiProcessAbort` in section 3.
- `GivenToOneSlave`: `OwnPaths`, different files have different paths at the slaves. The code does
  not see to it: two ids that users submit with one path are two files to the master, which may give
  them to two slaves.
- `FollowsJob`: `PathsAreIds`, a file whose id is also some path is known by that path. It holds of
  ids that are paths, as the system intends, and of ids of which none is a path (when no notification
  is ever understood, as the run `names` shows). If one file's id were another one's path, the master
  would take the news of the other for its own. And `MaxDeleted = 0`: the one call of a slave's
  `DelFile`, in `SlaveController::DeleteMediaFile`, has no caller; after a `DelFile` the file begins anew
  at its slave, while the master still shows the old outcome.
- `AnsweredOnce`: `MaxRequests` is a number.

Only model-checked:

- `CompletionFollowsStart`, `OffersReachTheSlave`, `StartedJobsEnd`, `EveryPartIsProcessed`: they are
  liveness under fairness, which is out of the prover's reach, as is `ENABLED`.
- The violated properties: the code does not satisfy them.

## 5. Not modelled, and the plan

Not modelled, and why:

- `extra_library/time_delay`: unfinished; `PlayNext` ends in `LOG_FATAL << "Not implemented"`
  (`time_delay_policy.cc:174`), with what follows commented out.
- time range, time shift and feature elements, auxiliary mapper: positions in files and time stamps
  of tags, by classes of `whisperstreamlib` that are not in the repository.
- `osd` injector (passes tags on) and tag coding (field by field conversion).
- `flash_policy_server`: one read and one reply per connection.
- The GStreamer application, SQL, image processing, file format conversion, `whisperproc` (replaced
  by `whisperproc2`) and user interfaces, which have little state of their own or depend on
  libraries that are not here; most lines of the repository are vendored (ffmpeg, Zend, PHPTAL).
- Sources that are not built (`slave_controller.thread.cc`, `master/media_file.cc` and
  `slave/media_file.cc`; the headers `media_file.h` are used).

What is left to do, in this order:

1. An abstract specification of recording (each part is waiting, composed or consumed) that
   `Processor` implements; the inductive invariants for it are there.
2. `CompletionFollowsStart` and `EveryPartIsProcessed` rest on steps that decrease a measure: those
   are action properties, which can be proved, though the liveness itself cannot.
