# A TLA+ model of wazuh-ocsf-etl

`wazuh-ocsf-etl` is a single process that follows the `alerts.json` of a Wazuh
manager, turns each alert into an OCSF row and inserts the rows into ClickHouse
in batches, one batch and one table per agent (or special location). A small
state file lets it go on after a restart. This directory holds TLA+ modules of
that program, the TLC configurations that check them, and proofs of their
safety properties with TLAPS.

Paths below are those of the repository (`src/main.rs`, `docs/...`).

## 1. The system

| Component | State | Operations | Talks to |
|---|---|---|---|
| File tailer, `src/input/tailer.rs` | `FileTailer` (inode, descriptor, offset), the message being sent | open, `next_line`, `check_rotation`, send | the file system, the channel |
| State store, `src/input/state.rs` | the state file (inode, offset) | load, save (write a temporary file, rename) | main loop |
| Main loop, `src/main.rs` | `current_offset`, the batches, known tables, known custom columns | start, receive, flush timer, signal, `do_flush`, final flush | all others |
| ClickHouse sink, `src/output/db.rs` | the batches taken by a flush | `ensure_table`, `ensure_custom_columns`, `insert_batch` | ClickHouse |
| Configuration, `src/config.rs`, watcher in `src/main.rs` | the mappings behind an `RwLock`, the last modification time | load, poll, reload | the operator's file, transform, sink |
| Transform, `src/pipeline/transform.rs` | none between calls | one alert to one row | classify, validator, JSON look-ups |
| Classify, `src/pipeline/classify.rs` | none | class of an alert, severity of a level | transform |
| Validator, `src/pipeline/validator.rs` | counters | list the violations of a row | transform |
| JSON look-ups and path tables, `src/util/json.rs`, `src/pipeline/field_paths.rs` | none | first non-empty field of a list of paths | transform |
| Unmapped-field report, `src/util/unmapped.rs` | a tracker behind a mutex, the report, its archives | track, write, archive | transform, main loop, the operator |
| ZeroMQ reader, `src/input/zmq.rs` | a socket | connect, subscribe, receive with a time-out | the channel |

The parts interact in four ways. The reader task and the main loop share a
bounded channel of `(offset, line)`: a full channel stops the reader, a closed
one ends it. The main loop runs `do_flush` inside a branch of its `select!`, so
a flush, however slow, keeps every other branch waiting while the reader goes
on. The mappings are shared with the watcher task. Everything that survives the
process is outside it: `alerts.json`, the state file, ClickHouse.

### What is hard here

* **Interleaving with the manager.** It writes in pieces, renames and recreates
  the file between any two system calls of the tailer.
* **Crashes.** What is in the channel, the batches and the flush is lost; the
  state file must not cover any of it.
* **Partial failure.** Every statement may fail, or succeed and lose its reply.
  The flush logs and goes on; the offset is saved all the same.
* **Order of decisions.** A dozen sections of `transform` fill the same columns
  and overwrite the same severity; hash-map order decides among mappings.
* **Stop.** A signal closes the channel while messages are queued in it.
* **A deaf socket.** `recv()` of ZeroMQ does not fail when the peer is gone, and
  does not hear of a signal.
* **A loop through the operator.** A field is tracked, reported, mapped, loaded
  and made a column by five parts that share no lock, over restarts.
* **Limits.** The channel, the batches, empty column names.

`PROJECT.json` lists each of these at its line, under `hazards`, with the
properties that cover it or the reason why none does.

### What makes each component correct

* Tailer: whole lines, each once, in order; the offset is the end of a line and
  never ahead of what was sent; the file that stays is read to its end.
* Main loop and state file: a committed offset covers settled alerts only;
  nothing is lost between the tasks; a kill repeats at most one flush; a signal
  ends the process.
* Sink: memory is bounded; a custom column counts as known only when the tables
  known at that moment have it.
* ZeroMQ reader: nothing is taken twice, what is taken is settled, a dead link
  is replaced, and the state file it overwrites makes file mode skip nothing.
* Watcher, report, look-ups: an edit is followed; no discovery is lost; the path
  a report names finds the field; a promoted field is seen in its column.
* Transform: the fields have one precedence and the mappings come last; the row
  does not depend on the order of a hash map; the labels of the documented
  sources override the rule level (docker only upwards, section 4); the outcome
  columns contradict each other only where the alert contradicts itself; the
  hand-kept tables of three files agree.

## 2. The modules

```
 AlertsFile (environment)        ZmqReader            Classify   Validator
     |                               |                     \       /
  Tailer ---- Tailing ..> LineStream |                     Transform
     |           |                   |                         |
     |       MCTailing               |                    MCTransform
     +---- Etl ----- Sink ------- EtlZmq ..> AtMostOnce
            | ..> AtLeastOnce        |
       EtlInvariant           EtlZmqInvariant         FieldPaths  Watcher  Report
            |                        |                      \        |       /
          MCEtl                  MCEtlZmq                      Discovery
                                                                   |
        ..> : implements                                      MCDiscovery

 The proofs, each beside the module it is about:

  TailerProofs   SinkProofs        TailingProofs     EtlZmqProofs
        \         /   \            (TailerProofs)    (SinkProofs, EtlZmqInvariant)
         EtlProofs     EtlZmqProofs
             |                     DiscoveryProofs   TransformProofs
      EtlPromiseProofs
```

**AlertsFile** is the file system and the manager, external to the code: files
with an inode, one of them (or none) under the path, and the steps of the
manager: write a byte, rename, create, empty in place. A byte is the line it
belongs to and its place in it. What a line holds is its `Kind`: an alert, not
JSON, blank, not UTF-8, or an alert with a character of two bytes. Its last
section says what a file that is only appended to looks like (`LineShape`,
`LinesInOrder`, `Position`), for the invariants of section 5.

**Tailer** is `reader_task`. `rpc` is the statement in turn: `stat` and `open`
are the two halves of `FileTailer::open`, then `next_line`, `send`,
`check_rotation`, `returned`. `goal` says whether an open in progress is the
first, the second of a start after a rotation, or one of `check_rotation`.
`tailer` has the fields of `FileTailer`, its descriptor and where that stands,
so that an offset left behind the descriptor can be told.

**Tailing** is the tailer with a receiver that takes everything.
**LineStream** is what it promises of a growing file: every finished line that
is not blank is delivered once and in order (`Safety`), in the end (`Spec`). The
refinement is checked together with the rotations: of a behaviour that may
rotate (`rotates`, chosen at the start) it says nothing.

**Sink** is `do_flush` and `db.rs`. `fpc` is the statement of the flush:
`detect` (new custom columns), `alter`, `take` (`std::mem::take`), `tables`
(one table after the other, in any order, as the `HashMap` gives them), `save`.
ClickHouse is the set of rows stored, a count of rows stored again, and the
custom columns of each table. `dropped` has the rows given up after a logged
error; it is a history variable.

**Etl** composes Tailer and Sink with the main loop (`mpc`, `cur`), the state
file (`saved`) and the rest of the world: a kill at any step, a restart, a
signal, a failed save, an edited mapping file. Start is two steps (`ReadSize`,
`StartUp`) because the code makes two metadata calls. `base`, a history
variable, is where the last start without a state file began to read. The
bounded events are counted in `faults`.

**AtLeastOnce** is the promise of file mode, without channel, batch or flush:
a committed position that never moves back and only moves over alerts that have
been dealt with.

**ZmqReader** is `zmq_reader_task`: `rpc` is the statement it is at (connect,
subscribe, recv, send, sleep). The publisher, its buffer and the link are the
environment: a link may die without anybody being told, and a message reaches
`wire` only while the link is up and the buffer has room.

**EtlZmq** is the service in ZeroMQ mode: the same Sink, and the main loop with
offset 0 for every message (`OffsetOf`). The alerts file is not read, but its
inode and size go into the state file all the same. **AtMostOnce** is the
promise: what is taken is taken once and in order, gaps are allowed.

**FieldPaths** is `json.rs` and the filter of `unmapped.rs`. A path is the
sequence of the names between its dots, a data object a function from the
positions of its leaves, so that a dotted key and a nested path of one name are
two positions. `ListLeaf` is where the lists of `field_paths.rs` look,
`DataField` where a mapping looks. The lists themselves are a constant.

**Watcher** is the load of the start and `config_watcher_task`: `last` is the
modification time it remembers, taken before the file is read. The operator
edits in place, half-writes, replaces by an older file, removes, and edits twice
within a tick of the file times. `missed`, a history variable, says that the
file has changed in a way the watcher cannot tell.

**Report** is `unmapped.rs`: the tracker, the report, the archives by second.
`published`, a history variable, has all that a report has ever shown.

**Discovery** composes these three with `main()` and `do_flush` seen from their
side: a line is tracked and made a row under the mappings held at that moment,
the flush makes the columns of the mappings held then, the state is saved, the
report written. Offsets are numbers of lines and the statements of the flush do
not fail, since Etl and Sink have both. `Shown` is what a SELECT of a column
gives for a row.

**EtlInvariant** and **EtlZmqInvariant** have the inductive invariants of the
two modes, which their runs check as well (section 5). The invariants of the
other modules are in the modules of their proofs.

**Classify**, **Validator**, **Transform** are one call of `transform()`. A
field of the alert is a pair of section and name, and a column holds *the field
its value came from*, so that precedence is a statement about the state. Words
matter only where the code compares them. The sections are steps
(`ExtractSection`), then the mappings in any order (`MapField`), then `Decide`.
`Replay` transforms the same alert again, as a restarted process does.

The `MC` modules only give values to constants.

## 3. The runs

| Run | Question | Bounds |
|---|---|---|
| `tailing_rotation` | Does the tailer of a growing file implement `LineStream`, liveness included; `NoTornLine`, `SentUpToOffset`, `OffsetIsLineEnd`, `LastFileDrained` with rotations anywhere | four lines (one blank, one not JSON) of one to three bytes, three files (two rotations), channel of one |
| `tailing_damaged` | `DamageIsLocal`, `TruncationNoticed` | a line with a split character, one not UTF-8, two alerts, one truncation |
| `etl_crash` | type invariant, `CommittedSettled`, `NothingForgotten`, the inductive `IInv`, `ReplayBounded`, `MemoryBounded`, refinement of `AtLeastOnce` | five lines (one not JSON), two tables, batches of two, a kill, a stop, a failed statement, a failed save, start at the end |
| `etl_live` | `EveryAlertSettled`, `ShutdownCompletes` | two lines, two tables, batches of two that only the timer flushes, one column, a kill, a stop, a reload, a failed statement |
| `etl_zmq` | the inductive `ZmqInv`, `TakenIsKept`, `FileNotSkipped`, `LinkRestored`, `ArrivedIsSettled`, `ShutdownCompletes`, refinement of `AtMostOnce`; `RegisteredEverywhere` | three messages (one blank), buffer and channel of one, batches of two, two tables, one column; a dead link or failed connect, a failed statement, a kill, a stop, a reload |
| `transform` | `RowsAreValid`, `ReplayGivesSameRow`, `ColumnsByPrecedence`, `SeverityByPrecedence`, `OutcomesAgree` | about 5000 alerts, see below |
| `discovery` | `PublishedKept`, `CommittedReported`, `PromotedIsVisible`, `MappingsFollow`, `ReportCatchesUp`; `PathsArePromotable`, `LookupsAgree` | two files of two lines, three mappings, two modification times, three seconds, three events in all; some hundred data objects for the look-ups |
| `tailing_twice`, `etl_loss`, `etl_rotated_stopped`, `etl_column_retry`, `discovery_category` | a sentence of the documentation the code does not keep | the smallest instance that shows it |

**Why the bounds are enough.** Lines are interchangeable except for their kind,
length and table, so what matters is how many can be in different places at
once: with a channel of one, a batch of two and two tables, four alerts put one
in ClickHouse, one in a batch, one in the channel and one at the sender; a fifth
line makes no row and moves the offset all the same. One of
each failure is allowed, in every combination and at every step. Two rotations
are needed because a tailer may hold one file, believe it is a second and find
a third. Lines of one to three bytes give a reader every prefix of a line.

The calls of `transform` are families, not a product: pairs of fields that
compete for one column (every pair of sections), mappings with two fields for
one target or for different ones, every group and mark of `classify.rs` with
each group that decides activity or status, every word a table of the code has,
pairs of severity labels with both a vulnerability and another class, every
`docker.level` at every rule level, and alerts that contradict themselves: an
action of one outcome with a `data.status` or a group of the other. Groups of
three and labels of three sources are not tried.

In `etl_zmq` three messages and one of each fault put a message in front of a
fault, in it and after it; a buffer of one is full as soon as the reader is at
its send. A message that is not JSON is in `Payload` but not in this run: it
differs from an alert only in making no row.

In `discovery` edits, faults, kills and stops share one budget (`MaxEvent`) of
three, in any order: an edit and a kill and another edit, say, or an edit to a
half-written file, one that completes it, and a kill between them. Two
modification times besides 0 allow a younger, an older and an equal one. Three
seconds allow three starts. The data objects of `Probe` have one path as a
dotted key, nested, and both, with each kind of leaf in each place, next to a
key with a dot below the top level, an array and a hidden object; no look-up
compares more than two places. `PathsArePromotable` and `LookupsAgree` are about
these and the lines of the files.

**Fairness.** Reader, receiver and flush steps are weakly fair: tokio polls
tasks that are ready, their sleeps end, and the flush timer is an interval that
never stops. ClickHouse is assumed to answer (with an error or not), which the
code relies on: `do_flush` has no time-out of its own. A killed process is
restarted (`Restart=on-failure` in the unit), one that exited is not. The
manager, kills, stops and faults are not fair: they may or may not happen.
In ZeroMQ mode the publisher owes nobody a message; strong fairness of `Join`
says that a network that is tried again and again hands a subscription over once
(with weak fairness the five seconds of a receive time-out could always win).
In Discovery the watcher's interval, the flush timer and the flush itself are
weakly fair; the arrival of a line, a start and the operator are not.
`Etl`'s safety runs use `Spec`, without fairness.

**Deadlock** is checked for `tailing_damaged` and
`transform`. In the other runs the system may
really stop: the task has returned and the manager written everything, or the
service exited after a signal.

## 4. Where code and documentation differ

Each is a run that TLC ends with a counterexample (`findings` of
`PROJECT.json`).

* `tailing_twice`: the inode is taken by path before the open. A rotation in
  between makes the new file be read twice ("no alerts are double-processed",
  `docs/reference-full.md:944`).
* `etl_loss`: rows of a failed insert are gone and the offset is saved ("no data
  loss", `docs/reference-full.md:1424`).
* `etl_rotated_stopped`: after a rotation while stopped the new file is read
  from the old offset ("resets to offset 0", `docs/reference-full.md:950`).
* `etl_column_retry`: a custom column that a new table refused is never tried
  again (`src/output/db.rs:131`, `docs/reference-full.md:659`).
* `discovery_category`: the documented target `app_category` is not a standard
  target of the code, `category` is; a field mapped as in the example of
  `docs/reference-full.md:925` never reaches the typed column.

Met while modelling, without a run of their own:

* Lines written to the old file after its last read and before the rename are
  not read ("No alerts are lost", `docs/reference-full.md:944`);
  `LastFileDrained` is restricted to the file that stays.
* A line that is not UTF-8 moves the descriptor but not the offset, so that
  offsets saved later point before the end of a line
  (`src/input/state.rs:12`). `OffsetIsLineEnd` is checked with decodable lines.
* A kill repeats one *flush*, up to a batch of every table, not "one batch"
  (`docs/reference-full.md:1421`) and not "CHANNEL_CAP + BATCH_SIZE lines"
  (`src/main.rs:201`); `ReplayBounded` states the bound that holds.
* A first start on an empty file with `SEEK_TO_END_ON_FIRST_RUN` saves no
  position (`docs/reference-full.md:525`).
* The saved inode is read at the save, the saved offset belongs to a line read
  earlier; after a rotation they may be of different files
  (`src/input/state.rs:10`).
* A numeric process id above 65535 is stored as 65535 (`first_port` of
  `src/util/json.rs` is made for ports).
* A field that has been mapped stays in the reports until the next restart
  ("will stop appearing in future reports", `docs/reference-full.md:917`): the
  tracker forgets nothing.
* An edit made between the load of the start and the watcher's first look is not
  picked up within 10 seconds (`docs/reference-full.md:916`) but at the next
  edit; `MappingsFollow` excepts it.
* The elements of arrays (`tags.0`) and keys with a dot below the top level are
  reported under a path that no mapping reaches; `PathsArePromotable` is about
  the others.
* The log of the most frequent unmapped fields at the start
  (`docs/reference-full.md:905`) is looked for after the report has been renamed
  away (`src/main.rs:357`), and only printed if the rename failed.
* `docker.level` only raises the severity: an alert of rule level 13 with the
  level "info" stays Critical (`src/pipeline/transform.rs:1638`), while
  `FIELD_MAPPINGS.md:167`, `docs/reference-full.md:787` and the comment at
  `src/pipeline/transform.rs:1630` say that it overrides.
  `SeverityByPrecedence` speaks of docker only where the level is not below what
  it should override. A level the documents do not list counts as "info", and a
  GuardDuty severity that is no number as 0, which is Informational.
* A refused connection may be a success: for class 4001 a `data.status` or a
  group such as `sudo` or `pam_success` decides `status_id`
  (`src/pipeline/transform.rs:1978`, `:2149`), the action decides `activity_id`
  (`:2072`). No document says which should win; `OutcomesAgree` says that it
  takes an alert that says both.
* A finding without a status is New, `status_id` 1, where the table at
  `docs/reference-full.md:1238` has 0 (Unknown). `syscheck.event` "read" is
  activity 1, where `docs/reference-full.md:1206` and `FIELD_MAPPINGS.md:667`
  have 2. DNS traffic must be the action's whole word, where
  `docs/reference-full.md:1217` says "contains".
* Some forty paths of `KNOWN_PATHS` (`src/util/unmapped.rs:61`), among them
  `win.system.providerGuid` and `win.eventdata.privilegeList`, are read by
  nothing in `transform.rs`: they are neither extracted nor ever reported ("are
  all natively extracted", `docs/reference-full.md:879`).
* A mapped number is parsed as it stands: spaces around it make it 0, and a port
  above 65535 is 0 where the native lists give 65535. `LookupsAgree` excepts
  both.
* A custom target with the name of a fixed extension overwrites what the alert
  brought for it (`src/pipeline/transform.rs:1935`); one whose name
  `src/output/db.rs:66` changes gets a column that stays empty.
* `FIELD_MAPPINGS.md:694-704` lists `sca` paths with a dot in a key or an array
  index, which `jpath` cannot reach, while `src/util/unmapped.rs` keeps them out
  of the report.

## 5. The proofs

A run shows a property on one small instance; the theorems below say it for
every value of the constants: any number of lines, messages, tables, columns,
mappings, kills, stops and failures, any capacity of the channel and any batch
size. All safety properties of the passing runs are theorems, the refinements
included; what is left to TLC is at the end of this section.

| Module | Theorems | Property |
|---|---|---|
| EtlProofs | `TypeCorrect`, `MemoryIsBounded`, `ColumnsRegistered` | `TypeOK`, `MemoryBounded`, `RegisteredEverywhere` |
| | `PositionsSafe`, `CommittedIsSettled`, `NothingIsForgotten` | `PositionInv`, `CommittedSettled`, `NothingForgotten` |
| EtlPromiseProofs | `ImplementsAtLeastOnce`, `OneFileKeepsPromise` | `KeepsPromise` |
| | `InvariantHolds`, `ReplayIsBounded` | `IInv`, `ReplayBounded` |
| EtlZmqProofs | `ZmqTypeCorrect`, `OrderKept`, `TakenKept` | `TypeOK`, `ZmqInv`, `TakenIsKept` |
| | `ImplementsAtMostOnce`, `FileIsNotSkipped`, `ColumnsRegistered` | `KeepsAtMostOnce`, `FileNotSkipped`, `RegisteredEverywhere` |
| TailingProofs | `TailingTyped`, `NoLineIsTorn`, `OffsetsAreLineEnds`, `OffsetNotAhead` | `TypeOK`, `NoTornLine`, `OffsetIsLineEnd`, `SentUpToOffset` |
| | `StreamsInOrder` | the safety part of `StreamsLines` |
| DiscoveryProofs | `DiscoveryTyped`, `ReportsAreKept`, `CommittedIsReported` | `TypeOK`, `PublishedKept`, `CommittedReported` |
| | `PromotedFieldsAreSeen`, `FieldsArePromotable`, `LookupsAlwaysAgree` | `PromotedIsVisible`, `PathsArePromotable`, `LookupsAgree` |
| TransformProofs | `TransformTyped`, `EveryRowIsValid`, `ColumnsFollowPrecedence` | `TypeOK`, `RowsAreValid`, `ColumnsByPrecedence` |
| | `SeverityFollowsPrecedence`, `ReplaysGiveSameRow`, `OutcomesAreTold` | `SeverityByPrecedence`, `ReplayGivesSameRow`, `OutcomesAgree` |

SinkProofs and TailerProofs have no theorem of their own: they hold what a step
of the flush or of the reader does, for the two modes and for Tailing.

### File mode: positions

`CommittedSettled` is not inductive: a save keeps it only because of what is
true of `cur`, that only because of the messages in the channel, and that only
because of how the reader met the lines of the file. `PositionInv` states the
same thing for each position in that chain. `Core` is the statement itself: at
the state file every alert owed is settled (`SavedInv`), at the main loop
settled or in flight (`MainInv`), at a message of the channel owed at `cur`
already or carried by this message or one before it (`ChanInv`), at the reader
carried by the channel or the message being sent (`TailInv`). Each position is
also the end of a line or where reading began (`PositionOK`), without which the
alert that straddles a position would be counted by nobody; each message is what
the file has at its offset (`MessageOK`); and the file is whole lines in their
order and the beginning of one (`ShapeInv`), so that the next line read starts
at the offset. `ForwardInv` says that the positions follow one another: state
file, main loop, channel, reader. `FlushInv` (in Sink) says that a flush has
forgotten nothing when it saves: the batches were empty when the offset was
taken, and so is `work`. `BatchInv` is memory: a full batch is flushed before
another line is taken.

`CommittedSettled` is `SavedInv`; `NothingForgotten` follows from the reader's
end of the chain. For `KeepsPromise` every step is one of `AtLeastOnce` or
unseen: a byte may finish a line beyond all that is committed, a flush handles
rows, a save commits `cur`, which is not behind the offset saved before
(`ForwardInv`) and whose alerts are settled (`FlushInv`, `MainInv`), and a first
start chooses where to begin. The theorem is about behaviours in which the file
keeps growing (`[]Stable`); `OneFileKeepsPromise` says that a manager that
neither rotates nor truncates (`MaxInode = 1`, `MaxTruncate = 0`) gives no
others.

### File mode: how much comes again

`ReplayBounded` counts, so it needs more than places. `ReplayInv` is an account:

* `Exposed`, the alerts owed at `cur` and not at the state file, is what a kill
  would make the next start read again. Between flushes they are in the batches,
  none of which is full, so a line taken exposes at most
  `|Table| * (BatchBound - 1) + 1`, which is `FlushBound`; a flush exposes no
  more, and a save nothing at all.
* `Repeatable`, the stored rows that are in flight or not owed at the position
  the service stands at (`Front`), is what may yet be inserted again.
* `replayed + |Repeatable|` is at most one `FlushBound` for each kill. A kill
  makes what was exposed repeatable. An insert that repeats rows takes as many
  out of `Repeatable`: they are owed by now, and in no other batch. Every other
  step leaves the sum alone or lessens it: a start reads on from what is
  committed, a line taken was not owed before and becomes so.

That a row is in one batch only, and there once (`RowInv`), and that what is in
flight is owed at `cur` (the third part of `MainInv`), are needed here and not
above: they make `PositionInv` stronger than `CommittedSettled` needs. A save
that fails exposes more than a flush, so `ReplayInv`, like `ReplayBounded`, is
about behaviours whose saves succeed. The count of rows needs finitely many
tables (`EtlAssumption`).

### ZeroMQ mode

Nothing is numbered in the code; the numbers of `EtlZmq` are the order in which
the publisher sent. `ZmqInv` says that they keep this order all the way:
`OrderInv` from the wire to the task (sent, in hand, on the wire, each before the
next), `TakenInv` from the channel to the batches. Hence a row is new to
ClickHouse when it is pushed and in one batch only (`OnceInv`), and
`AtMostOnce` follows step by step. `KeptInv` is `TakenIsKept` with the batches
and rows named, `RestInv` that nothing is left of a process that ended, and
`OffsetInv` that the loop stands at 0, at what file mode left, or, at the first
start of all, at the end of the file, from which `FileNotSkipped`.

`RegisteredEverywhere` needs `ColumnInv` (SinkProofs) in both modes: while
columns are being added, those that no table refused are in every table that has
had its turn.

### The tailer through rotations

`RotationInv` adds to the three properties of the run that every file ever made
is whole lines in order, that a file not yet made is empty and that the manager
leaves a file at the end of a line (`FilesInv`), and that a task starts at byte
0 (`StartInv`), as a first start does. Without `FilesInv` an offset at the end
of a line would not make the next read whole. `OneFileInv` is about a
behaviour without rotation: the file is opened once, and the messages so far are
lines of it up to the offset, in their order; with `SentUpToOffset` they are all
of them, which is `LineStream`'s `Deliver` at each `ReadLine`.

### Reports, columns and look-ups

`KeptInv` adds to `PublishedKept` that the names of archives to come are free
(`NamesFree`), without which a start could move the report over an older one,
and that a report of this session is part of the tracker (`ReportOfSession`),
without which a new report could drop what the one it replaces had. Both hold as
long as no archiving fails and no two starts share a second, the exceptions the
property states. `ReportInv` follows a discovery from the read (`ReadTracked`: in
the tracker or reported) to the state file (`SavedPublished`: reported, except
between the save and the report). `ColumnsInv` says that a row's flush left a
column for every custom target it found mapped, and that no column is dropped.
`PathsArePromotable` and `LookupsAgree` are about the look-ups alone: a data
object has at most one leaf at a position, so a literal key and a nested path
are told apart by their positions, whatever object it is.

### Transform

`IInv` follows one call. Until the overlay a column holds what the first section
so far found for it (`SectionsInv`, which says the same of the severity), in the
overlay also what a mapping visited found, and only where no section did
(`OverlayInv`), then the row is what
`MakeRow` makes of these (`DecideInv`). What the sections find depends on the
alert alone, and with mappings that have different targets what a mapping finds
does too: then the row is `FinalRow` of alert and mapping, in whatever order the
mappings were visited, and a replay gives it again (`EarlierInv`). That every
row is valid is a fact about the tables: each rule of `classify.rs` has a class
the validator knows with the number and the name of its category, each activity
is one of its class, each severity a number up to 6 or 99.

`SeverityFollowsPrecedence` reads the severity off `DecideInv`. For
`OutcomesAreTold` the status of the row is followed back: with no field, mapping
or group for it, it is empty or, on a connection, the action (`UntoldStatus`),
and then the tables of `activity_id` and `status_id` are compared word by word
(`NetworkWords`).

### Assumptions

* Those on the constants, named in the modules, which TLC evaluates in every
  run. Most say only of which kind a constant is (a bound is a number, `Payload`
  and `Kind` are functions on all lines). `CallAssumption` is about names: a
  mapping does not map the marks the model uses for values made by the code, nor
  fields under the two names by which a section takes a failure without reading
  the word.
* `AllDecodable` (file mode, Tailing): every line is UTF-8 and no character is
  met half written. With other lines the offset drifts (section 4), and the
  theorems would be false of the code as it is.
* `NotTruncated` (Tailing): no file is emptied in place. A truncation that is
  noticed late leaves the tailer in the middle of a line.
* `Stable` in the properties of file mode: with a rotation the code does lose
  and repeat lines (section 4). It is part of the property, not of the theorem.
* No assumption limits kills, stops, refused statements, lost replies, failed
  saves or reloads: their bounds are arbitrary numbers.

### Only model-checked

* Liveness, which is out of the prover's reach: `EveryAlertSettled`,
  `ShutdownCompletes`, `LinkRestored`, `ArrivedIsSettled`, `MappingsFollow`,
  `ReportCatchesUp`, `LastFileDrained`, `TruncationNoticed`, `DamageIsLocal`, and
  the liveness part of `StreamsLines`.
* The five runs that end with a counterexample, each about one small instance.

## 6. Not modelled

* The read-ahead of `BufReader`: harmless in a file that grows, but after a
  truncation stale bytes may be delivered.
* An `INSERT` that ClickHouse stores in part, and its deduplication.
* The two steps of the atomic save; the code never reads the temporary file.
* Timestamps (and the validator's check of them), MITRE arrays, the fixed extensions, table routing and name
  sanitising, protocol names of VPC flow logs; extensions hold custom targets
  only.
* The parsing of environment variables and of TOML: the constants of the modules
  are their results.
* The contents of `field_paths.rs`: constant tables of names.
* Counts, examples and order in the unmapped-field report; signed and fractional
  numbers in the look-ups.
* Frames of a ZeroMQ message and the reconnects ZeroMQ makes by itself: a link
  is up, dead or being joined.
* Installation scripts and dashboards.

## 7. Plan

Done, in this order: AlertsFile, Tailer, Tailing with LineStream; Sink; Etl
with AtLeastOnce; EtlInvariant; Classify, Validator, Transform; ZmqReader and
EtlZmq with AtMostOnce; FieldPaths, Watcher, Report and Discovery; proofs of
every safety property that a run checks, with the three refinements.

Next:

1. Tailing: what is proved with `AllDecodable` for the lines before the first
   one that cannot be decoded; with truncations, that a torn line is followed by
   whole ones.
2. Etl: `NothingForgotten` for the open file of a behaviour with rotations; how
   much a failed save adds to `ReplayBounded`.
3. Watcher: that the mappings held are those of the remembered modification
   time, the safety part of `MappingsFollow`.
4. Sink: that a row is dropped only by a statement that failed (as many tables
   as faults).
