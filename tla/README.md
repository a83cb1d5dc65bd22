# Verification of the adaptive-agent-memory research code

This directory holds TLA+ models of the stateful parts of the repository, the
TLC configurations that check them on small instances, and TLAPS proofs of what
matters most for instances of any size. Most of the repository is one-shot
programs (generators, benchmarks, analyses) that read files and write a report.
What keeps state across processes, and is hard to test, is small: the project
memory engine, the money of the arena and the records of paid stages of model
calls. The models are about those, about the sealed split, where the order of
commands is the whole point, and about two memories under test that keep derived
state in step with what they hold: the retention gate and the memory kernel.

To run a check: `tlc -config LogPromise.cfg MCEventLog.tla`; to check the proofs:
`tlapm FileLockProofs.tla`.

## The system

| Component | Source | State | Operations | Hard behaviour |
|---|---|---|---|---|
| Lock file | `tools/project_memory/memory_store.py` `_exclusive_lock`, `_breakable_reason`, `_unlink_lock` | a path in the file system holding pid and host | acquire, wait, break, release | owners that die at any point, three readings before an unlink, an unlink by path |
| Event log | the same file, `add`, `supersede`, `_append`, `load_events`, `get` | `memory/events.jsonl`, append-only | add, supersede, read | writes that stop part way, checks made outside the lock |
| Search index | the same file, `rebuild_index`, `_ensure_index`, `search` | an SQLite file, a cache of log and documents | rebuild, search, delete | reads and signature are not one step; publication races |
| Context pack | the same file, `context`, `_fair_shares` | none | read | two readings of the log in one call |
| Temporal view | `tools/project_memory/upcast.py` | none | derive | pure function over a log |
| MCP server, CLI | `tools/project_memory/server.py`, `cli.py` | none of their own | one call of the store for each request | several processes over one store |
| Log verifier | `scripts/verify_memory_integrity.py` | none | check | runs beside writers |
| Spend caps | `scripts/arena/spend_ledger.py`, `provider_proxy.py`, `decoding.py` (served by `metered_proxy.py`, `flash_only_proxy.py`) | `spend-ledger.jsonl`, shared by processes; a list of calls in each | check, forward, price, record | threads between check and record, torn records, restarts, replies without usage |
| Record file | `scripts/wmb/contract.py` | a JSONL file | load, repair tail, append | an append after a write cut at any byte |
| Stage records | `scripts/wmb/retrieval_bench.py` `record_results`, `run_judge`, `run_stage`, `StageGuard`, `workdir_lock` | the record file; in memory the held rows, the stop event and the counts | ask, hold, record, abort, resume | threads in flight when a stage stops, rows held over a failed append, resumes after a crash |
| Frozen directory | the same file, `cmd_prepare`, `assistant_label_problems`, `frozen_verdict`, `take_baseline`, `run_stage`, `cmd_judge`, `cmd_questions` | pairs, shown pairs, keys, labels, the baseline, which records exist | prepare, label, verify, freeze, ask | commands with locks of their own beside a prepare without one; checks long before what they guard |
| Sealed split | `scripts/sealed_split.py` | manifest, registration, receipt, halves of a pool | seal, register, reveal, verify | order of the commands, a stop between two files, files read twice by one command |
| Retention gate | `scripts/lifesim/systems.py` `GatedMemory`, `_Store`, `BM25Index`; `interface.py` `LifeMemory` | kept lines, their weights, a heap, postings, an inner store | ingest a batch, reset | stale heap items, weights that grow, a call that raises in the middle of a batch, delivery after the loop |
| Memory kernel | `scripts/wmb/kernel/memory_kernel.py` `build_index`, `_survey`, `retrieve` | an index, fixed once built | build, retrieve | one index for calls of every date, links that form cycles |
| Generators, benchmarks, analyses, model adapters | `scripts/**` | none that outlives a run | run | none for a model checker |

How they interact: the server and the command line call `MemoryStore`, one
process each, and meet only in the file system. `_append` takes the events
lock, writes a line, releases it, and then calls `rebuild_index`, which takes
the index lock, reads the log and publishes the index; `search` and `status`
may rebuild as well. The proxies and `FixedDecoding` share `SpendLedger`'s file
and nothing else. A stage sends its calls through such a proxy and reads the same
ledger between chunks; a refusal of the cap reaches it as an exception of a thread.
The verifier reads the log beside its writers, without a lock. Gate and kernel live in
one process each and meet the rest of the system in the benchmarks only.

What makes each part correct, in a line: a lock in use is never taken away; an
acknowledged event is never lost or changed; a search finds what was
acknowledged; a cap is exceeded by no more than what was in flight; a split that
verifies was blind; an item of a stage is paid for and recorded once, and a stage
that ends well has recorded them all; what was paid for belongs to what was frozen;
a gate keeps its share, evicts the least and tells its store; a call of the kernel is
decided by nothing that it may not see.

## The modules

`FileLock` (with `FileLockProofs`, `MCFileLock`) models `_exclusive_lock` with
one step for each system call: `Create` is `os.open` with `O_EXCL`, `Sign` the
`os.write` of the owner record, `Stat`, `ReadOwner` and `Decide`/`WaitOrGiveUp`
are the three readings of `_breakable_reason` (lines 173, 175, 192), `Break`
and `Release` are the two callers of `_unlink_lock`. `lock` is the file at the
path: who created it, whether it was signed, whether an hour has passed over
it. `seen` are the local variables of `_breakable_reason`. `Faults` names what
the environment may do: `crash`, `exit` (a process ends normally after its
call), `signfails` (writing the owner record raises) and `slow` (a holder keeps
the lock for more than `LOCK_ABANDONED_SECONDS`). `stolen` is a history
variable: a lock in use was unlinked by somebody else.

`EventLog` (with `EventLogProofs`, `MCEventLog`) models the canonical log and
its writers. The file is a sequence of terminated `lines` and an unterminated
`tail` of pieces. `Prepare` is everything before the lock (the id; for
`supersede` the look-up of the target), `Acquire` and `LockBusy` the lock,
`WriteBegins` and `WriteEnds` the two ends of `handle.write` and `flush`,
`Return` the rebuild and the return to the caller. `WriteRaises` and `Crash`
stop a write at one of the `Cuts`: `part` of the JSON, `split` inside a
character, or the `whole` line without its newline. What then shares a line is
one `Malformed` line, or an `Undecodable` one, which makes `load_events` raise.
The events lock is exclusive here; that it is, and when it is not, is the
subject of `FileLock`.

`LogVerifier` extends `EventLog` with what `verify_memory_integrity.py` reports of the
file at any moment: `VerifiedLines` are the lines it reads, an unterminated rest among
them (`load_events` drops that one), `Blamed(rule)` the lines that break one of five of
its rules: `invalid-json`, `duplicate-id`, `dangling-supersedes`, `forward-supersedes` and
`self-supersedes`. Of the rules left out, three report logs without any torn write (see
the disagreements below); the others are about the fields of one event.

`AtomicLog` is the abstract specification: a log that only grows at its end, by
one event that is not in it yet or by one unreadable line. `EventLog` is shown to
implement it under the mapping `log <- lines`, the terminated lines.

`SearchIndex` (with `SearchIndexProofs`, `MCSearchIndex`) models the cache. `AppendEvent` is the
append with the writer's own rebuild still to come; `LockIndex`,
`ReadRecords`, `ReadDocuments`, `TakeSignature`, `Publish` are the steps of
`rebuild_index` in the code's order; `Search` is `_ensure_index`'s decision and
`Query` the reading of whatever file `index_path` names by then. All documents
are one document with a version.

`SpendCap` (with `SpendCapProofs`, `MCSpendCap`) models the arena's money: `Check` is the cap
check and the start of the request, `Reply`, `ReplyUnpriced` and `ClientRaises`
are its outcomes, `Record` logs and appends, `RecordTorn` is an append that
stopped part way, `Crash` a restart, which forgets the calls and keeps the
ledger. Money is in whole units; sums are doubled where the code multiplies by
1.5.

`RecordFile` is the record file as a value: the records that a reader finds, and
how the file ends (`Ends`: a newline, a record without one, a fragment, a fragment
cut inside a character). `Appended` is `append_jsonl` with its repair, `CutShort`
every file that an append stopped at any byte can leave.

`StageRecords` (with `StageProofs`, `MCStageRecords`) models one stage of one
command over that file. An item is asked outside the lock (`Take`), and what
follows is one step under it: `Discard` when the stage has stopped, `ReceiveError`
for a result without a reply (held, or dropped where `keep_errors` is off),
`Receive` for a reply. Only the append of a reply is a step of its own (`Write`,
`WriteFails`), since `Refuse`, the spend cap's exception, sets the stop event
without the lock and can come between. `Settle` is the tail of `one`, with the
three breakers in the code's order. The main thread hands out chunks
(`NextChunk`), may be refused at any of them (`GuardStops`: the preflight, the
budget, a ledger that did not grow), meets the exception of an item (`Cancel`,
`PassFails`) or ends (`Finish`, `FinishFails`). `Start` takes the lock file and
asks what has no record; a `Crash` leaves the lock file, which the author deletes.
`outage`, `exposed` and `late` are history variables: the items of the current run
of errors, those that were held while an append raised, and the appends since the
stop event.

`FrozenWorkdir` (with `FrozenProofs`, `MCFrozenWorkdir`) models what lies around the
stages: `prepare`, one step for each of the files it writes after its check
(`PrepareBegins` to `PrepareKeys`); the author, who edits the label file; and the
paid commands. `Begin` is the check of the labels before the lock, `ReadPairs` is
`judge_pairs`, `Verify` is `run_stage` up to the preflight, `FindBaseline`,
`HashFiles`, `CreateBaseline`, `WriteBaseline` are the steps of `take_baseline`,
`Ask` a recorded reply, `NextStage` the loop of `cmd_judge` and the second stage of
`cmd_questions`. Each check may refuse (`Stop`, at any point). A file is the content
it was computed from, and the decisive keys are the same for all contents, as
`d001`, `d002`, ... are when there are as many. Each reading of several files is one
step: a prepare writes a content once and in a fixed order, so that what passes a
check made over several moments was so at the first of them, or the prepare counts as
having overtaken the command. `mishaps` is a history variable: a forced prepare over
what depends on it, a prepare that wrote beside a command not yet asking, labels edited
beside a prepare, a command stopped while it wrote the baseline.

`SealedSplit` (with `SealedSplitProofs`, `MCSealedSplit`) models the four
commands of `sealed_split.py` over one directory, one at a time. Each file that a
command writes is a step (`WriteDevelopment`, `WriteManifest`,
`WriteRegistration`, `WriteChallenge`, `WriteReceipt`); what it has read stays in
`mem`. `KilledBetween` and `KilledWriting` stop it, the second with the file of
that step cut short. `EditPool` and `EditCandidate` are the author at work, also
between two readings of one command. `Verified` is `command_verify`. A digest is
the content it was taken of. `blind` and `mishaps` are history variables: the
contents of the candidate from before the challenge file, and what went wrong.

`RetentionGate` (with `MemoryProofs`, `MCRetentionGate`) models the gate and the store
behind it. `Admit` is the head of the loop of `_ingest`, with the re-mentions of policy GM
(`Bumped`) and the pushes they cost; `Evict` one turn of its inner loop, `Fits` its end,
and what follows the loop is three actions: `Deliver` drops what left from the inner store,
`Pass` hands it the next line of the batch if its record stayed, `Return` ends the call. The
inner store is the dict of its records, each with the place that its key has in the order of
insertion (`Slot`), and the postings and the total length of its BM25 index. The two count
a text differently: the gate its words between blanks (`count_units`), the index the tokens
that are left when `norm` has made blanks of the punctuation ("don't" is one word and two
tokens). A line therefore has both measures, `words` and `length`, neither bound to the
other; a sum over records is the number of their units (`Units`), one element each.
`Duplicate` is the exception that ends a call in the middle;
`Refuse` a batch that goes back in time, which leaves `_last_ts` where it had got to. `heap`
is the set of heap items: `LeastCurrent` is what popping until an item is current returns,
and the items popped on the way are lost. A weight settled at write time is any weight
(`"fixed"`); GR takes the time and GM starts at zero. Words are whole numbers, and
the capacity, a floor of a fraction, is compared by cross-multiplication. `largest`,
`failed` and `twice` are history variables.

`MemoryKernel` (with `MemoryProofs`, `MCMemoryKernel`) models the index of the writer's
memory. `List` takes one item (kept, or rejected as invalid, later than the index, or a
duplicate), `Build` computes the frequencies and, from the links between items, when each was
replaced (`SupersededBy`). The way that `closes_cycle` walks is the least set with its start
that the links of the instant do not leave (`Reached`); that it never ends is that each of
its items has such a link. A call of `retrieve` changes nothing, so that it is an operator:
`Call` is what it may see, the frequencies it computes its scores from, and what its names
hit. `Heirs` is the way `superseded_by` hides items for a call: over the links that count
and are dated before it. `feed` and `bare` are history variables: what was passed, and for each call what would
have been listed of the items it knows of (`KnownTo`), which `HiddenChangesNothing` compares
it with. `MemoryProofs` is about both modules, which share no names.

## What the runs check

| Run | Instance | What it shows |
|---|---|---|
| `LockAnyFault` | 3 processes, 2 hosts, all faults, fair | The lock excludes until the first theft; until then the holder finds its own file; the first theft is a `Break` that acted on an over-age reading or on another owner's record; an orphaned lock file is removed in the end, while anybody is left to do it. |
| `LogPromise` | 2 writers, 4 ids, cuts in mid-line and before the newline | The terminated lines implement `AtomicLog`; acknowledged events are lost to torn writes only, one for each; an event has no more successors than there are writers; what five rules of the verifier report comes of torn writes: one line of `invalid-json` and one missing target of `dangling-supersedes` for each at most, and never `duplicate-id`, `forward-supersedes` or `self-supersedes`. |
| `IndexFresh` | 3 processes, 2 events, 1 edit | A search finds all events acknowledged before it began; the index never goes back. |
| `SpendCaps` | proxy with 2 threads, client with 1, all faults | Until the first fault (`calm`) the overspend is at most one call for every thread but one, in total and for a run; after any faults the cap's sum is short of the recorded calls by two calls for each torn record at most, and above what was paid by one guess for each. |
| `SealOrder` | 2 keys, 2 contents of pool and candidate, 2 times | A candidate that verifies existed before the challenge half unless a reveal was stopped between that half and its receipt; the halves of a revealed split match unless the pool was edited under a command; a receipt closes the split. |
| `StageResume` | 4 items, 2 threads, 3 passes, 2 cut appends, both kinds of stage | An item is recorded once, unless it was held while an append raised; after an abort nothing is written, after a refusal one append at most; a pass that ends well has recorded everything; an outage leaves no record; nothing with a record is asked again; no record is lost. |
| `FrozenRun` | 2 commands, 2 contents, 2 prepares, 3 label edits | Paid records have a baseline behind them unless a command was stopped writing it; a whole baseline is final; a verdict of ok means that records and labels are of the pairs on disk, unless a prepare was forced or overlapped. |
| `GateFits` | 3 ids that may come again, 4 records, batches of up to 3, every policy | What is kept fits its share and is within one record of it; a record that leaves had the least current weight; under GR the end of the stream stays; the inner store, its index and its sums mirror the gate unless a call raised. |
| `KernelRecall` | all lists of up to 3 items over two instants, one later and one undated | From a replaced item the links that count and are dated before the call lead to one that is not replaced, however the claims of one instant are tangled; a call gives what it would give over an index without the items it must not see. |

Runs that end in a violation state what a document or a test of the repository
says, and show where the code does otherwise:

| Run | Says | Does |
|---|---|---|
| `LogSplit` | malformed events do not lose valid events | a write cut inside a character makes the whole log unreadable |
| `IndexStale` | a superseded record is never searchable | it is after a rebuild that signed more than it read, if the writer's rebuild fails |
| `SpendTwoThreads` | a request that could cross the cap is never forwarded | two threads pass the check with the same sum |

Other disagreements met on the way have no run of their own:

* "a lock is broken only when its owner is provably gone on this host, or when it is
  so old" (`memory_store.py:169-171`): a waiter that read the record of an owner whose
  process then ended normally breaks the lock of the next owner. `FirstTheft` states
  when that happens;
* "keys that were re-assigned to other pairs after the labelling are found"
  (`retrieval_bench.py:1091`): a forced prepare writes shown pairs and keys anew, both
  agree, and labels of the earlier pairs pass as labels of the new ones when there are
  as many. `LabelsAreOfTheKeys` excepts it (`"forced"`);
* "memory is already superseded" (`memory_store.py:362`) is said of a target read before
  the lock: two calls that overlap both succeed, and the record has two active
  successors. `SuccessorsBounded` is the bound that is left, and it is reached;
  `derive_temporal_view` then takes the last of them in the log;
* the event after a torn write is written on the torn line and lost, though its
  call succeeds: `LossBoundedByTears` allows for it;
* `verify_memory_integrity.py` reports logs that the store itself has written, with no
  torn write: `created_at` is taken before the lock (`non-monotonic-time`, lines 187-196),
  `add` takes a finding or a failure without a source (`missing-provenance`, lines
  211-221), and stores `related_ids` without a look at the log (`dangling-related-id`,
  lines 328-343). `VerifierBlamesTears` is about five other rules;
* two calls on one torn line of the ledger are charged once, and a reply without
  usage is priced at zero: `LedgerErrorBoundedByTears` allows for the first, and
  the bounds on the overspend exclude the second;
* a reveal stopped between `challenge.jsonl` and its receipt leaves `register`
  open ("Once the challenge is on disk the split is spent",
  `sealed_split.py:277`): `VerifiedIsBlind` excepts this one stop (`"stopped"`), and no
  other;
* the pool may be edited between the two readings of `seal` and `reveal`:
  `VerifiedHalvesMatch` excepts `"edited"`;
* "after an abort or a spend-cap refusal nothing more is written"
  (`retrieval_bench.py:646`): after a refusal the thread that has the lock still
  writes, because the refusal sets the stop event outside it. `StoppedIsQuiet`
  allows for that one append;
* "one JSONL record each" (`retrieval_bench.py:717`): when an append raises, the
  held rows stay held, on disk or not, and a thread in flight writes them again.
  `OneRecordEach` excepts them (`exposed`); `coverage` then reports the set as
  incomplete;
* a last line that was cut short "is ignored" (`contract.py:25`), but one cut
  inside a character makes `load_jsonl` raise, and a resume reads before it
  appends: `Start` needs `Readable`;
* "the inner store mirrors the retained set" (`tests/test_lifesim_systems.py:694`), but not
  after a duplicate id in the middle of a batch: the gate keeps what it has admitted and
  evicted, the inner store is told nothing, and from then on it may hold lines that the
  gate dropped, and more words than the capacity. `InnerMirrors` excepts it (`failed`). An
  id that comes back in the batch that rejected it takes another place in the inner store
  than in the gate (`twice`);
* what a call of the kernel may not see "cannot change the idf of what it may"
  (`memory_kernel.py:668`), yet fiction that names an account item in `meta.supersedes`
  hides it from a task that does not allow fiction. `HiddenChangesNothing` counts such an
  item among what the call knows;
* supersession "ignores self-links and cycles" (`kernel/README.md:50`), and more than
  these: `closes_cycle` also drops a link onto an item whose own way ends in a cycle or
  in itself, of which the link is no part;
* of two items with one id the kernel keeps the first listed: a hidden one may shadow
  one that the call could see. `HiddenChangesNothing` asks that no id is passed twice;
* the verifier's `raw.splitlines()` (`verify_memory_integrity.py:100`) also ends a line at
  U+2028 or U+0085, which `json.dumps(ensure_ascii=False)` leaves in the text: it reports
  a valid event as two unreadable lines. No text is in the model;
* an event that supersedes itself is reported as a forward reference, because that
  test comes first (`verify_memory_integrity.py:314`), and the rule for it never applies;
* "in every case" a stage leaves a record in `stages.jsonl`
  (`retrieval_bench.py:1231`), but not when `verify_frozen` or `take_baseline`
  raises; that file is not modelled.

### Bounds

Lock: two processes on one host and one on another are the least with which a
breaker, an owner and a successor are three processes and both branches of the
host comparison occur. Log: two writers overlap in every way the steps allow,
and four ids let two torn writes be followed by two more events; the two
violations need three. Index: three processes allow a rebuild that is overtaken
while a writer waits and a third searches; two events let one supersede the
other. Spend: two threads in one process and one in another give the race inside
a lock's process and the race between processes; `MaxCalls` is above the number
of calls that reach the caps without a fault, and with unpriced replies and torn
records the bounds that then remain do not depend on reaching them. Stage: the
breakers of the code (25, 25, 100 calls, 10 %) are 2, 3, 4 calls and 60 %, so that
each can come first, alone, before and after a chunk ends, and the window can be
passed without aborting; four items leave two after an outage and make a full chunk
and a rest; three passes let a resume be cut short and resumed. Frozen: two contents are what a
digest tells apart, two commands race for one baseline, two prepares give one to freeze
and one to follow it, three edits of the labels cover a label file, its deletion and
another. Gate: four records of one or three words, each with no token or with two, at a ratio of one half
make the store exceed its share by several records and fall on it exactly; three ids that
may return make an id leave and come again, in the same batch and in a later one; one token
makes every line a re-mention of the others or not; two weights and two draws give every
order of weight, tie and age. `RareCap` is 2 where the code has 3, so that a token stops
being rare. Kernel: three items are the shortest cycle with an item outside it or a chain
of two links; two instants and calls at, between and after them separate what is dated
earlier, at and after; a word more or less common than `rare_df` = 1 is one or two items.
Seal: two contents of each file are what a digest tells
apart, two keys allow a second sealing, two times let two commands of the same
inputs write the same bytes or not; the number of commands is not bounded.
Symmetry is used for safety runs only, over constants nothing tells apart.

Deadlock is checked where the model cannot stop (`SealOrder`); the others end
when ids, calls or living processes run out.

### Fairness

Only `LockAnyFault` needs it, for `OrphanIsRemoved`: weak fairness of each process's steps and of its
next call, and of time. A Python process that is not dead keeps executing, the
loop of `_exclusive_lock` has no wait but a 50 ms sleep, and agents keep calling
the store; crashes, exits and failed writes are not fair.

## What is proved

Each proof module proves an invariant `IInv` inductive (`InitIInv`, one lemma for
each part and step, `IInvAlways`) and draws its theorems from it. `TypeCorrect`
is in each of them.

`FileLockProofs`, for any number of processes and hosts and any set of faults:
`HolderOwns`, `Exclusive`, `CalmExclusive` and the action property
`FirstTheftIsABreak`. `IInv` has four parts: the types; that a process using an
unstolen lock finds its own file, signed exactly when it is past `Sign`; that
whoever is about to break has a reason in what it saw; and, without faults, that
the file belongs to a user, nobody is dead and nothing is old (`Calm`). Mutual
exclusion is not inductive by itself: it follows from the second part, since two
users would both be the creator of one file. The first theft needs the third
part: a fresh reading of the true owner's record gives no reason while the owner
lives.

`EventLogProofs`, for any number of writers and ids and any cuts: `Refinement`,
that the terminated lines implement `AtomicLog`. A new line must not repeat an
event, so `IInv` says that drafted ids were issued, that two writers never hold
the same one, that an id still pending is on no line, and who is past `Acquire`
(`Holder`). `LossBounded` is `LossBoundedByTears` when no write is cut inside a character (with one, nothing
can be read and the bound does not hold). `FewSuccessors`, for finitely many writers, is
`SuccessorsBounded`: the events on the disk and the drafts of pending calls that aim at one
id only grow in number when a check found none of the former on the disk. `LossBounded` is
not inductive: a torn piece in the tail is a loss still to come. `LossInv` keeps the
balance: acknowledged ids on no line, and pieces of the tail that nobody will finish, are
together no more than the writes that stopped.

`VerifierBlames`, in the same module and with no assumption on the cuts, is
`VerifierBlamesTears`. `BlameInv` has three parts. `OnceWritten`: no id is on two lines, or
on a line and in the tail, or on the disk before its call writes. `TargetsEarlier`: what an
event supersedes was read from the disk, so it is on an earlier line, or it is the first
piece of the tail, whole; nothing else is ever read from the tail, so no other event can be
named before it has a line. `TearsPay`: the targets on neither lines nor tail, and the lines
that are unreadable, have each used up one torn write, with one in store for every torn piece
of the tail. That is where an event can be named and then lost: `load_events` reads a whole
line without its newline, and the next append spoils it.

`SearchIndexProofs`, for any number of processes, events and edits: `SearchSees`
and `NeverGoesBack`. `IInv` says that at most one process rebuilds, that what it
has read is not ahead of the disk, and that it is not behind the published index,
the acknowledged events, or the event it follows. So whatever is published holds
every acknowledged event, though its signature may claim more than it holds.

`StageProofs`, for any plan, pool, breakers and numbers of passes and of cut
appends: all seven properties of `StageResume`. `IInv` adds to the types and to two
of the properties: that one thread at most has the lock, with a reply, and what is
held are rows of finished items, each once (`Hands`); that the stop event means an
item has raised, and what was written since (`Stops`); while a pass runs, that
what is still to be asked has no record, what is held has none unless it is
exposed, and every finished item is recorded, held, or counted as dropped
(`Fresh`); and that the outage is empty while a reply is being written, and has no
record (`Outages`). `RecordedOnce`, `Complete` and `AskedOnce` come from `Fresh`,
which none of them is strong enough to replace: that an item is not recorded twice
needs that what is about to be written has no record yet. The lemmas about
`GrowsBy` say what an append adds, complete or cut, after any repair of the tail.

`FrozenProofs`, for any contents, commands and numbers of prepares and of edits: all
five properties of `FrozenRun`. `Creation` says who may write the baseline: one command
at most, and none that has verified or hashed while there are records without a baseline.
`OfPairs` follows one pair file through what a command read, hashed, froze and recorded,
as long as no prepare overtook it; that a command which found the baseline of another
asks about the same pairs needs that both were between check and baseline at the same
time. `Labelled` does the same for labels, shown pairs and keys.

`MemoryProofs`, on `RetentionGate`, for any records, weights, ratio, batches and length of the
stream: `FitsItsShare`, `LeavesTheLeast` and `KeepsTheEnd`. `IInv` says of the order that every
kept line has a heap item with its current weight (`HeapCovers`), so that an eviction always
finds the least, and that no two lines have one number (`Arrivals`); of the share, that the gap to it is less than the largest record (`Share`), so that one
record at most is too many; and of GR, that numbers follow times (`Recency`).
`InnerHoldsTheSame` is `InnerMirrors`, from an invariant of its own (`Mirrors`), since a
batch is known to the gate long before the store hears of it. `Stock` says that the gate
counts the words it keeps and posts their tokens; `Consistent`, that postings and total of
the inner store are those of its records, whatever these are. `Agreement` relates the two in the
middle of a call: what the gate keeps is in the store as it is, or the last of its lines in
the batch is still to be passed on; what else the store has is to be dropped. The last line,
because an id may be admitted, rejected and admitted again in one batch: the store then gets
both lines, and the second one stands. `Turns` says that the lines to come are newer than
all that the store has, and new to it, unless an id came twice. `Drops` and `Adds` are the
lemmas about the two operations of the store, `UnitsLeft` and `UnitsWith` those about the
counts.

The same module on `MemoryKernel`, for any items, links, dates, calls and words of the
query: `HeirStaysVisible` and `HiddenIsAbsent`. `KernelInv` says that the lists are of dated
inputs with no id twice, that the index is that of the whole list, and that, while no id has
been passed twice, what would be listed for a call is what it knows of of the whole list; the
last needs that an item whose id is new is a duplicate in neither list. The rest is about
sets of items. `ReplacedIs` reads `superseded_by` as what it stands for: a link that counts,
dated before the call. `HeirStands`: without a heir, every item that replaces the given one,
directly or not, over links that count and are dated before the call, is itself replaced before the call; the latest of them are replaced by one
another; since an item names one target only, as many links lead out of them as into them
(`LinkedBack`), so the way from any of them never leaves them and never ends, which is what
`closes_cycle` looks for. `CycleSame`: what a call does not know of has no link dated before
the call, so the way within an earlier instant is the same with and without it, up to a last
step; hence the same links count (`LinkSame`), the same items are replaced (`ReplacedSame`),
and the frequencies, less those of the hidden items, are those of the shown (`CountShown`).

`SpendCapProofs`, for any processes, threads, prices and caps: `RunOverspend`, `Overspend`
and `LedgerError`. With steady prices and before the first fault, `Prices` says that whatever
is recorded is a price, so that the reserve of a process that has logged a call covers one
more; `Room`, that what a run has spent and one dearest call for each thread in flight fit
its cap and one call for every thread but one; `Exact` and `Fits`, the same for the total:
the ledger has what was recorded, and with what is in flight (`Exposure`: a dearest call
before the price is known, the price after) it fits the cap but for one call of every thread
but one. `Check` is the step that needs them: it adds a thread in flight only when the
reserve fits. `LedgerError` rests on `Accounts`, which no fault disturbs: `Cells` and `Owed`
bound a record and a debt by the dearest call; what is recorded and what is owed are paid;
what is readable is no more than was recorded, and short of it by what the tears have cost
or are still to cost (`AtRisk`: a torn tail spoils the next record too); and a guess stands
for a torn record each. The first part of the module is a theory of finite sums, which the
library has not: `LeastNat` and `MinimalSet` take a least counterexample, the one from the
numbers and the other from the subsets of a finite set, and stand in for induction;
`SumsExist` is that the recursion behind `SumFunctionOnSet` has a solution, `SumTake` and the
lemmas after it are what a sum of numbers does when its set or its function changes.

`SealedSplitProofs`, for any keys, contents and times: `Blind`, `HalvesMatch`
and `Final`. `IInv` says where a command may be once there is a receipt
(`Settled`), that the challenge half without its receipt means a reveal under
way, and that the registered candidate and the one about to be are from before it
(`BlindSoFar`), and follows one pool through manifest, registration, challenge
and receipt (`HalvesSoFar`), each as long as nothing of the kind it excepts has
happened.

The assumptions are those the modules name. `LockAssumption`: `NoProc` is not a
process, faults are of the known kinds, and every process has a host.
`LogAssumption`: no id or event is one of the markers. `IndexAssumption`: the
bounds are numbers. `SpendAssumption`: finitely many threads and at least one, each of one process, and
prices between a least and a most. `GateAssumption`: sizes, lengths, weights, draws and times are
numbers, and the ratio is above zero and at most one; `NoRecordAssumption`: the marker for
no record is not one. `KernelAssumption`: dates are numbers or not readable, no item's id is
the marker for no id, and the words an item writes only with a capital are words of it.
`StageAssumption`: the bounds are numbers, pool, chunk and
breakers are not zero. `SealAssumption`: an absent or torn file is not content.
`FrozenAssumption`: no content is one of the markers, the judge is a command.

## What is only model-checked

Liveness (`OrphanIsRemoved`), which is out of the prover's reach. Every other property of a
passing run is a theorem.

## What is left out

* Reuse of a pid, which would make a dead owner look alive: the ceiling covers
  it, at the price of a longer wait, and `Age` allows the ceiling in any state.
* The retry on Windows in `_unlink_lock`, and clocks: whether a waiter goes on
  or gives up is a free choice.
* Collisions of `_new_id` (a date and 32 random bits).
* `supersede`'s check and append are one step in `SearchIndex`; `EventLog`
  separates them.
* In `StageRecords`, the stages of one `judge` command under one lock (a pass is one
  stage), and an author who deletes the lock of a command that is still running; in
  `FrozenWorkdir`, the digests of config, scripts and prompts, and two prepares at once.
* An interrupt from the keyboard, `run_stage`'s own record, the arithmetic of the
  budget, the gates, `sample`, `audit` and all analysis of `retrieval_bench.py`.
* Two commands of `sealed_split.py` at once, the identifiers of a pool (an edit
  keeps them), the scan of the manifest for leaks, the loss of a key to a second
  seal that is then refused (the steps are there, no document promises otherwise).
* In `MemoryKernel`, the text units (a name of the model is written with a capital
  where its place does not force one), scores, thresholds, embeddings and their
  deadline, `render` and the guard. In `RetentionGate`, how a policy computes a weight that is
  settled at write time, queries, and the dense and hybrid stores.
* In `LogVerifier`, every rule but the five it names: `dangling-related-id`,
  `missing-provenance`, `non-monotonic-time` and the rules about the fields of one event.
* The store's validation of fields, snippets, ranking, the glossary.

* `upcast.py`, `context` and the servers: pure readings of what is modelled, without state
  of their own. The generators, the benchmarks' arithmetic, the analyses and the vendored
  packages of `data/lab`, which are most of the lines of the repository, go from inputs
  to a report; there is nothing in them for a model checker.

## Plan

1. Compose `FileLock` with `EventLog`: what a stolen events lock does to a log.
2. `ContextPack`: `context`'s two readings, `_fair_shares` against its budget.
3. The gates of `retrieval_bench.py` over the record sets, `sample` and `audit`, composed
   with `FrozenWorkdir`; `run_stage`'s record.
