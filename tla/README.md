# HoloNight Config in TLA+

HoloNight Config is a C++ library that desktop components link to read and edit
shared configuration documents (TOML). Several programs, and several threads of
one, edit the same file; so do people with text editors. This directory holds
models of the library, the TLC runs that check them on small instances, and
TLAPS proofs that hold for every instance.

All paths below are relative to the repository's root, and `document_store.cpp`
is `src/document_store.cpp` there.

## The system

| Component | State | Operations | What makes it correct |
|---|---|---|---|
| Document store, `document_store.cpp` | none in memory between calls; the file, its directory, its `.lock` file, a temporary file; the snapshot and revision a client keeps after a stage | `saveDocument`, `stageDocument`, `restoreDocument`, `resolveDocumentTarget` | writers exclude each other, no update is lost, a rollback undoes its stage or nothing, statuses are true, an acknowledged write survives a power loss, permissions and links are kept, every call returns |
| Document model, `document.cpp` | none | `parseDocument`, `readDocument`, `validateDocument`, `patchDocument` | a conflict is found exactly when a key is neither as based on nor as wanted; only the selected values change; the candidate is valid |
| Appearance document, `appearance_document.cpp` | none | `decodeAppearanceDocument`, `readAppearanceDocument`, `saveAppearanceDocument`, `stageAppearanceDocument` | an upgrade from version 1 changes the meaning of nothing that is not edited; concurrent upgrades converge; a later version is left alone |
| Legacy store, `store.cpp` | the file, a temporary file | `load`, `writeAtomically` | a reader sees one whole document; a failed write leaves the old one |
| Codec, `codec.cpp` | none | `parse`, `serialize` | `parse` of what `serialize` wrote is what was serialized |
| Appearance model, `appearance.cpp` | none | `defaults`, `validate`, names of enums | names and enums correspond; ranges are enforced |
| Path, `path.cpp` | none | `resolveAppearancePath` | the XDG rule, absolute paths only |
| Test support, `test_support.cpp` | a private directory | environment for tests of other projects | not the program |

Around them, outside the repository: the client programs (they keep the
baselines they showed to a user, and after a stage the revision and the
previous snapshot), editors that know nothing of the lock, the file system
(`flock`, `mkstemp`, `fsync`, `rename`, `unlink`, symbolic links) and toml++.

How they interact. A client prepares an `EditBatch`: for each key the override
it saw (the baseline) and the override it wants, each perhaps absent.
`saveDocument` and `stageDocument` hand it to `updateDocument`, which resolves
links, reads the file once without the lock, creates the directory, takes
`flock` on `<target>.lock`, resolves and reads again, asks the document model
for the patched document, writes it to a temporary file next to the target,
checks once more that bytes, target, inode and mode are what it read, renames,
and syncs the directory. `stageDocument` returns the document it replaced as
well; `restoreDocument` puts that back, or removes the file if there was none,
if the staged revision is still there. `stageAppearanceDocument` reads the
document before the lock to add a version edit to the batch, then stages.
`writeAtomically` shares the file with all of this and takes no lock.

What is hard: the code is straight-line, but every line between two system
calls is a place where other processes, editors, a failing call, a crash or a
power loss can come in, and the tests reach only some of them, one at a time.
`PROJECT.json` lists the hazards at their lines, with the property that covers
each or the reason why none does.

## Modules

| Module | What it is |
|---|---|
| `DocumentMerge` | what `patchDocument` and `prepareRestore` promise the store: conflicts, unsupported edits, the merged document, the status |
| `DocumentStore` | `updateDocument` and everything it calls, one action for each stretch of code between two points where it looks at or changes what another actor can touch; the environment; the properties |
| `AtomicDocument` | the abstract specification: each call takes effect at one instant or not at all, and its status says which |
| `DocumentStoreRefinement` | the mapping under which the store implements it |
| `TargetResolution` | `resolveTarget`: the walk over the components of a path, while links are replaced |
| `PathResolution` | where a path leads, or with what error it ends, as path_resolution(7) has it, and the comparison of the walk with it |
| `PatchPlanner` | `document.cpp`: how a document is patched in place, by source spans |
| `AppearanceCodec` | `codec.cpp`, `appearance.cpp` and the decoder of `appearance_document.cpp`, as operators |
| `AppearanceDocument` | `stageAppearanceDocument`, `writeAtomically` and `load` on one path, with editors |
| `DocumentStoreProofs` | theorems about the store: types, the lock, updates, links, statuses |
| `DocumentStoreHistoryProofs` | theorems about what the store leaves behind: rollbacks, permissions, power losses |
| `DocumentStoreRefinementProofs` | the store implements `AtomicDocument` |
| `TargetResolutionProofs`, `PathResolutionProofs` | theorems about the walk, and about where it leads |
| `PatchPlannerProofs` | theorems about what `patchDocument` offers |
| `AppearanceDocumentProofs` | theorems about the calls on an appearance document |
| `AppearanceMeaningProofs` | theorems about the codec, and about what documents stand for |
| `MC...` | definitions the `.cfg` files give to constants |

How they fit together. `DocumentStore` resolves a path in one step and merges by
`DocumentMerge`; `TargetResolution` (`WalkIsOneLook`) and `PatchPlanner`
(`MergesAsPromised`) show that the code below it does that. `AppearanceDocument`
in turn takes a stage of `DocumentStore` as a read under the lock and a write
after the last check (`Exclusion`, `Merges` and `WriteFollowsLink` of the store
allow that), and the same `DocumentMerge`, with the schema and decoder of
`AppearanceCodec`.

### The document (`DocumentMerge`)

A document is the function from keys to overrides that its snapshot holds, or
`NoValue`. What a patch preserves between them (comments, unknown keys, layout)
is the keys no batch names: in the merge they are as they were on disk.
`Missing` is a revision with `exists = false`. It has the same bytes, none, as
`EmptyDoc`, and the code compares bytes in one place (`SameBytes`) and whole
revisions in all others; the model keeps that difference. A document of
comments only is not distinguished from an empty one. `Malformed` stands for
every content `parseDocument` rejects, oversized ones included; two of them
are equal, which no check of the store can tell, as it never compares one.
`Valid` is what the schema accepts, and may leave `Missing` out: a schema can
require a key. `Detached` values have no assignment that could be edited.

Batches have no repeated or empty keys (the code refuses those before looking
at the document) and no invalid literals; `PatchPlanner` has both.

Two things depend on layout and not on values, and are left to `PatchPlanner`:
a member of an inline table can be edited if it is alone on its line, and a
batch can be refused as `UnsupportedPatch` because of where its insertions go.

### The store (`DocumentStore`)

Each writer has a program counter and the arguments and locals of its call:

| Step | Code (`document_store.cpp`) | Looks at, or changes |
|---|---|---|
| `ResolveTarget` | 274-280, with `rollbackTargetMatches` | links |
| `PreRead` | 281-294 | the file; creates its directory |
| `Lock` | 295-306 | the lock |
| `ResolveAgain` | 307-309 | links |
| `ReadCurrent` | 310-338 | the file; decides everything that depends on it |
| `Stat` | 141-148 | inode and mode |
| `CreateTemporary` | 149-156 | the directory: a new inode |
| `FillTemporary` | 157-180 | only its own file |
| `RecheckRevision` | 182-183, 238-239 | the file |
| `RecheckTarget` | 183, 239 | links |
| `RecheckMetadata` | 186-191 | inode and mode |
| `Rename` / `Unlink` | 192-196 / 242-245 | the file |
| `SyncDirectory` | 197-203, 246-252 | what can be lost |
| `Finish` | destructors, 373-381 | the lock; what the client keeps |

A step that fails its check goes to `finish` with the status the code returns.
The early return for an empty path touches nothing and is left out.

The file system is `link`, `content`, `meta` (inode and mode), `parent` (of the
directory: none, made by a call and not known to survive, durable) and `stable`
(what a power loss could leave at the path). A rename adds to `stable` what of
the temporary file has reached the disk; the directory sync takes away what was
there before. The temporary file keeps its inode until the call returns, for its
descriptor is open until then. Lock files, once made, stay: the documentation
asks for it.

Around the writers, if `Hazards` allows it:

- `fault`: `Fault` lets the system calls of any step fail, with the statuses
  the code has for them. It includes a file that vanishes within a read.
- `crash`: a writer dies at any step; the kernel drops its lock.
- `power`: everyone dies, and each path comes back as one of `stable`.
- `write`, `replace`, `delete`, `chmod`: an editor that ignores the lock.
  `write` keeps the inode, `replace` brings a new one; both put any content
  there, malformed ones too, which also covers a read of a half-written file.
- `relink`: a symbolic link is pointed to another target.

Four variables are history, read by properties only: `raced` (what changed
under a writer after its last check of just that), `wrote`, `before` (what a
stage really found and left) and `acked` (what the last acknowledged write left
at a path).

### The path (`TargetResolution`, `PathResolution`)

The state is what `resolveTarget` has in its locals: the path walked, the
components left, the links followed. Each step is one turn of its loop, that is
one look at the file system: `SkipEmpty` 55-58, `Dots` 59-67, `Plain` 68-79,
`Follow` 80-86 with `prependLinkTarget`, `Finish` the return and
`resolveDocumentTarget`. Between any two, `Relink` may replace a link. A name
below a file fails with `NotADirectory`, as `symlink_status` does; a dot after
what is no directory fails with `NotADirectory` or, if it is missing,
`NoEntry`, as `is_directory` does. Other errors of the file system are faults of
the store.

`PathResolution` is the reference, and external: path_resolution(7), taken from
no line of the code. Each name, the empty one after a last slash included, is
looked up in a directory that is there (`Onwards`); a file in its place is
`NotADirectory`, nothing in its place is `NoEntry`, and only the last name may be
missing, for that is where a file would be created. A link is resolved as a path
of its own, and what follows it goes on from there (`LookUp`). `LeadsTo` is a
function of how many links may still be followed, each of its values made from
the one below.

The walk is laxer than that in two cases, and `Agrees` says exactly which:

- `AfterFile`: it skips empty components (56-58), so it finds `/d/f/` where the
  kernel has ENOTDIR, and what it finds is the file. `updateDocument` refuses a
  path of a caller that ends in a slash (270), but `resolveDocumentTarget` takes
  it, and both take a link whose target ends in one.
- `BelowMissing`: it goes on below a directory that is missing (68-79), where the
  kernel has ENOENT, for `updateDocument` creates the directories (291). It then
  ends below the very place where the kernel stops, and nothing is there. A slash
  after a missing name is the same case.

### The patch (`PatchPlanner`)

A document is a sequence of lexemes: keys with their `=`, headers, brackets,
commas, scalars, the quotes of multi-line strings (three, or four, where one
belongs to the string), `#` and newlines. Offsets count them, and every
function of `document.cpp` that works on offsets is an operator of the same
name or of what it decides: `Assignment`, `RetainedComments`, `InsertionPoint`,
`HeaderMatches`, `Coalesced`, `Later`, `Sorted`, `Spliced`, `Candidates`,
`PatchDocument`. `std::ranges::sort` may leave replacements that compare equal in
either order, so every such order is tried. toml++ is
external: a lexer (`Lex`) and a parser (`Parsed`) for this part of the language,
with redefinitions, dotted keys and inline tables. The two scanners of the code
itself (`Assignment`, `ScanStep`) are kept apart from that lexer, mistakes
included, for what they make of a string is what could go wrong.

A client (`Patch`, `Save`, `Discard`) edits one document again and again, with
every batch of one or two edits that are up to date, out of date, or repeat a key.

Left out: escapes and quotes inside a scalar, carriage returns (one newline
convention is as good as the other), arrays of tables, the conversion of
columns in code points to offsets in bytes.

### The appearance (`AppearanceCodec`, `AppearanceDocument`)

An appearance is a value for each field; a document is a typed TOML node, or
nothing, for each key, those of unknown fields included. Numbers are hundredths,
with the ranges of `validate` (NaN and infinities are floats outside of them);
texts are named, with a length, and can be ill-formed UTF-8 or have a
control character that `quote` does not escape. `Parse`, `Serialize`,
`Validates`, `Normalized`, `Decode` and `WellTyped` (the types of
`validateDocument`) are the functions of the code.

| Step | Code | Looks at, or changes |
|---|---|---|
| `ResolveTarget` | `appearance_document.cpp:154-160` | where the path leads |
| `ReadStage` | 161-182 | the document, without the lock; makes the version edit |
| `PlanStage` | 183; `document_store.cpp:274-339`, `replaceDocument` to its last check | the path and the document, under the lock |
| `Replace` | `document_store.cpp:192-203` | the document |
| `Encode` | `store.cpp:184-190` | nothing |
| `Rename` / `WriteFails` | `store.cpp:192-230` | the path: a link there is replaced, not followed |
| `Exists`, `FileSize`, `OpenAndRead` | `store.cpp:105-122`, `124-132`, `134-165` | the document, three times |

`Refuse` answers for a stage whose system calls or checks fail, at each of its
steps. `Editor` leaves any of some documents, of a later version, with a field
missing, unknown or out of range, with whole floats where integers are due, or none at
all. A path can lead through a link to a second place.

`meant` is history: the appearance the last writer meant a document to stand
for. So are `raced`, in a call that is past its last check, and `looks`, all
documents there were during a load. Faults of `load` other than a file that is
gone, and documents that are too large (they are `Malformed`), add no case to
the properties.

## Properties

- `LockExclusion`: two writers past `flock` work on different physical files.
- `NoLostUpdate`: a save or stage that writes gives each key of its batch the
  pending override and keeps all other keys as they are in the very document it
  replaces, where each key of the batch was as based on or as wanted.
- `RollbackUndoesStage`: a rollback that writes puts back exactly what its
  stage overwrote, in the same place, over nothing but what the stage left.
- `NobodyWaitsInVain`: a call that waits for `flock` waits for another call that
  is at work on the same file and waits for nobody.
- `NothingIsRewritten`: a file is replaced by other bytes only, so that edits
  somebody has already made, an earlier try included, write and create nothing.
- `PermissionsPreserved`, `WriteFollowsLink`: mode and link at the write.
- `StatusTellsTheTruth`: `Success` and `DurabilityFailure` mean written (or, for
  `Success`, that nothing had to change), every other status means untouched.
- `AckedSurvives`: what an acknowledged replacement left is what the path holds
  until somebody changes it, power losses included.
- `EveryCallReturns`: no call waits for ever.
- `IsAtomic`: the store implements `AtomicDocument`.
- `LeadsToTheFile`: with links at rest, the walk fails only with the error the
  kernel has, and finds what the kernel finds, or would create, with as many
  links, except in the two cases under "The path": a slash after a file, and
  names below a missing directory.
- `WalkIsOneLook`: if a link is replaced meanwhile, that is so of the tree before
  or of the tree after.
- `NoLinkIsLeft`, `WalkGetsOn`, `WalkEnds`: a walk gets on with every turn and
  ends, and no link is in the path it finds.
- `MergesAsPromised`: `patchDocument` reports a conflict only for a conflict in
  the sense of `DocumentMerge`; it succeeds only without one, with a document
  the schema accepts, in which the edited keys have what `DocumentMerge` says.
- `RestKept`: what lies outside the spans of the edits (for a value that is set
  the value, for a reset all from the beginning of its line) is in the patched
  document, in its order, whatever the document is taken to mean.
- `UnrelatedKept`: what is not edited, comments included, is in the patched
  document in its order, and keys that are not edited keep their values.
- `RefusedForCause`: a batch without conflicts is refused only for one of the
  listed reasons; each of them is one the code has.
- `TypeOK` of `PatchPlanner`: a candidate can be read again and fits the bound,
  however long the document is edited.
- `StandsForWhatWasMeant`: a document the library wrote last decodes to what its
  writer meant, across versions, upgrades and resets to defaults.
- `UnsupportedIsKept`, `UpgradesWhatItSaw`: a stage leaves documents of later
  versions alone, and what it upgrades is of the version it read before the lock.
- `LoadIsOneLook`: three looks answer as one.

The exceptions for `raced` are the window the header concedes ("Arbitrary
editors can still race between the final revision check and rename"), and only
that: each kind of change counts from the moment its own last check was passed.

## Runs

| Run | Instance | Shows |
|---|---|---|
| `writers` | two writers that save either key or reset one; a link and its target; a schema and a document model that refuse some documents; faults and crashes | `LockExclusion`, `NobodyWaitsInVain`, `StatusTellsTheTruth`, `NoLostUpdate`, `IsAtomic` |
| `rollback` | one writer stages and rolls back a key, one saves or resets another; faults | `TypeOK`, `RollbackUndoesStage`, `IsAtomic` |
| `editors` | one writer that stages a value or a reset of one of two keys and rolls it back; an editor that changes both keys and does everything else; two modes | `RollbackUndoesStage`, `PermissionsPreserved`, `NoLostUpdate`, `NothingIsRewritten` |
| `links` | one writer that does everything; a link and two targets | `RollbackUndoesStage`, `WriteFollowsLink` |
| `power` | two writers, one rolls back; power losses and faults | `AckedSurvives` |
| `fair` | two writers that save; faults and deletions; fairness | `EveryCallReturns` |
| `readme` | one writer and an editor that writes in place | a statement of `README.md` that the code does not keep |
| `resolution` | a tree of two directories, a file and two links with nine targets each, some with a slash at the end or below nothing, one of them replaced once; nine paths; at most 3 links | `TypeOK`, `LeadsToTheFile`, `WalkIsOneLook`, `NoLinkIsLeft`, `WalkGetsOn`, `WalkEnds` |
| `patch` | six documents, batches of up to two edits of seven kinds, again and again; a bound on the size | `TypeOK`, `MergesAsPromised`, `RestKept`, `UnrelatedKept`, `RefusedForCause` |
| `unrelated` | one document with a multi-line string in an inline table | a statement of the design notes that the code does not keep |
| `appearance` | a client that stages, one that stages, writes or loads, two changes by an editor; a link or none | `TypeOK`, `StandsForWhatWasMeant`, `LoadIsOneLook`, `UnsupportedIsKept`, `UpgradesWhatItSaw` |
| `codec` | a client that writes a text with a control character | a statement of `README.md` that the code does not keep |

Every run of the store starts from every content of every path, malformed and
missing ones included, with the directory there or not. A writer makes any
number of calls: no counter is bounded, the state spaces are finite because
documents are.

Bounds. Two writers are enough for every pairwise conflict over a lock; what a
third could add is proved not to matter for the properties under Proofs. One
key with one value and its absence lets an edit be a set, a reset, or already
done; two keys tell unrelated edits from conflicting ones; a second value is
used where values of inline tables matter. Inodes are as many as the files
that exist at a time, temporary ones included, and one more where an editor
replaces files; an inode number is given out again after it is freed, as file
systems do. Writers and inodes are interchangeable and declared
symmetric, except in the run with a liveness property.

`IsAtomic` is checked among cooperating writers, with links at rest: an editor
in the window before a rename is what it would not allow.

In `resolution` the limit is 3 links, not 40: with two links, three are enough
for a chain, a repetition and a loop that has to be cut off. In `patch` the
bound on the size is not 65536 bytes but a few lexemes above the documents, so
that it is met; documents grow to it, as each pair of a set and a reset leaves
an empty line. In `appearance` each client calls once: a call keeps nothing, so
a second one differs from one by another client only by coming after it, which
the other client's can too. Two changes by the editor let a version go up and
down between two looks.

Fairness (`fair`, `resolution`). A walk that can take a step does: it waits for
nobody. Every writer that can take a step does at last: processes
are scheduled, and no step of the code waits for another writer except `flock`.
The lock is given strongly fairly: the kernel serves waiters in order, so one
that waits while the lock comes free again and again gets it. Nothing is
assumed of clients, editors or faults. Without the strong fairness of `flock` a
writer could starve: the code has no timeout there.

Three runs are expected to fail.

- `readme`: `README.md` says that a rollback whose staged revision is no longer
  current returns `RevisionChanged`; when an editor left bytes that do not
  parse, the code returns `Invalid`, as it reads the document before it compares
  it. The document is preserved either way.
- `unrelated`: the scan for the assignment of a value starts at the beginning of
  the value's line as if no string could be open there. A reset behind a
  multi-line string of an inline table then takes the end of that string with
  it, and can succeed on a document whose next keys have become part of the string.
- `codec`: `quote` leaves control characters alone and `validate` admits them;
  `writeAtomically` then succeeds in writing a document that cannot be parsed.

## Proofs

Every theorem holds for all values of the constants: any sets of writers,
clients, links, targets, inodes, keys, values and documents, any schema, any
tree, path and limit. The assumptions on constants (`MergeAssumption`,
`StoreAssumption`, `RefinementAssumption`, `TreeAssumption`, `PatchAssumption`,
`CodecAssumption`, `AppearanceAssumption`) say what kind of thing each is, and
TLC evaluates them in the runs. Where a theorem has a hypothesis besides, it is
named below with its reason.

### The store

`DocumentStoreProofs` proves, for any `Hazards`, the invariants `TypeOK`
(`TypeCorrect`), `LockExclusion` (`Exclusion`), `NobodyWaitsInVain`
(`WaitsAreForWork`) and `StatusTellsTheTruth` (`StatusesAreTrue`), and the action
properties `NoLostUpdate` (`Merges`), `NothingIsRewritten` (`WritesChangeBytes`)
and `WriteFollowsLink` (`FollowsLinks`).

`TypeOK` is not inductive: that a step leaves values of the right type behind
depends on its locals having been set. `TypeInv` adds `LocalOK`: which locals
each step may rely on. `LockInv` says that a writer past `flock` holds the lock
of its target, which gives `LockExclusion`, for a lock has one holder. Its proof
uses two facts about a writer's steps, shown once and used everywhere: it
disturbs others only by what it does to its target (`KeepsToItself`), and it
keeps target and lock while it is past `flock` (`KeepsLock`). `HolderInv` is the
converse: a lock that is held is held by a call past `flock` on that very file,
which keeps it until it returns or dies (`HolderKeeps`). Such a call is not
waiting itself, so there is no circle of waiters; that it goes on is what the run
`fair` adds.

`NoLostUpdate` is about one step, but one step cannot see why the document that
a rename replaces is the one that was read long before. Two invariants carry it
there: `WindowInv` (from the last check of the revision to the write, the target
holds what was read, unless an editor got in; cooperating writers cannot, by
`LockInv`) and `PlanOK` (the temporary file holds the merge of the edits into
what was read, is something else than that, and the patch had succeeded). With
`TypeInv` they are the inductive invariant `StoreInv` (`StoreCorrect`); the
lemma `MergeKeepsOthers` says what a successful patch does to each key. Both
give `NothingIsRewritten` as well. `LinkInv` does for links what `WindowInv`
does for the revision, and `StatusInv` ties `wrote` to the step and the status.

Two more theorems are about calls after calls. `RetryFindsItDone`: a batch that
succeeded on a document succeeds again on what came out of it, with the
baselines it had, and changes nothing, so a retry after `DurabilityFailure` is no
conflict with itself. `OrderDoesNotMatter`: two batches over different keys that
each succeed on a document neither conflict nor become uneditable after each
other, and what comes out of both, or the refusal of both together, is the same
whichever writer had the lock first.

`DocumentStoreHistoryProofs` is about what calls leave behind, again for any
`Hazards`: `RollbackUndoesStage` (`RollbacksUndo`), `PermissionsPreserved`
(`PermissionsAreKept`) and `AckedSurvives` (`AcknowledgedSurvives`). The
inductive invariant `HistoryInv` (`HistoryCorrect`) follows four things over the
life of a call:

- `TempOK`, the temporary file: that it is there, complete, on the disk and
  with the mode of the file it replaces, by the time of the rename;
- `RestoreOK`, a rollback: past its checks, the document found is the one
  staged, and the one to be put there is the one before it;
- `HandleOK`, the client's handle: what it says of the last stage is what that
  stage did, also if it was answered with `DurabilityFailure`;
- `MetaInv` and `AckedInv`: what was looked at is what is replaced, unless there
  was a race, and what was acknowledged is alone on the disk.

`DocumentStoreRefinementProofs` proves `StoreIsAtomic`: `Cooperative => (Spec =>
IsAtomic)`. `Cooperative` says of `Hazards` that everybody who changes a
document takes its lock, that links stay and that the power stays on; faults,
deaths and changes of permissions may come at any step. Without it the formula
is false, for an editor in the window before a rename is what `AtomicDocument`
excludes. `AtomicInv` says what the mapping relies on: a call stays at the end of its
path, a write has something to change, and a rollback brings back only what is
valid. Then every action of the store is mapped: the rename, the unlink and the
read that finds nothing to change take effect, the read that refuses finds its
reason, and all others are stutters. The mapping takes a call for something
other than `None`, which is `RefinementAssumption`.

### The path

`TargetResolutionProofs` proves `LinksAreCounted` (`[]TypeOK`),
`NoLinkIsEverLeft` (`[]NoLinkIsLeft`) and `WalksGetOn` (`WalkGetsOn`): what
makes a walk end, short of the fairness that makes it take its turns. The set of
links never changes, only what they hold, so what has been walked stays free of
links while others replace them; `WalkInv` says so of every prefix of it, which
is what a step that appends a name or goes up needs.

`PathResolutionProofs` proves `WalkLeadsToTheFile` (`[]LeadsToTheFile`) and
`WalksAreOneLook` (`[]WalkIsOneLook`). First the reference has to be understood.
`Along` and `LeadsTo` are recursive functions, and what they are is shown by
induction, from the least element of a set of numbers (`LeastElement`,
`NextByNext`): there is one way to go along some names, and `Along` takes it
(`OneWay`, `Ways`, `AlongIsTheWay`), along one path and then another is along
both (`AlongBoth`), and `LeadsTo` is worked out from itself, for a link is
followed with one fewer left (`OnwardsTells`, `SomethingLeads`, `LinksLead`).

`Continues(held)` then says that in a tree the path leads where the walk goes on
to from where it is, or that the walk has strayed (`Strays`): the path leads
nowhere, and the walk is at the file with a slash after it or below the missing
directory. A walk that has more to look for where no directory is has strayed
(`Astray`), and by `TreeAssumption` nothing is below such a place
(`NothingBelow`): it comes on no link, no file and no directory any more, and a
dot, or a name below a file, ends it with the error the path has. Every step
keeps `Continues`, if the link it reads, if any, holds
in that tree what the walk reads (`StepContinues`). At rest this is
`LeadsToTheFile`. With one link replaced once, `LookInv` (`LookCorrect`) says
that `Continues` holds of one of the two trees and of all trees that look like
it on the links met so far. A link that is met first in its other state turns
the walk to the other tree: it has not been met before, and no other differs.

### The patch

`PatchPlannerProofs` proves `PatchesCanBeRead` (`[]TypeOK`), `PatchesMerge`
(`[]MergesAsPromised`) and `RestIsKept` (`[]RestKept`), for any documents, edits
and schema. The first two are independent of spans and scanners: whatever those
make of a document, a success has been parsed and compared with the batch, and
what is compared is what `DocumentMerge` says. `PatchInv` keeps that for every
answer, until the client saves it or lets it go.

`RestIsKept` is the opposite: what is not edited is compared with nothing, so it
stays only if the replacements leave it alone. The proof follows them through
the code:

- the parser gives every entry a span within the document, and its scans go on
  from where they are, so that each edit that is planned replaces lexemes of its
  own span or inserts somewhere in the document (a replacement is `Fitting`);
- coalescing and sorting keep that, in whatever order equal ones come out;
- one replacement applied after the other, each before the last, leaves what no
  span covers: the result `Embeds` the rest, by induction over the replacements;
- `Found` takes the first place for each lexeme, so what is embedded is found.

`PatchInv` carries it as `Keeps(current, batch, s)` for every document `s` on
offer. `SettingKeepsUnrelated` follows: for a batch that only sets values, which
span no more than the values, the part of `UnrelatedKept` about lexemes holds of
every document. Resets are what can break it (the run `unrelated`).

### The appearance

`AppearanceDocumentProofs` proves `OneStagePastItsCheck` (`[]TypeOK`),
`LoadsAreOneLook` (`[]LoadIsOneLook`), `FutureVersionsAreKept`
(`UnsupportedIsKept`) and `UpgradesAreOfWhatWasSeen` (`UpgradesWhatItSaw`). The
inductive invariant `IInv` (`CallsAreWhatTheyRelyOn`) gives each call the shape
that belongs to its step (`Shaped`) and says what the step relies on: from
`ReadStage` on the batch has the version edit, based on what was seen
(`Versioned`); past the last check what was found is still there unless the call
was raced, and is of a version the edit does not conflict with (`Checked`); a
load has in `looks` what is there now, and answers for one of them (`OneLook`);
and a lock is held by the stage that is past its check (`LockInv`). The lemma
`MergeIsVersioned` takes what `Checked` says from `DocumentMerge` and the
decoder; `OtherCall` shows once that no step of anybody else spoils a call.

`AppearanceMeaningProofs` is about what documents stand for. `RoundTrip`: for
every appearance that `validate` accepts, if its texts are `Quotable`, decoding
what `serialize` writes gives that appearance, its texts trimmed.
`EditMeansItself`: a patch that succeeds and leaves a document of version 2
makes it stand for the appearance it stood for, with the edits, whatever version
it was of. Its proof goes field by field: an absent field stands for its
default, and decoding takes a default as it is. From both follows
`DocumentsStandForWhatWasMeant`: if what clients write is `Quotable` (no control
characters), `Spec => []StandsForWhatWasMeant`; the invariant `MeantInv` carries
what a call is about to write from where it was made to the rename. The
hypothesis is what the run `codec` shows to be needed.

### Only model-checked

- `UnrelatedKept`: it is false of some documents (the run `unrelated`), so no
  proof for all of them exists. `RestIsKept` and `SettingKeepsUnrelated` are the
  parts of it that hold of all.
- `RefusedForCause`: a batch that has none of the causes is never refused. That
  needs what the parser makes of every spliced document.
- `EveryCallReturns`, `WalkEnds`: liveness under fairness is out of the prover's
  reach. The safety they rest on is proved: `WaitsAreForWork` and `WalksGetOn`.

## Not modelled

- a client that applies a staged document asynchronously and rolls it back:
  `README.md` describes what it should do, but it is no code of this repository; what a
  rollback does whenever it comes is `RollbackUndoesStage`;
- the retry after `DurabilityFailure`: it finds the bytes in place and returns
  `Success` without a directory sync. The model does that too; nothing in the
  documentation promises more, so there is no property of its durability;
- lock files that somebody deletes: the documentation forbids it;
- bytes within a lexeme: escapes, multi-byte characters and columns, carriage
  returns. They would be a transliteration of two loops over one line;
- `number`: its 17 digits are enough to read back the same double; the models
  have hundredths;
- `path.cpp` (a choice among three environment variables), the wording and
  positions of diagnostics, the build, the test support, toml++ itself.
