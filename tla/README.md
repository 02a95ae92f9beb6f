# Composure: a verification development

Composure shows a Docker Compose stack as a graph in VS Code and edits the files
without reformatting them. A Go program (`composure serve`) reads, resolves,
diagnoses and edits; a TypeScript extension starts it, draws what it answers,
stages what the reader asks for and sends it back on Save.

These modules model the parts where a wrong order, a stale answer or a failure
half way could damage somebody's file, lose their work or leave a process behind.
All source paths below are relative to `src/`.

## 1. The system

```
 webview  <-- messages -->  StackPanel  --request-->  CoreSession  --stdin/stdout-->  serve
 (strip,     panel.ts        staging.ts               session.ts, core.ts             serve.go
  canvas)                                                                                |
                                              resolve, topology, diagnose, schema <------+
                                              edit, extract, strategy, dockerfile <------+
                                              hub (the only network) <-------------------+
```

| Component | State | Operations | Interacts with | Hard behaviour | Correct means |
|---|---|---|---|---|---|
| **serve loop** `cmd/composure/serve.go` | read loop, `fs` RWMutex, `writeMu`, WaitGroup, session context, stdout | read a frame, dispatch on a plane, answer, panic recovery, shutdown, exit, drain | every engine; the client by framed JSON | goroutines per request, lock order, a lookup that never returns, a panic under the lock, the end of a session | a write overlaps no other file method; frames never mix; one answer each; no answer lost by the drain; the session ends |
| **extract** `internal/edit/extract.go`, `dotenv.go` | compose file, `.env`, temporaries | preview, approved move, command-line move | serve, the command line, the editor | two files and no common rename; a crash or a failing call anywhere; staleness of two files at once; a re-run over its own residue | no reference is ever undefined; nothing but the moved site changes meaning; what was approved is what is written; re-running converges |
| **edit engine** `internal/edit/edit.go`, `diff.go` | one file | preview and apply an ordered set of operations | serve, panel | ranges recorded in a buffer earlier operations produced | an assertion that no longer holds is refused; a refusal writes nothing |
| **staged edits** `extension/host/panel.ts`, `staging.ts`, `edit.ts`; `webview/pending.ts` | `Staging.byFile`, `extract`, the strip | stage, unstage, discard, save, move, redraw, the watcher | session, webview, the file system | every handler awaits and others run meanwhile; a write that times out and lands anyway; somebody else's save | what lands is what the strip showed, once; no stage vanishes unsaid; no stage waits unseen |
| **core session** `extension/host/session.ts`, `core.ts` | `core`, `starting`, `generation`; per client `proc`, `exited`, `disposed`, `pending` | ensure, request, restart, dispose; start, kill, dispose | serve | a retry during a start, an exit event told late, a hung process, concurrent callers | one process; a retry gets a fresh one; nobody waits on the dead; nothing outlives the window |
| **panel: draw, inspect, view state** `panel.ts`, `viewstate.ts` | drawn picture, selection, profiles, stored view | draw, inspect, select, toggle a profile, switch files, update | session, staging, webview | a redraw skipped as a duplicate; reads answered out of order; read-modify-write of the store; a request refused half way through a draw | findings, graph and buttons are of one set of profiles; the picture is of the file as it is; no stored choice is lost |
| **resolve** `internal/resolve` | per call: documents, the extends cache, steps, notes | load a chain, interpolate, convert with origins, include, merge, extends, sweep, validate | everything that reads a stack | order of the chain, `!reset`, cycles found from any start, an origin kept through merge keys, aliases, include and extends | the last word wins; a value is where its origin says |
| **topology** `internal/topology` | none (pure) | nodes, edges and dangling references under a set of profiles; components; layers; blast radius | panel, diagnose | a reference to something hidden; a component algorithm unrolled by hand | profiles only hide; components whole, layers strictly above what they wait for |
| **diagnose** `internal/diagnose` | none (pure) | ten rules, each with the fix it offers | edit engine, panel | a finding of the merged model, a fix of one file | a fix is of the place it is about, answers the finding and touches nothing else |
| **editing** `internal/edit/add.go`, `inherited.go`, `internal/strategy` | one file | classify what may be typed where, plan a declaration, scalar and key surgery | panel, serve | aliases, merge keys and anchors; a name another file has | what is typed is what is read back, and nothing else moved |
| **dockerfile, move to an argument** `internal/dockerfile`, `internal/edit/extractarg.go` | one Dockerfile | parse, stages, insert, replace, set a base, move a literal into an `ARG` | edit engine, panel | heredocs, continuations, the escape directive, comments that belong to what is below; the scopes of `ARG` | an edit is one instruction; a moved literal reaches its use and no other |
| **hub** `internal/hub`, `cmd/composure/image.go` | bounded cache with expiry | look a tag up, stages one after another, search | serve | concurrent misses, a full cache, a slow answer stored late | bounded; an answer is Docker Hub's own, of that family, and fresh |
| **schema, webview rendering, tools** | tables, DOM, benchmarks | lookups, drawing | | none that a state machine shows | |

`PROJECT.json` lists each of these with what is modelled of it and what is not,
and every hazard with the line where it bites.

## 2. The modules

### AtomicMove and TwoFileWrite: `composure extract`

`AtomicMove` is the contract of the "ATOMICITY, IN THREE PARTS" comment: a
literal turns into `${n}` only when the `.env` already says n is that literal, and
otherwise only a name nothing needs may come or go: no `${n}` reads it, or the host
sets it.

`TwoFileWrite` is `runExtract` and `writeBoth`, one action per file-system call:
`Lock`, `ReadCompose` (`literalAt`), `PreviewCompose` (which reads the file
again, with `Expect`), `ReadEnv` (`checkEnvExpect`, `assignEnv`, every refusal,
and the end of a preview), `ReadBefore`, `StageEnv`, `StageCompose`,
`RenameEnv`, `RenameCompose`, `Rollback`; `ReadFails` and the second disjuncts
are a call that returns an error (at most `MaxFaults`), `Crash` the process dying
(at most `MaxCrashes`), `Edit` somebody else's save (at most `MaxEdits`).
A compose file is what each scalar position holds, a literal as it is written, `${n}`
or `${n:-l}`; a `.env` is whether it is there and what each name is. `Meaning` is
what Compose makes of a position: a literal is read through `Reads` (`$$` is one
dollar), a variable is looked up in the host's environment (`Host`) and then in the
`.env`, whose value is inserted as it stands, and a default counts when neither has
the name. The move is of the text as it is written, so a moved site does not always
mean what it did; `RestKeepsMeaning` says what it comes to mean and that nothing else
changes, `MeaningKept` what the code's comments say of it. A byte range with its text is
the document it was located in: the same text elsewhere in a changed document
*may* be stale, which is what a range can tell.
`shown` is the preview the reader holds; an approved move is only ever one of
those, and it survives a crash of the core because it is the editor's.

### Serve: the request loop

One action per step between which another goroutine can run: the loop reads a
frame (`ReadRequest`, `ReadControl`, `ReadShutdown`, `ReadNotJSON`, `ReadBroken`,
`ReadEnd`), writes an inline answer under `writeMu` in two writes (`LoopHeader`,
`LoopBody`), and ends (`Cancel`, `Drained`, `GraceOver`). A handler takes the file
plane (`RLock`; `Announce` then `Locked` for a writer, because Go's RWMutex stops
new readers when a writer waits), computes or panics, answers, and unwinds the
defers in order. A lookup takes no lock. What a handler computes is left out.

The properties are over `out`, the stream the client really reads. The modelled
`shutdown` carries an id, as the extension's does.

### EditRun and Staging: intent, and the file it is about

`EditRun!Run` is `edit.run`: each operation is located in the buffer the earlier
ones produced, its `Expect` compared, and performed; nothing follows a failure,
and an empty diff is refused. A document is a sequence of lines; each text has a
width, so an edit can move the lines below it or not. Operations are
`replace_scalar`, `delete_key` and `insert_sequence_entry`: one that keeps the
lines, one that takes a line out, one that adds one at the end.

`Staging` is the extension host: one thread, so an action is a stretch of a
handler from one `await` to the next, and anything may run in between. `Stage` to
`Preview` is `stageAll`; `RefreshPending` and `Refresh` are the two halves of
`refreshPending`; `Save` to `Applied` or `MoveApplied` is `save`; `StageMove` to
`Extract` is `stageExtract`; `ChangeSeen` is `onSourceChanged` with its 400 ms
dedupe (`fresh`, `WindowCloses`); `Drawn` is the redraw and its queue. The core
answers in one step (`CoreReads`, `CoreWrites`): Serve shows that a write overlaps
nothing, and one rename ends it. `Timeout` is the client's deadline: the handler
gets an error while `late` still runs the write. `Patient` says the reader acts
only when nothing is in flight. No guard of the code makes it so: it is an assumption
about a person, and the two kinds of run say what holds with it and what without.
`LandsAsRecorded` is what holds of the file for any reader.

`owed` is a history variable: what the reader was shown as staged, less what they
took back, what was written and what was said to be discarded. `Without` is the
removal of a stage's key, written with a fold so that it can be reasoned about.

### CoreSession: one process per window

`Call` is `request` up to its await (the running core, the start in flight, or a
new process); `HandshakeDone`, `StartRefused` and `SpawnFails` are the ends of
`start` with the `.then` and `.finally` of `ensure`; `Exit` is the `'exit'` event
with `handleExit`; `BadFrame` a stream whose position is lost; `Restart` is
`restart` and, for the same assignments, `dispose`; `DisposeTimer` the 500 ms
after which a disposed process is killed. A killed process is `Leaving` until the
operating system reports it gone, however late; nothing orders that against its
successor. `Orphan` is a process that serves and that the session no longer holds. A
missing binary and a reply nobody waits for
change no state.

### ComposeValues, Interpolate, Merge, Resolve: files to a model

Pure operators, in the order the code calls them. `ComposeValues` has a YAML node
(kind, text, tag, alias, flow or block) and a resolved value with its origin;
`Interpolate` is `interpolate` and the layers of `varEnv`; `Merge` is the rule
table with the keys of its entries, `mergeInto` and the two ways a sequence
merges, with the notes and the `past` a value displaces; `Resolve` is conversion
with merge keys and tags (`Convert`), a file with its env files and includes
(`LoadDocAt`), the chain (`ChainStep`), `extends` a service at a time
(`ExtendStep`, with the cache and the cycle check of `extendService`), and the
sweep (`Finished`). The loader is a record handed from step to step and its first
error ends everything. A text is a sequence of parts, a file a directory and a
name, a position the path of a token; two tokens share a line when they are in
one flow collection or a key begins an item.

### Topology, Condensation, Components

`Topology!Graph` is `Build`: nodes with their declarations, edges and dangling
references under a set of profiles. Services and their references are taken in one
order, since a name that nothing declares is placed at the first reference shown.
`Components` is `stronglyConnected` with its
frames, one turn of the inner loop a step, and the layers of `assignLayers`.
`Condensation` is the abstract specification: the components of a graph, defined by
reachability, come out one at a time and none before one it depends on.
`Components!Condenses` is `INSTANCE Condensation WITH emitted <- ...`, with one
component emitted per step that pops one.

### Diagnose, Editing, Stack: a project, its findings, and back to the files

`Diagnose` is every rule of the registry with its finding, its anchors and the fix
it offers (`localPath` included), and what `delete_key`, `replace_scalar` and
`insert_key` do to a document. `Locatable` is `strategy.locate`, which goes on below a
bare mapping or list only: not an alias, an anchor or a tag. `Editing` is `Classify` (a typed value is editable,
overrides, or is refused, and by which operation), `Plan` (a declaration and its
refusals) and the operations with theirs.

`Stack` composes them. A behaviour starts from a project of `Projects` (what is on
disk, the chain, the profiles): `Open` and `Read` a file at a time, `StartExtends`
and `Extend` the services *in any order*, which is Go's order of a map, `Sweep`,
`Build`, `Arrange` (one step of `Components`), `Analyze`. Then the loop closes:
`ApplyFix` writes a fix of the report, `TypeIn` a value typed into a field,
`Declare` a new service or resource, and the project is read again from the start.
A behaviour has fixes or one edit, never both, so that each is judged alone.

### HubLookup

`Ask` starts a question (one reference, or the stages of a Dockerfile in order);
`Look`, `LookExact` and `Search` read the cache under its lock; `Served`, `Fails` and
`Cancelled` are the request's end; `Arrive` stores it, under the lock again. Between
the two any other lookup runs, a tag may be pushed (`Push`) and time passes
(`Tick`). `said` is a history of what Docker Hub really answered of a family, and
when. `PickCandidates` ranks what it keeps: a candidate's place is the number of
those above it.

### Induction

No code is in it: induction over the naturals stated without a second-order
parameter, from the well-foundedness of strict inclusion among finite sets; the
greatest number of a finite set; and that a fold over a sequence exists as a
function of the prefixes it has folded (`Folds`, `FoldExists`); and recursion over the
naturals by what is below (`FixedPointExists`). The proofs of Staging, HubLookup and
Components use it.

### PanelDraw

One action per stretch between two awaits: `StartDraw`, `Topology`, `Diagnose`,
`EndDraw`, `DrawFails`; an inspection and the requests that follow it (`Inspect`,
`Inspection`, `Goes`, `InspectFails`); `Select`, `Toggle`, `Drag`, `SetFile`,
`SourceChanged`; the queue of `viewstate.ts` (`BeginWrite`, `EndWrite`, `WriteFails`).
The core answers reads in any order. `asked`, `missed` and `failed` are histories:
the view last asked for, a change told inside the dedupe window, and whether the
last draw or schema request was refused.

### Dockerfile and MoveToArg

`Dockerfile` is the parser over lines that are words, what follows a `#`, a
continuation, the heredocs they open and their ending, in a file with or without a
byte order mark; the stages and the form; and the splices of `insert.go` and `edit.go`
(`ReplaceArgs` builds its line again and drops the mark and the carriage return with
it). `MoveToArg` is one file with a history of one request: the
operations of the Dockerfile grammar, and `runExtractArg` from plan to readback.

## 3. The runs

`MC*.tla` give the instances their symmetry and the widths; each `.cfg` states its
constants. Every number is the smallest at which the interesting case exists.

| Run | Result | What it shows |
|---|---|---|
| `move_steps` | pass | Two requests behind one server, one crash and one failing call at any step: `TypeOK`, `NoBlankPassword`, `AllOrNothing`, `NoTempLeft`, and every step is a step of `AtomicMove` or a stutter. Two movers are what can interleave, two sites can share a name, two names let a `.env` keep one and gain another. |
| `move_again` | pass | One request, one crash, one failing call, one foreign save of either file at any time no request runs (after a crash too), and the reader asks again; the host sets a name, another has a default somewhere, one literal means another than it reads, one is a value no `.env` line reads back as: `WritesWhatWasShown`; `RestKeepsMeaning`, that no other site's meaning changes; and `Converges` once nobody else saves any more. |
| `serve_safety` | pass | A reader, two writers, a lookup sent as a notification, an inline request, a body that is not JSON, a broken header and panics anywhere: `WritesAlone`, `WellFramed`, `OneAnswer`, `NothingLost`. Two writers show exclusion of writers; one reader is enough for reader against writer. |
| `serve_live` | pass | One request of each plane, the write may panic: `LookupsDelayNobody`, `EndsByItself`. |
| `stage_patient` | pass | A patient reader, three presses, one foreign save, one write whose answer is lost: `StripIsWhatLands`, `KeptUntilTold`, `StagesAreShown`. Two lines let an edit move one below it; three presses are stage, stage, save. |
| `stage_any` | pass | A reader who waits for nothing, two handlers, one line, three presses, one foreign save, one lost answer, moves included: `LandsAsRecorded` (of insertions the theorem speaks). Two handlers are the least of which one records or clears what the other awaits. |
| `session` | pass | Three processes (one ending, one starting, one serving), two calls, two restarts: `RetryGetsFresh`, `OneStart`, `NoneWaitsOnTheDead`, and the actions' `OrphanedByALateExit`, and the live `SupersededGoes`, `CallsEnd`. Exits are told as late as they like. |
| `stack` | pass | 1,270 projects of one to three files and at most four services, in families: every pair of forms two files can give one attribute, in two chains; every operator over a set, an empty and an unset name; every choice of a base by three services; dependency graphs over three services; every assignment of profiles; merge keys, aliases and includes; findings of each rule over two files with one fix applied; typed values and declarations. `LastWordWins`, `OriginsSpeakTrue`, `ExtendsSettles`, `ProfilesOnlyHide`, `Condenses` (the refinement), `LayersOrder`, `FixOwnsWhatItNames`, `FixAnswersIt`, `TypedIsSeen`, `DeclaredStands`. Three services are the least with a cycle beside a path; two files the least where one displaces the other, and the chain `a b a` shows that a position is not a file. |
| `lookup` | pass | Two lookups at a time, a cache of two entries, pages of three tags, a push, expiry after two ticks, a deadline of one: `CacheBounded`, `AnswersHold`. Two entries are the least that fill while a third is fetched. |
| `draw` | pass | Two files, one profile, two inspections beside the draw's, two acts of the reader, one switch, one save, one failure: `ViewKept`, `ScreenAgrees`. |
| `dockerfile` | pass | Thirteen files (comments above stages, a comment inside a continuation, closed and open heredocs, another escape character, declarations in every scope, CRLF, a byte order mark above a comment and on an instruction, words from a `#` on, a continuation that runs off the end), two edits one after the other: `EditIsLocal`, `BuildsTheSame`. |
| `fix_one_line` | violation | `FixTakesOnlyItsOwn`, the finding below. |

`CHECK_DEADLOCK FALSE` is stated where the bounded number of presses, processes,
requests or edits is used up and nothing is left to do, as a pane nobody touches,
and in `stack`, where a project is shown and nobody asks for more. Serve and
TwoFileWrite are checked for deadlock.

### The finding

**A fix takes its neighbours** (`strategy/locate.go:49`). A delete is whole lines. For
`volumes: {data: , idle: }` the fix for the unused `idle` deletes the line, and
`data`, which a service mounts, with it. `structural.go:46`: "DeleteKey removes the key
at path, together with its entire subtree and any comment lines attached directly
above it".

### What the models refute besides

Each of these is a configuration beside the modules that TLC ends with a
counterexample; they are instances to look at, not part of the runs above. TLC stops
at the first property it refutes: where a configuration names several, each is refuted
with the others taken out.

| Configuration | Property | The code, and what it says of itself |
|---|---|---|
| `move_meaning` (MCTwoFileWrite) | `MeaningKept` | With nothing failing, a moved password may come to mean another. The raw scalar is moved, `$$` included (`extract.go:446`, 487: "`password$$1` is a literal and is moved"); Compose reads `$$` as `$` in a scalar (`interpolate.go:434`) and inserts a variable as it stands (535). And only the `.env` is asked whether the name is free (`extract.go:267`), though a host variable outranks it (`interpolate.go:186`). `extract.go:276`: the line "must read back as exactly the value that was taken out. Anything else silently changes the stack's behaviour while reporting success". |
| `move_meaning` | `ResidueIsInert` | "A `.env` carrying a variable nothing references: INERT" (`extract.go:26`): where another site has `${NAME:-x}`, the line displaces the default as soon as it is written. |
| `move_two_processes` (MCTwoFileWrite) | `NoBlankPassword` | `extract.go:378` "The .env first, so the only reachable partial state is inert" holds behind one server. Two processes each rename their own copy of the `.env`: one line is lost and its reference is undefined, with no crash. |
| `stage_hurried` (MCStaging) | `Exclusive` | Two presses and nobody else: each handler checks for the other kind before its await and records after it (`panel.ts:1870`, 1527). `panel.ts:219`: "It is exclusive". |
| `stage_hurried` | `KeptUntilTold` | `save` awaits and then clears whatever is staged by now (`panel.ts:2080`), with a stage it was not asked to write. `panel.ts:2087`: "Silence here would be work the reader thinks they still have". |
| `stage_restage` (MCStaging) | `AttemptKeepsSet` | `panel.ts:1903` "the set the reader had before this attempt is exactly the set they still have": restaging an earlier value at another length shifts the text later stages were recorded at, and every stage is discarded. |
| `stage_message` (MCStaging) | `StaleStaysSaid` | The redraw that follows a discard posts `pendingCleared` with no reason (`panel.ts:1972`), which hides the sentence `docs/USER-MANUAL.md:411` promises. |
| `session_leak` (MCCoreSession) | `OneCore` | The exit of a core the client killed is compared by generation only (`session.ts:104`); told after its successor was installed, it drops the successor, which runs on. `session.ts:1`: "One core process per window". |
| `inspect_late` (MCPanelDraw) | `PaneShowsSelection` | The inspection a redraw ends with is answered after that of a node selected meanwhile, and replaces it (`panel.ts:834`). `panel.ts:829`: "The pane is never left empty and never left stale". |
| `dockerfile_bytes` (MCMoveToArg) | `MarkStays`, `EndingsStay` | `ReplaceArgs` builds its line from parts that hold neither the byte order mark of a first line nor the carriage return before an ending (`dockerfile/edit.go:200`, 190). `docs/USER-MANUAL.md:1254`: "A UTF-8 byte-order mark is preserved; CRLF files stay CRLF". |
| `dockerfile_bytes` | `InsertAddsOne` | An instruction inserted after one whose continuation runs off the end of the file becomes part of it (`dockerfile/insert.go:316`). `insert.go:121`: "InsertInstruction adds one instruction to the end of a build stage". |
| `fix_parted_check` (MCStack) | `FixAnswersIt` | `rule_healthcheck.go:162-207` offers to delete `disable` when the merged check has any `test`, one of `[NONE]` or one in another file included: the finding stays. |
| `lookup_six_digits` (MCHubLookup) | `CurrentIsNewest` | `IsDateTag` (`hub.go:496`) takes any tag of digits and dots with six digits for a date: `mariadb:10.11.6` is told nothing newer exists while `10.11.11` does; `lookup.go:226` "This is the newest stable tag Docker Hub lists in its family." |

### Disagreements read while modelling

Not shown by a configuration; each is at its line for whoever works there.

- *Resolve.* A later file's empty `services:` or `networks:` (null) takes back
  everything earlier, and declaring a name in that file brings it all back
  (`DeclaredStands` excludes it by `TookBack`). A `!reset` service or `extends` in a
  single file is an extends error, though `merge.go` drops it at the end.
- *Topology.* `profilesOf` (`build.go:176`) reads a list only, so `profiles: dev` and
  `[""]` are active there though `profiles.go:53-68` says otherwise.
- *Diagnose.* The ring of a cycle's message may name edges nobody declared
  (`graph.go:60`); a null `healthcheck:` gets an `insert_key` that duplicates it;
  `undefinedUnder` (`helpers.go:98`) does not see a variable an extended service
  brings, and `readSources` (`analyze.go:94`) reads the files again after they were
  resolved, so a fix's `Expect` may be of a later save than its finding.
- *Editing.* A quoted service name is accepted by `bare` ("it has to work") and
  refused by the image operation's path; `Classify` calls a path through an alias
  editable though `strategy.locate` follows none (`inherited.go:127`); `insert_key` is
  offered into a flow mapping and refused; a key inserted under an alias leaves a
  file that does not parse, and is refused; one under a `!reset` block vanishes when
  resolved. The pane's `declared` is of the merged model, so a value only another
  file has is offered as a replacement and refused. The index of an entry of a
  merged list is used in one file. `childOf` skips an inline merge mapping.
- *Dockerfile.* `ENV A=` makes the plan index past its value and panic
  (`extractarg.go:519`, recovered by serve), before the refusal at 524. `ReplaceArgs`
  takes any `#` for a comment. An `ENV` of the moved name above the use
  hides the new `ARG` (`extractarg.go:598`). `argReadback` looks through every stage, so
  an `ARG` of another one is a spurious refusal, and a bare `ARG` in a stage gains a
  value once the name is declared globally. A byte order mark hides `# escape=`.
- *Hub.* A reference of no family is looked up by an unfiltered first page, though
  `lookup.go:178` says one page is never trusted.
- *Panel.* `drawnProfiles` is set before the graph is posted, so an inspection in
  between presses the new buttons over the old graph for a moment.

### What the passing runs assume

- `move_steps`: other programs do not save during a request, and nobody leaves a
  dangling reference of their own (`EditsRace`, `Dangling` FALSE). With either,
  no code here could keep `NoBlankPassword`. Its host sets nothing and no reference has
  a default: those are in `move_again`.
- `move_again`: `RestKeepsMeaning` lets a reference with a default leave it and return
  to it, and says of the moved site only what it comes to mean; what is lost there is
  in `move_meaning`. Others save only while no request runs, and dangle nothing.
- `stage_patient`: `Patient`, which the code does not enforce; `stage_hurried` is
  what an impatient reader meets, `stage_any` what they can rely on;
  `LostReads` FALSE, because a preview of `refreshPending` that goes unanswered
  leaves its edit staged under a message that it could not be made, and a Save
  then writes what the strip never showed. Lost *writes* are in.
- Also `stage_patient`: the Expect of an insertion is an empty range with no text,
  so a change above it of exactly the inserted width would let a repeated write land
  twice. One foreign edit at widths 1 and 3 cannot do that; two could.
  `StagesAreShown` counts only stages that alter a value and speaks until the first
  timeout: after an unstage the rest may be a no-op the core refuses, and the strip
  then stays as it was.
- `stage_any`: `LandsAsRecorded` does not say that the strip showed all that lands, nor
  that a line is inserted once; for an impatient reader neither holds.
- `session`: `OrphanedByALateExit` says how a serving process may be lost, not that none
  is (`session_leak`); `SupersededGoes` leaves out one that is lost already.
- `stack`: the files do not change while they are read; `FixAnswersIt` is about a
  health check whose parts stand in one file, and about a value that displaced none.
- `draw`: `ScreenAgrees` at rest excepts a draw that failed, which the pane says, and
  a change told within 400 ms of a redraw's start (`panel.ts:585`), which it thereby
  shows to be the only way the picture stays older than the file.
- `dockerfile`: `EditIsLocal` leaves out a text that opens a heredoc, which takes the
  lines below for its body, and what is put after a dangling continuation,
  and has the mark and the carriage return go where a line is built again,
  nowhere else, and a new body stand before the `#` of its line (`dockerfile_bytes` says
  what that loses); `BuildsTheSame` leaves out a use below an `ENV` of the name.

### Fairness

- `Serve!LiveSpec`: goroutines that can run do (weak), a mutex is handed to a
  waiter that keeps asking (strong; Go's mutexes are starvation-free), and a
  computation returns, except that a lookup does only once the session's context is
  cancelled. Nothing makes the client send, and nothing makes `drainGrace` fire:
  the session must end without it.
- `TwoFileWrite!RerunSpec`: calls return, and the reader re-runs an unfinished
  move. `Crash` and faults have none.
- `CoreSession!LiveSpec`: only timers the code sets: the handshake's 8 s, a call's
  30 s, dispose's 500 ms and the 1.5 s from SIGTERM to SIGKILL. No fairness for a
  reply, a handshake that lands or an exit by itself.

## 4. What is proved

The proofs hold for every number of requests, sites, names, processes and calls.

**TwoFileWrite_proofs.** `TypeCorrect` needs no assumption beyond the constants'.
`NeverBlank` (`[]NoBlankPassword`) and `MovesKeepTheRest` (`RestKeepsMeaning`, for any
`Host`, `Reads` and `Fallbacks`) assume `OneServer`: one
lock, no saves during a request, no dangling reference left by others; the first is
what `move_two_processes` lacks. `ImplementsAtomicMove` assumes nobody else saves at all, the
contract having no action for it. NoBlankPassword is not inductive: that
`RenameCompose` is safe depends on what was read several calls earlier. The
invariant carries, for each program counter, what the request knows: while it holds
the lock exclusively the compose file is the one `Preview` saw; from `readBefore` on
the plan is the `.env` plus one name nothing references; at `renameCompose` the
`.env` already defines the name as the literal; at `rollback` the name is still
referenced by nothing.

How a request ends is in the same module. `NothingLeftBehind` (`[]NoTempLeft`) needs no assumption:
a temporary is owned by the request whose program counter is between its creation
and its rename or removal. `MovesAreAllOrNothing` and `ApprovedAsShown` assume
`OneServer`. `EntryInv` adds to the invariant of `NeverBlank` what the two files
were when the lock was taken and which of them this request has replaced since, by
program counter; `ShownInv` carries what the approval expects to the two renames.

**Serve_proofs.** `WritersExclude` is `[]WritesAlone`. The invariant relates the
lock's bookkeeping to the program counters: a writer inside is the one whose `turn`
it is and `sharing` is empty then, a reader inside is in `sharing`, and no reader is
admitted while there is a turn. `StreamIsFrames` is the frame discipline: the stream
has odd length exactly while someone holds `writeMu` between header and body.
`AtMostOneAnswer` (`[]OneAnswer`) and `AllAnswered` (`[]NothingLost`) count over
`out`, which no single step shows. `AnswerInv` reads it off the program counters: a
request has its body in `out` exactly when its handler is past answering, one the
loop answers itself has it unless the loop still holds it, none has it twice, and
after a drain that ended by itself no handler is left to owe one.
`TypeCorrect` is `[]TypeOK`: the three invariants have most of it, `FlagsOK` the rest.

**CoreSession_proofs.** `Fresh`, `SharedStart` and `NoSilentHang` need no
assumption, and neither does `OnlyALateExitOrphans` (`OrphanedByALateExit`). The
invariant `IInv` adds to the
properties where processes stand: the shared start is alive, pending and of this
generation; the core has answered and was not superseded; a process that was
never spawned is untouched; a failed start has exited; generations are never ahead.
`OnlyALateExitOrphans` goes through the actions: a process that serves is the session's
core or was dropped already, and only the end of another one that nobody disposed
reaches `handleExit` with a live core installed.

**Staging_proofs.** `AnyReaderLands` is `LandsAsRecorded`, with no assumption about
the reader, the previews or what is inserted. `SeenInv` says that whatever is staged,
asked to be written or still in flight was previewed: its Expect holds the text its line
had (`Viewed`), because a list is recorded only with the ranges of an answer. A run
that succeeds then changes a line only from one of those texts to what one of its
operations asks.

The other theorems are about a `Patient` reader; what such a reader excludes is shown by
`stage_hurried`. A step all of them use is `ExclInv`: at most one
handler waits (`OneWaits`) and what it checked before its await is still so when it
records (`Checked`), while the redraw and the watcher may run in between and only ever
empty both stages.
`WorkIsKept` is `[]KeptUntilTold`, again for a patient reader (`stage_hurried` is the
counterexample without). A save ends by emptying the stage list, so `KeepInv` adds
what makes that harmless (`SaveOwes`): what it asked to write is what is staged
still, and once the core has said yes the reader is owed nothing. `EntryList` and
`IsJob` say what the records are. The lemmas under it say which entries are left when
`Set`, `SetAll` or `Without` has changed a list of stages, by induction over the fold
each is.

What lands and what is shown are in the same module. `LinesLandAsShown`: whatever a
write adds to the file, it changes the lines of the keys the file starts with exactly
as the strip said when Save was pressed, whoever saved in between and however late it
lands. `LandsAsShown` is `StripIsWhatLands`, where nothing is inserted and those are
all the lines there are. `StagesShown` is `[]StagesAreShown`. The first half of the
proof is about `EditRun` alone: a run is a trail of buffers (`Trail`), a recorded
expectation is the text of the line it was recorded at, and so a run that succeeds on
any document leaves of every line of `Keys` what the operations say, from what they
expect; `Diff` then depends on the list and not on the document. `Good(list, diff,
disk)` says so of every document that lines of the file have only gone from, and it is
what makes a foreign save harmless: it is true of the new file if it was of the old one.
`LandInv` carries it. `JobsOK`: what a waiting actor was answered is a run on a file
that had every line the file has now, and what is to be written is `Good` for the diff
the reader saw. `StripOK` and `RefreshOK`: the strip is `Good` for the stages, or
somebody waits for their preview. `Quiet`: a redraw that is under way while a handler
records or writes has nothing to preview, or it would show a list that is being replaced.
`SaveOK` and `LateOK` are about a write in flight and one nobody waits for any more.

That the strip says all of it, not only nothing else, needs the list to be one that can
succeed: `ShowInv` says that the stages are one to a staging key (`Tidy`), a value for a
line before its removal (`InTurn`), each about a line of the file (`There`, until a Save
has written them), that a preview leads with them (`PreviewOK`, `Leads`: so what
`SetAll` records is the list that was previewed, in its order), and that the strip says
the keys they alter, or somebody is about to say it (`SaysOK`, `MoveSays`). A run of
such a list, when it succeeds, changes the lines of exactly the stages that alter
something, and is refused only if none of them does (`ListShows`).

`TypeCorrect` is `[]TypeOK`, for a reader of either kind. It is not inductive: that
`Record` has a range for each entry it records at needs answers as long as their
questions (`Given`), that `extract` holds one entry, and that the file is a document the
operations staged can be about (`Docs`, `Typed`).

All but that and `AnyReaderLands` assume a patient reader. The two about landing as shown also assume `~LostReads`,
without which a preview that goes unanswered leaves its edit staged under the strip of
the others (a hazard at `panel.ts:1988`); `StagesAreShown` speaks only until the first
timeout and needs no such assumption. `NewKeys = {}` in `LandsAsShown` is the hazard of
an insertion's empty Expect (`edit.go:191`), and `LinesLandAsShown` is what remains
without it. `AnswerAssumption` tells an answer from none.

**PanelDraw_proofs.** `ChoicesKept` is `[]ViewKept`, that no stored choice is lost to
another one's read-modify-write, and `PictureAgreesAlways` is `[]ScreenAgrees`, that
findings, graph and buttons at rest are of one set of profiles and one file;
`StoreTyped` is the type invariant. Neither property is inductive: both are about
what is true when nothing runs. `QueueInv` says that only the first write in the
queue of `viewstate.ts` has begun, that what it read is still what is stored, and
that a field not yet as it was asked for has a write waiting with that value, the
last of that field. `RedrawInv` says what each stretch of a draw has established
when the next begins, unless another draw is queued: it is of the file on screen and
its stored profiles, the picture it has posted is of its own set and of the file as
it is, and the buttons show that set or the one a waiting write will store. The
assumptions tell the model's values apart: the draw is not an inspector, and no draw
is `None`.

**HubLookup_proofs.** `CacheKeepsBound` is `[]CacheBounded` and `OutagesAreNotKept`
that no failure is ever in the cache; both for every registry and any number of
lookups. The invariant is their conjunction with the finiteness of the cache: the
one step that stores makes room first, under the same lock.
`OffersHold` is `[]AnswersHold`, for every registry, push, failure and expiry. It
assumes `OneNumberDates`: no tag of several components has six digits, which is what
`lookup_six_digits` shows to matter (the registry of `lookup` satisfies it). Nothing
in AnswersHold speaks of the cache, so `HoldInv` does: what is kept under a family's
key was said of that family at most a request's time before it was kept, what is on
its way back was said since its lookup began, a second request for one tag has the
family's list behind it, and no lookup outlives its deadline. The bounds add up to
the property's `TTL + 2 * Timeout`: a request's time before the entry was kept, a
lifetime in the cache, a request's time until the report. That what is offered is
the newest (`Picked`) rests on `Lower` being a strict order of versions
(`LowerOrders`) and on a highest element of a finite set (`Topmost`).

**Components_proofs.** For any `Size`, and for graphs handed in one after another:
`CondensesSafely` is the safety half of `Condenses`, the refinement of `Condensation`
(what is emitted is a whole strongly connected component, not emitted before, and all
it depends on was); `NothingMissing`, that on return every component was emitted;
`LayersInOrder`, `[]LayersOrder` of Components, which is the first conjunct of Stack's
`LayersOrder`; and `ChainsInOrder`, the same over whole chains of dependencies. The
second conjunct of Stack's is about `Dependencies` and `Dependents` of Topology, and
stays with TLC.

The invariant `Inv` says of nodes (`Core`) what the numbers mean: a node with a frame
reaches all that is above it on the stack (`GoesUp`); all on the stack reach a frame at
or below it (`ComesDown`); `low` of a frame is the number of a node on the stack that it
reaches (`LowIsReached`), and nothing the frame answers for has looked at a node of the
stack with a lower number (`LowCovers`); what has been found is whole and closed under
dependencies (`FoundWhole`). Where `low` equals the number, what is above is closed but
for what was found before, and each of it reaches the root and back: it is the component
(`FromIsScc`). `StackIs`, `WorkIs` and `RootIs` tie the sequences to that. Reachability
in `Condensation` is counted out, a turn per node; `ReachedIs` shows it to be the least
closed set, since a turn that is not the last adds a node. `LayerOf` is a recursive
function over the components before the one asked for: `LayerOfIs` shows that it exists
and unfolds. The only hypothesis is that `Size` is a natural number.

### Induction over data, as far as it goes

The library's induction theorems take an operator for a parameter, which the provers
cannot instantiate. `Induction` goes around them: a set of naturals that holds 0 and
the successor of each of its members is all of them (`NatSet`), because the numbers
missing from it would have a least one. With it a fold over a sequence, whose
definition in the community modules is a recursive function on finite sets, can be
opened (`FoldExists`), and so can what is written with one. A function a
number's value of which is defined by the values below it exists (`FixedPointExists`),
and so it can be unfolded: that opens `ReachedIn` and `LayerOf`, and `Run`, a fold over
operations. `SelectSeq`, `SortSeq` and `Permutations` have no definition the prover can
open, so `LinesOf` of EditRun says what it selects in words of its own (the sequence of
that many lines, in their order); RECURSIVE operators have none the prover may open,
and what rests on them is below.

### Stays with TLC

- Everything live: fairness is outside the prover's reach.
- `StripIsWhatLands` with insertions, where it holds at the widths of `stage_patient`
  and not at every width (section 3).
- All of `Stack` and `MoveToArg`: resolution, the graph, the findings and the edits are
  RECURSIVE operators over documents. Of the layering in Stack only that each component
  does come out (the fairness in `Condenses`) and that the two directions of the blast
  radius agree (`LayersOrder`'s second conjunct) are left to its run.

## 5. Not modelled

- The bytes of YAML: quoting, block scalars, indentation, comments, documents, the
  operations on comments and on sequence entries (EditRun has one), renames, and the
  limits on size and depth of a document. They are `strategy`'s, tested against
  fuzzed files, and no order of steps is in them.
- The Dockerfile view's own stages (they share `stageAll`), operations that depend on
  one staged with them, the inspection that ends `stageExtract`; an `ENV` inherited
  from a base stage; the casing of a keyword; `Delete`, which has no caller.
- `schema`: tables and lookups. The webview's canvas, layout and inspector: rendering.
- The command line, except as a second process and for the project `add` chooses;
  benchmarks, `differential`, `gate` and the corpus: tools about the program.
- HTTP, `yaml.v3`, VS Code and the operating system: by what they answer.

## 6. Plan

1. The Dockerfile view's stages in Staging, with operations that depend on one staged
   with them.
2. The write of one file with its temporary composed with a second program's save.
