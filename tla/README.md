# Formal models of Verim

Verim is a data-analysis and command-and-control platform: a NestJS server
(`src/apps/server`) that serves datasets, an ontology, object sets, alarms, an assistant and
an operation planner and ingests track observations from Kafka into PostgreSQL/TimescaleDB,
and a React client (`src/apps/client`). This directory holds TLA+ models of the system's own
logic, the TLC configurations that check them, and proofs checked by TLAPS.

Paths are relative to `src/apps/server/src/` unless they start with `apps/`. Names in the
modules are the source's names (mostly Turkish) wherever TLA+ allows it.

    tlc -workers 2 -config MCIngest.cfg MCIngest     # one run
    tlapm SnapshotStore_proofs.tla                   # the proofs of one module

## 1. Inventory

### 1.1 Modelled, wholly or in part

| Part | State it keeps | Operations | Interacts with | What is hard | What makes it correct |
|---|---|---|---|---|---|
| Extension governance (`ontology/admission`, `ontology/ontology-ext-store.ts`, `ontology/ontology-audit.ts`) | versions of the ontology extension with their status; the audit trail | upload (four admission stages), approve, activate, roll back | reads the analysis, Mercek, dashboard and alarm documents for the impact analysis; its active version is merged into the ontology | long sequences of legal calls by several users; a verdict computed at upload and used at activation; a throw after the state changed | one active version; four eyes on every route into service; the audit trail names the active version; rollback undoes an activation |
| Ontology, its extension and its OWL form (`ontology/ontology-provider.ts`, `ontology/ontology-ext.ts`, `ontology/admission`, `ontology/owl-*.ts`) | the kernel of the build; the active version's body | merge on every read, stages 1-3 of the admission, export to and import from Turtle | governance; the data sources; every reader of the ontology | the kernel and the sources change while a checked version is kept | what is served is well formed and can be queried; an export reads back as what was exported |
| Live dataset definitions (`query/live-datasets.controller.ts`, `datasets/live-dataset-store.ts`) | recipes that refer to datasets | create (list, check, smoke run, store), remove | resolution; the documents that mention a dataset | two awaits between the check and the write; removal in between | no reference cycle; a stored definition protects its sources |
| Live dataset resolution (`datasets/composite-dataset-provider.ts`) | row-bounded cache, failure memo, runs in flight, list memo | get, version, invalidate | the query engine, and itself for nested definitions | concurrent readers, data that advances during a run, sharing of runs | rows never older than their version; one run per version; every reader is answered; the cache bound |
| Document store (`analyses/analyses-store.ts` and five subclasses) | all documents in memory, one file or bucket object | load, upsert, delete | every controller that saves documents | unawaited saves that overlap, crashes, failed loads, a second process | what a client was told is stored is what the next start loads |
| Audit trail in the bucket (`ontology/ontology-audit.ts`) | one object, a line per record | append | governance | unawaited read-modify-write | the log is what was written, no record twice |
| Operation plans (`senkron/senkron.service.ts`) | live plan, scenarios, undo and redo stacks | 14 edits, undo, redo, derive, promote, sensor-to-shooter | the plan store, the ontology's units, the synchronisation engine | objects shared between versions, an await in the middle of an edit, capped stacks | undo and redo are a cursor on one line of versions; no cyclic or dangling dependency |
| Synchronisation engine (`senkron/sync-engine.ts`) | none (pure) | critical path analysis, replanning, mass shift, cycle check, resource conflicts, plan difference | operation plans | leads, milestones, start-to-start, clamping, propagation order | slack and critical path mean what the operator reads; replanning leaves no conflict |
| Ingest consumer (`ingest/ingest-service.ts`, `ingest/normalize.ts`) | identity caches; track, history, last-state, report and quarantine tables; offsets | consume a batch (a dozen queries without a transaction), retry, refresh | the broker, PostgreSQL; the whole server reads its tables | failures between two queries, redelivery, crash, a restored database | nothing readable lost without a cause; last state and history agree; ids, cache and rows agree; a refused message stops its own partition only |
| Alerts (`alerts/`, `apps/client/src/alarmlar/AlertsBell.tsx`) | rules, events, `lastFired`, the flag `evaluating`; the bell's list | evaluation rounds, edits and removals of rules, acknowledgement, the bell's poll | the document store (rules), the object sets (count queries) | rules edited while their query runs, failing queries, restarts, a poll answered late | nothing fires twice within its cooldown; a breach reaches the bell |
| Reasoning (`reasoning/`) | `TtlMemo` per key; `object_item_threat`; the rest is pure | memoised reads, scoring rounds, courses of action, synchronisation matrix | PostgreSQL, the three polling endpoints | shared promises, slow loads, queries failing between pruning and writing, orders that flip with a mode | no rows older than the time to live; no score of a track that is gone; no forbidden option first; no threat missing from the matrix |
| Query pipeline (`query/in-memory`, `mim/sql-query-engine.ts`, `query/materialize.controller.ts`) | none (pure), materialised datasets | every kind of board, limits, pushdown of filters, materialisation | the client's schema propagation and query cache | null cells, limits in the middle of a path, two engines and a client that must agree | same rows on either path, same columns as the client shows, no silent truncation |
| Expression language (`query/in-memory/expression`, `apps/client/src/core/expression`) | none (pure) | parse, check, evaluate per row and per group | the boards; the client's expression fields | seven levels of precedence by hand, null, NaN and texts in one arithmetic | read as written; what the client accepts the server evaluates |
| Object sets (`ontology/object-set-engine.ts`, `mim/sql-object-set-engine.ts`) | none (pure) | load, aggregate, time series over nested definitions | lenses, map, alerts, link graph | null keys, links to many, ties at a limit | both engines give the same |
| Lens cards (`apps/client/src/mercek`, `capabilities/def-lint.ts`, `apps/client/src/pano/caprazFiltre.tsx`) | cards and parameters with their undo history; answers to the charts' questions | add, continue, edit and remove cards, drill down, parameters, undo, redo; lint; cross filter | the object sets answer the questions; the assistant's definitions pass the linter | cards that build on removed or changed cards; clicks on a chart that shows the answer before | a definition the linter passes runs; a click selects what was clicked, or a named cause |
| Documents in the browser (`apps/client/src/store`, `pages/`, `mercek/`) | two undo histories, the page shown, loads and saves in flight | load, open, create, edit, undo, save, delete, navigate | the document store | answers that arrive after the operator went on; one undo action for two slices | an edit is lost only for a named cause |
| Assistant (`assistant/`, `apps/client/src/asistan`) | the conversation; documents the tools store | ask, answer, clear, tool loop | the model, the document stores | failures after tools had effects, clearing during an answer | history in order; every effect is mentioned or has a named cause not to be |
| Dashboards (`dashboards/`, `apps/client/src/pano/PanoPage.tsx`, `GadgetEkleDialog`) | stored dashboards; the page's local copy, edit mode, the query library's copies | choose, edit, add and remove gadgets, save, cancel, copy, delete, add from another page | the document store; lens cards and analyses become gadgets | reads that overtake writes, a refetch under an edit, another browser | a gadget reported as saved stays, one being edited stays on screen, or a named cause |
| Page of a plan (`apps/client/src/senkron/SyncMatrixPage.tsx`, the drawer of a task) | the plan shown, copies of both plans, the form of the drawer | open, fill in, save, change or remove the dependency, undo, promote, change the plan | operation plans | a form filled from an old copy, calls in flight while the plan changes | the plans are what everybody's edits say, or a named cause |
| Timeline (`apps/client/src/senkron/GanttTimeline.tsx`) | optimistic positions, the block held, the refetched plan | pick up, drop, refuse, refetch, hide a domain | operation plans, the synchronisation engine | preview and target from different renders, several drops in flight | what is shown is what the server has, or a named cause |
| Link graph (`ontology/graph-provider.ts`, `mim/neo4j-graph.provider.ts`, `mim/graph-load.ts`, `apps/client/src/graf`) | an index built once, or a copy in Neo4j; the canvas with its nodes, balloons and edges | neighbours, edges among nodes; focus, expand, open a balloon | the ontology, the object sets | two copies of the links; answers in any order on one canvas | both providers agree; no edge missing when nothing is in flight, or a named cause |

### 1.2 Not modelled

| Part | Why |
|---|---|
| Search and its loader (`search/`) | a bulk copy into OpenSearch started by hand, and queries OpenSearch evaluates |
| Threat scorer | floating-point formula; its score is an input of `CourseOfAction` and `ThreatEnricher` |
| Contracts, authentication | schemas and one guard; the models start from inputs that passed them |
| Producers, simulators, seeds, dummy data | random demonstration data |
| Pages, gadgets, map, drawing; deployment | drawing and user input; scripts |

## 2. Plan

The most important behaviour came first: governance, live datasets, the document store and its
audit log, operation plans with their engine, and ingest; then alerts, reasoning, the query
pipeline with its two engines and the client's view of it, object sets, the browser's documents,
assistant, timeline and link graph; last the admission of ontology extensions with the OWL form,
the reports of the synchronisation engine, dashboards, the page of a plan, and lens cards with
the linter. All of these are done, and so are the proofs planned: governance with its audit
trail, the admission of extensions, live datasets and their resolution, the document store and
its log, operation plans with their refinement, alerts, the memo, the threat table, the first
recommendation, ingest, and in the browser the link graph, the conversation, the pages of
documents, plans and dashboards. What a next step would add:

1. Parts without a module: the map page (`HaritaPage.tsx`), the gadgets' own queries, the details
   of an object, the search's loader.
2. A proof of `SapmaSebepli`. `GanttTimeline` works over the fold of `SyncEngine`, so that the
   preview of a chain of moves would first need its operators characterised by sets and not by
   folds.

`BoardPipeline`, `Expression` and `ExpressionField` use recursive operators and stay with TLC, as
does what the folds of `SyncEngine`, `LensCards`, `ObjectSets` and the matrix of
`CourseOfAction` compute, and what the joined names of the OWL form say.

## 3. Modules

MC modules give the constants their values. Components that share no state are checked in one
run: a variable `konu`, chosen in the initial state, says which of them moves, and the others
keep one initial state. `MCSunucu` does so for the services of the server (`tanim`, `cozum`,
`alarm`, `memo`, `tehdit`, `defter`), `MCBelgeler` for documents and views (`store`, `sayfa`,
`sohbet`, `graf`, `pano`, `gorev`), `MCHesaplar` for computations (`boru`, `ifade`, `nesne`,
`mercek`, `coa`) and stored plans (`plan`), `MCSenkron` for plans in time (`senkron`, `ekran`),
`MCExtensionGovernance` for versions and what they contain (`surum`, `kabul`).

### ExtensionGovernance, OntologyLifecycle

`surumler` is the store's array, `belgeler` the documents of the four artefact stores,
`denetim` the audit file. One action per handler and outcome: `YukleTaslak` (stage 2 or 3
failed), `YukleDegerlendir` (they passed; stage 4 decides, and a partial body makes it throw),
`Onayla` and `OnayReddet`, `Aktiflestir`, `GeriDonSurume` and `GeriDonCekirdege`. Stages 2 and
3 depend on the kernel ontology and the data sources, so their verdict is a choice here and
computed in `OntologyAdmission`. Each
handler is one step: between stage 4 reading the store and the write there is only the return
of an async function, in which nothing but another upload can go on, and that does not
change what stage 4 read.

`OntologyLifecycle` knows no statuses, documents or audit trail: who uploaded what, who
approved it, what is or was in service. Its `GeriDon` may go back to any earlier version that
was in service; governance's choice is a special case.

### OntologyAdmission

A kernel or an extension is its types, with properties, key and source, and its links.
`mergeExtension` is `Birlesir` (whether it succeeds) and `Birlesim`; stages 2 and 3 are actions of their own,
since between them the data sources may change, and `Dagitim` is a restart with another build, whose
kernel may hold names an admitted version also holds. The merge falls back to the kernel when it
would be inconsistent. `KabulVarsayim` gives kernels and bodies the shape of the contract, and
kernels, which are code, names that occur once and links whose ends exist (so in
`ontology/dummy-ontology-provider.ts` and in `mim/mim-ontology.ts`). A Turtle file is the set of its statements, so that two entries whose
subjects meet become one; `owl-import` reads such a set back.

### LiveDefinitions, LiveResolution

`LiveDefinitions` follows one creation through its awaits: `OlusturListele` takes the ids
`provider.list()` will report, `OlusturDenetle` checks the references against that list,
`OlusturOku` is the smoke run reading one source, `OlusturKaydet` the upsert. Removal is one
step. `saat` is a counter that orders these moments for `SarkanYalnizYarista`.

`LiveResolution` is `resolveDef`. A run in flight is a record: the version it was started
for, what it still has to read, the definitions it is nested in (the async context), the run
it waits for. The kernel is one dataset with a version counter; `liste` is the version the
memoised kernel list reports. Left out: the wall-clock bucket of relative recipes, a failing
kernel list, a definition added while resolution runs.

### SnapshotStore, AuditLog

`SnapshotStore` has both deployments: `kova` is chosen in the initial state. `onay` is what
clients were told; `sebep` collects what has happened that may cost documents: a second
process, overlapping saves, a failed save, a stop with a save in flight, a cut local write, a
stored file that could not be read. `AuditLog` does the same for `gcsAppend`.

### SenkronPlan, PlanHistory, SyncEngine

A plan is its tasks (one value each), its dependencies and its other fields. Edits through
`guncelle` and the others are one step, since with the plan in memory nothing really waits.
`sensorToShooter` is two: `elde` is the plan object it holds, with what that object still
shares with the store's (the object, the task array, the dependency array, single tasks),
because later edits that write in place are visible through it. `bayat` records that it has
stored an object that edits had gone past.

`PlanHistory` is one line of versions and a cursor. The mapping puts the undo stack before
and the reversed redo stack after the present plan.

`SyncEngine` has the functions as operators: `KahnSirasi` (topological order), `Cpm` (both
passes), `KritikYollar`, `YenidenPlanla`, the resource conflicts, the violations and the difference of two plans, and the
shift of a whole plan; folds replace the loops. The state machine around
them only produces plans: from plans without dependencies, by moves and additions of
dependencies.

### Ingest

One action per query of `writeObservations`, since the pool runs each in its own transaction.
`vt` is the database, `bellek` the caches `trackId` and `sensorId`, `parti` the batch in hand
with the next query (`adim`) and whether it is the second attempt. Failures: a query that
fails with (`YabanciAnahtar`) or without a foreign key violation, one that took effect without an answer, a failure inside the
loop over new tracks, a failing refresh, a crash, a database back from a backup. A thrown
error gives the same messages again in the same process; a crash goes back to the committed
offset. Messages are parsed and normalised into items that are accepted or broken, and an item is
spoken of by its place, `<<message, item>>`, so that the same observation may come twice. Three
kinds of items are constants of their own, because the code has no record for them: messages in
which it finds no report (`Raporsuz`: no value, or XML without an `ObjectItemReport`, which is
how the parser reads plain text too), track codes that name a unit, platform or sensor
(`BaskaAd`: the code's column is unique over all categories, the cache holds tracks), and values
that normalisation accepts and the casts of a query refuse (`Ret`, pairs of an item and the query
that carries it: a fraction for `int[]`, a NUL in a text). A refusal is thrown on both attempts
(`VeriReddi`, in the loop over new tracks `IlkDurumReddi`). Where
two tracks of a batch have one number in the cache, an upsert would touch one row twice, which
PostgreSQL refuses with an error that is no foreign key violation (`IkiKezDokunur`). Inside the
loop over new tracks the row is in the cache before a foreign key may fail.

### Alerts

A round is a record of what `evaluateAll` holds: the rules it listed, the one whose count query
is in flight, and the time it read before. The bell's poll is a record too, with the answer the
server gave until the bell shows it. Rules survive a restart; `lastFired`, events and the flag
do not. A count query answers with what the data hold at that moment; windows, texts and the
delivery by webhook and e-mail, which nothing waits for, are left out.

### TtlMemo, ThreatEnricher, CourseOfAction

`TtlMemo` keeps the runs of the loader (when each began, when it read, how it stands), the
stored entry and the calls that wait. `ThreatEnricher` is one round in its three steps, read,
prune, write, with any query failing; a score is the version of what its track's sources said.
`CourseOfAction` is pure: positions lie on a line, three options of three kinds per asset, the
sort with its flag for rules that demand identification, the time windows and the matrix.

### Conditions, Expression, ExpressionField, BoardPipeline, ObjectSets

`Conditions` has one filter condition twice: as `matchCondition` computes it and as PostgreSQL
evaluates the generated text, with three truth values. `Expression` is the parser, as recursive
descent over tokens with a tree and a position as result, and the evaluator, in which an
exception is a value; `ExpressionField` grows trees by all operators of the language and by calls,
writes each with the brackets it needs (`Yazili`, the reference) and looks at it with the client's
checks. What may still throw is named in `IfadeDogru`: a value that is no number, and `>=` between
two values of which neither is one (`Compare`).

`BoardPipeline` has each board as an operator from a frame to a frame, `Bellekte` (all in
memory) and `Itilmis` (leading filters in SQL) as the two ways a query runs, `PropagatePath`
for the client's columns, `IlgiliDegerler` and `EffectiveBoards` for its cache key. Its
variables are the path under edit and the tables. In the boards an expression is a column with
a default, which keeps the two engines' paths comparable; other expressions are
`ExpressionField`'s subject. Where the two paths differ is named, too: `BilinmezVar` (a condition
that SQL does not know the answer to) and `KosulsuzCikarir` (a board that removes, without a
condition).

`ObjectSets` has `Cozum` (in memory) and `Derleme` (SQL); where SQL leaves a choice the latter is a
set of results, and the empty set where it refuses. `cift` holds the columns a SELECT has twice,
which SQL cannot name any more.

### LensCards

The document is the cards, each with the number of its input and its own content, and the
parameters. `BuildDef` compiles a card to a definition of `ObjectSets`; a chart's `Soru` is the
key of its query (definition, group, metric, parameters). `gorunen` is what each chart shows: as
the query library keeps the previous answer as placeholder, this may be the answer to an earlier
question, and `DrillDown` pairs the bar clicked with the question of the moment. `inis` records
such a click and why it may select something else. Over the same definitions: `LintObjectSetDef`
and `ResultTypeOf`, the linter of definitions a language model wrote, and `CaprazAdim`, the step
a dashboard's cross filter adds. Writes of card places, which the grid library may send by itself
after an undo and which would clear the redo stack, are outside the model.

### DocumentPages, Assistant

`DocumentPages` keeps both undo histories, the page shown, loads and saves in flight and the
server's contents. A content is a number, new with every edit; `kayipNedeni` collects what may
cost an edit. `Assistant` keeps the turns, the questions the server works on with the tools'
effects so far, and the stored documents; the model answers, fails or asks for any tools.

### GanttTimeline

Over the operators of `SyncEngine`: `Onizle` is the client's preview of a chain, `optBas` the
positions shown before the server answered, `kopya` the plan of the last refetch. `neden`
collects why the screen may differ from the server. Resizing works the same way on durations
and is left out, as are layout, zoom and panning.

### DashboardPage, PlanPage

`DashboardPage` has the page's effects as part of every action, in React's order
(`Yerlesir`: another id ends an edit, a query in error leads to the system dashboard, outside an
edit the copy follows the query), the query library's copy of each dashboard (data, stale, error,
first fetch or refetch), writes in flight, and the dialog other pages use. `PlanPage` is the
drawer of one task with four fields that stand for their kinds (required, number, reference,
nullable text) and the dependency into it; the drawer's form is a copy taken when it is mounted.
`niyet` is what the plans would be by everybody's edits alone.

### LinkGraph, GraphCanvas

`LinkGraph` has neighbours and edges twice: over the index `DummyGraphProvider` builds once
(`dizin`), and over what `graph-load` copied plus what the object set engine answers.
`GraphCanvas` is `BaglantiGrafi`: each request for neighbours and each for edges is in flight
until it answers or fails, in any order; every answer is merged into whatever canvas there is
then. `agSebep` collects why the canvas may be incomplete or hold strangers. A page that draws
anew hands over a new focus object (`GrafPage.tsx:36`), which resets the canvas: `OdakDegisir`
with the same focus.

## 4. Runs

### Passing

* `governance` - `surum`: two users, three bodies (one partial), one document, two versions, eight
  audit records: `ServisYetkili` (one active version, four eyes), `DenetimTam` (replaying the trail
  gives the active version, which two people brought in), the refinement `SoyutuUygular`, and
  `GeriDonSirali`:
  rollback undoes the activation it follows when versions went into service in number order.
  `kabul`: two builds, one sound extension and variations of it with one fault each, three
  catalogues of data sources, two versions kept: `ServisDurust` (what is served is well formed,
  and an admitted version can be queried until a source or the build changes) and `OwlDurust`
  (an export reads back unless names meet).
* `sunucu` - `tanim`: every overlap of creations and removals of three definitions, `Dongusuz`
  and `SarkanYalnizYarista` (a missing source was removed during the creation). `cozum`: a chain
  of two definitions over the kernel, two readers, two kernel versions, `TekKosum`,
  `OnbellekDurust` (rows never older than their version, and the cache within its bound),
  `HerIstekCevaplanir`. `alarm`: timer and request, rules edited,
  failing queries, a restart, `SogumaKorunur` and `AlarmUlasir` (a breach that lasts is shown).
  `memo`: two endpoints and loads longer than the time to live, `MemoTaze`. `tehdit`: rounds
  that fail anywhere, `ResimCanli`. `defter`: three appends to the bucket's log,
  `DefterKayipSebepli`, exact unless appends overlapped, failed or were cut.
* `belgeler` - `store`: two processes, two documents, either deployment, a legacy file,
  `KayipSebepli`: no loss but by the six causes. `sayfa`: two kinds of documents, two ids each,
  three visits, `DuzenlemeSebepli`. `sohbet`: three questions and two calls of the model each,
  `SohbetDogru` (order of the history, and every effect of a tool visible or excused). `graf`: a
  unit, two persons and a track, three requests for neighbours under each provider, `AgSebepli`
  and, for every set of nodes, `IkiGrafAyni`. `pano`: two dashboards and the system's, three
  gadgets, five gestures, one failure, `PanoKayipSebepli` with its six causes: an edit begun on a
  copy about to be fetched (`erken`), another browser (`baskasi`), the page still showing the
  dashboard before (`oncekiPano`), a gesture while a write is on its way (`beklerken`), a fetch
  older than a write (`eskiCevap`), a failed fetch (`kovuldu`). `gorev`: five gestures, one edit
  from elsewhere, one broken call, `FormSebepli` with its seven: a form from an old copy (`eski`),
  an emptied text saved before the refetch (`kopya`), overlapping calls (`ustuste`), an emptied field
  (`bosAlan`), a drawer left over from another plan (`baskaPlan`), a dependency half changed
  (`bagYarim`), a broken call (`koptu`).
* `senkron` - `senkron`: all plans of three tasks (lengths 2, 1 and 0, one perhaps finished)
  that moves and additions of dependencies reach, on a time axis of four minutes:
  `DonguTaninir` (a dependency is refused exactly when it closes a cycle), `CpmDogru` (a task
  can be delayed by its slack and not by one minute more, and the critical path explains the
  plan's end without a gap), `KaydirmaEnAz` (after a move every dependency of unfinished work
  holds and nothing moved further than needed), `RaporDogru` (violations, resource conflicts,
  plan differences and the shift of a whole plan against their definitions). `ekran`: two drops and the moves of others,
  `SapmaSebepli`.
* `ingest` - four messages in three partitions: a sensor's observation of one track, with a
  fractional altitude; two report sets, of which the second holds both tracks and a track code
  that a platform has; an intelligence report, and behind it a message without a report; three
  sensors (one unknown, one not in the backup), two failures anywhere. `KayipSebepli` (an item
  that holds a report and does not name another object is lost only after one of four causes),
  `SonDurumDogru` (redelivery repairs what was left half written: a consumed partition's last
  observation is in all three tables), `TablolarTutarli` (`KimlikDogru`: ids, cache and rows agree
  unless the database was restored; `OzetGecmiste`: a track's summary is in its history).
* `ingest_canli` - refused values in two of the partitions, the report sets in the third, two
  failures. `BolumTuketilir`: each partition is consumed in the end, unless a refused value waits
  in it or the cache ends up with one number for two tracks; no partition waits for another's
  refused value.
* `hesaplar` - `boru`: paths of up to three boards from a catalogue, over small tables with
  nulls, texts and numbers and limits of three rows: `IstemciUyumlu` (the client shows the
  engine's columns; equal cache keys, equal answers), `YanitDurust` (a cut result says so; pushing
  filters changes nothing, but for the two named cases). `ifade`: leaves under up to two
  operators or calls, every comparison, arithmetic and logical operator among them, `IfadeDogru`.
  `nesne`: definitions of up to three steps, joins repeated among them, `IkiMotorAyni`; groups,
  metrics and time series are over the type's own columns.
  `mercek`: three documents to begin with, one content of the tables, three gestures, six cards,
  `TanimDurust`: what the linter passes the engine runs, with the type it says, and what it
  reports fails; a cross filter leaves the rows clicked and no others; a chain of cards that is
  complete compiles to a definition the engine answers; a click selects the rows behind the bar,
  unless the chart still showed an earlier answer or the bar is that of null. `coa`: three
  tracks, two platforms and sixteen sets of rules (with and without a friendly code, identification
  demanded or not and met or not, two thresholds), `OneriGuvenli` (no forbidden option first) and
  `MatrisTam` (no threat missing from the matrix). `plan`: the live plan and a scenario,
  promotion, restart, two tasks, one snapshot, sensor-to-shooter waiting in the middle of edits:
  `BozukYalnizYarista`, dependencies stay acyclic and refer to tasks until a stale object is stored,
  and `GecmisTekCizgi`: every change of the live plan and its stacks is a step of `PlanHistory`, a
  cursor on one line of versions that is capped, except where sensor-to-shooter stores the object it
  held (and where a second reader derives the plan again, which needs more requests than this run
  has).

### Violations

* `governance_partial_body` - `yukle` stores the raw body, not the parsed one. A body without
  `linkTypes` passes every stage, is stored as verified, and its activation throws after the
  switch.
* `live_resolution_memo` - the failure memo has one entry per definition: the end of a run of
  an older version overwrites the entry of a newer one, and the same failure is paid again.
* `ingest_silent_loss` - if the loop over new tracks stops midway (or the insert's answer is
  lost), the rest exist in the database but never enter the cache: the next insert returns
  nothing for them, and their observations are dropped without a quarantine record until a
  restart.
* `ingest_crash_loop` - after a restore the sequence gives a new track a number that the cache
  still holds for another. No foreign key fails, so nothing refreshes the caches; a batch with both
  tracks makes an upsert touch one row twice, which is thrown, and the same messages come again
  to the same caches for ever (`HepsiTuketilir`). The cache's comment names the loop that the
  refresh is there to end.
* `pushdown` - a filter board that removes becomes `NOT (...)`: over a null cell that is unknown
  in SQL and true in memory, so a pushed filter drops rows the engine in memory keeps.

### Disagreements that passing properties name

Six more places where the code differs from its own words, or two of its parts from each other,
are in the runs and are exceptions of the properties there, each with a name. None of them needs
a failure or a race.

* A message in which no report is found is consumed with neither a row nor a quarantine record
  (ingest-service.ts:53-54, :353, :384), and so is an observation whose track code a unit, platform
  or sensor has (the insert at :236 returns nothing, :162 reads tracks only, :259
  drops it); :126 promises "asla sessiz kayıp". `KayipSebepli` leaves both out
  (`Raporsuz`, `BaskaAd`), and `SessizKayipYok` fails on either.
* A fractional altitude, speed or course passes the schema (normalize.ts:48-50) and not the cast to
  `int[]` (ingest-service.ts:270-271). The batch is thrown on every delivery: the message never
  reaches quarantine, where normalize.ts:3-4 sends what cannot be written, and its partition
  stops there. `BolumTuketilir` excepts a partition that has come to such a value (`RetVar`).
* The form lets a filter board be saved without a condition, and says that then all rows pass
  (FilterBoardView.tsx:138). With the action to remove the engine in memory removes every row
  (engine.ts:216-224), and SQL none (sql-query-engine.ts:128): `KosulsuzCikarir` in `ItmeAyni`.
* The evaluator has no case for `>=` between two values of which neither is a number
  (evaluator.ts:50-58): what parser.ts:11 lists as syntax, and the client passes, throws.
  `IfadeDogru` allows that error for an expression with `>=`, and for no other.
* A column joined twice over one link stands twice in the SELECT under one name
  (sql-object-set-engine.ts:254, :262). A filter on it is ambiguous in PostgreSQL and an ordinary
  one in memory: `CiftAnilir` in `IkiMotorAyni`.

### Bounds

Two or three of everything that can be told apart, and counters just large enough for a
second round: two versions give upload, approval, activation, replacement and rollback;
three ids a chain and a removal in its middle; two kernel versions a run that outlives its
version; two saves in flight an overlap; one snapshot a full stack; two failures in
`ingest` a failure during the recovery from one; three boards a limit followed by a board that
depends on it; three requests a first answer, an opened balloon and a late second answer; two
versions with three catalogues a check whose sources change under it; five gestures a save, a
return and an edit on a stale copy; three gestures on a chart a change, its undo or a removal and
a click. `MaxId`
in `ingest` is larger than the number of ids two failures can use up, so the sequence never
blocks. Actions are disabled at a bound and states beyond it are not reached; `CHECK_DEADLOCK`
is FALSE because a run may use up its bounded inputs. In `belgeler` and in `senkron` a state
after something that may cost an edit is checked and not explored further (`Sebepsiz`): the
properties say nothing more there. In `plan` (of `hesaplar`) that is the state in which sensor-to-shooter
has stored an object the store had left (`Yarissiz`): `BozukYalnizYarista` excuses what follows, and
`GecmisTekCizgi` is proved for it. No symmetry is used.

The limits of the code are constants with small values: a group of more than five is a balloon
in the client and of more than one in the model, thirty members are two, eighty nodes three,
the row limits three.

### Fairness

`LiveResolution` (`CozumAdil`) assumes that a run in flight which can take a step takes one: a
query returns or fails. The server sets no order among concurrent runs, so fairness is per run,
not per action. `Alerts` (`AlarmFair`) assumes the same of rounds and of the bell's poll, which
timers start (`onModuleInit`, the bell's `refetchInterval`); a query that never returns is
outside it, and with it the flag `evaluating` does stay set. `MCSunucu` restricts both to the
behaviours in which that service moves. `Ingest` assumes that the consumer goes on
(`WF_vars(Tuket)`): queries return or fail and the broker client keeps handing out messages; and
of every partition (`SF_vars` of `Al`): a client that fetches several partitions does not
hand out the batch of one for ever while others wait. That a thrown batch does not keep
the others from being handed out is an assumption about kafkajs, which is not in the repository.
Failures, crashes and restores are not fair and bounded by `MaxHata`, that is, they stop.

## 5. Proofs

TLAPS proves the following for every value of the constants that meets the modules' named
assumptions.

* `ExtensionGovernance_proofs`: `TypeCorrect`, `SingleActiveFourEyes`, `Refinement`,
  `AuditTellsAll`, `RollbackUndoes`, and of the admission `ServedOntologySound`. The
  inductive invariant `IInv` adds to the types that a version past `dogrulandi` has an
  approver other than its uploader, that one not yet approved has none, and that at most one
  is active: with one active version `AktifSurum` is that version, which both the next step
  and the refinement mapping need. The refinement goes action by action: an upload maps to
  `Yukle`, an approval to `Onayla`, activation to `Aktiflestir` (only a version never in
  service is `onayli`), rollback to `GeriDon`, everything else to a stutter.
  For the audit trail `DenetimInv` ties it to the store: every prefix has a last change of service
  or none, the last one of the whole trail names the active version, each version's upload and
  approval are recorded as far as its status says, in this order before its entry into service, and the
  version the last activation replaced is still archived. Rollback takes the largest archived
  number, and `GeriDonSirali` asks for nothing archived in between, so it takes that one.
  `KabulInv` says of every version kept what the stages found, over the kernel and sources they
  saw, and that at most one is in service. What a stage looks up in the merged ontology by name
  is the extension's own entry, since names in a sequence without repetitions belong to one
  place and two such sequences without a common name make a third (counting, over finite sets).
* `LiveDefinitions_proofs`: `TypeCorrect`, `Acyclic`, `DanglingOnlyByRace`. Acyclicity rests
  on a ranking: every reference of a definition past its check points to one registered before the
  definition's own stamp (`KaynakInv`), and a definition is registered after its stamp
  (`ZamanInv`), so the member of a set registered first refers to none of the set. Both need
  stamps and registrations to lie in the clock's past, which `ZamanInv` also states.
* `SnapshotStore_proofs`: `TypeCorrect`, `LossOnlyByCause`. While no cause has occurred there
  is at most one running process, its memory is what the clients were told, at most one save
  is in flight and carries just that, and without one the file does.
* `Sunucu_proofs`, five services of the server, the first four with an invariant each:
  - `AuditLossOnlyByCause`: while no cause has occurred the bucket's object is the records 1 to
    n, these are done, and at most the next one is on its way, with the object as it is in hand
    (`DefterInv`).
  - `MemoFresh`: the stored entry is a load begun when the entry says, a call waits only for a
    load that began less than the time to live before it, and no load read the database before
    it began (`MemoInv`).
  - `ThreatPictureLive`: rows a round wrote are there with that round's time until a pruning
    later than the tolerance, and pruning leaves nothing older (`EnrInv`).
  - `RecommendationSafe` needs none, as the options depend on the track, the platforms and the rules
    alone: among the three kinds of option one comes before the others under either mode, and it
    is no fire while a rule is violated, nor more than watching below the threshold.
  - `CooldownKept`: the flag `evaluating` admits one round (`TekTur`), and the rule whose query is
    in flight had cooled down at the time read before the query, as far as the present
    `lastFired` can tell (`SorulanSogudu`); edits, removals and restarts in between keep this.
* `LiveResolution_proofs`: `ResolutionTypes`, `OneFlight`, `CacheHonest`. `CozumInv` says of every
  run in flight that its version is one the list has given, that its rows so far and the run it
  waits for are of that version or later, and that runs differ in definition or version.
  Then what is put into the cache is honest. That the bound holds after eviction needs two facts
  about the sum of an entry sequence's rows, a recursive function: it exists, and it falls
  when an entry is removed.
* `SenkronPlan_proofs`: `PlanTypes`, `BrokenOnlyByRace`, `HistoryButForRaces`, `UndoIsOneLine`.
  An edit writes one content to one plan and may push the old one; undo and redo move contents. So
  what holds of every content stays true if each action brings in none without it, and
  `PlanInv` states it of plans, both stacks and their cap, and of what the interrupted edit
  holds. `HistoryButForRaces` says that every step is a step of `PlanHistory` or a stutter, apart
  from two: sensor-to-shooter storing the object it held, and a derivation stored over another
  one's live plan; it is proved for every depth of history and number of requests, the run has
  one snapshot. Without the two races, that is with one reader and no interrupted edit,
  `UndoIsOneLine` is the refinement itself (`SoyutuUygular`).
* `Ingest_proofs`: `IngestTypes`, `OneRowPerTrack` and `SummaryInHistory` (together
  `TablesAgree`), `LossOnlyByCause`, `LastStateRepaired`, for any partitions, messages, tracks,
  sensors, refused values, taken codes, and any number of failures.
  The invariant has four parts, each of which needs those before it. `TipInv` adds to the types
  that the places in hand lie in the batch. `KimlikInv`: numbers the sequence has not given are
  free, and what an insert returned is in the database. `KayipInv`: every track of the database
  is in the cache or waits in the loop over new tracks; everything in the batch passed or waits
  for quarantine; after the insert all that passed is ready, and after the history all of it is
  written, but for taken codes. `SonInv`: in every table already written, the row of a track that reports in one
  partition is an observation of that partition not earlier than those consumed or in hand, so that
  a redelivery that writes old rows first ends with the last one. `OzetInv` is the order of
  two queries: whatever is about to be summarised is in the history.
* `Tarayici_proofs`, five parts of the browser, for any number of gestures and any order of
  answers. Four properties say that two sides agree while no cause has occurred; what the
  invariants add is where the difference is while something is on its way.
  - `BothGraphsAgree`: for any tables the index and the copy in the graph database give the same
    neighbours, link type by link type, and the same edges, as long as the index is up to date.
  - `CanvasOnlyByCause` (`TuvalInv`): the balloons drawn are those that exist and come from expanded
    nodes, everything drawn can be reached from the focus, and the edges are those of the nodes on
    the canvas as soon as the newest request for edges is answered.
  - `ConversationTrue` (`SohbetInv`): one question is awaited and is the last turn that is no
    error; whatever a tool stored is kept by the question worked on or offered in a turn. The
    history sent to the model leaves out failed turns; that this filter keeps questions and answers in
    pairs goes by induction over the turns.
  - `EditsOnlyByCause` (`BelgeInv`): what the operator last made of a document is in the page's slice,
    or saved, or on its way in a save no other save can overtake; the page's own load is for a
    document that is not yet in the slice.
  - `FormOnlyByCause` (`PlanInv`): one call is in flight and lacks exactly what it will write; a
    drawer nobody made old began with what its plan should be.
  - `GadgetsOnlyByCause` (`PanoInv`): one write is in flight; of every dashboard the copy and the
    answer on its way hold what was promised or will be fetched again, and what is being edited
    holds it but for what the operator removed.

Assumptions on constants are named in the modules. Beyond those on bounds they say that a marker
for "none" is not one of the values it stands for the lack of (`YokVarsayim`, `PartiVarsayim`,
`HicbiriVarsayim`, `YokturVarsayim`, as `undefined` is no object), that observations, reports and
broken items differ (`OgeVarsayim`), and that row counts and versions are numbers
(`SatirVarsayim`, `VeriVarsayim`). `BelgeVarsayim` keeps the start page and "no document" apart from
kinds and ids, `PanoVarsayim` the system's dashboard from stored ones. `PlanSayfaVarsayim` gives the
form its fields and their texts, with name and start, which the contract requires, never empty.
`GrafVarsayim`: tables and link types are finite, and a kernel link of a type to itself joins
entities, since for one between other objects the two providers do differ; the kernel has none.
`KabulVarsayim` is described in section 3. TLC evaluates each of them in the runs.

Only model-checked, and why:

* the liveness properties: fairness and ENABLED are out of the prover's reach;
* `IfadeDogru`, `YanitDurust`, `IstemciUyumlu`: recursive operators put a module out of the
  provers' reach;
* `CpmDogru`, `KaydirmaEnAz`, `RaporDogru`, `SapmaSebepli`, `IkiMotorAyni`,
  `TanimDurust`, `MatrisTam`: they say what folds over orders, sums, and sorts of data compute, by
  operators that TLAPS leaves unopened;
* `OwlDurust`: its subjects are names joined as texts.

The library's induction theorems cannot be instantiated here, but a set of naturals has a least
element because finite sets are well founded, and from this (`EnKucuk`, `Tumevarim`) follows
induction for properties that are given as sets; it carries the sum in `LiveResolution_proofs`,
the last place in `Ingest_proofs` and the history in `Tarayici_proofs`. In the modules proved
about, recursion is a recursive function.

## 6. Observations

Behaviour met while modelling that no run states as a violation, because nothing in the
repository promises otherwise or because a property above already has it as a named cause:

* Impact analysis (stage 4) runs at upload only: a document saved later that uses a removed
  name is not found at activation.
* Rollback takes the largest archived number below the active one, which after out-of-order
  activations or an earlier rollback is not the version that was active before.
* The smoke run of a new live dataset leaves time for its source to be removed: the stored
  definition then has a dangling reference.
* A definition file edited by hand into a cycle makes two readers wait for each other; the
  cycle guard sees only its own nesting.
* A document store that could not be read at start serves the legacy file or nothing, and its
  next save overwrites what was there; two replicas over one bucket overwrite each other.
* Two overlapping appends to the bucket's audit log lose a record, and a failed download
  replaces the log by one line, though the file's header calls it append-only.
* Two requests that both find no live plan derive it twice; the later one overwrites edits.
* Sensor-to-shooter stores the plan object it read before an await. Edits in between may be
  lost, a removed scenario comes back, and, since the dependency array is still shared, a
  dependency may outlive its task, which the cycle check then leaves out.
* A refused edit takes its snapshot back but leaves the redo stack empty and, at the cap, the
  oldest snapshot lost (`senkron-gecmis.spec.ts` checks only the undo count).
* Replanning looks at every dependency of the plan, not only at those behind the moved task:
  tasks that already were in conflict elsewhere move as well. If no two critical tasks are
  bound, the "critical path" lists all of them by start.
* After a restore the id sequence repeats numbers the ingest cache still holds for other
  tracks: the rows then exist, no foreign key fails, and observations go to the wrong track
  (what that leads to is the run `ingest_crash_loop`).
  A failing refresh leaves both caches empty, so that everything is quarantined until the next refresh
  or restart.

Alerts and reasoning:

* A rule removed while its query runs still fires, and its entry in `lastFired` comes back.
* A load that takes longer than the time to live (2.5 s) is not shared: every request starts
  another.
* `siniflandirmaGuveni` is never set, so with the default rules 0.5 < 0.6 holds and the option
  to engage is never recommended. Who is a friend, which identification is enough and the threshold
  come from the caller's rules: with no friendly codes, or a lower demand, it may be.
* The version number after a lost save is one that was used before; the content hash
  (`ontology-ext-store.ts:39`) passes a list of keys as replacer, which also filters the keys
  of nested objects.

Queries:

* The key of a cached query has no version of the dataset that `enrich` and `setMath` read, and
  leaves out display boards, also one that the server would answer with an error.
* The count and the data query of one request are two snapshots of the database.
* Memory and SQL differ on a null literal, on a text match over null by a pattern that the empty
  text matches, on a board that removes (over null cells, and without a condition), on a column
  joined twice, on links whose keys are both null, and on which groups of equal size a limit cuts. A histogram pivoted by a second
  column turns group values into texts while the schema keeps the column's type.
* A column named `or`, `and`, `not`, `true`, `false` or `null` cannot be named in an
  expression, even in double quotes. `null + 1` is NaN, which counts as true, but
  `null + 1 + 1` throws that NaN is no number. The client's checks accept nested aggregates and
  aggregates without an argument, which the server refuses; `>=` has no case for two texts
  (`evaluator.ts:50-58`).

The browser:

* Timeline: positions shown early go only when the server has the same value
  (`GanttTimeline.tsx:600`), so they stay after a drop beyond the axis, with a hidden domain in
  between, from the plan of an older render, after overlapping drops, after a drop without
  effect and after others' moves.
* Documents: both slices listen to one undo action, so an undo changes the other kind's document
  too; an undo past the load makes the page load again and a redo bring back what was lost; a
  load answered late replaces what is being edited; opening from a list discards unsaved edits
  without asking; the error flag stays when the next document is already in the store; a document
  in the store is never loaded again; overlapping saves end in either order.
* Conversation: ids of documents come from the clock's milliseconds and may collide; the
  controller accepts 20 messages of 1 to 4000 characters, so that after ten questions, or one
  turn that is empty or too long, every later question is refused until the conversation is
  cleared; clearing during an answer leaves the answer in the emptied conversation; after a
  failure of the model or the connection the tools' effects stay and nothing mentions them.
* Link graph: the index in memory is never rebuilt after an extension is activated or taken back;
  `graph-load` knows the kernel's links only; a redraw of the page (`GrafPage.tsx:36`) resets the
  expanded canvas; late answers of an older focus are merged into the new one; an answer about
  edges overtaken by an older one leaves edges missing until the next change; a group larger than
  30 loses the rest; balloons use up places of the 80 nodes a request carries.

* Dashboards: just after a save the stale copy can be edited (`PanoPage.tsx:161`); cancelling
  while another board loads keeps the edits in the local copy; a failed refetch takes the operator
  out of an edit to the system dashboard (`:127-133`); an invalidation does not repeat a first
  fetch under way, so that its older answer passes for fresh; the edit mode a new dashboard asks
  for is ended by the effect on the id; a board whose refetch failed cannot be opened although its
  data are cached.
* Page of a plan: the drawer sends every field as it was when opened, so that edits by others, and
  one's own undo, are overwritten; an emptied asset is not sent and an emptied start is 0; whether
  an emptied text is sent as null depends on the stale copy; after a promotion, even a refused one
  (`SyncMatrixPage.tsx:272`), the page goes to the live plan, and an open drawer, whose key is only
  the task's id, saves into it; changing a dependency is a removal and an addition, the second of
  which may fail alone; two of the handlers have no catch, so that a broken connection is silent.
* Lens cards: a click while a new question is being answered pairs the old bar's value with the
  new column; the bar of null becomes equality with the text "(boş)", which no cell equals and
  which SQL refuses over numbers; a `between` with one value reaches the query, though
  `mercek/core.ts` says half conditions do not, and shows an empty list; a filter that names a
  removed parameter makes the card refuse; under SQL a new parameter that is still empty is refused
  over a numeric column, where `TanimDurust`, which is about the engine in memory, says nothing; the linter accepts any column with two underscores;
  joined columns cannot be cross-filtered.

Admission:

* No stage looks for a name used twice within one extension (`ontology-ext.ts:72-100`): the engines
  and stage 2 take the last, the client the first.
* Stage 2 accepts a link end of a kernel type whose source is missing.
* Sources may change between stages 2 and 3, and activation and rollback check nothing again.
  When a new build's kernel collides with the active version, reads fall back to the kernel
  silently while the store still reports the version as active.
* The export's subjects `type__property` share one name space with the types (`owl-export.ts:70`),
  so it loses entries when names meet, though it is called lossless.
* Link keys that are no declared properties pass in dummy mode and are refused in SQL mode.

## 7. Not modelled

The parts of section 1.2. Within the modelled parts: hashing of bodies and their JSON text
(versions are numbered), the time-bucketed versions of relative recipes, the content of tasks
beyond what dependencies, resources and replanning read, metrics, a crash between a change of
the extension store and its record in the audit log (`governance.service.ts:90-91` and the like are
one step), time literals in other formats than the stored ones, the collation of texts in PostgreSQL,
log texts, the age-based removal of intelligence reports, averages, medians and deviations,
functions of texts and dates in expressions, distances on a sphere, labels and icons, the places
of cards and gadgets, drawing, the prompts and the schemas of the assistant's tools, and the operating system's durability of a
completed local write.

Most of the repository's lines are outside all of this: markup of pages, gadgets, map and dialogs,
prompts and tool schemas, schemas of requests, demonstration data and its generators. The modules
cover the parts that keep state or decide something, which is a fifth of the lines.
