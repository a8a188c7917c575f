# Formal models of plsql-intelligence

TLA+ specifications of the concurrent, stateful core of this repository, the
TLC configurations that check them on small instances, and TLAPS proofs of their
main properties for every instance. Paths are relative to the repository root
(`crates/...`, `tools/...`, `scripts/...`).

## 1. The system

plsql-intelligence analyses Oracle PL/SQL estates offline. Some twenty crates
form a layered batch pipeline; one subsystem, the *USR loop* ("unsupported
syntax repair"), changes the repository itself over time and is where state
outlives a process.

```
 plsql-core / output / render / store                        records, envelopes, cache
   parser, parser-antlr -> project, catalog -> ir, symbols, privileges
   depgraph, sast -> engine -> doc, bindgen, lineage, cicd   one analysis run
 usr-loop (tools/usr-loop) over plsql-accretion              the repair loop
   scan -> cluster -> min-fixture -> propose -> gate -> land | quarantine
        -> ledger -> tripwire
```

### Components, their state and operations

| component | state | operations | what makes it hard | what makes it correct |
|---|---|---|---|---|
| Provenance ledger, `plsql-accretion/src/ledger.rs` | `.usr/ledger/ledger.jsonl` (hash-chained JSON lines), `ledger.jsonl.lock` | `append`, `iter`, `verify_chain`; the same protocol again for `AccretionLedger` | several processes append; an append is two `write_all`s; readers take no lock; deaths and I/O errors | one unforked chain; no repeated tip; what is acknowledged is there |
| Landing, `land.rs` | candidate file, working tree, regression corpus, ledger, quarantine artifacts | `land_candidate_in`, `apply_diff_idempotent`, `add_fixture_to_corpus`, `persist_quarantine` | four stores, no transaction, no lock, re-run after a failure | nothing unproven is landed; the ledger is never ahead of the rest |
| Conformance gate, `scripts/usr_gate.sh` + `gate.rs` | `/tmp/usr_gate_g6.*`, `.usr/usr_pin_*` | stages G1..G9, `verify_gate_sha`, the fold into a verdict | files shared by concurrent runs; killed runs leave their files | fail-closed; exact when undisturbed |
| Tripwire, `usr-loop/src/main.rs` `run_tripwire` | `accretion_ledger.jsonl`, floor file | measure, append, compare | reads one ledger without a lock, appends to another, and only then reads its baseline; new commits and landings meanwhile | no pass below the baseline or the floor; no false alarm |
| Capture, clusters, minimal fixtures | `.usr/fixtures`, gap captures | fold by signature, bounded minimisation | order-independence of the fold | one signature, one cluster |
| Proposer | none | `choose_class`, R20 allowlist | - | no path outside the allowlist is proposed |
| Artifact cache, `plsql-store` under `analyze_project` | `cache.db`, SQLite in WAL mode | `put_cached`, `get_cached` | two autocommit statements per operation, several processes, sources that are read twice and edited meanwhile | a hit answers the request it is given to |
| Cache daemon, `plsqld` | a Unix socket | `serve_envelope` | - | one answer per request |
| Dependency graph, change prediction, deployment gate: `plsql-depgraph`, `plsql-lineage`, `plsql-cicd` | in memory, for one call | `impact`, `recompile_order`, `predict_with_lineage`, `plan_changeset`, `run_gate` | cycles, several paths of different confidence, a depth limit, edges and results in any order, missing nodes and metadata | the prediction covers every dependent, overstates none, and the gate decides about all of it |
| Name, overload, privilege resolution | in memory | resolve | PL/SQL's scoping rules | agreement with a reference definition |
| Engine, parser, IR, lineage, catalog, generators | in memory | one batch run | - | data translation, left to the repository's tests |

The components meet as follows. `usr-loop land` calls `land_candidate_in`, which
starts the gate as a child process, applies the patch with `git apply`, writes
the fixture and calls `Ledger::append`. `usr-loop ledger append` calls
`Ledger::append` once per cluster. The tripwire reads the ledger's landings and
appends to its own ledger. All sharing goes through the file system; processes
take the ledger's flock and no other lock. An analysis opens `cache.db` of the cache
directory it is given, which other analyses may be using; SQLite isolates each
statement, nothing isolates an analysis from edits of the sources. The change-impact
calls share nothing but their arguments: a `LineageResult` of `impact()` is handed to
`predict_with_lineage()` (by the command line through files, `--lineage-impact`), whose
prediction goes to `plan_changeset()` and to `run_gate()`.

## 2. Modules

| module | models | status |
|---|---|---|
| `LedgerLog` | what the ledger promises while nothing fails: an append-only log of bodies, each append atomic | checked, proved |
| `SharedLog` | what it promises whatever fails, to those who share it | checked, proved |
| `Ledger` | `Ledger::append` step by step, processes, faults | checked, proved |
| `Land` | `land_candidate_in`, processes, faults | checked, proved |
| `Gate` | `usr_gate.sh` and `run_gate`, several runs per host, kills | checked, proved |
| `Tripwire` | `run_tripwire`, several runs beside landings and commits, deaths | checked, proved |
| `AnalysisCache` | `analyze_project` around its cache, several processes, edits, failures, deaths | checked, proved |
| `DepGraph` | the dependency graph, confidences, what a walk is | used by the next four |
| `Impact` | `impact()`, loop by loop | checked, proved |
| `RecompileOrder` | `recompile_order()`, Kahn's loop | checked, proved |
| `Predict` | the rules, the merge, the posture, the plan and the gate | checked, proved |
| `ChangeImpact` | the three composed, from a changeset to the decision | checked, proved |
| `LedgerProofs`, `LedgerRefinement`, `LandProofs`, `GateProofs`, `TripwireProofs`, `AnalysisCacheProofs`, `ChangeImpactProofs`, `ImpactProofs` | theorems | proved |
| `MCLedger`, `MCLand`, `MCGate`, `MCTripwire`, `MCAnalysisCache`, `MCChangeImpact` | the instances for TLC | - |

### Ledger

A line of the file is an entry or `Torn`, text that `serde_json` cannot parse.
`unterminated` says that the last line has no newline. `Acquire` is
`LedgerLockGuard::acquire`; `ReadFails`, `SkipTip` and `ReadTip` are the outcomes
of reading under the lock; `WriteLine` and `WriteNewline` are the two `write_all`
calls, the second of which returns `Ok` and drops the guard; `Finish` is the end of
`run_ledger`. The file is opened for append and its end is not inspected, so an
entry written behind an unterminated line is glued to it and both are lost to the
parser. An id hashes the parent id and the body; sha256 is taken to be free of
collisions, so the id *is* the sequence of the bodies hashed into it.

Faults: `ShortWrite` (with `WriteRest`, the retry inside `write_all`), `IoFails`
(the append returns `Err`, the guard is dropped, `run_ledger` gives up), `Crash`
(the kernel frees the flock). A short write behind an unterminated line is not a
case of its own, since that line is lost by the next write anyway.
`AccretionLedger::append`, the same protocol over other bodies, is part of
`Tripwire`.

`SharedLog` is the interface between `Ledger` and its users: a log whose appends take
effect at once and which remembers of its last line whether it is whole, unterminated or
torn. `Ledger` implements it under all of its faults (`ImplementsShared`), and `Land` and
`Tripwire`, whose own ledgers are such logs, take no other steps on them than it
promises (`UsesSharedLog` in each).

### Land

One action per file operation of a landing: the candidate file is truncated and
filled, the gate reads it, the patch is checked and then applied, the corpus file is
read, truncated and filled, the ledger is appended to. Of the gate there is one action for
each stage that judges the candidate file (`CheckHonesty` is G7, `CheckResidue` G8,
`CheckPins` G9), since each opens the file anew and another landing of the same candidate
may be between truncating and filling it (`Shown`). An empty file has no manifest and no pin hooks, so G7
and G9 reject it, but it has no residue either, so G8 passes it. `Holds` are the stages
that find the text of a candidate in order. The stages about tree and host, with G4's look at
the candidate for an excuse, are `CheckTree`, and any stage may also fail for a reason not in the
text (`Reject`): what happens inside a gate run is the subject of `Gate`.
The ledger is the atomic log of `SharedLog` with a tail that may be unterminated or torn, which
`Ledger` implements. `Given` are the jobs the invocations may have, all at once. A patch that
does not apply is treated as done, as in the code; `Patched` are the candidates whose hunks
fit the tree, `Conflict` those that exclude each other. A rejection writes a quarantine artifact, a privacy
abort writes nothing. `Stop` ends an invocation at any step with an error or a
death, `StopInAppend` inside the append. `git apply` is taken to change the tree
in one step or not at all.

### Gate

`run_gate` verifies the pin of the script and starts it; the stages run in order and
the first failure ends the script. G0 (building the helper), G1-G5, G7 and G8
depend on nothing but the run's input and are one check each; G8 exits
with 9. G6 and G9 are modelled file by file: the harness output is truncated,
written and searched, the metrics are measured (the helper may fail to), their file is
truncated, written and compared, the pin marker is created, tested, removed, tested and
restored. The revert hook and the restore hook may fail, which leaves the marker where it
is; a setup hook that fails ends the check like hooks that may not be run (`none`). `Folded` is the end of
`run_gate`: nine PASS lines and exit 0, or no acceptance. `overlapped[g]` is
a history variable: another run was active at the same time.

Assumed: a killed script takes its children with it; every child command
terminates (`run_gate` has no timeout); the script is not replaced between hashing
and starting it; the baseline file and the candidate file exist; every candidate
with pin hooks has a `pins-setup` hook, as the proposer's have. The variant of G9
that uses `cargo-mutants` is not modelled.

### Tripwire

`Measure` is the engine's analysis of the benchmark (the ratio of the commit the
checkout is at), `ReadLedger` the read of the landed signatures and then of the
commit's name, the `Append...` actions are `AccretionLedger::append`, `Judge` is
the read of the history, the choice of the baselines and the verdict. Between any two
of them landings append to the provenance ledger, in the middle of whose line it
cannot be read (`CutLine`, `LandSig`), the checkout moves (`Commit`), and other
runs do the same. Both ledgers appear as what `Ledger` shows of them:
logs that only grow, with a last line that may be unterminated or torn; the coverage history
is a `SharedLog`. A ratio is
a whole number of steps; `f64::EPSILON` in the comparisons is below one step, and
a resolved signature is worth `Unit` steps. The history variables are `pos` (how long the
history was at a run's own append), `blind` (the run could not read it
afterwards) and `overlapped`.

### AnalysisCache

One run is one call of `analyze_project` in a process of its own. `LoadCatalog` reads the
catalog snapshot, `Discover` lists the files, `HashFile` reads them one after the other
for the key, `OpenStore` opens `cache.db`; whatever fails there leads to `NoCache`.
`LookupEntry` and `FetchBlob` are the two reads of `get_cached`, `LookupFails` any failure
of them. On a miss `ParseFile` reads each file a second time, `FinishParse` is the end
of the pipeline, `PutBlob` and `PutEntry` are the two statements of `put_cached`, whose
failure (`PutFails`) is ignored. `Edit` and `ExportCatalog` change the sources and the
snapshot between any two steps, `Die` kills a process.

Abstractions: contents stand for their digests (SHA-256 does not collide, and the
NUL-separated concatenation of paths and contents is taken to be unambiguous); an
analysis result is the inputs it was computed from and whether it has its dependency
graph; `CACHE_LAYOUT`, profile and redaction policy are one `Setting`. Discovery is one
step: what it misses or lists too much shows at the reads that follow. SQLite: each
statement is atomic and sees the last commit. With `synchronous=NORMAL` a power failure may
take back the last commits, which leaves tables that an earlier death of all processes
also leaves. `raced[r]` is a history variable: a file changed between its two reads by r.
Not modelled: an empty `project_root` (returns at once), several checkouts on one cache
(the root in a hit is that of the storing checkout), and the daemon. `Parsed` are
the files with one of the engine's extensions; discovery has a list of its own, which
contains `.vw` (hashed, not parsed) and lacks `.prc`, `.fnc`, `.plb`, `.bdy`, `.spec`
and `.typ`, so that the engine never sees files with those.

### ChangeImpact

A behaviour is one call: `impact()` alone, `recompile_order()` alone, or a changeset that
goes through `impact()` for each anchor, `predict_with_lineage()`, `plan_changeset()` and
`run_gate()`; `in` is the call with its arguments and `stage` where it is.

- `Impact`: `Pop` is one pass of the outer loop of `impact()`, `Relax` one of the inner.
  `best` is `best_confidence`, `queue` its work list, whose entries keep the depth and
  confidence they were queued with although `best` may have moved on. `Answers` is
  whether `query_reverse_neighbors` succeeds: an edge whose other end is no node makes it
  fail, and the walk then passes over *all* dependents of that object.
- `RecompileOrder`: `StartOrder` builds the induced subgraph, `Peel` is one pass of the loop.
- `Predict`: `PredictObject` is one changed object (its rule, the follow-up of the source-only
  mode, its own uncertainties); `Unresolved`, `Resolved` and `MergeEdge` are the three
  ways an item of an impact result is merged; `Finish` counts and calls
  `finalize_posture()`, once after `predict()` and once after the merge.
- `ChangeImpact` sequences them. `MergeNode` takes the nodes of a result in the order
  `impact()` sorted them.

Abstractions. An object is its logical id (ids are taken to be unique), and a row its
key, level and distance; explanations and descriptions are dropped but for the reason
they are mapped to. Parallel edges that claim the same are one, and all unknown edges of
one call carry the same explanation (`why`). Where the code goes by node or edge
ids, which depend on what the analysis met first, the model leaves the order open: next
edge, next ready node, next unknown edge. `force_compile` and the order of the plan's
statements are left out. `PostureOf` is `finalize_posture()` for a report without files;
its ratios are compared as fractions.

## 3. Runs

| run | instance | question | result |
|---|---|---|---|
| `ledger_reliable` | 3 processes, 2 bodies, plans of 1 or 2 bodies, no faults | does concurrency alone break the ledger? | `verify_chain` succeeds in every state (mid-append too), whoever ends does so with exit 0, `LedgerLog` is implemented |
| `ledger_faults` | the same with short writes, errors and deaths (139,302 states) | what survives any failure? | the chain to the tail, no repeated neighbours, acknowledged entries while the file is readable, an unreadable file is final, `SharedLog` is implemented, nobody is blocked by the dead (or by the living: the fair behaviours without faults are among these) |
| `ledger_ack_lost` | the same | does `Ok(id)` mean the entry is there? | no: see Findings |
| `land` | 3 landings out of 5 candidates and 2 fixtures, up to renaming of the landings (551,424 states) | what do interrupted and concurrent landings leave? | only accepted candidates with an honest and pinned text leave traces, without residue unless two landings of the same candidate ran; the ledger is last; receipts are recorded; nothing is taken back |
| `land_reland` | the same | is landing twice a no-op? | no: see Findings |
| `gate` | 2 runs, 15 inputs, 2 checkouts, 2 gap classes, a clean and a littered host (704,765 states) | when can a verdict be trusted? | exactly, when undisturbed; accepted runs passed their own checks in any case |
| `gate_shared` | the same | is the gate deterministic? | not for runs that overlap: see Findings |
| `tripwire` | 2 runs, 2 commits with a falling ratio, 1 signature, empty or seeded history, 4 argument lists (388,452 states) | what is a tripwire's verdict worth? | a pass is not below the baseline or the floor; a regression is a drop of the ratio; nobody is blocked |
| `tripwire_releases` | the same, arguments of the wrapper script at tagged commits | does the index never fall from release to release? | no: see Findings |
| `cache` | 2 analyses of 2 files (one parsed, one hashed only), 4 kinds of request, 2 edits, symmetric in the analyses (832,674 states) | is the cache transparent? | digests have their blobs; answers belong to their request; a hit says what the caller has read unless the storing run was overtaken by an edit |
| `cache_stale` | the same | is the content hash that of the analysed source? | no: see Findings |
| `impact` | 4 objects; graphs with up to 4 edges, changesets of up to 3 objects, 5 resolvers, 6 policies (25,558 calls, 368,533 states) | does a decision about a change cover all it may break, and no more? | `impact()` is sound and exact and lists just the edges that claim nothing, the merge loses and overstates nothing, Clean means no gaps, the gate allows only what is reachable and within its policy, the recompile order is topological and complete, every call ends |

**Bounds.** Nothing but the edits of `AnalysisCache` (`MaxEdits`) is cut off by a counter: every
process has a finite plan, and the runs explore the whole state space of their instance. Three ledger processes
are enough for one that dies with an unterminated line, one that glues its entry to it
and one that meets the unreadable file; plans of two bodies make a process that
acts after its own acknowledgement, and two bodies suffice for equal and
different neighbours. Three landings give a, b and a again, and a victim with
two interfering peers; the candidates are two that conflict and share a fixture,
one out of scope, one with residue in its text, and one neither honest nor pinned. Two gate runs suffice, since every shared file
is written and read by one run at a time and the interference of several peers
on one read is that of the last of them; the inputs fail at every kind of stage. Two tripwire runs are one that judges and one that
replaces its baseline, tears the line it reads or dies; two commits give a ratio
that falls between measurement and comparison, and one signature a landing before, between or after the
reads of both. Two analyses are one that stores and one that looks up or stores the same
key; two edits change a file and change it back, which is what it takes to be served
the wrong text; the second file makes the key more than one read. For `impact()`, four
objects with up to four edges of two levels (three of three) hold an object that is first reached over
a short weak path and then over a longer and surer one, one whose entry is overtaken while it is
queued and then passed on, a cycle through the anchor, a limit that cuts the surer path
(2) or nothing (4), and a missing node beside or before its dependents; for
`recompile_order()`, graphs of three and four edges hold a cycle with something before it,
something after it and something apart from it. The predictions take every kind of
change and every rule on four graphs; the five resolvers leave an object unknown, join two under
one key, join one with a direct row, and make one a sibling of the changed name.

**Fairness.** `WF_vars(Step(p))` for every process: an invocation is an operating
system process that is scheduled. For the blocking flock weak fairness is enough,
because every invocation takes the lock at most once per body of its plan. Faults
carry no fairness, except that `write_all` completes a short write. In `ChangeImpact` it is `WF_vars(Next)`: one thread runs one loop after the other and waits for nothing. `AnalysisCache` has no liveness
property: an analysis takes no lock of its own and each of its steps goes forward.

## 4. Theorems

A theorem about a run's property says of every instance what the run says of one. Three
properties are stated by theorems alone: `UsesSharedLog`, `ResultsExact` and `ComesCloser` were
put to TLC before they were proved, on the instances of `land` and `impact` (`ResultsExact` on
fewer limits, the tripwire's `UsesSharedLog` on a part of its states, since its bodies are an
infinite set), and are in no run.

For any sets of processes, bodies, candidates, fixtures, inputs and any plans and
texts:

- `LedgerProofs`: `TypeCorrect`, `ChainHolds`, `NoDuplicates`, `AckedDurable`,
  `UnreadableFrozen`. The inductive invariant adds to the properties what makes them
  hold: only the holder of the lock is inside `append`; the parent a process
  read is still the id of the tip when it writes, and its body still differs from
  the tip's; a line cut short is the last one, follows a readable file and will be
  completed to its continuation; whoever is between its two writes has left the
  line unterminated; and while a line is being completed the acknowledged entries
  are in the lines before it. Without the lock conjunct the chain forks (the mutant
  `LockFreeBug` shows it).
- `LedgerRefinement`: `VerifiesAlways` and `RefinesLog`, for the ledger without
  faults. The invariant says that the file is readable, that nobody has failed, that
  a line is unterminated only while somebody is between its two writes, and that the
  id of entry i is the sequence of the bodies 1 to i; under it every step records or
  acknowledges in `LedgerLog`, or stutters. And `RefinesSharedLog`, whatever fails: an append
  takes effect when it is answered, or when its process dies or gives up, and until then the
  abstract log is the file as it was before. So the invariant (`SharedInv`) must say what that
  was: whoever is past its read, and writing, read the parent that the log still ends with, found
  a body other than its own there, and has made of the file just its own line, a torn part of it, or
  that line glued to the unterminated one before (`Began`). All the ways an append can be
  interrupted then come to three: an entry without its newline, a torn log, nothing.
- `LandProofs`: `TypeCorrect`, `NothingTakenBack`, `OnlyProvenLands`,
  `LedgerWrittenLast`, `ReceiptsRecorded`, `LandUsesSharedLog`, `LandAllowsSharedLog`. The
  invariant relates the control state of
  each landing to the stores: past a stage of the gate the text is what that stage wants, where
  an empty file was shown only if another landing of the candidate was there to truncate it
  (`GateInv`), past the gate the candidate was accepted, past the apply its patch is settled,
  past the corpus its fixture exists. The last two say that
  the atomic append of a landing is no more and no less than what the real ledger gives: each
  step is one of `SharedLog`, and each step `SharedLog` has for an append is one of a landing. With
  `RefinesSharedLog` this is what lets `LedgerIsLast` be read of the lines of the file.
- `GateProofs`: `TypeCorrect`, `AcceptIsEarned`, `PrivacyAbortEarned`,
  `UndisturbedExact`. Two invariants. `EarnedInv` says which checks of its own a run
  has passed at each stage; it mentions no shared file and so holds under any
  interference. `ExactInv` adds, for a run that was never overlapped, what the
  shared files contain, which lines it has printed and that its exit code is the
  deserved one; `Alone` (runs that are active together know it) keeps others from
  disturbing it.
- `TripwireProofs`: `TypeCorrect`, `FloorIsKept`, `PassIsEarned`, `RegressionsAreReal`,
  `TripwireUsesSharedLog`. The first two are inductive by themselves; a pass needs that a run remembers a
  length the history has reached, and that a ref with an entry has a last one, which
  follows from the well-foundedness of the natural numbers (`GreatestExists`).
  A regression needs that no entry counts more signatures than are landed and that a
  run which was never overlapped is the only one to append after its own
  read (`Alone`, `CountedAlone`). The history is a `SharedLog` too: a line in the middle of
  its write hides the history from readers (`Torn`) but belongs to an append that is not over.
- `AnalysisCacheProofs`: `TypeCorrect`, `BlobsAreThere`, `AnswersBelong`, `HitsBelong`,
  `RebindingsAgree`. Every entry, every digest in a reader's hands and every hit goes back
  to a run that missed under the same key (`AuthorInv`), whose key and body do not
  change any more (`Settled`). As long as no edit overtakes a run, what it has hashed is
  what it has parsed or what is still in the tree (`TrackInv`), and at the end it
  has parsed just the files it hashed (`OrderInv`); so it stores under its key what the key
  was computed from (`QuietInv`).
- `ChangeImpactProofs`: `TypeCorrect`, `OrderIsTopological`, `LeftoversAreStuck`,
  `NothingIsLost`, `RowsAreStrongest`, `CleanIsClean`. For the order: what an object still
  waits for is what it needs and is not yet peeled, and the ready objects are those that wait
  for nothing (`OrderInv`); so nothing of a set in which everybody needs another member is ever
  ready. For the merge (`MergeInv`): every node already taken has its row or its
  uncertainty, and every row is the best of the nodes taken so far and belongs to one of them.
- `ImpactProofs`: `WalkIsSound`, `ImpactIsExact`, `ResultsAreExact`, `EveryStepComesCloser`,
  `NothingFallsForEver`, `AllowedMeansExplained`. Soundness extends a
  walk by an edge. Exactness is harder, since an entry may be overtaken: what holds
  throughout (`WalkInv`) is that the queue is in the order of its depths, at most one apart;
  that everything `best` records has been passed on to the dependents, or its entry is
  still queued or at hand, with the depth it was recorded with; and what walks no longer than
  the depth at hand lead to is covered, and what walks one longer lead to is, too, or an entry that
  leads there is still to be visited (`NearCovered`, `NextCovered`). Entries that were overtaken are
  visited all the same, which is why they can stand for a shorter walk. At the end, a shortest walk
  that is not covered would go on from one that is (`AllCovered`, by the least
  counterexample on the natural numbers). The edges that claim nothing (`unknown`) are noted
  as objects are visited, often and in any order; `EdgeInv` says that each listed one goes on from a
  walk shorter than the limit (`Crossed`), and that each which goes on so from an object already
  reached is listed, or an entry of that object that is still short enough waits for it
  (`Entered`): the first entry of an object has its shortest distance, and is visited though others
  overtake it. The two together make a result a function of the graph, the limit and the anchor (`Exactly`):
  `ResultsAreExact`, so the order in which the code meets edges decides nothing, and what the
  merge is given is the same on every machine. The theorem about the gate composes it with the
  merge: what is reachable was found, what was found has a row or an uncertainty, and the
  gate has seen both.

  That a call ends is a matter of its rank (`Rank`), six numbers compared in
  lexicographic order: the part of the call, the anchors or objects or results left in it,
  whether one of them is open, and what its outer, inner and innermost loops have left.
  The outer loop of `impact()` has no bound the code would show: an object is visited again
  whenever its confidence improves, around cycles too. It improves finitely often,
  so what the outer loop has left is how many improvements there can be still (`Unraised`), a
  set that never grows and shrinks with each entry that is queued; without one,
  the queue is shorter by the entry just taken. Every step of a call lowers the rank
  (`EveryStepComesCloser`), and the order is well-founded and holds every rank
  (`NothingFallsForEver`), so no call goes on for ever.

Assumptions: the named `ASSUME`s of the modules (plans are sequences of bodies,
`Torn` is no entry, `NoProc` no process, jobs and texts have their types, inputs
are inputs, the tripwire's past entries counted nothing as landed, calls and policies have
their types, graphs have finitely many nodes and edges), and freedom from collisions built into `EntryId`.

**Only model-checked:** liveness (`EveryInvocationEnds`, `EveryLandingEnds`, `EveryCallEnds` and the
`EveryRunEnds` of both `Gate` and `Tripwire`), which is out of the prover's reach: the fairness of
a specification rests on ENABLED. Of `EveryCallEnds` the prover has the greater part; what
it leaves to TLC is that a call which has not ended can take a step.

## 5. Findings

- `ledger_ack_lost`: an invocation dies, or fails with an I/O error, between the line and its
  newline. The next append reads a valid chain, writes its entry behind the unterminated line and
  returns `Ok(entry_id)`; the file no longer parses, the acknowledged entry cannot be
  read, and every later append fails (`ledger.rs:349-358`).
- `land_reland`: `Ledger::append` compares with the tip only, so landing a, b, a
  records a twice, while `land.rs` promises a no-op (`ledger.rs:335`,
  `land.rs:26-29, 517-518`).
- `gate_shared`: overlapping runs with equal inputs get different verdicts through
  `/tmp/usr_gate_g6.*` and the pin marker, while `gate.rs:250-252` promises
  determinism. `AcceptKeepsOwnChecks` bounds the damage: what a run accepts wrongly is at
  most a metric below the baseline or a revert hook that reverts nothing.
- `tripwire_releases`: `run_tripwire` appends its measurement before it reads the
  history (`main.rs:1101, 1115-1117`), and at a tagged commit
  `accretion_tripwire.sh:57` names that very tag as the baseline. Measured under the tag,
  the release is compared with itself and passes below the release before it, while the script
  promises that "a release that lowers the index FAILs here" (lines 5-7). The tracked floor still
  applies (`FloorHolds`), as far as it has been raised.

- `cache_stale`: `analyze_project` hashes a file and later reads it again to parse it
  (`plsql-engine/src/lib.rs:868, 973`). An edit in between stores the analysis of the new
  text under the hash of the old one, although "`content_hash` is a digest of the
  analyzed source" (`plsql-store/src/lib.rs:123`); when the old text is back, the
  cache serves the analysis of the other. `HitHasItsAuthor` shows that this is the only way
  to a wrong source. A second deviation needs no edit: `compact_persisted` is not part of
  the key, so a request for the full run may be served one without its graph.

Smaller disagreements, met while modelling and followed by the modules as the code has them,
with no run of their own:

- `usr_gate.sh:291-293` says of G8 "ANY leak" aborts the run and nothing is persisted. The file
  is read once per stage, so a second landing of the same candidate that truncates it
  just for G8 and fills it before G9 lets residue through; `NothingUnproven` says that it
  takes two landings of that very candidate.
- `plsql-cicd/src/lib.rs:655-658` and `plan.rs:3-12` promise statements in topological order by
  `plsql_lineage::recompile_order`; the plan's recompile statements are in the order of
  `sort_prediction`, and only tests call `recompile_order`.
- `RecompilePlan` (`plsql-lineage/src/lib.rs:1398-1401`) calls `cycles` the objects that
  "participate in a mutual-dependency cycle"; what merely depends on a cycle is there too.
  `LeftoverIsStuck` says what the list does mean.
- `AffectedNode.hops` is "the depth at which this node was first reached" (lines 166-167); an
  improvement overwrites it, and `ImpactExact` says with what.
- `predict.rs:364-366` says "any opacity => never `Clean`"; a changeset without objects
  stays `Clean` whatever uncertainties an impact result adds, which is why
  `CleanMeansNoGaps` speaks of changesets with objects.
- A dangling edge into an object makes `impact()` skip all of its dependents without a trace
  in the result (lines 1646-1649). The reference definition (`Answers`) counts such an object as
  one that cannot be asked, so `ImpactExact` and `AllowedIsExplained` promise
  nothing beyond it.

## 6. Not modelled

By size most of the repository is a generated ANTLR parser (`plsql-parser-antlr/src/generated`, some
235,000 lines) and code of the same nature around it: the lowering to trees, the IR and its
analyses, catalog and project loading, static rules, generators. They translate text and trees in
one pass, keep no state between calls and meet no other actor; a model of them would be a second
copy of the translation. In the same way scrubbing, gap capture and the prompts of the
proposer work on text. What the gate's own stages compute (corpus parsing, golden files, fuzzing, residue
search) is a yes or no of the input.

- Cache daemon: it accepts one connection after the other and turns each request into one call on
  the store; its requests never overlap and it keeps nothing but the store, which
  `AnalysisCache` has with several processes.
- Cluster fold, minimisation loop, proposer's allowlist: sequential and small; the results are
  covered by the repository's tests over inputs as large as TLC would use.
- Name, overload and privilege resolution: pure functions of catalogs, whose rules are those of
  PL/SQL; a reference definition would have to come from Oracle's manual and not from this
  repository.
- Of the change-impact component: `query_path`, the doctor's strongly connected components,
  `dependencies()` and `callers()`, the walks over persisted facts, and the classification of a diff
  into a changeset. `resolve_node` by logical id picks one of several nodes with the same
  id in the order of a hash map; the models have one node per id.
- Hazards without a property: a replaced gate script (no modelled actor edits the checkout of a
  running gate), a truncated ledger (nothing in the repository shortens it), a reverted
  landing (nothing reverts one) and one cache shared by several checkouts.

Also left out: the exit codes 2 of unusable arguments, the readers that only
print, and edits of the checkout by people.

## 7. Plan

What is left and would be worth having, in this order:

1. Ranks for `Ledger`, `Land`, `Gate` and `Tripwire`, process by process, as `ChangeImpact`
   has one for its calls; and, from the explicit guards, that some process that has not ended
   can always step.
2. Several checkouts on one cache directory in `AnalysisCache`.
3. `dependencies()` and `query_path` against the walks of `DepGraph`, with the lemmas
   `ImpactProofs` already has.
4. The cluster fold (independent of the order) and the proposer's allowlist.
