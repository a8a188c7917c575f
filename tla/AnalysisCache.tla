---------------------------- MODULE AnalysisCache ----------------------------
(***************************************************************************)
(* The artifact cache of analyze_project, crates/plsql-engine/src/lib.rs,  *)
(* over crates/plsql-store/src/lib.rs: several analyses, each in a process *)
(* of its own, share one cache.db while the source tree is being edited.   *)
(*                                                                         *)
(* An analysis reads every file twice, once to compute its cache key and,  *)
(* on a miss, once more to parse it; the catalog snapshot it reads once.   *)
(* put_cached and get_cached are two SQLite transactions each.             *)
(*                                                                         *)
(* A digest stands for what was hashed: SHA-256 does not collide, so the   *)
(* key is the contents it was computed from and a blob's digest is its     *)
(* body.  An answer is the inputs it was computed from; the pipeline       *)
(* between parsing and storing is a function of them.                      *)
(***************************************************************************)
EXTENDS Naturals

CONSTANTS
    Run,        \* calls of analyze_project, each in its own process
    NumFiles,   \* files a project may have, numbered in path order
    Parsed,     \* those with one of PLSQL_EXTENSIONS
    Content,    \* contents of a file
    Text,       \* those that are UTF-8
    Setting,    \* CACHE_LAYOUT, analysis profile and redaction policy
    Catalog,    \* contents of the catalog snapshot
    None,       \* no catalog
    Requests,   \* the arguments of a run
    Trees,      \* the trees there may be at the start
    MaxEdits    \* bound on the edits while the runs go on

File == 1 .. NumFiles

(* A source tree, or part of one: the contents of the files that are there.*)
Tree == UNION {[D -> Content] : D \in SUBSET File}

Source == {"disabled", "snapshot", "live"}

(* caching: enabled, with a directory.  compact: compact_persisted.        *)
Request ==
    [setting : Setting, source : Source, caching : BOOLEAN, compact : BOOLEAN]

ASSUME NumFilesAssumption == NumFiles \in Nat
ASSUME ParsedAssumption == Parsed \subseteq File
ASSUME TextAssumption == Text \subseteq Content
ASSUME NoneAssumption == None \notin Catalog
ASSUME RequestsAssumption == Requests \subseteq Request
ASSUME TreesAssumption == Trees \subseteq Tree
ASSUME MaxEditsAssumption == MaxEdits \in Nat

Key == [content : Tree, setting : Setting, catalog : Catalog \cup {None}]

(* What an AnalysisRun says: of which sources, under which setting and     *)
(* catalog, and whether it has its dependency graph.                       *)
Body ==
    [source : Tree, setting : Setting, catalog : Catalog \cup {None}, graph : BOOLEAN]

(* A row of cache_entries.                                                  *)
Entry == [key : Key, digest : Body]

VARIABLES
    req,       \* req[r]: the arguments of run r
    pc,        \* how far run r is; how it ended
    catalog,   \* catalog[r]: the catalog r loaded
    found,     \* found[r]: the files r discovered
    hashed,    \* hashed[r]: what r read for its key
    active,    \* active[r]: r has a cache_ctx
    fetched,   \* fetched[r]: the digest r found under its key, if any
    parsed,    \* parsed[r]: what r read to parse
    outcome,   \* outcome[r]: its cache_outcome
    answer,    \* answer[r]: its AnalysisRun, once it has one
    raced,     \* raced[r]: a file changed between its two reads by r
    tree,      \* the project's files
    snapshot,  \* the catalog snapshot, None when it cannot be read
    blobs,     \* table cache_blobs
    entries,   \* table cache_entries
    edits      \* edits so far

vars == <<req, pc, catalog, found, hashed, active, fetched, parsed, outcome, answer,
          raced, tree, snapshot, blobs, entries, edits>>

given == <<req, catalog, found, active>>
reads == <<hashed, parsed, raced>>
result == <<outcome, answer>>
world == <<tree, snapshot, edits>>
store == <<blobs, entries>>

Reading == {"hash", "lookup", "fetch", "parse"}
Busy == {"start", "discover"} \cup Reading \cup {"blob", "entry"}
Ended == {"done", "err", "dead"}

TypeOK ==
    /\ req \in [Run -> Requests]
    /\ pc \in [Run -> Busy \cup Ended]
    /\ catalog \in [Run -> Catalog \cup {None}]
    /\ found \in [Run -> SUBSET File]
    /\ hashed \in [Run -> Tree]
    /\ active \in [Run -> BOOLEAN]
    /\ fetched \in [Run -> SUBSET Body]
    /\ parsed \in [Run -> Tree]
    /\ outcome \in [Run -> {"none", "hit", "miss"}]
    /\ answer \in [Run -> SUBSET Body]
    /\ raced \in [Run -> BOOLEAN]
    /\ tree \in Tree
    /\ snapshot \in Catalog \cup {None}
    /\ blobs \subseteq Body
    /\ entries \subseteq Entry
    /\ edits \in 0 .. MaxEdits

NoFiles == [f \in {} |-> f]

Init ==
    /\ req \in [Run -> Requests]
    /\ pc = [r \in Run |-> "start"]
    /\ catalog = [r \in Run |-> None]
    /\ found = [r \in Run |-> {}]
    /\ hashed = [r \in Run |-> NoFiles]
    /\ active = [r \in Run |-> FALSE]
    /\ fetched = [r \in Run |-> {}]
    /\ parsed = [r \in Run |-> NoFiles]
    /\ outcome = [r \in Run |-> "none"]
    /\ answer = [r \in Run |-> {}]
    /\ raced = [r \in Run |-> FALSE]
    /\ tree \in Trees
    /\ snapshot \in Catalog
    /\ blobs = {}
    /\ entries = {}
    /\ edits = 0

Goto(r, from, to) == pc[r] = from /\ pc' = [pc EXCEPT ![r] = to]

-----------------------------------------------------------------------------
(* 1. The catalog comes first: an error there must not borrow a cached     *)
(* proof.  A live connection is always an error.                           *)
LoadCatalog(r) ==
    /\ Goto(r, "start",
            IF \/ req[r].source = "live"
               \/ req[r].source = "snapshot" /\ snapshot = None
            THEN "err" ELSE "discover")
    /\ catalog' = [catalog EXCEPT ![r] = IF req[r].source = "snapshot" THEN snapshot
                                         ELSE None]
    /\ UNCHANGED <<req, found, active, fetched, reads, result, world, store>>

(* 2. Discovery, or its failure: the manifest or a directory is unreadable.*)
Discover(r) ==
    /\ Goto(r, "discover", IF req[r].caching THEN "hash" ELSE "parse")
    /\ found' = [found EXCEPT ![r] = DOMAIN tree]
    /\ UNCHANGED <<req, catalog, active, fetched, reads, result, world, store>>

DiscoverFails(r) ==
    /\ Goto(r, "discover", "err")
    /\ UNCHANGED <<given, fetched, reads, result, world, store>>

-----------------------------------------------------------------------------
(* Files are read in the order of their paths.                             *)
IsFirst(f, S) == f \in S /\ \A g \in S : f <= g

Reads(h, f) == [x \in DOMAIN h \cup {f} |-> IF x = f THEN tree[f] ELSE h[x]]

ToHash(r) == found[r] \ DOMAIN hashed[r]

(* 3. The key is made of what the files contain now.                       *)
HashFile(r) ==
    /\ pc[r] = "hash"
    /\ \E f \in DOMAIN tree :
         /\ IsFirst(f, ToHash(r))
         /\ hashed' = [hashed EXCEPT ![r] = Reads(@, f)]
    /\ UNCHANGED <<pc, given, fetched, parsed, result, raced, world, store>>

OpenStore(r) ==
    /\ ToHash(r) = {}
    /\ Goto(r, "hash", "lookup")
    /\ active' = [active EXCEPT ![r] = TRUE]
    /\ UNCHANGED <<req, catalog, found, fetched, reads, result, world, store>>

(* A file that cannot be read, or a store that cannot be opened: no cache. *)
NoCache(r) ==
    /\ \/ ToHash(r) = {}
       \/ \E f \in File \ DOMAIN tree : IsFirst(f, ToHash(r))
    /\ Goto(r, "hash", "parse")
    /\ UNCHANGED <<given, fetched, reads, result, world, store>>

KeyOfBug(r) == [content |-> hashed[r], setting |-> req[r].setting]

KeyOf(r) == [content |-> hashed[r], setting |-> req[r].setting, catalog |-> catalog[r]]

-----------------------------------------------------------------------------
(* 4. get_cached: the entry, then the blob.  Whatever fails is a miss.     *)
LookupEntryBug(r) ==
    /\ fetched' = [fetched EXCEPT ![r] =
                     {e.digest : e \in {x \in entries :
                        [x.key EXCEPT !.content = DOMAIN @]
                          = [KeyOf(r) EXCEPT !.content = DOMAIN @]}}]
    /\ Goto(r, "lookup", IF fetched'[r] = {} THEN "parse" ELSE "fetch")
    /\ UNCHANGED <<given, reads, result, world, store>>

LookupEntry(r) ==
    /\ fetched' = [fetched EXCEPT ![r] =
                     {e.digest : e \in {x \in entries : x.key = KeyOf(r)}}]
    /\ Goto(r, "lookup", IF fetched'[r] = {} THEN "parse" ELSE "fetch")
    /\ UNCHANGED <<given, reads, result, world, store>>

FetchBlobBug(r) ==
    /\ Goto(r, "fetch", "done")
    /\ \E b \in fetched[r] \cap blobs : answer' = [answer EXCEPT ![r] = {b}]
    /\ outcome' = [outcome EXCEPT ![r] = "hit"]
    /\ UNCHANGED <<given, fetched, reads, world, store>>

(* The catalog of the run replaces the stored one, which compaction drops. *)
FetchBlob(r) ==
    /\ Goto(r, "fetch", "done")
    /\ \E b \in fetched[r] \cap blobs :
         answer' = [answer EXCEPT ![r] = {[b EXCEPT !.catalog = catalog[r]]}]
    /\ outcome' = [outcome EXCEPT ![r] = "hit"]
    /\ UNCHANGED <<given, fetched, reads, world, store>>

LookupFails(r) ==
    /\ pc[r] \in {"lookup", "fetch"}
    /\ pc' = [pc EXCEPT ![r] = "parse"]
    /\ UNCHANGED <<given, fetched, reads, result, world, store>>

-----------------------------------------------------------------------------
ToParse(r) == (found[r] \cap Parsed) \ DOMAIN parsed[r]

(* 5. Each file is read again and parsed.                                  *)
ParseFile(r) ==
    /\ pc[r] = "parse"
    /\ \E f \in DOMAIN tree :
         /\ IsFirst(f, ToParse(r))
         /\ tree[f] \in Text
         /\ parsed' = [parsed EXCEPT ![r] = Reads(@, f)]
    /\ UNCHANGED <<pc, given, hashed, fetched, result, raced, world, store>>

(* EngineError::SourceRead.                                                *)
ParseFails(r) ==
    /\ \E f \in ToParse(r) : /\ IsFirst(f, ToParse(r))
                            /\ f \in DOMAIN tree => tree[f] \notin Text
    /\ Goto(r, "parse", "err")
    /\ UNCHANGED <<given, fetched, reads, result, world, store>>

Answer(r) ==
    [source |-> parsed[r], setting |-> req[r].setting, catalog |-> catalog[r],
     graph |-> TRUE]

FinishParse(r) ==
    /\ ToParse(r) = {}
    /\ Goto(r, "parse", IF active[r] THEN "blob" ELSE "done")
    /\ answer' = [answer EXCEPT ![r] = {Answer(r)}]
    /\ outcome' = [outcome EXCEPT ![r] = IF active[r] THEN "miss" ELSE "none"]
    /\ UNCHANGED <<given, fetched, reads, world, store>>

-----------------------------------------------------------------------------
(* 6. put_cached: the blob, then the entry that names it; the result of    *)
(* neither is looked at.  AnalysisRun::compact drops catalog and graph.    *)
Stored(r) ==
    [source |-> parsed[r], setting |-> req[r].setting,
     catalog |-> IF req[r].compact THEN None ELSE catalog[r],
     graph |-> ~req[r].compact]

PutBlob(r) ==
    /\ Goto(r, "blob", "entry")
    /\ blobs' = blobs \cup {Stored(r)}
    /\ UNCHANGED <<given, fetched, reads, result, world, entries>>

PutEntryBug(r) ==
    /\ Goto(r, "entry", "done")
    /\ entries' = {e \in entries : e.key.content # KeyOf(r).content}
                    \cup {[key |-> KeyOf(r), digest |-> Stored(r)]}
    /\ UNCHANGED <<given, fetched, reads, result, world, blobs>>

PutEntry(r) ==
    /\ Goto(r, "entry", "done")
    /\ entries' = {e \in entries : e.key # KeyOf(r)}
                    \cup {[key |-> KeyOf(r), digest |-> Stored(r)]}
    /\ UNCHANGED <<given, fetched, reads, result, world, blobs>>

PutFailsBug(r) ==
    /\ pc[r] \in {"blob", "entry"}
    /\ pc' = [pc EXCEPT ![r] = IF @ = "blob" THEN "entry" ELSE "done"]
    /\ UNCHANGED <<given, fetched, reads, result, world, store>>

PutFails(r) ==
    /\ pc[r] \in {"blob", "entry"}
    /\ pc' = [pc EXCEPT ![r] = "done"]
    /\ UNCHANGED <<given, fetched, reads, result, world, store>>

Step(r) ==
    \/ LoadCatalog(r) \/ Discover(r) \/ DiscoverFails(r)
    \/ HashFile(r) \/ OpenStore(r) \/ NoCache(r)
    \/ LookupEntry(r) \/ FetchBlob(r) \/ LookupFails(r)
    \/ ParseFile(r) \/ ParseFails(r) \/ FinishParse(r)
    \/ PutBlob(r) \/ PutEntry(r) \/ PutFails(r)

-----------------------------------------------------------------------------
(* The process of a run is killed.                                         *)
Die(r) ==
    /\ pc[r] \in Busy
    /\ pc' = [pc EXCEPT ![r] = "dead"]
    /\ UNCHANGED <<given, fetched, reads, result, world, store>>

(* Those a change of f comes upon between their two reads of it.           *)
Races(f) ==
    [r \in Run |-> \/ raced[r]
                   \/ /\ pc[r] \in Reading
                      /\ f \in (DOMAIN hashed[r] \cap Parsed) \ DOMAIN parsed[r]]

(* Somebody writes a file of the project, removes one, or exports the      *)
(* catalog again.                                                          *)
Edit(f) ==
    /\ edits < MaxEdits
    /\ edits' = edits + 1
    /\ \/ \E c \in Content :
            /\ f \in DOMAIN tree => c # tree[f]
            /\ tree' = [x \in DOMAIN tree \cup {f} |-> IF x = f THEN c ELSE tree[x]]
       \/ /\ f \in DOMAIN tree
          /\ tree' = [x \in DOMAIN tree \ {f} |-> tree[x]]
    /\ raced' = Races(f)
    /\ UNCHANGED <<pc, given, hashed, fetched, parsed, result, snapshot, store>>

ExportCatalog(c) ==
    /\ edits < MaxEdits
    /\ edits' = edits + 1
    /\ snapshot' = c
    /\ UNCHANGED <<pc, given, fetched, reads, result, tree, store>>

AllEnded == \A r \in Run : pc[r] \in Ended

Next ==
    \/ \E r \in Run : Step(r) \/ Die(r)
    \/ \E f \in File : Edit(f)
    \/ \E c \in (Catalog \cup {None}) \ {snapshot} : ExportCatalog(c)
    \/ AllEnded /\ UNCHANGED vars

Spec == Init /\ [][Next]_vars

-----------------------------------------------------------------------------
(* The foreign key and the two-step reads hold without a transaction: an   *)
(* entry never names a blob that is not there, not between the two writes  *)
(* of put_cached, not between the two reads of get_cached, and not when a  *)
(* process dies in between.                                                *)
DigestsHaveBlobs ==
    /\ \A e \in entries : e.digest \in blobs
    /\ \A r \in Run : pc[r] = "fetch" => fetched[r] \subseteq blobs
    /\ \A r \in Run : pc[r] = "entry" => Stored(r) \in blobs

(* A fragment is never served across profiles, redaction policies, layouts *)
(* or catalogs, compact or not, whatever the processes that share the      *)
(* store were asked for.                                                   *)
AnswersItsRequest ==
    \A r \in Run : pc[r] = "done" =>
        \E b \in answer[r] :
            /\ b.setting = req[r].setting
            /\ b.catalog = catalog[r]
            /\ outcome[r] # "hit" => b.graph

(* What r had in its hands when it computed its key.                       *)
Keyed(h) == [f \in DOMAIN h \cap Parsed |-> h[f]]

(* "So a content change misses": a hit says what the caller has just read, *)
(* unless somebody changed a file between the two reads of the very run    *)
(* that stored it.  The graph is missing only if that run was asked to be  *)
(* compact, and every hit goes back to a run that missed.                  *)
HitHasItsAuthor ==
    \A r \in Run : outcome[r] = "hit" =>
        \E b \in answer[r], q \in Run :
            /\ q # r /\ outcome[q] = "miss" /\ KeyOf(q) = KeyOf(r)
            /\ b.source = parsed[q]
            /\ raced[q] \/ b.source = Keyed(hashed[r])
            /\ b.graph = ~req[q].compact

(* Last write wins, and it does not matter which: an entry is never lost,  *)
(* and is rebound to a different source only if one of the runs with its   *)
(* key was overtaken by an edit.                                           *)
RebindingAgrees ==
    [][\A e \in entries : \E n \in entries' :
         /\ n.key = e.key
         /\ \/ n.digest.source = e.digest.source
            \/ \E q \in Run : raced[q] /\ KeyOf(q) = e.key]_vars

(* "content_hash is a digest of the analyzed source" (CacheKey).  False    *)
(* when a file changes after it was hashed and before it is parsed.        *)
ContentIsAnalyzed ==
    \A e \in entries : e.digest.source = Keyed(e.key.content)
=============================================================================
