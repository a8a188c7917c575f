------------------------- MODULE AnalysisCacheProofs -------------------------
(***************************************************************************)
(* Theorems about AnalysisCache for any number of runs, files, settings    *)
(* and edits: an entry always has its blob, an answer belongs to its       *)
(* request, and a hit says what the caller has read unless the run that    *)
(* stored it was overtaken by an edit.                                     *)
(***************************************************************************)
EXTENDS AnalysisCache, TLAPS

(* An outcome is known at the end, and put_cached runs after a miss only.  *)
Missed == {"blob", "entry", "done", "dead"}

OutcomeInv ==
    \A r \in Run :
        /\ outcome[r] = "miss" => pc[r] \in Missed
        /\ outcome[r] = "hit" => pc[r] = "done"
        /\ pc[r] \in {"blob", "entry"} => outcome[r] = "miss"
        /\ pc[r] \in {"blob", "entry", "done"} /\ outcome[r] # "hit"
             => answer[r] = {Answer(r)}

(* Run q has missed under key k and has body b to store.                   *)
By(q, k, b) == outcome[q] = "miss" /\ KeyOf(q) = k /\ Stored(q) = b

EntryAuthor == \A e \in entries : \E q \in Run : By(q, e.key, e.digest)

FetchAuthor ==
    \A r \in Run : pc[r] = "fetch" =>
        \A b \in fetched[r] : \E q \in Run : By(q, KeyOf(r), b)

HitAuthor ==
    \A r \in Run : outcome[r] = "hit" =>
        \E q \in Run, b \in answer[r] :
            /\ outcome[q] = "miss" /\ KeyOf(q) = KeyOf(r)
            /\ b.source = Stored(q).source /\ b.setting = Stored(q).setting
            /\ b.graph = Stored(q).graph /\ b.catalog = catalog[r]

(* The second read of a file follows the first, over the same files.       *)
OrderInv ==
    \A r \in Run :
        /\ pc[r] \in {"start", "discover"} => DOMAIN hashed[r] = {}
        /\ pc[r] \in {"start", "discover", "hash", "lookup", "fetch"} => DOMAIN parsed[r] = {}
        /\ pc[r] \in {"start", "discover", "hash"} => ~active[r]
        /\ DOMAIN hashed[r] \subseteq found[r]
        /\ DOMAIN parsed[r] \subseteq found[r] \cap Parsed
        /\ active[r] => DOMAIN hashed[r] = found[r]

(* Until a run is overtaken by an edit, what it has hashed is what it has  *)
(* parsed and what it is still going to parse.                             *)
Agrees(r) ==
    \A f \in DOMAIN hashed[r] \cap Parsed :
        IF f \in DOMAIN parsed[r] THEN parsed[r][f] = hashed[r][f]
        ELSE f \in DOMAIN tree /\ tree[f] = hashed[r][f]

TrackInv == \A r \in Run : pc[r] \in Reading /\ ~raced[r] => Agrees(r)

QuietInv ==
    \A r \in Run : outcome[r] = "miss" /\ ~raced[r] => parsed[r] = Keyed(hashed[r])

(* The parts together.                                                     *)
AuthorInv == EntryAuthor /\ FetchAuthor /\ HitAuthor

ReadInv == OrderInv /\ TrackInv /\ QuietInv

IInv == TypeOK /\ OutcomeInv /\ AuthorInv /\ ReadInv /\ DigestsHaveBlobs

-----------------------------------------------------------------------------
LEMMA TreeShape ==
    ASSUME NEW h
    PROVE  h \in Tree <=> DOMAIN h \subseteq File /\ h \in [DOMAIN h -> Content]
  BY DEF Tree

LEMMA ReadsTyped ==
    ASSUME NEW h \in Tree, tree \in Tree, NEW f \in DOMAIN tree
    PROVE  /\ Reads(h, f) \in Tree
           /\ DOMAIN Reads(h, f) = DOMAIN h \cup {f}
           /\ Reads(h, f)[f] = tree[f]
           /\ \A g \in DOMAIN h : g # f => Reads(h, f)[g] = h[g]
  BY TreeShape DEF Reads

LEMMA KeyTyped ==
    ASSUME TypeOK, NEW r \in Run
    PROVE  KeyOf(r) \in Key
  BY RequestsAssumption DEF TypeOK, KeyOf, Key, Request

LEMMA AnswerTyped ==
    ASSUME TypeOK, NEW r \in Run
    PROVE  /\ Answer(r) \in Body
           /\ Stored(r) \in Body
           /\ Stored(r).source = parsed[r]
           /\ Stored(r).setting = req[r].setting
           /\ Stored(r).graph = ~req[r].compact
  BY RequestsAssumption DEF TypeOK, Answer, Stored, Body, Request

-----------------------------------------------------------------------------
LEMMA TypeInit == Init => TypeOK
<1> SUFFICES ASSUME Init PROVE TypeOK
  OBVIOUS
<1>1. NoFiles \in Tree
  BY TreeShape DEF NoFiles
<1>2. tree \in Tree
  BY TreesAssumption DEF Init
<1>3. QED
  BY <1>1, <1>2, MaxEditsAssumption DEF Init, TypeOK, Busy

LEMMA TypeStep ==
    ASSUME TypeOK, [Next]_vars
    PROVE  TypeOK'
<1> USE DEF Goto, given, reads, result, world, store, Busy, Reading, Ended
<1>1. ASSUME NEW r \in Run, LoadCatalog(r) PROVE TypeOK'
  BY <1>1 DEF LoadCatalog, TypeOK
<1>2. ASSUME NEW r \in Run, Discover(r) PROVE TypeOK'
  <2>1. DOMAIN tree \subseteq File
    BY TreeShape DEF TypeOK
  <2>2. QED
    BY <1>2, <2>1 DEF Discover, TypeOK
<1>3. ASSUME NEW r \in Run, DiscoverFails(r) \/ NoCache(r) \/ LookupFails(r)
                            \/ ParseFails(r) \/ PutFails(r) \/ Die(r)
      PROVE  TypeOK'
  BY <1>3 DEF DiscoverFails, NoCache, LookupFails, ParseFails, PutFails, Die, TypeOK
<1>4. ASSUME NEW r \in Run, HashFile(r) PROVE TypeOK'
  <2>1. PICK f \in DOMAIN tree : hashed' = [hashed EXCEPT ![r] = Reads(@, f)]
    BY <1>4 DEF HashFile
  <2>2. Reads(hashed[r], f) \in Tree
    BY ReadsTyped DEF TypeOK
  <2>3. QED
    BY <1>4, <2>1, <2>2 DEF HashFile, TypeOK
<1>5. ASSUME NEW r \in Run, OpenStore(r) PROVE TypeOK'
  BY <1>5 DEF OpenStore, TypeOK
<1>6. ASSUME NEW r \in Run, LookupEntry(r) PROVE TypeOK'
  <2>1. {e.digest : e \in {x \in entries : x.key = KeyOf(r)}} \in SUBSET Body
    BY DEF TypeOK, Entry
  <2>2. QED
    BY <1>6, <2>1 DEF LookupEntry, TypeOK
<1>7. ASSUME NEW r \in Run, FetchBlob(r) PROVE TypeOK'
  <2>1. PICK b \in blobs : answer' = [answer EXCEPT ![r] = {[b EXCEPT !.catalog = catalog[r]]}]
    BY <1>7 DEF FetchBlob
  <2>2. [b EXCEPT !.catalog = catalog[r]] \in Body
    BY DEF TypeOK, Body
  <2>3. QED
    BY <1>7, <2>1, <2>2 DEF FetchBlob, TypeOK
<1>8. ASSUME NEW r \in Run, ParseFile(r) PROVE TypeOK'
  <2>1. PICK f \in DOMAIN tree : parsed' = [parsed EXCEPT ![r] = Reads(@, f)]
    BY <1>8 DEF ParseFile
  <2>2. Reads(parsed[r], f) \in Tree
    BY ReadsTyped DEF TypeOK
  <2>3. QED
    BY <1>8, <2>1, <2>2 DEF ParseFile, TypeOK
<1>9. ASSUME NEW r \in Run, FinishParse(r) PROVE TypeOK'
  BY <1>9, AnswerTyped DEF FinishParse, TypeOK
<1>10. ASSUME NEW r \in Run, PutBlob(r) PROVE TypeOK'
  BY <1>10, AnswerTyped DEF PutBlob, TypeOK
<1>11. ASSUME NEW r \in Run, PutEntry(r) PROVE TypeOK'
  <2>1. [key |-> KeyOf(r), digest |-> Stored(r)] \in Entry
    BY KeyTyped, AnswerTyped DEF Entry
  <2>2. entries' \subseteq Entry
    BY <1>11, <2>1 DEF PutEntry, TypeOK
  <2>3. QED
    BY <1>11, <2>2 DEF PutEntry, TypeOK
<1>12. ASSUME NEW f \in File, Edit(f) PROVE TypeOK'
  <2>1. tree' \in Tree
    <3>1. ASSUME NEW c \in Content,
                 tree' = [x \in DOMAIN tree \cup {f} |-> IF x = f THEN c ELSE tree[x]]
          PROVE  tree' \in Tree
      BY <3>1, TreeShape DEF TypeOK
    <3>2. ASSUME tree' = [x \in DOMAIN tree \ {f} |-> tree[x]]
          PROVE  tree' \in Tree
      BY <3>2, TreeShape DEF TypeOK
    <3>3. QED
      BY <1>12, <3>1, <3>2 DEF Edit
  <2>2. raced' \in [Run -> BOOLEAN]
    BY <1>12 DEF Edit, Races, TypeOK
  <2>3. edits' \in 0 .. MaxEdits
    BY <1>12, MaxEditsAssumption DEF Edit, TypeOK
  <2>4. QED
    BY <1>12, <2>1, <2>2, <2>3 DEF Edit, TypeOK
<1>13. ASSUME NEW c \in Catalog \cup {None}, ExportCatalog(c) PROVE TypeOK'
  <2>1. edits' \in 0 .. MaxEdits
    BY <1>13, MaxEditsAssumption DEF ExportCatalog, TypeOK
  <2>2. QED
    BY <1>13, <2>1 DEF ExportCatalog, TypeOK
<1>14. CASE UNCHANGED vars
  BY <1>14 DEF vars, TypeOK
<1>15. QED
  BY <1>1, <1>2, <1>3, <1>4, <1>5, <1>6, <1>7, <1>8, <1>9, <1>10, <1>11, <1>12,
     <1>13, <1>14 DEF Next, Step

(* Every variable keeps its type: keys, bodies, entries and answers stay   *)
(* what analyze_project and the store make of them.                        *)
THEOREM TypeCorrect == Spec => []TypeOK
<1>1. Init => TypeOK
  BY TypeInit
<1>2. TypeOK /\ [Next]_vars => TypeOK'
  BY TypeStep
<1>3. QED
  BY <1>1, <1>2, PTL DEF Spec


-----------------------------------------------------------------------------
LEMMA OutcomeStep ==
    ASSUME TypeOK, OutcomeInv, [Next]_vars
    PROVE  OutcomeInv'
<1> USE DEF Goto, given, reads, result, world, store, Missed, OutcomeInv
<1>1. ASSUME NEW r \in Run, LoadCatalog(r) PROVE OutcomeInv'
  BY <1>1 DEF LoadCatalog, TypeOK, Answer
<1>2. ASSUME NEW r \in Run, Discover(r) PROVE OutcomeInv'
  BY <1>2 DEF Discover, TypeOK, Answer
<1>3. ASSUME NEW r \in Run, DiscoverFails(r) \/ NoCache(r) \/ LookupFails(r)
                            \/ ParseFails(r) \/ PutFails(r)
      PROVE  OutcomeInv'
  BY <1>3 DEF DiscoverFails, NoCache, LookupFails, ParseFails, PutFails, TypeOK, Answer
<1>4. ASSUME NEW r \in Run, Die(r) PROVE OutcomeInv'
  BY <1>4 DEF Die, TypeOK, Answer, Busy, Reading
<1>5. ASSUME NEW r \in Run, HashFile(r) PROVE OutcomeInv'
  BY <1>5 DEF HashFile, TypeOK, Answer
<1>6. ASSUME NEW r \in Run, OpenStore(r) PROVE OutcomeInv'
  BY <1>6 DEF OpenStore, TypeOK, Answer
<1>7. ASSUME NEW r \in Run, LookupEntry(r) PROVE OutcomeInv'
  BY <1>7 DEF LookupEntry, TypeOK, Answer
<1>8. ASSUME NEW r \in Run, FetchBlob(r) PROVE OutcomeInv'
  <2>1. PICK b : answer' = [answer EXCEPT ![r] = b]
    BY <1>8 DEF FetchBlob
  <2>2. QED
    BY <1>8, <2>1 DEF FetchBlob, TypeOK, Answer
<1>9. ASSUME NEW r \in Run, ParseFile(r) PROVE OutcomeInv'
  <2>1. PICK h : parsed' = [parsed EXCEPT ![r] = h]
    BY <1>9 DEF ParseFile
  <2>2. QED
    BY <1>9, <2>1 DEF ParseFile, TypeOK, Answer
<1>10. ASSUME NEW r \in Run, FinishParse(r) PROVE OutcomeInv'
  BY <1>10 DEF FinishParse, TypeOK, Answer
<1>11. ASSUME NEW r \in Run, PutBlob(r) \/ PutEntry(r) PROVE OutcomeInv'
  BY <1>11 DEF PutBlob, PutEntry, TypeOK, Answer
<1>12. ASSUME NEW f \in File, Edit(f) PROVE OutcomeInv'
  BY <1>12 DEF Edit, Answer
<1>13. ASSUME NEW c, ExportCatalog(c) PROVE OutcomeInv'
  BY <1>13 DEF ExportCatalog, Answer
<1>14. CASE UNCHANGED vars
  BY <1>14 DEF vars, Answer
<1>15. QED
  BY <1>1, <1>2, <1>3, <1>4, <1>5, <1>6, <1>7, <1>8, <1>9, <1>10, <1>11, <1>12,
     <1>13, <1>14 DEF Next, Step

(* What an entry or a hit may go back to never changes again.              *)
LEMMA Settled ==
    ASSUME TypeOK, OutcomeInv, [Next]_vars, NEW q \in Run, outcome[q] = "miss"
    PROVE  /\ outcome'[q] = "miss"
           /\ KeyOf(q)' = KeyOf(q)
           /\ Stored(q)' = Stored(q)
           /\ UNCHANGED <<hashed[q], parsed[q], raced[q]>>
<1> DEFINE Same == UNCHANGED <<req, catalog[q], outcome[q], hashed[q], parsed[q], raced[q]>>
<1> USE DEF Goto, given, reads, result, world, store
<1>1. pc[q] \in Missed
  BY DEF OutcomeInv
<1>2. ASSUME NEW r \in Run, LoadCatalog(r) \/ Discover(r) \/ OpenStore(r) \/ LookupEntry(r)
                            \/ FetchBlob(r) \/ FinishParse(r)
      PROVE  Same
  BY <1>1, <1>2 DEF Missed, LoadCatalog, Discover, OpenStore, LookupEntry, FetchBlob,
                    FinishParse, TypeOK
<1>3. ASSUME NEW r \in Run, HashFile(r) \/ ParseFile(r) PROVE Same
  BY <1>1, <1>3 DEF Missed, HashFile, ParseFile, TypeOK
<1>4. ASSUME NEW r \in Run, DiscoverFails(r) \/ NoCache(r) \/ LookupFails(r) \/ ParseFails(r)
                            \/ PutBlob(r) \/ PutEntry(r) \/ PutFails(r) \/ Die(r)
      PROVE  Same
  BY <1>4 DEF DiscoverFails, NoCache, LookupFails, ParseFails, PutBlob, PutEntry, PutFails, Die
<1>5. ASSUME NEW f \in File, Edit(f) PROVE Same
  BY <1>1, <1>5 DEF Missed, Edit, Races, Reading, TypeOK
<1>6. ASSUME NEW c, ExportCatalog(c) PROVE Same
  BY <1>6 DEF ExportCatalog
<1>7. Same
  BY <1>2, <1>3, <1>4, <1>5, <1>6 DEF Next, Step, vars
<1>8. QED
  BY <1>7 DEF KeyOf, Stored

(* The key of a run is fixed when it looks it up.                          *)
LEMMA KeyKept ==
    ASSUME TypeOK, [Next]_vars, NEW q \in Run, pc[q] \notin {"start", "hash"}
    PROVE  KeyOf(q)' = KeyOf(q) /\ UNCHANGED <<catalog[q], hashed[q]>>
<1> DEFINE Same == UNCHANGED <<req, catalog[q], hashed[q]>>
<1> USE DEF Goto, given, reads, result, world, store
<1>1. ASSUME NEW r \in Run, LoadCatalog(r) \/ Discover(r) \/ OpenStore(r) \/ LookupEntry(r)
                            \/ FetchBlob(r) \/ FinishParse(r)
      PROVE  Same
  BY <1>1 DEF LoadCatalog, Discover, OpenStore, LookupEntry, FetchBlob, FinishParse, TypeOK
<1>2. ASSUME NEW r \in Run, HashFile(r) \/ ParseFile(r) PROVE Same
  BY <1>2 DEF HashFile, ParseFile, TypeOK
<1>3. ASSUME NEW r \in Run, DiscoverFails(r) \/ NoCache(r) \/ LookupFails(r) \/ ParseFails(r)
                            \/ PutBlob(r) \/ PutEntry(r) \/ PutFails(r) \/ Die(r)
      PROVE  Same
  BY <1>3 DEF DiscoverFails, NoCache, LookupFails, ParseFails, PutBlob, PutEntry, PutFails, Die
<1>4. ASSUME NEW f \in File, Edit(f) PROVE Same
  BY <1>4 DEF Edit
<1>5. ASSUME NEW c, ExportCatalog(c) PROVE Same
  BY <1>5 DEF ExportCatalog
<1>6. Same
  BY <1>1, <1>2, <1>3, <1>4, <1>5 DEF Next, Step, vars
<1>7. QED
  BY <1>6 DEF KeyOf

-----------------------------------------------------------------------------
(* Entries are written by put_cached only, fetched by get_cached only, and *)
(* a hit is what get_cached has found.                                     *)
LEMMA Writers ==
    ASSUME TypeOK, OutcomeInv, [Next]_vars
    PROVE  /\ entries' = entries \/ \E r \in Run : PutEntry(r)
           /\ blobs \subseteq blobs'
           /\ \A q \in Run : pc'[q] = "fetch" =>
                LookupEntry(q) \/ (pc[q] = "fetch" /\ fetched'[q] = fetched[q])
           /\ \A q \in Run : outcome'[q] = "hit" =>
                FetchBlob(q) \/ (outcome[q] = "hit" /\ answer'[q] = answer[q])
<1> DEFINE Goal == /\ entries' = entries \/ \E r \in Run : PutEntry(r)
                   /\ blobs \subseteq blobs'
                   /\ \A q \in Run : pc'[q] = "fetch" =>
                        LookupEntry(q) \/ (pc[q] = "fetch" /\ fetched'[q] = fetched[q])
                   /\ \A q \in Run : outcome'[q] = "hit" =>
                        FetchBlob(q) \/ (outcome[q] = "hit" /\ answer'[q] = answer[q])
<1> USE DEF Goto, given, reads, result, world, store
<1>1. ASSUME NEW r \in Run, LoadCatalog(r) \/ Discover(r) \/ OpenStore(r)
      PROVE  Goal
  BY <1>1 DEF LoadCatalog, Discover, OpenStore, TypeOK
<1>2. ASSUME NEW r \in Run, HashFile(r) \/ ParseFile(r) PROVE Goal
  BY <1>2 DEF HashFile, ParseFile
<1>3. ASSUME NEW r \in Run, DiscoverFails(r) \/ NoCache(r) \/ LookupFails(r) \/ ParseFails(r)
                            \/ PutFails(r) \/ Die(r)
      PROVE  Goal
  BY <1>3 DEF DiscoverFails, NoCache, LookupFails, ParseFails, PutFails, Die, TypeOK
<1>4. ASSUME NEW r \in Run, LookupEntry(r) PROVE Goal
  <2>1. /\ UNCHANGED <<entries, blobs, outcome, answer>>
        /\ \A q \in Run : q # r => pc'[q] = pc[q] /\ fetched'[q] = fetched[q]
    BY <1>4 DEF LookupEntry, TypeOK
  <2>2. QED
    BY <1>4, <2>1
<1>5. ASSUME NEW r \in Run, FetchBlob(r) PROVE Goal
  <2>1. /\ UNCHANGED <<entries, blobs, fetched>>
        /\ pc'[r] = "done"
        /\ \A q \in Run : q # r => /\ pc'[q] = pc[q]
                                   /\ outcome'[q] = outcome[q] /\ answer'[q] = answer[q]
    BY <1>5 DEF FetchBlob, TypeOK
  <2>2. QED
    BY <1>5, <2>1
<1>6. ASSUME NEW r \in Run, FinishParse(r) PROVE Goal
  <2>1. /\ UNCHANGED <<entries, blobs, fetched>>
        /\ pc'[r] # "fetch" /\ outcome'[r] # "hit"
        /\ \A q \in Run : q # r => /\ pc'[q] = pc[q]
                                   /\ outcome'[q] = outcome[q] /\ answer'[q] = answer[q]
    BY <1>6 DEF FinishParse, TypeOK
  <2>2. QED
    BY <2>1
<1>7. ASSUME NEW r \in Run, PutBlob(r) \/ PutEntry(r) PROVE Goal
  <2>1. /\ UNCHANGED <<fetched, outcome, answer>>
        /\ pc'[r] # "fetch"
        /\ \A q \in Run : q # r => pc'[q] = pc[q]
    BY <1>7 DEF PutBlob, PutEntry, TypeOK
  <2>2. /\ blobs \subseteq blobs'
        /\ entries' = entries \/ PutEntry(r)
    BY <1>7 DEF PutBlob, PutEntry
  <2>3. QED
    BY <2>1, <2>2
<1>8. ASSUME NEW f \in File, Edit(f) PROVE Goal
  BY <1>8 DEF Edit
<1>9. ASSUME NEW c, ExportCatalog(c) PROVE Goal
  BY <1>9 DEF ExportCatalog
<1>10. Goal
  BY <1>1, <1>2, <1>3, <1>4, <1>5, <1>6, <1>7, <1>8, <1>9 DEF Next, Step, vars
<1>11. QED
  BY <1>10

LEMMA ByKept ==
    ASSUME TypeOK, OutcomeInv, [Next]_vars,
           NEW q \in Run, NEW k, NEW b, By(q, k, b)
    PROVE  By(q, k, b)'
  BY Settled DEF By

LEMMA EntryAuthorStep ==
    ASSUME TypeOK, OutcomeInv, EntryAuthor, [Next]_vars
    PROVE  EntryAuthor'
<1> SUFFICES ASSUME NEW e \in entries' PROVE \E q \in Run : By(q, e.key, e.digest)'
  BY DEF EntryAuthor
<1>1. CASE e \in entries
  <2>1. PICK q \in Run : By(q, e.key, e.digest)
    BY <1>1 DEF EntryAuthor
  <2>2. QED
    BY <2>1, ByKept
<1>2. CASE e \notin entries
  <2>1. PICK r \in Run : PutEntry(r)
    BY <1>2, Writers
  <2>2. e = [key |-> KeyOf(r), digest |-> Stored(r)]
    BY <1>2, <2>1 DEF PutEntry
  <2>3. outcome[r] = "miss"
    BY <2>1 DEF PutEntry, Goto, OutcomeInv
  <2>4. By(r, e.key, e.digest)
    BY <2>2, <2>3 DEF By
  <2>5. QED
    BY <2>4, ByKept
<1>3. QED
  BY <1>1, <1>2

LEMMA FetchAuthorStep ==
    ASSUME TypeOK, OutcomeInv, EntryAuthor, FetchAuthor, [Next]_vars
    PROVE  FetchAuthor'
<1> SUFFICES ASSUME NEW r \in Run, pc'[r] = "fetch", NEW b \in fetched'[r]
             PROVE  \E q \in Run : By(q, KeyOf(r), b)'
  BY DEF FetchAuthor
<1>1. PICK q \in Run : By(q, KeyOf(r), b)
  <2>1. CASE LookupEntry(r)
    <3>1. PICK e \in entries : e.key = KeyOf(r) /\ e.digest = b
      BY <2>1 DEF LookupEntry, TypeOK
    <3>2. QED
      BY <3>1 DEF EntryAuthor
  <2>2. CASE pc[r] = "fetch" /\ fetched'[r] = fetched[r]
    BY <2>2 DEF FetchAuthor
  <2>3. QED
    BY <2>1, <2>2, Writers
<1>2. pc[r] \notin {"start", "hash"}
  BY Writers DEF LookupEntry, Goto
<1>3. KeyOf(r)' = KeyOf(r)
  BY <1>2, KeyKept
<1>4. outcome'[q] = "miss" /\ KeyOf(q)' = KeyOf(q) /\ Stored(q)' = Stored(q)
  BY <1>1, Settled DEF By
<1>5. QED
  BY <1>1, <1>3, <1>4 DEF By

LEMMA HitAuthorStep ==
    ASSUME TypeOK, OutcomeInv, FetchAuthor, HitAuthor, [Next]_vars
    PROVE  HitAuthor'
<1> SUFFICES ASSUME NEW r \in Run, outcome'[r] = "hit"
             PROVE  \E q \in Run, b \in answer'[r] :
                       /\ outcome'[q] = "miss" /\ KeyOf(q)' = KeyOf(r)'
                       /\ b.source = Stored(q).source' /\ b.setting = Stored(q).setting'
                       /\ b.graph = Stored(q).graph' /\ b.catalog = catalog'[r]
  BY DEF HitAuthor
<1>1. PICK q \in Run, b \in answer'[r] :
           /\ outcome[q] = "miss" /\ KeyOf(q) = KeyOf(r)
           /\ b.source = Stored(q).source /\ b.setting = Stored(q).setting
           /\ b.graph = Stored(q).graph /\ b.catalog = catalog[r]
  <2>1. CASE FetchBlob(r)
    <3>1. PICK d \in fetched[r] \cap blobs :
                 answer' = [answer EXCEPT ![r] = {[d EXCEPT !.catalog = catalog[r]]}]
      BY <2>1 DEF FetchBlob
    <3>2. PICK q \in Run : By(q, KeyOf(r), d)
      BY <2>1, <3>1 DEF FetchBlob, Goto, FetchAuthor
    <3> DEFINE b == [d EXCEPT !.catalog = catalog[r]]
    <3>3. b \in answer'[r]
      BY <3>1 DEF TypeOK
    <3>4. d \in Body
      BY DEF TypeOK
    <3>5. /\ b.source = d.source /\ b.setting = d.setting
          /\ b.graph = d.graph /\ b.catalog = catalog[r]
      BY <3>4 DEF Body
    <3>6. QED
      BY <3>2, <3>3, <3>5 DEF By
  <2>2. CASE outcome[r] = "hit" /\ answer'[r] = answer[r]
    BY <2>2 DEF HitAuthor
  <2>3. QED
    BY <2>1, <2>2, Writers
<1>2. pc[r] \notin {"start", "hash"}
  BY Writers DEF FetchBlob, Goto, OutcomeInv
<1>3. KeyOf(r)' = KeyOf(r) /\ catalog'[r] = catalog[r]
  BY <1>2, KeyKept
<1>4. outcome'[q] = "miss" /\ KeyOf(q)' = KeyOf(q) /\ Stored(q)' = Stored(q)
  BY <1>1, Settled
<1>5. QED
  BY <1>1, <1>3, <1>4

-----------------------------------------------------------------------------
(* One read adds the file as it is now.                                    *)
LEMMA HashReads ==
    ASSUME TypeOK, NEW r \in Run, HashFile(r)
    PROVE  \E f \in ToHash(r) \cap DOMAIN tree :
              /\ DOMAIN hashed'[r] = DOMAIN hashed[r] \cup {f}
              /\ hashed'[r][f] = tree[f]
              /\ \A g \in DOMAIN hashed[r] : g # f => hashed'[r][g] = hashed[r][g]
              /\ \A q \in Run : q # r => hashed'[q] = hashed[q]
<1>1. PICK f \in ToHash(r) \cap DOMAIN tree : hashed' = [hashed EXCEPT ![r] = Reads(@, f)]
  BY DEF HashFile, IsFirst
<1>2. /\ hashed'[r] = Reads(hashed[r], f)
      /\ \A q \in Run : q # r => hashed'[q] = hashed[q]
  BY <1>1 DEF TypeOK
<1>3. hashed[r] \in Tree /\ tree \in Tree
  BY DEF TypeOK
<1>4. /\ DOMAIN Reads(hashed[r], f) = DOMAIN hashed[r] \cup {f}
      /\ Reads(hashed[r], f)[f] = tree[f]
      /\ \A g \in DOMAIN hashed[r] : g # f => Reads(hashed[r], f)[g] = hashed[r][g]
  BY <1>3, ReadsTyped
<1>5. /\ DOMAIN hashed'[r] = DOMAIN hashed[r] \cup {f}
      /\ hashed'[r][f] = tree[f]
      /\ \A g \in DOMAIN hashed[r] : g # f => hashed'[r][g] = hashed[r][g]
  BY <1>2, <1>4
<1>6. QED
  BY <1>2, <1>5

(* So does the read for the parser.                                         *)
LEMMA ParseReads ==
    ASSUME TypeOK, NEW r \in Run, ParseFile(r)
    PROVE  \E f \in ToParse(r) \cap DOMAIN tree :
              /\ DOMAIN parsed'[r] = DOMAIN parsed[r] \cup {f}
              /\ parsed'[r][f] = tree[f]
              /\ \A g \in DOMAIN parsed[r] : g # f => parsed'[r][g] = parsed[r][g]
              /\ \A q \in Run : q # r => parsed'[q] = parsed[q]
<1>1. PICK f \in ToParse(r) \cap DOMAIN tree : parsed' = [parsed EXCEPT ![r] = Reads(@, f)]
  BY DEF ParseFile, IsFirst
<1>2. /\ parsed'[r] = Reads(parsed[r], f)
      /\ \A q \in Run : q # r => parsed'[q] = parsed[q]
  BY <1>1 DEF TypeOK
<1>3. parsed[r] \in Tree /\ tree \in Tree
  BY DEF TypeOK
<1>4. /\ DOMAIN Reads(parsed[r], f) = DOMAIN parsed[r] \cup {f}
      /\ Reads(parsed[r], f)[f] = tree[f]
      /\ \A g \in DOMAIN parsed[r] : g # f => Reads(parsed[r], f)[g] = parsed[r][g]
  BY <1>3, ReadsTyped
<1>5. /\ DOMAIN parsed'[r] = DOMAIN parsed[r] \cup {f}
      /\ parsed'[r][f] = tree[f]
      /\ \A g \in DOMAIN parsed[r] : g # f => parsed'[r][g] = parsed[r][g]
  BY <1>2, <1>4
<1>6. QED
  BY <1>2, <1>5

LEMMA OrderStep ==
    ASSUME TypeOK, OrderInv, [Next]_vars
    PROVE  OrderInv'
<1> USE DEF Goto, given, reads, result, world, store, OrderInv
<1>1. ASSUME NEW r \in Run, LoadCatalog(r) PROVE OrderInv'
  BY <1>1 DEF LoadCatalog, TypeOK
<1>2. ASSUME NEW r \in Run, Discover(r) PROVE OrderInv'
  BY <1>2 DEF Discover, TypeOK
<1>3. ASSUME NEW r \in Run, DiscoverFails(r) \/ NoCache(r) \/ LookupFails(r) \/ ParseFails(r)
                            \/ PutBlob(r) \/ PutEntry(r) \/ PutFails(r) \/ Die(r)
      PROVE  OrderInv'
  BY <1>3 DEF DiscoverFails, NoCache, LookupFails, ParseFails, PutBlob, PutEntry, PutFails,
              Die, TypeOK
<1>4. ASSUME NEW r \in Run, HashFile(r) PROVE OrderInv'
  <2>1. PICK f \in ToHash(r) : /\ DOMAIN hashed'[r] = DOMAIN hashed[r] \cup {f}
                              /\ \A q \in Run : q # r => hashed'[q] = hashed[q]
    BY <1>4, HashReads
  <2>2. QED
    BY <1>4, <2>1 DEF HashFile, ToHash, TypeOK
<1>5. ASSUME NEW r \in Run, OpenStore(r) PROVE OrderInv'
  BY <1>5 DEF OpenStore, ToHash, TypeOK
<1>6. ASSUME NEW r \in Run, LookupEntry(r) PROVE OrderInv'
  BY <1>6 DEF LookupEntry, TypeOK
<1>7. ASSUME NEW r \in Run, FetchBlob(r) \/ FinishParse(r) PROVE OrderInv'
  BY <1>7 DEF FetchBlob, FinishParse, TypeOK
<1>8. ASSUME NEW r \in Run, ParseFile(r) PROVE OrderInv'
  <2>1. PICK f \in ToParse(r) : /\ DOMAIN parsed'[r] = DOMAIN parsed[r] \cup {f}
                              /\ \A q \in Run : q # r => parsed'[q] = parsed[q]
    BY <1>8, ParseReads
  <2>2. QED
    BY <1>8, <2>1 DEF ParseFile, ToParse, TypeOK
<1>9. ASSUME NEW f \in File, Edit(f) PROVE OrderInv'
  BY <1>9 DEF Edit
<1>10. ASSUME NEW c, ExportCatalog(c) PROVE OrderInv'
  BY <1>10 DEF ExportCatalog
<1>11. CASE UNCHANGED vars
  BY <1>11 DEF vars
<1>12. QED
  BY <1>1, <1>2, <1>3, <1>4, <1>5, <1>6, <1>7, <1>8, <1>9, <1>10, <1>11 DEF Next, Step

(* An edit either leaves a file alone that a run still agrees on or is     *)
(* noticed as one that overtakes the run.                                  *)
LEMMA EditTracked ==
    ASSUME TypeOK, TrackInv, NEW f \in File, Edit(f)
    PROVE  TrackInv'
<1> SUFFICES ASSUME NEW r \in Run, pc'[r] \in Reading, ~raced'[r],
                    NEW g \in DOMAIN hashed'[r] \cap Parsed
             PROVE  IF g \in DOMAIN parsed'[r] THEN parsed'[r][g] = hashed'[r][g]
                    ELSE g \in DOMAIN tree' /\ tree'[g] = hashed'[r][g]
  BY DEF TrackInv, Agrees
<1>1. UNCHANGED <<pc, hashed, parsed>> /\ raced' = Races(f)
  BY DEF Edit, given
<1>2. /\ pc[r] \in Reading /\ ~raced[r]
      /\ f \notin (DOMAIN hashed[r] \cap Parsed) \ DOMAIN parsed[r]
  BY <1>1 DEF Races
<1>3. IF g \in DOMAIN parsed[r] THEN parsed[r][g] = hashed[r][g]
      ELSE g \in DOMAIN tree /\ tree[g] = hashed[r][g]
  BY <1>1, <1>2 DEF TrackInv, Agrees
<1>4. CASE g \in DOMAIN parsed[r]
  BY <1>1, <1>3, <1>4
<1>5. CASE g \notin DOMAIN parsed[r]
  <2>1. g # f /\ g \in DOMAIN tree /\ tree[g] = hashed[r][g]
    BY <1>1, <1>2, <1>3, <1>5
  <2>2. g \in DOMAIN tree' /\ tree'[g] = tree[g]
    BY <2>1 DEF Edit
  <2>3. QED
    BY <1>1, <1>5, <2>1, <2>2
<1>6. QED
  BY <1>4, <1>5

LEMMA TrackStep ==
    ASSUME TypeOK, OrderInv, TrackInv, [Next]_vars
    PROVE  TrackInv'
<1> USE DEF Goto, given, reads, result, world, store, Reading, TrackInv, Agrees
<1>1. ASSUME NEW r \in Run, LoadCatalog(r) PROVE TrackInv'
  BY <1>1 DEF LoadCatalog, TypeOK
<1>2. ASSUME NEW r \in Run, Discover(r) PROVE TrackInv'
  BY <1>2 DEF Discover, OrderInv, TypeOK
<1>3. ASSUME NEW r \in Run, DiscoverFails(r) \/ NoCache(r) \/ LookupFails(r) \/ ParseFails(r)
                            \/ PutBlob(r) \/ PutEntry(r) \/ PutFails(r) \/ Die(r)
      PROVE  TrackInv'
  BY <1>3 DEF DiscoverFails, NoCache, LookupFails, ParseFails, PutBlob, PutEntry, PutFails,
              Die, TypeOK
<1>4. ASSUME NEW r \in Run, HashFile(r) PROVE TrackInv'
  <2>1. PICK f \in ToHash(r) \cap DOMAIN tree :
              /\ DOMAIN hashed'[r] = DOMAIN hashed[r] \cup {f}
              /\ hashed'[r][f] = tree[f]
              /\ \A g \in DOMAIN hashed[r] : g # f => hashed'[r][g] = hashed[r][g]
              /\ \A q \in Run : q # r => hashed'[q] = hashed[q]
    BY <1>4, HashReads
  <2>2. DOMAIN parsed[r] = {}
    BY <1>4 DEF HashFile, OrderInv
  <2>3. QED
    BY <1>4, <2>1, <2>2 DEF HashFile, TypeOK
<1>5. ASSUME NEW r \in Run, OpenStore(r) PROVE TrackInv'
  BY <1>5 DEF OpenStore, TypeOK
<1>6. ASSUME NEW r \in Run, LookupEntry(r) PROVE TrackInv'
  BY <1>6 DEF LookupEntry, TypeOK
<1>7. ASSUME NEW r \in Run, FetchBlob(r) \/ FinishParse(r) PROVE TrackInv'
  BY <1>7 DEF FetchBlob, FinishParse, TypeOK
<1>8. ASSUME NEW r \in Run, ParseFile(r) PROVE TrackInv'
  <2>1. PICK f \in ToParse(r) \cap DOMAIN tree :
              /\ DOMAIN parsed'[r] = DOMAIN parsed[r] \cup {f}
              /\ parsed'[r][f] = tree[f]
              /\ \A g \in DOMAIN parsed[r] : g # f => parsed'[r][g] = parsed[r][g]
              /\ \A q \in Run : q # r => parsed'[q] = parsed[q]
    BY <1>8, ParseReads
  <2>2. f \notin DOMAIN parsed[r]
    BY DEF ToParse
  <2>3. QED
    BY <1>8, <2>1, <2>2 DEF ParseFile, TypeOK
<1>9. ASSUME NEW f \in File, Edit(f) PROVE TrackInv'
  BY <1>9, EditTracked
<1>10. ASSUME NEW c, ExportCatalog(c) PROVE TrackInv'
  BY <1>10 DEF ExportCatalog
<1>11. CASE UNCHANGED vars
  BY <1>11 DEF vars
<1>12. QED
  BY <1>1, <1>2, <1>3, <1>4, <1>5, <1>6, <1>7, <1>8, <1>9, <1>10, <1>11 DEF Next, Step

(* A run that read all its files without being overtaken stores what its   *)
(* key was computed from.                                                  *)
LEMMA QuietStep ==
    ASSUME TypeOK, OutcomeInv, OrderInv, TrackInv, QuietInv, [Next]_vars
    PROVE  QuietInv'
<1> SUFFICES ASSUME NEW r \in Run, outcome'[r] = "miss", ~raced'[r]
             PROVE  parsed'[r] = Keyed(hashed'[r])
  BY DEF QuietInv
<1>1. CASE outcome[r] = "miss"
  BY <1>1, Settled DEF QuietInv
<1>2. CASE FinishParse(r)
  <2>1. /\ pc[r] = "parse" /\ ToParse(r) = {} /\ active[r]
        /\ UNCHANGED <<parsed, hashed, raced>>
    BY <1>2 DEF FinishParse, Goto, reads, TypeOK
  <2>2. DOMAIN parsed[r] = DOMAIN hashed[r] \cap Parsed
    BY <2>1 DEF OrderInv, ToParse
  <2>3. \A f \in DOMAIN parsed[r] : parsed[r][f] = hashed[r][f]
    BY <2>1, <2>2 DEF TrackInv, Agrees, Reading
  <2>4. parsed[r] = [f \in DOMAIN parsed[r] |-> parsed[r][f]]
    BY TreeShape DEF TypeOK
  <2>5. QED
    BY <2>1, <2>2, <2>3, <2>4 DEF Keyed
<1>3. CASE outcome[r] # "miss" /\ ~FinishParse(r)
  <2> USE DEF Goto, given, reads, result, world, store
  <2>1. ASSUME NEW q \in Run, Step(q) \/ Die(q) PROVE outcome'[r] = outcome[r] \/ outcome'[r] = "hit"
    <3>1. CASE outcome' = outcome
      BY <3>1
    <3>2. CASE FetchBlob(q) \/ FinishParse(q)
      BY <1>3, <3>2 DEF FetchBlob, FinishParse, TypeOK
    <3>3. QED
      BY <2>1, <3>1, <3>2
         DEF Step, LoadCatalog, Discover, DiscoverFails, HashFile, OpenStore, NoCache,
             LookupEntry, LookupFails, ParseFile, ParseFails, PutBlob, PutEntry, PutFails, Die
  <2>2. ASSUME NEW f \in File, Edit(f) PROVE outcome' = outcome
    BY <2>2 DEF Edit
  <2>3. ASSUME NEW c, ExportCatalog(c) PROVE outcome' = outcome
    BY <2>3 DEF ExportCatalog
  <2>4. QED
    BY <1>3, <2>1, <2>2, <2>3 DEF Next, vars
<1>4. QED
  BY <1>1, <1>2, <1>3

-----------------------------------------------------------------------------
LEMMA DigestsStep ==
    ASSUME TypeOK, OutcomeInv, DigestsHaveBlobs, [Next]_vars
    PROVE  DigestsHaveBlobs'
<1>1. \A e \in entries' : e.digest \in blobs'
  <2>1. CASE entries' = entries
    BY <2>1, Writers DEF DigestsHaveBlobs
  <2>2. ASSUME NEW r \in Run, PutEntry(r) PROVE \A e \in entries' : e.digest \in blobs'
    BY <2>2 DEF PutEntry, Goto, DigestsHaveBlobs
  <2>3. QED
    BY <2>1, <2>2, Writers
<1>2. ASSUME NEW r \in Run, pc'[r] = "fetch" PROVE fetched'[r] \subseteq blobs'
  <2>1. CASE LookupEntry(r)
    BY <2>1 DEF LookupEntry, store, DigestsHaveBlobs, TypeOK
  <2>2. CASE pc[r] = "fetch" /\ fetched'[r] = fetched[r]
    BY <2>2, Writers DEF DigestsHaveBlobs
  <2>3. QED
    BY <1>2, <2>1, <2>2, Writers
<1>3. ASSUME NEW r \in Run, pc'[r] = "entry" PROVE Stored(r)' \in blobs'
  <2>1. CASE pc[r] = "entry"
    <3>1. Stored(r)' = Stored(r)
      BY <2>1, Settled DEF OutcomeInv
    <3>2. QED
      BY <2>1, <3>1, Writers DEF DigestsHaveBlobs
  <2>2. CASE pc[r] # "entry"
    <3>1. PutBlob(r)
      <4> USE DEF Goto, given, reads, result, world, store
      <4>1. ASSUME NEW q \in Run, Step(q) \/ Die(q) PROVE PutBlob(r)
        <5>1. q = r
          BY <1>3, <2>2, <4>1
             DEF Step, LoadCatalog, Discover, DiscoverFails, HashFile, OpenStore, NoCache,
                 LookupEntry, FetchBlob, LookupFails, ParseFile, ParseFails, FinishParse,
                 PutBlob, PutEntry, PutFails, Die, TypeOK
        <5>2. QED
          BY <1>3, <2>2, <4>1, <5>1
             DEF Step, LoadCatalog, Discover, DiscoverFails, HashFile, OpenStore, NoCache,
                 LookupEntry, FetchBlob, LookupFails, ParseFile, ParseFails, FinishParse,
                 PutEntry, PutFails, Die, TypeOK
      <4>2. ASSUME NEW f \in File, Edit(f) PROVE PutBlob(r)
        BY <1>3, <2>2, <4>2 DEF Edit
      <4>3. ASSUME NEW c, ExportCatalog(c) PROVE PutBlob(r)
        BY <1>3, <2>2, <4>3 DEF ExportCatalog
      <4>4. QED
        BY <1>3, <2>2, <4>1, <4>2, <4>3 DEF Next, vars
    <3>2. Stored(r)' = Stored(r)
      BY <3>1 DEF PutBlob, given, reads, Stored
    <3>3. QED
      BY <3>1, <3>2 DEF PutBlob
  <2>3. QED
    BY <2>1, <2>2
<1>4. QED
  BY <1>1, <1>2, <1>3 DEF DigestsHaveBlobs

-----------------------------------------------------------------------------
LEMMA IInvInit == Init => IInv
<1> SUFFICES ASSUME Init PROVE IInv
  OBVIOUS
<1>1. TypeOK
  BY TypeInit
<1>2. OutcomeInv
  BY DEF Init, OutcomeInv
<1>3. AuthorInv
  BY DEF Init, AuthorInv, EntryAuthor, FetchAuthor, HitAuthor
<1>4. ReadInv
  BY DEF Init, ReadInv, OrderInv, TrackInv, QuietInv, Reading, NoFiles
<1>5. DigestsHaveBlobs
  BY DEF Init, DigestsHaveBlobs
<1>6. QED
  BY <1>1, <1>2, <1>3, <1>4, <1>5 DEF IInv

LEMMA IInvStep ==
    ASSUME IInv, [Next]_vars
    PROVE  IInv'
<1>1. TypeOK' /\ OutcomeInv'
  BY TypeStep, OutcomeStep DEF IInv
<1>2. AuthorInv'
  BY EntryAuthorStep, FetchAuthorStep, HitAuthorStep DEF IInv, AuthorInv
<1>3. ReadInv'
  BY OrderStep, TrackStep, QuietStep DEF IInv, ReadInv
<1>4. DigestsHaveBlobs'
  BY DigestsStep DEF IInv
<1>5. QED
  BY <1>1, <1>2, <1>3, <1>4 DEF IInv

LEMMA IInvAlways == Spec => []IInv
<1>1. IInv /\ [Next]_vars => IInv'
  BY IInvStep
<1>2. QED
  BY <1>1, IInvInit, PTL DEF Spec

(* The two transactions of put_cached and the two reads of get_cached may  *)
(* be cut apart by other processes and by deaths: a digest in an entry, or *)
(* in the hands of a reader or a writer, always has its blob.              *)
THEOREM BlobsAreThere == Spec => []DigestsHaveBlobs
  BY IInvAlways, PTL DEF IInv

(* No process ever gets a fragment of another profile, policy, layout or   *)
(* catalog than it asked for.                                              *)
THEOREM AnswersBelong == Spec => []AnswersItsRequest
<1>1. ASSUME IInv PROVE AnswersItsRequest
  <2> SUFFICES ASSUME NEW r \in Run, pc[r] = "done"
               PROVE  \E b \in answer[r] : /\ b.setting = req[r].setting
                                           /\ b.catalog = catalog[r]
                                           /\ outcome[r] # "hit" => b.graph
    BY DEF AnswersItsRequest
  <2>1. CASE outcome[r] = "hit"
    <3>1. PICK q \in Run, b \in answer[r] :
             /\ KeyOf(q) = KeyOf(r)
             /\ b.setting = Stored(q).setting /\ b.catalog = catalog[r]
      BY <1>1, <2>1 DEF IInv, AuthorInv, HitAuthor
    <3>2. req[q].setting = req[r].setting
      BY <3>1 DEF KeyOf
    <3>3. b.setting = req[r].setting
      BY <1>1, <3>1, <3>2, AnswerTyped DEF IInv
    <3>4. QED
      BY <2>1, <3>1, <3>3
  <2>2. CASE outcome[r] # "hit"
    <3>1. answer[r] = {Answer(r)}
      BY <1>1, <2>2 DEF IInv, OutcomeInv
    <3>2. QED
      BY <3>1 DEF Answer
  <2>3. QED
    BY <2>1, <2>2
<1>2. QED
  BY <1>1, IInvAlways, PTL

(* The cache is transparent up to what the two reads of a file can do: a   *)
(* hit says what its caller has just read, unless the run that stored it   *)
(* was overtaken by an edit between its own two reads.                     *)
THEOREM HitsBelong == Spec => []HitHasItsAuthor
<1>1. ASSUME IInv PROVE HitHasItsAuthor
  <2> SUFFICES ASSUME NEW r \in Run, outcome[r] = "hit"
               PROVE  \E b \in answer[r], q \in Run :
                         /\ q # r /\ outcome[q] = "miss" /\ KeyOf(q) = KeyOf(r)
                         /\ b.source = parsed[q]
                         /\ raced[q] \/ b.source = Keyed(hashed[r])
                         /\ b.graph = ~req[q].compact
    BY DEF HitHasItsAuthor
  <2>1. PICK q \in Run, b \in answer[r] :
           /\ outcome[q] = "miss" /\ KeyOf(q) = KeyOf(r)
           /\ b.source = Stored(q).source /\ b.graph = Stored(q).graph
    BY <1>1 DEF IInv, AuthorInv, HitAuthor
  <2>2. b.source = parsed[q] /\ b.graph = ~req[q].compact
    BY <1>1, <2>1, AnswerTyped DEF IInv
  <2>3. hashed[q] = hashed[r]
    BY <2>1 DEF KeyOf
  <2>4. raced[q] \/ parsed[q] = Keyed(hashed[q])
    BY <1>1, <2>1 DEF IInv, ReadInv, QuietInv
  <2>5. q # r
    BY <2>1
  <2>6. QED
    BY <2>1, <2>2, <2>3, <2>4, <2>5
<1>2. QED
  BY <1>1, IInvAlways, PTL

(* Processes that race to store the same key agree, and no entry is ever   *)
(* lost.                                                                   *)
THEOREM RebindingsAgree == Spec => RebindingAgrees
<1> DEFINE Agree == \A e \in entries : \E n \in entries' :
                      /\ n.key = e.key
                      /\ \/ n.digest.source = e.digest.source
                         \/ \E q \in Run : raced[q] /\ KeyOf(q) = e.key
<1>1. ASSUME IInv, [Next]_vars PROVE Agree
  <2> SUFFICES ASSUME NEW e \in entries
               PROVE  \E n \in entries' :
                         /\ n.key = e.key
                         /\ \/ n.digest.source = e.digest.source
                            \/ \E q \in Run : raced[q] /\ KeyOf(q) = e.key
    OBVIOUS
  <2>1. CASE entries' = entries
    BY <2>1
  <2>2. ASSUME NEW r \in Run, PutEntry(r), e.key = KeyOf(r)
        PROVE  \E n \in entries' :
                  /\ n.key = e.key
                  /\ \/ n.digest.source = e.digest.source
                     \/ \E q \in Run : raced[q] /\ KeyOf(q) = e.key
    <3> DEFINE n == [key |-> KeyOf(r), digest |-> Stored(r)]
    <3>1. n \in entries' /\ n.key = e.key /\ n.digest.source = parsed[r]
      BY <1>1, <2>2, AnswerTyped DEF PutEntry, IInv
    <3>2. PICK q \in Run : By(q, e.key, e.digest)
      BY <1>1 DEF IInv, AuthorInv, EntryAuthor
    <3>3. e.digest.source = parsed[q]
      BY <1>1, <3>2, AnswerTyped DEF By, IInv
    <3>4. outcome[r] = "miss" /\ outcome[q] = "miss" /\ KeyOf(q) = KeyOf(r)
      BY <1>1, <2>2, <3>2 DEF PutEntry, Goto, By, IInv, OutcomeInv
    <3>5. hashed[q] = hashed[r]
      BY <3>4 DEF KeyOf
    <3>6. raced[q] \/ raced[r] \/ parsed[q] = parsed[r]
      BY <1>1, <3>4, <3>5 DEF IInv, ReadInv, QuietInv
    <3>7. QED
      BY <2>2, <3>1, <3>3, <3>4, <3>6
  <2>3. ASSUME NEW r \in Run, PutEntry(r), e.key # KeyOf(r)
        PROVE  e \in entries'
    BY <2>3 DEF PutEntry
  <2>4. QED
    BY <1>1, <2>1, <2>2, <2>3, Writers DEF IInv
<1>2. IInv /\ [Next]_vars => [Agree]_vars
  BY <1>1
<1>3. QED
  BY <1>2, IInvAlways, PTL DEF Spec, RebindingAgrees
=============================================================================
