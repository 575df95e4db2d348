----------------------------- MODULE IngestQueue -----------------------------
(***************************************************************************)
(* The ingest queue of the wiki desktop, class IngestPipeline of           *)
(* apps/wiki-desktop/src/ingest-pipeline.mjs.  HTTP handlers enqueue,      *)
(* retry, cancel and clear tasks and delete sources while processNext      *)
(* ingests one task; everything interleaves where the code awaits a file.  *)
(* The process may end anywhere and start again from its files.            *)
(*                                                                         *)
(* `kicks' counts the calls of processNext that are due: the handler's     *)
(* after its save of the queue, and the timer at the end of an ingest.     *)
(* Other routes of server.mjs write pages and rebuild the index too.       *)
(* Entity and concept pages are one kind of page.  index.md and overview.md*)
(* are written from one listing and are one file here; the review items    *)
(* are left out.  A page is written in place: from the opening of the file *)
(* to the end of the write it lists nothing, and that is how a write that  *)
(* fails, or the end of the process, leaves it.                            *)
(***************************************************************************)
EXTENDS Integers, FiniteSets

CONSTANTS
  Upload,           \* files as uploaded: a name with a content
  File, file,       \* file[u]: its name
  slugify,          \* slugify[f]: the name of its source page, which is a name too
  parsed,           \* parsed[f]: the names that f, listed in a frontmatter, is read back as
  Hash, hash,       \* hash[u]: the digest of its content
  Page, generates,  \* generates[u]: the pages its analysis yields
  links,            \* pages whose body links to a source or page that may go
  AutoRetries,      \* failures after which a task is tried again; 3 in the code
  written,          \* what a page may list that another route writes
  MaxTasks,         \* bound: tasks enqueued
  MaxEvents,        \* bound: retries, cancels, clears and deletions that are asked for,
                    \*   writes of other routes, failures, and ends of the process,
                    \*   taken together
  MaxEdits          \* bound: those of them that are writes of other routes

ASSUME UploadAssumption ==
  /\ file \in [Upload -> File] /\ hash \in [Upload -> Hash]
  /\ generates \in [Upload -> SUBSET Page] /\ links \subseteq Page
  /\ written \subseteq SUBSET File
\* A name with a comma is read back as its parts, and a part as itself.
ASSUME NameAssumption ==
  /\ slugify \in [File -> File] /\ parsed \in [File -> SUBSET File]
  /\ \A f \in File : \A g \in parsed[f] : parsed[g] = {g}
ASSUME BoundAssumption ==
  AutoRetries \in Nat /\ MaxTasks \in Nat /\ MaxEvents \in Nat /\ MaxEdits \in Nat

VARIABLES
  queue,        \* the tasks by id; ids grow, so a smaller one is further ahead
  kicks,        \* calls of processNext that are due
  run,          \* the ingest in progress; isProcessing unless idle
  del,          \* the deletion in progress
  edit,         \* the write of another route in progress
  summaries,    \* source pages, by the name of their file
  pages,        \* pages there are
  sources,      \* per page, the sources its frontmatter lists
  index,        \* what index.md and overview.md list
  cache,        \* hash -> file
  disk,         \* the copies of the queue and of the cache on disk
  spoiled,      \* history: files that were not only written by ingests, or left half written
  used          \* how often each of what is bounded happened

files == <<pages, sources>>
wiki == <<summaries, files, index, cache, spoiled>>
vars == <<queue, kicks, run, del, edit, wiki, disk, used>>

Pending == {id \in DOMAIN queue : queue[id].status = "pending"}
Idle == [at |-> "idle"]
Has(id) == id \in DOMAIN queue
Spend(what) == used' = [used EXCEPT ![what] = @ + 1]
May(n) == used.asks + used.deletes + used.edits + used.faults + used.stops + n <= MaxEvents

\* Assignments through a task object: they reach the queue if it is in there.
SetStatus(id, status) ==
  queue' = IF Has(id) THEN [queue EXCEPT ![id].status = status] ELSE queue
Keep(ids) == queue' = [id \in ids |-> queue[id]]

\* saveQueue succeeded.
saveQueue == disk' = [disk EXCEPT !.queue = queue']

\* The end of a handler: the queue is saved and processNext called, or the
\* save fails and the handler ends there.
Saved(what) == saveQueue /\ kicks' = kicks + 1 /\ Spend(what)
Unsaved(what) ==
  /\ used' = [used EXCEPT ![what] = @ + 1, !.stops = @ + 1]
  /\ UNCHANGED <<kicks, disk>>

\* parseFrontmatter of what serializeFrontmatter wrote: the sources that a
\* page is read to list.
parseFrontmatter(p) == UNION {parsed[f] : f \in sources[p]}

\* fs.writeFile, once the file is open and empty, and once it is written: to
\* no page, if it was unlinked between.
Open(p) == pages' = pages \cup {p} /\ sources' = [sources EXCEPT ![p] = {}]
Fill(p, names) ==
  /\ sources' = IF p \in pages THEN [sources EXCEPT ![p] = names] ELSE sources
  /\ UNCHANGED pages

\* rebuildIndexAndOverview: what is listed, and later written.  Of an index
\* that is half written nothing is said; an empty one stands for it.
Listing == [pages |-> pages, sources |-> summaries]
Blank == [pages |-> {}, sources |-> {}]
SpoilPage(p) == spoiled' = [spoiled EXCEPT !.pages = @ \cup {p}]
SpoilIndex == spoiled' = [spoiled EXCEPT !.index = TRUE]
HalfWritten == index' = Blank /\ SpoilIndex

-----------------------------------------------------------------------------
(* Handlers of the queue. *)

CacheHit(u) == hash[u] \in DOMAIN cache

Add(id, u) ==
  queue' = [i \in DOMAIN queue \cup {id} |->
              IF i = id THEN [upload |-> u, status |-> "pending", retries |-> 0] ELSE queue[i]]

\* Variant: a task is numbered among the pending ones.
EnqueueNumbered(u) ==
  /\ ~CacheHit(u) /\ used.tasks < MaxTasks
  /\ Add(Cardinality(Pending), u)
  /\ Saved("tasks")
  /\ UNCHANGED <<run, del, edit, wiki>>

\* enqueueFile, unless the cache knows the content.
Enqueue(u) ==
  /\ ~CacheHit(u) /\ used.tasks < MaxTasks
  /\ Add(used.tasks, u)
  /\ Saved("tasks") \/ (May(1) /\ Unsaved("tasks"))
  /\ UNCHANGED <<run, del, edit, wiki>>

\* Variant: the call of processNext after the save is left out.
RetryTaskSilently(id) ==
  /\ Has(id) /\ May(1)
  /\ SetStatus(id, "pending")
  /\ saveQueue /\ Spend("asks")
  /\ UNCHANGED <<kicks, run, del, edit, wiki>>

\* retryTask: any task may be asked for, in any status.
RetryTask(id) ==
  /\ Has(id) /\ May(1)
  /\ SetStatus(id, "pending")
  /\ Saved("asks") \/ (May(2) /\ Unsaved("asks"))
  /\ UNCHANGED <<run, del, edit, wiki>>

\* A handler that calls nothing after its save.
Quietly ==
  /\ \/ May(1) /\ saveQueue /\ Spend("asks") /\ UNCHANGED kicks
     \/ May(2) /\ Unsaved("asks")
  /\ UNCHANGED <<run, del, edit, wiki>>

\* cancelTask marks the task that is being ingested, and removes any other.
CancelTask(id) ==
  /\ Has(id)
  /\ IF queue[id].status = "processing"
     THEN SetStatus(id, "cancelled")
     ELSE Keep(DOMAIN queue \ {id})
  /\ Quietly

Unfinished == {id \in DOMAIN queue : queue[id].status \in {"pending", "processing"}}

ClearCompleted ==
  /\ Unfinished # DOMAIN queue /\ Keep(Unfinished)
  /\ Quietly

-----------------------------------------------------------------------------
(* processNext and executeTwoStepIngest. *)

\* Variant: the test of isProcessing is missing.
MayStartAnyway == Pending # {}

MayStart == run.at = "idle" /\ Pending # {}

\* processNext up to its first await: the oldest pending task is taken.
Start ==
  /\ kicks > 0 /\ MayStart
  /\ \E id \in Pending :
       /\ \A i \in Pending : id <= i
       /\ SetStatus(id, "processing")
       /\ run' = [at |-> "analysis", id |-> id, upload |-> queue[id].upload]
  /\ kicks' = kicks - 1
  /\ saveQueue
  /\ UNCHANGED <<del, edit, wiki, used>>

\* processNext when an ingest is in progress, or nothing is pending.
NothingToStart ==
  /\ kicks > 0 /\ ~MayStart
  /\ kicks' = kicks - 1
  /\ UNCHANGED <<queue, run, del, edit, wiki, disk, used>>

\* The source summary is written.
WriteSummary ==
  /\ run.at = "analysis"
  /\ summaries' = summaries \cup {slugify[file[run.upload]]}
  /\ run' = [at |-> "pages", id |-> run.id, upload |-> run.upload, todo |-> generates[run.upload]]
  /\ UNCHANGED <<queue, kicks, del, edit, files, index, cache, spoiled, used>>
  /\ saveQueue

\* A page is read for the sources it lists, and later written with one more.
ReadPage ==
  /\ run.at = "pages"
  /\ \E p \in run.todo :
       run' = [at |-> "page", id |-> run.id, upload |-> run.upload, todo |-> run.todo \ {p},
               page |-> p, read |-> parseFrontmatter(p)]
  /\ UNCHANGED <<queue, kicks, del, edit, wiki, disk, used>>

OpenPage ==
  /\ run.at = "page"
  /\ Open(run.page)
  /\ run' = [run EXCEPT !.at = "opened"]
  /\ UNCHANGED <<queue, kicks, del, edit, summaries, index, cache, disk, spoiled, used>>

WritePage ==
  /\ run.at = "opened"
  /\ Fill(run.page, run.read \cup {file[run.upload]})
  /\ run' = [at |-> "pages", id |-> run.id, upload |-> run.upload, todo |-> run.todo]
  /\ UNCHANGED <<queue, kicks, del, edit, summaries, index, cache, disk, spoiled, used>>

\* The directories are read, then the index is written.
ListPages ==
  /\ run.at = "pages" /\ run.todo = {}
  /\ run' = [at |-> "listed", id |-> run.id, upload |-> run.upload, listing |-> Listing]
  /\ UNCHANGED <<queue, kicks, del, edit, wiki, used>>
  /\ saveQueue

WriteIndex ==
  /\ run.at = "listed"
  /\ index' = run.listing
  /\ run' = [at |-> "indexed", id |-> run.id, upload |-> run.upload]
  /\ UNCHANGED <<queue, kicks, del, edit, summaries, files, cache, disk, spoiled, used>>

Learn(u) ==
  /\ cache' = [h \in DOMAIN cache \cup {hash[u]} |-> IF h = hash[u] THEN file[u] ELSE cache[h]]
  /\ run' = [at |-> "saving", id |-> run.id, upload |-> run.upload]
  /\ UNCHANGED <<queue, kicks, del, edit, summaries, files, index, disk, spoiled, used>>

\* Variant: the cache learns the content before the pages are written.
RecordCacheEarly == run.at = "pages" /\ Learn(run.upload)

\* The cache learns the content; its file is saved while the ingest waits.
RecordCache == run.at = "indexed" /\ Learn(run.upload)

\* Variant: processNext sets no timer when it ends.
FinishWithoutTimer ==
  /\ run.at = "saving"
  /\ SetStatus(run.id, "done")
  /\ disk' = [queue |-> queue', cache |-> cache]
  /\ run' = Idle
  /\ UNCHANGED <<kicks, del, edit, wiki, used>>

\* The end of processNext: the status is assigned whatever it was meanwhile.
Finish ==
  /\ run.at = "saving"
  /\ SetStatus(run.id, "done")
  /\ disk' = [queue |-> queue', cache |-> cache]
  /\ run' = Idle
  /\ kicks' = kicks + 1
  /\ UNCHANGED <<del, edit, wiki, used>>

\* The page that the ingest was writing is left half written, and the index if
\* somebody was about to write it.
LeftOpen == IF run.at = "opened" THEN {run.page} ELSE {}
CutOff(points) ==
  \/ UNCHANGED index /\ spoiled' = [spoiled EXCEPT !.pages = @ \cup LeftOpen]
  \/ /\ "listed" \in points /\ index' = Blank
     /\ spoiled' = [spoiled EXCEPT !.pages = @ \cup LeftOpen, !.index = TRUE]

\* An await of the ingest fails: the first times the task is pending again.
Fail ==
  /\ run.at # "idle" /\ May(1)
  /\ queue' = IF ~Has(run.id) THEN queue
              ELSE [queue EXCEPT ![run.id].retries = @ + 1,
                                 ![run.id].status = IF queue[run.id].retries < AutoRetries
                                                    THEN "pending" ELSE "failed"]
  /\ saveQueue
  /\ CutOff({run.at})
  /\ run' = Idle
  /\ kicks' = kicks + 1
  /\ Spend("faults")
  /\ UNCHANGED <<del, edit, summaries, files, cache>>

-----------------------------------------------------------------------------
(* cascadeDeleteSource. *)

\* The source page is unlinked, then the pages that exist are listed.
Delete(f) ==
  /\ del.at = "idle" /\ May(1)
  /\ summaries' = summaries \ {slugify[f]}
  /\ spoiled' = [spoiled EXCEPT !.sources = @ \cup {slugify[f]}]
  /\ del' = [at |-> "list", file |-> f]
  /\ Spend("deletes")
  /\ UNCHANGED <<queue, kicks, run, edit, files, index, cache, disk>>

List ==
  /\ del.at = "list"
  /\ del' = [at |-> "scan", file |-> del.file, todo |-> pages]
  /\ UNCHANGED <<queue, kicks, run, edit, wiki, disk, used>>

ScanRead ==
  /\ del.at = "scan"
  /\ \E p \in del.todo :
       del' = [at |-> "scanned", file |-> del.file, todo |-> del.todo \ {p},
               page |-> p, read |-> parseFrontmatter(p)]
  /\ UNCHANGED <<queue, kicks, run, edit, wiki, disk, used>>

Names(f) == {f, slugify[f]}
Rest == del.read \ Names(del.file)
ScanNext == del' = [at |-> "scan", file |-> del.file, todo |-> del.todo]

\* A page that lists the source, by its name or its slug, is unlinked if it
\* lists nothing else, ...
ScanWrite ==
  /\ del.at = "scanned" /\ del.read # Rest
  /\ \/ /\ Rest = {} /\ ScanNext
        /\ pages' = pages \ {del.page} /\ sources' = [sources EXCEPT ![del.page] = {}]
     \/ /\ Rest # {} /\ Open(del.page)
        /\ del' = [at |-> "opened", file |-> del.file, todo |-> del.todo, page |-> del.page,
                   read |-> Rest, next |-> "scan"]
  /\ SpoilPage(del.page)
  /\ UNCHANGED <<queue, kicks, run, edit, summaries, index, cache, disk, used>>

\* ... and rewritten without it otherwise; a page that does not list it is left.
ScanLeave ==
  /\ del.at = "scanned" /\ del.read = Rest
  /\ ScanNext
  /\ UNCHANGED <<queue, kicks, run, edit, wiki, disk, used>>

DelFill ==
  /\ del.at = "opened"
  /\ Fill(del.page, del.read)
  /\ del' = [at |-> del.next, file |-> del.file, todo |-> del.todo]
  /\ UNCHANGED <<queue, kicks, run, edit, summaries, index, cache, disk, spoiled, used>>

\* Then the pages with dead links are read and written back as they are
\* otherwise; one that is empty when it is read has none.
Relink ==
  /\ del.at = "scan" /\ del.todo = {}
  /\ del' = [at |-> "relink", file |-> del.file, todo |-> pages \cap links]
  /\ UNCHANGED <<queue, kicks, run, edit, wiki, disk, used>>

RelinkRead ==
  /\ del.at = "relink"
  /\ \E p \in del.todo :
       del' = IF sources[p] = {} THEN [del EXCEPT !.todo = @ \ {p}]
              ELSE [at |-> "relinked", file |-> del.file, todo |-> del.todo \ {p},
                    page |-> p, read |-> sources[p]]
  /\ UNCHANGED <<queue, kicks, run, edit, wiki, disk, used>>

RelinkWrite ==
  /\ del.at = "relinked"
  /\ Open(del.page) /\ SpoilPage(del.page)
  /\ del' = [at |-> "opened", file |-> del.file, todo |-> del.todo, page |-> del.page,
             read |-> del.read, next |-> "relink"]
  /\ UNCHANGED <<queue, kicks, run, edit, summaries, index, cache, disk, used>>

\* ... the index is rebuilt, ...
ListRest ==
  /\ del.at = "relink" /\ del.todo = {}
  /\ del' = [at |-> "listed", file |-> del.file, listing |-> Listing]
  /\ UNCHANGED <<queue, kicks, run, edit, wiki, disk, used>>

\* ... and the cache forgets the contents of that file name.
Forgotten(f) == {h \in DOMAIN cache : cache[h] = f}
Forget ==
  /\ del.at = "listed"
  /\ index' = del.listing /\ SpoilIndex
  /\ cache' = [h \in DOMAIN cache \ Forgotten(del.file) |-> cache[h]]
  /\ \/ disk' = [disk EXCEPT !.cache = cache'] /\ UNCHANGED used
     \/ May(1) /\ Spend("faults") /\ UNCHANGED disk
  /\ del' = Idle
  /\ UNCHANGED <<queue, kicks, run, edit, summaries, files>>

\* An await of the deletion fails, and the rest is left.
DeletionFails ==
  /\ del.at # "idle" /\ May(1)
  /\ UNCHANGED <<index, spoiled>> \/ (del.at = "listed" /\ HalfWritten)
  /\ del' = Idle
  /\ Spend("faults")
  /\ UNCHANGED <<queue, kicks, run, edit, summaries, files, cache, disk>>

-----------------------------------------------------------------------------
(* Routes of server.mjs beside the queue. *)

\* research/start and a POST of wiki/file overwrite a page without reading it.
EditPage(p) ==
  /\ edit.at = "idle" /\ used.edits < MaxEdits /\ May(1)
  /\ Open(p) /\ SpoilPage(p)
  /\ \E names \in written : edit' = [at |-> "opened", page |-> p, names |-> names]
  /\ Spend("edits")
  /\ UNCHANGED <<queue, kicks, run, del, summaries, index, cache, disk>>

EditFill ==
  /\ edit.at = "opened"
  /\ Fill(edit.page, edit.names)
  /\ edit' = [at |-> "rebuild"]
  /\ UNCHANGED <<queue, kicks, run, del, summaries, index, cache, disk, spoiled, used>>

\* chat/save-to-wiki, template/apply, and a POST of wiki/file for a source
\* page, for the index itself or for a file that is nothing of all this.
EditOther ==
  /\ edit.at = "idle" /\ used.edits < MaxEdits /\ May(1)
  /\ \/ UNCHANGED <<summaries, index, spoiled>>
     \/ /\ \E f \in File : summaries' = summaries \cup {slugify[f]}
        /\ UNCHANGED <<index, spoiled>>
     \/ HalfWritten /\ UNCHANGED summaries
  /\ edit' = [at |-> "rebuild"]
  /\ Spend("edits")
  /\ UNCHANGED <<queue, kicks, run, del, files, cache, disk>>

\* All of them rebuild the index: the directories are read, ...
EditList ==
  /\ edit.at = "rebuild"
  /\ edit' = [at |-> "listed", listing |-> Listing]
  /\ UNCHANGED <<queue, kicks, run, del, wiki, disk, used>>

\* ... and the index is written, whatever was written since.
EditIndex ==
  /\ edit.at = "listed"
  /\ index' = edit.listing /\ SpoilIndex
  /\ edit' = Idle
  /\ UNCHANGED <<queue, kicks, run, del, summaries, files, cache, disk, used>>

\* An await of the route fails.
EditFails ==
  /\ edit.at # "idle" /\ May(1)
  /\ UNCHANGED <<index, spoiled>> \/ (edit.at = "listed" /\ HalfWritten)
  /\ edit' = Idle
  /\ Spend("faults")
  /\ UNCHANGED <<queue, kicks, run, del, summaries, files, cache, disk>>

-----------------------------------------------------------------------------
(* The end of the process, by a crash or because a save of processNext     *)
(* itself fails (nobody handles that rejection), and init.                 *)

Nothing == [x \in {} |-> x]

Reset(q) ==
  [id \in DOMAIN q |-> IF q[id].status = "processing" THEN [q[id] EXCEPT !.status = "pending"]
                       ELSE q[id]]

Restart ==
  /\ May(1)
  /\ queue' \in {Reset(disk.queue), Nothing}
  /\ cache' \in {disk.cache, IF run.at = "saving" THEN cache ELSE disk.cache, Nothing}
  /\ disk' = [queue |-> queue', cache |-> cache']
  /\ CutOff({run.at, del.at, edit.at})
  /\ run' = Idle /\ del' = Idle /\ edit' = Idle /\ kicks' = 0
  /\ Spend("stops")
  /\ UNCHANGED <<summaries, files>>

-----------------------------------------------------------------------------

Init ==
  /\ queue = Nothing /\ kicks = 0 /\ run = Idle /\ del = Idle /\ edit = Idle
  /\ summaries = {} /\ pages = {} /\ sources = [p \in Page |-> {}] /\ index = Blank
  /\ cache = Nothing /\ disk = [queue |-> Nothing, cache |-> Nothing]
  /\ spoiled = [pages |-> {}, sources |-> {}, index |-> FALSE]
  /\ used = [tasks |-> 0, asks |-> 0, deletes |-> 0, edits |-> 0, faults |-> 0, stops |-> 0]

Id == 0..(MaxTasks - 1)

Process ==
  \/ Start \/ NothingToStart \/ WriteSummary \/ ReadPage \/ OpenPage \/ WritePage
  \/ ListPages \/ WriteIndex \/ RecordCache \/ Finish
Cascade ==
  \/ List \/ ScanRead \/ ScanWrite \/ ScanLeave \/ DelFill
  \/ Relink \/ RelinkRead \/ RelinkWrite \/ ListRest \/ Forget
Route ==
  \/ \E p \in Page : EditPage(p)
  \/ EditFill \/ EditOther \/ EditList \/ EditIndex \/ EditFails

Next ==
  \/ \E u \in Upload : Enqueue(u)
  \/ \E id \in Id : RetryTask(id) \/ CancelTask(id)
  \/ ClearCompleted \/ Process \/ Fail
  \/ \E f \in File : Delete(f)
  \/ Cascade \/ DeletionFails
  \/ Route
  \/ Restart

\* The event loop runs what is due: the ingest, its timer, a deletion.
Spec == Init /\ [][Next]_vars /\ WF_vars(Process) /\ WF_vars(Cascade)

-----------------------------------------------------------------------------
(* Properties. *)

Status == {"pending", "processing", "cancelled", "done", "failed"}

TasksOK(q) ==
  /\ DOMAIN q \subseteq 0..(used.tasks - 1)
  /\ q \in [DOMAIN q -> [upload : Upload, status : Status, retries : 0..used.faults]]
CacheOK(c) == DOMAIN c \subseteq Hash /\ c \in [DOMAIN c -> File]
ListingOK(l) == l \in [pages : SUBSET Page, sources : SUBSET File]

RunOK ==
  \/ run = Idle
  \/ /\ run.at \in {"analysis", "pages", "page", "opened", "listed", "indexed", "saving"}
     /\ run.upload \in Upload /\ run.id \in 0..(used.tasks - 1)
     /\ Has(run.id) => queue[run.id].upload = run.upload
     /\ run.at \in {"pages", "page", "opened"} => run.todo \subseteq Page
     /\ run.at \in {"page", "opened"} => run.page \in Page /\ run.read \subseteq File
     /\ run.at = "listed" => ListingOK(run.listing)
DelOK ==
  \/ del = Idle
  \/ /\ del.at \in {"list", "scan", "scanned", "opened", "relink", "relinked", "listed"}
     /\ del.file \in File
     /\ del.at \notin {"list", "listed"} => del.todo \subseteq Page
     /\ del.at \in {"scanned", "opened", "relinked"} => del.page \in Page /\ del.read \subseteq File
     /\ del.at = "opened" => del.next \in {"scan", "relink"}
     /\ del.at = "listed" => ListingOK(del.listing)
EditOK ==
  \/ edit = Idle
  \/ edit = [at |-> "rebuild"]
  \/ edit.at = "opened" /\ edit.page \in Page /\ edit.names \subseteq File
  \/ edit.at = "listed" /\ ListingOK(edit.listing)
WikiOK ==
  /\ summaries \subseteq File /\ pages \subseteq Page /\ sources \in [Page -> SUBSET File]
  /\ \A p \in Page : sources[p] # {} => p \in pages
  /\ ListingOK(index)
  /\ spoiled \in [pages : SUBSET Page, sources : SUBSET File, index : BOOLEAN]

\* Tasks, pages and what is under way have the shape the code gives them, in
\* memory and on disk; no task takes the place of another.
TypeOK ==
  /\ TasksOK(queue) /\ TasksOK(disk.queue) /\ CacheOK(cache) /\ CacheOK(disk.cache)
  /\ disk = [queue |-> disk.queue, cache |-> disk.cache]
  /\ \A id \in DOMAIN queue \cap DOMAIN disk.queue : queue[id].upload = disk.queue[id].upload
  /\ kicks \in Nat
  /\ RunOK /\ DelOK /\ EditOK /\ WikiOK
  /\ used \in [tasks : 0..MaxTasks, asks : Nat, deletes : Nat, edits : Nat, faults : Nat,
               stops : Nat]

\* A task waits, nothing is being ingested and no call of processNext is due.
Stalled == Pending # {} /\ run.at = "idle" /\ kicks = 0

\* No call of processNext is lost, whatever is cancelled, cleared, retried or
\* fails while an ingest runs: the queue stands still only after a handler
\* whose save failed, or after a restart, which starts nothing.
PendingIsKicked == [][Stalled' => Stalled \/ used'.stops > used.stops]_vars

\* A task shown as processing is the one being ingested: none is left over by
\* a cancel, a retry, a failure or a restart, and no two are ingested together.
ProcessingIsRunning ==
  \A id \in DOMAIN queue :
    queue[id].status = "processing" => run.at # "idle" /\ run.id = id

\* What a page lists, or will list at the end of the write that is under way.
Lists(p) == IF run.at = "opened" /\ run.page = p THEN run.read ELSE parseFrontmatter(p)
Indexed(there, listed) == there /\ (spoiled.index \/ listed)

\* A content has a source page of its name and is listed by the pages it
\* yields, and the index lists them all.
Honest(c) ==
  \A h \in DOMAIN c :
    /\ slugify[c[h]] \notin spoiled.sources =>
         Indexed(slugify[c[h]] \in summaries, slugify[c[h]] \in index.sources)
    /\ \E u \in Upload :
         /\ hash[u] = h /\ file[u] = c[h]
         /\ \A p \in generates[u] \ spoiled.pages :
              Indexed(parsed[c[h]] \subseteq Lists(p), p \in index.pages)

\* Who is told that a content is known finds its source page and the pages it
\* yields, in the index too, whatever failed, was repeated or restarted before,
\* but for the files that a deletion or another route wrote or that the end of
\* the process or a failure left half written: a file that ingests alone wrote,
\* to the end, is as the cache has it, also when it belongs to other sources.
CacheIsHonest == Honest(cache)

\* Every task gets its turn and comes to an end, or is removed, unless a failed
\* save or a restart left the queue standing still.
EveryTaskEnds ==
  \A id \in Id : id \in Unfinished ~> (id \notin Unfinished \/ (used.stops > 0 /\ Stalled))

-----------------------------------------------------------------------------

\* "Preserves shared entities (only removes deleted source from their sources
\* array)": a deletion that takes a source from a page keeps the others it lists.
SharedPagesKept ==
  [][ScanWrite => parseFrontmatter(del.page) \ Names(del.file) \subseteq del.read]_vars
=============================================================================
