------------------------- MODULE IngestQueueProofs --------------------------
(***************************************************************************)
(* Theorems about IngestQueue, for every set of files, pages and bounds:   *)
(* the shape of the state, the two facts that keep tasks from being        *)
(* forgotten, and the honesty of the cache, across failures and restarts.  *)
(***************************************************************************)
EXTENDS IngestQueue, TLAPS

LEMMA InitTypeOK == Init => TypeOK
  BY BoundAssumption DEF Init, TypeOK, TasksOK, CacheOK, ListingOK, RunOK, DelOK, EditOK, WikiOK,
     Nothing, Blank, Idle

-----------------------------------------------------------------------------
(* The shape of the state. *)

Counters == [tasks : 0..MaxTasks, asks : Nat, deletes : Nat, edits : Nat, faults : Nat, stops : Nat]

\* What stands still keeps its shape.
LEMMA WikiStays == ASSUME WikiOK, UNCHANGED wiki PROVE WikiOK'
  BY DEF WikiOK, ListingOK, wiki, files
LEMMA EditStays == ASSUME EditOK, UNCHANGED edit PROVE EditOK'
  BY DEF EditOK, ListingOK, Idle
LEMMA DelStays == ASSUME DelOK, UNCHANGED del PROVE DelOK'
  BY DEF DelOK, ListingOK, Idle
LEMMA CachesStay ==
  ASSUME CacheOK(cache), CacheOK(disk.cache), cache' = cache, disk'.cache = disk.cache
  PROVE  CacheOK(cache)' /\ CacheOK(disk.cache)'
  BY DEF CacheOK
LEMMA TasksStay ==
  ASSUME TypeOK, queue' = queue, disk'.queue \in {disk.queue, queue},
         used'.tasks = used.tasks, used'.faults \in {used.faults, used.faults + 1}
  PROVE  /\ TasksOK(queue)' /\ TasksOK(disk.queue)'
         /\ \A id \in DOMAIN queue' \cap DOMAIN disk'.queue : queue'[id].upload = disk'.queue[id].upload
<1>1. used \in Counters
  BY DEF TypeOK, Counters
<1>2. 0..used.faults \subseteq 0..used'.faults
  BY <1>1 DEF Counters
<1> QED BY <1>2 DEF TypeOK, TasksOK
LEMMA RunStays ==
  ASSUME TypeOK, run' = run, queue' = queue, used'.tasks = used.tasks PROVE RunOK'
  BY DEF TypeOK, RunOK, ListingOK, Has, Idle

\* What a handler of the queue does to the copies and the counters.
LEMMA SavedOrNot ==
  ASSUME TypeOK, NEW what \in {"tasks", "asks"},
         what = "tasks" => used.tasks < MaxTasks,
         Saved(what) \/ Unsaved(what) \/ (saveQueue /\ Spend(what) /\ UNCHANGED kicks)
  PROVE  /\ disk'.queue \in {disk.queue, queue'} /\ disk'.cache = disk.cache
         /\ disk' = [queue |-> disk'.queue, cache |-> disk'.cache]
         /\ kicks' \in Nat
         /\ used' \in Counters
         /\ used'.tasks = IF what = "tasks" THEN used.tasks + 1 ELSE used.tasks
         /\ used'.faults = used.faults /\ used'.deletes = used.deletes
<1>1. used \in Counters /\ kicks \in Nat /\ disk = [queue |-> disk.queue, cache |-> disk.cache]
  BY DEF TypeOK, Counters
<1>2. disk' \in {disk, [queue |-> queue', cache |-> disk.cache]}
  BY <1>1 DEF Saved, Unsaved, saveQueue
<1>3. kicks' \in {kicks, kicks + 1}
  BY DEF Saved, Unsaved
<1>4. used' \in Counters /\ used'.faults = used.faults /\ used'.deletes = used.deletes
  <2>1. CASE what = "tasks"
    <3> DEFINE spent == [used EXCEPT !.tasks = @ + 1]
    <3>1. spent \in Counters /\ spent.faults = used.faults /\ spent.deletes = used.deletes
      BY <1>1, <2>1, BoundAssumption DEF Counters
    <3>2. used' \in {spent, [spent EXCEPT !.stops = spent.stops + 1]}
      <4>1. spent.stops = used.stops
        BY <1>1 DEF Counters
      <4> QED BY <2>1, <4>1 DEF Saved, Unsaved, Spend
    <3> HIDE DEF spent
    <3> QED BY <3>1, <3>2 DEF Counters
  <2>2. CASE what = "asks"
    <3> DEFINE spent == [used EXCEPT !.asks = @ + 1]
    <3>1. spent \in Counters /\ spent.faults = used.faults /\ spent.deletes = used.deletes
      BY <1>1, <2>2, BoundAssumption DEF Counters
    <3>2. used' \in {spent, [spent EXCEPT !.stops = spent.stops + 1]}
      <4>1. spent.stops = used.stops
        BY <1>1 DEF Counters
      <4> QED BY <2>2, <4>1 DEF Saved, Unsaved, Spend
    <3> HIDE DEF spent
    <3> QED BY <3>1, <3>2 DEF Counters
  <2> QED BY <2>1, <2>2
<1>5. used'.tasks = IF what = "tasks" THEN used.tasks + 1 ELSE used.tasks
  BY <1>1 DEF Saved, Unsaved, Spend, Counters
<1> QED BY <1>1, <1>2, <1>3, <1>4, <1>5

\* A handler that leaves every task in its place, or removes it, keeps the shape.
LEMMA TasksKept ==
  ASSUME TypeOK, UNCHANGED <<run, del, edit, wiki>>,
         disk'.queue \in {disk.queue, queue'}, disk'.cache = disk.cache,
         disk' = [queue |-> disk'.queue, cache |-> disk'.cache],
         kicks' \in Nat, used' \in Counters,
         used'.tasks = used.tasks, used'.faults = used.faults,
         DOMAIN queue' \subseteq DOMAIN queue, TasksOK(queue)',
         \A id \in DOMAIN queue' : queue'[id].upload = queue[id].upload
  PROVE  TypeOK'
<1>1. TasksOK(disk.queue)'
  BY DEF TypeOK, TasksOK
<1>2. RunOK'
  BY DEF TypeOK, RunOK, Has, ListingOK, Idle
<1>3. CacheOK(cache)' /\ CacheOK(disk.cache)' /\ DelOK' /\ EditOK' /\ WikiOK'
  BY CachesStay, DelStays, EditStays, WikiStays DEF TypeOK, wiki
<1> QED BY <1>1, <1>2, <1>3 DEF TypeOK, Counters

\* Every handler keeps the shape of the tasks.
LEMMA HandlersTypeOK ==
  ASSUME TypeOK,
         \/ \E u \in Upload : Enqueue(u)
         \/ \E id \in Id : RetryTask(id) \/ CancelTask(id)
         \/ ClearCompleted
  PROVE  TypeOK'
<1>1. ASSUME NEW u \in Upload, Enqueue(u) PROVE TypeOK'
  <2>1. /\ used.tasks < MaxTasks /\ UNCHANGED <<run, del, edit, wiki>>
        /\ Saved("tasks") \/ Unsaved("tasks")
        /\ queue' = [i \in DOMAIN queue \cup {used.tasks} |->
                       IF i = used.tasks THEN [upload |-> u, status |-> "pending", retries |-> 0]
                       ELSE queue[i]]
    BY <1>1 DEF Enqueue, Add
  <2>2. /\ disk'.queue \in {disk.queue, queue'} /\ disk'.cache = disk.cache
        /\ disk' = [queue |-> disk'.queue, cache |-> disk'.cache]
        /\ kicks' \in Nat /\ used' \in Counters
        /\ used'.tasks = used.tasks + 1 /\ used'.faults = used.faults
    BY <2>1, SavedOrNot
  <2>3. TasksOK(queue)'
    BY <2>1, <2>2 DEF TypeOK, TasksOK, Status, Counters
  <2>4. TasksOK(disk.queue)'
    BY <2>2, <2>3 DEF TypeOK, TasksOK, Counters
  <2>5. \A id \in DOMAIN queue' \cap DOMAIN disk'.queue : queue'[id].upload = disk'.queue[id].upload
    BY <2>1, <2>2 DEF TypeOK, TasksOK
  <2>6. RunOK'
    BY <2>1, <2>2 DEF TypeOK, RunOK, Has, ListingOK, Idle
  <2>7. CacheOK(cache)' /\ CacheOK(disk.cache)' /\ DelOK' /\ EditOK' /\ WikiOK'
    BY <2>1, <2>2, CachesStay, DelStays, EditStays, WikiStays DEF TypeOK, wiki
  <2> QED BY <2>1, <2>2, <2>3, <2>4, <2>5, <2>6, <2>7 DEF TypeOK, Counters
<1>2. ASSUME NEW id \in Id, RetryTask(id) \/ CancelTask(id) PROVE TypeOK'
  <2>1. /\ UNCHANGED <<run, del, edit, wiki>>
        /\ Saved("asks") \/ Unsaved("asks") \/ (saveQueue /\ Spend("asks") /\ UNCHANGED kicks)
    BY <1>2 DEF RetryTask, CancelTask, Quietly
  <2>2. /\ DOMAIN queue' \subseteq DOMAIN queue
        /\ \A i \in DOMAIN queue' : /\ queue'[i].upload = queue[i].upload
                                    /\ queue'[i] \in [upload : Upload, status : Status,
                                                      retries : 0..used.faults]
        /\ queue' = [i \in DOMAIN queue' |-> queue'[i]]
    BY <1>2 DEF RetryTask, CancelTask, SetStatus, Keep, Has, TypeOK, TasksOK, Status
  <2>3. /\ disk'.queue \in {disk.queue, queue'} /\ disk'.cache = disk.cache
        /\ disk' = [queue |-> disk'.queue, cache |-> disk'.cache]
        /\ kicks' \in Nat /\ used' \in Counters
        /\ used'.tasks = used.tasks /\ used'.faults = used.faults
    BY <2>1, SavedOrNot
  <2>4. TasksOK(queue)'
    BY <2>2, <2>3 DEF TypeOK, TasksOK
  <2> QED BY <2>1, <2>2, <2>3, <2>4, TasksKept
<1>3. CASE ClearCompleted
  <2>1. /\ UNCHANGED <<run, del, edit, wiki>>
        /\ Unsaved("asks") \/ (saveQueue /\ Spend("asks") /\ UNCHANGED kicks)
    BY <1>3 DEF ClearCompleted, Quietly
  <2>2. /\ disk'.queue \in {disk.queue, queue'} /\ disk'.cache = disk.cache
        /\ disk' = [queue |-> disk'.queue, cache |-> disk'.cache]
        /\ kicks' \in Nat /\ used' \in Counters
        /\ used'.tasks = used.tasks /\ used'.faults = used.faults
    BY <2>1, SavedOrNot
  <2>3. /\ DOMAIN queue' \subseteq DOMAIN queue /\ TasksOK(queue)'
        /\ \A id \in DOMAIN queue' : queue'[id].upload = queue[id].upload
    BY <1>3, <2>2 DEF ClearCompleted, Unfinished, Keep, TypeOK, TasksOK
  <2> QED BY <2>1, <2>2, <2>3, TasksKept
<1> QED BY <1>1, <1>2, <1>3

\* What names the pages are read to list.
LEMMA NamesAreFiles ==
  ASSUME TypeOK
  PROVE  \A p \in Page : /\ parseFrontmatter(p) \subseteq File
                         /\ \A g \in parseFrontmatter(p) : parsed[g] = {g}
  BY NameAssumption DEF parseFrontmatter, TypeOK, WikiOK

\* Every write of a page keeps the shape of the wiki.
LEMMA PageWriteOK ==
  ASSUME WikiOK, NEW p \in Page, NEW names \in SUBSET File,
         \/ Open(p)
         \/ Fill(p, names)
         \/ pages' = pages \ {p} /\ sources' = [sources EXCEPT ![p] = {}],
         UNCHANGED <<summaries, index>>,
         spoiled' = spoiled \/ SpoilPage(p)
  PROVE  WikiOK'
<1>1. /\ pages' \subseteq Page /\ sources' \in [Page -> SUBSET File]
      /\ \A q \in Page : sources'[q] # {} => q \in pages'
  BY DEF WikiOK, Open, Fill
<1>2. spoiled' \in [pages : SUBSET Page, sources : SUBSET File, index : BOOLEAN]
  BY DEF WikiOK, SpoilPage
<1> QED BY <1>1, <1>2 DEF WikiOK, ListingOK

\* So does every write of the index, also one that is cut off.
LEMMA IndexWriteOK ==
  ASSUME TypeOK, NEW l, ListingOK(l), UNCHANGED <<summaries, files>>,
         \/ index' \in {index, l} /\ (spoiled' = spoiled \/ SpoilIndex)
         \/ HalfWritten
         \/ \E points \in {{run.at}, {run.at, del.at, edit.at}} : CutOff(points)
  PROVE  WikiOK'
<1>1. ListingOK(index)'
  BY DEF TypeOK, WikiOK, ListingOK, HalfWritten, CutOff, Blank
<1>2. LeftOpen \subseteq Page
  BY DEF LeftOpen, TypeOK, RunOK, Idle
<1>3. spoiled' \in [pages : SUBSET Page, sources : SUBSET File, index : BOOLEAN]
  <2>1. spoiled \in [pages : SUBSET Page, sources : SUBSET File, index : BOOLEAN]
    BY DEF TypeOK, WikiOK
  <2>2. \/ spoiled' = spoiled \/ SpoilIndex
        \/ spoiled' = [spoiled EXCEPT !.pages = @ \cup LeftOpen]
        \/ spoiled' = [spoiled EXCEPT !.pages = @ \cup LeftOpen, !.index = TRUE]
    BY DEF HalfWritten, CutOff
  <2>3. spoiled.pages \subseteq Page
    BY <2>1
  <2> DEFINE left == LeftOpen
  <2>4. spoiled.pages \cup left \subseteq Page
    BY <1>2, <2>3
  <2> HIDE DEF left
  <2>5. CASE spoiled' = spoiled \/ SpoilIndex
    BY <2>1, <2>5 DEF SpoilIndex
  <2>6. CASE spoiled' = [spoiled EXCEPT !.pages = @ \cup left]
    BY <2>1, <2>4, <2>6
  <2>7. CASE spoiled' = [spoiled EXCEPT !.pages = @ \cup left, !.index = TRUE]
    BY <2>1, <2>4, <2>7
  <2> QED BY <2>2, <2>5, <2>6, <2>7 DEF left
<1> QED BY <1>1, <1>3 DEF TypeOK, WikiOK, files

LEMMA ListingIsOK == ASSUME TypeOK PROVE ListingOK(Listing)
  BY DEF TypeOK, WikiOK, ListingOK, Listing

\* So does the ingest, also when it fails.
LEMMA ProcessTypeOK == ASSUME TypeOK, Process \/ Fail PROVE TypeOK'
<1> USE BoundAssumption, UploadAssumption, NameAssumption
<1>0. disk = [queue |-> disk.queue, cache |-> disk.cache] /\ used \in Counters /\ kicks \in Nat
  BY DEF TypeOK, Counters
<1>a. ASSUME queue' = queue, kicks' \in Nat, UNCHANGED <<del, edit, used>>, RunOK', WikiOK',
             disk' \in {disk, [disk EXCEPT !.queue = queue']}, CacheOK(cache)'
      PROVE  TypeOK'
  <2>1. /\ disk' = [queue |-> disk'.queue, cache |-> disk.cache]
        /\ disk'.queue \in {disk.queue, queue} /\ disk'.cache = disk.cache
    BY <1>0, <1>a
  <2>2. DelOK' /\ EditOK'
    BY <1>a, DelStays, EditStays DEF TypeOK
  <2>3. CacheOK(disk.cache)'
    BY <2>1 DEF TypeOK, CacheOK
  <2>4. /\ TasksOK(queue)' /\ TasksOK(disk.queue)'
        /\ \A id \in DOMAIN queue' \cap DOMAIN disk'.queue :
             queue'[id].upload = disk'.queue[id].upload
    BY <1>a, <2>1, TasksStay
  <2> QED BY <1>a, <2>1, <2>2, <2>3, <2>4 DEF TypeOK
<1>1. CASE Start
  <2>1. PICK id \in Pending : /\ SetStatus(id, "processing")
                              /\ run' = [at |-> "analysis", id |-> id, upload |-> queue[id].upload]
    BY <1>1 DEF Start
  <2>2. /\ DOMAIN queue' = DOMAIN queue /\ TasksOK(queue)' /\ TasksOK(queue')
        /\ \A i \in DOMAIN queue : queue'[i].upload = queue[i].upload
    BY <1>1, <2>1 DEF Start, TypeOK, TasksOK, Pending, SetStatus, Has, Status
  <2>3. RunOK'
    BY <2>1, <2>2, <1>1 DEF Start, RunOK, Has, TypeOK, TasksOK, Pending
  <2>4. disk' = [queue |-> queue', cache |-> disk.cache] /\ kicks' \in Nat
    BY <1>0, <1>1 DEF Start, saveQueue
  <2>5. DelOK' /\ EditOK' /\ WikiOK' /\ CacheOK(cache)' /\ CacheOK(disk.cache)'
    BY <1>1, <2>4, CachesStay, DelStays, EditStays, WikiStays DEF Start, TypeOK, wiki
  <2>6. TasksOK(disk.queue)'
    BY <2>2, <2>4 DEF TasksOK
  <2>7. UNCHANGED used
    BY <1>1 DEF Start
  <2> QED BY <2>2, <2>3, <2>4, <2>5, <2>6, <2>7 DEF TypeOK
<1>2. CASE NothingToStart
  <2>1. /\ UNCHANGED <<queue, run, del, edit, wiki, disk, used>> /\ kicks' \in Nat
    BY <1>0, <1>2 DEF NothingToStart
  <2>2. WikiOK' /\ RunOK' /\ CacheOK(cache)'
    BY <2>1, WikiStays, RunStays DEF TypeOK, CacheOK, wiki
  <2> QED BY <1>a, <2>1, <2>2
<1>3. CASE WriteSummary
  <2>1. /\ UNCHANGED <<queue, kicks, del, edit, cache, used>>
        /\ disk' \in {disk, [disk EXCEPT !.queue = queue']}
    BY <1>3 DEF WriteSummary, saveQueue
  <2>2. RunOK' /\ WikiOK' /\ CacheOK(cache)'
    BY <1>3 DEF WriteSummary, TypeOK, RunOK, WikiOK, ListingOK, CacheOK, Has, Idle, files
  <2> QED BY <1>0, <1>a, <2>1, <2>2
<1>4. CASE ReadPage
  <2>1. UNCHANGED <<queue, kicks, del, edit, wiki, disk, used>>
    BY <1>4 DEF ReadPage
  <2>2. RunOK'
    BY <1>4, NamesAreFiles DEF ReadPage, TypeOK, RunOK, Has, Idle
  <2>3. WikiOK' /\ CacheOK(cache)'
    BY <2>1, WikiStays DEF TypeOK, CacheOK, wiki
  <2> QED BY <1>0, <1>a, <2>1, <2>2, <2>3
<1>5. CASE OpenPage \/ WritePage
  <2>1. /\ UNCHANGED <<queue, kicks, del, edit, cache, disk, used>>
        /\ UNCHANGED <<summaries, index, spoiled>>
    BY <1>5 DEF OpenPage, WritePage
  <2>2. /\ run.page \in Page /\ run.read \subseteq File /\ run.todo \subseteq Page
        /\ run.upload \in Upload /\ run.id \in 0..(used.tasks - 1)
        /\ Has(run.id) => queue[run.id].upload = run.upload
    BY <1>5 DEF OpenPage, WritePage, TypeOK, RunOK, Idle
  <2>3. RunOK'
    <3>1. CASE OpenPage
      <4>1. /\ run'.at = "opened" /\ run'.page = run.page /\ run'.read = run.read
            /\ run'.todo = run.todo /\ run'.upload = run.upload /\ run'.id = run.id
        BY <3>1 DEF OpenPage, TypeOK, RunOK, Idle
      <4> QED BY <2>1, <2>2, <4>1 DEF RunOK, Has
    <3>2. CASE WritePage
      BY <2>1, <2>2, <3>2 DEF WritePage, RunOK, Has
    <3> QED BY <1>5, <3>1, <3>2
  <2>4. Open(run.page) \/ Fill(run.page, run.read \cup {file[run.upload]})
    BY <1>5 DEF OpenPage, WritePage
  <2>5. run.read \cup {file[run.upload]} \in SUBSET File
    BY <2>2
  <2>6. WikiOK'
    BY <2>1, <2>2, <2>4, <2>5, PageWriteOK DEF TypeOK
  <2>7. CacheOK(cache)'
    BY <2>1 DEF TypeOK, CacheOK
  <2> QED BY <1>0, <1>a, <2>1, <2>3, <2>6, <2>7
<1>6. CASE ListPages
  <2>1. /\ UNCHANGED <<queue, kicks, del, edit, wiki, used>>
        /\ disk' \in {disk, [disk EXCEPT !.queue = queue']}
    BY <1>6 DEF ListPages, saveQueue
  <2>2. RunOK'
    BY <1>6, ListingIsOK DEF ListPages, TypeOK, RunOK, Has, Idle, ListingOK
  <2>3. WikiOK' /\ CacheOK(cache)'
    BY <2>1, WikiStays DEF TypeOK, CacheOK, wiki
  <2> QED BY <1>0, <1>a, <2>1, <2>2, <2>3
<1>7. CASE WriteIndex
  <2>1. UNCHANGED <<queue, kicks, del, edit, summaries, files, cache, disk, spoiled, used>>
    BY <1>7 DEF WriteIndex
  <2>2. RunOK' /\ ListingOK(run.listing) /\ index' = run.listing
    BY <1>7 DEF WriteIndex, TypeOK, RunOK, Has, Idle
  <2>3. WikiOK' /\ CacheOK(cache)'
    BY <2>1, <2>2, IndexWriteOK DEF TypeOK, CacheOK
  <2> QED BY <1>0, <1>a, <2>1, <2>2, <2>3
<1>8. CASE RecordCache
  <2>1. UNCHANGED <<queue, kicks, del, edit, wiki, disk, used>> \/
        UNCHANGED <<queue, kicks, del, edit, summaries, files, index, spoiled, disk, used>>
    BY <1>8 DEF RecordCache, Learn
  <2>2. RunOK' /\ CacheOK(cache)' /\ WikiOK'
    BY <1>8 DEF RecordCache, Learn, TypeOK, CacheOK, ListingOK, RunOK, WikiOK, Has, Idle, files
  <2> QED BY <1>0, <1>a, <2>1, <2>2
<1>9. CASE Finish
  <2>1. TasksOK(queue)' /\ TasksOK(queue')
    BY <1>9 DEF Finish, TypeOK, TasksOK, SetStatus, Has, Status
  <2>2. /\ disk' = [queue |-> queue', cache |-> cache]
        /\ UNCHANGED <<del, edit, wiki, used>> /\ run' = Idle /\ kicks' \in Nat
    BY <1>0, <1>9 DEF Finish
  <2>3. TasksOK(disk.queue)' /\ CacheOK(cache)' /\ CacheOK(disk.cache)'
    BY <2>1, <2>2 DEF TypeOK, TasksOK, CacheOK, wiki
  <2>4. RunOK' /\ DelOK' /\ EditOK' /\ WikiOK'
    BY <2>2, DelStays, EditStays, WikiStays DEF TypeOK, RunOK
  <2> QED BY <2>1, <2>2, <2>3, <2>4 DEF TypeOK
<1>10. CASE Fail
  <2>1. /\ used' = [used EXCEPT !.faults = @ + 1]
        /\ disk' = [disk EXCEPT !.queue = queue']
        /\ UNCHANGED <<del, edit, summaries, files, cache>> /\ run' = Idle /\ kicks' = kicks + 1
        /\ CutOff({run.at})
    BY <1>10 DEF Fail, Spend, saveQueue
  <2>2. TasksOK(queue)'
    BY <1>10, <2>1 DEF Fail, TypeOK, TasksOK, Has, Status
  <2>3. TasksOK(disk.queue)' /\ CacheOK(cache)' /\ CacheOK(disk.cache)'
    BY <2>1, <2>2 DEF TypeOK, TasksOK, CacheOK
  <2>4. RunOK' /\ DelOK' /\ EditOK' /\ WikiOK'
    BY <2>1, DelStays, EditStays, IndexWriteOK, ListingIsOK DEF TypeOK, RunOK
  <2> QED BY <1>0, <2>1, <2>2, <2>3, <2>4 DEF TypeOK, Counters
<1> QED
  BY <1>1, <1>2, <1>3, <1>4, <1>5, <1>6, <1>7, <1>8, <1>9, <1>10 DEF Process

\* What neither the queue nor the ingest has a part in.
LEMMA OthersTypeOK ==
  ASSUME TypeOK, UNCHANGED <<queue, kicks, run, disk>>, CacheOK(cache)',
         DelOK', EditOK', WikiOK',
         \/ used' = used
         \/ \E what \in {"deletes", "edits", "faults"} : Spend(what)
  PROVE  TypeOK'
<1>1. /\ used' \in Counters /\ used'.tasks = used.tasks
      /\ used'.faults \in {used.faults, used.faults + 1}
  BY DEF TypeOK, Counters, Spend
<1>2. /\ TasksOK(queue)' /\ TasksOK(disk.queue)' /\ RunOK'
      /\ \A id \in DOMAIN queue' \cap DOMAIN disk'.queue : queue'[id].upload = disk'.queue[id].upload
  BY <1>1, TasksStay, RunStays
<1>3. CacheOK(disk.cache)'
  BY DEF TypeOK, CacheOK
<1> QED BY <1>1, <1>2, <1>3 DEF TypeOK, Counters

\* And the deletion.
LEMMA DeletionTypeOK ==
  ASSUME TypeOK, Cascade \/ DeletionFails \/ \E f \in File : Delete(f) PROVE TypeOK'
<1> USE BoundAssumption, NameAssumption
<1>1. CASE \E f \in File : Delete(f)
  <2>1. /\ UNCHANGED <<queue, kicks, run, edit, files, index, cache, disk>> /\ Spend("deletes")
        /\ DelOK'
    BY <1>1 DEF Delete, DelOK, Idle
  <2>2. WikiOK' /\ CacheOK(cache)'
    BY <1>1 DEF Delete, TypeOK, WikiOK, ListingOK, CacheOK, files
  <2>3. EditOK'
    BY <2>1, EditStays DEF TypeOK
  <2> QED BY <2>1, <2>2, <2>3, OthersTypeOK
<1>2. ASSUME DelOK', WikiOK', UNCHANGED <<queue, kicks, run, edit, cache, disk, used>>
      PROVE  TypeOK'
  <2>1. EditOK' /\ CacheOK(cache)'
    BY <1>2, EditStays DEF TypeOK, CacheOK
  <2> QED BY <1>2, <2>1, OthersTypeOK
<1>3. CASE List \/ Relink \/ ListRest \/ ScanRead \/ RelinkRead \/ ScanLeave
  <2>1. UNCHANGED <<queue, kicks, run, edit, wiki, disk, used>>
    BY <1>3 DEF List, Relink, ListRest, ScanRead, RelinkRead, ScanLeave
  <2>2. WikiOK'
    BY <2>1, WikiStays DEF TypeOK
  <2>3. DelOK'
    <3>1. CASE List \/ Relink
      BY <3>1 DEF List, Relink, TypeOK, DelOK, WikiOK, Idle
    <3>2. CASE ListRest
      BY <3>2, ListingIsOK DEF ListRest, TypeOK, DelOK, Idle, ListingOK
    <3>3. CASE ScanRead
      BY <3>3, NamesAreFiles DEF ScanRead, TypeOK, DelOK, Idle
    <3>4. CASE RelinkRead
      BY <3>4 DEF RelinkRead, TypeOK, DelOK, WikiOK, Idle
    <3>5. CASE ScanLeave
      BY <3>5 DEF ScanLeave, ScanNext, TypeOK, DelOK, Idle
    <3> QED BY <1>3, <3>1, <3>2, <3>3, <3>4, <3>5
  <2> QED BY <1>2, <2>1, <2>2, <2>3 DEF wiki
<1>4. CASE ScanWrite \/ RelinkWrite \/ DelFill
  <2>1. UNCHANGED <<queue, kicks, run, edit, summaries, index, cache, disk, used>>
    BY <1>4 DEF ScanWrite, RelinkWrite, DelFill
  <2>2. /\ del.page \in Page /\ del.read \subseteq File /\ del.file \in File
        /\ del.todo \subseteq Page
    BY <1>4 DEF ScanWrite, RelinkWrite, DelFill, TypeOK, DelOK, Idle
  <2>3. WikiOK'
    <3>1. /\ \/ Open(del.page) \/ Fill(del.page, del.read)
             \/ pages' = pages \ {del.page} /\ sources' = [sources EXCEPT ![del.page] = {}]
          /\ spoiled' = spoiled \/ SpoilPage(del.page)
      BY <1>4 DEF ScanWrite, RelinkWrite, DelFill
    <3> QED BY <2>1, <2>2, <3>1, PageWriteOK DEF TypeOK
  <2>4. DelOK'
    <3>1. CASE ScanWrite
      BY <2>2, <3>1 DEF ScanWrite, ScanNext, Rest, DelOK
    <3>2. CASE RelinkWrite
      BY <2>2, <3>2 DEF RelinkWrite, DelOK
    <3>3. CASE DelFill
      BY <2>2, <3>3 DEF DelFill, TypeOK, DelOK, Idle
    <3> QED BY <1>4, <3>1, <3>2, <3>3
  <2> QED BY <1>2, <2>1, <2>3, <2>4
<1>5. CASE Forget
  <2>1. /\ ListingOK(del.listing) /\ index' = del.listing /\ SpoilIndex
        /\ UNCHANGED <<queue, kicks, run, edit, summaries, files>> /\ del' = Idle
    BY <1>5 DEF Forget, TypeOK, DelOK, Idle
  <2>2. CacheOK(cache)' /\ CacheOK(cache')
    BY <1>5 DEF Forget, Forgotten, TypeOK, CacheOK
  <2>3. /\ disk' \in {disk, [queue |-> disk.queue, cache |-> cache']}
        /\ used' \in {used, [used EXCEPT !.faults = @ + 1]}
    BY <1>5 DEF Forget, Spend, TypeOK
  <2>4. CacheOK(disk.cache)' /\ disk'.queue = disk.queue
        /\ disk' = [queue |-> disk'.queue, cache |-> disk'.cache]
    BY <2>2, <2>3 DEF TypeOK, CacheOK
  <2>5. /\ used' \in Counters /\ used'.tasks = used.tasks
        /\ used'.faults \in {used.faults, used.faults + 1}
    BY <2>3 DEF TypeOK, Counters
  <2>6. /\ TasksOK(queue)' /\ TasksOK(disk.queue)' /\ RunOK'
        /\ \A id \in DOMAIN queue' \cap DOMAIN disk'.queue :
             queue'[id].upload = disk'.queue[id].upload
    BY <2>1, <2>4, <2>5, TasksStay, RunStays
  <2>7. WikiOK' /\ EditOK' /\ DelOK'
    BY <2>1, IndexWriteOK, EditStays DEF TypeOK, DelOK
  <2> QED
    BY <2>1, <2>2, <2>4, <2>5, <2>6, <2>7 DEF TypeOK, Counters
<1>6. CASE DeletionFails
  <2>1. /\ UNCHANGED <<queue, kicks, run, edit, summaries, files, cache, disk>>
        /\ del' = Idle /\ Spend("faults") /\ (UNCHANGED <<index, spoiled>> \/ HalfWritten)
    BY <1>6 DEF DeletionFails
  <2>2. WikiOK' /\ EditOK' /\ DelOK' /\ CacheOK(cache)'
    BY <2>1, IndexWriteOK, ListingIsOK, EditStays DEF TypeOK, DelOK, CacheOK
  <2> QED BY <2>1, <2>2, OthersTypeOK
<1> QED BY <1>1, <1>3, <1>4, <1>5, <1>6 DEF Cascade

\* And what other routes write.
LEMMA RouteTypeOK == ASSUME TypeOK, Route PROVE TypeOK'
<1>1. UNCHANGED <<queue, kicks, run, del, cache, disk>>
  <2>1. CASE \E p \in Page : EditPage(p)
    BY <2>1 DEF EditPage
  <2>2. CASE EditFill \/ EditOther \/ EditIndex \/ EditFails
    BY <2>2 DEF EditFill, EditOther, EditIndex, EditFails
  <2>3. CASE EditList
    BY <2>3 DEF EditList, wiki
  <2> QED BY <2>1, <2>2, <2>3 DEF Route
<1>2. DelOK' /\ CacheOK(cache)'
  BY <1>1, DelStays DEF TypeOK, CacheOK
<1>3. \/ used' = used
      \/ \E what \in {"deletes", "edits", "faults"} : Spend(what)
  BY DEF Route, EditPage, EditFill, EditOther, EditList, EditIndex, EditFails
<1>4. EditOK' /\ WikiOK'
  <2>1. CASE \E p \in Page : EditPage(p)
    <3>1. PICK p \in Page : EditPage(p)
      BY <2>1
    <3>2. PICK names \in written : edit' = [at |-> "opened", page |-> p, names |-> names]
      BY <3>1 DEF EditPage
    <3>3. names \in SUBSET File
      BY <3>2, UploadAssumption
    <3>4. WikiOK'
      BY <3>1, <3>3, PageWriteOK DEF EditPage, TypeOK
    <3> QED BY <3>2, <3>3, <3>4 DEF EditOK
  <2>2. CASE EditFill
    <3>1. edit.page \in Page /\ edit.names \in SUBSET File
      BY <2>2 DEF EditFill, TypeOK, EditOK, Idle
    <3> QED BY <2>2, <3>1, PageWriteOK DEF EditFill, TypeOK, EditOK
  <2>3. CASE EditOther
    <3>1. edit' = [at |-> "rebuild"] /\ UNCHANGED files
      BY <2>3 DEF EditOther
    <3>2. summaries' \subseteq File
      BY <2>3, NameAssumption DEF EditOther, TypeOK, WikiOK
    <3>3. /\ ListingOK(index)'
          /\ spoiled' \in [pages : SUBSET Page, sources : SUBSET File, index : BOOLEAN]
      <4>1. UNCHANGED <<index, spoiled>> \/ HalfWritten
        BY <2>3 DEF EditOther
      <4>2. WikiOK
        BY DEF TypeOK
      <4>3. CASE UNCHANGED <<index, spoiled>>
        BY <4>2, <4>3 DEF WikiOK, ListingOK
      <4>4. CASE HalfWritten
        BY <4>2, <4>4 DEF HalfWritten, SpoilIndex, Blank, WikiOK, ListingOK
      <4> QED BY <4>1, <4>3, <4>4
    <3>4. WikiOK'
      BY <3>1, <3>2, <3>3 DEF TypeOK, WikiOK, files
    <3> QED BY <3>1, <3>4 DEF EditOK
  <2>4. CASE EditList
    BY <2>4, ListingIsOK, WikiStays DEF EditList, TypeOK, EditOK, ListingOK
  <2>5. CASE EditIndex
    <3>1. ListingOK(edit.listing)
      BY <2>5 DEF EditIndex, TypeOK, EditOK, Idle
    <3> QED BY <2>5, <3>1, IndexWriteOK DEF EditIndex, EditOK
  <2>6. CASE EditFails
    BY <2>6, IndexWriteOK, ListingIsOK DEF EditFails, EditOK
  <2> QED BY <2>1, <2>2, <2>3, <2>4, <2>5, <2>6 DEF Route
<1> QED BY <1>1, <1>2, <1>3, <1>4, OthersTypeOK

\* What init reads back has the shape it was written in.
LEMMA RestartTypeOK == ASSUME TypeOK, Restart PROVE TypeOK'
<1>1. /\ UNCHANGED <<summaries, files>> /\ CutOff({run.at, del.at, edit.at})
      /\ run' = Idle /\ del' = Idle /\ edit' = Idle /\ kicks' = 0
      /\ disk' = [queue |-> queue', cache |-> cache']
      /\ used' \in Counters /\ used'.tasks = used.tasks /\ used'.faults = used.faults
  BY DEF Restart, Spend, TypeOK, Counters
<1>2. TasksOK(queue)' /\ TasksOK(queue')
  <2>1. TasksOK(Reset(disk.queue)) /\ TasksOK(Nothing)
    BY DEF TypeOK, TasksOK, Reset, Nothing, Status
  <2> QED BY <2>1, <1>1 DEF Restart, TasksOK
<1>3. CacheOK(cache)' /\ CacheOK(cache')
  BY <1>1 DEF Restart, TypeOK, CacheOK, Nothing
<1>4. TasksOK(disk.queue)' /\ CacheOK(disk.cache)'
  BY <1>1, <1>2, <1>3 DEF TasksOK, CacheOK
<1>5. WikiOK'
  BY <1>1, IndexWriteOK, ListingIsOK
<1> QED BY <1>1, <1>2, <1>3, <1>4, <1>5 DEF TypeOK, RunOK, DelOK, EditOK, Counters

LEMMA NextTypeOK == TypeOK /\ [Next]_vars => TypeOK'
<1> SUFFICES ASSUME TypeOK, [Next]_vars PROVE TypeOK'
  OBVIOUS
<1>1. CASE UNCHANGED vars
  <2>1. DelOK' /\ EditOK' /\ WikiOK' /\ CacheOK(cache)' /\ UNCHANGED <<queue, kicks, run, disk, used>>
    BY <1>1, DelStays, EditStays, WikiStays DEF vars, TypeOK, CacheOK, wiki
  <2> QED BY <2>1, OthersTypeOK
<1>2. CASE Next
  BY <1>2, HandlersTypeOK, ProcessTypeOK, DeletionTypeOK, RouteTypeOK, RestartTypeOK DEF Next
<1> QED BY <1>1, <1>2

\* Tasks, pages and what is under way keep the shape the code gives them
\* (enqueueFile, processNext, cascadeDeleteSource).
THEOREM TypeCorrect == Spec => []TypeOK
  BY InitTypeOK, NextTypeOK, PTL DEF Spec

-----------------------------------------------------------------------------
(* What is shown as running runs, and the queue does not stand still.      *)

\* Deletions and other routes do not touch the queue.
LEMMA QueueUntouched ==
  ASSUME Cascade \/ DeletionFails \/ (\E f \in File : Delete(f)) \/ Route \/ UNCHANGED vars
  PROVE  UNCHANGED <<queue, kicks, run>>
  BY DEF Cascade, List, ScanRead, ScanWrite, ScanLeave, DelFill, Relink, RelinkRead, RelinkWrite,
     ListRest, Forget, DeletionFails, Delete, vars,
     Route, EditPage, EditFill, EditOther, EditList, EditIndex, EditFails

\* The file steps of an ingest stay with the task.
LEMMA FilesStay ==
  ASSUME TypeOK,
         WriteSummary \/ ReadPage \/ OpenPage \/ WritePage \/ ListPages \/ WriteIndex \/ RecordCache
  PROVE  UNCHANGED <<queue, kicks>> /\ run.at # "idle" /\ run'.at # "idle" /\ run'.id = run.id
<1>1. CASE OpenPage
  BY <1>1 DEF OpenPage, TypeOK, RunOK, Idle
<1>2. CASE WriteSummary \/ ReadPage \/ WritePage \/ ListPages \/ WriteIndex \/ RecordCache
  BY <1>2 DEF WriteSummary, ReadPage, WritePage, ListPages, WriteIndex, RecordCache, Learn
<1> QED BY <1>1, <1>2

\* Inductive as it stands: an ingest starts only when none is in progress.
LEMMA NextProcessing ==
  TypeOK /\ ProcessingIsRunning /\ [Next]_vars => ProcessingIsRunning'
<1> SUFFICES ASSUME TypeOK, ProcessingIsRunning, [Next]_vars PROVE ProcessingIsRunning'
  OBVIOUS
<1> USE DEF ProcessingIsRunning, TypeOK, TasksOK
<1>1. ASSUME NEW u \in Upload, Enqueue(u) PROVE ProcessingIsRunning'
  BY <1>1 DEF Enqueue, Add
<1>2. ASSUME NEW id \in Id, RetryTask(id) PROVE ProcessingIsRunning'
  BY <1>2 DEF RetryTask, SetStatus, Has
<1>3. ASSUME NEW id \in Id, CancelTask(id) PROVE ProcessingIsRunning'
  BY <1>3 DEF CancelTask, Quietly, SetStatus, Keep, Has
<1>4. CASE ClearCompleted
  BY <1>4 DEF ClearCompleted, Quietly, Unfinished, Keep
<1>5. CASE Start
  BY <1>5 DEF Start, MayStart, Pending, SetStatus, Has
<1>6. CASE NothingToStart
  BY <1>6 DEF NothingToStart
<1>7. CASE WriteSummary \/ ReadPage \/ OpenPage \/ WritePage \/ ListPages \/ WriteIndex \/ RecordCache
  BY <1>7, FilesStay
<1>8. CASE Finish
  BY <1>8 DEF Finish, SetStatus, Has
<1>9. CASE Fail
  BY <1>9 DEF Fail, Has
<1>10. CASE Cascade \/ DeletionFails \/ (\E f \in File : Delete(f)) \/ Route \/ UNCHANGED vars
  BY <1>10, QueueUntouched
<1>11. CASE Restart
  BY <1>11 DEF Restart, Reset, Nothing
<1> QED
  BY <1>1, <1>2, <1>3, <1>4, <1>5, <1>6, <1>7, <1>8, <1>9, <1>10, <1>11 DEF Next, Process

\* No cancel, retry, clear, failure or restart leaves a task that is shown as
\* running when none is, and no two ingests run together (processNext, init).
THEOREM ProcessingRuns == Spec => []ProcessingIsRunning
<1>1. Init => ProcessingIsRunning
  BY DEF Init, ProcessingIsRunning, Nothing
<1> QED
  BY <1>1, NextProcessing, TypeCorrect, PTL DEF Spec

\* Only a handler whose save failed and a restart make the queue stand still.
LEMMA NextKicked ==
  ASSUME TypeOK, [Next]_vars, Stalled' PROVE Stalled \/ used'.stops > used.stops
<1>k. kicks \in Nat /\ kicks + 1 > 0 /\ used.stops + 1 > used.stops
  BY DEF TypeOK
<1>s. \A what \in {"tasks", "asks"} : Unsaved(what) => used'.stops = used.stops + 1
  BY DEF Unsaved, TypeOK
<1> USE DEF Stalled, Pending
<1>1. ASSUME NEW u \in Upload, Enqueue(u) PROVE used'.stops > used.stops
  BY <1>k, <1>s, <1>1 DEF Enqueue, Saved
<1>2. ASSUME NEW id \in Id, RetryTask(id) PROVE used'.stops > used.stops
  BY <1>k, <1>s, <1>2 DEF RetryTask, Saved
<1>3. ASSUME NEW id \in Id, CancelTask(id) PROVE Stalled \/ used'.stops > used.stops
  <2>1. UNCHANGED <<kicks, run>> \/ Unsaved("asks")
    BY <1>3 DEF CancelTask, Quietly
  <2>2. Pending' \subseteq Pending
    BY <1>3 DEF TypeOK, TasksOK, CancelTask, SetStatus, Keep, Has
  <2> QED BY <1>k, <1>s, <2>1, <2>2
<1>4. ASSUME ClearCompleted PROVE Stalled \/ used'.stops > used.stops
  <2>1. UNCHANGED <<kicks, run>> \/ Unsaved("asks")
    BY <1>4 DEF ClearCompleted, Quietly
  <2>2. Pending' \subseteq Pending
    BY <1>4 DEF ClearCompleted, Unfinished, Keep
  <2> QED BY <1>k, <1>s, <2>1, <2>2
<1>5. ASSUME Start PROVE FALSE
  BY <1>5 DEF Start
<1>6. ASSUME NothingToStart PROVE FALSE
  BY <1>6 DEF NothingToStart, MayStart
<1>7. ASSUME WriteSummary \/ ReadPage \/ OpenPage \/ WritePage \/ ListPages \/ WriteIndex \/ RecordCache
      PROVE  FALSE
  BY <1>7, FilesStay
<1>8. ASSUME Finish \/ Fail PROVE FALSE
  BY <1>k, <1>8 DEF Finish, Fail
<1>9. ASSUME Cascade \/ DeletionFails \/ (\E f \in File : Delete(f)) \/ Route
             \/ UNCHANGED vars
      PROVE  Stalled
  BY <1>9, QueueUntouched
<1>10. ASSUME Restart PROVE used'.stops > used.stops
  BY <1>k, <1>10 DEF Restart, Spend, TypeOK
<1> QED
  BY <1>1, <1>2, <1>3, <1>4, <1>5, <1>6, <1>7, <1>8, <1>9, <1>10 DEF Next, Process

\* No call of processNext is lost, whatever happens while an ingest runs: the
\* calls it turned away are made up for by the timer at its end.  The queue
\* stands still only after a handler's failed save or a restart.
THEOREM PendingKicked == Spec => PendingIsKicked
<1>1. TypeOK /\ [Next]_vars => [Stalled' => Stalled \/ used'.stops > used.stops]_vars
  BY NextKicked
<1> QED
  BY <1>1, TypeCorrect, PTL DEF Spec, PendingIsKicked

-----------------------------------------------------------------------------
(* The cache is honest.                                                    *)

\* What an ingest has written so far, but for what was spoiled.
Written(u, ps) ==
  \A p \in ps \ spoiled.pages : p \in pages /\ parsed[file[u]] \subseteq Lists(p)
InListing(u, l) ==
  /\ slugify[file[u]] \notin spoiled.sources => slugify[file[u]] \in l.sources
  /\ generates[u] \ spoiled.pages \subseteq l.pages
Within(l, m) ==
  l.sources \ spoiled.sources \subseteq m.sources /\ l.pages \ spoiled.pages \subseteq m.pages

Done(u) == CASE run.at = "pages" -> generates[u] \ run.todo
             [] run.at \in {"page", "opened"} -> generates[u] \ (run.todo \cup {run.page})
             [] OTHER -> generates[u]

\* Of the page that an ingest is about to write, or is writing.
PageProgress ==
  /\ \A g \in run.read : parsed[g] = {g}
  /\ run.page \notin spoiled.pages =>
       IF run.at = "page" THEN run.read = parseFrontmatter(run.page) ELSE run.page \in pages

RunProgress ==
  run.at \notin {"idle", "analysis"} =>
    /\ slugify[file[run.upload]] \notin spoiled.sources => slugify[file[run.upload]] \in summaries
    /\ Written(run.upload, Done(run.upload))
    /\ run.at \in {"page", "opened"} => PageProgress
    /\ run.at = "listed" => /\ InListing(run.upload, run.listing)
                            /\ spoiled.index \/ Within(index, run.listing)
                            /\ Within(run.listing, Listing)
    /\ run.at \in {"indexed", "saving"} => spoiled.index \/ InListing(run.upload, index)
IndexProgress == spoiled.index \/ Within(index, Listing)
Known == Honest(cache) /\ Honest(disk.cache)
Progress == RunProgress /\ IndexProgress /\ Known

\* What is spoiled stays so, and of the rest only the summaries, the pages, the
\* names they list and the index grow.
Spoils ==
  /\ spoiled.pages \subseteq spoiled'.pages /\ spoiled.sources \subseteq spoiled'.sources
  /\ spoiled.index => spoiled'.index
  /\ summaries \ spoiled'.sources \subseteq summaries'
  /\ pages \ spoiled'.pages \subseteq pages'
IndexGrows ==
  \/ spoiled'.index
  \/ /\ index.sources \ spoiled'.sources \subseteq index'.sources
     /\ index.pages \ spoiled'.pages \subseteq index'.pages
ListsGrow == \A p \in Page \ spoiled'.pages : Lists(p) \subseteq Lists(p)'

\* Every entry is one of the cache or of its copy on disk.
FromCaches(c) ==
  \A h \in DOMAIN c : \/ h \in DOMAIN cache /\ c[h] = cache[h]
                      \/ h \in DOMAIN disk.cache /\ c[h] = disk.cache[h]

\* What Honest says of one entry.
Vouched(h, f) ==
  /\ slugify[f] \notin spoiled.sources => Indexed(slugify[f] \in summaries, slugify[f] \in index.sources)
  /\ \E u \in Upload :
       /\ hash[u] = h /\ file[u] = f
       /\ \A p \in generates[u] \ spoiled.pages :
            Indexed(parsed[f] \subseteq Lists(p), p \in index.pages)

LEMMA VouchedStays ==
  ASSUME Spoils, IndexGrows, ListsGrow, NEW h, NEW f, Vouched(h, f)
  PROVE  Vouched(h, f)'
<1>1. PICK u \in Upload :
        /\ hash[u] = h /\ file[u] = f
        /\ \A p \in generates[u] \ spoiled.pages :
             Indexed(parsed[f] \subseteq Lists(p), p \in index.pages)
  BY DEF Vouched
<1>2. generates[u] \subseteq Page
  BY UploadAssumption
<1>3. ASSUME NEW p \in generates[u] \ spoiled'.pages
      PROVE  Indexed(parsed[f] \subseteq Lists(p), p \in index.pages)'
  <2>1. Indexed(parsed[f] \subseteq Lists(p), p \in index.pages) /\ Lists(p) \subseteq Lists(p)'
    BY <1>1, <1>2, <1>3 DEF Spoils, ListsGrow
  <2> QED BY <1>3, <2>1 DEF Indexed, Spoils, IndexGrows
<1>4. ASSUME slugify[f] \notin spoiled'.sources
      PROVE  Indexed(slugify[f] \in summaries, slugify[f] \in index.sources)'
  BY <1>4 DEF Vouched, Indexed, Spoils, IndexGrows
<1> QED BY <1>1, <1>3, <1>4 DEF Vouched

LEMMA KnownStays ==
  ASSUME Known, Spoils, IndexGrows, ListsGrow, FromCaches(cache'), FromCaches(disk'.cache)
  PROVE  Known'
<1>1. \A h \in DOMAIN cache : Vouched(h, cache[h])
  BY DEF Known, Honest, Vouched
<1>2. \A h \in DOMAIN disk.cache : Vouched(h, disk.cache[h])
  BY DEF Known, Honest, Vouched
<1>3. \A h, f : Vouched(h, f) => Vouched(h, f)'
  BY VouchedStays
<1>4. \A h \in DOMAIN cache' : Vouched(h, cache'[h])
  BY <1>1, <1>2 DEF FromCaches
<1>5. \A h \in DOMAIN disk'.cache : Vouched(h, disk'.cache[h])
  BY <1>1, <1>2 DEF FromCaches
<1>6. Honest(cache)'
  BY <1>3, <1>4 DEF Honest, Vouched
<1>7. Honest(disk.cache)'
  BY <1>3, <1>5 DEF Honest, Vouched
<1> QED BY <1>6, <1>7 DEF Known

\* What is done beside the ingest keeps its progress, and so does its end.
LEMMA ProgressStays ==
  ASSUME TypeOK, Progress, Spoils,
         run' = run \/ (run'.at \in {"idle", "analysis"} /\ LeftOpen \subseteq spoiled'.pages),
         \A p \in Page \ spoiled'.pages : sources'[p] = sources[p],
         index' = index \/ spoiled'.index,
         FromCaches(cache'), FromCaches(disk'.cache)
  PROVE  Progress'
<1>1. ASSUME NEW p \in Page \ spoiled'.pages
      PROVE  parseFrontmatter(p)' = parseFrontmatter(p) /\ Lists(p)' = Lists(p)
  <2>1. parseFrontmatter(p)' = parseFrontmatter(p)
    BY <1>1 DEF parseFrontmatter
  <2>2. CASE run' = run
    BY <2>1, <2>2 DEF Lists
  <2>3. CASE run'.at \in {"idle", "analysis"} /\ LeftOpen \subseteq spoiled'.pages
    BY <1>1, <2>1, <2>3 DEF Lists, LeftOpen
  <2> QED BY <2>1, <2>2, <2>3
<1>2. ListsGrow /\ IndexGrows
  BY <1>1 DEF ListsGrow, IndexGrows
<1>3. Known'
  BY <1>2, KnownStays DEF Progress
<1>4. IndexProgress'
  BY DEF Progress, IndexProgress, Within, Listing, Spoils
<1>5. RunProgress'
  <2>1. CASE run'.at \in {"idle", "analysis"}
    BY <2>1 DEF RunProgress
  <2>2. CASE run' = run /\ run.at \notin {"idle", "analysis"}
    <3> DEFINE u == run.upload
    <3>1. u \in Upload /\ generates[u] \subseteq Page
      BY <2>2, UploadAssumption DEF TypeOK, RunOK, Idle
    <3>2. RunProgress /\ Done(u)' = Done(u) /\ Done(u) \subseteq Page
      BY <2>2, <3>1 DEF Progress, Done
    <3>3. Written(u, Done(u)) /\ (slugify[file[u]] \notin spoiled.sources => slugify[file[u]] \in summaries)
      BY <2>2, <3>2 DEF RunProgress
    <3>4. Written(u, Done(u))'
      <4> SUFFICES ASSUME NEW p \in Done(u) \ spoiled'.pages
                   PROVE  p \in pages' /\ parsed[file[u]] \subseteq Lists(p)'
        BY <2>2, <3>2 DEF Written
      <4>1. p \in Page /\ p \notin spoiled.pages
        BY <3>2 DEF Spoils
      <4>2. p \in pages /\ parsed[file[u]] \subseteq Lists(p)
        BY <3>3, <4>1 DEF Written
      <4> QED BY <1>1, <4>1, <4>2 DEF Spoils
    <3>5. (run.at \in {"page", "opened"} => PageProgress)'
      <4> SUFFICES ASSUME run.at \in {"page", "opened"} PROVE PageProgress'
        BY <2>2
      <4>1. PageProgress /\ run.page \in Page
        BY <2>2, <3>2 DEF RunProgress, TypeOK, RunOK, Idle
      <4> QED BY <1>1, <2>2, <4>1 DEF PageProgress, Spoils
    <3>6. (run.at = "listed" => /\ InListing(run.upload, run.listing)
                                /\ spoiled.index \/ Within(index, run.listing)
                                /\ Within(run.listing, Listing))'
      BY <2>2, <3>2 DEF RunProgress, InListing, Within, Listing, Spoils
    <3>7. (run.at \in {"indexed", "saving"} => spoiled.index \/ InListing(run.upload, index))'
      BY <2>2, <3>2 DEF RunProgress, InListing, Spoils
    <3>8. (slugify[file[u]] \notin spoiled.sources => slugify[file[u]] \in summaries)'
      BY <2>2, <3>3 DEF Spoils
    <3> QED BY <2>2, <3>4, <3>5, <3>6, <3>7, <3>8 DEF RunProgress
  <2> QED BY <2>1, <2>2
<1> QED BY <1>3, <1>4, <1>5 DEF Progress

\* Who writes a page beside the ingest has spoiled it when it was opened.
OpenedSpoiled ==
  /\ del.at = "opened" => del.page \in spoiled.pages
  /\ edit.at = "opened" => edit.page \in spoiled.pages

LEMMA NextOpened == ASSUME TypeOK, OpenedSpoiled, [Next]_vars PROVE OpenedSpoiled'
<1>t. spoiled \in [pages : SUBSET Page, sources : SUBSET File, index : BOOLEAN]
  BY DEF TypeOK, WikiOK
<1>1. CASE \/ \E u \in Upload : Enqueue(u)
           \/ \E id \in Id : RetryTask(id) \/ CancelTask(id)
           \/ ClearCompleted \/ UNCHANGED vars
  BY <1>1 DEF Enqueue, RetryTask, CancelTask, ClearCompleted, Quietly, OpenedSpoiled, wiki, vars
<1>2. CASE Process
  BY <1>2 DEF Process, Start, NothingToStart, WriteSummary, ReadPage, OpenPage, WritePage, ListPages,
     WriteIndex, RecordCache, Learn, Finish, OpenedSpoiled, wiki
<1>3. CASE Fail
  BY <1>t, <1>3 DEF Fail, CutOff, OpenedSpoiled
<1>4. CASE Restart
  BY <1>4 DEF Restart, OpenedSpoiled, Idle
<1>5. CASE \E f \in File : Delete(f)
  BY <1>t, <1>5 DEF Delete, OpenedSpoiled
<1>6. CASE List \/ ScanRead \/ ScanLeave \/ DelFill \/ Relink \/ RelinkRead \/ ListRest
  <2>1. UNCHANGED <<spoiled, edit>>
    BY <1>6 DEF List, ScanRead, ScanLeave, DelFill, Relink, RelinkRead, ListRest, wiki
  <2>2. del'.at # "opened"
    <3>1. CASE DelFill
      BY <3>1 DEF DelFill, TypeOK, DelOK, Idle
    <3>2. CASE RelinkRead
      BY <3>2 DEF RelinkRead, TypeOK, DelOK, Idle
    <3>3. CASE List \/ ScanRead \/ ScanLeave \/ Relink \/ ListRest
      BY <3>3 DEF List, ScanRead, ScanLeave, ScanNext, Relink, ListRest
    <3> QED BY <1>6, <3>1, <3>2, <3>3
  <2> QED BY <2>1, <2>2 DEF OpenedSpoiled
<1>7. CASE ScanWrite \/ RelinkWrite
  BY <1>t, <1>7 DEF ScanWrite, ScanNext, RelinkWrite, SpoilPage, OpenedSpoiled
<1>8. CASE Forget \/ DeletionFails
  BY <1>t, <1>8 DEF Forget, DeletionFails, HalfWritten, SpoilIndex, OpenedSpoiled, Idle
<1>9. CASE Route
  BY <1>t, <1>9 DEF Route, EditPage, EditFill, EditOther, EditList, EditIndex, EditFails, HalfWritten,
     SpoilPage, SpoilIndex, OpenedSpoiled, Idle, wiki
<1> QED BY <1>1, <1>2, <1>3, <1>4, <1>5, <1>6, <1>7, <1>8, <1>9 DEF Next, Cascade

\* The steps of the queue, of deletions and of other routes are such, and so
\* are the start and the end of an ingest and of the process.
LEMMA BesideProgress ==
  ASSUME TypeOK, Progress, OpenedSpoiled,
         \/ (\E u \in Upload : Enqueue(u)) \/ (\E id \in Id : RetryTask(id) \/ CancelTask(id))
         \/ ClearCompleted \/ Start \/ NothingToStart \/ Finish \/ Fail
         \/ Cascade \/ DeletionFails \/ (\E f \in File : Delete(f)) \/ Route \/ Restart
         \/ UNCHANGED vars
  PROVE  Progress'
<1>t. /\ used \in Counters /\ disk = [queue |-> disk.queue, cache |-> disk.cache]
      /\ spoiled \in [pages : SUBSET Page, sources : SUBSET File, index : BOOLEAN]
      /\ sources \in [Page -> SUBSET File]
  BY DEF TypeOK, WikiOK, Counters
<1>c. FromCaches(cache) /\ FromCaches(disk.cache) /\ FromCaches(Nothing)
  BY DEF FromCaches, Nothing
<1>1. CASE (\E u \in Upload : Enqueue(u)) \/ (\E id \in Id : RetryTask(id) \/ CancelTask(id))
           \/ ClearCompleted
  <2>1. /\ UNCHANGED <<run, del, edit, wiki>>
        /\ \E what \in {"tasks", "asks"} :
             /\ what = "tasks" => used.tasks < MaxTasks
             /\ Saved(what) \/ Unsaved(what) \/ (saveQueue /\ Spend(what) /\ UNCHANGED kicks)
    BY <1>1 DEF Enqueue, RetryTask, CancelTask, ClearCompleted, Quietly
  <2>2. disk'.cache = disk.cache
    BY <2>1, SavedOrNot
  <2> QED BY <1>c, <2>1, <2>2, ProgressStays DEF wiki, files, Spoils
<1>2. CASE Start \/ NothingToStart \/ Finish \/ UNCHANGED vars
  <2>1. /\ UNCHANGED wiki
        /\ run' = run \/ (run'.at \in {"idle", "analysis"} /\ LeftOpen = {})
        /\ disk'.cache \in {disk.cache, cache}
    <3>1. CASE Start
      BY <1>t, <3>1 DEF Start, MayStart, saveQueue, LeftOpen
    <3>2. CASE Finish
      BY <1>t, <3>2 DEF Finish, LeftOpen, Idle
    <3>3. CASE NothingToStart \/ UNCHANGED vars
      BY <3>3 DEF NothingToStart, vars
    <3> QED BY <1>2, <3>1, <3>2, <3>3
  <2> QED BY <1>c, <2>1, ProgressStays DEF wiki, files, Spoils
<1>3. CASE Fail \/ Restart
  <2>1. /\ UNCHANGED <<summaries, files>> /\ run'.at = "idle"
        /\ \E points \in {{run.at}, {run.at, del.at, edit.at}} : CutOff(points)
        /\ cache' \in {cache, disk.cache, Nothing}
        /\ disk'.cache \in {cache, disk.cache, Nothing}
    BY <1>3, <1>t DEF Fail, Restart, saveQueue, Idle
  <2>2. /\ LeftOpen \subseteq spoiled'.pages /\ Spoils /\ (index' = index \/ spoiled'.index)
    BY <1>t, <2>1 DEF CutOff, Spoils, files
  <2> QED BY <1>c, <2>1, <2>2, ProgressStays DEF files
<1>4. CASE Cascade \/ DeletionFails \/ (\E f \in File : Delete(f))
  <2>1. run' = run
    BY <1>4, QueueUntouched
  <2>2. FromCaches(cache') /\ FromCaches(disk'.cache)
    <3>1. CASE Forget
      <4>1. \A h \in DOMAIN cache' : h \in DOMAIN cache /\ cache'[h] = cache[h]
        BY <3>1 DEF Forget
      <4>2. disk'.cache \in {disk.cache, cache'}
        BY <1>t, <3>1 DEF Forget
      <4> QED BY <1>c, <4>1, <4>2 DEF FromCaches
    <3>2. CASE ~Forget
      <4>1. UNCHANGED <<cache, disk>>
        BY <1>4, <3>2 DEF Cascade, List, ScanRead, ScanWrite, ScanLeave, DelFill, Relink,
           RelinkRead, RelinkWrite, ListRest, DeletionFails, Delete, wiki
      <4> QED BY <1>c, <4>1
    <3> QED BY <3>1, <3>2
  <2>3. /\ Spoils /\ (index' = index \/ spoiled'.index)
        /\ \A p \in Page \ spoiled'.pages : sources'[p] = sources[p]
    <3>1. CASE List \/ ScanRead \/ ScanLeave \/ Relink \/ RelinkRead \/ ListRest
      BY <3>1 DEF List, ScanRead, ScanLeave, Relink, RelinkRead, ListRest, wiki, files, Spoils
    <3>2. CASE ScanWrite \/ RelinkWrite
      BY <1>t, <3>2 DEF ScanWrite, RelinkWrite, SpoilPage, Open, Spoils
    <3>3. CASE DelFill
      BY <1>t, <3>3 DEF DelFill, Fill, Spoils, OpenedSpoiled
    <3>4. CASE Forget \/ DeletionFails \/ (\E f \in File : Delete(f))
      BY <1>t, <3>4 DEF Forget, DeletionFails, Delete, HalfWritten, SpoilIndex, files, Spoils
    <3> QED BY <1>4, <3>1, <3>2, <3>3, <3>4 DEF Cascade
  <2> QED BY <2>1, <2>2, <2>3, ProgressStays
<1>5. CASE Route
  <2>1. run' = run /\ UNCHANGED <<cache, disk>>
    BY <1>5 DEF Route, EditPage, EditFill, EditOther, EditList, EditIndex, EditFails, wiki
  <2>2. /\ Spoils /\ (index' = index \/ spoiled'.index)
        /\ \A p \in Page \ spoiled'.pages : sources'[p] = sources[p]
    <3>1. CASE \E p \in Page : EditPage(p)
      BY <1>t, <3>1 DEF EditPage, SpoilPage, Open, Spoils
    <3>2. CASE EditFill
      BY <1>t, <3>2 DEF EditFill, Fill, Spoils, OpenedSpoiled
    <3>3. CASE EditOther \/ EditList \/ EditIndex \/ EditFails
      BY <1>t, <3>3 DEF EditOther, EditList, EditIndex, EditFails, HalfWritten, SpoilIndex, wiki,
         files, Spoils
    <3> QED BY <1>5, <3>1, <3>2, <3>3 DEF Route
  <2> QED BY <1>c, <2>1, <2>2, ProgressStays
<1> QED BY <1>1, <1>2, <1>3, <1>4, <1>5

\* What the steps of an ingest keep: they spoil nothing.
LEMMA IngestKnown ==
  ASSUME TypeOK, Progress, UNCHANGED <<cache, spoiled>>, disk'.cache = disk.cache,
         summaries \subseteq summaries', pages \subseteq pages', ListsGrow,
         index' = index
  PROVE  Known' /\ IndexProgress'
<1>1. Spoils /\ IndexGrows /\ FromCaches(cache') /\ FromCaches(disk'.cache)
  BY DEF Spoils, IndexGrows, FromCaches
<1>2. Known'
  BY <1>1, KnownStays DEF Progress
<1>3. IndexProgress'
  BY DEF Progress, IndexProgress, Within, Listing
<1> QED BY <1>2, <1>3

LEMMA SummaryProgress == ASSUME TypeOK, Progress, WriteSummary PROVE Progress'
<1>1. /\ run.at = "analysis" /\ run.upload \in Upload
      /\ summaries' = summaries \cup {slugify[file[run.upload]]}
      /\ run' = [at |-> "pages", id |-> run.id, upload |-> run.upload, todo |-> generates[run.upload]]
      /\ UNCHANGED <<files, index, cache, spoiled>> /\ disk'.cache = disk.cache
  BY DEF WriteSummary, saveQueue, TypeOK, RunOK, Idle
<1>2. \A p \in Page : Lists(p)' = Lists(p)
  BY <1>1 DEF Lists, parseFrontmatter, files
<1>3. Known' /\ IndexProgress'
  BY <1>1, <1>2, IngestKnown DEF ListsGrow, files
<1>4. RunProgress'
  BY <1>1 DEF RunProgress, Written, Done
<1> QED BY <1>3, <1>4 DEF Progress

LEMMA ReadProgress == ASSUME TypeOK, Progress, ReadPage PROVE Progress'
<1>1. PICK p \in run.todo :
        run' = [at |-> "page", id |-> run.id, upload |-> run.upload, todo |-> run.todo \ {p},
                page |-> p, read |-> parseFrontmatter(p)]
  BY DEF ReadPage
<1>2. /\ run.at = "pages" /\ run.upload \in Upload /\ p \in Page
      /\ UNCHANGED <<summaries, files, index, cache, spoiled, disk>>
  BY <1>1 DEF ReadPage, TypeOK, RunOK, Idle, wiki
<1>3. \A q \in Page : Lists(q)' = Lists(q) /\ parseFrontmatter(q)' = parseFrontmatter(q)
  BY <1>1, <1>2 DEF Lists, parseFrontmatter, files
<1>4. Known' /\ IndexProgress'
  BY <1>2, <1>3, IngestKnown DEF ListsGrow, files
<1>5. Done(run.upload)' = Done(run.upload)
  BY <1>1, <1>2 DEF Done
<1>6. Written(run.upload, Done(run.upload))'
  <2>1. Written(run.upload, Done(run.upload)) /\ Done(run.upload) \subseteq Page
    BY <1>2, UploadAssumption DEF Progress, RunProgress, Done
  <2> QED BY <1>1, <1>2, <1>3, <1>5, <2>1 DEF Written, files
<1>7. PageProgress'
  BY <1>1, <1>2, <1>3, NamesAreFiles DEF PageProgress
<1>8. RunProgress'
  BY <1>1, <1>2, <1>6, <1>7 DEF Progress, RunProgress
<1> QED BY <1>4, <1>8 DEF Progress

LEMMA OpenProgress == ASSUME TypeOK, Progress, OpenPage PROVE Progress'
<1>1. /\ run.at = "page" /\ run.upload \in Upload /\ run.page \in Page
      /\ run'.at = "opened" /\ run'.page = run.page /\ run'.read = run.read
      /\ run'.todo = run.todo /\ run'.upload = run.upload
      /\ Open(run.page) /\ UNCHANGED <<summaries, index, cache, spoiled, disk>>
      /\ sources \in [Page -> SUBSET File]
  BY DEF OpenPage, TypeOK, RunOK, WikiOK, Idle
<1>2. PageProgress
  BY <1>1 DEF Progress, RunProgress
<1>3. \A q \in Page \ spoiled.pages : Lists(q)' = Lists(q)
  <2>1. ASSUME NEW q \in Page \ spoiled.pages, q # run.page PROVE Lists(q)' = Lists(q)
    BY <1>1, <2>1 DEF Lists, parseFrontmatter, Open
  <2>2. ASSUME NEW q \in Page \ spoiled.pages, q = run.page PROVE Lists(q)' = Lists(q)
    BY <1>1, <1>2, <2>2 DEF Lists, PageProgress
  <2> QED BY <2>1, <2>2
<1>4. pages \subseteq pages' /\ run.page \in pages'
  BY <1>1 DEF Open
<1>5. Known' /\ IndexProgress'
  BY <1>1, <1>3, <1>4, IngestKnown DEF ListsGrow
<1>6. Written(run.upload, Done(run.upload))'
  <2>1. Written(run.upload, Done(run.upload)) /\ Done(run.upload) \subseteq Page
    BY <1>1, UploadAssumption DEF Progress, RunProgress, Done
  <2>2. Done(run.upload)' = Done(run.upload)
    BY <1>1 DEF Done
  <2> QED BY <1>1, <1>3, <1>4, <2>1, <2>2 DEF Written
<1>7. PageProgress'
  BY <1>1, <1>2, <1>4 DEF PageProgress
<1>8. RunProgress'
  BY <1>1, <1>6, <1>7 DEF Progress, RunProgress
<1> QED BY <1>5, <1>8 DEF Progress

\* What is written to a page is read back as the names it listed, and those of
\* the ingested file.
LEMMA ReadBack ==
  ASSUME NEW names \in SUBSET File, NEW f \in File, \A g \in names : parsed[g] = {g}
  PROVE  UNION {parsed[g] : g \in names \cup {f}} = names \cup parsed[f]
OBVIOUS

LEMMA WriteProgress == ASSUME TypeOK, Progress, WritePage PROVE Progress'
<1>1. /\ run.at = "opened" /\ run.upload \in Upload /\ run.page \in Page /\ run.read \subseteq File
      /\ run' = [at |-> "pages", id |-> run.id, upload |-> run.upload, todo |-> run.todo]
      /\ Fill(run.page, run.read \cup {file[run.upload]})
      /\ UNCHANGED <<summaries, index, cache, spoiled, disk>>
      /\ sources \in [Page -> SUBSET File] /\ file[run.upload] \in File
  BY UploadAssumption DEF WritePage, TypeOK, RunOK, WikiOK, Idle
<1>2. PageProgress
  BY <1>1 DEF Progress, RunProgress
<1>3. pages' = pages
  BY <1>1 DEF Fill
<1>4. ASSUME NEW q \in Page \ spoiled.pages, q = run.page
      PROVE  /\ Lists(q)' = run.read \cup parsed[file[run.upload]]
             /\ Lists(q) = run.read /\ q \in pages
  <2>1. q \in pages
    BY <1>1, <1>2, <1>4 DEF PageProgress
  <2>2. sources'[q] = run.read \cup {file[run.upload]}
    BY <1>1, <1>4, <2>1 DEF Fill
  <2>3. parseFrontmatter(q)' = run.read \cup parsed[file[run.upload]]
    BY <1>1, <1>2, <2>2, ReadBack DEF parseFrontmatter, PageProgress
  <2>4. Lists(q)' = parseFrontmatter(q)'
    BY <1>1 DEF Lists
  <2> QED BY <1>1, <1>4, <2>1, <2>3, <2>4 DEF Lists
<1>5. ASSUME NEW q \in Page, q # run.page PROVE Lists(q)' = Lists(q)
  BY <1>1, <1>5 DEF Lists, parseFrontmatter, Fill
<1>6. ListsGrow
  BY <1>1, <1>4, <1>5 DEF ListsGrow
<1>7. Known' /\ IndexProgress'
  BY <1>1, <1>3, <1>6, IngestKnown
<1>8. Written(run.upload, Done(run.upload))'
  <2>1. Written(run.upload, Done(run.upload)) /\ Done(run.upload) \subseteq Page
    BY <1>1, UploadAssumption DEF Progress, RunProgress, Done
  <2>2. Done(run.upload)' \subseteq Done(run.upload) \cup {run.page} /\ generates[run.upload] \subseteq Page
    BY <1>1, UploadAssumption DEF Done
  <2>3. ASSUME NEW q \in Done(run.upload)' \ spoiled.pages
        PROVE  q \in pages /\ parsed[file[run.upload]] \subseteq Lists(q)'
    <3>0. q \in Page /\ q \notin spoiled.pages
      BY <2>1, <2>2, <2>3, <1>1
    <3>1. CASE q = run.page
      BY <1>4, <3>0, <3>1
    <3>2. CASE q # run.page
      BY <1>5, <2>1, <2>2, <2>3, <3>0, <3>2 DEF Written
    <3> QED BY <3>1, <3>2
  <2> QED BY <1>1, <1>3, <2>3 DEF Written
<1>9. RunProgress'
  BY <1>1, <1>8 DEF Progress, RunProgress
<1> QED BY <1>7, <1>9 DEF Progress

LEMMA ListProgress == ASSUME TypeOK, Progress, ListPages PROVE Progress'
<1>1. /\ run.at = "pages" /\ run.todo = {} /\ run.upload \in Upload
      /\ run' = [at |-> "listed", id |-> run.id, upload |-> run.upload, listing |-> Listing]
      /\ UNCHANGED <<summaries, files, index, cache, spoiled>> /\ disk'.cache = disk.cache
  BY DEF ListPages, saveQueue, TypeOK, RunOK, Idle, wiki
<1>2. \A p \in Page : Lists(p)' = Lists(p)
  BY <1>1 DEF Lists, parseFrontmatter, files
<1>3. Known' /\ IndexProgress'
  BY <1>1, <1>2, IngestKnown DEF ListsGrow, files
<1>4. Written(run.upload, generates[run.upload]) /\ generates[run.upload] \subseteq Page
  BY <1>1, UploadAssumption DEF Progress, RunProgress, Done
<1>5. Written(run.upload, Done(run.upload))'
  BY <1>1, <1>2, <1>4 DEF Written, Done, files
<1>6. InListing(run.upload, Listing)
  BY <1>1, <1>4 DEF Progress, RunProgress, InListing, Listing, Written
<1>7. RunProgress'
  BY <1>1, <1>5, <1>6 DEF Progress, RunProgress, IndexProgress, InListing, Within, Listing, files
<1> QED BY <1>3, <1>7 DEF Progress

LEMMA WriteIndexProgress == ASSUME TypeOK, Progress, WriteIndex PROVE Progress'
<1>1. /\ run.at = "listed" /\ run.upload \in Upload /\ index' = run.listing
      /\ run' = [at |-> "indexed", id |-> run.id, upload |-> run.upload]
      /\ UNCHANGED <<summaries, files, cache, spoiled, disk>>
  BY DEF WriteIndex, TypeOK, RunOK, Idle
<1>2. \A p \in Page : Lists(p)' = Lists(p)
  BY <1>1 DEF Lists, parseFrontmatter, files
<1>3. /\ InListing(run.upload, run.listing)
      /\ spoiled.index \/ Within(index, run.listing)
      /\ Within(run.listing, Listing)
      /\ Written(run.upload, generates[run.upload]) /\ generates[run.upload] \subseteq Page
  BY <1>1, UploadAssumption DEF Progress, RunProgress, Done
<1>4. Spoils /\ IndexGrows /\ ListsGrow /\ FromCaches(cache') /\ FromCaches(disk'.cache)
  BY <1>1, <1>2, <1>3 DEF Spoils, IndexGrows, ListsGrow, FromCaches, Within, files
<1>5. Known'
  BY <1>4, KnownStays DEF Progress
<1>6. IndexProgress'
  BY <1>1, <1>3 DEF IndexProgress, Within, Listing, files
<1>7. Written(run.upload, Done(run.upload))'
  BY <1>1, <1>2, <1>3 DEF Written, Done, files
<1>8. RunProgress'
  BY <1>1, <1>3, <1>7 DEF Progress, RunProgress, InListing
<1> QED BY <1>5, <1>6, <1>8 DEF Progress

LEMMA RecordProgress == ASSUME TypeOK, Progress, RecordCache PROVE Progress'
<1> DEFINE u == run.upload
<1>1. /\ run.at = "indexed" /\ u \in Upload
      /\ cache' = [h \in DOMAIN cache \cup {hash[u]} |-> IF h = hash[u] THEN file[u] ELSE cache[h]]
      /\ run' = [at |-> "saving", id |-> run.id, upload |-> u]
      /\ UNCHANGED <<summaries, files, index, spoiled, disk>>
  BY DEF RecordCache, Learn, TypeOK, RunOK, Idle
<1>2. \A p \in Page : Lists(p)' = Lists(p)
  BY <1>1 DEF Lists, parseFrontmatter, files
<1>3. /\ slugify[file[u]] \notin spoiled.sources => slugify[file[u]] \in summaries
      /\ Written(u, generates[u]) /\ generates[u] \subseteq Page
      /\ spoiled.index \/ InListing(u, index)
  BY <1>1, UploadAssumption DEF Progress, RunProgress, Done
<1>4. Vouched(hash[u], file[u])
  BY <1>1, <1>3 DEF Vouched, Written, Indexed, InListing
<1>5. Spoils /\ IndexGrows /\ ListsGrow
  BY <1>1, <1>2 DEF Spoils, IndexGrows, ListsGrow, files
<1>6. \A h, f : Vouched(h, f) => Vouched(h, f)'
  BY <1>5, VouchedStays
<1>7. \A h \in DOMAIN cache' : Vouched(h, cache'[h])
  <2>1. \A h \in DOMAIN cache : Vouched(h, cache[h])
    BY DEF Progress, Known, Honest, Vouched
  <2> QED BY <1>1, <1>4, <2>1
<1>8. Honest(cache)'
  BY <1>6, <1>7 DEF Honest, Vouched
<1>9. Honest(disk.cache)'
  <2>1. \A h \in DOMAIN disk.cache : Vouched(h, disk.cache[h])
    BY DEF Progress, Known, Honest, Vouched
  <2> QED BY <1>1, <1>6, <2>1 DEF Honest, Vouched
<1>10. IndexProgress'
  BY <1>1 DEF Progress, IndexProgress, Within, Listing, files
<1>11. Written(u, Done(u))' /\ (spoiled.index \/ InListing(u, index))'
  BY <1>1, <1>2, <1>3 DEF Written, Done, InListing, files
<1>12. RunProgress'
  BY <1>1, <1>3, <1>11 DEF RunProgress
<1> QED BY <1>8, <1>9, <1>10, <1>12 DEF Progress, Known

LEMMA NextProgress == TypeOK /\ OpenedSpoiled /\ Progress /\ [Next]_vars => Progress'
<1> SUFFICES ASSUME TypeOK, OpenedSpoiled, Progress, [Next]_vars PROVE Progress'
  OBVIOUS
<1>1. CASE WriteSummary \/ ReadPage \/ OpenPage \/ WritePage
  BY <1>1, SummaryProgress, ReadProgress, OpenProgress, WriteProgress
<1>2. CASE ListPages \/ WriteIndex \/ RecordCache
  BY <1>2, ListProgress, WriteIndexProgress, RecordProgress
<1>3. CASE ~(WriteSummary \/ ReadPage \/ OpenPage \/ WritePage \/ ListPages \/ WriteIndex \/ RecordCache)
  BY <1>3, BesideProgress DEF Next, Process
<1> QED BY <1>1, <1>2, <1>3

\* A content the cache knows has its source page, is listed by the pages it
\* yields and is in the index, however ingests failed, were repeated or were cut
\* off, whatever was deleted and whatever other routes wrote meanwhile, but for
\* the files that those wrote, or that were left half written
\* (executeTwoStepIngest, enqueueFile, init, rebuildIndexAndOverview).
THEOREM CacheHonest == Spec => []CacheIsHonest
<1>1. Init => Progress
  BY DEF Init, Progress, RunProgress, IndexProgress, Known, Honest, Within, Listing, Blank, Idle,
     Nothing
<1>2. Init => OpenedSpoiled
  BY DEF Init, OpenedSpoiled, Idle
<1>3. Progress => CacheIsHonest
  BY DEF Progress, Known, CacheIsHonest
<1>4. TypeOK /\ OpenedSpoiled /\ [Next]_vars => OpenedSpoiled'
  BY NextOpened
<1> QED
  BY <1>1, <1>2, <1>3, <1>4, NextProgress, TypeCorrect, PTL DEF Spec
=============================================================================
