--------------------------- MODULE RepoToolsProofs ---------------------------
(***************************************************************************)
(* RepoTools for any repository, any requests and any number of workers:   *)
(* complete enumerations are exact, and cached answers are fresh.  Both    *)
(* follow from an invariant of each job and one of the cache entries that  *)
(* jobs leave for each other.                                              *)
(***************************************************************************)
EXTENDS RepoTools, SequenceTheorems, FiniteSetTheorems, TLAPS

USE DEF Searches, Root

SearchResult == [found : SUBSET Files, errors : BOOLEAN, denied : BOOLEAN,
                 walkCut : BOOLEAN, cut : BOOLEAN, clear : SUBSET Files]
Dated == [at : Nat]

Job == [pc : {"idle", "stat", "lookup", "walk", "scan", "store", "run", "keep", "answer"},
        req : Requests \union {Idle.req}, time : Nat,
        dirs : SUBSET (SubDirs \union {Root}), todo : SUBSET Files,
        result : SearchResult \union Dated]

\* What a job holds at each of its stages.
JobShape(j) ==
  /\ j \in Job
  /\ j.pc # "idle" => j.req \in Requests
  /\ j.pc = "stat" => j.req.kind = "read"
  /\ j.pc = "lookup" => j.req.kind # "context"
  /\ j.pc \in {"stat", "lookup", "walk"} => j.result \in SearchResult /\ j.result.found = {}
  /\ j.pc \in {"walk", "scan", "store"} => j.req.kind \in Searches /\ j.result \in SearchResult
  /\ j.pc = "scan" => j.req.kind # "find"
  /\ j.pc \in {"run", "keep"} => j.req.kind \in {"read", "git"}
  /\ j.pc = "keep" => j.result \in Dated
  /\ j.pc = "answer" => IF j.req.kind \in Searches THEN j.result \in SearchResult
                                                   ELSE j.result \in Dated

\* The times a read or a git query carries.
JobTimely(j, d, now) ==
  /\ j.req.kind = "read" /\ j.pc \in {"lookup", "run"} => j.time <= d[j.req.file].mtime
  /\ j.req.kind = "read" /\ j.pc \in {"keep", "answer"} => j.time <= j.result.at
  /\ j.req.kind = "git" /\ j.pc \in {"run", "keep"} => j.time <= now
  /\ j.req.kind = "git" /\ j.pc = "answer" => j.time <= j.result.at + Ttl

\* A search that has to own up to something it did not see.
Incomplete(r, result) ==
  r.roles # {} \/ result.errors \/ result.denied \/ result.walkCut \/ result.cut

\* A search that found more than it may return is cut when it is stored.
Overflows(j) == j.pc \in {"scan", "store"} /\ ~(Cardinality(j.result.found) <= MaxResults)

\* Where a file of the boundary is accounted for: found, seen without the text,
\* still to be read, or in a directory still to be walked.
Accounted(j, f) ==
  \/ f \in j.result.found \union j.result.clear
  \/ j.pc \in {"walk", "scan"} /\ f \in j.todo
  \/ j.pc = "walk" /\ (Parent[f] \in j.dirs \/ Root \in j.dirs)

JobCovers(j, d) ==
  j.pc \in {"walk", "scan", "store"} =>
    /\ Clear(d, j.req) \subseteq j.result.clear
    /\ \/ Incomplete(j.req, j.result) \/ Overflows(j)
       \/ \A f \in InScope(j.req) \cap Searchable : Accounted(j, f)

\* A result that certifies its enumeration saw all of its boundary.
Exact(r, result) ==
  Incomplete(r, result) \/ InScope(r) \cap Searchable \subseteq result.found \union result.clear

JobExact(j) == j.pc = "answer" /\ j.req.kind \in Searches => Exact(j.req, j.result)

GoodJob(j, d, now) == JobShape(j) /\ JobTimely(j, d, now) /\ JobCovers(j, d) /\ JobExact(j)

\* What an entry promises to whoever hits it.
GoodEntry(k, e) ==
  /\ k.kind \in {"find", "grep"} =>
       /\ e.value \in SearchResult
       /\ \A r \in Requests : r.kind = k.kind /\ <<r.scope, r.roles>> = k.of => Exact(r, e.value)
  /\ k.kind = "read" => e.value \in Dated /\ k.at <= e.value.at
  /\ k.kind = "git" => e.value \in Dated /\ e.expires = {e.value.at + Ttl}

GoodCache(c) ==
  /\ c = [entries |-> c.entries, order |-> c.order, total |-> c.total]
  /\ \A k \in Cached(c) : GoodEntry(k, c.entries[k])

WorldOK ==
  /\ clock \in Nat
  /\ disk \in [Files -> [kind : Kinds, has : BOOLEAN, mtime : Nat]]
  /\ \A f \in Files : disk[f].mtime <= clock

RepoInv ==
  /\ WorldOK
  /\ DOMAIN job = Workers /\ job = [w \in Workers |-> job[w]]
  /\ GoodCache(cache)
  /\ \A w \in Workers : GoodJob(job[w], disk, clock)
-----------------------------------------------------------------------------
(* The cache: whatever is evicted or replaced, an entry is the one stored.  *)

\* What get() and set() take out is gone, and nothing else changes.
LEMMA LessIsGood ==
  ASSUME NEW c, NEW d, NEW S, GoodCache(c),
         d = [entries |-> d.entries, order |-> d.order, total |-> d.total],
         d.entries = Restrict(c.entries, Cached(c) \ S)
  PROVE  GoodCache(d)
<1>1. Cached(d) = Cached(c) \ S /\ \A k \in Cached(d) : d.entries[k] = c.entries[k]
  <2>1. PICK r : r = d.entries
    OBVIOUS
  <2>2. DOMAIN r = Cached(c) \ S /\ \A k \in Cached(c) \ S : r[k] = c.entries[k]
    BY <2>1 DEF Restrict, Cached
  <2>3. Cached(d) = DOMAIN r
    BY <2>1 DEF Cached
  <2> QED BY Zenon, <2>1, <2>2, <2>3
<1>2. \A k \in Cached(d) : GoodEntry(k, d.entries[k])
  BY <1>1 DEF GoodCache
<1> QED BY Zenon, <1>2 DEF GoodCache

LEMMA GetKeeps ==
  ASSUME NEW c, NEW k, NEW now, GoodCache(c)
  PROVE  GoodCache(AfterGet(c, k, now))
<1>1. CASE k \notin Cached(c)
  BY <1>1 DEF AfterGet
<1>2. CASE k \in Cached(c) /\ Expired(c.entries[k], now)
  BY <1>2, LessIsGood DEF AfterGet, Removed
<1>3. CASE k \in Cached(c) /\ ~Expired(c.entries[k], now)
  BY <1>3 DEF AfterGet, GoodCache, Cached
<1> QED BY <1>1, <1>2, <1>3

LEMMA SetKeeps ==
  ASSUME NEW c, NEW k, NEW e, GoodCache(c), GoodEntry(k, e)
  PROVE  GoodCache(AfterSet(c, k, e))
<1> DEFINE replaced == IF k \in Cached(c) THEN Removed(c, k) ELSE c
           roomy == AfterEviction(replaced, e.size)
<1>1. GoodCache(replaced)
  BY LessIsGood DEF Removed
<1> HIDE DEF replaced
<1>2. GoodCache(roomy)
  BY <1>1, LessIsGood DEF AfterEviction
<1> HIDE DEF roomy
<1>3. GoodCache(Inserted(roomy, k, e))
  BY <1>2 DEF GoodCache, Inserted, Cached
<1>4. AfterSet(c, k, e) = IF e.size <= MaxBytes THEN Inserted(roomy, k, e) ELSE roomy
  BY DEF AfterSet, roomy, replaced
<1> QED BY <1>2, <1>3, <1>4
-----------------------------------------------------------------------------
(* The jobs: a step of one worker leaves the others alone.                  *)

LEMMA OneJob ==
  ASSUME RepoInv, NEW w \in Workers, NEW j, job' = [job EXCEPT ![w] = j],
         GoodJob(j, disk, clock), UNCHANGED <<disk, clock>>, GoodCache(cache)'
  PROVE  RepoInv'
<1>1. job'[w] = j /\ \A v \in Workers \ {w} : job'[v] = job[v]
  BY DEF RepoInv
<1>2. \A v \in Workers : GoodJob(job'[v], disk', clock')
  BY <1>1 DEF RepoInv
<1>3. DOMAIN job' = Workers /\ job' = [v \in Workers |-> job'[v]]
  BY DEF RepoInv
<1>4. WorldOK'
  BY DEF RepoInv, WorldOK
<1> QED BY <1>2, <1>3, <1>4 DEF RepoInv

LEMMA InitRepo == Init => RepoInv
<1> SUFFICES ASSUME Init PROVE RepoInv
  OBVIOUS
<1>1. WorldOK
  <2>1. ASSUME NEW f \in Files
        PROVE  disk[f] \in [kind : Kinds, has : BOOLEAN, mtime : Nat] /\ disk[f].mtime = 0
    <3>1. disk[f] \in [kind : {"text"}, has : {FALSE}, mtime : {0}]
      BY DEF Init
    <3>2. disk[f] = [kind |-> "text", has |-> FALSE, mtime |-> 0]
      BY <3>1
    <3> QED BY <3>2 DEF Kinds
  <2>2. disk \in [Files -> [kind : Kinds, has : BOOLEAN, mtime : Nat]]
    <3>1. DOMAIN disk = Files /\ disk = [f \in Files |-> disk[f]]
      BY DEF Init
    <3> QED BY <2>1, <3>1
  <2> QED BY <2>1, <2>2 DEF Init, WorldOK
<1>2. GoodCache(cache)
  BY DEF Init, GoodCache, Cached, EmptyCache
<1>3. GoodJob(Idle, disk, clock)
  BY DEF Idle, GoodJob, JobShape, JobTimely, JobCovers, JobExact, Job, SearchResult, NoResult
<1> QED BY <1>1, <1>2, <1>3 DEF Init, RepoInv

\* The clock moves on: what a git job remembers stays in the past.
LEMMA TickInv == RepoInv /\ Tick => RepoInv'
<1> SUFFICES ASSUME RepoInv, Tick PROVE RepoInv'
  OBVIOUS
<1>1. clock' = clock + 1 /\ UNCHANGED <<disk, cache, job>>
  BY DEF Tick
<1>2. WorldOK'
  BY <1>1 DEF RepoInv, WorldOK
<1>3. ASSUME NEW w \in Workers PROVE GoodJob(job'[w], disk', clock')
  <2>1. GoodJob(job[w], disk, clock) /\ clock \in Nat
    BY DEF RepoInv, WorldOK
  <2>2. JobTimely(job[w], disk, clock')
    BY <1>1, <2>1 DEF GoodJob, JobTimely, JobShape, Job
  <2> QED BY <1>1, <2>1, <2>2 DEF GoodJob
<1> QED BY <1>1, <1>2, <1>3 DEF RepoInv

\* An edit: the file gets newer, and the searches in progress have seen what it
\* held after the edit.
LEMMA WriteInv ==
  ASSUME RepoInv, NEW g \in Files, Write(g) PROVE RepoInv'
<1>1. /\ UNCHANGED <<clock, cache>> /\ job' = SeenClear(disk')
      /\ \E k \in Kinds, h \in BOOLEAN :
           disk' = [disk EXCEPT ![g] = [kind |-> k, has |-> h, mtime |-> clock]]
  BY DEF Write
<1>2. WorldOK' /\ \A f \in Files : disk[f].mtime <= disk'[f].mtime
  BY <1>1 DEF RepoInv, WorldOK
<1>3. ASSUME NEW w \in Workers PROVE GoodJob(job'[w], disk', clock')
  <2>1. GoodJob(job[w], disk, clock)
    BY DEF RepoInv
  <2>2. JobTimely(job[w], disk', clock)
    <3>1. ASSUME job[w].req.kind = "read", job[w].pc \in {"lookup", "run"}
          PROVE  job[w].time <= disk'[job[w].req.file].mtime
      <4>1. job[w].req.file \in Files /\ job[w].time \in Nat
        BY <3>1, <2>1, RequestAssumption DEF GoodJob, JobShape, Job
      <4>2. job[w].time <= disk[job[w].req.file].mtime
        BY <3>1, <2>1 DEF GoodJob, JobTimely
      <4> QED BY <4>1, <4>2, <1>2 DEF RepoInv, WorldOK
    <3> QED BY <3>1, <2>1 DEF GoodJob, JobTimely
  <2>3. CASE job[w].pc \in {"walk", "scan", "store"} /\ job[w].req.kind \in Searches
    <3> DEFINE seen == job[w].result.clear \union Clear(disk', job[w].req)
               j == [job[w] EXCEPT !.result.clear = seen]
    <3>1. job'[w] = j
      BY <1>1, <2>3 DEF SeenClear
    <3>2. seen \subseteq Files
      BY <2>1, <2>3 DEF GoodJob, JobShape, SearchResult, Clear
    <3>3. JobShape(j)
      BY <2>1, <2>3, <3>2 DEF GoodJob, JobShape, Job, SearchResult
    <3>4. /\ j.pc = job[w].pc /\ j.req = job[w].req /\ j.time = job[w].time
          /\ j.todo = job[w].todo /\ j.dirs = job[w].dirs
          /\ j.result.found = job[w].result.found /\ j.result.clear = seen
          /\ Incomplete(j.req, j.result) = Incomplete(job[w].req, job[w].result)
      BY <2>1, <2>3 DEF GoodJob, JobShape, Job, SearchResult, Incomplete
    <3> HIDE DEF j
    <3>5. JobCovers(j, disk')
      BY <3>4, <2>1, <2>3 DEF GoodJob, JobCovers, Overflows, Accounted
    <3>6. JobTimely(j, disk', clock)
      BY <3>4, <2>2, <2>3 DEF JobTimely
    <3> QED BY <1>1, <2>3, <3>1, <3>3, <3>4, <3>5, <3>6 DEF GoodJob, JobExact
  <2>4. CASE ~(job[w].pc \in {"walk", "scan", "store"} /\ job[w].req.kind \in Searches)
    <3>1. job'[w] = job[w]
      BY <1>1, <2>4 DEF SeenClear
    <3>2. JobCovers(job[w], disk')
      BY <2>1, <2>4 DEF GoodJob, JobShape, JobCovers
    <3> QED BY <1>1, <2>1, <2>2, <3>1, <3>2 DEF GoodJob
  <2> QED BY <2>3, <2>4
<1>4. DOMAIN job' = Workers /\ job' = [w \in Workers |-> job'[w]]
  BY <1>1 DEF SeenClear
<1> QED BY <1>1, <1>2, <1>3, <1>4 DEF RepoInv

LEMMA StartInv ==
  ASSUME RepoInv, NEW w \in Workers, NEW r \in Requests, Start(w, r) PROVE RepoInv'
<1> DEFINE searching == [Idle EXCEPT !.pc = "walk", !.req = r, !.dirs = {Root},
                                     !.result.clear = Clear(disk, r)]
           asking == [Idle EXCEPT !.pc = IF r.kind = "read" THEN "stat" ELSE "lookup",
                                  !.req = r]
<1>0. Idle \in Job /\ Idle.result = NoResult /\ Idle.time = 0 /\ NoResult \in SearchResult
      /\ NoResult.found = {}
  BY DEF Idle, Job, NoResult, SearchResult
<1>1. CASE r.kind = "context"
  <2>1. job' = [job EXCEPT ![w] = searching]
    BY <1>1 DEF Start
  <2>2. [NoResult EXCEPT !.clear = Clear(disk, r)] \in SearchResult
    BY <1>0 DEF SearchResult, Clear
  <2>3. /\ searching.pc = "walk" /\ searching.req = r /\ searching.dirs = {Root}
        /\ searching.result = [NoResult EXCEPT !.clear = Clear(disk, r)]
    BY <1>0 DEF Job
  <2>4. searching \in Job
    BY <1>0, <2>2 DEF Job, SearchResult
  <2> HIDE DEF searching
  <2>5. searching.result.clear = Clear(disk, r) /\ searching.result.found = {}
    BY <1>0, <2>3 DEF SearchResult
  <2>6. GoodJob(searching, disk, clock)
    BY <1>1, <2>2, <2>3, <2>4, <2>5
    DEF GoodJob, JobShape, JobTimely, JobCovers, JobExact, Accounted
  <2> QED BY <2>1, <2>6, OneJob DEF Start, RepoInv
<1>2. CASE r.kind # "context"
  <2>1. job' = [job EXCEPT ![w] = asking]
    BY <1>2 DEF Start
  <2>2. /\ asking.pc = IF r.kind = "read" THEN "stat" ELSE "lookup"
        /\ asking.req = r /\ asking.time = 0 /\ asking.result = NoResult /\ asking \in Job
    BY <1>0 DEF Job
  <2> HIDE DEF asking
  <2>3. r.kind = "read" => asking.pc = "stat"
    BY <2>2
  <2>4. GoodJob(asking, disk, clock)
    BY <1>0, <1>2, <2>2, <2>3 DEF GoodJob, JobShape, JobTimely, JobCovers, JobExact
  <2> QED BY <2>1, <2>4, OneJob DEF Start, RepoInv
<1> QED BY <1>1, <1>2

\* A file only ever gets newer than the time a read took.
LEMMA StatInv == ASSUME RepoInv, NEW w \in Workers, Stat(w) PROVE RepoInv'
<1> DEFINE time == StatTime(job[w].req.file)
           j == [job[w] EXCEPT !.pc = "lookup", !.time = time]
<1>1. job' = [job EXCEPT ![w] = j] /\ GoodJob(job[w], disk, clock) /\ job[w].pc = "stat"
  BY DEF Stat, RepoInv
<1>2. job[w].req.kind = "read" /\ job[w].req.file \in Files
  BY <1>1, RequestAssumption DEF GoodJob, JobShape
<1>3. time \in Nat /\ time <= disk[job[w].req.file].mtime
  BY <1>2 DEF StatTime, RepoInv, WorldOK
<1> HIDE DEF time
<1>4. /\ j \in Job /\ j.pc = "lookup" /\ j.req = job[w].req /\ j.time = time
      /\ j.result = job[w].result
  BY <1>1, <1>3 DEF GoodJob, JobShape, Job
<1> HIDE DEF j
<1>5. GoodJob(j, disk, clock)
  BY <1>1, <1>2, <1>3, <1>4 DEF GoodJob, JobShape, JobTimely, JobCovers, JobExact
<1> QED BY <1>1, <1>5, OneJob DEF Stat, RepoInv

\* A hit hands over what the entry promises; a miss of a search has seen nothing
\* and has the whole tree to walk.
LEMMA LookupInv == ASSUME RepoInv, NEW w \in Workers, Lookup(w) PROVE RepoInv'
<1> DEFINE j == IF job[w].req.kind = "git" THEN [job[w] EXCEPT !.time = clock] ELSE job[w]
           k == Key(j)
           value == cache.entries[k].value
           hit == [j EXCEPT !.pc = "answer", !.result = value]
<1>1. /\ job[w].pc = "lookup" /\ cache' = AfterGet(cache, k, clock)
      /\ job' = [job EXCEPT ![w] = IF Hit(cache, k, clock) THEN hit ELSE Begun(j)]
      /\ UNCHANGED <<disk, clock>>
  BY DEF Lookup
<1>2. GoodJob(job[w], disk, clock) /\ clock \in Nat
  BY DEF RepoInv, WorldOK
<1>3. /\ j \in Job /\ j.req = job[w].req /\ j.pc = "lookup"
      /\ j.req.kind = "git" => j.time = clock
      /\ j.req.kind # "git" => j = job[w]
  BY <1>1, <1>2 DEF GoodJob, JobShape, Job
<1> HIDE DEF j
<1>4. /\ j.req \in Requests /\ j.req.kind \in {"find", "grep", "read", "git"}
      /\ j.req.kind = "read" => j.time <= disk[j.req.file].mtime
  BY <1>1, <1>2, <1>3, RequestAssumption DEF GoodJob, JobShape, JobTimely
<1>5. GoodCache(cache')
  BY <1>1, GetKeeps DEF RepoInv
<1>6. CASE Hit(cache, k, clock)
  <2>1. GoodEntry(k, cache.entries[k]) /\ ~Expired(cache.entries[k], clock)
    BY <1>6 DEF Hit, RepoInv, GoodCache
  <2>2. j.req.kind \in {"find", "grep"} => value \in SearchResult /\ Exact(j.req, value)
    BY <2>1, <1>4 DEF Key, GoodEntry
  <2>3. j.req.kind = "read" => value \in Dated /\ j.time <= value.at
    BY <2>1, <1>4 DEF Key, GoodEntry
  <2>4. j.req.kind = "git" => value \in Dated /\ j.time <= value.at + Ttl
    <3> SUFFICES ASSUME j.req.kind = "git" PROVE value \in Dated /\ j.time <= value.at + Ttl
      OBVIOUS
    <3>1. value \in Dated /\ cache.entries[k].expires = {value.at + Ttl}
      BY <2>1 DEF Key, GoodEntry
    <3> QED BY <1>2, <1>3, <2>1, <3>1, RepoAssumption DEF Expired, Dated
  <2> HIDE DEF k, value
  <2>5. value \in SearchResult \union Dated
    BY <1>4, <2>2, <2>3, <2>4
  <2>6. /\ hit \in Job /\ hit.pc = "answer" /\ hit.req = j.req /\ hit.time = j.time
        /\ hit.result = value
    BY <1>3, <2>5 DEF Job
  <2> HIDE DEF hit
  <2>7. GoodJob(hit, disk, clock)
    BY <1>4, <2>2, <2>3, <2>4, <2>6 DEF GoodJob, JobShape, JobTimely, JobCovers, JobExact
  <2> QED BY <1>1, <1>5, <1>6, <2>7, OneJob
<1>7. CASE ~Hit(cache, k, clock)
  <2> DEFINE i == Begun(j)
  <2>1. job' = [job EXCEPT ![w] = i]
    BY <1>1, <1>7
  <2>2. CASE j.req.kind \in {"find", "grep"}
    <3>1. i = [j EXCEPT !.pc = "walk", !.dirs = {Root}, !.result.clear = Clear(disk, j.req)]
      BY <2>2 DEF Begun
    <3>2. j.result \in SearchResult /\ j.result.found = {}
      BY <1>1, <1>2, <1>3, <2>2 DEF GoodJob, JobShape
    <3> HIDE DEF i
    <3>3. i \in Job /\ i.pc = "walk" /\ i.req = j.req /\ i.dirs = {Root}
      <4>1. [j.result EXCEPT !.clear = Clear(disk, j.req)] \in SearchResult
        BY <3>2 DEF SearchResult, Clear
      <4> QED BY <1>3, <3>1, <4>1 DEF Job
    <3>4. i.result = [j.result EXCEPT !.clear = Clear(disk, j.req)]
      BY <1>3, <3>1 DEF Job
    <3>5. /\ i.result \in SearchResult /\ i.result.clear = Clear(disk, j.req)
          /\ i.result.found = {}
      BY <3>2, <3>4 DEF SearchResult, Clear
    <3>6. GoodJob(i, disk, clock)
      BY <1>4, <2>2, <3>3, <3>5
      DEF GoodJob, JobShape, JobTimely, JobCovers, JobExact, Accounted
    <3> QED BY <1>1, <1>5, <2>1, <3>6, OneJob
  <2>3. CASE j.req.kind \in {"read", "git"}
    <3>1. i = [j EXCEPT !.pc = "run"]
      BY <2>3 DEF Begun
    <3> HIDE DEF i
    <3>2. i \in Job /\ i.pc = "run" /\ i.req = j.req /\ i.time = j.time
      BY <1>3, <3>1 DEF Job
    <3>3. j.req.kind = "git" => j.time <= clock
      BY <1>2, <1>3
    <3>4. GoodJob(i, disk, clock)
      BY <1>4, <2>3, <3>2, <3>3 DEF GoodJob, JobShape, JobTimely, JobCovers, JobExact
    <3> QED BY <1>1, <1>5, <2>1, <3>4, OneJob
  <2> QED BY <1>4, <2>2, <2>3
<1> QED BY <1>6, <1>7

\* A flag raised on a result changes nothing else.
LEMMA FlagErrors ==
  ASSUME NEW r \in SearchResult, NEW x, x = [r EXCEPT !.errors = TRUE]
  PROVE  x \in SearchResult /\ x.errors /\ x.clear = r.clear /\ x.found = r.found
<1>1. x \in SearchResult /\ x.clear = r.clear /\ x.found = r.found
  BY DEF SearchResult
<1>2. x.errors = TRUE
  BY DEF SearchResult
<1> QED BY <1>1, <1>2

LEMMA FlagCut ==
  ASSUME NEW r \in SearchResult, NEW x, x = [r EXCEPT !.cut = TRUE]
  PROVE  x \in SearchResult /\ x.cut /\ x.clear = r.clear /\ x.found = r.found
<1>1. x \in SearchResult /\ x.clear = r.clear /\ x.found = r.found
  BY DEF SearchResult
<1>2. x.cut = TRUE
  BY DEF SearchResult
<1> QED BY <1>1, <1>2

\* What an unreadable directory hides is not certified.
LEMMA WalkFailsInv == ASSUME RepoInv, NEW w \in Workers, WalkFails(w) PROVE RepoInv'
<1>1. PICK d \in job[w].dirs :
        job' = [job EXCEPT ![w] = [job[w] EXCEPT !.dirs = @ \ {d}, !.result.errors = TRUE]]
  BY DEF WalkFails
<1> DEFINE j == [job[w] EXCEPT !.dirs = @ \ {d}, !.result.errors = TRUE]
<1>2. job' = [job EXCEPT ![w] = j] /\ job[w].pc = "walk" /\ GoodJob(job[w], disk, clock)
  BY <1>1 DEF WalkFails, RepoInv
<1>3. /\ job[w] \in Job /\ job[w].req.kind \in Searches
      /\ job[w].result \in SearchResult /\ job[w].result.found = {}
  BY <1>2 DEF GoodJob, JobShape
<1>4. j \in Job /\ j.pc = "walk" /\ j.req = job[w].req
  BY <1>2, <1>3 DEF Job, SearchResult
<1>5. j.result = [job[w].result EXCEPT !.errors = TRUE]
  BY <1>3 DEF Job
<1>6. /\ j.result \in SearchResult /\ j.result.errors /\ j.result.clear = job[w].result.clear
      /\ j.result.found = job[w].result.found
  BY <1>3, <1>5, FlagErrors
<1> HIDE DEF j
<1>7. GoodJob(j, disk, clock)
  BY <1>2, <1>3, <1>4, <1>6
  DEF GoodJob, JobShape, JobTimely, JobCovers, JobExact, Incomplete
<1> QED BY <1>2, <1>7, OneJob DEF WalkFails, RepoInv

\* Walking a directory accounts for each of its files: it is still to be read,
\* does not exist now, is out of bounds by configuration, or the result says why
\* it is missing.  Its subdirectories are still to be walked, or alike.
LEMMA WalkDirInv == ASSUME RepoInv, NEW w \in Workers, WalkDir(w) PROVE RepoInv'
<1> DEFINE r == job[w].req
           more(d) == Walkable(r, d)
           files(d) == job[w].todo \union (more(d) \cap Files)
           over(d) == Cardinality(files(d)) > MaxWalk
           secret(d) == \E e \in Entries(d) \cap Secret : Relevant(r, e)
           link(d) == \E e \in Entries(d) \cap (Links \ Secret) : Relevant(r, e)
           walked(d) == [job[w] EXCEPT !.result.denied = @ \/ secret(d),
                                       !.result.errors = @ \/ link(d),
                                       !.result.walkCut = @ \/ over(d)]
<1>1. PICK d \in job[w].dirs : \E kept \in IF over(d) THEN kSubset(MaxWalk, files(d)) ELSE {files(d)} :
        job' = [job EXCEPT ![w] =
          [walked(d) EXCEPT !.todo = kept,
             !.dirs = IF over(d) THEN {} ELSE (@ \ {d}) \union (more(d) \cap SubDirs)]]
  BY DEF WalkDir
<1>2. PICK kept \in IF over(d) THEN kSubset(MaxWalk, files(d)) ELSE {files(d)} :
        job' = [job EXCEPT ![w] =
          [walked(d) EXCEPT !.todo = kept,
             !.dirs = IF over(d) THEN {} ELSE (@ \ {d}) \union (more(d) \cap SubDirs)]]
  BY <1>1
<1> DEFINE dirs == IF over(d) THEN {} ELSE (walked(d).dirs \ {d}) \union (more(d) \cap SubDirs)
           j == [walked(d) EXCEPT !.todo = kept, !.dirs = dirs]
           result == [job[w].result EXCEPT !.denied = @ \/ secret(d), !.errors = @ \/ link(d),
                                           !.walkCut = @ \/ over(d)]
<1>3. job' = [job EXCEPT ![w] = j] /\ job[w].pc = "walk" /\ GoodJob(job[w], disk, clock)
  BY <1>2 DEF WalkDir, RepoInv
<1>4. job[w] \in Job /\ job[w].result \in SearchResult /\ r.kind \in Searches
  BY <1>3 DEF GoodJob, JobShape
<1>5. kept \subseteq files(d) /\ (~over(d) => kept = files(d)) /\ files(d) \subseteq Files
  BY <1>4 DEF kSubset, Job
<1>6. secret(d) \in BOOLEAN /\ link(d) \in BOOLEAN /\ over(d) \in BOOLEAN
  OBVIOUS
<1>7. /\ result \in SearchResult
      /\ result.found = job[w].result.found /\ result.clear = job[w].result.clear
      /\ result.cut = job[w].result.cut
      /\ secret(d) \/ job[w].result.denied => result.denied
      /\ link(d) \/ job[w].result.errors => result.errors
      /\ over(d) \/ job[w].result.walkCut => result.walkCut
  <2> HIDE DEF secret, link, over
  <2> QED BY <1>4, <1>6 DEF SearchResult
<1>8. /\ walked(d) \in Job /\ walked(d).result = result
      /\ walked(d).dirs = job[w].dirs /\ walked(d).pc = "walk" /\ walked(d).req = r
  <2> HIDE DEF secret, link, over
  <2>1. /\ walked(d).result = result
        /\ walked(d).dirs = job[w].dirs /\ walked(d).pc = "walk" /\ walked(d).req = r
    BY <1>3, <1>4 DEF Job
  <2>2. walked(d) \in Job
    BY <1>4, <1>7 DEF Job
  <2> QED BY <2>1, <2>2
<1> HIDE DEF walked, result
<1>9. dirs = IF over(d) THEN {} ELSE (job[w].dirs \ {d}) \union (more(d) \cap SubDirs)
  BY <1>8
<1>10. dirs \subseteq SubDirs \union {Root}
  BY <1>4, <1>9 DEF Job
<1> HIDE DEF dirs
<1>11. /\ j.pc = "walk" /\ j.req = r /\ j.todo = kept /\ j.dirs = dirs /\ j.result = result
       /\ j \in Job
  BY <1>5, <1>8, <1>10 DEF Job
<1> HIDE DEF j
<1>12. Clear(disk, r) \subseteq result.clear
  BY <1>3, <1>7 DEF GoodJob, JobCovers
<1>13. Incomplete(r, job[w].result) => Incomplete(r, result)
  BY <1>7 DEF Incomplete
<1>14. ~Overflows(job[w])
  BY <1>3 DEF Overflows
<1>15. ASSUME over(d) \/ secret(d) \/ link(d) PROVE Incomplete(r, result)
  BY <1>7, <1>15 DEF Incomplete
<1>16. ASSUME ~over(d), ~secret(d), ~link(d), NEW f \in InScope(r) \cap Searchable,
              Accounted(job[w], f)
       PROVE  Accounted(j, f)
  <2>1. f \in Files /\ f \notin Ignored /\ Parent[f] \notin Ignored /\ f \notin SubDirs
    BY RepoAssumption DEF Searchable
  <2>2. CASE f \in job[w].result.found \union job[w].result.clear \/ f \in job[w].todo
    BY <2>2, <1>5, <1>7, <1>11, <1>16 DEF Accounted
  <2>3. CASE Parent[f] = d
    <3>1. CASE disk[f].kind = "none"
      BY <3>1, <2>1, <1>7, <1>11, <1>12 DEF Clear, Holds, Accounted
    <3>2. CASE disk[f].kind # "none"
      <4>1. f \in Entries(d) /\ Relevant(r, f)
        BY <3>2, <2>1, <2>3 DEF Entries, Relevant
      <4>2. f \in more(d)
        BY <4>1, <2>1, <1>16 DEF Walkable
      <4> QED BY <4>2, <2>1, <1>5, <1>11, <1>16 DEF Accounted
    <3> QED BY <3>1, <3>2
  <2>4. CASE d = Root /\ Parent[f] # Root
    <3>1. Parent[f] \in SubDirs /\ Parent[f] \notin Files /\ Parent[Parent[f]] = Root
      BY <2>1, <2>4, RepoAssumption
    <3>2. Parent[f] \in Entries(d) /\ Relevant(r, Parent[f])
      BY <3>1, <2>1, <2>4 DEF Entries, Relevant, MayContain
    <3>3. Parent[f] \in more(d)
      BY <3>2, <2>1, <1>16 DEF Walkable
    <3> QED BY <3>1, <3>3, <1>9, <1>11, <1>16 DEF Accounted
  <2>5. CASE (Parent[f] \in job[w].dirs \/ Root \in job[w].dirs) /\ Parent[f] # d /\ d # Root
    BY <2>5, <1>9, <1>11, <1>16 DEF Accounted
  <2> QED BY <2>2, <2>3, <2>4, <2>5, <1>16 DEF Accounted
<1>17. JobCovers(j, disk)
  <2> HIDE DEF over, secret, link, r
  <2> QED BY <1>3, <1>11, <1>12, <1>13, <1>14, <1>15, <1>16
             DEF GoodJob, JobCovers, r
<1>18. GoodJob(j, disk, clock)
  BY <1>4, <1>7, <1>11, <1>17, <1>3 DEF GoodJob, JobShape, JobTimely, JobExact
<1> QED BY <1>3, <1>18, OneJob DEF WalkDir, RepoInv

\* findFiles returns what was walked; the other searches go on to read it.
LEMMA WalkDoneInv == ASSUME RepoInv, NEW w \in Workers, WalkDone(w) PROVE RepoInv'
<1> DEFINE named == [job[w] EXCEPT !.pc = "store", !.todo = {}, !.result.found = job[w].todo]
           reading == [job[w] EXCEPT !.pc = "scan"]
<1>1. /\ job' = [job EXCEPT ![w] = IF job[w].req.kind = "find" THEN named ELSE reading]
      /\ job[w].pc = "walk" /\ job[w].dirs = {} /\ GoodJob(job[w], disk, clock)
  BY DEF WalkDone, RepoInv
<1>2. /\ job[w] \in Job /\ job[w].result \in SearchResult
      /\ job[w].req.kind \in Searches /\ job[w].req \in Requests
  BY <1>1 DEF GoodJob, JobShape
<1>3. CASE job[w].req.kind = "find"
  <2>1. named.pc = "store" /\ named.req = job[w].req /\ named.time = job[w].time
        /\ named.result = [job[w].result EXCEPT !.found = job[w].todo]
    BY <1>2 DEF Job
  <2>2. [job[w].result EXCEPT !.found = job[w].todo] \in SearchResult
    BY <1>2 DEF Job, SearchResult
  <2>3. named \in Job
    BY <1>2, <2>2 DEF Job
  <2> HIDE DEF named
  <2>4. /\ named.result.found = job[w].todo /\ named.result.clear = job[w].result.clear
        /\ Incomplete(named.req, named.result) = Incomplete(job[w].req, job[w].result)
    BY <1>2, <2>1 DEF SearchResult, Incomplete
  <2>5. JobCovers(named, disk)
    BY <1>1, <2>1, <2>4 DEF GoodJob, JobShape, JobCovers, Overflows, Accounted
  <2>6. GoodJob(named, disk, clock)
    BY <1>2, <1>3, <2>1, <2>2, <2>3, <2>5 DEF GoodJob, JobShape, JobTimely, JobExact
  <2> QED BY <1>1, <1>3, <2>6, OneJob DEF WalkDone, RepoInv
<1>4. CASE job[w].req.kind # "find"
  <2>1. reading \in Job /\ reading.pc = "scan" /\ reading.req = job[w].req
        /\ reading.time = job[w].time /\ reading.result = job[w].result
        /\ reading.todo = job[w].todo
    BY <1>2 DEF Job
  <2> HIDE DEF reading
  <2>2. JobCovers(reading, disk)
    BY <1>1, <2>1 DEF GoodJob, JobCovers, Overflows, Accounted
  <2>3. GoodJob(reading, disk, clock)
    BY <1>2, <1>4, <2>1, <2>2 DEF GoodJob, JobShape, JobTimely, JobExact
  <2> QED BY <1>1, <1>4, <2>3, OneJob DEF WalkDone, RepoInv
<1> QED BY <1>3, <1>4

\* Every way to be done with a file accounts for it: a match, the text not being
\* there, or a flag of the result.
LEMMA ScanFileInv == ASSUME RepoInv, NEW w \in Workers, ScanFile(w) PROVE RepoInv'
<1> DEFINE r == job[w].req
           old == job[w].result
<1>1. PICK f \in job[w].todo :
        LET j == job[w]
            found == j.result.found \union {f}
            next == [j EXCEPT !.todo = @ \ {f}]
        IN \/ OutOfRole(j.req, f) /\ job' = [job EXCEPT ![w] = next]
           \/ job' = [job EXCEPT ![w] = [next EXCEPT !.result.errors = TRUE]]
           \/ job' = [job EXCEPT ![w] = [next EXCEPT !.result.cut = TRUE]]
           \/ job' = [job EXCEPT ![w] =
                IF ~disk[f].has THEN next
                ELSE IF Cardinality(found) > MaxResults
                THEN [next EXCEPT !.result.found = found, !.todo = {}]
                ELSE [next EXCEPT !.result.found = found]]
  BY DEF ScanFile
<1> DEFINE found == old.found \union {f}
           next == [job[w] EXCEPT !.todo = @ \ {f}]
<1>2. job[w].pc = "scan" /\ GoodJob(job[w], disk, clock) /\ UNCHANGED <<disk, clock, cache>>
  BY DEF ScanFile, RepoInv
<1>3. /\ job[w] \in Job /\ old \in SearchResult /\ f \in Files
      /\ r.kind \in Searches \ {"find"} /\ r \in Requests
  BY <1>2 DEF GoodJob, JobShape, Job
<1>4. /\ next \in Job /\ next.pc = "scan" /\ next.req = r /\ next.time = job[w].time
      /\ next.todo = job[w].todo \ {f} /\ next.result = old
  BY <1>2, <1>3 DEF Job
<1>5. /\ Clear(disk, r) \subseteq old.clear
      /\ \/ Incomplete(r, old) \/ Overflows(job[w])
         \/ \A g \in InScope(r) \cap Searchable : Accounted(job[w], g)
  BY <1>2 DEF GoodJob, JobCovers
\* A job in the same stage that covers its boundary is good.
<1>6. ASSUME NEW j \in Job, j.pc = "scan", j.req = r, j.result \in SearchResult,
             JobCovers(j, disk)
      PROVE  GoodJob(j, disk, clock)
  BY <1>3, <1>6 DEF GoodJob, JobShape, JobTimely, JobExact
<1> SUFFICES \E j \in Job :
     /\ job' = [job EXCEPT ![w] = j] /\ j.pc = "scan" /\ j.req = r
     /\ j.result \in SearchResult /\ JobCovers(j, disk)
  BY <1>2, <1>6, OneJob DEF RepoInv
<1>7. CASE OutOfRole(r, f) /\ job' = [job EXCEPT ![w] = next]
  <2>1. JobCovers(next, disk)
    BY <1>4, <1>5, <1>7 DEF JobCovers, OutOfRole, Incomplete
  <2> QED BY <1>3, <1>4, <1>7, <2>1
<1>8. CASE job' = [job EXCEPT ![w] = [next EXCEPT !.result.errors = TRUE]]
  <2> DEFINE j == [next EXCEPT !.result.errors = TRUE]
  <2> HIDE DEF next
  <2>1. j \in Job /\ j.pc = "scan" /\ j.req = r /\ j.result = [old EXCEPT !.errors = TRUE]
    BY <1>3, <1>4 DEF Job, SearchResult
  <2>2. j.result \in SearchResult /\ j.result.errors /\ j.result.clear = old.clear
    BY <1>3, <2>1, FlagErrors
  <2> HIDE DEF j
  <2>3. JobCovers(j, disk)
    BY <1>5, <2>1, <2>2 DEF JobCovers, Incomplete
  <2> QED BY <1>8, <2>1, <2>2, <2>3 DEF j
<1>9. CASE job' = [job EXCEPT ![w] = [next EXCEPT !.result.cut = TRUE]]
  <2> DEFINE j == [next EXCEPT !.result.cut = TRUE]
  <2> HIDE DEF next
  <2>1. j \in Job /\ j.pc = "scan" /\ j.req = r /\ j.result = [old EXCEPT !.cut = TRUE]
    BY <1>3, <1>4 DEF Job, SearchResult
  <2>2. j.result \in SearchResult /\ j.result.cut /\ j.result.clear = old.clear
    BY <1>3, <2>1, FlagCut
  <2> HIDE DEF j
  <2>3. JobCovers(j, disk)
    BY <1>5, <2>1, <2>2 DEF JobCovers, Incomplete
  <2> QED BY <1>9, <2>1, <2>2, <2>3 DEF j
<1>10. CASE ~disk[f].has /\ job' = [job EXCEPT ![w] = next]
  <2>1. f \in old.clear
    BY <1>3, <1>5, <1>10 DEF Clear, Holds
  <2>2. Overflows(job[w]) => Overflows(next)
    BY <1>2, <1>4 DEF Overflows
  <2>3. \A g : Accounted(job[w], g) => Accounted(next, g)
    BY <1>2, <1>4, <2>1 DEF Accounted
  <2>4. JobCovers(next, disk)
    BY <1>4, <1>5, <2>2, <2>3 DEF JobCovers
  <2> QED BY <1>3, <1>4, <1>10, <2>4
<1>11. CASE Cardinality(found) > MaxResults
              /\ job' = [job EXCEPT ![w] = [next EXCEPT !.result.found = found, !.todo = {}]]
  <2> DEFINE j == [next EXCEPT !.result.found = found, !.todo = {}]
  <2>1. found \subseteq Files
    BY <1>3 DEF SearchResult
  <2>2. Cardinality(found) \in Nat
    BY <2>1, RepoAssumption, FS_Subset, FS_CardinalityType
  <2>3. ~(Cardinality(found) <= MaxResults)
    BY <1>11, <2>2, RepoAssumption
  <2> HIDE DEF next, found
  <2>4. j \in Job /\ j.pc = "scan" /\ j.req = r /\ j.result = [old EXCEPT !.found = found]
    BY <1>3, <1>4, <2>1 DEF Job, SearchResult
  <2>5. j.result \in SearchResult /\ j.result.found = found /\ j.result.clear = old.clear
    BY <1>3, <2>1, <2>4 DEF SearchResult
  <2> HIDE DEF j
  <2>6. JobCovers(j, disk)
    BY <1>5, <2>3, <2>4, <2>5 DEF JobCovers, Overflows
  <2> QED BY <1>11, <2>4, <2>5, <2>6 DEF j
<1>12. CASE job' = [job EXCEPT ![w] = [next EXCEPT !.result.found = found]]
  <2> DEFINE j == [next EXCEPT !.result.found = found]
  <2>1. found \subseteq Files /\ old.found \subseteq found /\ f \in found
    BY <1>3 DEF SearchResult
  <2>2. Overflows(job[w]) => ~(Cardinality(found) <= MaxResults)
    <3>1. Cardinality(old.found) \in Nat /\ Cardinality(found) \in Nat
          /\ Cardinality(old.found) <= Cardinality(found)
      BY <2>1, RepoAssumption, FS_Subset, FS_CardinalityType
    <3> QED BY <3>1, RepoAssumption DEF Overflows
  <2> HIDE DEF next, found
  <2>3. /\ j \in Job /\ j.pc = "scan" /\ j.req = r /\ j.result = [old EXCEPT !.found = found]
        /\ j.todo = job[w].todo \ {f}
    BY <1>3, <1>4, <2>1 DEF Job, SearchResult
  <2>4. /\ j.result \in SearchResult /\ j.result.found = found /\ j.result.clear = old.clear
        /\ Incomplete(r, old) = Incomplete(r, j.result)
    BY <1>3, <2>1, <2>3 DEF SearchResult, Incomplete
  <2> HIDE DEF j
  <2>5. Overflows(job[w]) => Overflows(j)
    BY <2>2, <2>3, <2>4 DEF Overflows
  <2>6. \A g : Accounted(job[w], g) => Accounted(j, g)
    BY <1>2, <2>1, <2>3, <2>4 DEF Accounted
  <2>7. JobCovers(j, disk)
    BY <1>5, <2>3, <2>4, <2>5, <2>6 DEF JobCovers
  <2> QED BY <1>12, <2>3, <2>4, <2>7 DEF j
<1> QED BY <1>1, <1>7, <1>8, <1>9, <1>10, <1>11, <1>12

LEMMA ScanDoneInv == ASSUME RepoInv, NEW w \in Workers, ScanDone(w) PROVE RepoInv'
<1> DEFINE j == [job[w] EXCEPT !.pc = "store"]
<1>1. /\ job' = [job EXCEPT ![w] = j] /\ job[w].pc = "scan" /\ job[w].todo = {}
      /\ GoodJob(job[w], disk, clock)
  BY DEF ScanDone, RepoInv
<1>2. /\ job[w] \in Job /\ job[w].result \in SearchResult
      /\ job[w].req.kind \in Searches /\ job[w].req \in Requests
  BY <1>1 DEF GoodJob, JobShape
<1>3. /\ j \in Job /\ j.pc = "store" /\ j.req = job[w].req /\ j.result = job[w].result
  BY <1>2 DEF Job
<1> HIDE DEF j
<1>4. JobCovers(j, disk)
  BY <1>1, <1>3 DEF GoodJob, JobCovers, Overflows, Accounted
<1>5. GoodJob(j, disk, clock)
  BY <1>2, <1>3, <1>4 DEF GoodJob, JobShape, JobTimely, JobExact
<1> QED BY <1>1, <1>5, OneJob DEF ScanDone, RepoInv

\* Nothing is left to be read when a result is stored: it is exact, or it says
\* that it is not.
LEMMA StoreSearchInv == ASSUME RepoInv, NEW w \in Workers, StoreSearch(w) PROVE RepoInv'
<1> DEFINE r == job[w].req
           old == job[w].result
           limit == ResultLimit(r)
           over == Cardinality(old.found) > limit
<1>1. PICK value \in Capped(r, old), size \in Sizes :
        /\ job' = [job EXCEPT ![w].pc = "answer", ![w].result = value]
        /\ cache' = IF r.kind = "context" THEN cache
                    ELSE AfterSet(cache, Key(job[w]),
                                  [value |-> value, size |-> size, expires |-> {}])
  BY DEF StoreSearch
<1>2. /\ job[w].pc = "store" /\ GoodJob(job[w], disk, clock)
      /\ UNCHANGED <<disk, clock>>
  BY DEF StoreSearch, RepoInv
<1>3. /\ job[w] \in Job /\ old \in SearchResult
      /\ r.kind \in Searches /\ r \in Requests
  BY <1>2 DEF GoodJob, JobShape
<1>4. PICK kept \in IF over THEN kSubset(limit, old.found) ELSE {old.found} :
        value = [old EXCEPT !.found = kept, !.cut = @ \/ over]
  BY <1>1 DEF Capped
<1>5. kept \subseteq old.found /\ (~over => kept = old.found)
  BY DEF kSubset
<1>6. Overflows(job[w]) => over
  <2>1. Cardinality(old.found) \in Nat
    BY <1>3, RepoAssumption, FS_Subset, FS_CardinalityType DEF SearchResult
  <2>2. limit \in Nat /\ limit <= MaxResults
    BY RepoAssumption DEF ResultLimit
  <2> HIDE DEF limit
  <2> QED BY <2>1, <2>2, RepoAssumption DEF Overflows
<1>7. /\ value \in SearchResult /\ value.found = kept /\ value.clear = old.clear
      /\ over => value.cut
      /\ Incomplete(r, old) => Incomplete(r, value)
  <2>1. over \in BOOLEAN /\ kept \subseteq Files
    BY <1>3, <1>5 DEF SearchResult
  <2> HIDE DEF over
  <2> QED BY <1>3, <1>4, <2>1 DEF SearchResult, Incomplete
<1>8. Exact(r, value)
  BY <1>2, <1>5, <1>6, <1>7 DEF GoodJob, JobCovers, Exact, Incomplete, Accounted
<1>9. GoodCache(cache')
  <2>1. CASE r.kind = "context"
    BY <1>1, <2>1 DEF RepoInv
  <2>2. CASE r.kind \in {"find", "grep"}
    <3> DEFINE k == Key(job[w])
               e == [value |-> value, size |-> size, expires |-> {}]
    <3>1. k.kind = r.kind /\ k.of = <<r.scope, r.roles>>
      BY <2>2 DEF Key
    <3>2. e.value = value
      OBVIOUS
    <3> HIDE DEF k, e
    <3>3. ASSUME NEW q \in Requests, <<q.scope, q.roles>> = <<r.scope, r.roles>>
          PROVE  Exact(q, value)
      BY <3>3, <1>8 DEF Exact, Incomplete, InScope
    <3>4. GoodEntry(k, e)
      BY <1>7, <2>2, <3>1, <3>2, <3>3 DEF GoodEntry
    <3>5. cache' = AfterSet(cache, k, e)
      BY <1>1, <2>2 DEF k, e
    <3> QED BY <3>4, <3>5, SetKeeps DEF RepoInv
  <2> QED BY <1>3, <2>1, <2>2
<1> DEFINE j == [job[w] EXCEPT !.pc = "answer", !.result = value]
<1>10. job' = [job EXCEPT ![w] = j]
  BY <1>1
<1>11. /\ j \in Job /\ j.pc = "answer" /\ j.req = r /\ j.result = value
  BY <1>3, <1>7 DEF Job
<1> HIDE DEF j
<1>12. GoodJob(j, disk, clock)
  BY <1>3, <1>7, <1>8, <1>11 DEF GoodJob, JobShape, JobTimely, JobCovers, JobExact
<1> QED BY <1>2, <1>9, <1>10, <1>12, OneJob

\* A read shows what is on the disk, no older than the time it took.
LEMMA RunInv == ASSUME RepoInv, NEW w \in Workers, Run(w) PROVE RepoInv'
<1> DEFINE r == job[w].req
           at == IF r.kind = "git" THEN 0 ELSE disk[r.file].mtime
           j == [job[w] EXCEPT !.pc = "keep", !.result = [at |-> at]]
<1>1. /\ job[w].pc = "run" /\ GoodJob(job[w], disk, clock)
      /\ UNCHANGED <<disk, clock, cache>>
      /\ job' = [job EXCEPT ![w] = j] \/ job' = [job EXCEPT ![w] = Idle]
  BY DEF Run, RepoInv
<1>2. CASE job' = [job EXCEPT ![w] = Idle]
  <2>1. GoodJob(Idle, disk, clock)
    BY DEF Idle, GoodJob, JobShape, JobTimely, JobCovers, JobExact, Job, SearchResult, NoResult
  <2> QED BY <1>1, <1>2, <2>1, OneJob DEF RepoInv
<1>3. CASE job' = [job EXCEPT ![w] = j]
  <2>1. job[w] \in Job /\ r \in Requests /\ r.kind \in {"read", "git"}
    BY <1>1 DEF GoodJob, JobShape
  <2>2. at \in Nat /\ (r.kind = "read" => job[w].time <= at)
    BY <1>1, <2>1, RequestAssumption DEF RepoInv, WorldOK, GoodJob, JobTimely
  <2> HIDE DEF at
  <2>3. /\ j \in Job /\ j.pc = "keep" /\ j.req = r /\ j.time = job[w].time
        /\ j.result = [at |-> at]
    BY <2>1, <2>2 DEF Job, Dated
  <2> HIDE DEF j
  <2>4. j.result \in Dated /\ j.result.at = at
    BY <2>2, <2>3 DEF Dated
  <2>5. GoodJob(j, disk, clock)
    BY <1>1, <2>1, <2>2, <2>3, <2>4 DEF GoodJob, JobShape, JobTimely, JobCovers, JobExact
  <2> QED BY <1>1, <1>3, <2>5, OneJob DEF RepoInv
<1> QED BY <1>1, <1>2, <1>3

\* The entry stored promises what the key says.
LEMMA KeepInv == ASSUME RepoInv, NEW w \in Workers, Keep(w) PROVE RepoInv'
<1> DEFINE r == job[w].req
           result == IF r.kind = "git" THEN [at |-> clock] ELSE job[w].result
           k == Key(job[w])
           e(size) == [value |-> result, size |-> size, expires |-> Expiry(r)]
           j == [job[w] EXCEPT !.pc = "answer", !.result = result]
<1>1. PICK size \in Sizes : cache' = AfterSet(cache, k, e(size))
  BY DEF Keep
<1>2. /\ job[w].pc = "keep" /\ GoodJob(job[w], disk, clock) /\ UNCHANGED <<disk, clock>>
      /\ job' = [job EXCEPT ![w] = j] /\ clock \in Nat
  BY DEF Keep, RepoInv, WorldOK
<1>3. /\ job[w] \in Job /\ r \in Requests /\ r.kind \in {"read", "git"}
      /\ job[w].result \in Dated
  BY <1>2 DEF GoodJob, JobShape
<1>4. /\ result \in Dated
      /\ r.kind = "git" => result.at = clock /\ job[w].time <= clock
      /\ r.kind = "read" => job[w].time <= result.at
  BY <1>2, <1>3 DEF Dated, GoodJob, JobTimely
<1>5. GoodEntry(k, e(size))
  <2>1. CASE r.kind = "read"
    <3>1. k.kind = "read" /\ k.at = job[w].time
      BY <2>1 DEF Key
    <3> QED BY <3>1, <1>4, <2>1 DEF GoodEntry
  <2>2. CASE r.kind = "git"
    <3>1. k.kind = "git" /\ Expiry(r) = {result.at + Ttl}
      BY <2>2, <1>4 DEF Key, Expiry
    <3> QED BY <3>1, <1>4 DEF GoodEntry
  <2> QED BY <1>3, <2>1, <2>2
<1>6. GoodCache(cache')
  BY <1>1, <1>5, SetKeeps DEF RepoInv
<1> HIDE DEF result
<1>7. /\ j \in Job /\ j.pc = "answer" /\ j.req = r /\ j.time = job[w].time
      /\ j.result = result
  BY <1>3, <1>4 DEF Job
<1> HIDE DEF j
<1>8. r.kind = "git" => job[w].time <= result.at + Ttl
  BY <1>2, <1>3, <1>4, RepoAssumption DEF Job
<1>9. GoodJob(j, disk, clock)
  BY <1>3, <1>4, <1>7, <1>8 DEF GoodJob, JobShape, JobTimely, JobCovers, JobExact
<1> QED BY <1>2, <1>6, <1>9, OneJob

LEMMA ObserveInv == ASSUME RepoInv, NEW w \in Workers, Observe(w) PROVE RepoInv'
<1>1. GoodJob(Idle, disk, clock)
  BY DEF Idle, GoodJob, JobShape, JobTimely, JobCovers, JobExact, Job, SearchResult, NoResult
<1> QED BY <1>1, OneJob DEF Observe, RepoInv
-----------------------------------------------------------------------------
LEMMA RepoStep == RepoInv /\ [Next]_vars => RepoInv'
<1> SUFFICES ASSUME RepoInv, [Next]_vars PROVE RepoInv'
  OBVIOUS
<1>1. CASE Tick
  BY <1>1, TickInv
<1>2. ASSUME NEW f \in Files, Write(f) PROVE RepoInv'
  BY <1>2, WriteInv
<1>3. ASSUME NEW w \in Workers, NEW r \in Requests, Start(w, r) PROVE RepoInv'
  BY <1>3, StartInv
<1>4. ASSUME NEW w \in Workers,
             \/ Stat(w) \/ Lookup(w) \/ Run(w) \/ Keep(w) \/ Observe(w)
      PROVE  RepoInv'
  BY <1>4, StatInv, LookupInv, RunInv, KeepInv, ObserveInv
<1>5. ASSUME NEW w \in Workers,
             \/ WalkFails(w) \/ WalkDir(w) \/ WalkDone(w)
             \/ ScanFile(w) \/ ScanDone(w) \/ StoreSearch(w)
      PROVE  RepoInv'
  BY <1>5, WalkFailsInv, WalkDirInv, WalkDoneInv, ScanFileInv, ScanDoneInv, StoreSearchInv
<1>6. CASE UNCHANGED vars
  BY <1>6 DEF vars, RepoInv, WorldOK
<1> QED BY <1>1, <1>2, <1>3, <1>4, <1>5, <1>6 DEF Next

\* What the jobs and the entries promise each other holds in every run.
THEOREM RepoInvariance == Spec => []RepoInv
<1>1. Init => RepoInv
  BY InitRepo
<1>2. RepoInv /\ [Next]_vars => RepoInv'
  BY RepoStep
<1> QED BY <1>1, <1>2, PTL DEF Spec

\* A search that certifies its enumeration (deriveRepositoryObservationCoverage)
\* saw every searchable file of its boundary, whichever cache entry it came from.
THEOREM EnumerationsAreExact == Spec => []CompleteIsExact
<1>1. RepoInv => CompleteIsExact
  BY DEF RepoInv, CompleteIsExact, Answered, EnumerationComplete, Truncated, GoodJob, JobExact,
         Exact, Incomplete
<1> QED BY <1>1, RepoInvariance, PTL

\* No read is older than the modification time of its key, and no git answer
\* older than its time to live (callTool, _cacheGet).
THEOREM CachedAnswersAreFresh == Spec => []AnswersAreFresh
<1>1. RepoInv => AnswersAreFresh
  <2> SUFFICES ASSUME RepoInv, NEW w \in Workers, job[w].pc = "answer"
               PROVE  CASE job[w].req.kind = "read" -> job[w].result.at >= job[w].time
                        [] job[w].req.kind = "git" -> job[w].time <= job[w].result.at + Ttl
                        [] OTHER -> TRUE
    BY DEF AnswersAreFresh
  <2>1. GoodJob(job[w], disk, clock)
    BY DEF RepoInv
  <2>2. job[w].req.kind = "read" => job[w].time <= job[w].result.at /\ job[w].result \in Dated
    BY <2>1 DEF GoodJob, JobShape, JobTimely
  <2>3. job[w].time \in Nat
    BY <2>1 DEF GoodJob, JobShape, Job
  <2>4. job[w].req.kind = "git" => job[w].time <= job[w].result.at + Ttl
    BY <2>1 DEF GoodJob, JobTimely
  <2> QED BY <2>2, <2>3, <2>4 DEF Dated
<1> QED BY <1>1, RepoInvariance, PTL
-----------------------------------------------------------------------------
(* The byte count.  It is the number of bytes held one by one, so what goes *)
(* out and what comes in is subtracted and added as sets are; the order     *)
(* lists each key once, which is why the oldest keys are distinct entries.  *)

Sized(entries, keys) == IsFiniteSet(keys) /\ \A k \in keys : entries[k].size \in Nat

LEMMA UpTo ==
  ASSUME NEW n \in Nat
  PROVE  IsFiniteSet(1 .. n) /\ Cardinality(1 .. n) = n
<1>1. n = IF 1 > n THEN 0 ELSE n - 1 + 1
  OBVIOUS
<1> QED BY <1>1, FS_Interval

LEMMA HeldIsFinite ==
  ASSUME NEW entries, NEW keys, Sized(entries, keys)
  PROVE  IsFiniteSet(Held(entries, keys)) /\ Bytes(entries, keys) \in Nat
<1> DEFINE Parts == {{k} \X (1 .. entries[k].size) : k \in keys}
           f == [k \in keys |-> {k} \X (1 .. entries[k].size)]
<1>1. IsFiniteSet(Parts)
  <2>1. f \in Surjection(keys, Parts)
    BY DEF Surjection
  <2> QED BY <2>1, FS_Surjection DEF Sized
<1>2. \A T \in Parts : IsFiniteSet(T)
  <2> SUFFICES ASSUME NEW k \in keys PROVE IsFiniteSet({k} \X (1 .. entries[k].size))
    OBVIOUS
  <2>1. IsFiniteSet({k}) /\ IsFiniteSet(1 .. entries[k].size)
    BY FS_Singleton, UpTo DEF Sized
  <2> QED BY <2>1, FS_Product
<1>3. IsFiniteSet(UNION Parts)
  <2> HIDE DEF Parts
  <2> QED BY <1>1, <1>2, FS_UNION
<1> QED BY <1>3, FS_CardinalityType DEF Held, Bytes

LEMMA HeldMember ==
  ASSUME NEW entries, NEW keys
  PROVE  \A b : b \in Held(entries, keys) <=>
           \E k \in keys : \E n \in 1 .. entries[k].size : b = <<k, n>>
BY DEF Held

LEMMA BytesOfFewer ==
  ASSUME NEW entries, NEW keys, Sized(entries, keys), NEW S \in SUBSET keys
  PROVE  /\ Sized(entries, keys \ S) /\ Sized(entries, S)
         /\ Bytes(entries, keys \ S) = Bytes(entries, keys) - Bytes(entries, S)
<1>1. IsFiniteSet(S) /\ IsFiniteSet(keys \ S)
  BY FS_Subset DEF Sized
<1>2. Held(entries, keys \ S) = Held(entries, keys) \ Held(entries, S)
  BY HeldMember
<1>3. Held(entries, keys) \cap Held(entries, S) = Held(entries, S)
  BY HeldMember
<1>4. IsFiniteSet(Held(entries, keys))
  BY HeldIsFinite
<1> QED BY <1>1, <1>2, <1>3, <1>4, FS_Difference DEF Bytes, Sized

LEMMA BytesOfOne ==
  ASSUME NEW entries, NEW k, entries[k].size \in Nat
  PROVE  Sized(entries, {k}) /\ Bytes(entries, {k}) = entries[k].size
<1>1. Held(entries, {k}) = {k} \X (1 .. entries[k].size)
  BY DEF Held
<1>2. IsFiniteSet({k}) /\ Cardinality({k}) = 1
  BY FS_Singleton
<1>3. PICK n \in Nat : n = entries[k].size
  OBVIOUS
<1>4. IsFiniteSet(1 .. n) /\ Cardinality(1 .. n) = n
  BY UpTo
<1>5. Cardinality({k} \X (1 .. n)) = n
  <2>1. Cardinality({k} \X (1 .. n)) = Cardinality({k}) * Cardinality(1 .. n)
    BY Zenon, <1>2, <1>4, FS_Product
  <2> QED BY <1>2, <1>4, <2>1
<1> QED BY <1>1, <1>2, <1>3, <1>5 DEF Bytes, Sized

LEMMA BytesAgree ==
  ASSUME NEW f, NEW g, NEW keys, \A k \in keys : f[k] = g[k]
  PROVE  Bytes(f, keys) = Bytes(g, keys) /\ (Sized(f, keys) => Sized(g, keys))
<1>1. Held(f, keys) = Held(g, keys)
  BY HeldMember
<1> QED BY <1>1 DEF Bytes, Sized

\* Each key of the map stands once in the order.
Listing(o, keys) ==
  /\ o \in Seq(keys)
  /\ \A i, j \in 1 .. Len(o) : o[i] = o[j] => i = j
  /\ \A k \in keys : \E i \in 1 .. Len(o) : o[i] = k
Ordered(c) == Listing(c.order, Cached(c))

CacheInv(c) ==
  /\ Ordered(c)
  /\ \A k \in Cached(c) : c.entries[k].size \in Nat
  /\ c.total = Bytes(c.entries, Cached(c)) /\ c.total <= MaxBytes

LEMMA OrderCounts ==
  ASSUME NEW c, Ordered(c)
  PROVE  /\ IsFiniteSet(Cached(c)) /\ Len(c.order) = Cardinality(Cached(c))
         /\ Len(c.order) \in Nat /\ DOMAIN c.order = 1 .. Len(c.order)
         /\ {c.order[i] : i \in 1 .. Len(c.order)} = Cached(c)
<1> PICK o, keys, n : o = c.order /\ keys = Cached(c) /\ n = Len(o)
  OBVIOUS
<1>0. Listing(o, keys)
  BY DEF Ordered
<1>1. n \in Nat /\ DOMAIN o = 1 .. n /\ \A i \in 1 .. n : o[i] \in keys
  BY <1>0 DEF Listing
<1>2. o \in Bijection(1 .. n, keys)
  <2>1. o \in [1 .. n -> keys]
    BY <1>0 DEF Listing
  <2> QED BY <1>0, <1>1, <2>1 DEF Listing, Bijection, Injection, Surjection, IsInjective
<1>3. IsFiniteSet(1 .. n) /\ Cardinality(1 .. n) = n
  BY <1>1, UpTo
<1>4. IsFiniteSet(keys) /\ Cardinality(keys) = n
  <2>1. ExistsBijection(1 .. n, keys)
    BY <1>2 DEF ExistsBijection
  <2> QED BY <1>3, <2>1, FS_Bijection
<1>5. {o[i] : i \in 1 .. n} = keys
  BY <1>0, <1>1 DEF Listing
<1> QED BY <1>1, <1>4, <1>5

LEMMA SoundCache ==
  ASSUME NEW c, CacheInv(c)
  PROVE  CacheIsSound(c)
BY OrderCounts DEF CacheInv, CacheIsSound

LEMMA SuffixOf ==
  ASSUME NEW S, NEW o \in Seq(S), NEW n \in Nat, n = Len(o), NEW m \in 0 .. n
  PROVE  LET b == SubSeq(o, m + 1, n)
         IN  /\ b \in Seq(S) /\ Len(b) = n - m
             /\ \A i \in 1 .. n - m : b[i] = o[m + i]
<1>1. PICK a \in Int : a = m + 1
  OBVIOUS
<1>2. \A i \in a .. n : o[i] \in S
  BY <1>1
<1>3. /\ SubSeq(o, a, n) \in Seq(S)
      /\ Len(SubSeq(o, a, n)) = IF a <= n THEN n - a + 1 ELSE 0
      /\ \A i \in 1 .. n - a + 1 : SubSeq(o, a, n)[i] = o[a + i - 1]
  BY <1>2, SubSeqProperties
<1>4. n - a + 1 = n - m /\ (a <= n <=> m # n)
  BY <1>1
<1>5. Len(SubSeq(o, a, n)) = n - m
  BY <1>3, <1>4
<1>6. ASSUME NEW i \in 1 .. n - m PROVE SubSeq(o, a, n)[i] = o[m + i]
  <2>1. a + i - 1 = m + i
    BY <1>1
  <2> QED BY <1>3, <1>4, <2>1
<1> QED BY Zenon, <1>1, <1>3, <1>5, <1>6

\* Map.delete takes one key out of the order.
LEMMA DeletedOrder ==
  ASSUME NEW o, NEW keys, Listing(o, keys), NEW k \in keys
  PROVE  Listing(Without(o, k), keys \ {k})
<1> PICK n, w : n = Len(o) /\ w = Without(o, k)
  OBVIOUS
<1>2. /\ o \in Seq(keys) /\ n \in Nat /\ DOMAIN o = 1 .. n
      /\ \A i \in 1 .. n : o[i] \in keys
      /\ \A i, j \in 1 .. n : o[i] = o[j] => i = j
      /\ \A q \in keys : \E i \in 1 .. n : o[i] = q
  BY DEF Listing
<1>3. PICK p \in 1 .. n : p = Place(o, k) /\ o[p] = k
  BY <1>2 DEF Place
<1>4. PICK a, b : a = SubSeq(o, 1, p - 1) /\ b = SubSeq(o, p + 1, n)
  OBVIOUS
<1>5. /\ a \in Seq(keys) /\ Len(a) = p - 1
      /\ \A i \in 1 .. p - 1 : a[i] = o[i]
  <2>1. \A i \in 1 .. p - 1 : o[i] \in keys
    BY <1>2
  <2>2. /\ SubSeq(o, 1, p - 1) \in Seq(keys)
        /\ Len(SubSeq(o, 1, p - 1)) = IF 1 <= p - 1 THEN p - 1 - 1 + 1 ELSE 0
        /\ \A i \in 1 .. p - 1 - 1 + 1 : SubSeq(o, 1, p - 1)[i] = o[1 + i - 1]
    BY <1>3, <2>1, SubSeqProperties
  <2> QED BY <1>3, <1>4, <2>2
<1>6. /\ b \in Seq(keys) /\ Len(b) = n - p
      /\ \A i \in 1 .. n - p : b[i] = o[p + i]
  <2>1. p \in 0 .. n
    OBVIOUS
  <2>2. o \in Seq(keys) /\ n \in Nat /\ n = Len(o)
    BY <1>2
  <2> QED BY Zenon, <1>4, <2>1, <2>2, SuffixOf
<1>7. w = a \o b
  BY <1>3, <1>4 DEF Without, RemoveAt
<1>8. w \in Seq(keys) /\ Len(w) = p - 1 + (n - p)
      /\ \A i \in 1 .. p - 1 + (n - p) : w[i] = IF i <= p - 1 THEN a[i] ELSE b[i - (p - 1)]
  <2>1. /\ a \o b \in Seq(keys)
        /\ Len(a \o b) = Len(a) + Len(b)
        /\ \A i \in 1 .. Len(a) + Len(b) : (a \o b)[i] = IF i <= Len(a) THEN a[i] ELSE b[i - Len(a)]
    BY <1>5, <1>6, ConcatProperties
  <2> QED BY <1>5, <1>6, <1>7, <2>1
<1>9. Len(w) = n - 1 /\ DOMAIN w = 1 .. n - 1
  BY <1>2, <1>3, <1>8
<1>10. \A i \in 1 .. n - 1 : w[i] = IF i < p THEN o[i] ELSE o[i + 1]
  <2> SUFFICES ASSUME NEW i \in 1 .. n - 1 PROVE w[i] = IF i < p THEN o[i] ELSE o[i + 1]
    OBVIOUS
  <2>1. i \in 1 .. p - 1 + (n - p)
    BY <1>2, <1>3
  <2>2. CASE i < p
    BY <1>3, <1>5, <1>8, <2>1, <2>2
  <2>3. CASE ~(i < p)
    <3>1. i - (p - 1) \in 1 .. n - p /\ p + (i - (p - 1)) = i + 1 /\ ~(i <= p - 1)
      BY <1>2, <1>3, <2>3
    <3> QED BY <1>6, <1>8, <2>1, <2>3, <3>1
  <2> QED BY <2>2, <2>3
<1>11. \A i \in 1 .. n - 1 : w[i] \in keys \ {k}
  BY <1>2, <1>3, <1>10
<1>12. w \in Seq(keys \ {k})
  BY <1>8, <1>9, <1>11
<1>13. \A i, j \in 1 .. n - 1 : w[i] = w[j] => i = j
  BY <1>2, <1>3, <1>10
<1>14. \A q \in keys \ {k} : \E i \in 1 .. n - 1 : w[i] = q
  <2> SUFFICES ASSUME NEW q \in keys \ {k} PROVE \E i \in 1 .. n - 1 : w[i] = q
    OBVIOUS
  <2>1. PICK i \in 1 .. n : o[i] = q
    BY <1>2
  <2>2. CASE i < p
    <3>1. i \in 1 .. n - 1
      BY <1>2, <1>3, <2>2
    <3> QED BY <1>10, <2>1, <2>2, <3>1
  <2>3. CASE i > p
    <3>1. PICK j \in 1 .. n - 1 : j + 1 = i /\ ~(j < p)
      <4>1. i - 1 \in 1 .. n - 1 /\ i - 1 + 1 = i /\ ~(i - 1 < p)
        BY <1>2, <1>3, <2>3
      <4> QED BY <4>1
    <3> QED BY <1>10, <2>1, <3>1
  <2>4. i # p
    BY <1>3, <2>1
  <2> QED BY <1>3, <2>2, <2>3, <2>4
<1> QED BY <1>9, <1>12, <1>13, <1>14 DEF Listing

LEMMA AddedOrder ==
  ASSUME NEW o, NEW keys, Listing(o, keys), NEW k, k \notin keys
  PROVE  Listing(Append(o, k), keys \union {k})
<1> PICK n, v, all : n = Len(o) /\ v = Append(o, k) /\ all = keys \union {k}
  OBVIOUS
<1>1. /\ o \in Seq(all) /\ n \in Nat /\ k \in all
      /\ \A i \in 1 .. n : o[i] \in keys
      /\ \A i, j \in 1 .. n : o[i] = o[j] => i = j
      /\ \A q \in keys : \E i \in 1 .. n : o[i] = q
  BY DEF Listing
<1>2. v \in Seq(all) /\ Len(v) = n + 1 /\ (\A i \in 1 .. n : v[i] = o[i]) /\ v[n + 1] = k
  BY <1>1, AppendProperties
<1>3. \A i, j \in 1 .. n + 1 : v[i] = v[j] => i = j
  BY <1>1, <1>2
<1>4. \A q \in all : \E i \in 1 .. n + 1 : v[i] = q
  <2> SUFFICES ASSUME NEW q \in all PROVE \E i \in 1 .. n + 1 : v[i] = q
    OBVIOUS
  <2>1. CASE q = k
    <3>1. n + 1 \in 1 .. n + 1
      BY <1>1
    <3> QED BY <1>2, <2>1, <3>1
  <2>2. CASE q \in keys
    <3>1. PICK i \in 1 .. n : o[i] = q
      BY <1>1, <2>2
    <3>2. i \in 1 .. n + 1
      BY <1>1
    <3> QED BY <1>2, <3>1, <3>2
  <2> QED BY <2>1, <2>2
<1> QED BY <1>2, <1>3, <1>4 DEF Listing

\* The eviction loop takes the oldest m keys.
LEMMA EvictedOrder ==
  ASSUME NEW o, NEW keys, Listing(o, keys), NEW n \in Nat, n = Len(o), NEW m \in 0 .. n,
         NEW w, w = SubSeq(o, m + 1, n),
         NEW gone, \A i \in 1 .. n : o[i] \in gone <=> i <= m
  PROVE  Listing(w, keys \ gone)
<1>0. o \in Seq(keys) /\ n \in Nat /\ \A i \in 1 .. n : o[i] \in keys
  BY DEF Listing
<1>11. \A i, j \in 1 .. n : o[i] = o[j] => i = j
  BY Zenon DEF Listing
<1>12. \A q \in keys : \E i \in 1 .. n : o[i] = q
  BY Zenon DEF Listing
<1>1. /\ o \in Seq(keys) /\ n \in Nat
      /\ \A i \in 1 .. n : o[i] \in keys
      /\ \A i, j \in 1 .. n : o[i] = o[j] => i = j
      /\ \A q \in keys : \E i \in 1 .. n : o[i] = q
  BY <1>0, <1>11, <1>12
<1>2. w \in Seq(keys) /\ Len(w) = n - m /\ \A i \in 1 .. n - m : w[i] = o[m + i]
  <2>1. /\ SubSeq(o, m + 1, n) \in Seq(keys) /\ Len(SubSeq(o, m + 1, n)) = n - m
        /\ \A i \in 1 .. n - m : SubSeq(o, m + 1, n)[i] = o[m + i]
    BY Zenon, <1>0, SuffixOf
  <2> QED BY <2>1
<1>3. \A i \in 1 .. n : o[i] \in gone <=> i <= m
  OBVIOUS
<1>4. \A i \in 1 .. n - m : w[i] \in keys \ gone
  <2> SUFFICES ASSUME NEW i \in 1 .. n - m PROVE w[i] \in keys \ gone
    OBVIOUS
  <2>1. m + i \in 1 .. n /\ ~(m + i <= m)
    BY <1>1
  <2> QED BY Zenon, <1>1, <1>2, <1>3, <2>1
<1>5. w \in Seq(keys \ gone)
  BY <1>2, <1>4
<1>6. \A i, j \in 1 .. n - m : w[i] = w[j] => i = j
  <2> SUFFICES ASSUME NEW i \in 1 .. n - m, NEW j \in 1 .. n - m, w[i] = w[j] PROVE i = j
    OBVIOUS
  <2>1. m + i \in 1 .. n /\ m + j \in 1 .. n /\ (m + i = m + j => i = j)
    BY <1>1
  <2>2. o[m + i] = o[m + j]
    BY <1>2
  <2> QED BY Zenon, <1>1, <2>1, <2>2
<1>7. \A q \in keys \ gone : \E i \in 1 .. n - m : w[i] = q
  <2> SUFFICES ASSUME NEW q \in keys \ gone PROVE \E i \in 1 .. n - m : w[i] = q
    OBVIOUS
  <2>1. PICK i \in 1 .. n : o[i] = q
    BY <1>1
  <2>2. i > m
    BY <1>3, <2>1
  <2>3. PICK j \in 1 .. n - m : m + j = i
    <3>1. i \in Int /\ m \in Int /\ n \in Int /\ m < i /\ i <= n
      BY <1>1, <2>2
    <3>2. i - m \in 1 .. n - m
      BY <3>1
    <3>3. m + (i - m) = i
      BY <3>1
    <3> QED BY Zenon, <3>2, <3>3
  <2> QED BY <1>2, <2>1, <2>3
<1>8. 1 .. Len(w) = 1 .. n - m
  BY <1>2
<1>9. \A i, j \in 1 .. Len(w) : w[i] = w[j] => i = j
  BY Zenon, <1>6, <1>8
<1>10. \A q \in keys \ gone : \E i \in 1 .. Len(w) : w[i] = q
  BY Zenon, <1>7, <1>8
<1> QED BY Zenon, <1>5, <1>9, <1>10 DEF Listing

LEMMA LeastNatural ==
  ASSUME NEW T \in SUBSET Nat, T # {}
  PROVE  Min(T) \in T
<1> DEFINE Up == {0 .. n : n \in T}
<1>1. Up \subseteq FiniteSubsetsOf(Nat)
  <2>1. \A n \in T : IsFiniteSet(0 .. n) /\ 0 .. n \in SUBSET Nat
    BY FS_Interval
  <2> QED BY <2>1 DEF FiniteSubsetsOf
<1>2. Up # {}
  OBVIOUS
<1>3. IsWellFoundedOn(StrictSubsetOrdering(Nat), FiniteSubsetsOf(Nat))
  BY FS_StrictSubsetOrderingWellFounded
<1> HIDE DEF Up
<1>4. PICK x \in Up : \A y \in Up : ~ (<<y, x>> \in StrictSubsetOrdering(Nat))
  BY <1>1, <1>2, <1>3, WFMin
<1>5. PICK m \in T : x = 0 .. m
  BY DEF Up
<1>6. ASSUME NEW k \in T, ~(m <= k) PROVE FALSE
  <2>1. 0 .. k \in Up
    BY DEF Up
  <2>2. 0 .. k \subseteq 0 .. m /\ 0 .. k # 0 .. m
    BY <1>6
  <2>3. <<0 .. k, x>> \in StrictSubsetOrdering(Nat)
    BY <1>5, <2>2 DEF StrictSubsetOrdering
  <2> QED BY <2>1, <2>3, <1>4
<1> QED BY <1>6 DEF Min

\* What is left of a sound cache when some of its entries go.
LEMMA LessIsSound ==
  ASSUME NEW c, CacheInv(c), NEW gone \in SUBSET Cached(c), NEW d,
         d.entries = Restrict(c.entries, Cached(c) \ gone),
         d.total = c.total - Bytes(c.entries, gone),
         Listing(d.order, Cached(c) \ gone)
  PROVE  CacheInv(d) /\ Cached(d) = Cached(c) \ gone
<1> PICK keys : keys = Cached(c) \ gone
  OBVIOUS
<1>1. Cached(d) = keys /\ \A q \in keys : d.entries[q] = c.entries[q]
  BY DEF Cached, Restrict
<1>2. Sized(c.entries, Cached(c))
  BY OrderCounts DEF CacheInv, Sized
<1>3. /\ Sized(c.entries, gone)
      /\ Bytes(c.entries, keys) = Bytes(c.entries, Cached(c)) - Bytes(c.entries, gone)
  BY <1>2, BytesOfFewer
<1>4. Bytes(d.entries, keys) = Bytes(c.entries, keys)
  BY <1>1, BytesAgree
<1>5. Bytes(c.entries, Cached(c)) \in Nat /\ Bytes(c.entries, gone) \in Nat
  BY <1>2, <1>3, HeldIsFinite
<1>6. c.total = Bytes(c.entries, Cached(c)) /\ c.total <= MaxBytes
  BY DEF CacheInv
<1>7. d.total = Bytes(d.entries, Cached(d)) /\ d.total <= MaxBytes
  BY <1>1, <1>3, <1>4, <1>5, <1>6, MaxBytesAssumption
<1>8. \A q \in Cached(d) : d.entries[q].size \in Nat
  BY <1>1 DEF CacheInv
<1> QED BY Zenon, <1>1, <1>7, <1>8 DEF CacheInv, Ordered

LEMMA RemovedIsSound ==
  ASSUME NEW c, CacheInv(c), NEW k \in Cached(c)
  PROVE  CacheInv(Removed(c, k)) /\ Cached(Removed(c, k)) = Cached(c) \ {k}
<1>1. PICK d : d = Removed(c, k)
  OBVIOUS
<1>2. /\ d.entries = Restrict(c.entries, Cached(c) \ {k})
      /\ d.order = Without(c.order, k) /\ d.total = c.total - c.entries[k].size
  BY <1>1 DEF Removed
<1>3. Listing(d.order, Cached(c) \ {k})
  <2>1. Listing(Without(c.order, k), Cached(c) \ {k})
    BY DeletedOrder DEF CacheInv, Ordered
  <2> QED BY Zenon, <1>2, <2>1
<1>4. Bytes(c.entries, {k}) = c.entries[k].size
  BY BytesOfOne DEF CacheInv
<1>5. {k} \in SUBSET Cached(c) /\ d.total = c.total - Bytes(c.entries, {k})
  BY <1>2, <1>4
<1>6. CacheInv(d) /\ Cached(d) = Cached(c) \ {k}
  BY Zenon, <1>2, <1>3, <1>5, LessIsSound
<1> QED BY Zenon, <1>1, <1>6

LEMMA GetIsSound ==
  ASSUME NEW c, CacheInv(c), NEW k, NEW now,
         c = [entries |-> c.entries, order |-> c.order, total |-> c.total]
  PROVE  CacheInv(AfterGet(c, k, now))
<1>1. CASE k \notin Cached(c)
  BY <1>1 DEF AfterGet
<1>2. CASE k \in Cached(c) /\ Expired(c.entries[k], now)
  BY <1>2, RemovedIsSound DEF AfterGet
<1>3. CASE k \in Cached(c) /\ ~Expired(c.entries[k], now)
  <2>1. PICK d, w : d = AfterGet(c, k, now) /\ w = Append(Without(c.order, k), k)
    OBVIOUS
  <2>2. d = [c EXCEPT !.order = w]
    BY <1>3, <2>1 DEF AfterGet
  <2>3. d.entries = c.entries /\ d.total = c.total /\ d.order = w
    BY <2>2
  <2>4. Listing(w, Cached(c))
    <3>1. Listing(Without(c.order, k), Cached(c) \ {k})
      BY <1>3, DeletedOrder DEF CacheInv, Ordered
    <3>2. Listing(w, (Cached(c) \ {k}) \union {k})
      BY Zenon, <2>1, <3>1, AddedOrder
    <3>3. (Cached(c) \ {k}) \union {k} = Cached(c)
      BY <1>3
    <3> QED BY <3>2, <3>3
  <2>5. Cached(d) = Cached(c)
    BY <2>3 DEF Cached
  <2>6. CacheInv(d)
    BY Zenon, <2>3, <2>4, <2>5 DEF CacheInv, Ordered
  <2> QED BY Zenon, <2>1, <2>6
<1> QED BY <1>1, <1>2, <1>3

\* Eviction makes room for every value the cache can hold at all.
LEMMA EvictionIsSound ==
  ASSUME NEW c, CacheInv(c), NEW size \in Nat
  PROVE  LET d == AfterEviction(c, size)
         IN  /\ CacheInv(d) /\ Cached(d) \subseteq Cached(c)
             /\ size <= MaxBytes => d.total + size <= MaxBytes
<1>1. PICK n, o, L : n = Evicted(c, size) /\ o = c.order /\ L = Len(c.order)
  OBVIOUS
<1>2. /\ Listing(o, Cached(c)) /\ L \in Nat /\ L = Len(o)
      /\ {o[i] : i \in 1 .. L} = Cached(c)
  BY <1>1, OrderCounts DEF CacheInv, Ordered
<1>3. Enough(c, size) \in SUBSET Nat /\ Enough(c, size) \subseteq 0 .. L
  BY <1>1, <1>2 DEF Enough
<1>4. n \in 0 .. L /\ (n \in Enough(c, size) \/ (Enough(c, size) = {} /\ n = L))
  BY <1>1, <1>2, <1>3, LeastNatural DEF Evicted
<1>5. PICK gone : gone = Oldest(c, n)
  OBVIOUS
<1>6. gone = {o[i] : i \in 1 .. n}
  BY <1>1, <1>5 DEF Oldest
<1>7. gone \in SUBSET Cached(c)
  <2>1. 1 .. n \subseteq 1 .. L
    BY <1>2, <1>4
  <2> QED BY <1>2, <1>6, <2>1
<1>8. \A i \in 1 .. L : o[i] \in gone <=> i <= n
  <2>1. \A i, j \in 1 .. L : o[i] = o[j] => i = j
    BY Zenon, <1>2 DEF Listing
  <2>2. n \in Nat /\ 1 .. n \subseteq 1 .. L /\ \A i \in 1 .. L : i \in 1 .. n <=> i <= n
    BY <1>2, <1>4
  <2> QED BY <1>6, <2>1, <2>2
<1>9. PICK w : w = SubSeq(o, n + 1, L)
  OBVIOUS
<1>10. Listing(w, Cached(c) \ gone)
  BY Zenon, <1>2, <1>4, <1>8, <1>9, EvictedOrder
<1>11. PICK d : d = AfterEviction(c, size)
  OBVIOUS
<1>12. /\ d.entries = Restrict(c.entries, Cached(c) \ gone) /\ d.order = w
       /\ d.total = c.total - Bytes(c.entries, gone)
  BY <1>1, <1>5, <1>9, <1>11 DEF AfterEviction
<1>13. CacheInv(d) /\ Cached(d) = Cached(c) \ gone
  BY Zenon, <1>7, <1>10, <1>12, LessIsSound
<1>14. ASSUME size <= MaxBytes PROVE d.total + size <= MaxBytes
  <2>1. CASE n \in Enough(c, size)
    BY <1>5, <1>12, <2>1 DEF Enough
  <2>2. CASE Enough(c, size) = {} /\ n = L
    <3>1. gone = Cached(c)
      BY <1>2, <1>6, <2>2
    <3>2. Sized(c.entries, Cached(c))
      BY OrderCounts DEF CacheInv, Sized
    <3>3. d.total = 0
      BY <1>12, <3>1, <3>2, HeldIsFinite DEF CacheInv
    <3> QED BY <1>14, <3>3, MaxBytesAssumption
  <2> QED BY <1>4, <2>1, <2>2
<1>15. Cached(d) \subseteq Cached(c)
  BY <1>13
<1> QED BY Zenon, <1>11, <1>13, <1>14, <1>15

LEMMA InsertIsSound ==
  ASSUME NEW c, CacheInv(c), NEW k, k \notin Cached(c), NEW e, e.size \in Nat,
         c.total + e.size <= MaxBytes
  PROVE  CacheInv(Inserted(c, k, e))
<1>1. PICK d, keys : d = Inserted(c, k, e) /\ keys = Cached(c) \union {k}
  OBVIOUS
<1>2. /\ Cached(d) = keys /\ d.order = Append(c.order, k) /\ d.total = c.total + e.size
      /\ d.entries[k] = e /\ \A q \in Cached(c) : d.entries[q] = c.entries[q]
  BY <1>1 DEF Inserted, Cached
<1>3. Listing(d.order, Cached(d))
  <2>1. Listing(Append(c.order, k), Cached(c) \union {k})
    BY AddedOrder DEF CacheInv, Ordered
  <2> QED BY Zenon, <1>1, <1>2, <2>1
<1>4. \A q \in Cached(d) : d.entries[q].size \in Nat
  BY <1>1, <1>2 DEF CacheInv
<1>5. Sized(d.entries, keys)
  <2>1. IsFiniteSet(Cached(c))
    BY OrderCounts DEF CacheInv
  <2>2. IsFiniteSet(keys)
    BY <1>1, <2>1, FS_AddElement
  <2> QED BY <1>2, <1>4, <2>2 DEF Sized
<1>6. Bytes(d.entries, keys) = c.total + e.size
  <2>1. {k} \in SUBSET keys /\ keys \ {k} = Cached(c)
    BY <1>1
  <2>2. Bytes(d.entries, keys \ {k}) = Bytes(d.entries, keys) - Bytes(d.entries, {k})
    BY <1>5, <2>1, BytesOfFewer
  <2>3. Bytes(d.entries, {k}) = e.size
    BY <1>2, BytesOfOne
  <2>4. Bytes(d.entries, Cached(c)) = c.total
    BY <1>2, BytesAgree DEF CacheInv
  <2>5. Bytes(d.entries, keys) \in Nat
    BY <1>5, HeldIsFinite
  <2>6. Bytes(d.entries, Cached(c)) = Bytes(d.entries, keys) - Bytes(d.entries, {k})
    BY Zenon, <2>1, <2>2
  <2> QED BY <2>3, <2>4, <2>5, <2>6
<1>7. CacheInv(d)
  BY Zenon, <1>2, <1>3, <1>4, <1>6 DEF CacheInv, Ordered
<1> QED BY Zenon, <1>1, <1>7

LEMMA SetIsSound ==
  ASSUME NEW c, CacheInv(c), NEW k, NEW e, e.size \in Nat
  PROVE  CacheInv(AfterSet(c, k, e))
<1>1. PICK replaced : replaced = IF k \in Cached(c) THEN Removed(c, k) ELSE c
  OBVIOUS
<1>2. CacheInv(replaced) /\ k \notin Cached(replaced)
  BY <1>1, RemovedIsSound
<1>3. PICK roomy : roomy = AfterEviction(replaced, e.size)
  OBVIOUS
<1>4. /\ CacheInv(roomy) /\ Cached(roomy) \subseteq Cached(replaced)
      /\ e.size <= MaxBytes => roomy.total + e.size <= MaxBytes
  BY <1>2, <1>3, EvictionIsSound
<1>5. AfterSet(c, k, e) = IF e.size <= MaxBytes THEN Inserted(roomy, k, e) ELSE roomy
  BY Zenon, <1>1, <1>3 DEF AfterSet
<1>6. CASE e.size <= MaxBytes
  BY <1>2, <1>4, <1>5, <1>6, InsertIsSound
<1>7. CASE ~(e.size <= MaxBytes)
  BY <1>4, <1>5, <1>7
<1> QED BY <1>6, <1>7

LEMMA EmptyIsSound == CacheInv(EmptyCache)
<1>1. Cached(EmptyCache) = {} /\ EmptyCache.order = <<>> /\ EmptyCache.total = 0
  BY DEF EmptyCache, Cached
<1>2. Ordered(EmptyCache)
  BY <1>1, EmptySeq DEF Ordered, Listing
<1>3. Bytes(EmptyCache.entries, {}) = 0
  BY FS_EmptySet DEF Bytes, Held
<1> QED BY <1>1, <1>2, <1>3, MaxBytesAssumption DEF CacheInv

LEMMA CacheStep == GoodCache(cache) /\ CacheInv(cache) /\ [Next]_vars => CacheInv(cache)'
<1> SUFFICES ASSUME GoodCache(cache), CacheInv(cache), [Next]_vars PROVE CacheInv(cache')
  BY DEF CacheInv, Ordered, Listing, Cached, Bytes, Held
<1>1. cache = [entries |-> cache.entries, order |-> cache.order, total |-> cache.total]
  BY Zenon DEF GoodCache
<1>2. CASE \E w \in Workers : Lookup(w)
  <2>1. PICK k : cache' = AfterGet(cache, k, clock)
    BY <1>2 DEF Lookup
  <2> QED BY Zenon, <1>1, <2>1, GetIsSound
<1>3. CASE \E w \in Workers : StoreSearch(w) \/ Keep(w)
  <2>1. \/ cache' = cache
        \/ \E k, e : cache' = AfterSet(cache, k, e) /\ e.size \in Sizes
    <3>1. PICK w \in Workers : StoreSearch(w) \/ Keep(w)
      BY <1>3
    <3>2. CASE StoreSearch(w)
      <4>1. PICK value : \E size \in Sizes :
              cache' = IF job[w].req.kind = "context" THEN cache
                       ELSE AfterSet(cache, Key(job[w]),
                                     [value |-> value, size |-> size, expires |-> {}])
        BY Zenon, <3>2 DEF StoreSearch
      <4>2. \A size \in Sizes : [value |-> value, size |-> size, expires |-> {}].size \in Sizes
        OBVIOUS
      <4> QED BY Zenon, <4>1, <4>2
    <3>3. CASE Keep(w)
      <4>1. PICK result : \E size \in Sizes :
              cache' = AfterSet(cache, Key(job[w]),
                                [value |-> result, size |-> size, expires |-> Expiry(job[w].req)])
        BY Zenon, <3>3 DEF Keep
      <4>2. \A size \in Sizes :
              [value |-> result, size |-> size, expires |-> Expiry(job[w].req)].size \in Sizes
        OBVIOUS
      <4> QED BY Zenon, <4>1, <4>2
    <3> QED BY <3>1, <3>2, <3>3
  <2>2. ASSUME NEW k, NEW e, cache' = AfterSet(cache, k, e), e.size \in Sizes
        PROVE  CacheInv(cache')
    <3>1. e.size \in Nat
      BY <2>2, RepoAssumption
    <3> QED BY Zenon, <2>2, <3>1, SetIsSound
  <2> QED BY Zenon, <2>1, <2>2
<1>4. CASE UNCHANGED cache
  BY <1>4
<1>5. \/ UNCHANGED cache
      \/ \E w \in Workers : Lookup(w) \/ StoreSearch(w) \/ Keep(w)
  BY DEF Next, Tick, Write, Start, Stat, WalkFails, WalkDir, WalkDone, ScanFile, ScanDone,
         Run, Observe, vars
<1> QED BY Zenon, <1>2, <1>3, <1>4, <1>5

\* However entries are replaced, expire and are evicted by whichever worker, the
\* running total is the size of what the map holds and stays within the bound
\* (LruCache.get and LruCache.set).
THEOREM ByteCountIsExact == Spec => []BytesAreExact
<1>1. Init => RepoInv /\ CacheInv(cache)
  BY InitRepo, EmptyIsSound DEF Init
<1>2. RepoInv /\ CacheInv(cache) /\ [Next]_vars => RepoInv' /\ CacheInv(cache)'
  BY RepoStep, CacheStep DEF RepoInv
<1>3. CacheInv(cache) => BytesAreExact
  BY SoundCache DEF BytesAreExact
<1> QED BY <1>1, <1>2, <1>3, PTL DEF Spec
=============================================================================
