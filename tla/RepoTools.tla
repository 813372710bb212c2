------------------------------ MODULE RepoTools ------------------------------
(* The repository tools of src/explorer/repo-tools.mjs behind callTool:     *)
(* searches (find, grep, symbol context), file reads and git queries of     *)
(* concurrent workers over one shared cache, while the user edits the       *)
(* repository, and the coverage facts the runtime derives from each result. *)
(* An observation with enumerationComplete is what absence certificates and *)
(* counts rest on, so a search runs here directory by directory and file by *)
(* file, with writes in between.                                            *)
(*                                                                          *)
(* A pattern is abstracted to one question per file: does it hold the text  *)
(* (grep, symbol context) or exist (find).  The ripgrep path is left out:   *)
(* explore() always initialises the toolkit with a base scope               *)
(* (runtime.mjs:9061), which turns it off (repo-tools.mjs:888).             *)
EXTENDS Naturals, FiniteSets, LruCache

CONSTANTS
  Workers,      \* concurrent tool calls
  Files,        \* the files that may exist
  SubDirs,      \* directories below the root
  Parent,       \* the directory of a file or of a subdirectory
  Secret,       \* files and directories on the secret deny list
  Links,        \* symbolic links
  Ignored,      \* matched by .gitignore or the configured ignore patterns
  BaseScope,    \* the scope of the explore() call: a set of patterns,
                \* each the set of files it matches
  Requests,     \* the tool requests that may be made
  MaxResults, MaxWalk, CallerCap,  \* limits of the tools
  Ttl,          \* time to live of a cached git answer
  Sizes,        \* estimated sizes of results
  MaxWrites, MaxClock, MaxCalls    \* bounds of the instance

Root == "root"
Searches == {"find", "grep", "context"}

\* Bound: subdirectories lie directly below the root.
ASSUME RepoAssumption ==
  /\ IsFiniteSet(Files) /\ Files \cap SubDirs = {} /\ Root \notin Files \union SubDirs
  /\ \A f \in Files : Parent[f] \in SubDirs \union {Root}
  /\ \A d \in SubDirs : Parent[d] = Root
  /\ Sizes \subseteq Nat
  /\ MaxResults \in Nat /\ MaxWalk \in Nat /\ CallerCap \in Nat /\ Ttl \in Nat

ASSUME RequestAssumption ==
  \A r \in Requests :
    /\ r.kind \in Searches \union {"read", "git"}
    /\ r.kind \in Searches => r.scope \in SUBSET SUBSET Files
    /\ r.kind = "read" => r.file \in Files

VARIABLES
  disk,    \* per file: its kind, whether it holds the text, its modification time
  clock,   \* milliseconds, the resolution of the times the cache compares
  writes,  \* edits so far: what git answers are about
  cache,
  calls,   \* tool calls made so far
  job      \* per worker: the tool call in progress

vars == <<disk, clock, writes, cache, calls, job>>

Kinds == {"none", "text", "large", "huge", "binary"}

\* What the request looks for is in file f of a disk.
Holds(d, r, f) ==
  /\ d[f].kind # "none"
  /\ r.kind = "find" \/ d[f].has

Clear(d, r) == {f \in Files : ~Holds(d, r, f)}

NoResult == [found |-> {}, errors |-> FALSE, denied |-> FALSE, walkCut |-> FALSE,
             cut |-> FALSE, clear |-> {}]
Idle == [pc |-> "idle", req |-> [kind |-> "none"], time |-> 0, dirs |-> {},
         todo |-> {}, result |-> NoResult]

Init ==
  /\ disk \in [Files -> [kind : {"text"}, has : {FALSE}, mtime : {0}]]
  /\ clock = 0 /\ writes = 0 /\ calls = 0
  /\ cache = EmptyCache
  /\ job = [w \in Workers |-> Idle]
-----------------------------------------------------------------------------
(* The scope of a search: the files both the base scope and the local scope *)
(* match.  The boundary of its observation is usable when every pair of     *)
(* patterns is nested or disjoint and one pair is nested.                   *)
Matched(patterns) == UNION patterns
InScope(r) == Matched(BaseScope) \cap Matched(r.scope)
MayContain(r, d) == \E f \in InScope(r) : Parent[f] = d

Nested(b, l) == b \subseteq l \/ l \subseteq b
BoundaryUsable(r) ==
  /\ \A b \in BaseScope, l \in r.scope : Nested(b, l) \/ b \cap l = {}
  /\ \E b \in BaseScope, l \in r.scope : Nested(b, l)

\* Files the walk can reach: ignored ones are no part of the repository's
\* searchable text, by configuration.
Searchable == {f \in Files : f \notin Ignored /\ Parent[f] \notin Ignored}

ExactFile(r, f) == r.scope = {{f}}
\* The files a search by source role leaves out; no roles, no such filter.
OutOfRole(r, f) == r.roles # {} /\ f \notin r.roles
Readable(r, k, f) == k = "text" \/ (k = "large" /\ ExactFile(r, f))
-----------------------------------------------------------------------------
(* The world: the clock moves, the user edits, creates and deletes files.   *)
\* Edits keep the searches in progress informed of what they could have
\* seen: clear collects the files that lacked the text at some instant of
\* the search.  It is a history variable, no part of the code.
SeenClear(d) ==
  [w \in Workers |->
     IF job[w].pc \in {"walk", "scan", "store"} /\ job[w].req.kind \in Searches
     THEN [job[w] EXCEPT !.result.clear = @ \union Clear(d, job[w].req)]
     ELSE job[w]]

Write(f) ==
  /\ writes < MaxWrites
  /\ f \notin Secret \union Links
  /\ \E k \in Kinds, h \in BOOLEAN :
       /\ disk' = [disk EXCEPT ![f] = [kind |-> k, has |-> h, mtime |-> clock]]
       /\ disk'[f] # disk[f]
  /\ job' = SeenClear(disk')
  /\ writes' = writes + 1
  /\ UNCHANGED <<clock, cache, calls>>

Tick ==
  /\ clock < MaxClock
  /\ clock' = clock + 1
  /\ UNCHANGED <<disk, writes, cache, calls, job>>
-----------------------------------------------------------------------------
\* Mutant: reads are keyed by their path alone.
KeyWithoutTime(j) ==
  IF j.req.kind = "read" THEN [kind |-> "read", of |-> <<j.req.file>>, at |-> 0]
  ELSE [kind |-> j.req.kind, of |-> IF j.req.kind = "git" THEN << >> ELSE <<j.req.scope, j.req.roles>>,
        at |-> 0]

Key(j) ==
  CASE j.req.kind \in {"find", "grep"} ->
         [kind |-> j.req.kind, of |-> <<j.req.scope, j.req.roles>>, at |-> 0]
    [] j.req.kind = "read" -> [kind |-> "read", of |-> <<j.req.file>>, at |-> j.time]
    [] OTHER -> [kind |-> "git", of |-> << >>, at |-> 0]

\* callTool: a read takes the file's modification time for its key first, a
\* symbol context is never looked up.
Start(w, r) ==
  /\ job[w].pc = "idle"
  /\ calls < MaxCalls
  /\ calls' = calls + 1
  /\ job' = [job EXCEPT ![w] =
       IF r.kind = "context"
       THEN [Idle EXCEPT !.pc = "walk", !.req = r, !.dirs = {Root},
                         !.result.clear = Clear(disk, r)]
       ELSE [Idle EXCEPT !.pc = IF r.kind = "read" THEN "stat" ELSE "lookup", !.req = r]]
  /\ UNCHANGED <<disk, clock, writes, cache>>

\* A path that cannot be resolved keeps time 0: readFile reports the error.
StatTime(f) ==
  IF disk[f].kind # "none" /\ f \in Matched(BaseScope) \ Links THEN disk[f].mtime ELSE 0

Stat(w) ==
  /\ job[w].pc = "stat"
  /\ job' = [job EXCEPT ![w].pc = "lookup", ![w].time = StatTime(job[w].req.file)]
  /\ UNCHANGED <<disk, clock, writes, cache, calls>>

\* A miss begins the work; a git answer remembers when it was looked up.
Begun(j) ==
  IF j.req.kind \in Searches
  THEN [j EXCEPT !.pc = "walk", !.dirs = {Root}, !.result.clear = Clear(disk, j.req)]
  ELSE [j EXCEPT !.pc = "run"]

Lookup(w) ==
  /\ job[w].pc = "lookup"
  /\ LET j == IF job[w].req.kind = "git" THEN [job[w] EXCEPT !.time = clock] ELSE job[w]
         k == Key(j)
     IN /\ cache' = AfterGet(cache, k, clock)
        /\ job' = [job EXCEPT ![w] =
             IF Hit(cache, k, clock)
             THEN [j EXCEPT !.pc = "answer", !.result = cache.entries[k].value]
             ELSE Begun(j)]
  /\ UNCHANGED <<disk, clock, writes, calls>>
-----------------------------------------------------------------------------
(* walkFiles: one directory per step.                                       *)
Relevant(r, e) == IF e \in SubDirs THEN MayContain(r, e) ELSE e \in InScope(r)
Entries(d) == {e \in Files \union SubDirs :
                 Parent[e] = d /\ (e \in Files => disk[e].kind # "none")}
Walkable(r, d) == {e \in Entries(d) \ (Secret \union Links \union Ignored) : Relevant(r, e)}

\* Mutant: a directory that cannot be read is skipped without a trace.
WalkFailsQuietly(w) ==
  /\ job[w].pc = "walk"
  /\ \E d \in job[w].dirs : job' = [job EXCEPT ![w].dirs = @ \ {d}]
  /\ UNCHANGED <<disk, clock, writes, cache, calls>>

WalkFails(w) ==
  /\ job[w].pc = "walk"
  /\ \E d \in job[w].dirs :
       job' = [job EXCEPT ![w] = [job[w] EXCEPT !.dirs = @ \ {d}, !.result.errors = TRUE]]
  /\ UNCHANGED <<disk, clock, writes, cache, calls>>

WalkDir(w) ==
  /\ job[w].pc = "walk"
  /\ \E d \in job[w].dirs :
       LET j == job[w]
           more == Walkable(j.req, d)
           files == j.todo \union (more \cap Files)
           over == Cardinality(files) > MaxWalk
           secret == \E e \in Entries(d) \cap Secret : Relevant(j.req, e)
           link == \E e \in Entries(d) \cap (Links \ Secret) : Relevant(j.req, e)
           walked == [j EXCEPT !.result.denied = @ \/ secret,
                               !.result.errors = @ \/ link,
                               !.result.walkCut = @ \/ over]
       IN \E kept \in IF over THEN kSubset(MaxWalk, files) ELSE {files} :
            job' = [job EXCEPT ![w] =
              [walked EXCEPT !.todo = kept,
                             !.dirs = IF over THEN {} ELSE (@ \ {d}) \union (more \cap SubDirs)]]
  /\ UNCHANGED <<disk, clock, writes, cache, calls>>

\* findFiles filters the walked names; the others read the files.
WalkDone(w) ==
  /\ job[w].pc = "walk"
  /\ job[w].dirs = {}
  /\ job' = [job EXCEPT ![w] =
       IF @.req.kind = "find"
       THEN [@ EXCEPT !.pc = "store", !.todo = {}, !.result.found = job[w].todo]
       ELSE [@ EXCEPT !.pc = "scan"]]
  /\ UNCHANGED <<disk, clock, writes, cache, calls>>

\* grep reads one file: it may be gone or unreadable by now, too large or
\* binary, and the search stops at one match more than it may return.
ScanFile(w) ==
  /\ job[w].pc = "scan"
  /\ \E f \in job[w].todo :
       LET j == job[w]
           found == j.result.found \union {f}
           next == [j EXCEPT !.todo = @ \ {f}]
       IN \/ /\ OutOfRole(j.req, f)
             /\ job' = [job EXCEPT ![w] = next]
          \/ /\ ~OutOfRole(j.req, f)
             /\ job' = [job EXCEPT ![w] = [next EXCEPT !.result.errors = TRUE]]
          \/ /\ ~OutOfRole(j.req, f)
             /\ disk[f].kind \in {"large", "huge", "binary"}
             /\ ~Readable(j.req, disk[f].kind, f)
             /\ job' = [job EXCEPT ![w] = [next EXCEPT !.result.cut = TRUE]]
          \/ /\ ~OutOfRole(j.req, f)
             /\ Readable(j.req, disk[f].kind, f)
             /\ job' = [job EXCEPT ![w] =
                  IF ~disk[f].has THEN next
                  ELSE IF Cardinality(found) > MaxResults
                  THEN [next EXCEPT !.result.found = found, !.todo = {}]
                  ELSE [next EXCEPT !.result.found = found]]
  /\ UNCHANGED <<disk, clock, writes, cache, calls>>

ScanDone(w) ==
  /\ job[w].pc = "scan"
  /\ job[w].todo = {}
  /\ job' = [job EXCEPT ![w].pc = "store"]
  /\ UNCHANGED <<disk, clock, writes, cache, calls>>

\* A symbol context shows a bounded choice of the callers it found.
ResultLimit(r) == IF r.kind = "context" /\ CallerCap < MaxResults THEN CallerCap ELSE MaxResults

\* The result a search returns, truncated to its limit.
Capped(r, result) ==
  LET limit == ResultLimit(r)
      over == Cardinality(result.found) > limit
  IN {[result EXCEPT !.found = kept, !.cut = @ \/ over] :
        kept \in IF over THEN kSubset(limit, result.found) ELSE {result.found}}

StoreSearch(w) ==
  /\ job[w].pc = "store"
  /\ \E value \in Capped(job[w].req, job[w].result), size \in Sizes :
       /\ job' = [job EXCEPT ![w].pc = "answer", ![w].result = value]
       /\ cache' = IF job[w].req.kind = "context" THEN cache
                   ELSE AfterSet(cache, Key(job[w]),
                                 [value |-> value, size |-> size, expires |-> {}])
  /\ UNCHANGED <<disk, clock, writes, calls>>
-----------------------------------------------------------------------------
(* readFile and git run in one step, then the answer is stored in another.  *)
CanRead(f) ==
  /\ f \in Matched(BaseScope)
  /\ f \in Secret \/ (f \notin Links /\ disk[f].kind \in {"text", "large"})

\* A read remembers when what it shows was written (history); an answer that
\* throws is an error result, not stored.
Run(w) ==
  /\ job[w].pc = "run"
  /\ job' = [job EXCEPT ![w] =
       IF @.req.kind = "git"
       THEN [@ EXCEPT !.pc = "keep", !.result = [at |-> 0]]
       ELSE IF CanRead(@.req.file)
       THEN [@ EXCEPT !.pc = "keep", !.result = [at |-> disk[job[w].req.file].mtime]]
       ELSE Idle]
  /\ UNCHANGED <<disk, clock, writes, cache, calls>>

Expiry(r) == IF r.kind = "git" THEN {clock + Ttl} ELSE {}

\* A git answer remembers when it was stored (history).
Keep(w) ==
  /\ job[w].pc = "keep"
  /\ LET result == IF job[w].req.kind = "git" THEN [at |-> clock] ELSE job[w].result
     IN /\ \E size \in Sizes :
             cache' = AfterSet(cache, Key(job[w]),
                               [value |-> result, size |-> size, expires |-> Expiry(job[w].req)])
        /\ job' = [job EXCEPT ![w].pc = "answer", ![w].result = result]
  /\ UNCHANGED <<disk, clock, writes, calls>>

\* The result goes to the turn loop, which records the observation.
Observe(w) ==
  /\ job[w].pc = "answer"
  /\ job' = [job EXCEPT ![w] = Idle]
  /\ UNCHANGED <<disk, clock, writes, cache, calls>>

Next ==
  \/ Tick
  \/ \E f \in Files : Write(f)
  \/ \E w \in Workers :
       \/ \E r \in Requests : Start(w, r)
       \/ Stat(w) \/ Lookup(w)
       \/ WalkFails(w) \/ WalkDir(w) \/ WalkDone(w)
       \/ ScanFile(w) \/ ScanDone(w) \/ StoreSearch(w)
       \/ Run(w) \/ Keep(w) \/ Observe(w)

Spec == Init /\ [][Next]_vars
-----------------------------------------------------------------------------
(* What the runtime concludes from a result: deriveRepositoryObservation-   *)
(* Coverage and normalizeRepositoryObservation.  The unscoped git tools,    *)
(* listings and reference lists never certify an enumeration.               *)
Truncated(result) == result.walkCut \/ result.cut

EnumerationComplete(r, result) ==
  /\ BoundaryUsable(r)
  /\ r.roles = {}
  /\ ~Truncated(result)
  /\ ~result.denied
  /\ ~result.errors

Answered(w) == job[w].pc = "answer" /\ job[w].req.kind \in Searches
-----------------------------------------------------------------------------
TypeOK ==
  /\ disk \in [Files -> [kind : Kinds, has : BOOLEAN, mtime : 0..clock]]
  /\ clock \in Nat /\ writes \in 0..MaxWrites /\ calls \in 0..MaxCalls
  /\ \A w \in Workers : job[w].todo \subseteq Files

\* No negative proof and no count rests on something the search did not see:
\* of every searchable file in the boundary of a complete enumeration, the
\* result shows a match or there was an instant during the search that filled
\* it at which the file held none.  Whatever was edited meanwhile, whichever
\* directory or file could not be read, was denied, too large or cut, and
\* whichever worker's result the cache gave back.
CompleteIsExact ==
  \A w \in Workers :
    Answered(w) /\ EnumerationComplete(job[w].req, job[w].result) =>
      InScope(job[w].req) \cap Searchable \subseteq job[w].result.found \union job[w].result.clear

\* A cached read is never older than the modification time its call took, at
\* the millisecond the key keeps, although the file is read after that time
\* was taken and two workers may fill the entry; a git answer is served within
\* its time to live, however often it is hit.
AnswersAreFresh ==
  \A w \in Workers : job[w].pc = "answer" =>
    CASE job[w].req.kind = "read" -> job[w].result.at >= job[w].time
      [] job[w].req.kind = "git" -> job[w].time <= job[w].result.at + Ttl
      [] OTHER -> TRUE

\* Replacement by a second worker, expiry and eviction keep the byte count
\* equal to what the map holds, and within its bound.
BytesAreExact == CacheIsSound(cache)
=============================================================================
