---------------------------- MODULE CatalogCache ----------------------------
(***************************************************************************)
(* The in-process cache of shared Nest lists in the proxy of one server     *)
(* instance, lib/nest-catalog-cache.ts, and forwardToNestApi of             *)
(* lib/nest-proxy-forward.ts, which fills it after a GET and invalidates it *)
(* after a successful write.  Handlers run concurrently and are suspended   *)
(* while Nest works; Nest numbers the writes it takes (writes), and a list  *)
(* is characterised by the number of the last write it was read after.      *)
(***************************************************************************)
EXTENDS Naturals

CONSTANTS
    Handlers,    \* the proxy requests that may be under way together
    ListSets,    \* the sets of lists the clients of one behaviour may ask for
    WriteSets,   \* the sets of writes they may make
    MaxWrites,   \* bound on the writes Nest takes
    MaxRestarts  \* bound on restarts of the server instance

ASSUME ConstantsAssumption ==
    /\ MaxWrites \in Nat
    /\ MaxRestarts \in Nat

-----------------------------------------------------------------------------
(* What a write of each path changes in Nest, a table per kind of row. *)
Tables == {"semester", "lesson", "week", "settings", "capacity", "enrollment", "user",
           "province", "city", "education", "school", "university", "degree", "role"}

(* The paths of CACHEABLE (a query string selects among entries that are always
   invalidated together) and the tables each list shows: its own rows, and what Nest
   joins to them, titles of relations and counts of what hangs on a row, on which
   deleteBlocked rests. *)
Shows == [
    semester |-> {"semester"},
    semesters_all |-> {"semester", "lesson", "week"},
    settings |-> {"settings"},
    professors |-> {"capacity", "enrollment", "user"},
    open_course_selection |-> {"semester", "lesson", "enrollment"},
    provinces |-> {"province", "university", "education", "school", "user"},
    province_all |-> {"province"},
    cities |-> {"city", "province", "school", "user"},
    educations |-> {"education", "province", "city", "school", "user"},
    schools |-> {"school", "province", "city", "education", "user"},
    schools_all |-> {"school", "province", "city", "education"},
    universites |-> {"university", "province", "city", "user"},
    degreeee |-> {"degree", "role"},
    roles |-> {"role"}]

Lists == DOMAIN Shows

(* The lists an administrator edits: all but the two of the course selection. *)
AdminLists == Lists \ {"professors", "open_course_selection"}

(* The tables whose rows a list is made of, that is, without the joins. *)
Own(p) ==
    CASE p = "semesters_all" -> {"semester", "lesson", "week"}
      [] p \in {"provinces", "province_all"} -> {"province"}
      [] p = "cities" -> {"city"}
      [] p = "educations" -> {"education"}
      [] p \in {"schools", "schools_all"} -> {"school"}
      [] p = "universites" -> {"university"}
      [] p = "degreeee" -> {"degree"}
      [] OTHER -> Shows[p]

(* A GET that CACHEABLE does not name, such as admin/weeks/lesson/{id}. *)
Uncached == "weeks_of_lesson"

Paths == Lists \cup {Uncached}

ASSUME ListSetsAssumption == ListSets \subseteq SUBSET Paths

(* The lifetime of an entry, in ticks of one upstream timeout: one minute for
   open-course-selection, more for the others (five minutes to an hour). *)
Ttl == [p \in Paths |-> IF p = "open_course_selection" THEN 1 ELSE 2]

(* AbortSignal.timeout(60_000) bounds a request to Nest by one tick. *)
Flight == 1

(* A write: the path it goes to ("x/id" for one row of x) and what it changes. *)
Write(path, changes) == [path |-> path, changes |-> changes]

Writes == {
    Write("semester", {"semester", "lesson"}),
    Write("semester/id", {"semester"}),
    Write("semester/id", {"semester", "lesson", "week", "capacity"}),
    Write("lessons/", {"lesson"}),
    Write("lessons/", {"week"}),
    Write("weeks", {"week"}),
    Write("weeks/", {"week"}),
    Write("settings", {"settings"}),
    Write("professor-capacities", {"capacity"}),
    Write("student-enrollments", {"enrollment"}),
    Write("account-users", {"user"}),
    Write("provinces", {"province"}),
    Write("provinces/id", {"province"}),
    Write("cities", {"city"}),
    Write("cities/id", {"city"}),
    Write("educations", {"education"}),
    Write("educations/id", {"education"}),
    Write("schools", {"school"}),
    Write("schools/id", {"school"}),
    Write("schoolsid", {"school"}),
    Write("universites", {"university"}),
    Write("universites/id", {"university"}),
    Write("degree", {"degree"}),
    Write("degree/id", {"degree"})}

ASSUME WriteSetsAssumption == WriteSets \subseteq SUBSET Writes

(* MUTATION_CASCADE: after a write to the first path the second list goes too. *)
Cascade == {
    <<"semester", "semesters_all">>,
    <<"semester/id", "semester">>, <<"semester/id", "semesters_all">>,
    <<"lessons/", "semesters_all">>,
    <<"weeks", "semesters_all">>,
    <<"weeks/", "semesters_all">>,
    <<"provinces", "province_all">>,
    <<"provinces/id", "provinces">>, <<"provinces/id", "province_all">>,
    <<"cities/id", "cities">>,
    <<"educations/id", "educations">>,
    <<"schools", "schools_all">>,
    <<"schools/id", "schools">>, <<"schools/id", "schools_all">>,
    <<"schoolsid", "schools">>, <<"schoolsid", "schools_all">>,
    <<"universites/id", "universites">>,
    <<"degree", "degreeee">>,
    <<"degree/id", "degreeee">>}

(* Mutant: only the list of the very path that was written. *)
ExactMatch(path, l) == l = path

(* invalidateCatalogCacheByPath: the exact path, then the cascade. *)
Invalidated(path, l) == l = path \/ <<path, l>> \in Cascade

(* Mutant: every GET is worth an entry. *)
EveryGet(p) == TRUE

(* getCatalogCacheTtl is not null. *)
Cacheable(p) == p \in Lists

-----------------------------------------------------------------------------
VARIABLES
    asked,     \* the lists the clients of this behaviour ask for
    written,   \* the writes they make
    cache,     \* _store: an entry, or none, per path
    req,       \* the handlers
    writes,    \* how many writes Nest has taken
    answered,  \* history: per table, the last write whose success was forwarded
    restarts   \* restarts so far

vars == <<asked, written, cache, req, writes, answered, restarts>>

(* An entry: the write number its data was read after, its age since it was
   stored, the age of the data since Nest read it, and whether a write was
   answered between that reading and the storing. *)
Entry == [seq : Nat, age : Nat, old : Nat, crossed : BOOLEAN]
NoEntry == [age |-> 0]

(* A handler.  `stage` is "asked" until Nest has served it, then "done". *)
GetReq == [kind : {"get"}, path : Paths, stage : {"asked", "done"},
           flight : Nat, seq : Nat, old : Nat, crossed : BOOLEAN]
WriteReq == [kind : {"write"}, write : Writes, stage : {"asked", "done"},
             flight : Nat, seq : Nat]
NoReq == [kind |-> "idle"]

TypeOK ==
    /\ asked \in ListSets
    /\ written \in WriteSets
    /\ cache \in [Paths -> Entry \cup {NoEntry}]
    /\ cache[Uncached] = NoEntry
    /\ req \in [Handlers -> GetReq \cup WriteReq \cup {NoReq}]
    /\ writes \in 0..MaxWrites
    /\ answered \in [Tables -> 0..MaxWrites]
    /\ restarts \in 0..MaxRestarts

Init ==
    /\ asked \in ListSets
    /\ written \in WriteSets
    /\ cache = [p \in Paths |-> NoEntry]
    /\ req = [h \in Handlers |-> NoReq]
    /\ writes = 0
    /\ answered = [t \in Tables |-> 0]
    /\ restarts = 0

(* Mutant: an entry lives until something invalidates it. *)
Kept(p) == cache[p] # NoEntry

(* getCatalogCache returns an entry. *)
Unexpired(p) == cache[p] # NoEntry /\ cache[p].age <= Ttl[p]

-----------------------------------------------------------------------------
(* A GET that finds an unexpired entry is answered from it and changes nothing.
   Any other one drops an expired entry and asks Nest. *)
GetMisses(h, p) ==
    /\ req[h] = NoReq
    /\ p \in asked
    /\ ~Unexpired(p)
    /\ cache' = [cache EXCEPT ![p] = NoEntry]
    /\ req' = [req EXCEPT ![h] = [kind |-> "get", path |-> p, stage |-> "asked",
                                  flight |-> 0, seq |-> 0, old |-> 0, crossed |-> FALSE]]
    /\ UNCHANGED <<asked, written, writes, answered, restarts>>

NestReads(h) ==
    /\ req[h].kind = "get"
    /\ req[h].stage = "asked"
    /\ req' = [req EXCEPT ![h] = [@ EXCEPT !.stage = "done", !.seq = writes]]
    /\ UNCHANGED <<asked, written, cache, writes, answered, restarts>>

(* A 200 with a JSON body is stored under its path, whatever happened meanwhile. *)
GetFills(h) ==
    /\ req[h].kind = "get"
    /\ req[h].stage = "done"
    /\ cache' = IF Cacheable(req[h].path)
                  THEN [cache EXCEPT ![req[h].path] =
                          [seq |-> req[h].seq, age |-> 0, old |-> req[h].old,
                           crossed |-> req[h].crossed]]
                  ELSE cache
    /\ req' = [req EXCEPT ![h] = NoReq]
    /\ UNCHANGED <<asked, written, writes, answered, restarts>>

WriteStarts(h, w) ==
    /\ req[h] = NoReq
    /\ w \in written
    /\ req' = [req EXCEPT ![h] = [kind |-> "write", write |-> w, stage |-> "asked",
                                  flight |-> 0, seq |-> 0]]
    /\ UNCHANGED <<asked, written, cache, writes, answered, restarts>>

NestWrites(h) ==
    /\ req[h].kind = "write"
    /\ req[h].stage = "asked"
    /\ writes < MaxWrites
    /\ writes' = writes + 1
    /\ req' = [req EXCEPT ![h] = [@ EXCEPT !.stage = "done", !.seq = writes + 1]]
    /\ UNCHANGED <<asked, written, cache, answered, restarts>>

(* The GETs whose data may be older than the write just answered. *)
Crossed(r) == IF r.kind = "get" THEN [r EXCEPT !.crossed = TRUE] ELSE r

(* A 2xx: the lists the write concerns leave the cache and the client is told. *)
WriteAnswered(h) ==
    /\ req[h].kind = "write"
    /\ req[h].stage = "done"
    /\ cache' = [p \in Paths |->
                   IF Invalidated(req[h].write.path, p) THEN NoEntry ELSE cache[p]]
    /\ req' = [g \in Handlers |-> IF g = h THEN NoReq ELSE Crossed(req[g])]
    /\ answered' = [t \in Tables |->
                      IF t \in req[h].write.changes /\ answered[t] < req[h].seq
                        THEN req[h].seq ELSE answered[t]]
    /\ UNCHANGED <<asked, written, writes, restarts>>

(* No answer within the timeout, a broken connection, or a refusal by Nest: no
   entry is stored or dropped, even if Nest has done the work. *)
UpstreamFails(h) ==
    /\ req[h] # NoReq
    /\ req' = [req EXCEPT ![h] = NoReq]
    /\ UNCHANGED <<asked, written, cache, writes, answered, restarts>>

(* The instance restarts: its Map and its handlers are gone. *)
Restart ==
    /\ restarts < MaxRestarts
    /\ restarts' = restarts + 1
    /\ cache' = [p \in Paths |-> NoEntry]
    /\ req' = [h \in Handlers |-> NoReq]
    /\ UNCHANGED <<asked, written, writes, answered>>

(* Ages are only compared with the lifetime, so they stop growing beyond it. *)
Older(n, bound) == IF n <= bound THEN n + 1 ELSE n

AgedEntry(p) ==
    IF cache[p] = NoEntry THEN NoEntry
    ELSE [cache[p] EXCEPT !.age = Older(@, Ttl[p]), !.old = Older(@, Ttl[p] + Flight)]

AgedReq(r) ==
    IF r = NoReq THEN r
    ELSE IF r.kind = "get" /\ r.stage = "done"
           THEN [r EXCEPT !.flight = @ + 1, !.old = @ + 1]
           ELSE [r EXCEPT !.flight = @ + 1]

UnderWay == {h \in Handlers : req[h] # NoReq}

(* One upstream timeout passes; a request that old has been aborted. *)
Tick ==
    /\ \A h \in UnderWay : req[h].flight < Flight
    /\ cache' = [p \in Paths |-> AgedEntry(p)]
    /\ req' = [h \in Handlers |-> AgedReq(req[h])]
    /\ UNCHANGED <<asked, written, writes, answered, restarts>>

GetNext(h) ==
    \/ \E p \in Paths : GetMisses(h, p)
    \/ NestReads(h)
    \/ GetFills(h)

WriteNext(h) ==
    \/ \E w \in Writes : WriteStarts(h, w)
    \/ NestWrites(h)
    \/ WriteAnswered(h)

Next ==
    \/ \E h \in Handlers : GetNext(h) \/ WriteNext(h) \/ UpstreamFails(h)
    \/ Restart
    \/ Tick

Spec == Init /\ [][Next]_vars

-----------------------------------------------------------------------------
(* The data of a served entry shows every write to its own rows that a client was
   told had succeeded. *)
ShowsOwn(p) == \A t \in Own(p) : cache[p].seq >= answered[t]

(* An administrator who was told that a row is added, changed or deleted is served
   no list of such rows without it, whatever the path of the write and the list:
   every pair of a write and a list of the rows it changes has its cascade rule.
   Two exceptions the code does not prevent: an entry filled by a GET that a write
   overtook, and the joins, for which there is no rule at all (the renamed province
   in the list of cities, the schools counted in the list of provinces). *)
OwnRowsFresh ==
    \A p \in AdminLists :
      Unexpired(p) /\ ~cache[p].crossed => ShowsOwn(p)

(* However GETs, writes, failures and restarts interleave, no answer served from
   the cache was read from Nest longer ago than its lifetime and one upstream
   timeout: the bound on staleness where no rule (the joins, the lists of the course
   selection) or a lost race invalidates. *)
StalenessBounded ==
    \A p \in Lists : Unexpired(p) => cache[p].old <= Ttl[p] + Flight

=============================================================================
