------------------------- MODULE CatalogCacheProofs -------------------------
(***************************************************************************)
(* Proofs about CatalogCache for any number of handlers, any clients and    *)
(* any bounds.                                                             *)
(***************************************************************************)
EXTENDS CatalogCache, TLAPS

(* The cascade rules are complete for the rows of the lists an administrator edits: a
   list that survives a write has no row of its own the write changed. *)
LEMMA CascadeComplete ==
    ASSUME NEW w \in Writes, NEW p \in AdminLists, ~Invalidated(w.path, p)
    PROVE  w.changes \cap Own(p) = {}
  BY DEF Writes, Write, AdminLists, Lists, Shows, Own, Invalidated, Cascade

LEMMA TableTypes ==
    /\ Lists \subseteq Paths
    /\ AdminLists \subseteq Lists
    /\ Uncached \notin Lists
    /\ \A p \in Paths : Ttl[p] \in Nat
    /\ \A p \in AdminLists : Own(p) \subseteq Tables
    /\ \A w \in Writes : w.changes \subseteq Tables
  <1>1. Lists = {"semester", "semesters_all", "settings", "professors",
                 "open_course_selection", "provinces", "province_all", "cities",
                 "educations", "schools", "schools_all", "universites", "degreeee", "roles"}
    BY DEF Lists, Shows
  <1>2. Uncached \notin Lists
    BY <1>1 DEF Uncached
  <1>3. \A p \in Paths : Ttl[p] \in Nat
    BY DEF Ttl
  <1>4. \A p \in AdminLists : Own(p) \subseteq Tables
    BY <1>1 DEF AdminLists, Own, Shows, Tables
  <1>5. \A w \in Writes : w.changes \subseteq Tables
    BY DEF Writes, Write, Tables
  <1>6. QED
    BY <1>2, <1>3, <1>4, <1>5 DEF Paths, AdminLists

-----------------------------------------------------------------------------
(***************************************************************************)
(* Types, action by action.                                                *)
(***************************************************************************)
AnyReq == GetReq \cup WriteReq \cup {NoReq}

LEMMA RequestKinds ==
    ASSUME NEW r \in AnyReq
    PROVE  /\ r.kind = "get" => r \in GetReq
           /\ r.kind = "write" => r \in WriteReq
  BY DEF AnyReq, GetReq, WriteReq, NoReq

LEMMA RequestUpdates ==
    /\ \A r \in GetReq, n \in Nat : [r EXCEPT !.stage = "done", !.seq = n] \in GetReq
    /\ \A r \in WriteReq, n \in Nat : [r EXCEPT !.stage = "done", !.seq = n] \in WriteReq
    /\ \A r \in AnyReq : Crossed(r) \in AnyReq
    /\ \A r \in AnyReq : AgedReq(r) \in AnyReq
  <1>1. \A r \in GetReq, n \in Nat : [r EXCEPT !.stage = "done", !.seq = n] \in GetReq
    BY DEF GetReq
  <1>2. \A r \in WriteReq, n \in Nat : [r EXCEPT !.stage = "done", !.seq = n] \in WriteReq
    BY DEF WriteReq
  <1>3. \A r \in AnyReq : Crossed(r) \in AnyReq
    BY RequestKinds DEF Crossed, AnyReq, GetReq
  <1>4. ASSUME NEW r \in AnyReq
        PROVE  AgedReq(r) \in AnyReq
    <2>1. CASE r = NoReq
      BY <2>1 DEF AgedReq, AnyReq
    <2>2. CASE r \in GetReq
      <3>1. r # NoReq /\ r.kind = "get"
        BY <2>2 DEF GetReq, NoReq
      <3>2. PICK f \in Nat, o \in Nat : f = r.flight + 1 /\ o = r.old + 1
        BY <2>2 DEF GetReq
      <3>3. AgedReq(r) \in {[r EXCEPT !.flight = f, !.old = o], [r EXCEPT !.flight = f]}
        BY <3>1, <3>2 DEF AgedReq
      <3>4. [r EXCEPT !.flight = f, !.old = o] \in GetReq /\ [r EXCEPT !.flight = f] \in GetReq
        BY <2>2 DEF GetReq
      <3>5. QED
        BY <3>3, <3>4 DEF AnyReq
    <2>3. CASE r \in WriteReq
      BY <2>3 DEF AgedReq, AnyReq, WriteReq, NoReq
    <2>4. QED
      BY <2>1, <2>2, <2>3 DEF AnyReq
  <1>5. QED
    BY <1>1, <1>2, <1>3, <1>4

LEMMA EntryAges ==
    ASSUME TypeOK, NEW p \in Paths
    PROVE  AgedEntry(p) \in Entry \cup {NoEntry}
  <1>1. CASE cache[p] = NoEntry
    BY <1>1 DEF AgedEntry
  <1>2. CASE cache[p] # NoEntry
    <2>1. cache[p] \in Entry
      BY <1>2 DEF TypeOK
    <2>2. Ttl[p] \in Nat /\ Flight \in Nat
      BY TableTypes DEF Flight
    <2>3. \A n, b \in Nat : Older(n, b) \in Nat
      BY DEF Older
    <2>4. Ttl[p] + Flight \in Nat /\ cache[p].age \in Nat /\ cache[p].old \in Nat
      BY <2>1, <2>2 DEF Entry
    <2>5. PICK a \in Nat, o \in Nat :
            a = Older(cache[p].age, Ttl[p]) /\ o = Older(cache[p].old, Ttl[p] + Flight)
      BY <2>2, <2>3, <2>4
    <2>6. AgedEntry(p) = [cache[p] EXCEPT !.age = a, !.old = o]
      BY <1>2, <2>5 DEF AgedEntry
    <2>7. QED
      BY <2>1, <2>6 DEF Entry
  <1>3. QED
    BY <1>1, <1>2

(* No handler and no answer is ahead of Nest. *)
WritesSeen ==
    /\ \A t \in Tables : answered[t] <= writes
    /\ \A h \in Handlers :
         req[h].kind = "write" /\ req[h].stage = "done" => req[h].seq <= writes

LEMMA TypeInductive ==
    ASSUME TypeOK, WritesSeen, [Next]_vars
    PROVE  TypeOK'
  <1> USE ConstantsAssumption, ListSetsAssumption, WriteSetsAssumption
  <1>0. writes \in Nat /\ req \in [Handlers -> AnyReq]
    BY DEF TypeOK, AnyReq
  <1>1. ASSUME NEW h \in Handlers, NEW p \in Paths, GetMisses(h, p)
        PROVE  TypeOK'
    <2>1. [kind |-> "get", path |-> p, stage |-> "asked", flight |-> 0, seq |-> 0,
           old |-> 0, crossed |-> FALSE] \in GetReq
      BY DEF GetReq
    <2>2. QED
      BY <1>1, <2>1 DEF GetMisses, TypeOK
  <1>2. ASSUME NEW h \in Handlers, NestReads(h)
        PROVE  TypeOK'
    <2>1. req[h] \in GetReq
      BY <1>0, <1>2, RequestKinds DEF NestReads
    <2>2. [req[h] EXCEPT !.stage = "done", !.seq = writes] \in GetReq
      BY <1>0, <2>1, RequestUpdates
    <2>3. QED
      BY <1>2, <2>2 DEF NestReads, TypeOK
  <1>3. ASSUME NEW h \in Handlers, GetFills(h)
        PROVE  TypeOK'
    <2>1. req[h] \in GetReq
      BY <1>0, <1>3, RequestKinds DEF GetFills
    <2>2. [seq |-> req[h].seq, age |-> 0, old |-> req[h].old, crossed |-> req[h].crossed] \in Entry
      BY <2>1 DEF GetReq, Entry
    <2>3. Cacheable(req[h].path) => req[h].path # Uncached
      BY TableTypes DEF Cacheable
    <2>4. CASE Cacheable(req[h].path)
      BY <1>3, <2>1, <2>2, <2>3, <2>4 DEF GetFills, TypeOK, GetReq
    <2>5. CASE ~Cacheable(req[h].path)
      BY <1>3, <2>5 DEF GetFills, TypeOK
    <2>6. QED
      BY <2>4, <2>5
  <1>4. ASSUME NEW h \in Handlers, NEW w \in Writes, WriteStarts(h, w)
        PROVE  TypeOK'
    <2>1. [kind |-> "write", write |-> w, stage |-> "asked", flight |-> 0, seq |-> 0] \in WriteReq
      BY DEF WriteReq
    <2>2. QED
      BY <1>4, <2>1 DEF WriteStarts, TypeOK
  <1>5. ASSUME NEW h \in Handlers, NestWrites(h)
        PROVE  TypeOK'
    <2>1. req[h] \in WriteReq
      BY <1>0, <1>5, RequestKinds DEF NestWrites
    <2>2. [req[h] EXCEPT !.stage = "done", !.seq = writes + 1] \in WriteReq
      <3>1. PICK n \in Nat : n = writes + 1
        BY <1>0
      <3>2. QED
        BY <2>1, <3>1, RequestUpdates
    <2>3. writes + 1 \in 0..MaxWrites
      BY <1>5 DEF NestWrites, TypeOK
    <2>4. QED
      BY <1>5, <2>2, <2>3 DEF NestWrites, TypeOK
  <1>6. ASSUME NEW h \in Handlers, WriteAnswered(h)
        PROVE  TypeOK'
    <2>1. req' \in [Handlers -> AnyReq]
      BY <1>0, <1>6, RequestUpdates DEF WriteAnswered, AnyReq
    <2>2. req[h] \in WriteReq
      BY <1>0, <1>6, RequestKinds DEF WriteAnswered
    <2>3. req[h].seq \in 0..MaxWrites
      BY <1>6, <2>2 DEF WriteAnswered, WritesSeen, WriteReq, TypeOK
    <2>4. answered' \in [Tables -> 0..MaxWrites]
      BY <1>6, <2>3 DEF WriteAnswered, TypeOK
    <2>5. cache' \in [Paths -> Entry \cup {NoEntry}] /\ cache'[Uncached] = NoEntry
      BY <1>6 DEF WriteAnswered, TypeOK, Paths
    <2>6. QED
      BY <1>6, <2>1, <2>4, <2>5 DEF WriteAnswered, TypeOK, AnyReq
  <1>7. ASSUME NEW h \in Handlers, UpstreamFails(h)
        PROVE  TypeOK'
    BY <1>7 DEF UpstreamFails, TypeOK
  <1>8. CASE Restart
    <2>1. restarts' \in 0..MaxRestarts
      BY <1>8 DEF Restart, TypeOK
    <2>2. req' \in [Handlers -> GetReq \cup WriteReq \cup {NoReq}]
      BY <1>8 DEF Restart
    <2>3. cache' \in [Paths -> Entry \cup {NoEntry}] /\ cache'[Uncached] = NoEntry
      BY <1>8 DEF Restart, Paths
    <2>4. QED
      BY <1>8, <2>1, <2>2, <2>3 DEF Restart, TypeOK
  <1>9. CASE Tick
    <2>1. req' \in [Handlers -> AnyReq]
      BY <1>0, <1>9, RequestUpdates DEF Tick
    <2>2. cache' \in [Paths -> Entry \cup {NoEntry}] /\ cache'[Uncached] = NoEntry
      BY <1>9, EntryAges DEF Tick, TypeOK, AgedEntry, Paths
    <2>3. QED
      BY <1>9, <2>1, <2>2 DEF Tick, TypeOK, AnyReq
  <1>10. CASE UNCHANGED vars
    BY <1>10 DEF vars, TypeOK
  <1>11. QED
    BY <1>1, <1>2, <1>3, <1>4, <1>5, <1>6, <1>7, <1>8, <1>9, <1>10
    DEF Next, GetNext, WriteNext

-----------------------------------------------------------------------------
(***************************************************************************)
(* Ages: data is at most one flight older than the entry that holds it.     *)
(***************************************************************************)
AgesInv ==
    /\ \A p \in Paths : cache[p] # NoEntry => cache[p].old <= cache[p].age + Flight
    /\ \A h \in Handlers :
         req[h].kind = "get" => req[h].old <= req[h].flight /\ req[h].flight <= Flight

(* The entry a step leaves under p, and the handler it leaves in h, keep AgesInv. *)
LEMMA AgedEntryKeepsBound ==
    ASSUME TypeOK, NEW p \in Paths, cache[p] # NoEntry,
           cache[p].old <= cache[p].age + Flight
    PROVE  AgedEntry(p).old <= AgedEntry(p).age + Flight
  <1>1. cache[p] \in Entry
    BY DEF TypeOK
  <1>2. PICK a \in Nat, o \in Nat : a = cache[p].age /\ o = cache[p].old
    BY <1>1 DEF Entry
  <1>3. PICK l \in Nat : l = Ttl[p]
    BY TableTypes
  <1>4. o <= a + 1
    BY <1>2 DEF Flight
  <1>5. Older(o, l + 1) <= Older(a, l) + 1
    BY <1>4 DEF Older
  <1>6. /\ AgedEntry(p).age = Older(a, l)
        /\ AgedEntry(p).old = Older(o, l + 1)
    BY <1>1, <1>2, <1>3 DEF AgedEntry, Entry, Flight
  <1>7. QED
    BY <1>5, <1>6 DEF Flight

LEMMA AgesInductive ==
    ASSUME TypeOK, AgesInv, [Next]_vars
    PROVE  AgesInv'
  <1>0. req \in [Handlers -> AnyReq]
    BY DEF TypeOK, AnyReq
  <1>1. ASSUME NEW h \in Handlers, NEW p \in Paths, GetMisses(h, p)
        PROVE  AgesInv'
    BY <1>1 DEF GetMisses, AgesInv, TypeOK, Flight
  <1>2. ASSUME NEW h \in Handlers, NestReads(h)
        PROVE  AgesInv'
    <2>1. req[h] \in GetReq
      BY <1>0, <1>2, RequestKinds DEF NestReads
    <2>2. req'[h].old = req[h].old /\ req'[h].flight = req[h].flight
      BY <1>2, <2>1 DEF NestReads, TypeOK, GetReq
    <2>3. \A g \in Handlers \ {h} : req'[g] = req[g]
      BY <1>2 DEF NestReads, TypeOK
    <2>4. QED
      BY <1>2, <2>2, <2>3 DEF NestReads, AgesInv
  <1>3. ASSUME NEW h \in Handlers, GetFills(h)
        PROVE  AgesInv'
    <2>1. req[h] \in GetReq /\ req[h].old <= Flight
      <3>1. req[h] \in GetReq
        BY <1>0, <1>3, RequestKinds DEF GetFills
      <3>2. req[h].old <= req[h].flight /\ req[h].flight <= Flight
        BY <1>3 DEF GetFills, AgesInv
      <3>3. QED
        BY <3>1, <3>2 DEF GetReq, Flight
    <2>2. \A g \in Handlers : req'[g] = req[g] \/ req'[g].kind = "idle"
      BY <1>3 DEF GetFills, TypeOK, NoReq
    <2>3. CASE Cacheable(req[h].path)
      BY <1>3, <2>1, <2>2, <2>3 DEF GetFills, AgesInv, TypeOK, GetReq, Flight
    <2>4. CASE ~Cacheable(req[h].path)
      BY <1>3, <2>2, <2>4 DEF GetFills, AgesInv
    <2>5. QED
      BY <2>3, <2>4
  <1>4. ASSUME NEW h \in Handlers, NEW w \in Writes, WriteStarts(h, w)
        PROVE  AgesInv'
    BY <1>4 DEF WriteStarts, AgesInv, TypeOK
  <1>5. ASSUME NEW h \in Handlers, NestWrites(h)
        PROVE  AgesInv'
    <2>1. req[h] \in WriteReq
      BY <1>0, <1>5, RequestKinds DEF NestWrites
    <2>2. req'[h].kind = "write"
      BY <1>5, <2>1 DEF NestWrites, TypeOK, WriteReq
    <2>3. \A g \in Handlers \ {h} : req'[g] = req[g]
      BY <1>5 DEF NestWrites, TypeOK
    <2>4. QED
      BY <1>5, <2>2, <2>3 DEF NestWrites, AgesInv
  <1>6. ASSUME NEW h \in Handlers, WriteAnswered(h)
        PROVE  AgesInv'
    <2>1. ASSUME NEW g \in Handlers, req'[g].kind = "get"
          PROVE  req'[g].old = req[g].old /\ req'[g].flight = req[g].flight /\ req[g].kind = "get"
      <3>1. g # h /\ req'[g] = Crossed(req[g])
        BY <1>6, <2>1 DEF WriteAnswered, NoReq
      <3>2. req[g].kind = "get" /\ req[g] \in GetReq
        BY <1>0, <2>1, <3>1, RequestKinds DEF Crossed
      <3>3. QED
        BY <3>1, <3>2 DEF Crossed, GetReq
    <2>2. \A p \in Paths : cache'[p] = NoEntry \/ cache'[p] = cache[p]
      BY <1>6 DEF WriteAnswered
    <2>3. QED
      BY <2>1, <2>2 DEF AgesInv
  <1>7. ASSUME NEW h \in Handlers, UpstreamFails(h)
        PROVE  AgesInv'
    BY <1>7 DEF UpstreamFails, AgesInv, TypeOK, NoReq
  <1>8. CASE Restart
    BY <1>8 DEF Restart, AgesInv, NoReq
  <1>9. CASE Tick
    <2>1. ASSUME NEW p \in Paths, cache'[p] # NoEntry
          PROVE  cache'[p].old <= cache'[p].age + Flight
      <3>1. cache'[p] = AgedEntry(p) /\ cache[p] # NoEntry
        BY <1>9, <2>1 DEF Tick, AgedEntry
      <3>2. QED
        BY <3>1, AgedEntryKeepsBound DEF AgesInv
    <2>2. ASSUME NEW h \in Handlers, req'[h].kind = "get"
          PROVE  req'[h].old <= req'[h].flight /\ req'[h].flight <= Flight
      <3>1. req'[h] = AgedReq(req[h]) /\ req[h] \in AnyReq
        BY <1>0, <1>9 DEF Tick
      <3>2. req[h] \in GetReq
        <4>1. CASE req[h] \in WriteReq
          BY <2>2, <3>1, <4>1 DEF AgedReq, WriteReq, NoReq
        <4>2. CASE req[h] = NoReq
          BY <2>2, <3>1, <4>2 DEF AgedReq, NoReq
        <4>3. QED
          BY <3>1, <4>1, <4>2 DEF AnyReq
      <3>3. req[h] # NoReq /\ req[h].kind = "get"
        BY <3>2 DEF GetReq, NoReq
      <3>4. req[h].flight < Flight /\ req[h].old <= req[h].flight
        BY <1>9, <3>3 DEF Tick, UnderWay, AgesInv
      <3>5. PICK f \in Nat, o \in Nat : f = req[h].flight /\ o = req[h].old
        BY <3>2 DEF GetReq
      <3>6. f + 1 <= Flight /\ o <= f
        BY <3>4, <3>5 DEF Flight
      <3>7. req'[h].flight = f + 1 /\ (req'[h].old = o \/ req'[h].old = o + 1)
        BY <3>1, <3>2, <3>3, <3>5 DEF AgedReq, GetReq
      <3>8. QED
        BY <3>6, <3>7 DEF Flight
    <2>3. QED
      BY <2>1, <2>2 DEF AgesInv
  <1>10. CASE UNCHANGED vars
    BY <1>10 DEF vars, AgesInv
  <1>11. QED
    BY <1>1, <1>2, <1>3, <1>4, <1>5, <1>6, <1>7, <1>8, <1>9, <1>10
    DEF Next, GetNext, WriteNext

-----------------------------------------------------------------------------
(***************************************************************************)
(* Freshness: what Nest, the handlers and the entries know of the writes.   *)
(***************************************************************************)
FreshInv ==
    /\ WritesSeen
    /\ \A h \in Handlers :
         req[h].kind = "get" /\ req[h].stage = "done" /\ ~req[h].crossed =>
           \A t \in Tables : answered[t] <= req[h].seq
    /\ \A p \in AdminLists : cache[p] # NoEntry /\ ~cache[p].crossed => ShowsOwn(p)

LEMMA FreshInductive ==
    ASSUME TypeOK, FreshInv, [Next]_vars
    PROVE  FreshInv'
  <1> USE DEF FreshInv, WritesSeen, ShowsOwn
  <1>0. /\ writes \in Nat /\ req \in [Handlers -> AnyReq]
        /\ \A t \in Tables : answered[t] \in Nat
        /\ AdminLists \subseteq Paths
        /\ \A p \in AdminLists : Own(p) \subseteq Tables
    BY ConstantsAssumption, TableTypes DEF TypeOK, AnyReq
  <1>1. ASSUME NEW h \in Handlers, NEW p \in Paths, GetMisses(h, p)
        PROVE  FreshInv'
    BY <1>0, <1>1 DEF GetMisses, TypeOK
  <1>2. ASSUME NEW h \in Handlers, NestReads(h)
        PROVE  FreshInv'
    <2>1. req[h] \in GetReq
      BY <1>0, <1>2, RequestKinds DEF NestReads
    <2>2. req'[h].kind = "get" /\ req'[h].seq = writes
      BY <1>2, <2>1 DEF NestReads, TypeOK, GetReq
    <2>3. \A g \in Handlers \ {h} : req'[g] = req[g]
      BY <1>2 DEF NestReads, TypeOK
    <2>4. QED
      BY <1>0, <1>2, <2>2, <2>3 DEF NestReads
  <1>3. ASSUME NEW h \in Handlers, GetFills(h)
        PROVE  FreshInv'
    <2>1. req[h] \in GetReq
      BY <1>0, <1>3, RequestKinds DEF GetFills
    <2>2. \A g \in Handlers : req'[g] = req[g] \/ req'[g].kind = "idle"
      BY <1>3 DEF GetFills, TypeOK, NoReq
    <2>3. ASSUME NEW p \in AdminLists, cache'[p] # NoEntry, ~cache'[p].crossed
          PROVE  \A t \in Own(p) : cache'[p].seq >= answered[t]
      <3>1. CASE cache'[p] = cache[p]
        BY <2>3, <3>1
      <3>2. CASE cache'[p] # cache[p]
        <4>1. cache'[p] = [seq |-> req[h].seq, age |-> 0, old |-> req[h].old,
                           crossed |-> req[h].crossed]
          BY <1>0, <1>3, <3>2 DEF GetFills, TypeOK
        <4>2. ~req[h].crossed /\ cache'[p].seq = req[h].seq
          BY <2>3, <4>1
        <4>3. \A t \in Tables : answered[t] <= req[h].seq
          BY <1>3, <4>2 DEF GetFills
        <4>4. req[h].seq \in Nat
          BY <2>1 DEF GetReq
        <4>5. QED
          BY <1>0, <4>2, <4>3, <4>4
      <3>3. QED
        BY <3>1, <3>2
    <2>4. QED
      BY <1>3, <2>2, <2>3 DEF GetFills
  <1>4. ASSUME NEW h \in Handlers, NEW w \in Writes, WriteStarts(h, w)
        PROVE  FreshInv'
    BY <1>4 DEF WriteStarts, TypeOK
  <1>5. ASSUME NEW h \in Handlers, NestWrites(h)
        PROVE  FreshInv'
    <2>1. req[h] \in WriteReq
      BY <1>0, <1>5, RequestKinds DEF NestWrites
    <2>2. req'[h].kind = "write" /\ req'[h].seq = writes + 1
      BY <1>5, <2>1 DEF NestWrites, TypeOK, WriteReq
    <2>3. \A g \in Handlers \ {h} : req'[g] = req[g]
      BY <1>5 DEF NestWrites, TypeOK
    <2>4. writes' = writes + 1 /\ cache' = cache /\ answered' = answered
      BY <1>5 DEF NestWrites
    <2>5. \A t \in Tables : answered'[t] <= writes'
      BY <1>0, <2>4
    <2>6. ASSUME NEW g \in Handlers, req'[g].kind = "write", req'[g].stage = "done"
          PROVE  req'[g].seq <= writes'
      <3>1. CASE g = h
        BY <1>0, <2>2, <2>4, <3>1
      <3>2. CASE g # h
        <4>1. req[g] \in WriteReq /\ req[g].seq <= writes
          BY <1>0, <2>3, <2>6, <3>2, RequestKinds
        <4>2. QED
          BY <1>0, <2>3, <2>4, <3>2, <4>1 DEF WriteReq
      <3>3. QED
        BY <3>1, <3>2
    <2>7. QED
      BY <2>2, <2>3, <2>4, <2>5, <2>6
  <1>6. ASSUME NEW h \in Handlers, WriteAnswered(h)
        PROVE  FreshInv'
    <2>1. req[h] \in WriteReq /\ req[h].seq <= writes
      BY <1>0, <1>6, RequestKinds DEF WriteAnswered
    <2>2. writes' = writes
      BY <1>6 DEF WriteAnswered
    <2>3. \A t \in Tables : answered'[t] <= writes
      BY <1>0, <1>6, <2>1 DEF WriteAnswered
    <2>4. ASSUME NEW g \in Handlers, req'[g].kind = "write", req'[g].stage = "done"
          PROVE  req'[g].seq <= writes
      <3>1. req'[g] = Crossed(req[g]) /\ g # h
        BY <1>6, <2>4 DEF WriteAnswered, NoReq
      <3>2. req[g].kind # "get"
        BY <1>0, <2>4, <3>1, RequestKinds DEF Crossed, GetReq
      <3>3. QED
        BY <2>4, <3>1, <3>2 DEF Crossed
    <2>5. ASSUME NEW g \in Handlers, req'[g].kind = "get"
          PROVE  req'[g].crossed
      <3>1. req'[g] = Crossed(req[g]) /\ g # h
        BY <1>6, <2>5 DEF WriteAnswered, NoReq
      <3>2. req[g].kind = "get" /\ req[g] \in GetReq
        BY <1>0, <2>5, <3>1, RequestKinds DEF Crossed
      <3>3. QED
        BY <3>1, <3>2 DEF Crossed, GetReq
    <2>6. ASSUME NEW p \in AdminLists, cache'[p] # NoEntry, ~cache'[p].crossed
          PROVE  \A t \in Own(p) : cache'[p].seq >= answered'[t]
      <3>1. cache'[p] = cache[p] /\ ~Invalidated(req[h].write.path, p)
        BY <1>0, <1>6, <2>6 DEF WriteAnswered
      <3>2. req[h].write.changes \cap Own(p) = {}
        BY <2>1, <3>1, CascadeComplete DEF WriteReq
      <3>3. \A t \in Own(p) : answered'[t] = answered[t]
        BY <1>0, <1>6, <3>2 DEF WriteAnswered
      <3>4. QED
        BY <2>6, <3>1, <3>3
    <2>7. QED
      BY <2>2, <2>3, <2>4, <2>5, <2>6
  <1>7. ASSUME NEW h \in Handlers, UpstreamFails(h)
        PROVE  FreshInv'
    BY <1>7 DEF UpstreamFails, TypeOK, NoReq
  <1>8. CASE Restart
    BY <1>0, <1>8 DEF Restart, NoReq
  <1>9. CASE Tick
    <2>1. ASSUME NEW h \in Handlers
          PROVE  /\ req'[h].kind = req[h].kind
                 /\ req[h].kind # "idle" => req'[h].stage = req[h].stage /\ req'[h].seq = req[h].seq
                 /\ req[h].kind = "get" => req'[h].crossed = req[h].crossed
      <3>1. req'[h] = AgedReq(req[h]) /\ req[h] \in AnyReq
        BY <1>0, <1>9 DEF Tick
      <3>2. CASE req[h] = NoReq
        BY <3>1, <3>2 DEF AgedReq, NoReq
      <3>3. CASE req[h] \in GetReq
        BY <3>1, <3>3 DEF AgedReq, GetReq, NoReq
      <3>4. CASE req[h] \in WriteReq
        BY <3>1, <3>4 DEF AgedReq, WriteReq, NoReq
      <3>5. QED
        BY <3>1, <3>2, <3>3, <3>4 DEF AnyReq
    <2>2. ASSUME NEW p \in AdminLists, cache'[p] # NoEntry
          PROVE  /\ cache[p] # NoEntry
                 /\ cache'[p].seq = cache[p].seq /\ cache'[p].crossed = cache[p].crossed
      <3>1. cache'[p] = AgedEntry(p) /\ cache[p] # NoEntry
        BY <1>0, <1>9, <2>2 DEF Tick, AgedEntry
      <3>2. cache[p] \in Entry
        BY <1>0, <3>1 DEF TypeOK
      <3>3. QED
        BY <3>1, <3>2 DEF AgedEntry, Entry
    <2>3. writes' = writes /\ answered' = answered
      BY <1>9 DEF Tick
    <2>4. QED
      BY <2>1, <2>2, <2>3
  <1>10. CASE UNCHANGED vars
    BY <1>10 DEF vars
  <1>11. QED
    BY <1>1, <1>2, <1>3, <1>4, <1>5, <1>6, <1>7, <1>8, <1>9, <1>10
    DEF Next, GetNext, WriteNext

-----------------------------------------------------------------------------
(* The inductive invariant. *)
CacheInv == TypeOK /\ AgesInv /\ FreshInv

(* Types, ages and freshness hold together in every reachable state. *)
THEOREM CacheInvariant == Spec => []CacheInv
  <1>1. Init => CacheInv
    BY ConstantsAssumption, TableTypes
    DEF Init, CacheInv, TypeOK, AgesInv, FreshInv, WritesSeen, NoReq, Paths
  <1>2. CacheInv /\ [Next]_vars => CacheInv'
    BY TypeInductive, AgesInductive, FreshInductive DEF CacheInv, FreshInv
  <1>3. QED
    BY <1>1, <1>2, PTL DEF Spec

(* Every reachable state of CatalogCache is well typed. *)
THEOREM CacheTypeCorrect == Spec => []TypeOK
  <1>1. CacheInv => TypeOK
    BY DEF CacheInv
  <1>2. QED
    BY <1>1, CacheInvariant, PTL

(* A list an administrator edits is served with the rows the last answered write left,
   unless the GET that filled it was overtaken; of the data joined to these rows only
   StalenessIsBounded speaks. *)
THEOREM OwnRowsAreFresh == Spec => []OwnRowsFresh
  <1>1. CacheInv => OwnRowsFresh
    BY DEF CacheInv, FreshInv, OwnRowsFresh, Unexpired
  <1>2. QED
    BY <1>1, CacheInvariant, PTL

(* Nothing is served longer than a lifetime and one timeout after Nest read it. *)
THEOREM StalenessIsBounded == Spec => []StalenessBounded
  <1>1. ASSUME CacheInv, NEW p \in Lists, Unexpired(p)
        PROVE  cache[p].old <= Ttl[p] + Flight
    <2>1. p \in Paths /\ Ttl[p] \in Nat
      BY TableTypes
    <2>2. cache[p] # NoEntry /\ cache[p].age <= Ttl[p]
      BY <1>1 DEF Unexpired
    <2>3. cache[p] \in Entry /\ cache[p].old <= cache[p].age + Flight
      BY <1>1, <2>1, <2>2 DEF CacheInv, AgesInv, TypeOK
    <2>4. cache[p].age \in Nat /\ cache[p].old \in Nat
      BY <2>3 DEF Entry
    <2>5. QED
      BY <2>1, <2>2, <2>3, <2>4 DEF Flight
  <1>2. CacheInv => StalenessBounded
    BY <1>1 DEF StalenessBounded
  <1>3. QED
    BY <1>2, CacheInvariant, PTL

=============================================================================
