---------------------------- MODULE JobReplies_proofs ----------------------------
(***************************************************************************)
(* Theorems about the MCP requests of Jobs, for any number of requests,    *)
(* Jobs, cache entries, versions and pieces of text.                       *)
(*                                                                         *)
(* The two invariants are independent.  ContextInductive is about the      *)
(* Jobs' contexts: the holder of a Job's lock is the only one that brings  *)
(* something of it (so what it saves is not older than the base), and what *)
(* is known of a Job gets newer from the answers over the context, the     *)
(* refresh and the base to Core (Chain).  RelayInductive is about the      *)
(* relays: what was told is the beginning of what the owner has written    *)
(* (Tells), and an ended relay's cancellation is on its way until the      *)
(* answer has stopped (Stops).                                             *)
(***************************************************************************)
EXTENDS JobReplies, SequenceTheorems, TLAPS

-----------------------------------------------------------------------------
(* The caches *)

\* A cache holds one entry for a Job.
OneEach(cache) == \A i, k \in DOMAIN cache : cache[i].job = cache[k].job => i = k
IsCache(cache) == cache \in Seq(Entries) /\ Len(cache) <= MaxEntries /\ OneEach(cache)

\* The version a cache knows of a Job, if it has an entry for it.
Versions(cache, j) == {cache[i].version : i \in {i \in DOMAIN cache : cache[i].job = j}}

LEMMA EntryFacts ==
  ASSUME NEW cache, IsCache(cache), NEW j, Has(cache, j)
  PROVE  /\ Position(cache, j) \in 1..Len(cache) /\ cache[Position(cache, j)].job = j
         /\ Versions(cache, j) = {Entry(cache, j).version} /\ Entry(cache, j) \in Entries
<1>1. cache \in Seq(Entries) /\ DOMAIN cache = 1..Len(cache)
  BY LenProperties DEF IsCache
<1>2. PICK i \in DOMAIN cache : cache[i].job = j
  BY DEF Has
<1>3. Position(cache, j) \in DOMAIN cache /\ cache[Position(cache, j)].job = j
  BY <1>2 DEF Position
<1>a. PICK p : p = Position(cache, j)
  OBVIOUS
<1>4. {k \in DOMAIN cache : cache[k].job = j} = {p}
  BY <1>3, <1>a DEF IsCache, OneEach
<1>5. Versions(cache, j) = {cache[p].version}
  BY <1>4 DEF Versions
<1>6. cache[p] \in Entries
  BY <1>1, <1>3, <1>a, ElementOfSeq
<1> QED BY <1>1, <1>3, <1>5, <1>6, <1>a DEF Entry

LEMMA HasFacts ==
  ASSUME NEW cache, NEW j
  PROVE  Has(cache, j) <=> Versions(cache, j) # {}
BY DEF Has, Versions

\* Another cache with the entries of one.
LEMMA VersionsFrom ==
  ASSUME NEW cache, NEW other, NEW j,
         \A i \in DOMAIN other : other[i].job = j => \E k \in DOMAIN cache : cache[k].job = j /\ cache[k].version = other[i].version
  PROVE  Versions(other, j) \subseteq Versions(cache, j)
BY DEF Versions

LEMMA VersionsAreNumbers ==
  ASSUME NEW cache, IsCache(cache), NEW j
  PROVE  Versions(cache, j) \subseteq Nat
<1>1. cache \in Seq(Entries) /\ DOMAIN cache = 1..Len(cache)
  BY LenProperties DEF IsCache
<1>2. \A i \in DOMAIN cache : cache[i] \in Entries
  BY <1>1, ElementOfSeq
<1>3. \A i \in DOMAIN cache : cache[i].version \in Nat
  BY <1>2, ContextAssumption DEF Entries
<1> QED BY <1>3 DEF Versions

LEMMA DropFacts ==
  ASSUME NEW cache, IsCache(cache), NEW j \in Jobs, NEW other, other = Drop(cache, j)
  PROVE  /\ IsCache(other) /\ Versions(other, j) = {}
         /\ \A k \in Jobs : Versions(other, k) \subseteq Versions(cache, k)
         /\ Has(cache, j) => Len(other) = Len(cache) - 1
<1>a. PICK n : n = Len(cache)
  OBVIOUS
<1>1. cache \in Seq(Entries) /\ n \in Nat /\ DOMAIN cache = 1..n /\ n <= MaxEntries
      /\ \A i \in 1..n : cache[i] \in Entries
  BY <1>a, LenProperties, ElementOfSeq DEF IsCache
<1>2. CASE ~Has(cache, j)
  BY <1>2, HasFacts DEF Drop
<1>3. CASE Has(cache, j)
  <2>a. PICK p : p = Position(cache, j)
    OBVIOUS
  <2>1. p \in 1..n /\ cache[p].job = j
    BY <1>3, <1>a, <2>a, EntryFacts
  <2>b. PICK front : front = SubSeq(cache, 1, p - 1)
    OBVIOUS
  <2>c. PICK back : back = SubSeq(cache, p + 1, n)
    OBVIOUS
  <2>2. front \in Seq(Entries) /\ Len(front) = p - 1 /\ \A i \in 1..p - 1 : front[i] = cache[i]
    <3>1. 1 \in Int /\ p - 1 \in Int /\ \A i \in 1..p - 1 : cache[i] \in Entries
      BY <1>1, <2>1
    <3>2. /\ front \in Seq(Entries) /\ Len(front) = IF 1 <= p - 1 THEN p - 1 - 1 + 1 ELSE 0
          /\ \A i \in 1..p - 1 - 1 + 1 : front[i] = cache[1 + i - 1]
      BY <3>1, <2>b, SubSeqProperties
    <3> QED BY <1>1, <2>1, <3>2
  <2>3. back \in Seq(Entries) /\ Len(back) = n - p /\ \A i \in 1..n - p : back[i] = cache[p + i]
    <3>1. p + 1 \in Int /\ n \in Int /\ \A i \in p + 1..n : cache[i] \in Entries
      BY <1>1, <2>1
    <3>2. /\ back \in Seq(Entries) /\ Len(back) = IF p + 1 <= n THEN n - (p + 1) + 1 ELSE 0
          /\ \A i \in 1..n - (p + 1) + 1 : back[i] = cache[p + 1 + i - 1]
      BY <3>1, <2>c, SubSeqProperties
    <3> QED BY <1>1, <2>1, <3>2
  <2>4. other = front \o back
    BY <1>3, <1>a, <2>a, <2>b, <2>c DEF Drop, RemoveAt
  <2>5. /\ other \in Seq(Entries) /\ Len(other) = Len(front) + Len(back)
        /\ \A i \in 1..Len(front) + Len(back) : other[i] = IF i <= Len(front) THEN front[i] ELSE back[i - Len(front)]
    BY <2>2, <2>3, <2>4, ConcatProperties
  <2>6. Len(other) = n - 1 /\ DOMAIN other = 1..n - 1
    BY <1>1, <2>1, <2>2, <2>3, <2>5, LenProperties
  <2>7. \A i \in 1..n - 1 : other[i] = IF i <= p - 1 THEN cache[i] ELSE cache[i + 1]
    BY <1>1, <2>1, <2>2, <2>3, <2>5
  <2>8. \A i, k \in 1..n : cache[i].job = cache[k].job => i = k
    BY <1>1 DEF IsCache, OneEach
  <2>9. \A i, k \in 1..n - 1 : other[i].job = other[k].job => i = k
    BY <1>1, <2>1, <2>7, <2>8
  <2>10. \A i \in 1..n - 1 : other[i].job # j
    BY <1>1, <2>1, <2>7, <2>8
  <2>11. ASSUME NEW k \in Jobs PROVE Versions(other, k) \subseteq Versions(cache, k)
    <3>1. ASSUME NEW i \in 1..n - 1, other[i].job = k
          PROVE  \E q \in 1..n : cache[q].job = k /\ cache[q].version = other[i].version
      <4>1. i \in 1..n /\ i + 1 \in 1..n
        BY <1>1
      <4> QED BY <2>7, <3>1, <4>1
    <3> QED BY <1>1, <2>6, <3>1, VersionsFrom
  <2>12. Versions(other, j) = {}
    BY <2>6, <2>10 DEF Versions
  <2>13. n - 1 <= MaxEntries
    BY <1>1, ContextAssumption
  <2> QED BY <2>5, <2>6, <1>a, <2>9, <2>11, <2>12, <2>13 DEF IsCache, OneEach
<1> QED BY <1>2, <1>3

\* An entry at the end of a cache that has none of its Job.
LEMMA AppendFacts ==
  ASSUME NEW cache, cache \in Seq(Entries), NEW j \in Jobs, Versions(cache, j) = {},
         OneEach(cache),
         NEW new \in Entries, new.job = j, NEW other, other = Append(cache, new)
  PROVE  /\ other \in Seq(Entries) /\ Len(other) = Len(cache) + 1
         /\ OneEach(other)
         /\ Versions(other, j) \subseteq {new.version}
         /\ \A k \in Jobs \ {j} : Versions(other, k) \subseteq Versions(cache, k)
<1>a. PICK n : n = Len(cache)
  OBVIOUS
<1>1. n \in Nat /\ DOMAIN cache = 1..n
  BY <1>a, LenProperties
<1>2. other \in Seq(Entries) /\ Len(other) = n + 1 /\ DOMAIN other = 1..n + 1
      /\ other[n + 1] = new /\ \A i \in 1..n : other[i] = cache[i]
  BY <1>a, <1>1
<1>3. ASSUME NEW i \in 1..n PROVE cache[i].job # j
  BY <1>1, HasFacts DEF Has
<1>4. \A i, k \in 1..n + 1 : other[i].job = other[k].job => i = k
  BY <1>1, <1>2, <1>3 DEF OneEach
<1>5. {i \in DOMAIN other : other[i].job = j} = {n + 1}
  BY <1>1, <1>2, <1>3
<1>6. Versions(other, j) = {new.version}
  BY <1>2, <1>5 DEF Versions
<1>7. ASSUME NEW k \in Jobs \ {j} PROVE Versions(other, k) \subseteq Versions(cache, k)
  <2>1. ASSUME NEW i \in 1..n + 1, other[i].job = k
        PROVE  \E q \in 1..n : cache[q].job = k /\ cache[q].version = other[i].version
    <3>1. i # n + 1
      BY <1>2, <2>1
    <3>2. i \in 1..n
      BY <1>1, <3>1
    <3> QED BY <1>2, <2>1, <3>2
  <2> QED BY <1>1, <1>2, <2>1, VersionsFrom
<1> QED BY <1>a, <1>2, <1>4, <1>6, <1>7 DEF OneEach

LEMMA TailFacts ==
  ASSUME NEW cache, cache \in Seq(Entries), Len(cache) > MaxEntries, Len(cache) <= MaxEntries + 1,
         OneEach(cache),
         NEW other, other = Tail(cache)
  PROVE  IsCache(other) /\ \A k \in Jobs : Versions(other, k) \subseteq Versions(cache, k)
<1>a. PICK n : n = Len(cache)
  OBVIOUS
<1>1. n \in Nat /\ DOMAIN cache = 1..n /\ n = MaxEntries + 1 /\ MaxEntries \in Nat
  BY <1>a, LenProperties, ContextAssumption
<1>2. cache # <<>>
  BY <1>a, <1>1
<1>3. other \in Seq(Entries) /\ Len(other) = n - 1 /\ \A i \in 1..n - 1 : other[i] = cache[i + 1]
  BY <1>a, <1>2, HeadTailProperties
<1>4. DOMAIN other = 1..n - 1
  BY <1>3, LenProperties
<1>5. \A i, k \in 1..n - 1 : other[i].job = other[k].job => i = k
  <2>1. \A i, k \in 1..n : cache[i].job = cache[k].job => i = k
    BY <1>1 DEF OneEach
  <2> QED BY <1>1, <1>3, <2>1
<1>6. ASSUME NEW k \in Jobs PROVE Versions(other, k) \subseteq Versions(cache, k)
  <2>1. ASSUME NEW i \in 1..n - 1, other[i].job = k
        PROVE  \E q \in 1..n : cache[q].job = k /\ cache[q].version = other[i].version
    <3>1. i + 1 \in 1..n
      BY <1>1
    <3> QED BY <1>3, <2>1, <3>1
  <2> QED BY <1>1, <1>4, <2>1, VersionsFrom
<1> QED BY <1>1, <1>3, <1>4, <1>5, <1>6 DEF IsCache, OneEach

\* A new entry replaces the Job's and may evict another one.
LEMMA PutFacts ==
  ASSUME NEW cache, IsCache(cache), NEW j \in Jobs, NEW version \in 1..MaxVersion,
         NEW other, other = Put(cache, j, version)
  PROVE  /\ IsCache(other) /\ Versions(other, j) \subseteq {version}
         /\ \A k \in Jobs \ {j} : Versions(other, k) \subseteq Versions(cache, k)
<1>a. PICK dropped : dropped = Drop(cache, j)
  OBVIOUS
<1>b. PICK new : new = [job |-> j, version |-> version, age |-> "fresh"]
  OBVIOUS
<1>c. PICK longer : longer = Append(dropped, new)
  OBVIOUS
<1>1. IsCache(dropped) /\ Versions(dropped, j) = {} /\ \A k \in Jobs : Versions(dropped, k) \subseteq Versions(cache, k)
  BY <1>a, DropFacts
<1>2. new \in Entries /\ new.job = j /\ new.version = version
  BY <1>b DEF Entries
<1>3. /\ longer \in Seq(Entries) /\ Len(longer) = Len(dropped) + 1
      /\ OneEach(longer)
      /\ Versions(longer, j) \subseteq {version}
      /\ \A k \in Jobs \ {j} : Versions(longer, k) \subseteq Versions(dropped, k)
  <2>1. dropped \in Seq(Entries) /\ OneEach(dropped)
    BY <1>1 DEF IsCache
  <2>2. Versions(dropped, j) = {}
    BY <1>1
  <2>3. new \in Entries /\ new.job = j
    BY <1>2
  <2>4. /\ longer \in Seq(Entries) /\ Len(longer) = Len(dropped) + 1 /\ OneEach(longer)
        /\ Versions(longer, j) \subseteq {new.version}
        /\ \A k \in Jobs \ {j} : Versions(longer, k) \subseteq Versions(dropped, k)
    BY <1>c, <2>1, <2>2, <2>3, AppendFacts
  <2> QED BY <1>2, <2>4
<1>4. other = IF Len(longer) > MaxEntries THEN Tail(longer) ELSE longer
  BY <1>a, <1>b, <1>c DEF Put, Trimmed
<1>5. Len(longer) \in Nat /\ Len(dropped) \in Nat /\ MaxEntries \in Nat /\ Len(dropped) <= MaxEntries
  BY <1>1, <1>3, LenProperties, ContextAssumption DEF IsCache
<1>6. CASE Len(longer) > MaxEntries
  <2>1. Len(longer) <= MaxEntries + 1
    BY <1>3, <1>5
  <2>2. IsCache(other) /\ \A k \in Jobs : Versions(other, k) \subseteq Versions(longer, k)
    BY <1>3, <1>4, <1>6, <2>1, TailFacts
  <2> QED BY <1>1, <1>3, <2>2
<1>7. CASE ~(Len(longer) > MaxEntries)
  <2>1. Len(longer) <= MaxEntries
    BY <1>5, <1>7
  <2> QED BY <1>1, <1>3, <1>4, <1>7, <2>1 DEF IsCache
<1> QED BY <1>6, <1>7

LEMMA MovedFacts ==
  ASSUME NEW cache, IsCache(cache), NEW j \in Jobs, Has(cache, j), NEW other, other = MovedToEnd(cache, j)
  PROVE  IsCache(other) /\ \A k \in Jobs : Versions(other, k) \subseteq Versions(cache, k)
<1>a. PICK dropped : dropped = Drop(cache, j)
  OBVIOUS
<1>b. PICK p : p = Position(cache, j)
  OBVIOUS
<1>c. PICK new : new = cache[p]
  OBVIOUS
<1>1. IsCache(dropped) /\ Versions(dropped, j) = {} /\ \A k \in Jobs : Versions(dropped, k) \subseteq Versions(cache, k)
  BY <1>a, DropFacts
<1>2. new \in Entries /\ new.job = j /\ Versions(cache, j) = {new.version}
  BY <1>b, <1>c, EntryFacts DEF Entry
<1>3. other = Append(dropped, new)
  BY <1>a, <1>b, <1>c DEF MovedToEnd, Entry
<1>4. /\ other \in Seq(Entries) /\ Len(other) = Len(dropped) + 1
      /\ OneEach(other)
      /\ Versions(other, j) \subseteq {new.version}
      /\ \A k \in Jobs \ {j} : Versions(other, k) \subseteq Versions(dropped, k)
  <2>1. dropped \in Seq(Entries) /\ OneEach(dropped)
    BY <1>1 DEF IsCache
  <2>2. Versions(dropped, j) = {}
    BY <1>1
  <2>3. new \in Entries /\ new.job = j
    BY <1>2
  <2> QED BY <1>3, <2>1, <2>2, <2>3, AppendFacts
<1>5. Len(other) <= MaxEntries
  <2>1. Len(dropped) = Len(cache) - 1
    BY <1>a, DropFacts
  <2>2. Len(cache) \in Nat /\ Len(cache) <= MaxEntries
    BY LenProperties DEF IsCache
  <2> QED BY <1>4, <2>1, <2>2
<1> QED BY <1>1, <1>2, <1>4, <1>5 DEF IsCache

LEMMA OlderFacts ==
  ASSUME NEW cache, IsCache(cache), NEW j, NEW other, other = Older(cache, j)
  PROVE  IsCache(other) /\ \A k \in Jobs : Versions(other, k) \subseteq Versions(cache, k)
<1>a. PICK n : n = Len(cache)
  OBVIOUS
<1>1. n \in Nat /\ DOMAIN cache = 1..n /\ cache \in [1..n -> Entries] /\ n <= MaxEntries
  BY <1>a, LenProperties DEF IsCache
<1>2. ASSUME NEW i \in 1..n
      PROVE  other[i] \in Entries /\ other[i].job = cache[i].job /\ other[i].version = cache[i].version
  <2> PICK e : e = cache[i]
    OBVIOUS
  <2>1. e \in Entries
    BY <1>1
  <2>2. CASE e.job = j /\ e.age # "old"
    <3> PICK age : age = IF e.age = "fresh" THEN "known" ELSE "old"
      OBVIOUS
    <3> PICK aged : aged = [e EXCEPT !.age = age]
      OBVIOUS
    <3>1. aged \in Entries /\ aged.job = e.job /\ aged.version = e.version
      BY <2>1 DEF Entries
    <3>2. other[i] = aged
      BY <1>1, <2>2 DEF Older
    <3> QED BY <3>1, <3>2
  <2>3. CASE ~(e.job = j /\ e.age # "old")
    <3>1. other[i] = e
      BY <1>1, <2>3 DEF Older
    <3> QED BY <2>1, <3>1
  <2> QED BY <2>2, <2>3
<1>3. DOMAIN other = 1..n
  BY <1>1 DEF Older
<1>4. other \in [1..n -> Entries]
  <2>1. other = [i \in 1..n |-> other[i]]
    BY <1>1 DEF Older
  <2> QED BY <1>2, <2>1
<1>5. other \in Seq(Entries)
  BY <1>1, <1>4, SeqDef
<1>6. Len(other) = n
  BY <1>1, <1>3, <1>5, LenProperties
<1>7. \A i, k \in 1..n : other[i].job = other[k].job => i = k
  BY <1>1, <1>2 DEF IsCache, OneEach
<1>8. ASSUME NEW k \in Jobs PROVE Versions(other, k) \subseteq Versions(cache, k)
  BY <1>1, <1>2, <1>3, VersionsFrom
<1> QED BY <1>1, <1>3, <1>5, <1>6, <1>7, <1>8 DEF IsCache, OneEach

-----------------------------------------------------------------------------
(* The context of a Job *)

ActorState ==
  [pc : {"idle", "base", "lookup", "looked", "ready", "raised", "waiting", "answered", "partial", "not_found",
         "unavailable", "lost", "relaying"},
   job : Jobs \cup {None}, known : BOOLEAN, look : {"none", "found", "not_found", "unavailable"},
   version : 0..MaxVersion, signal : {"none", "loaded", "not_found", "unavailable"}, late : BOOLEAN,
   floor : 0..MaxVersion]

\* What a request or refresh thread may rely on, given the locks, the Jobs whose
\* deletion was observed, Core's Jobs and the versions that were answered.
ActorHolds(a, r, locks, missing, jobs, answered) ==
  /\ a \in Jobs => r.job = a
  /\ r.pc # "idle" => r.job \in Jobs
  /\ r.pc \in {"lookup", "looked"} => locks[r.job] = a
  /\ r.late => r.job \in missing /\ r.pc \in {"base", "lookup", "looked", "raised", "not_found", "unavailable"}
  /\ r.pc = "raised" => r.signal \in {"not_found", "unavailable"}
  /\ r.pc = "ready" => r.version \in 1..MaxVersion
  /\ r.pc = "looked" /\ r.look = "found" => r.version \in 1..MaxVersion /\ r.job \notin missing
  /\ r.pc = "looked" /\ r.look = "not_found" => jobs[r.job].deleted
  /\ r.job \in Jobs => r.floor <= answered[r.job]
  /\ r.pc = "answered" => r.floor <= r.version

\* The version a refresh thread has read, and those a lookup has brought from Core.
Refreshed(r) == IF r.pc = "ready" THEN {r.version} ELSE {}
Brought(r, j) == r.pc = "looked" /\ r.look = "found" /\ r.job = j
Looked(j, actors) == {actors[a].version : a \in {a \in Actors : Brought(actors[a], j)}}

\* What is known of a Job gets newer on its way back to Core: answers, its
\* context, its refresh, its base, the lookup under way, Core.
Chain(answered, contexts, refreshed, bases, looked, newest) ==
  /\ answered <= newest
  /\ \A v \in contexts \cup refreshed \cup bases \cup looked : answered <= v /\ v <= newest
  /\ \A v \in contexts, w \in refreshed \cup bases \cup looked : v <= w
  /\ \A v \in refreshed, w \in bases \cup looked : v <= w
  /\ \A v \in bases, w \in looked : v <= w

Chained(j) ==
  Chain(served[j], Versions(context, j), Refreshed(actor[j]), Versions(base, j), Looked(j, actor), core[j].version)

ContextStateTyped ==
  /\ core \in [Jobs -> [version : 1..MaxVersion, deleted : BOOLEAN]]
  /\ IsCache(base) /\ IsCache(context)
  /\ lock \in [Jobs -> Actors \cup {None}]
  /\ actor \in [Actors -> ActorState]
  /\ gone \subseteq Jobs /\ served \in [Jobs -> 0..MaxVersion]

ContextInductive ==
  /\ ContextStateTyped
  /\ \A a \in Actors : ActorHolds(a, actor[a], lock, gone, core, served)
  /\ \A j \in gone : core[j].deleted /\ Versions(base, j) = {}
  /\ \A j \in Jobs : Chained(j)

\* The caches lose entries, the locks stay with their holders, answers get newer.
LEMMA OthersHold ==
  ASSUME ContextInductive, NEW b \in Actors,
         \A j \in Jobs : lock[j] = b => lock'[j] = b,
         gone \subseteq gone', \A j \in gone' : j \in gone \/ lock[j] # b,
         \A j \in Jobs : core[j].deleted => core'[j].deleted,
         served' \in [Jobs -> 0..MaxVersion], \A j \in Jobs : served[j] <= served'[j]
  PROVE  ActorHolds(b, actor[b], lock', gone', core', served')
<1> PICK r : r = actor[b]
  OBVIOUS
<1>1. r \in ActorState /\ ActorHolds(b, r, lock, gone, core, served)
  BY DEF ContextInductive, ContextStateTyped
<1>2. r.job \in Jobs => r.floor <= served'[r.job]
  <2>1. CASE r.job \in Jobs
    <3> PICK s : s = served[r.job]
      OBVIOUS
    <3> PICK n : n = served'[r.job]
      OBVIOUS
    <3> PICK f : f = r.floor
      OBVIOUS
    <3>1. s \in Nat /\ n \in Nat /\ f \in Nat /\ s <= n /\ f <= s
      BY <1>1, <2>1, ContextAssumption DEF ContextInductive, ContextStateTyped, ActorState, ActorHolds
    <3> QED BY <3>1
  <2> QED BY <2>1
<1>3. r.pc \in {"lookup", "looked"} => r.job \in Jobs /\ lock[r.job] = b /\ lock'[r.job] = b
  BY <1>1 DEF ActorHolds
<1> QED BY <1>1, <1>2, <1>3 DEF ActorHolds

\* One thread moves.
LEMMA ActorMoves ==
  ASSUME ContextInductive, NEW a \in Actors, NEW r \in ActorState, actor' = [actor EXCEPT ![a] = r], UNCHANGED core,
         IsCache(base'), IsCache(context'), lock' \in [Jobs -> Actors \cup {None}],
         \A j \in Jobs : lock[j] \in {None, a} \/ lock'[j] = lock[j],
         gone \subseteq gone', \A j \in gone' : j \in gone \/ lock[j] = a, gone' \subseteq Jobs,
         served' \in [Jobs -> 0..MaxVersion], \A j \in Jobs : served[j] <= served'[j],
         ActorHolds(a, r, lock', gone', core', served'),
         \A j \in gone' : core[j].deleted /\ Versions(base', j) = {},
         \A j \in Jobs : Chained(j)'
  PROVE  ContextInductive'
<1>1. actor' \in [Actors -> ActorState] /\ actor'[a] = r /\ \A b \in Actors \ {a} : actor'[b] = actor[b]
  BY DEF ContextInductive, ContextStateTyped
<1>2. ContextStateTyped'
  BY <1>1 DEF ContextInductive, ContextStateTyped
<1>3. ASSUME NEW b \in Actors PROVE ActorHolds(b, actor'[b], lock', gone', core', served')
  <2>1. CASE b = a
    BY <1>1, <2>1
  <2>2. CASE b # a
    <3>1. \A j \in Jobs : lock[j] = b => lock'[j] = b
      <4>1. b # None
        BY ContextAssumption DEF Actors
      <4> QED BY <2>2, <4>1
    <3>2. \A j \in gone' : j \in gone \/ lock[j] # b
      BY <2>2
    <3>3. ActorHolds(b, actor[b], lock', gone', core', served')
      BY <3>1, <3>2, OthersHold
    <3> QED BY <1>1, <2>2, <3>3
  <2> QED BY <2>1, <2>2
<1>4. \A j \in gone' : core'[j].deleted /\ Versions(base', j) = {}
  OBVIOUS
<1> QED BY <1>2, <1>3, <1>4 DEF ContextInductive

LEMMA ChainShrinks ==
  ASSUME NEW answered, NEW c, NEW r, NEW b, NEW l, NEW newest, Chain(answered, c, r, b, l, newest),
         NEW c2 \in SUBSET c, NEW r2 \in SUBSET r, NEW b2 \in SUBSET b, NEW l2 \in SUBSET l
  PROVE  Chain(answered, c2, r2, b2, l2, newest)
BY DEF Chain

\* What the others have read, when one thread moves.
LEMMA ReadsMove ==
  ASSUME ContextInductive, NEW a \in Actors, NEW r \in ActorState, actor' = [actor EXCEPT ![a] = r], NEW j \in Jobs
  PROVE  Looked(j, actor') \subseteq Looked(j, actor) \cup (IF Brought(r, j) THEN {r.version} ELSE {})
<1>1. actor' \in [Actors -> ActorState] /\ actor'[a] = r /\ \A b \in Actors \ {a} : actor'[b] = actor[b]
  BY DEF ContextInductive, ContextStateTyped
<1>2. ASSUME NEW v \in Looked(j, actor') PROVE v \in Looked(j, actor) \cup (IF Brought(r, j) THEN {r.version} ELSE {})
  <2>1. PICK b \in Actors : Brought(actor'[b], j) /\ v = actor'[b].version
    BY DEF Looked
  <2>2. CASE b = a
    BY <1>1, <2>1, <2>2
  <2>3. CASE b # a
    <3>1. Brought(actor[b], j) /\ v = actor[b].version
      BY <1>1, <2>1, <2>3
    <3> QED BY <3>1 DEF Looked
  <2> QED BY <2>2, <2>3
<1> QED BY <1>2

LEMMA OneMoves ==
  ASSUME ContextInductive, NEW a \in Actors, NEW r, actor' = [actor EXCEPT ![a] = r], NEW b \in Actors
  PROVE  actor'[b] = IF a = b THEN r ELSE actor[b]
BY DEF ContextInductive, ContextStateTyped

\* A thread that brings nothing: everything known stays in its order.
LEMMA ShrinkingChains ==
  ASSUME ContextInductive, NEW a \in Actors, NEW r \in ActorState, actor' = [actor EXCEPT ![a] = r],
         UNCHANGED <<core, served>>, r.pc # "looked" \/ r.look # "found", r.pc = "ready" => a \in Requests,
         \A j \in Jobs : Versions(base', j) \subseteq Versions(base, j) /\ Versions(context', j) \subseteq Versions(context, j)
  PROVE  \A j \in Jobs : Chained(j)'
<1>1. ASSUME NEW j \in Jobs PROVE Chained(j)'
  <2>1. Looked(j, actor') \subseteq Looked(j, actor)
    BY ReadsMove DEF Brought
  <2>2. Refreshed(actor'[j]) \subseteq Refreshed(actor[j])
    <3>1. actor'[j] = IF a = j THEN r ELSE actor[j]
      BY OneMoves DEF Actors
    <3>2. CASE a = j
      <4>1. r.pc # "ready"
        BY <3>2, ContextAssumption
      <4> QED BY <3>1, <3>2, <4>1 DEF Refreshed
    <3>3. CASE a # j
      BY <3>1, <3>3
    <3> QED BY <3>2, <3>3
  <2>3. Chain(served[j], Versions(context, j), Refreshed(actor[j]), Versions(base, j), Looked(j, actor), core[j].version)
    BY DEF ContextInductive, Chained
  <2>4. Versions(base', j) \subseteq Versions(base, j) /\ Versions(context', j) \subseteq Versions(context, j)
    OBVIOUS
  <2>5. Chain(served[j], Versions(context', j), Refreshed(actor'[j]), Versions(base', j), Looked(j, actor'), core[j].version)
    BY <2>1, <2>2, <2>3, <2>4, ChainShrinks
  <2> QED BY <2>5 DEF Chained
<1> QED BY <1>1

\* A thread moves while what was answered and what Core has stand still.
LEMMA QuietMove ==
  ASSUME ContextInductive, NEW a \in Actors, NEW r \in ActorState, actor' = [actor EXCEPT ![a] = r],
         UNCHANGED <<core, served>>, IsCache(base'), IsCache(context'),
         \A j \in Jobs : Versions(base', j) \subseteq Versions(base, j) /\ Versions(context', j) \subseteq Versions(context, j),
         lock' \in [Jobs -> Actors \cup {None}], \A j \in Jobs : lock[j] \in {None, a} \/ lock'[j] = lock[j],
         gone \subseteq gone', gone' \subseteq Jobs,
         \A j \in gone' : j \in gone \/ (lock[j] = a /\ core[j].deleted /\ Versions(base', j) = {}),
         r.pc # "looked" \/ r.look # "found", r.pc = "ready" => a \in Requests,
         ActorHolds(a, r, lock', gone', core', served')
  PROVE  ContextInductive'
<1>1. \A j \in Jobs : Chained(j)'
  BY ShrinkingChains
<1>2. ASSUME NEW j \in gone' PROVE core[j].deleted /\ Versions(base', j) = {}
  <2>1. j \in Jobs /\ Versions(base', j) \subseteq Versions(base, j)
    OBVIOUS
  <2> QED BY <2>1 DEF ContextInductive
<1>3. served' \in [Jobs -> 0..MaxVersion] /\ \A j \in Jobs : served[j] <= served'[j]
  <2>1. \A j \in Jobs : served[j] \in Nat
    BY ContextAssumption DEF ContextInductive, ContextStateTyped
  <2> QED BY <2>1 DEF ContextInductive, ContextStateTyped
<1>4. \A j \in gone' : j \in gone \/ lock[j] = a
  OBVIOUS
<1> QED BY <1>1, <1>2, <1>3, <1>4, ActorMoves

\* The Jobs, caches, locks and histories stand still as well.
LEMMA StillMove ==
  ASSUME ContextInductive, NEW a \in Actors, NEW r \in ActorState, actor' = [actor EXCEPT ![a] = r],
         UNCHANGED <<core, base, context, lock, gone, served>>,
         r.pc # "looked" \/ r.look # "found", r.pc = "ready" => a \in Requests,
         ActorHolds(a, r, lock, gone, core, served)
  PROVE  ContextInductive'
<1>1. IsCache(base') /\ IsCache(context') /\ lock' \in [Jobs -> Actors \cup {None}] /\ gone' \subseteq Jobs
  BY DEF ContextInductive, ContextStateTyped
<1>2. ActorHolds(a, r, lock', gone', core', served')
  OBVIOUS
<1>3. \A j \in Jobs : Versions(base', j) \subseteq Versions(base, j) /\ Versions(context', j) \subseteq Versions(context, j)
  OBVIOUS
<1>4. \A j \in gone' : j \in gone \/ (lock[j] = a /\ core[j].deleted /\ Versions(base', j) = {})
  OBVIOUS
<1>5. gone \subseteq gone' /\ \A j \in Jobs : lock[j] \in {None, a} \/ lock'[j] = lock[j]
  OBVIOUS
<1>6. UNCHANGED <<core, served>>
  OBVIOUS
<1> QED BY <1>1, <1>2, <1>3, <1>4, <1>5, <1>6, QuietMove

LEMMA ActorFacts ==
  ASSUME ContextInductive, NEW a \in Actors
  PROVE  actor[a] \in ActorState /\ ActorHolds(a, actor[a], lock, gone, core, served)
BY DEF ContextInductive, ContextStateTyped

\* Only the thread that holds the lock of a Job has brought something of it.
LEMMA OneBrings ==
  ASSUME ContextInductive, NEW a \in Actors, NEW j \in Jobs, lock[j] = a
  PROVE  \A b \in Actors \ {a} : ~Brought(actor[b], j)
<1>1. ASSUME NEW b \in Actors \ {a}, Brought(actor[b], j) PROVE FALSE
  BY <1>1, ActorFacts DEF ActorHolds, Brought
<1> QED BY <1>1

-----------------------------------------------------------------------------
(* The base snapshot *)

LEMMA ChainReturns ==
  ASSUME NEW answered, NEW c, NEW r, NEW b, NEW l, NEW newest, Chain(answered, c, r, b, l, newest),
         NEW v \in Nat, v \in b \cup l, NEW c2 \in SUBSET c, NEW r2 \in SUBSET (r \cup {v}), NEW b2 \in SUBSET {v},
         NEW l2 \in SUBSET l, v \in b \/ l2 = {}, b \subseteq {v} \/ v \in l
  PROVE  Chain(answered, c2, r2, b2, l2, newest)
<1>1. answered <= v /\ v <= newest /\ (\A w \in c \cup r : w <= v) /\ \A w \in l2 : v <= w
  BY DEF Chain
<1>2. v <= v
  OBVIOUS
<1> QED BY <1>1, <1>2 DEF Chain

LEMMA ReturnsMoves ==
  ASSUME ContextInductive, NEW a \in Actors, NEW j \in Jobs, actor[a].job = j, NEW v \in 1..MaxVersion, Returns(a, v),
         UNCHANGED <<core, gone, served>>, IsCache(base'), IsCache(context'),
         lock' \in [Jobs -> Actors \cup {None}], \A k \in Jobs : lock[k] \in {None, a} \/ lock'[k] = lock[k],
         j \notin gone, Versions(base', j) \subseteq {v},
         \A k \in Jobs : k # j => Versions(base', k) \subseteq Versions(base, k),
         \A k \in Jobs : Versions(context', k) \subseteq Versions(context, k),
         \/ Versions(base, j) = {v}
         \/ v \in Looked(j, actor) /\ lock[j] = a
  PROVE  ContextInductive'
<1> PICK s : s = actor[a]
  OBVIOUS
<1>a. PICK r : r = [s EXCEPT !.pc = "ready", !.version = v, !.known = FALSE, !.look = "none"]
  OBVIOUS
<1>1. s \in ActorState /\ ActorHolds(a, s, lock, gone, core, served) /\ s.job = j
  BY ActorFacts
<1>2. v \in 0..MaxVersion /\ v \in Nat /\ FALSE \in BOOLEAN
  OBVIOUS
<1>3. r \in ActorState
  BY <1>a, <1>1, <1>2 DEF ActorState
<1>4. /\ r.pc = "ready" /\ r.version = v /\ r.look = "none" /\ r.job = s.job /\ r.late = s.late /\ r.floor = s.floor
  BY <1>a, <1>1 DEF ActorState
<1>5. actor' = [actor EXCEPT ![a] = r]
  BY <1>a DEF Returns
<1>6. ActorHolds(a, r, lock', gone', core', served')
  BY <1>1, <1>4 DEF ActorHolds
<1>7. ASSUME NEW k \in Jobs PROVE Chained(k)'
  <2>1. Looked(k, actor') \subseteq Looked(k, actor)
    BY <1>3, <1>4, <1>5, ReadsMove DEF Brought
  <2>2. actor'[k] = IF a = k THEN r ELSE actor[k]
    <3>1. k \in Actors
      BY DEF Actors
    <3> QED BY <1>5, <3>1 DEF ContextInductive, ContextStateTyped
  <2>3. Chained(k)
    BY DEF ContextInductive
  <2>4. CASE k = j
    <3>1. Refreshed(actor'[k]) \subseteq Refreshed(actor[k]) \cup {v}
      BY <1>4, <2>2 DEF Refreshed
    <3>2. v \in Versions(base, j) \/ Looked(j, actor') = {}
      <4>1. CASE lock[j] = a
        <5>1. \A b \in Actors \ {a} : ~Brought(actor[b], j)
          BY <4>1, OneBrings
        <5>2. ASSUME NEW b \in Actors PROVE ~Brought(actor'[b], j)
          <6>1. CASE b = a
            BY <1>3, <1>4, <1>5, <6>1 DEF ContextInductive, ContextStateTyped, Brought
          <6>2. CASE b # a
            BY <1>5, <5>1, <6>2 DEF ContextInductive, ContextStateTyped
          <6> QED BY <6>1, <6>2
        <5>3. Looked(j, actor') = {}
          BY <5>2 DEF Looked
        <5> QED BY <5>3
      <4> QED BY <4>1
    <3>3. v \in Versions(base, j) \cup Looked(j, actor) /\ (Versions(base, j) \subseteq {v} \/ v \in Looked(j, actor))
      OBVIOUS
    <3> QED BY <1>2, <2>1, <2>3, <2>4, <3>1, <3>2, <3>3, ChainReturns DEF Chained
  <2>5. CASE k # j
    <3>1. a # k
      BY <1>1, <2>5 DEF ActorHolds
    <3> QED BY <2>1, <2>2, <2>3, <2>5, <3>1, ChainShrinks DEF Chained
  <2> QED BY <2>4, <2>5
<1>8. ASSUME NEW k \in gone' PROVE core[k].deleted /\ Versions(base', k) = {}
  <2>1. k \in Jobs /\ k # j /\ core[k].deleted /\ Versions(base, k) = {}
    BY DEF ContextInductive, ContextStateTyped
  <2> QED BY <2>1
<1>9. served' \in [Jobs -> 0..MaxVersion] /\ \A k \in Jobs : served[k] <= served'[k]
  <2>1. \A k \in Jobs : served[k] \in Nat
    BY ContextAssumption DEF ContextInductive, ContextStateTyped
  <2> QED BY <2>1 DEF ContextInductive, ContextStateTyped
<1>10. gone \subseteq gone' /\ gone' \subseteq Jobs /\ \A k \in gone' : k \in gone \/ lock[k] = a
  BY DEF ContextInductive, ContextStateTyped
<1> QED BY <1>3, <1>5, <1>6, <1>7, <1>8, <1>9, <1>10, ActorMoves

LEMMA BaseHitKeeps ==
  ASSUME ContextInductive, NEW a \in Actors, BaseHit(a)
  PROVE  ContextInductive'
<1> PICK j : j = actor[a].job
  OBVIOUS
<1> PICK v : v = Entry(base, j).version
  OBVIOUS
<1>1. j \in Jobs /\ Has(base, j)
  BY ActorFacts DEF BaseHit, At, Job, Aged, ActorHolds
<1>2. IsCache(base) /\ IsCache(context) /\ lock \in [Jobs -> Actors \cup {None}]
  BY DEF ContextInductive, ContextStateTyped
<1>3. Versions(base, j) = {v} /\ Entry(base, j) \in Entries
  BY <1>1, <1>2, EntryFacts
<1>4. v \in 1..MaxVersion
  BY <1>3 DEF Entries
<1>5. j \notin gone
  BY <1>3 DEF ContextInductive
<1>6. base' = MovedToEnd(base, j) /\ Returns(a, v) /\ UNCHANGED <<core, context, lock, gone, served>>
  BY DEF BaseHit, Job
<1>7. IsCache(base') /\ \A k \in Jobs : Versions(base', k) \subseteq Versions(base, k)
  BY <1>1, <1>2, <1>6, MovedFacts
<1>8. Versions(base', j) \subseteq {v}
  BY <1>1, <1>3, <1>7
<1> QED BY <1>1, <1>2, <1>3, <1>4, <1>5, <1>6, <1>7, <1>8, ReturnsMoves

LEMMA LockKeeps ==
  ASSUME ContextInductive, NEW a \in Actors, Lock(a)
  PROVE  ContextInductive'
<1> PICK s : s = actor[a]
  OBVIOUS
<1> PICK j : j = s.job
  OBVIOUS
<1> PICK known \in BOOLEAN : known = Aged(base, j, {"known"})
  BY DEF Aged, Has
<1>a. PICK r : r = [s EXCEPT !.pc = "lookup", !.known = known]
  OBVIOUS
<1>1. s \in ActorState /\ ActorHolds(a, s, lock, gone, core, served) /\ s.pc = "base"
  BY ActorFacts DEF Lock, At
<1>2. j \in Jobs
  BY <1>1 DEF ActorHolds
<1>3. r \in ActorState
  BY <1>a, <1>1 DEF ActorState
<1>4. r.pc = "lookup" /\ r.job = j /\ r.late = s.late /\ r.floor = s.floor
  BY <1>a, <1>1 DEF ActorState
<1>5. actor' = [actor EXCEPT ![a] = r]
  BY <1>a DEF Lock, Job, ContextInductive, ContextStateTyped
<1>6. lock' = [lock EXCEPT ![j] = a] /\ lock[j] = None /\ UNCHANGED <<core, base, context, gone, served>>
  BY DEF Lock, Job, caches
<1>7. /\ lock' \in [Jobs -> Actors \cup {None}] /\ lock'[j] = a
      /\ \A k \in Jobs : lock[k] \in {None, a} \/ lock'[k] = lock[k]
  BY <1>2, <1>6 DEF ContextInductive, ContextStateTyped
<1>8. ActorHolds(a, r, lock', gone', core', served')
  BY <1>1, <1>4, <1>6, <1>7 DEF ActorHolds
<1>9. IsCache(base') /\ IsCache(context') /\ gone' \subseteq Jobs
  BY <1>6 DEF ContextInductive, ContextStateTyped
<1>10. (r.pc # "looked" \/ r.look # "found") /\ (r.pc = "ready" => a \in Requests)
  BY <1>4
<1>11. gone \subseteq gone' /\ \A k \in gone' : k \in gone \/ (lock[k] = a /\ core[k].deleted /\ Versions(base', k) = {})
  BY <1>6
<1>12. UNCHANGED <<core, served>>
  BY <1>6
<1>13. \A k \in Jobs : Versions(base', k) \subseteq Versions(base, k) /\ Versions(context', k) \subseteq Versions(context, k)
  BY <1>6
<1> QED BY <1>3, <1>5, <1>7, <1>8, <1>9, <1>10, <1>11, <1>12, <1>13, QuietMove

\* A lookup brings what Core has.
LEMMA ChainBrings ==
  ASSUME NEW answered, NEW c, NEW r, NEW b, NEW l, NEW newest \in Nat, Chain(answered, c, r, b, l, newest),
         NEW r2 \in SUBSET r, NEW l2 \in SUBSET (l \cup {newest})
  PROVE  Chain(answered, c, r2, b, l2, newest)
<1>1. newest <= newest
  OBVIOUS
<1> QED BY <1>1 DEF Chain

LEMMA LookupKeeps ==
  ASSUME ContextInductive, NEW a \in Actors, Lookup(a)
  PROVE  ContextInductive'
<1> PICK s : s = actor[a]
  OBVIOUS
<1> PICK j : j = s.job
  OBVIOUS
<1> PICK newest : newest = core[j].version
  OBVIOUS
<1>1. s \in ActorState /\ ActorHolds(a, s, lock, gone, core, served) /\ s.pc = "lookup"
  BY ActorFacts DEF Lookup, At
<1>2. j \in Jobs /\ lock[j] = a /\ newest \in 1..MaxVersion
  <2>1. j \in Jobs /\ lock[j] = a
    BY <1>1 DEF ActorHolds
  <2> QED BY <2>1 DEF ContextInductive, ContextStateTyped
<1>3. PICK look \in {IF core[j].deleted THEN "not_found" ELSE "found", "unavailable"} :
        actor' = [actor EXCEPT ![a].pc = "looked", ![a].look = look,
                               ![a].version = IF look = "found" THEN newest ELSE 0]
  BY DEF Lookup, Job
<1>b. PICK v : v = IF look = "found" THEN newest ELSE 0
  OBVIOUS
<1>a. PICK r : r = [s EXCEPT !.pc = "looked", !.look = look, !.version = v]
  OBVIOUS
<1>4. v \in 0..MaxVersion /\ look \in {"none", "found", "not_found", "unavailable"}
  BY <1>b, <1>2, <1>3, ContextAssumption
<1>5. r \in ActorState
  BY <1>a, <1>1, <1>4 DEF ActorState
<1>6. r.pc = "looked" /\ r.look = look /\ r.version = v /\ r.job = j /\ r.late = s.late /\ r.floor = s.floor
  BY <1>a, <1>1 DEF ActorState
<1>7. actor' = [actor EXCEPT ![a] = r]
  BY <1>a, <1>b, <1>3 DEF ContextInductive, ContextStateTyped
<1>8. UNCHANGED <<core, base, context, lock, gone, served>>
  BY DEF Lookup, caches
<1>9. look = "found" => ~core[j].deleted /\ v = newest /\ v \in 1..MaxVersion
  BY <1>b, <1>2, <1>3
<1>10. look = "not_found" => core[j].deleted
  BY <1>3
<1>11. look = "found" => j \notin gone
  BY <1>9 DEF ContextInductive
<1>12. ActorHolds(a, r, lock, gone, core, served)
  BY <1>1, <1>2, <1>6, <1>9, <1>10, <1>11 DEF ActorHolds
<1>13. CASE look # "found"
  <2>1. (r.pc # "looked" \/ r.look # "found") /\ (r.pc = "ready" => a \in Requests)
    BY <1>6, <1>13
  <2> QED BY <1>5, <1>7, <1>8, <1>12, <2>1, StillMove
<1>14. CASE look = "found"
  <2>1. ASSUME NEW k \in Jobs PROVE Chained(k)'
    <3>1. Looked(k, actor') \subseteq Looked(k, actor) \cup (IF Brought(r, k) THEN {r.version} ELSE {})
      BY <1>5, <1>7, ReadsMove
    <3>2. Looked(k, actor') \subseteq Looked(k, actor) \cup {core[k].version}
      BY <1>6, <1>9, <1>14, <3>1 DEF Brought
    <3>3. Refreshed(actor'[k]) \subseteq Refreshed(actor[k])
      <4>1. k \in Actors
        BY DEF Actors
      <4>2. CASE k = a
        <5>1. actor'[k] = r
          BY <1>7, <4>1, <4>2 DEF ContextInductive, ContextStateTyped
        <5> QED BY <1>6, <5>1 DEF Refreshed
      <4>3. CASE k # a
        <5>1. actor'[k] = actor[k]
          BY <1>7, <4>1, <4>3 DEF ContextInductive, ContextStateTyped
        <5> QED BY <5>1
      <4> QED BY <4>2, <4>3
    <3>4. Chained(k)
      BY DEF ContextInductive
    <3>5. core[k].version \in Nat
      BY DEF ContextInductive, ContextStateTyped
    <3> QED BY <1>8, <3>2, <3>3, <3>4, <3>5, ChainBrings DEF Chained
  <2>2. IsCache(base') /\ IsCache(context') /\ lock' \in [Jobs -> Actors \cup {None}] /\ gone' \subseteq Jobs
        /\ served' \in [Jobs -> 0..MaxVersion]
    BY <1>8 DEF ContextInductive, ContextStateTyped
  <2>3. \A k \in Jobs : served[k] <= served'[k]
    <3>1. \A k \in Jobs : served[k] \in Nat
      BY ContextAssumption DEF ContextInductive, ContextStateTyped
    <3> QED BY <1>8, <3>1
  <2>4. \A k \in gone' : core[k].deleted /\ Versions(base', k) = {}
    BY <1>8 DEF ContextInductive
  <2>5. ActorHolds(a, r, lock', gone', core', served')
    BY <1>8, <1>12
  <2>6. \A k \in Jobs : lock[k] \in {None, a} \/ lock'[k] = lock[k]
    BY <1>8
  <2>7. gone \subseteq gone' /\ \A k \in gone' : k \in gone \/ lock[k] = a
    BY <1>8
  <2> QED BY <1>5, <1>7, <1>8, <2>1, <2>2, <2>3, <2>4, <2>5, <2>6, <2>7, ActorMoves
<1> QED BY <1>13, <1>14

\* The lock is given back.
LEMMA UnlockFacts ==
  ASSUME ContextInductive, NEW a \in Actors, NEW j \in Jobs, lock[j] = a, lock' = [lock EXCEPT ![j] = None]
  PROVE  lock' \in [Jobs -> Actors \cup {None}] /\ \A k \in Jobs : lock[k] \in {None, a} \/ lock'[k] = lock[k]
BY DEF ContextInductive, ContextStateTyped

LEMMA LookedFacts ==
  ASSUME ContextInductive, NEW a \in Actors, actor[a].pc = "looked"
  PROVE  actor[a].job \in Jobs /\ lock[actor[a].job] = a
BY ActorFacts DEF ActorHolds

LEMMA FoundKeeps ==
  ASSUME ContextInductive, NEW a \in Actors, Found(a)
  PROVE  ContextInductive'
<1> PICK s : s = actor[a]
  OBVIOUS
<1> PICK j : j = s.job
  OBVIOUS
<1> PICK v : v = s.version
  OBVIOUS
<1>1. s.pc = "looked" /\ s.look = "found" /\ ActorHolds(a, s, lock, gone, core, served)
  BY ActorFacts DEF Found, At
<1>2. j \in Jobs /\ lock[j] = a /\ v \in 1..MaxVersion /\ j \notin gone
  BY <1>1 DEF ActorHolds
<1>3. v \in Looked(j, actor)
  BY <1>1 DEF Looked, Brought
<1>4. /\ base' = Put(base, j, v) /\ Returns(a, v) /\ UNCHANGED <<core, gone, served>>
      /\ lock' = [lock EXCEPT ![j] = None] /\ (context' = Drop(context, j) \/ UNCHANGED context)
  BY DEF Found, Job, Unlock
<1>5. IsCache(base) /\ IsCache(context)
  BY DEF ContextInductive, ContextStateTyped
<1>6. /\ IsCache(base') /\ Versions(base', j) \subseteq {v}
      /\ \A k \in Jobs : k # j => Versions(base', k) \subseteq Versions(base, k)
  BY <1>2, <1>4, <1>5, PutFacts
<1>7. IsCache(context') /\ \A k \in Jobs : Versions(context', k) \subseteq Versions(context, k)
  <2>1. CASE context' = Drop(context, j)
    BY <1>2, <1>5, <2>1, DropFacts
  <2>2. CASE UNCHANGED context
    BY <1>5, <2>2
  <2> QED BY <1>4, <2>1, <2>2
<1>8. lock' \in [Jobs -> Actors \cup {None}] /\ \A k \in Jobs : lock[k] \in {None, a} \/ lock'[k] = lock[k]
  BY <1>2, <1>4, UnlockFacts
<1> QED BY <1>2, <1>3, <1>4, <1>6, <1>7, <1>8, ReturnsMoves

\* A lookup that raises.
LEMMA RaisesMoves ==
  ASSUME ContextInductive, NEW a \in Actors, NEW j \in Jobs, actor[a].job = j, actor[a].pc = "looked",
         NEW error \in {"not_found", "unavailable"}, Raises(a, error),
         UNCHANGED <<core, served>>, IsCache(base'), IsCache(context'),
         \A k \in Jobs : Versions(base', k) \subseteq Versions(base, k) /\ Versions(context', k) \subseteq Versions(context, k),
         lock' = [lock EXCEPT ![j] = None],
         gone \subseteq gone', gone' \subseteq Jobs,
         \A k \in gone' : k \in gone \/ (lock[k] = a /\ core[k].deleted /\ Versions(base', k) = {})
  PROVE  ContextInductive'
<1> PICK s : s = actor[a]
  OBVIOUS
<1>a. PICK r : r = [s EXCEPT !.pc = "raised", !.signal = error, !.version = 0, !.known = FALSE, !.look = "none"]
  OBVIOUS
<1>1. s \in ActorState /\ ActorHolds(a, s, lock, gone, core, served) /\ s.job = j
  BY ActorFacts
<1>2. 0 \in 0..MaxVersion /\ FALSE \in BOOLEAN
  BY ContextAssumption
<1>3. r \in ActorState
  BY <1>a, <1>1, <1>2 DEF ActorState
<1>4. /\ r.pc = "raised" /\ r.signal = error /\ r.look = "none" /\ r.job = s.job /\ r.late = s.late /\ r.floor = s.floor
  BY <1>a, <1>1 DEF ActorState
<1>5. actor' = [actor EXCEPT ![a] = r]
  BY <1>a DEF Raises
<1>6. ActorHolds(a, r, lock', gone', core', served')
  BY <1>1, <1>4 DEF ActorHolds
<1>7. lock' \in [Jobs -> Actors \cup {None}] /\ \A k \in Jobs : lock[k] \in {None, a} \/ lock'[k] = lock[k]
  BY LookedFacts, UnlockFacts
<1>8. (r.pc # "looked" \/ r.look # "found") /\ (r.pc = "ready" => a \in Requests)
  BY <1>4
<1> QED BY <1>3, <1>5, <1>6, <1>7, <1>8, QuietMove

LEMMA GoneKeeps ==
  ASSUME ContextInductive, NEW a \in Actors, Gone(a)
  PROVE  ContextInductive'
<1> PICK j : j = actor[a].job
  OBVIOUS
<1>1. actor[a].pc = "looked" /\ j \in Jobs /\ lock[j] = a /\ core[j].deleted
  BY ActorFacts DEF Gone, At, ActorHolds
<1>2. /\ base' = Drop(base, j) /\ context' = Drop(context, j) /\ gone' = gone \cup {j} /\ Raises(a, "not_found")
      /\ lock' = [lock EXCEPT ![j] = None] /\ UNCHANGED <<core, served>>
  BY DEF Gone, Job, Unlock
<1>3. IsCache(base) /\ IsCache(context) /\ gone \subseteq Jobs
  BY DEF ContextInductive, ContextStateTyped
<1>4. IsCache(base') /\ Versions(base', j) = {} /\ \A k \in Jobs : Versions(base', k) \subseteq Versions(base, k)
  BY <1>1, <1>2, <1>3, DropFacts
<1>5. IsCache(context') /\ \A k \in Jobs : Versions(context', k) \subseteq Versions(context, k)
  BY <1>1, <1>2, <1>3, DropFacts
<1>6. /\ gone \subseteq gone' /\ gone' \subseteq Jobs
      /\ \A k \in gone' : k \in gone \/ (lock[k] = a /\ core[k].deleted /\ Versions(base', k) = {})
  BY <1>1, <1>2, <1>3, <1>4
<1>7. "not_found" \in {"not_found", "unavailable"}
  OBVIOUS
<1> QED BY <1>1, <1>2, <1>4, <1>5, <1>6, <1>7, RaisesMoves

LEMMA UnavailableKeeps ==
  ASSUME ContextInductive, NEW a \in Actors, Unavailable(a)
  PROVE  ContextInductive'
<1> PICK j : j = actor[a].job
  OBVIOUS
<1>1. actor[a].pc = "looked" /\ j \in Jobs /\ lock[j] = a
  BY LookedFacts DEF Unavailable, At
<1>2. lock' = [lock EXCEPT ![j] = None] /\ UNCHANGED <<core, base, context, gone, served>>
  BY DEF Unavailable, Job, Unlock, caches
<1>3. IsCache(base) /\ IsCache(context) /\ gone \subseteq Jobs
  BY DEF ContextInductive, ContextStateTyped
<1>4. CASE Has(base, j) /\ Returns(a, Entry(base, j).version)
  <2> PICK v : v = Entry(base, j).version
    OBVIOUS
  <2>1. Versions(base, j) = {v} /\ Entry(base, j) \in Entries
    BY <1>3, <1>4, EntryFacts
  <2>2. v \in 1..MaxVersion /\ j \notin gone
    BY <2>1 DEF Entries, ContextInductive
  <2>3. lock' \in [Jobs -> Actors \cup {None}] /\ \A k \in Jobs : lock[k] \in {None, a} \/ lock'[k] = lock[k]
    BY <1>1, <1>2, UnlockFacts
  <2>4. Returns(a, v)
    BY <1>4
  <2>5. IsCache(base') /\ IsCache(context')
    BY <1>2, <1>3
  <2>6. /\ Versions(base', j) \subseteq {v} /\ \A k \in Jobs : k # j => Versions(base', k) \subseteq Versions(base, k)
        /\ \A k \in Jobs : Versions(context', k) \subseteq Versions(context, k)
    BY <1>2, <2>1
  <2>7. UNCHANGED <<core, gone, served>>
    BY <1>2
  <2> QED BY <1>1, <2>1, <2>2, <2>3, <2>4, <2>5, <2>6, <2>7, ReturnsMoves
<1>5. CASE Raises(a, "unavailable")
  <2>1. IsCache(base') /\ IsCache(context') /\ gone \subseteq gone' /\ gone' \subseteq Jobs /\ UNCHANGED <<core, served>>
    BY <1>2, <1>3
  <2>2. \A k \in Jobs : Versions(base', k) \subseteq Versions(base, k) /\ Versions(context', k) \subseteq Versions(context, k)
    BY <1>2
  <2>3. \A k \in gone' : k \in gone \/ (lock[k] = a /\ core[k].deleted /\ Versions(base', k) = {})
    BY <1>2
  <2>4. "unavailable" \in {"not_found", "unavailable"}
    OBVIOUS
  <2> QED BY <1>1, <1>2, <1>5, <2>1, <2>2, <2>3, <2>4, RaisesMoves
<1> QED BY <1>4, <1>5 DEF Unavailable, Job

LEMMA BaseStepKeeps ==
  ASSUME ContextInductive, NEW a \in Actors, BaseStep(a)
  PROVE  ContextInductive'
BY BaseHitKeeps, LockKeeps, LookupKeeps, FoundKeeps, GoneKeeps, UnavailableKeeps DEF BaseStep

-----------------------------------------------------------------------------
(* The refresh thread *)

LEMMA IdleFacts ==
  ASSUME ContextInductive, NEW j \in Jobs \cup {None}, NEW r, r = Idle(j)
  PROVE  /\ r \in ActorState /\ r.pc = "idle" /\ r.job = j /\ r.floor = 0 /\ ~r.late
<1>1. 0 \in 0..MaxVersion /\ FALSE \in BOOLEAN
  BY ContextAssumption
<1> QED BY <1>1 DEF Idle, ActorState

\* Threads move while the locks and the bases stand still.
LEMMA ThreadsMove ==
  ASSUME ContextInductive, UNCHANGED <<core, lock, gone>>, IsCache(base'), IsCache(context'),
         actor' \in [Actors -> ActorState],
         served' \in [Jobs -> 0..MaxVersion],
         \A a \in Actors : ActorHolds(a, actor'[a], lock', gone', core', served'),
         \A j \in Jobs : Versions(base', j) \subseteq Versions(base, j),
         \A j \in Jobs : Chained(j)'
  PROVE  ContextInductive'
<1>1. ContextStateTyped'
  BY DEF ContextInductive, ContextStateTyped
<1>2. ASSUME NEW j \in gone' PROVE core'[j].deleted /\ Versions(base', j) = {}
  <2>1. j \in Jobs /\ core[j].deleted /\ Versions(base, j) = {}
    BY DEF ContextInductive, ContextStateTyped
  <2> QED BY <2>1
<1> QED BY <1>1, <1>2 DEF ContextInductive

LEMMA FinishedFacts ==
  ASSUME ContextInductive, NEW j \in Jobs, NEW outcome \in {"loaded", "not_found", "unavailable"}, Finished(j, outcome)
  PROVE  /\ actor' \in [Actors -> ActorState] /\ actor'[j] = Idle(j)
         /\ \A a \in Actors : a # j =>
              /\ actor'[a].pc = actor[a].pc /\ actor'[a].version = actor[a].version /\ actor'[a].look = actor[a].look
              /\ actor'[a].job = actor[a].job /\ actor'[a].late = actor[a].late /\ actor'[a].floor = actor[a].floor
              /\ actor[a].pc # "waiting" => actor'[a].signal = actor[a].signal
<1>1. j \in Actors /\ Idle(j) \in ActorState
  BY IdleFacts DEF Actors
<1>2. actor'[j] = Idle(j)
  BY <1>1 DEF Finished
<1>3. ASSUME NEW a \in Actors, a # j
      PROVE  /\ actor'[a] \in ActorState
             /\ actor'[a].pc = actor[a].pc /\ actor'[a].version = actor[a].version /\ actor'[a].look = actor[a].look
             /\ actor'[a].job = actor[a].job /\ actor'[a].late = actor[a].late /\ actor'[a].floor = actor[a].floor
             /\ actor[a].pc # "waiting" => actor'[a].signal = actor[a].signal
  <2> PICK s : s = actor[a]
    OBVIOUS
  <2>1. s \in ActorState
    BY ActorFacts
  <2>2. actor'[a] = IF s.pc = "waiting" /\ s.job = j THEN [s EXCEPT !.signal = outcome] ELSE s
    BY <1>3 DEF Finished, At, Job
  <2>a. PICK r : r = [s EXCEPT !.signal = outcome]
    OBVIOUS
  <2>3. /\ r \in ActorState /\ r.pc = s.pc /\ r.version = s.version /\ r.look = s.look
        /\ r.job = s.job /\ r.late = s.late /\ r.floor = s.floor
    BY <2>1, <2>a DEF ActorState
  <2>4. CASE actor'[a] = r /\ s.pc = "waiting"
    BY <2>3, <2>4
  <2>5. CASE actor'[a] = s
    BY <2>1, <2>5
  <2> QED BY <2>2, <2>a, <2>4, <2>5
<1>4. actor' \in [Actors -> ActorState]
  <2>1. actor' = [a \in Actors |-> actor'[a]]
    BY DEF Finished
  <2>2. \A a \in Actors : actor'[a] \in ActorState
    BY <1>1, <1>2, <1>3
  <2> QED BY <2>1, <2>2
<1> QED BY <1>2, <1>3, <1>4

\* A refresh stores what it has read.
LEMMA ChainStores ==
  ASSUME NEW answered, NEW c, NEW r, NEW b, NEW l, NEW newest, Chain(answered, c, r, b, l, newest),
         NEW c2 \in SUBSET r, NEW b2 \in SUBSET b, NEW l2 \in SUBSET l
  PROVE  Chain(answered, c2, {}, b2, l2, newest)
BY DEF Chain

LEMMA ChainAnswers ==
  ASSUME NEW answered, NEW c, NEW r, NEW b, NEW l, NEW newest, Chain(answered, c, r, b, l, newest),
         NEW v \in Nat, c = {v}
  PROVE  Chain(v, c, r, b, l, newest)
<1>1. v <= v
  OBVIOUS
<1> QED BY <1>1 DEF Chain

\* The waiting requests learn how the refresh of j ended: it has read nothing any more.
LEMMA FinishedMoves ==
  ASSUME ContextInductive, NEW j \in Jobs, NEW outcome \in {"loaded", "not_found", "unavailable"}, Finished(j, outcome),
         UNCHANGED <<core, lock, gone, served>>, IsCache(base'), IsCache(context'),
         \A k \in Jobs : Versions(base', k) \subseteq Versions(base, k),
         \A k \in Jobs : Versions(context', k) \subseteq Versions(context, k) \/ (k = j /\ Versions(context', k) \subseteq Refreshed(actor[k]))
  PROVE  ContextInductive'
<1>1. actor' \in [Actors -> ActorState] /\ actor'[j] = Idle(j)
  BY FinishedFacts
<1>2. /\ Idle(j).pc = "idle" /\ Idle(j).job = j /\ Idle(j).floor = 0 /\ ~Idle(j).late
  BY IdleFacts
<1>3. ASSUME NEW a \in Actors PROVE ActorHolds(a, actor'[a], lock', gone', core', served')
  <2>1. CASE a = j
    <3>1. 0 <= served[j]
      BY ContextAssumption DEF ContextInductive, ContextStateTyped
    <3> QED BY <1>1, <1>2, <2>1, <3>1 DEF ActorHolds
  <2>2. CASE a # j
    <3> PICK s : s = actor[a]
      OBVIOUS
    <3> PICK r : r = actor'[a]
      OBVIOUS
    <3>1. ActorHolds(a, s, lock, gone, core, served)
      BY ActorFacts
    <3>2. /\ r.pc = s.pc /\ r.version = s.version /\ r.look = s.look
          /\ r.job = s.job /\ r.late = s.late /\ r.floor = s.floor
          /\ s.pc # "waiting" => r.signal = s.signal
      BY <2>2, FinishedFacts
    <3> QED BY <3>1, <3>2 DEF ActorHolds
  <2> QED BY <2>1, <2>2
<1>4. ASSUME NEW k \in Jobs PROVE Chained(k)'
  <2>1. Looked(k, actor') \subseteq Looked(k, actor)
    <3>1. ASSUME NEW v \in Looked(k, actor') PROVE v \in Looked(k, actor)
      <4>1. PICK a \in Actors : Brought(actor'[a], k) /\ v = actor'[a].version
        BY DEF Looked
      <4>2. a # j
        BY <1>1, <1>2, <4>1 DEF Brought
      <4>3. actor'[a].pc = actor[a].pc /\ actor'[a].version = actor[a].version /\ actor'[a].look = actor[a].look
            /\ actor'[a].job = actor[a].job
        BY <4>2, FinishedFacts
      <4>4. Brought(actor[a], k) /\ v = actor[a].version
        BY <4>1, <4>3 DEF Brought
      <4> QED BY <4>4 DEF Looked
    <3> QED BY <3>1
  <2>2. Refreshed(actor'[k]) \subseteq Refreshed(actor[k]) /\ (k = j => Refreshed(actor'[k]) = {})
    <3>1. k \in Actors
      BY DEF Actors
    <3>2. CASE k = j
      BY <1>1, <1>2, <3>2 DEF Refreshed
    <3>3. CASE k # j
      <4>1. actor'[k].pc = actor[k].pc /\ actor'[k].version = actor[k].version
        BY <3>1, <3>3, FinishedFacts
      <4> QED BY <3>3, <4>1 DEF Refreshed
    <3> QED BY <3>2, <3>3
  <2>3. Chained(k)
    BY DEF ContextInductive
  <2>4. CASE Versions(context', k) \subseteq Versions(context, k)
    BY <2>1, <2>2, <2>3, <2>4, ChainShrinks DEF Chained
  <2>5. CASE k = j /\ Versions(context', k) \subseteq Refreshed(actor[k])
    BY <2>1, <2>2, <2>3, <2>5, ChainStores DEF Chained
  <2> QED BY <2>4, <2>5
<1>5. served' \in [Jobs -> 0..MaxVersion]
  BY DEF ContextInductive, ContextStateTyped
<1> QED BY <1>1, <1>3, <1>4, <1>5, ThreadsMove

LEMMA StoreContextKeeps ==
  ASSUME ContextInductive, NEW j \in Jobs, StoreContext(j)
  PROVE  ContextInductive'
<1> PICK v : v = actor[j].version
  OBVIOUS
<1>1. j \in Actors
  BY DEF Actors
<1>2. actor[j].pc = "ready" /\ v \in 1..MaxVersion
  BY <1>1, ActorFacts DEF StoreContext, At, ActorHolds
<1>3. context' = Put(context, j, v) /\ Finished(j, "loaded") /\ UNCHANGED <<core, base, lock, gone, served>>
  BY DEF StoreContext
<1>4. IsCache(base) /\ IsCache(context)
  BY DEF ContextInductive, ContextStateTyped
<1>5. /\ IsCache(context') /\ Versions(context', j) \subseteq {v}
      /\ \A k \in Jobs : k # j => Versions(context', k) \subseteq Versions(context, k)
  BY <1>2, <1>3, <1>4, PutFacts
<1>6. Refreshed(actor[j]) = {v}
  BY <1>2 DEF Refreshed
<1>7. \A k \in Jobs : Versions(context', k) \subseteq Versions(context, k) \/ (k = j /\ Versions(context', k) \subseteq Refreshed(actor[k]))
  BY <1>5, <1>6
<1>8. IsCache(base') /\ \A k \in Jobs : Versions(base', k) \subseteq Versions(base, k)
  BY <1>3, <1>4
<1>9. "loaded" \in {"loaded", "not_found", "unavailable"} /\ UNCHANGED <<core, lock, gone, served>>
  BY <1>3
<1> QED BY <1>3, <1>5, <1>7, <1>8, <1>9, FinishedMoves

LEMMA RefreshFailsKeeps ==
  ASSUME ContextInductive, NEW j \in Jobs, RefreshFails(j)
  PROVE  ContextInductive'
<1> PICK outcome : outcome = actor[j].signal
  OBVIOUS
<1>1. j \in Actors
  BY DEF Actors
<1>2. outcome \in {"not_found", "unavailable"}
  BY <1>1, ActorFacts DEF RefreshFails, At, ActorHolds
<1>3. Finished(j, outcome) /\ UNCHANGED <<core, lock, gone, served>>
  BY DEF RefreshFails, Finished
<1>4. \/ base' = Drop(base, j) /\ context' = Drop(context, j)
      \/ base' = base /\ context' = context
  BY DEF RefreshFails, caches
<1>5. IsCache(base) /\ IsCache(context)
  BY DEF ContextInductive, ContextStateTyped
<1>6. /\ IsCache(base') /\ IsCache(context')
      /\ \A k \in Jobs : Versions(base', k) \subseteq Versions(base, k)
      /\ \A k \in Jobs : Versions(context', k) \subseteq Versions(context, k)
  <2>1. CASE base' = Drop(base, j) /\ context' = Drop(context, j)
    <3>1. IsCache(base') /\ \A k \in Jobs : Versions(base', k) \subseteq Versions(base, k)
      BY <1>5, <2>1, DropFacts
    <3>2. IsCache(context') /\ \A k \in Jobs : Versions(context', k) \subseteq Versions(context, k)
      BY <1>5, <2>1, DropFacts
    <3> QED BY <3>1, <3>2
  <2>2. CASE base' = base /\ context' = context
    BY <1>5, <2>2
  <2> QED BY <1>4, <2>1, <2>2
<1>7. \A k \in Jobs : Versions(context', k) \subseteq Versions(context, k) \/ (k = j /\ Versions(context', k) \subseteq Refreshed(actor[k]))
  BY <1>6
<1>8. outcome \in {"loaded", "not_found", "unavailable"}
  BY <1>2
<1> QED BY <1>3, <1>6, <1>7, <1>8, FinishedMoves

-----------------------------------------------------------------------------
(* Requests *)

\* Answering with the context: nothing older is known of the Job from now on.
LEMMA AnsweredFacts ==
  ASSUME ContextInductive, NEW j \in Jobs, Has(context, j), NEW v, v = Entry(context, j).version
  PROVE  /\ v \in 1..MaxVersion /\ served[j] <= v
         /\ \A n \in Nat : n <= served[j] => n <= v
         /\ [served EXCEPT ![j] = v] \in [Jobs -> 0..MaxVersion]
         /\ \A k \in Jobs : served[k] <= [served EXCEPT ![j] = v][k]
         /\ \A k \in Jobs : Chain([served EXCEPT ![j] = v][k], Versions(context, k), Refreshed(actor[k]), Versions(base, k),
                                  Looked(k, actor), core[k].version)
<1>1. IsCache(context) /\ served \in [Jobs -> 0..MaxVersion] /\ MaxVersion \in Nat
  BY ContextAssumption DEF ContextInductive, ContextStateTyped
<1>2. Versions(context, j) = {v} /\ v \in 1..MaxVersion
  BY <1>1, EntryFacts DEF Entries
<1>3. served[j] <= v
  BY <1>2 DEF ContextInductive, Chained, Chain
<1>4. ASSUME NEW k \in Jobs
      PROVE  Chain([served EXCEPT ![j] = v][k], Versions(context, k), Refreshed(actor[k]), Versions(base, k),
                   Looked(k, actor), core[k].version)
  <2>1. Chained(k)
    BY DEF ContextInductive
  <2>2. CASE k = j
    <3>1. [served EXCEPT ![j] = v][k] = v
      BY <1>1, <2>2
    <3> QED BY <1>2, <2>1, <2>2, <3>1, ChainAnswers DEF Chained
  <2>3. CASE k # j
    <3>1. [served EXCEPT ![j] = v][k] = served[k]
      BY <1>1, <2>3
    <3> QED BY <2>1, <3>1 DEF Chained
  <2> QED BY <2>2, <2>3
<1>5. \A n \in Nat : n <= served[j] => n <= v
  BY <1>1, <1>2, <1>3
<1>6. [served EXCEPT ![j] = v] \in [Jobs -> 0..MaxVersion]
  BY <1>1, <1>2
<1>7. \A k \in Jobs : served[k] <= [served EXCEPT ![j] = v][k]
  BY <1>1, <1>3
<1> QED BY <1>2, <1>3, <1>4, <1>5, <1>6, <1>7

\* A request is answered with the context.
LEMMA AnswerMoves ==
  ASSUME ContextInductive, NEW t \in Requests, NEW j \in Jobs, actor[t].job = j, ~actor[t].late, Has(context, j),
         NEW v, v = Entry(context, j).version, Answers(t, "answered", v),
         UNCHANGED <<core, base, lock, gone>>, IsCache(context'),
         \A k \in Jobs : Versions(context', k) \subseteq Versions(context, k)
  PROVE  ContextInductive'
<1> PICK s : s = actor[t]
  OBVIOUS
<1>a. PICK r : r = [s EXCEPT !.pc = "answered", !.version = v]
  OBVIOUS
<1>b. PICK later : later = [served EXCEPT ![j] = v]
  OBVIOUS
<1>1. t \in Actors /\ s \in ActorState /\ ActorHolds(t, s, lock, gone, core, served) /\ s.job = j /\ ~s.late
  BY ActorFacts DEF Actors
<1>2. /\ v \in 1..MaxVersion /\ served[j] <= v /\ (\A n \in Nat : n <= served[j] => n <= v)
      /\ later \in [Jobs -> 0..MaxVersion] /\ \A k \in Jobs : served[k] <= later[k]
  BY <1>b, AnsweredFacts
<1>3. \A k \in Jobs : Chain(later[k], Versions(context, k), Refreshed(actor[k]), Versions(base, k), Looked(k, actor), core[k].version)
  BY <1>b, AnsweredFacts
<1>4. served \in [Jobs -> 0..MaxVersion] /\ MaxVersion \in Nat
  BY ContextAssumption DEF ContextInductive, ContextStateTyped
<1>5. served' = later
  <2>1. served' = [served EXCEPT ![j] = IF served[j] < v THEN v ELSE served[j]]
    BY <1>1 DEF Answers, Job
  <2>2. (IF served[j] < v THEN v ELSE served[j]) = v
    BY <1>2, <1>4
  <2> QED BY <1>b, <2>1, <2>2
<1>6. r \in ActorState
  <2>1. v \in 0..MaxVersion
    BY <1>2, <1>4
  <2> QED BY <1>a, <1>1, <2>1 DEF ActorState
<1>7. /\ r.pc = "answered" /\ r.version = v /\ r.job = j /\ ~r.late /\ r.floor = s.floor
  BY <1>a, <1>1 DEF ActorState
<1>8. actor' = [actor EXCEPT ![t] = r]
  BY <1>a DEF Answers, ContextInductive, ContextStateTyped
<1>9. s.floor \in Nat /\ s.floor <= served[j]
  BY <1>1, <1>4 DEF ActorState, ActorHolds
<1>10. later[j] = v
  BY <1>b, <1>4
<1>11. ActorHolds(t, r, lock', gone', core', served')
  <2>1. s.floor <= v
    BY <1>2, <1>9
  <2>2. t \in Jobs => j = t
    BY <1>1 DEF ActorHolds
  <2> QED BY <1>5, <1>7, <1>10, <2>1, <2>2 DEF ActorHolds
<1>12. ASSUME NEW k \in Jobs PROVE Chained(k)'
  <2>1. Looked(k, actor') \subseteq Looked(k, actor)
    BY <1>1, <1>6, <1>7, <1>8, ReadsMove DEF Brought
  <2>2. Refreshed(actor'[k]) \subseteq Refreshed(actor[k])
    <3>1. actor'[k] = IF t = k THEN r ELSE actor[k]
      BY <1>1, <1>8, OneMoves DEF Actors
    <3>2. CASE t = k
      BY <1>7, <3>1, <3>2 DEF Refreshed
    <3>3. CASE t # k
      BY <3>1, <3>3
    <3> QED BY <3>2, <3>3
  <2>3. Chain(later[k], Versions(context, k), Refreshed(actor[k]), Versions(base, k), Looked(k, actor), core[k].version)
    BY <1>3
  <2>4. Versions(base', k) \subseteq Versions(base, k) /\ Versions(context', k) \subseteq Versions(context, k)
    OBVIOUS
  <2>5. Chain(later[k], Versions(context', k), Refreshed(actor'[k]), Versions(base', k), Looked(k, actor'), core[k].version)
    BY <2>1, <2>2, <2>3, <2>4, ChainShrinks
  <2>6. served'[k] = later[k] /\ core'[k].version = core[k].version
    BY <1>5
  <2> QED BY <2>5, <2>6 DEF Chained
<1>13. IsCache(base') /\ IsCache(context') /\ lock' \in [Jobs -> Actors \cup {None}]
       /\ \A k \in Jobs : lock[k] \in {None, t} \/ lock'[k] = lock[k]
  BY DEF ContextInductive, ContextStateTyped
<1>14. gone \subseteq gone' /\ (\A k \in gone' : k \in gone \/ lock[k] = t) /\ gone' \subseteq Jobs
  BY DEF ContextInductive, ContextStateTyped
<1>15. served' \in [Jobs -> 0..MaxVersion] /\ \A k \in Jobs : served[k] <= served'[k]
  BY <1>2, <1>5
<1>16. \A k \in gone' : core[k].deleted /\ Versions(base', k) = {}
  BY DEF ContextInductive
<1> QED BY <1>1, <1>6, <1>8, <1>11, <1>12, <1>13, <1>14, <1>15, <1>16, ActorMoves

LEMMA AskKeeps ==
  ASSUME ContextInductive, NEW t \in Requests, NEW j \in Jobs, Ask(t, j)
  PROVE  ContextInductive'
<1> PICK late : late = (j \in gone)
  OBVIOUS
<1> PICK floor : floor = served[j]
  OBVIOUS
<1> PICK s : s = Idle(j)
  OBVIOUS
<1>a. PICK r : r = [s EXCEPT !.pc = "base", !.late = late, !.floor = floor]
  OBVIOUS
<1>1. t \in Actors /\ s \in ActorState /\ s.job = j
  BY IdleFacts DEF Actors
<1>2. late \in BOOLEAN /\ floor \in 0..MaxVersion /\ floor <= served[j]
  BY ContextAssumption DEF ContextInductive, ContextStateTyped
<1>3. r \in ActorState
  BY <1>a, <1>1, <1>2 DEF ActorState
<1>4. r.pc = "base" /\ r.job = j /\ r.late = late /\ r.floor = floor
  BY <1>a, <1>1 DEF ActorState
<1>5. actor' = [actor EXCEPT ![t] = r]
  BY <1>a DEF Ask
<1>6. t \notin Jobs
  BY ContextAssumption
<1>7. ActorHolds(t, r, lock, gone, core, served)
  BY <1>2, <1>4, <1>6 DEF ActorHolds
<1>8. UNCHANGED <<core, base, context, lock, gone, served>>
  BY DEF Ask, caches
<1>9. (r.pc # "looked" \/ r.look # "found") /\ (r.pc = "ready" => t \in Requests)
  BY <1>4
<1> QED BY <1>1, <1>3, <1>5, <1>7, <1>8, <1>9, StillMove

\* A request goes to another point without an answer.
LEMMA RequestGoes ==
  ASSUME ContextInductive, NEW t \in Requests, NEW pc \in {"not_found", "unavailable", "partial"},
         actor' = [actor EXCEPT ![t].pc = pc], actor[t].pc # "idle", actor[t].late => pc # "partial",
         UNCHANGED <<core, base, context, lock, gone, served>>
  PROVE  ContextInductive'
<1> PICK s : s = actor[t]
  OBVIOUS
<1>a. PICK r : r = [s EXCEPT !.pc = pc]
  OBVIOUS
<1>1. t \in Actors /\ s \in ActorState /\ ActorHolds(t, s, lock, gone, core, served)
  BY ActorFacts DEF Actors
<1>2. r \in ActorState
  BY <1>a, <1>1 DEF ActorState
<1>3. r.pc = pc /\ r.job = s.job /\ r.late = s.late /\ r.floor = s.floor
  BY <1>a, <1>1 DEF ActorState
<1>4. actor' = [actor EXCEPT ![t] = r]
  BY <1>a
<1>5. ActorHolds(t, r, lock, gone, core, served)
  BY <1>1, <1>3 DEF ActorHolds
<1>6. (r.pc # "looked" \/ r.look # "found") /\ (r.pc = "ready" => t \in Requests)
  BY <1>3
<1> QED BY <1>1, <1>2, <1>4, <1>5, <1>6, StillMove

LEMMA RefuseKeeps ==
  ASSUME ContextInductive, NEW t \in Requests, Refuse(t)
  PROVE  ContextInductive'
<1> PICK pc : pc = actor[t].signal
  OBVIOUS
<1>1. t \in Actors
  BY DEF Actors
<1>2. pc \in {"not_found", "unavailable"} /\ actor[t].pc = "raised"
  BY <1>1, ActorFacts DEF Refuse, At, ActorHolds
<1>3. actor' = [actor EXCEPT ![t].pc = pc] /\ UNCHANGED <<core, base, context, lock, gone, served>>
  BY DEF Refuse, Becomes, caches
<1>4. pc \in {"not_found", "unavailable", "partial"} /\ (actor[t].late => pc # "partial") /\ actor[t].pc # "idle"
  BY <1>2
<1> QED BY <1>3, <1>4, RequestGoes

LEMMA AnswerFreshKeeps ==
  ASSUME ContextInductive, NEW t \in Requests, AnswerFresh(t)
  PROVE  ContextInductive'
<1> PICK j : j = actor[t].job
  OBVIOUS
<1> PICK v : v = Entry(context, j).version
  OBVIOUS
<1>1. t \in Actors /\ actor[t].pc = "ready"
  BY DEF Actors, AnswerFresh, At
<1>2. j \in Jobs /\ ~actor[t].late
  BY <1>1, ActorFacts DEF ActorHolds
<1>3. Has(context, j) /\ context' = MovedToEnd(context, j) /\ Answers(t, "answered", v) /\ UNCHANGED <<core, base, lock, gone>>
  BY DEF AnswerFresh, Aged, Job
<1>4. IsCache(context)
  BY DEF ContextInductive, ContextStateTyped
<1>5. IsCache(context') /\ \A k \in Jobs : Versions(context', k) \subseteq Versions(context, k)
  BY <1>2, <1>3, <1>4, MovedFacts
<1> QED BY <1>2, <1>3, <1>5, AnswerMoves

LEMMA WokenKeeps ==
  ASSUME ContextInductive, NEW t \in Requests, Woken(t)
  PROVE  ContextInductive'
<1> PICK j : j = actor[t].job
  OBVIOUS
<1>1. t \in Actors /\ actor[t].pc = "waiting"
  BY DEF Actors, Woken, At
<1>2. j \in Jobs /\ ~actor[t].late
  BY <1>1, ActorFacts DEF ActorHolds
<1>3. UNCHANGED <<core, base, context, lock, gone>>
  BY DEF Woken, caches
<1>4. CASE Aged(context, j, {"fresh", "known"})
  <2> PICK v : v = Entry(context, j).version
    OBVIOUS
  <2>1. Has(context, j) /\ Answers(t, "answered", v)
    BY <1>4 DEF Woken, Aged, Job
  <2>2. IsCache(context') /\ \A k \in Jobs : Versions(context', k) \subseteq Versions(context, k)
    BY <1>3 DEF ContextInductive, ContextStateTyped
  <2>3. UNCHANGED <<core, base, lock, gone>>
    BY <1>3
  <2> QED BY <1>2, <2>1, <2>2, <2>3, AnswerMoves
<1>5. CASE ~Aged(context, j, {"fresh", "known"})
  <2> PICK pc : pc = IF actor[t].signal = "not_found" THEN "not_found" ELSE "partial"
    OBVIOUS
  <2>1. actor' = [actor EXCEPT ![t].pc = pc] /\ UNCHANGED served
    BY <1>5 DEF Woken, Becomes, Job
  <2>2. pc \in {"not_found", "unavailable", "partial"} /\ (actor[t].late => pc # "partial") /\ actor[t].pc # "idle"
    BY <1>1, <1>2
  <2>3. UNCHANGED <<core, base, context, lock, gone, served>>
    BY <1>3, <2>1
  <2> QED BY <2>1, <2>2, <2>3, RequestGoes
<1> QED BY <1>4, <1>5

\* A request and the refresh thread of its Job move together.
LEMMA TwoMove ==
  ASSUME ContextInductive, NEW t \in Requests, NEW j \in Jobs, NEW q \in ActorState, NEW r \in ActorState,
         actor' = [actor EXCEPT ![j] = q, ![t] = r],
         q = actor[j] \/ q.pc \notin {"looked", "ready"}, r.pc \notin {"looked", "ready"},
         UNCHANGED <<core, base, context, lock, gone>>,
         served' \in [Jobs -> 0..MaxVersion], \A k \in Jobs : served[k] <= served'[k],
         \A k \in Jobs : Chain(served'[k], Versions(context, k), Refreshed(actor[k]), Versions(base, k), Looked(k, actor), core[k].version),
         ActorHolds(j, q, lock, gone, core, served'), ActorHolds(t, r, lock, gone, core, served')
  PROVE  ContextInductive'
<1>1. t \in Actors /\ j \in Actors /\ t # j /\ actor \in [Actors -> ActorState]
  BY ContextAssumption DEF Actors, ContextInductive, ContextStateTyped
<1>2. /\ actor' \in [Actors -> ActorState] /\ actor'[j] = q /\ actor'[t] = r
      /\ \A b \in Actors : b # j /\ b # t => actor'[b] = actor[b]
  BY <1>1
<1>3. ASSUME NEW b \in Actors PROVE ActorHolds(b, actor'[b], lock', gone', core', served')
  <2>1. CASE b = j
    BY <1>2, <2>1
  <2>2. CASE b = t
    BY <1>2, <2>2
  <2>3. CASE b # j /\ b # t
    <3>1. /\ \A k \in Jobs : lock[k] = b => lock'[k] = b
          /\ gone \subseteq gone' /\ \A k \in gone' : k \in gone \/ lock[k] # b
          /\ \A k \in Jobs : core[k].deleted => core'[k].deleted
      OBVIOUS
    <3>2. ActorHolds(b, actor[b], lock', gone', core', served')
      BY <3>1, OthersHold
    <3>3. actor'[b] = actor[b]
      BY <1>2, <2>3
    <3> QED BY <3>2, <3>3
  <2> QED BY <2>1, <2>2, <2>3
<1>4. ASSUME NEW k \in Jobs PROVE Chained(k)'
  <2>1. Looked(k, actor') \subseteq Looked(k, actor)
    <3>1. ASSUME NEW v \in Looked(k, actor') PROVE v \in Looked(k, actor)
      <4>1. PICK b \in Actors : Brought(actor'[b], k) /\ v = actor'[b].version
        BY DEF Looked
      <4>2. actor'[b] = actor[b]
        BY <1>2, <4>1 DEF Brought
      <4>3. Brought(actor[b], k) /\ v = actor[b].version
        BY <4>1, <4>2
      <4> QED BY <4>3 DEF Looked
    <3> QED BY <3>1
  <2>2. Refreshed(actor'[k]) \subseteq Refreshed(actor[k])
    <3>1. k \in Actors /\ k # t
      BY ContextAssumption DEF Actors
    <3>2. actor'[k] = actor[k] \/ actor'[k].pc # "ready"
      BY <1>2, <3>1
    <3> QED BY <3>2 DEF Refreshed
  <2>3. Chain(served'[k], Versions(context, k), Refreshed(actor[k]), Versions(base, k), Looked(k, actor), core[k].version)
    OBVIOUS
  <2>4. Chain(served'[k], Versions(context, k), Refreshed(actor'[k]), Versions(base, k), Looked(k, actor'), core[k].version)
    BY <2>1, <2>2, <2>3, ChainShrinks
  <2> QED BY <2>4 DEF Chained
<1>5. IsCache(base') /\ IsCache(context') /\ \A k \in Jobs : Versions(base', k) \subseteq Versions(base, k)
  BY DEF ContextInductive, ContextStateTyped
<1> QED BY <1>2, <1>3, <1>4, <1>5, ThreadsMove

\* The refresh thread of a Job, as it is or just started.
LEMMA StartedFacts ==
  ASSUME ContextInductive, NEW j \in Jobs, NEW q, q = [Idle(j) EXCEPT !.pc = "base"]
  PROVE  q \in ActorState /\ q.pc = "base" /\ ActorHolds(j, q, lock, gone, core, served)
<1> PICK s : s = Idle(j)
  OBVIOUS
<1>1. s \in ActorState /\ s.job = j /\ s.floor = 0 /\ ~s.late
  BY IdleFacts
<1>2. q \in ActorState /\ q.pc = "base" /\ q.job = j /\ q.floor = 0 /\ ~q.late
  BY <1>1 DEF ActorState
<1>3. 0 <= served[j]
  BY ContextAssumption DEF ContextInductive, ContextStateTyped
<1> QED BY <1>2, <1>3 DEF ActorHolds

LEMMA RefreshesKeeps ==
  ASSUME ContextInductive, NEW t \in Requests, Refreshes(t)
  PROVE  ContextInductive'
<1> PICK s : s = actor[t]
  OBVIOUS
<1> PICK j : j = s.job
  OBVIOUS
<1>1. t \in Actors /\ s \in ActorState /\ ActorHolds(t, s, lock, gone, core, served) /\ s.pc = "ready"
  BY ActorFacts DEF Actors, Refreshes, At
<1>2. j \in Jobs /\ ~s.late /\ j \in Actors /\ t # j
  BY <1>1, ContextAssumption DEF ActorHolds, Actors
<1>b. PICK q : q = IF actor[j].pc = "idle" THEN [Idle(j) EXCEPT !.pc = "base"] ELSE actor[j]
  OBVIOUS
<1>3. UNCHANGED <<core, base, context, lock, gone>>
  BY DEF Refreshes, caches
<1>4. q \in ActorState /\ ActorHolds(j, q, lock, gone, core, served) /\ (q = actor[j] \/ q.pc \notin {"looked", "ready"})
  <2>1. CASE actor[j].pc = "idle"
    BY <1>2, <1>b, <2>1, StartedFacts
  <2>2. CASE actor[j].pc # "idle"
    BY <1>2, <1>b, <2>2, ActorFacts
  <2> QED BY <2>1, <2>2
<1>5. actor \in [Actors -> ActorState] /\ served \in [Jobs -> 0..MaxVersion] /\ MaxVersion \in Nat
  BY ContextAssumption DEF ContextInductive, ContextStateTyped
<1>6. CASE Aged(context, j, {"known"})
  <2> PICK v : v = Entry(context, j).version
    OBVIOUS
  <2>a. PICK r : r = [s EXCEPT !.pc = "answered", !.version = v]
    OBVIOUS
  <2>b. PICK later : later = [served EXCEPT ![j] = v]
    OBVIOUS
  <2>1. /\ v \in 1..MaxVersion /\ served[j] <= v /\ (\A n \in Nat : n <= served[j] => n <= v)
        /\ later \in [Jobs -> 0..MaxVersion] /\ \A k \in Jobs : served[k] <= later[k]
    BY <1>2, <1>6, <2>b, AnsweredFacts DEF Aged
  <2>2. \A k \in Jobs : Chain(later[k], Versions(context, k), Refreshed(actor[k]), Versions(base, k), Looked(k, actor), core[k].version)
    BY <1>2, <1>6, <2>b, AnsweredFacts DEF Aged
  <2>3. served' = later
    <3>1. served' = IF served[j] < v THEN later ELSE served
      BY <1>6, <2>b DEF Refreshes, Job
    <3>2. CASE served[j] < v
      BY <3>1, <3>2
    <3>3. CASE ~(served[j] < v)
      <4>1. served[j] = v
        BY <1>2, <1>5, <2>1, <3>3
      <4>2. later = served
        BY <1>5, <2>b, <4>1
      <4> QED BY <3>1, <3>3, <4>2
    <3> QED BY <3>2, <3>3
  <2>4. r \in ActorState
    <3>1. v \in 0..MaxVersion
      BY <1>5, <2>1
    <3> QED BY <1>1, <2>a, <3>1 DEF ActorState
  <2>5. r.pc = "answered" /\ r.version = v /\ r.job = j /\ ~r.late /\ r.floor = s.floor
    BY <1>1, <1>2, <2>a DEF ActorState
  <2>6. actor' = [actor EXCEPT ![j] = q, ![t] = r]
    BY <1>1, <1>2, <1>5, <1>6, <1>b, <2>a DEF Refreshes, At, Job
  <2>7. ActorHolds(t, r, lock, gone, core, later)
    <3>1. s.floor \in Nat /\ s.floor <= served[j]
      BY <1>1, <1>2, <1>5 DEF ActorState, ActorHolds
    <3>2. s.floor <= v /\ later[j] = v
      BY <1>2, <1>5, <2>1, <2>b, <3>1
    <3>3. t \notin Jobs
      BY ContextAssumption
    <3> QED BY <1>2, <2>5, <3>2, <3>3 DEF ActorHolds
  <2>8. ActorHolds(j, q, lock, gone, core, later)
    <3>1. q.job = j /\ q.floor \in Nat /\ q.floor <= served[j]
      BY <1>2, <1>4 DEF ActorState, ActorHolds
    <3>2. later[j] = v /\ q.floor <= v
      BY <1>2, <1>5, <2>1, <2>b, <3>1
    <3> QED BY <1>4, <3>1, <3>2 DEF ActorHolds
  <2>9. r.pc \notin {"looked", "ready"}
    BY <2>5
  <2> QED BY <1>2, <1>3, <1>4, <2>1, <2>2, <2>3, <2>4, <2>6, <2>7, <2>8, <2>9, TwoMove
<1>7. CASE ~Aged(context, j, {"known"})
  <2>a. PICK r : r = [s EXCEPT !.pc = "waiting", !.version = 0]
    OBVIOUS
  <2>1. served' = served
    BY <1>7 DEF Refreshes, Job
  <2>2. r \in ActorState
    <3>1. 0 \in 0..MaxVersion
      BY <1>5
    <3> QED BY <1>1, <2>a, <3>1 DEF ActorState
  <2>3. r.pc = "waiting" /\ r.job = j /\ ~r.late /\ r.floor = s.floor
    BY <1>1, <1>2, <2>a DEF ActorState
  <2>4. actor' = [actor EXCEPT ![j] = q, ![t] = r]
    BY <1>1, <1>2, <1>5, <1>7, <1>b, <2>a DEF Refreshes, At, Job
  <2>5. ActorHolds(t, r, lock, gone, core, served)
    BY <1>1, <2>3 DEF ActorHolds
  <2>6. served' \in [Jobs -> 0..MaxVersion] /\ \A k \in Jobs : served[k] <= served'[k]
    BY <1>5, <2>1
  <2>7. \A k \in Jobs : Chain(served'[k], Versions(context, k), Refreshed(actor[k]), Versions(base, k), Looked(k, actor), core[k].version)
    BY <2>1 DEF ContextInductive, Chained
  <2>8. ActorHolds(j, q, lock, gone, core, served') /\ ActorHolds(t, r, lock, gone, core, served')
    BY <1>4, <2>1, <2>5
  <2>9. r.pc \notin {"looked", "ready"}
    BY <2>3
  <2> QED BY <1>2, <1>3, <1>4, <2>2, <2>4, <2>6, <2>7, <2>8, <2>9, TwoMove
<1> QED BY <1>6, <1>7

LEMMA RefreshCannotStartKeeps ==
  ASSUME ContextInductive, NEW t \in Requests, RefreshCannotStart(t)
  PROVE  ContextInductive'
<1> PICK s : s = actor[t]
  OBVIOUS
<1> PICK j : j = s.job
  OBVIOUS
<1>1. t \in Actors /\ s \in ActorState /\ ActorHolds(t, s, lock, gone, core, served) /\ s.pc = "ready"
  BY ActorFacts DEF Actors, RefreshCannotStart, At
<1>2. j \in Jobs /\ ~s.late /\ j \in Actors /\ t # j
  BY <1>1, ContextAssumption DEF ActorHolds, Actors
<1> PICK p : p = actor[j]
  OBVIOUS
<1>3. p \in ActorState /\ ActorHolds(j, p, lock, gone, core, served) /\ p.pc = "idle"
  BY <1>2, ActorFacts DEF RefreshCannotStart, At, Job
<1>a. PICK q : q = [p EXCEPT !.pc = "lost"]
  OBVIOUS
<1>b. PICK r : r = [s EXCEPT !.pc = "unavailable"]
  OBVIOUS
<1>4. q \in ActorState /\ q.pc = "lost" /\ q.job = p.job /\ q.late = p.late /\ q.floor = p.floor
  BY <1>a, <1>3 DEF ActorState
<1>5. r \in ActorState /\ r.pc = "unavailable" /\ r.job = s.job /\ r.late = s.late /\ r.floor = s.floor
  BY <1>b, <1>1 DEF ActorState
<1>6. actor \in [Actors -> ActorState] /\ served \in [Jobs -> 0..MaxVersion] /\ MaxVersion \in Nat
  BY ContextAssumption DEF ContextInductive, ContextStateTyped
<1>7. actor' = [actor EXCEPT ![j] = q, ![t] = r]
  BY <1>1, <1>2, <1>6, <1>a, <1>b DEF RefreshCannotStart, Job
<1>8. UNCHANGED <<core, base, context, lock, gone>> /\ served' = served
  BY DEF RefreshCannotStart, caches
<1>9. p.job = j
  BY <1>2, <1>3 DEF ActorHolds
<1>10. ActorHolds(j, q, lock, gone, core, served) /\ ActorHolds(t, r, lock, gone, core, served)
  <2>1. ActorHolds(j, q, lock, gone, core, served)
    BY <1>2, <1>3, <1>4, <1>9 DEF ActorHolds
  <2>2. ActorHolds(t, r, lock, gone, core, served)
    BY <1>1, <1>2, <1>5 DEF ActorHolds
  <2> QED BY <2>1, <2>2
<1>11. served' \in [Jobs -> 0..MaxVersion] /\ \A k \in Jobs : served[k] <= served'[k]
  BY <1>6, <1>8
<1>12. \A k \in Jobs : Chain(served'[k], Versions(context, k), Refreshed(actor[k]), Versions(base, k), Looked(k, actor), core[k].version)
  BY <1>8 DEF ContextInductive, Chained
<1>13. ActorHolds(j, q, lock, gone, core, served') /\ ActorHolds(t, r, lock, gone, core, served')
  BY <1>8, <1>10
<1>14. (q = actor[j] \/ q.pc \notin {"looked", "ready"}) /\ r.pc \notin {"looked", "ready"}
  BY <1>4, <1>5
<1>15. UNCHANGED <<core, base, context, lock, gone>>
  BY <1>8
<1> QED BY <1>2, <1>4, <1>5, <1>7, <1>11, <1>12, <1>13, <1>14, <1>15, TwoMove

LEMMA StartRelayKeepsContext ==
  ASSUME ContextInductive, NEW t \in Requests, StartRelay(t)
  PROVE  ContextInductive'
<1> PICK j : j = actor[t].job
  OBVIOUS
<1> PICK s : s = Idle(j)
  OBVIOUS
<1>a. PICK r : r = [s EXCEPT !.pc = "relaying"]
  OBVIOUS
<1>1. t \in Actors /\ actor[t].pc \in {"answered", "partial"}
  BY DEF Actors, StartRelay
<1>2. j \in Jobs
  BY <1>1, ActorFacts DEF ActorHolds
<1>3. s \in ActorState /\ s.job = j /\ s.floor = 0 /\ ~s.late
  BY <1>2, IdleFacts
<1>4. r \in ActorState
  BY <1>a, <1>3 DEF ActorState
<1>5. r.pc = "relaying" /\ r.job = j /\ r.floor = 0 /\ ~r.late
  BY <1>a, <1>3 DEF ActorState
<1>6. actor' = [actor EXCEPT ![t] = r]
  BY <1>a DEF StartRelay, Job
<1>7. t \notin Jobs /\ 0 <= served[j]
  BY <1>2, ContextAssumption DEF ContextInductive, ContextStateTyped
<1>8. ActorHolds(t, r, lock, gone, core, served)
  BY <1>2, <1>5, <1>7 DEF ActorHolds
<1>9. UNCHANGED <<core, base, context, lock, gone, served>>
  BY DEF StartRelay, caches
<1>10. (r.pc # "looked" \/ r.look # "found") /\ (r.pc = "ready" => t \in Requests)
  BY <1>5
<1> QED BY <1>1, <1>4, <1>6, <1>8, <1>9, <1>10, StillMove

-----------------------------------------------------------------------------
(* The clock and Core *)

LEMMA AgeKeeps ==
  ASSUME ContextInductive, NEW j \in Jobs, Age(j)
  PROVE  ContextInductive'
<1>1. UNCHANGED <<core, lock, actor, gone, served>>
  BY DEF Age
<1>2. IsCache(base) /\ IsCache(context)
  BY DEF ContextInductive, ContextStateTyped
<1>3. /\ IsCache(base') /\ IsCache(context')
      /\ \A k \in Jobs : Versions(base', k) \subseteq Versions(base, k)
      /\ \A k \in Jobs : Versions(context', k) \subseteq Versions(context, k)
  <2>1. CASE base' = Older(base, j) /\ UNCHANGED context
    BY <1>2, <2>1, OlderFacts
  <2>2. CASE context' = Older(context, j) /\ UNCHANGED base
    BY <1>2, <2>2, OlderFacts
  <2> QED BY <2>1, <2>2 DEF Age
<1>4. ASSUME NEW k \in Jobs PROVE Chained(k)'
  <2>1. Looked(k, actor') = Looked(k, actor) /\ Refreshed(actor'[k]) = Refreshed(actor[k])
    BY <1>1
  <2>2. Chained(k)
    BY DEF ContextInductive
  <2> QED BY <1>1, <1>3, <2>1, <2>2, ChainShrinks DEF Chained
<1>5. \A a \in Actors : ActorHolds(a, actor'[a], lock', gone', core', served')
  BY <1>1 DEF ContextInductive
<1>6. actor' \in [Actors -> ActorState] /\ served' \in [Jobs -> 0..MaxVersion] /\ UNCHANGED <<core, lock, gone>>
  BY <1>1 DEF ContextInductive, ContextStateTyped
<1> QED BY <1>3, <1>4, <1>5, <1>6, ThreadsMove

LEMMA ChainGrows ==
  ASSUME NEW answered \in Nat, NEW c \in SUBSET Nat, NEW r \in SUBSET Nat, NEW b \in SUBSET Nat, NEW l \in SUBSET Nat,
         NEW newest \in Nat, Chain(answered, c, r, b, l, newest), NEW newer \in Nat, newest <= newer
  PROVE  Chain(answered, c, r, b, l, newer)
<1>1. \A v \in Nat : v <= newest => v <= newer
  OBVIOUS
<1> QED BY <1>1 DEF Chain

\* A Job changes or is deleted in Core.
LEMMA CoreMoves ==
  ASSUME ContextInductive, NEW j \in Jobs, NEW jobs \in [Jobs -> [version : 1..MaxVersion, deleted : BOOLEAN]],
         core' = jobs, UNCHANGED <<base, context, lock, actor, gone, served>>,
         \A k \in Jobs : core[k].version <= jobs[k].version /\ (core[k].deleted => jobs[k].deleted)
  PROVE  ContextInductive'
<1>1. ContextStateTyped'
  BY DEF ContextInductive, ContextStateTyped
<1>2. ASSUME NEW a \in Actors PROVE ActorHolds(a, actor'[a], lock', gone', core', served')
  <2>1. /\ \A k \in Jobs : lock[k] = a => lock'[k] = a
        /\ gone \subseteq gone' /\ \A k \in gone' : k \in gone \/ lock[k] # a
        /\ \A k \in Jobs : core[k].deleted => core'[k].deleted
        /\ served' \in [Jobs -> 0..MaxVersion]
    BY DEF ContextInductive, ContextStateTyped
  <2>2. \A k \in Jobs : served[k] <= served'[k]
    BY ContextAssumption DEF ContextInductive, ContextStateTyped
  <2>3. ActorHolds(a, actor[a], lock', gone', core', served')
    BY <2>1, <2>2, OthersHold
  <2> QED BY <2>3
<1>3. ASSUME NEW k \in gone' PROVE core'[k].deleted /\ Versions(base', k) = {}
  <2>1. k \in Jobs /\ core[k].deleted /\ Versions(base, k) = {}
    BY DEF ContextInductive, ContextStateTyped
  <2> QED BY <2>1
<1>4. ASSUME NEW k \in Jobs PROVE Chained(k)'
  <2>a. PICK newest : newest = core[k].version
    OBVIOUS
  <2>b. PICK newer : newer = jobs[k].version
    OBVIOUS
  <2>1. newest \in Nat /\ newer \in Nat /\ newest <= newer /\ served[k] \in Nat
    BY <2>a, <2>b, ContextAssumption DEF ContextInductive, ContextStateTyped
  <2>2. Versions(base, k) \subseteq Nat /\ Versions(context, k) \subseteq Nat
    <3>1. IsCache(base) /\ IsCache(context)
      BY DEF ContextInductive, ContextStateTyped
    <3> QED BY <3>1, VersionsAreNumbers
  <2>3. Refreshed(actor[k]) \subseteq Nat
    BY ActorFacts DEF Refreshed, ActorState, Actors
  <2>4. Looked(k, actor) \subseteq Nat
    BY ActorFacts DEF Looked, ActorState
  <2>5. Chain(served[k], Versions(context, k), Refreshed(actor[k]), Versions(base, k), Looked(k, actor), newest)
    BY <2>a DEF ContextInductive, Chained
  <2>6. Chain(served[k], Versions(context, k), Refreshed(actor[k]), Versions(base, k), Looked(k, actor), newer)
    BY <2>1, <2>2, <2>3, <2>4, <2>5, ChainGrows
  <2> QED BY <2>b, <2>6 DEF Chained
<1> QED BY <1>1, <1>2, <1>3, <1>4 DEF ContextInductive

LEMMA ChangeKeeps ==
  ASSUME ContextInductive, NEW j \in Jobs, Change(j)
  PROVE  ContextInductive'
<1> PICK s : s = core[j]
  OBVIOUS
<1> PICK n : n = s.version + 1
  OBVIOUS
<1>a. PICK r : r = [s EXCEPT !.version = n]
  OBVIOUS
<1>b. PICK jobs : jobs = [core EXCEPT ![j] = r]
  OBVIOUS
<1>1. core \in [Jobs -> [version : 1..MaxVersion, deleted : BOOLEAN]] /\ s \in [version : 1..MaxVersion, deleted : BOOLEAN]
  BY DEF ContextInductive, ContextStateTyped
<1>2. n \in 1..MaxVersion /\ s.version <= n
  <2> PICK v \in 1..MaxVersion : v = s.version
    BY <1>1
  <2>1. v < MaxVersion /\ MaxVersion \in Nat
    BY ContextAssumption DEF Change
  <2> QED BY <2>1
<1>3. r \in [version : 1..MaxVersion, deleted : BOOLEAN] /\ r.version = n /\ r.deleted = s.deleted
  BY <1>a, <1>1, <1>2
<1>4. core' = jobs /\ UNCHANGED <<base, context, lock, actor, gone, served>>
  BY <1>a, <1>b, <1>1 DEF Change, caches
<1>5. jobs \in [Jobs -> [version : 1..MaxVersion, deleted : BOOLEAN]]
  BY <1>b, <1>1, <1>3
<1>6. ASSUME NEW k \in Jobs PROVE core[k].version <= jobs[k].version /\ (core[k].deleted => jobs[k].deleted)
  <2>1. CASE k = j
    BY <1>b, <1>1, <1>2, <1>3, <2>1
  <2>2. CASE k # j
    <3>1. jobs[k] = core[k]
      BY <1>b, <1>1, <2>2
    <3> PICK v \in 1..MaxVersion : v = core[k].version
      BY <1>1
    <3>2. core[k].version <= core[k].version
      OBVIOUS
    <3> QED BY <3>1, <3>2
  <2> QED BY <2>1, <2>2
<1> QED BY <1>4, <1>5, <1>6, CoreMoves

LEMMA DeleteKeeps ==
  ASSUME ContextInductive, NEW j \in Jobs, Delete(j)
  PROVE  ContextInductive'
<1> PICK s : s = core[j]
  OBVIOUS
<1>a. PICK r : r = [s EXCEPT !.deleted = TRUE]
  OBVIOUS
<1>b. PICK jobs : jobs = [core EXCEPT ![j] = r]
  OBVIOUS
<1>1. core \in [Jobs -> [version : 1..MaxVersion, deleted : BOOLEAN]] /\ s \in [version : 1..MaxVersion, deleted : BOOLEAN]
  BY DEF ContextInductive, ContextStateTyped
<1>2. r \in [version : 1..MaxVersion, deleted : BOOLEAN] /\ r.version = s.version /\ r.deleted
  BY <1>a, <1>1
<1>3. core' = jobs /\ UNCHANGED <<base, context, lock, actor, gone, served>>
  BY <1>a, <1>b DEF Delete, caches
<1>4. jobs \in [Jobs -> [version : 1..MaxVersion, deleted : BOOLEAN]]
  BY <1>b, <1>1, <1>2
<1>5. ASSUME NEW k \in Jobs PROVE core[k].version <= jobs[k].version /\ (core[k].deleted => jobs[k].deleted)
  <2>1. jobs[k].version = core[k].version /\ (core[k].deleted => jobs[k].deleted)
    BY <1>b, <1>1, <1>2
  <2> PICK v \in 1..MaxVersion : v = core[k].version
    BY <1>1
  <2>2. core[k].version <= core[k].version
    OBVIOUS
  <2> QED BY <2>1, <2>2
<1> QED BY <1>3, <1>4, <1>5, CoreMoves

LEMMA ContextInit ==
  ASSUME RepliesInit
  PROVE  ContextInductive
<1>1. /\ core = [j \in Jobs |-> [version |-> 1, deleted |-> FALSE]] /\ base = <<>> /\ context = <<>>
      /\ lock = [j \in Jobs |-> None]
      /\ actor = [a \in Actors |-> Idle(IF a \in Jobs THEN a ELSE None)]
      /\ gone = {} /\ served = [j \in Jobs |-> 0]
  BY DEF RepliesInit, Init
<1>2. 1 \in 1..MaxVersion /\ 0 \in 0..MaxVersion /\ 0 <= MaxEntries /\ None \notin Jobs
  BY ContextAssumption
<1>3. ASSUME NEW a \in Actors
      PROVE  /\ actor[a] \in ActorState /\ actor[a].pc = "idle" /\ actor[a].floor = 0 /\ ~actor[a].late
             /\ (a \in Jobs => actor[a].job = a)
  <2> PICK j \in Jobs \cup {None} : j = IF a \in Jobs THEN a ELSE None
    OBVIOUS
  <2>a. PICK r : r = Idle(j)
    OBVIOUS
  <2>1. r \in ActorState /\ r.pc = "idle" /\ r.job = j /\ r.floor = 0 /\ ~r.late
    <3>1. 0 \in 0..MaxVersion /\ FALSE \in BOOLEAN
      BY <1>2
    <3> QED BY <2>a, <3>1 DEF Idle, ActorState
  <2>2. actor[a] = r
    BY <1>1, <2>a
  <2> QED BY <2>1, <2>2
<1>4. IsCache(<<>>) /\ \A j : Versions(<<>>, j) = {}
  <2>1. <<>> \in Seq(Entries) /\ Len(<<>>) = 0 /\ DOMAIN <<>> = {}
    OBVIOUS
  <2> QED BY <1>2, <2>1 DEF IsCache, OneEach, Versions
<1>5. ContextStateTyped
  <2>1. [version |-> 1, deleted |-> FALSE] \in [version : 1..MaxVersion, deleted : BOOLEAN]
    BY <1>2
  <2>2. actor \in [Actors -> ActorState]
    <3>1. actor = [a \in Actors |-> actor[a]]
      BY <1>1
    <3> QED BY <1>3, <3>1
  <2> QED BY <1>1, <1>2, <1>4, <2>1, <2>2 DEF ContextStateTyped
<1>6. ASSUME NEW a \in Actors PROVE ActorHolds(a, actor[a], lock, gone, core, served)
  <2>1. \A j \in Jobs : 0 <= served[j]
    BY <1>1
  <2> QED BY <1>3, <2>1 DEF ActorHolds
<1>7. ASSUME NEW j \in Jobs PROVE Chained(j)
  <2>1. Looked(j, actor) = {}
    BY <1>3 DEF Looked, Brought
  <2>2. Refreshed(actor[j]) = {}
    BY <1>3 DEF Refreshed, Actors
  <2>3. served[j] = 0 /\ core[j].version = 1
    BY <1>1
  <2>4. Versions(base, j) = {} /\ Versions(context, j) = {}
    BY <1>1, <1>4
  <2>5. Chain(0, {}, {}, {}, {}, 1)
    BY DEF Chain
  <2> QED BY <2>1, <2>2, <2>3, <2>4, <2>5 DEF Chained
<1> QED BY <1>1, <1>5, <1>6, <1>7 DEF ContextInductive

LEMMA ContextStepKeeps ==
  ASSUME ContextInductive, [Next]_vars
  PROVE  ContextInductive'
<1>1. CASE UNCHANGED contextVars
  <2>1. UNCHANGED <<core, base, context, lock, actor, gone, served>>
    BY <1>1 DEF contextVars, caches
  <2> QED BY <2>1 DEF ContextInductive, ContextStateTyped, Chained
<1>2. ASSUME NEW t \in Requests, (\E j \in Jobs : Ask(t, j)) \/ ContextStep(t) PROVE ContextInductive'
  <2>1. t \in Actors
    BY DEF Actors
  <2> QED BY <1>2, <2>1, AskKeeps, BaseStepKeeps, RefuseKeeps, AnswerFreshKeeps, RefreshesKeeps, RefreshCannotStartKeeps,
             WokenKeeps DEF ContextStep
<1>3. ASSUME NEW t \in Requests, RelayStep(t) \/ Owner(t) \/ Write(t) PROVE ContextInductive'
  <2>1. CASE StartRelay(t)
    BY <2>1, StartRelayKeepsContext
  <2>2. CASE Finish(t) \/ ReadMore(t) \/ Interrupt(t) \/ Owner(t) \/ Write(t)
    <3>1. UNCHANGED contextVars
      BY <2>2 DEF Finish, ReadMore, Interrupt, Owner, Execute, Lose, Write
    <3> QED BY <1>1, <3>1
  <2> QED BY <1>3, <2>1, <2>2 DEF RelayStep
<1>4. ASSUME NEW j \in Jobs, RefreshStep(j) \/ Age(j) \/ Change(j) \/ Delete(j) PROVE ContextInductive'
  <2>1. j \in Actors
    BY DEF Actors
  <2> QED BY <1>4, <2>1, BaseStepKeeps, StoreContextKeeps, RefreshFailsKeeps, AgeKeeps, ChangeKeeps, DeleteKeeps DEF RefreshStep
<1>5. CASE UNCHANGED vars
  <2>1. UNCHANGED contextVars
    BY <1>5 DEF vars
  <2> QED BY <1>1, <2>1
<1>6. CASE Next
  BY <1>2, <1>3, <1>4, <1>6 DEF Next
<1> QED BY <1>5, <1>6

LEMMA ContextInvariant == Spec => []ContextInductive
BY ContextInit, ContextStepKeeps, PTL DEF Spec

\* JobContextProvider: the lookups, refreshes and requests of a Job, and its entries in
\* the caches, are what their types say, and no cache outgrows its bound or has a Job twice.
THEOREM ContextsAreTyped == Spec => []ContextTypeOK
<1>1. ASSUME NEW cache, IsCache(cache)
      PROVE  /\ Len(cache) <= MaxEntries /\ Range(cache) \subseteq Entries
             /\ \A i, k \in DOMAIN cache : cache[i].job = cache[k].job => i = k
  <2>1. cache \in Seq(Entries) /\ DOMAIN cache = 1..Len(cache)
    BY <1>1, LenProperties DEF IsCache
  <2>2. Range(cache) \subseteq Entries
    BY <2>1, ElementOfSeq DEF Range
  <2> QED BY <1>1, <2>2 DEF IsCache, OneEach
<1>2. ContextInductive => ContextTypeOK
  <2> SUFFICES ASSUME ContextInductive PROVE ContextTypeOK
    OBVIOUS
  <2>1. \A a \in Actors : Job(a) \in Jobs \cup {None} /\ actor[a].version \in 0..MaxVersion /\ actor[a].floor \in 0..MaxVersion
    BY ActorFacts DEF ActorState, Job
  <2>2. \A cache \in {base, context} :
          /\ Len(cache) <= MaxEntries /\ Range(cache) \subseteq Entries
          /\ \A i, k \in DOMAIN cache : cache[i].job = cache[k].job => i = k
    BY <1>1 DEF ContextInductive, ContextStateTyped
  <2> QED BY <2>1, <2>2 DEF ContextTypeOK, ContextInductive, ContextStateTyped
<1> QED BY <1>2, ContextInvariant, PTL

\* JobContextProvider: once the deletion of a Job was observed, nobody who asks is
\* answered from what was known of it.
THEOREM GoneJobsAreNotServed == Spec => []DeletedIsNotServed
<1>1. ContextInductive => DeletedIsNotServed
  <2> SUFFICES ASSUME ContextInductive PROVE DeletedIsNotServed
    OBVIOUS
  <2>1. \A j \in gone : ~Has(base, j)
    BY HasFacts DEF ContextInductive
  <2>2. \A t \in Requests : actor[t].late => actor[t].pc \in {"base", "lookup", "looked", "raised", "not_found", "unavailable"}
    BY ActorFacts DEF ActorHolds, Actors
  <2> QED BY <2>1, <2>2 DEF DeletedIsNotServed
<1> QED BY <1>1, ContextInvariant, PTL

\* JobContextProvider: whoever asks after an answer was given gets one that is at least
\* as new.
THEOREM AnswersGetNewer == Spec => []ContextNeverGoesBack
<1>1. ContextInductive => ContextNeverGoesBack
  <2> SUFFICES ASSUME ContextInductive, NEW t \in Requests, At(t, "answered") PROVE actor[t].version >= actor[t].floor
    BY DEF ContextNeverGoesBack
  <2> PICK v : v = actor[t].version
    OBVIOUS
  <2> PICK f : f = actor[t].floor
    OBVIOUS
  <2>1. v \in Nat /\ f \in Nat /\ f <= v
    BY ActorFacts, ContextAssumption DEF ActorState, ActorHolds, Actors, At
  <2> QED BY <2>1
<1> QED BY <1>1, ContextInvariant, PTL

-----------------------------------------------------------------------------
(* The relays *)

RelayState ==
  [pc : {"none", "sent", "received", "finished", "ended"}, cursor : 0..MaxText, delivered : Seq(Nat),
   part : 0..MaxText, done : BOOLEAN]
Claim == [state : {"none", "writing", "done", "cancelled"}, text : 0..MaxText]

\* What was told is the beginning of what the owner wrote, and all of it in the end.
Tells(r, c) ==
  /\ r.delivered = Piece(0, r.cursor) /\ r.cursor <= r.part /\ r.part <= c.text
  /\ r.pc = "received" /\ r.done => c.state = "done" /\ r.part = c.text
  /\ r.pc = "finished" => c.state = "done" /\ r.cursor = c.text

\* An unfinished relay has its cancellation on the way, or its answer has stopped.
Stops(r, c, cancelled) == r.pc = "ended" => cancelled \/ c.state \in {"done", "cancelled"}

RelayInductive ==
  /\ claim \in [Requests -> Claim]
  /\ command \subseteq [request : Requests, action : {"start", "read", "cancel"}]
  /\ relay \in [Requests -> RelayState]
  /\ spoiled \subseteq Requests
  /\ \A t \in Requests : Tells(relay[t], claim[t])
  /\ \A t \in Requests : t \notin spoiled => Stops(relay[t], claim[t], Sent(t, "cancel") \in command)

LEMMA PieceType ==
  ASSUME NEW from \in Nat, NEW to \in Nat, from <= to
  PROVE  Piece(from, to) \in Seq(Nat) /\ Len(Piece(from, to)) = to - from
<1> PICK n : n = to - from
  OBVIOUS
<1>1. n \in Nat
  OBVIOUS
<1>2. Piece(from, to) \in [1..n -> Nat]
  BY DEF Piece
<1>3. Piece(from, to) \in Seq(Nat)
  BY <1>1, <1>2, SeqDef
<1>4. DOMAIN Piece(from, to) = 1..n
  BY <1>2
<1> QED BY <1>1, <1>3, <1>4, LenProperties

LEMMA PieceOn ==
  ASSUME NEW from \in Nat, NEW to \in Nat, from <= to
  PROVE  Piece(0, from) \o Piece(from, to) = Piece(0, to)
<1>a. PICK a : a = Piece(0, from)
  OBVIOUS
<1>b. PICK b : b = Piece(from, to)
  OBVIOUS
<1>c. PICK c : c = Piece(0, to)
  OBVIOUS
<1>1. a \in Seq(Nat) /\ Len(a) = from /\ b \in Seq(Nat) /\ Len(b) = to - from /\ c \in Seq(Nat) /\ Len(c) = to
  <2>1. 0 \in Nat /\ 0 <= from /\ 0 <= to /\ from - 0 = from /\ to - 0 = to
    OBVIOUS
  <2>2. a \in Seq(Nat) /\ Len(a) = from - 0
    BY <1>a, <2>1, PieceType
  <2>3. b \in Seq(Nat) /\ Len(b) = to - from
    BY <1>b, PieceType
  <2>4. c \in Seq(Nat) /\ Len(c) = to - 0
    BY <1>c, <2>1, PieceType
  <2> QED BY <2>1, <2>2, <2>3, <2>4
<1>d. PICK w : w = a \o b
  OBVIOUS
<1>2. /\ w \in Seq(Nat) /\ Len(w) = to
      /\ \A i \in 1..to : i <= from => w[i] = a[i]
      /\ \A i \in 1..to : ~(i <= from) => w[i] = b[i - from]
  <2>1. a \in Seq(Nat) /\ b \in Seq(Nat)
    BY <1>1
  <2>2. /\ w \in Seq(Nat) /\ Len(w) = Len(a) + Len(b)
        /\ \A i \in 1..Len(a) + Len(b) : w[i] = IF i <= Len(a) THEN a[i] ELSE b[i - Len(a)]
    BY <1>d, <2>1, ConcatProperties
  <2>3. Len(a) = from /\ Len(a) + Len(b) = to
    BY <1>1
  <2> QED BY <2>2, <2>3
<1>3. ASSUME NEW i \in 1..to PROVE w[i] = c[i]
  <2>1. c[i] = i
    BY <1>c DEF Piece
  <2>2. CASE i <= from
    <3>1. a[i] = i
      BY <1>a, <2>2 DEF Piece
    <3> QED BY <1>2, <2>1, <2>2, <3>1
  <2>3. CASE ~(i <= from)
    <3>1. b[i - from] = i
      BY <1>b, <2>3 DEF Piece
    <3> QED BY <1>2, <2>1, <2>3, <3>1
  <2> QED BY <2>2, <2>3
<1>4. w = c
  BY <1>1, <1>2, <1>3, SeqEqual
<1> QED BY <1>a, <1>b, <1>c, <1>d, <1>4

LEMMA ReportedFacts ==
  ASSUME NEW r \in RelayState, NEW c \in Claim, Tells(r, c), NEW told, told = Reported(r)
  PROVE  /\ told \in RelayState /\ told.pc = r.pc /\ told.part = r.part /\ told.cursor = r.part
         /\ told.delivered = Piece(0, r.part)
<1> PICK from : from = r.cursor
  OBVIOUS
<1> PICK to : to = r.part
  OBVIOUS
<1> PICK delivered : delivered = r.delivered \o Piece(from, to)
  OBVIOUS
<1>1. from \in Nat /\ to \in Nat /\ from <= to /\ to \in 0..MaxText
  BY TextAssumption DEF RelayState, Tells
<1>2. delivered = Piece(0, to)
  BY <1>1, PieceOn DEF Tells
<1>3. delivered \in Seq(Nat)
  <2>1. 0 \in Nat /\ 0 <= to
    BY <1>1
  <2> QED BY <1>1, <1>2, <2>1, PieceType
<1>4. told = [r EXCEPT !.delivered = delivered, !.cursor = to]
  BY DEF Reported
<1>5. told \in RelayState
  BY <1>1, <1>3, <1>4 DEF RelayState
<1>6. told.pc = r.pc /\ told.part = r.part /\ told.cursor = r.part /\ told.delivered = delivered
  BY <1>4 DEF RelayState
<1> QED BY <1>2, <1>5, <1>6

\* One relay, its claim and its commands move.
LEMMA RelayMoves ==
  ASSUME RelayInductive, NEW t \in Requests, NEW r \in RelayState, NEW c \in Claim,
         relay' = [relay EXCEPT ![t] = r], claim' = [claim EXCEPT ![t] = c],
         command' \subseteq [request : Requests, action : {"start", "read", "cancel"}],
         \A u \in Requests \ {t} : Sent(u, "cancel") \in command => Sent(u, "cancel") \in command',
         spoiled' \subseteq Requests, spoiled \subseteq spoiled', Tells(r, c),
         t \notin spoiled' => Stops(r, c, Sent(t, "cancel") \in command')
  PROVE  RelayInductive'
<1>1. /\ claim' \in [Requests -> Claim] /\ relay' \in [Requests -> RelayState]
      /\ relay'[t] = r /\ claim'[t] = c /\ \A u \in Requests \ {t} : relay'[u] = relay[u] /\ claim'[u] = claim[u]
  BY DEF RelayInductive
<1>2. \A u \in Requests : Tells(relay'[u], claim'[u])
  BY <1>1 DEF RelayInductive
<1>3. ASSUME NEW u \in Requests, u \notin spoiled' PROVE Stops(relay'[u], claim'[u], Sent(u, "cancel") \in command')
  BY <1>1, <1>3 DEF RelayInductive, Stops
<1> QED BY <1>1, <1>2, <1>3 DEF RelayInductive

LEMMA EndedType ==
  ASSUME NEW r, r = [pc |-> "ended", cursor |-> 0, delivered |-> <<>>, part |-> 0, done |-> FALSE]
  PROVE  r \in RelayState /\ r.pc = "ended"
<1>1. 0 \in 0..MaxText /\ FALSE \in BOOLEAN /\ <<>> \in Seq(Nat)
  BY TextAssumption, EmptySeq
<1> QED BY <1>1 DEF RelayState

\* An unfinished relay ends: its cancellation is sent.
LEMMA AbandonMoves ==
  ASSUME RelayInductive, NEW t \in Requests, NEW commands, Abandon(t, commands), commands \subseteq command,
         \A u \in Requests \ {t} : Sent(u, "cancel") \in command => Sent(u, "cancel") \in commands,
         UNCHANGED claim, spoiled' \subseteq Requests, spoiled \subseteq spoiled'
  PROVE  RelayInductive'
<1> PICK c : c = claim[t]
  OBVIOUS
<1> PICK r : r = [NoRelay EXCEPT !.pc = "ended"]
  OBVIOUS
<1>1. c \in Claim /\ claim' = [claim EXCEPT ![t] = c]
  BY DEF RelayInductive
<1>2. r = [pc |-> "ended", cursor |-> 0, delivered |-> <<>>, part |-> 0, done |-> FALSE]
  BY DEF NoRelay
<1>3. r \in RelayState /\ r.pc = "ended"
  BY <1>2, EndedType
<1>4. Tells(r, c)
  <2>1. Piece(0, 0) = <<>>
    BY DEF Piece
  <2>2. 0 <= c.text
    BY <1>1, TextAssumption DEF Claim
  <2> QED BY <1>2, <2>1, <2>2 DEF Tells
<1>5. relay' = [relay EXCEPT ![t] = r] /\ command' = commands \cup {Sent(t, "cancel")}
  BY DEF Abandon
<1>6. command' \subseteq [request : Requests, action : {"start", "read", "cancel"}]
  BY <1>5 DEF RelayInductive, Sent
<1>7. Stops(r, c, Sent(t, "cancel") \in command')
  BY <1>5 DEF Stops
<1>8. \A u \in Requests \ {t} : Sent(u, "cancel") \in command => Sent(u, "cancel") \in command'
  BY <1>5
<1> QED BY <1>1, <1>3, <1>4, <1>5, <1>6, <1>7, <1>8, RelayMoves

LEMMA StartRelayKeeps ==
  ASSUME RelayInductive, NEW t \in Requests, StartRelay(t)
  PROVE  RelayInductive'
<1> PICK s : s = relay[t]
  OBVIOUS
<1> PICK c : c = claim[t]
  OBVIOUS
<1> PICK r : r = [s EXCEPT !.pc = "sent"]
  OBVIOUS
<1>1. s \in RelayState /\ c \in Claim /\ Tells(s, c) /\ claim' = [claim EXCEPT ![t] = c]
  BY DEF RelayInductive, StartRelay
<1>2. r \in RelayState /\ r.pc = "sent" /\ r.cursor = s.cursor /\ r.part = s.part /\ r.delivered = s.delivered
  BY <1>1 DEF RelayState
<1>3. Tells(r, c) /\ Stops(r, c, Sent(t, "cancel") \in command')
  BY <1>1, <1>2 DEF Tells, Stops
<1>4. relay' = [relay EXCEPT ![t] = r] /\ command' = command \cup {Sent(t, "start")} /\ UNCHANGED spoiled
  BY DEF StartRelay
<1>5. command' \subseteq [request : Requests, action : {"start", "read", "cancel"}] /\ spoiled \subseteq Requests
  BY <1>4 DEF RelayInductive, Sent
<1> QED BY <1>1, <1>2, <1>3, <1>4, <1>5, RelayMoves

LEMMA FinishKeeps ==
  ASSUME RelayInductive, NEW t \in Requests, Finish(t) \/ ReadMore(t)
  PROVE  RelayInductive'
<1> PICK s : s = relay[t]
  OBVIOUS
<1> PICK c : c = claim[t]
  OBVIOUS
<1> PICK told : told = Reported(s)
  OBVIOUS
<1>1. s \in RelayState /\ c \in Claim /\ Tells(s, c) /\ claim' = [claim EXCEPT ![t] = c]
  BY DEF RelayInductive, Finish, ReadMore
<1>2. /\ told \in RelayState /\ told.pc = s.pc /\ told.part = s.part /\ told.cursor = s.part
      /\ told.delivered = Piece(0, s.part)
  BY <1>1, ReportedFacts
<1>3. s.part <= c.text /\ s.part <= s.part
  BY <1>1 DEF Tells, RelayState
<1>4. UNCHANGED spoiled /\ spoiled \subseteq Requests
  BY DEF RelayInductive, Finish, ReadMore
<1>5. CASE Finish(t)
  <2> PICK r : r = [told EXCEPT !.pc = "finished"]
    OBVIOUS
  <2>1. /\ r \in RelayState /\ r.pc = "finished" /\ r.cursor = s.part /\ r.part = s.part /\ r.delivered = Piece(0, s.part)
    BY <1>2 DEF RelayState
  <2>2. c.state = "done" /\ s.part = c.text
    BY <1>1, <1>5 DEF Finish, Relaying, Tells
  <2>3. Tells(r, c) /\ Stops(r, c, Sent(t, "cancel") \in command')
    BY <1>3, <2>1, <2>2 DEF Tells, Stops
  <2>4. relay' = [relay EXCEPT ![t] = r] /\ UNCHANGED command
    BY <1>5 DEF Finish
  <2>5. command' \subseteq [request : Requests, action : {"start", "read", "cancel"}]
    BY <2>4 DEF RelayInductive
  <2> QED BY <1>1, <1>4, <2>1, <2>3, <2>4, <2>5, RelayMoves
<1>6. CASE ReadMore(t)
  <2> PICK r : r = [told EXCEPT !.pc = "sent"]
    OBVIOUS
  <2>1. r \in RelayState /\ r.pc = "sent" /\ r.cursor = s.part /\ r.part = s.part /\ r.delivered = Piece(0, s.part)
    BY <1>2 DEF RelayState
  <2>2. Tells(r, c) /\ Stops(r, c, Sent(t, "cancel") \in command')
    BY <1>3, <2>1 DEF Tells, Stops
  <2>3. relay' = [relay EXCEPT ![t] = r] /\ command' = command \cup {Sent(t, "read")}
    BY <1>6 DEF ReadMore
  <2>4. command' \subseteq [request : Requests, action : {"start", "read", "cancel"}]
    BY <2>3 DEF RelayInductive, Sent
  <2> QED BY <1>1, <1>4, <2>1, <2>2, <2>3, <2>4, RelayMoves
<1> QED BY <1>5, <1>6

LEMMA InterruptKeeps ==
  ASSUME RelayInductive, NEW t \in Requests, Interrupt(t)
  PROVE  RelayInductive'
<1>1. Abandon(t, command) /\ UNCHANGED <<claim, spoiled>> /\ spoiled \subseteq Requests
  BY DEF Interrupt, RelayInductive
<1> PICK commands : commands = command
  OBVIOUS
<1>2. Abandon(t, commands)
  BY <1>1 DEF Abandon
<1> QED BY <1>1, <1>2, AbandonMoves

LEMMA WriteKeeps ==
  ASSUME RelayInductive, NEW t \in Requests, Write(t)
  PROVE  RelayInductive'
<1> PICK s : s = relay[t]
  OBVIOUS
<1> PICK old : old = claim[t]
  OBVIOUS
<1> PICK c : c = IF old.text < MaxText THEN [old EXCEPT !.text = old.text + 1] ELSE [old EXCEPT !.state = "done"]
  OBVIOUS
<1>1. s \in RelayState /\ old \in Claim /\ Tells(s, old) /\ old.state = "writing"
  BY DEF RelayInductive, Write
<1>2. c \in Claim /\ old.text <= c.text
  <2> PICK n : n = old.text
    OBVIOUS
  <2>1. n \in 0..MaxText /\ MaxText \in Nat
    BY <1>1, TextAssumption DEF Claim
  <2>2. CASE n < MaxText
    <3>1. n + 1 \in 0..MaxText /\ n <= n + 1 /\ c = [old EXCEPT !.text = n + 1]
      BY <2>1, <2>2
    <3> QED BY <1>1, <3>1 DEF Claim
  <2>3. CASE ~(n < MaxText)
    <3>1. n <= n /\ c = [old EXCEPT !.state = "done"]
      BY <2>1, <2>3
    <3> QED BY <1>1, <3>1 DEF Claim
  <2> QED BY <2>2, <2>3
<1>3. Tells(s, c)
  <2>1. s.part \in Nat /\ old.text \in Nat /\ c.text \in Nat
    BY <1>1, <1>2, TextAssumption DEF RelayState, Claim
  <2>2. s.part <= c.text
    BY <1>1, <1>2, <2>1 DEF Tells
  <2> QED BY <1>1, <2>2 DEF Tells
<1>4. claim' = [claim EXCEPT ![t] = c] /\ UNCHANGED <<command, relay, spoiled>>
  BY DEF Write
<1>5. relay' = [relay EXCEPT ![t] = s] /\ spoiled \subseteq Requests
      /\ command \subseteq [request : Requests, action : {"start", "read", "cancel"}]
  BY <1>4 DEF RelayInductive
<1>6. t \notin spoiled => Stops(s, c, Sent(t, "cancel") \in command)
  BY <1>1 DEF RelayInductive, Stops
<1> QED BY <1>1, <1>2, <1>3, <1>4, <1>5, <1>6, RelayMoves

LEMMA LoseKeeps ==
  ASSUME RelayInductive, NEW t \in Requests, NEW action \in {"start", "read", "cancel"}, Lose(t, action)
  PROVE  RelayInductive'
<1> PICK commands : commands = command \ {Sent(t, action)}
  OBVIOUS
<1>1. /\ spoiled' = (IF action = "cancel" THEN spoiled \cup {t} ELSE spoiled) /\ UNCHANGED claim
      /\ spoiled' \subseteq Requests /\ spoiled \subseteq spoiled'
  BY DEF Lose, RelayInductive
<1>2. commands \subseteq command /\ \A u \in Requests \ {t} : Sent(u, "cancel") \in command => Sent(u, "cancel") \in commands
  BY DEF Sent
<1>3. CASE Relaying(t, "sent")
  <2>1. Abandon(t, commands)
    BY <1>3 DEF Lose, Abandon
  <2> QED BY <1>1, <1>2, <2>1, AbandonMoves
<1>4. CASE ~Relaying(t, "sent")
  <2> PICK r : r = relay[t]
    OBVIOUS
  <2> PICK c : c = claim[t]
    OBVIOUS
  <2>1. r \in RelayState /\ c \in Claim /\ Tells(r, c) /\ claim' = [claim EXCEPT ![t] = c]
    BY <1>1 DEF RelayInductive
  <2>2. command' = commands /\ relay' = [relay EXCEPT ![t] = r]
    BY <1>4 DEF Lose, RelayInductive
  <2>3. command' \subseteq [request : Requests, action : {"start", "read", "cancel"}]
    BY <1>2, <2>2 DEF RelayInductive
  <2>4. t \notin spoiled' => Stops(r, c, Sent(t, "cancel") \in command')
    <3>1. CASE action = "cancel"
      BY <1>1, <3>1
    <3>2. CASE action # "cancel"
      <4>1. Sent(t, "cancel") \in command => Sent(t, "cancel") \in command'
        BY <2>2, <3>2 DEF Sent
      <4> QED BY <1>1, <4>1 DEF RelayInductive, Stops
    <3> QED BY <3>1, <3>2
  <2> QED BY <1>1, <1>2, <2>1, <2>2, <2>3, <2>4, RelayMoves
<1> QED BY <1>3, <1>4

LEMMA ExecuteKeeps ==
  ASSUME RelayInductive, NEW t \in Requests, NEW action \in {"start", "read", "cancel"}, Execute(t, action)
  PROVE  RelayInductive'
<1> PICK s : s = relay[t]
  OBVIOUS
<1> PICK old : old = claim[t]
  OBVIOUS
<1> PICK state : state = CASE action = "start" /\ old.state = "none" -> "writing"
                           [] action = "cancel" /\ old.state = "writing" -> "cancelled"
                           [] OTHER -> old.state
  OBVIOUS
<1> PICK c : c = [old EXCEPT !.state = state]
  OBVIOUS
<1>1. s \in RelayState /\ old \in Claim /\ Tells(s, old)
  BY DEF RelayInductive
<1>2. /\ state \in {"none", "writing", "done", "cancelled"}
      /\ old.state = "done" => state = "done"
      /\ old.state = "cancelled" => state = "cancelled"
      /\ action = "cancel" /\ old.state # "none" => state \in {"done", "cancelled"}
  BY <1>1 DEF Claim
<1>3. c \in Claim /\ c.state = state /\ c.text = old.text
  BY <1>1, <1>2 DEF Claim
<1>4. claim' = [claim EXCEPT ![t] = c] /\ command' = command \ {Sent(t, action)}
  BY DEF Execute, RelayInductive
<1>5. PICK r \in RelayState : /\ relay' = [relay EXCEPT ![t] = r] /\ Tells(r, c)
                              /\ \/ r = s
                                 \/ r.pc = "received"
  <2>1. CASE Relaying(t, "sent")
    <3>1. PICK upto \in s.cursor..old.text :
            relay' = [relay EXCEPT ![t].pc = "received", ![t].part = upto, ![t].done = old.state = "done" /\ upto = old.text]
      BY <2>1 DEF Execute
    <3> PICK done \in BOOLEAN : done = (old.state = "done" /\ upto = old.text)
      OBVIOUS
    <3> PICK r : r = [s EXCEPT !.pc = "received", !.part = upto, !.done = done]
      OBVIOUS
    <3>2. upto \in 0..MaxText /\ s.cursor <= upto /\ upto <= old.text
      BY <1>1, TextAssumption DEF RelayState, Claim
    <3>3. /\ r \in RelayState /\ r.pc = "received" /\ r.part = upto /\ r.done = done
          /\ r.cursor = s.cursor /\ r.delivered = s.delivered
      BY <1>1, <3>2 DEF RelayState
    <3>4. relay' = [relay EXCEPT ![t] = r]
      BY <3>1 DEF RelayInductive
    <3>5. Tells(r, c)
      BY <1>1, <1>2, <1>3, <3>2, <3>3 DEF Tells
    <3> QED BY <3>3, <3>4, <3>5
  <2>2. CASE ~Relaying(t, "sent")
    <3>1. relay' = [relay EXCEPT ![t] = s]
      BY <2>2 DEF Execute, RelayInductive
    <3>2. Tells(s, c)
      BY <1>1, <1>2, <1>3 DEF Tells
    <3> QED BY <1>1, <3>1, <3>2
  <2> QED BY <2>1, <2>2
<1>6. /\ spoiled' = (IF action = "cancel" /\ old.state = "none" THEN spoiled \cup {t} ELSE spoiled)
      /\ spoiled' \subseteq Requests /\ spoiled \subseteq spoiled'
  BY DEF Execute, RelayInductive
<1>7. command' \subseteq [request : Requests, action : {"start", "read", "cancel"}]
  BY <1>4 DEF RelayInductive
<1>8. \A u \in Requests \ {t} : Sent(u, "cancel") \in command => Sent(u, "cancel") \in command'
  BY <1>4 DEF Sent
<1>9. t \notin spoiled' => Stops(r, c, Sent(t, "cancel") \in command')
  <2>1. CASE action = "cancel"
    BY <1>2, <1>3, <1>6, <2>1 DEF Stops
  <2>2. CASE action # "cancel"
    <3>1. Sent(t, "cancel") \in command => Sent(t, "cancel") \in command'
      BY <1>4, <2>2 DEF Sent
    <3>2. t \notin spoiled => Stops(s, old, Sent(t, "cancel") \in command)
      BY DEF RelayInductive
    <3> QED BY <1>2, <1>3, <1>5, <1>6, <3>1, <3>2 DEF Stops
  <2> QED BY <2>1, <2>2
<1> QED BY <1>3, <1>4, <1>5, <1>6, <1>7, <1>8, <1>9, RelayMoves

LEMMA RelayInit ==
  ASSUME RepliesInit
  PROVE  RelayInductive
<1> PICK r : r = NoRelay
  OBVIOUS
<1> PICK c : c = [state |-> "none", text |-> 0]
  OBVIOUS
<1>1. relay = [t \in Requests |-> r] /\ claim = [t \in Requests |-> c] /\ command = {} /\ spoiled = {}
  BY DEF RepliesInit
<1>2. r = [pc |-> "none", cursor |-> 0, delivered |-> <<>>, part |-> 0, done |-> FALSE]
  BY DEF NoRelay
<1>3. r \in RelayState /\ c \in Claim
  <2>1. 0 \in 0..MaxText /\ FALSE \in BOOLEAN /\ <<>> \in Seq(Nat)
    BY TextAssumption, EmptySeq
  <2> QED BY <1>2, <2>1 DEF RelayState, Claim
<1>4. Tells(r, c)
  <2>1. Piece(0, 0) = <<>>
    BY DEF Piece
  <2> QED BY <1>2, <2>1 DEF Tells
<1>5. Stops(r, c, FALSE)
  BY <1>2 DEF Stops
<1> QED BY <1>1, <1>3, <1>4, <1>2 DEF RelayInductive, Stops

LEMMA RelayStepKeeps ==
  ASSUME RelayInductive, [Next]_vars
  PROVE  RelayInductive'
<1>1. CASE UNCHANGED <<claim, command, relay, spoiled>>
  BY <1>1 DEF RelayInductive
<1>2. ASSUME NEW t \in Requests, RelayStep(t) \/ Owner(t) \/ Write(t) PROVE RelayInductive'
  BY <1>2, StartRelayKeeps, FinishKeeps, InterruptKeeps, WriteKeeps, LoseKeeps, ExecuteKeeps DEF RelayStep, Owner
<1> QED BY <1>1, <1>2 DEF Next, Kept, vars

LEMMA RelayInvariant == Spec => []RelayInductive
BY RelayInit, RelayStepKeeps, PTL DEF Spec

\* stream_job_reply: every piece of the answer is told once and in order, and the
\* completed answer after all of them.
THEOREM AnswersAreToldOnce == Spec => []ToldOnce
<1>1. ASSUME RelayInductive, NEW t \in Requests
      PROVE  /\ relay[t].delivered = Piece(0, Len(relay[t].delivered))
             /\ Relaying(t, "finished") => claim[t].state = "done" /\ Len(relay[t].delivered) = claim[t].text
  <2> PICK n : n = relay[t].cursor
    OBVIOUS
  <2>1. relay[t] \in RelayState /\ Tells(relay[t], claim[t])
    BY <1>1 DEF RelayInductive
  <2>2. n \in Nat /\ 0 \in Nat /\ 0 <= n /\ n - 0 = n /\ relay[t].delivered = Piece(0, n)
    BY <2>1, TextAssumption DEF RelayState, Tells
  <2>3. Len(Piece(0, n)) = n
    BY <2>2, PieceType
  <2> QED BY <2>1, <2>2, <2>3 DEF Tells, Relaying
<1>2. RelayInductive => ToldOnce
  BY <1>1 DEF ToldOnce
<1> QED BY <1>2, RelayInvariant, PTL

\* stream_job_reply: when a relay has ended unfinished and its commands have left
\* the network, the owner writes on only if the cancellation was lost or came first.
THEOREM NobodyIsWrittenFor == Spec => []NobodyWritesForNobody
<1>1. RelayInductive => NobodyWritesForNobody
  BY DEF RelayInductive, NobodyWritesForNobody, Stops, Relaying, Sent
<1> QED BY <1>1, RelayInvariant, PTL

\* Every variable of the MCP requests stays of its type; a relay has received no less
\* than it has told.
THEOREM RepliesAreTyped == Spec => []TypeOK
<1>1. ASSUME RelayInductive, NEW t \in Requests
      PROVE  relay[t].cursor \in 0..MaxText /\ relay[t].part \in relay[t].cursor..MaxText
  <2> PICK n : n = relay[t].cursor
    OBVIOUS
  <2> PICK p : p = relay[t].part
    OBVIOUS
  <2>1. n \in 0..MaxText /\ p \in 0..MaxText /\ n <= p
    BY <1>1 DEF RelayInductive, RelayState, Tells
  <2> QED BY <2>1, TextAssumption
<1>2. ContextTypeOK /\ RelayInductive => TypeOK
  BY <1>1 DEF TypeOK, RelayInductive, Claim
<1> QED BY <1>2, ContextsAreTyped, RelayInvariant, PTL

=============================================================================
