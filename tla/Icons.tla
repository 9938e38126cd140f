------------------------------- MODULE Icons --------------------------------
(***************************************************************************)
(* The icon proxy of the sync server, behind the limiter that every        *)
(* request without a signature goes through.                               *)
(*                                                                         *)
(* Requests are served at the same time.  Each reads the clock before it   *)
(* takes the limiter's lock, looks for a file, waits for the network,      *)
(* writes a file, and then brings the directory back under its ceilings    *)
(* file by file, from a listing that other requests make stale.  One unit  *)
(* of time is one window of the limiter.                                   *)
(***************************************************************************)
EXTENDS Naturals, FiniteSets

CONSTANTS
  Address,             \* callers, as the proxies in front restored them
  Domain,
  NotADomain,          \* anything that normalise refuses
  Serving,             \* the bound on requests served at once
  PerWindow,           \* UNSIGNED_PER_MINUTE
  MaxTracked, MaxAge, MissAge, MaxCacheBytes, MaxCacheEntries,
  LastWindow, MaxRequests, MaxSpoiled   \* bounds of the instance

ASSUME LimitAssumption ==
  /\ {PerWindow, MaxTracked, MaxCacheBytes, MaxCacheEntries} \subseteq Nat \ {0}
  /\ {MaxAge, MissAge, LastWindow, MaxRequests, MaxSpoiled} \subseteq Nat
  /\ NotADomain \notin Domain
  /\ IsFiniteSet(Serving)

VARIABLES
  window,     \* the time, in windows
  limiter,    \* the window it counts, and the hits of each address; 0: not tracked
  file,       \* the entries of the cache: when written, plus one (0: no file), and size
  serving,    \* the requests being served
  let,        \* history: how many requests of each window were let through, by address
  late,       \* history: requests that reached a limiter already in a later window
  spoiled,    \* history: requests that left a file and could not fill it, or not list the cache
  kept,       \* history: files that a listing passed over, or that could not be removed since
  requests    \* how many have come in

iconVars == <<window, limiter, file, serving, let, late, spoiled, kept, requests>>

Path == Domain \X {"ico", "none"}
Missing == [written |-> 0, size |-> 0]
Files == {p \in Path : file[p].written > 0}
Free == [at |-> "free"]
Where(h, step) == serving[h].at = step

InitIcons ==
  /\ window = 0
  /\ limiter = [window |-> 0, hits |-> [a \in Address |-> 0]]
  /\ file = [p \in Path |-> Missing]
  /\ serving = [h \in Serving |-> Free]
  /\ let = [a \in Address |-> [w \in 0..LastWindow |-> 0]]
  /\ late = 0 /\ spoiled = 0 /\ kept = {} /\ requests = 0

-----------------------------------------------------------------------------
(* The limiter *)

Ask == \E h \in Serving, a \in Address, d \in Domain \cup {NotADomain} :
  /\ Where(h, "free") /\ requests < MaxRequests
  /\ serving' = [serving EXCEPT ![h] =
       [at |-> "limit", address |-> a, domain |-> d, now |-> window]]
  /\ requests' = requests + 1
  /\ UNCHANGED <<window, limiter, file, let, late, spoiled, kept>>

Tracked(hits) == {a \in Address : hits[a] > 0}

(* Mutation of Allow: a hit sets the count and adds nothing to it.          *)
AllowUncounted(a, now) ==
  LET hits == IF now = limiter.window THEN limiter.hits ELSE [b \in Address |-> 0]
  IN  [allowed |-> hits[a] <= PerWindow,
       next |-> [window |-> now, hits |-> [hits EXCEPT ![a] = 1]]]

(* RateLimiter::allow: one window's hits at a time.  A count past the       *)
(* budget is as good as any other.                                          *)
Allow(a, now) ==
  LET hits  == IF now = limiter.window THEN limiter.hits ELSE [b \in Address |-> 0]
      known == hits[a] > 0
      full  == ~known /\ Cardinality(Tracked(hits)) >= MaxTracked
      count == IF hits[a] > PerWindow THEN hits[a] ELSE hits[a] + 1
  IN  [allowed |-> ~full /\ count <= PerWindow,
       next |-> [window |-> now,
                 hits |-> IF full THEN hits ELSE [hits EXCEPT ![a] = count]]]

Limit(h) == LET r == serving[h]
                verdict == Allow(r.address, r.now) IN
  /\ Where(h, "limit")
  /\ limiter' = verdict.next
  /\ late' = IF r.now < limiter.window THEN late + 1 ELSE late
  /\ let' = IF verdict.allowed THEN [let EXCEPT ![r.address][r.now] = @ + 1] ELSE let
  /\ serving' = [serving EXCEPT ![h] =
       IF verdict.allowed /\ r.domain # NotADomain
         THEN [at |-> "look", domain |-> r.domain] ELSE Free]
  /\ UNCHANGED <<window, file, spoiled, kept, requests>>

-----------------------------------------------------------------------------
(* One icon *)

Fresh(p, age) == file[p].written > 0 /\ window + 1 - file[p].written <= age

Look(h) ==
  /\ Where(h, "look")
  /\ LET d == serving[h].domain IN
     serving' = [serving EXCEPT ![h] =
       IF Fresh(<<d, "ico">>, MaxAge) \/ Fresh(<<d, "none">>, MissAge)
         THEN Free ELSE [at |-> "fetch", domain |-> d]]
  /\ UNCHANGED <<window, limiter, file, let, late, spoiled, kept, requests>>

(* Either attempt may fail in any of the ways that go on to the next one.   *)
Fetch(h) == \E found \in BOOLEAN :
  /\ Where(h, "fetch")
  /\ serving' = [serving EXCEPT ![h] =
       [at |-> "create", path |-> <<serving[h].domain, IF found THEN "ico" ELSE "none">>]]
  /\ UNCHANGED <<window, limiter, file, let, late, spoiled, kept, requests>>

Size(p) == IF p[2] = "ico" THEN 1 ELSE 0

(* std::fs::write makes the file, or empties it, and then fills it.         *)
Create(h) == LET p == serving[h].path IN
  /\ Where(h, "create")
  /\ \/ /\ file' = [file EXCEPT ![p] = [written |-> window + 1, size |-> 0]]
        /\ serving' = [serving EXCEPT ![h] = [at |-> "fill", path |-> p]]
     \/ UNCHANGED file /\ serving' = [serving EXCEPT ![h] = Free]
  /\ UNCHANGED <<window, limiter, let, late, spoiled, kept, requests>>

(* What could not be filled, or in part only, stays, and nothing is swept   *)
(* for it.  A file that was swept in between is written without having a    *)
(* name; if another request has made it again, the two are taken for one.   *)
Filled(p, size) == [file EXCEPT ![p] = IF @.written = 0 THEN @
                      ELSE [written |-> window + 1, size |-> size]]

Fill(h) == LET p == serving[h].path IN
  /\ Where(h, "fill")
  /\ \/ /\ file' = Filled(p, Size(p))
        /\ serving' = [serving EXCEPT ![h] = [at |-> "list"]]
        /\ UNCHANGED spoiled
     \/ /\ spoiled < MaxSpoiled
        /\ spoiled' = spoiled + 1
        /\ serving' = [serving EXCEPT ![h] = Free]
        /\ \E size \in 0..Size(p) : file' = Filled(p, size)
  /\ UNCHANGED <<window, limiter, let, late, kept, requests>>

-----------------------------------------------------------------------------
(* The sweep *)

Bytes(paths) == Cardinality({p \in paths : file[p].size > 0})
Within(bytes, entries) == bytes <= MaxCacheBytes /\ entries <= MaxCacheEntries

Listed(paths) ==
  IF Within(Bytes(paths), Cardinality(paths)) THEN Free
  ELSE [at |-> "sweep", ours |-> [p \in paths |-> file[p]],
        total |-> Bytes(paths), count |-> Cardinality(paths)]

(* Mutation of List: the misses remembered are not counted.                 *)
ListOfIcons(h) ==
  /\ Where(h, "list")
  /\ serving' = [serving EXCEPT ![h] = Listed({p \in Files : p[2] = "ico"})]
  /\ UNCHANGED <<window, limiter, file, let, late, spoiled, kept, requests>>

(* An entry whose metadata cannot be read is passed over, and a directory   *)
(* that cannot be read is not swept at all.                                 *)
List(h) ==
  /\ Where(h, "list")
  /\ \/ \E paths \in SUBSET Files :
          /\ serving' = [serving EXCEPT ![h] = Listed(paths)]
          /\ kept' = kept \cup (Files \ paths)
          /\ UNCHANGED spoiled
     \/ /\ spoiled < MaxSpoiled
        /\ spoiled' = spoiled + 1
        /\ serving' = [serving EXCEPT ![h] = Free]
        /\ UNCHANGED kept
  /\ UNCHANGED <<window, limiter, file, let, late, requests>>

(* The next oldest of the listing.  One that is gone, or that cannot be     *)
(* removed, is not counted as room made, and is not tried again; one        *)
(* written again since is removed as well.                                  *)
Sweep(h) == LET s == serving[h] IN
  /\ Where(h, "sweep")
  /\ \E p \in DOMAIN s.ours, removed \in BOOLEAN :
       LET rest  == [q \in DOMAIN s.ours \ {p} |-> s.ours[q]]
           total == IF removed THEN s.total - s.ours[p].size ELSE s.total
           count == IF removed THEN s.count - 1 ELSE s.count
       IN  /\ \A q \in DOMAIN rest : s.ours[p].written <= s.ours[q].written
           /\ removed => p \in Files
           /\ file' = IF removed THEN [file EXCEPT ![p] = Missing] ELSE file
           /\ kept' = IF removed THEN kept \ {p} ELSE kept \cup ({p} \cap Files)
           /\ serving' = [serving EXCEPT ![h] =
                IF Within(total, count) \/ DOMAIN rest = {} THEN Free
                ELSE [at |-> "sweep", ours |-> rest, total |-> total, count |-> count]]
  /\ UNCHANGED <<window, limiter, let, late, spoiled, requests>>

Serve(h) == \/ Limit(h) \/ Look(h) \/ Fetch(h) \/ Create(h) \/ Fill(h)
            \/ List(h) \/ Sweep(h)

NextWindow ==
  /\ window < LastWindow
  /\ window' = window + 1
  /\ UNCHANGED <<limiter, file, serving, let, late, spoiled, kept, requests>>

NextIcons == Ask \/ NextWindow \/ \E h \in Serving : Serve(h)

SpecIcons == InitIcons /\ [][NextIcons]_iconVars

-----------------------------------------------------------------------------
(* Apart from the files that a listing passed over or that could not be     *)
(* removed, the cache holds no more than its ceilings and what was written  *)
(* by requests that have not swept yet, could not fill their file or could  *)
(* not list the directory (icons.rs:176): sweeps that run over each other,  *)
(* from listings of different ages, leave nothing else behind.              *)
CacheBounded ==
  LET writing == Cardinality({h \in Serving : serving[h].at \in {"fill", "list", "sweep"}})
  IN  /\ Cardinality(Files \ kept) <= MaxCacheEntries + writing + spoiled
      /\ Bytes(Path \ kept) <= MaxCacheBytes + writing + spoiled

(* A window lets each address through as often as its budget says, once     *)
(* more for each request that came to the lock late and took the limiter    *)
(* back with it (api.rs:96, "expiring the lot is a single clear").          *)
BudgetPerWindow ==
  \A a \in Address, w \in 0..LastWindow : let[a][w] <= PerWindow * (1 + late)
=============================================================================
