-------------------------- MODULE CachingFileReader --------------------------
(***************************************************************************)
(* fileutil/caching_file_reader.go: a file cached for ttl, read by         *)
(* concurrent callers of ReadFile while somebody else rewrites it.  The    *)
(* file is its version number; a version lasts from the write that made it *)
(* to the next write.                                                      *)
(***************************************************************************)
EXTENDS Integers, ReadPromises

CONSTANTS
  MaxTime,           \* bound: the clock stops here
  MaxVersion         \* bound: rewrites of the file

Missing == -1        \* os.ReadFile fails
Free == "free"

VARIABLES
  clock,
  disk,              \* the version on disk, or Missing
  latest,            \* the newest version ever written
  cache,             \* buf and expiry; the zero cachedFile at first
  lock,              \* holder of the write lock
  delivered          \* history: the newest version a finished ReadFile returned

vars == <<clock, disk, latest, endedAt, cache, lock, reader, delivered>>

Idle == [pc |-> "idle", buf |-> Missing, readAt |-> 0, floor |-> Missing]

Init ==
  /\ clock = 1 /\ disk = 0 /\ latest = 0
  /\ endedAt = << >>
  /\ cache = [buf |-> Missing, expiry |-> 0]
  /\ lock = Free
  /\ reader = [r \in Reader |-> Idle]
  /\ delivered = Missing

-----------------------------------------------------------------------------
(* A mutant: fresh for one instant too long.                               *)
FastPathTooLong(r) ==
  /\ reader[r].pc = "idle" /\ lock = Free
  /\ cache.buf # Missing /\ clock <= cache.expiry
  /\ reader' = [reader EXCEPT ![r] = [pc |-> "return", buf |-> cache.buf, readAt |-> clock,
                                      floor |-> delivered]]
  /\ UNCHANGED <<clock, disk, latest, endedAt, cache, lock, delivered>>

(* Under the read lock: the clock and a copy of cache.  A fresh copy is    *)
(* the answer.  (floor is history: what had been delivered by then.)       *)
FastPath(r) ==
  /\ reader[r].pc = "idle" /\ lock = Free
  /\ clock < cache.expiry
  /\ reader' = [reader EXCEPT ![r] = [pc |-> "return", buf |-> cache.buf, readAt |-> clock,
                                      floor |-> delivered]]
  /\ UNCHANGED <<clock, disk, latest, endedAt, cache, lock, delivered>>

Stale(r) ==
  /\ reader[r].pc = "idle" /\ lock = Free
  /\ ~ (clock < cache.expiry)
  /\ reader' = [reader EXCEPT ![r] = [Idle EXCEPT !.pc = "lock", !.floor = delivered]]
  /\ UNCHANGED <<clock, disk, latest, endedAt, cache, lock, delivered>>

(* A mutant: no write lock is taken.                                       *)
TakeNoLock(r) ==
  /\ reader[r].pc = "lock"
  /\ reader' = [reader EXCEPT ![r].pc = "read"]
  /\ UNCHANGED <<clock, disk, latest, endedAt, cache, lock, delivered>>

(* Slow path: the write lock, without a second look at the cache, ...      *)
TakeLock(r) ==
  /\ reader[r].pc = "lock" /\ lock = Free
  /\ lock' = r
  /\ reader' = [reader EXCEPT ![r].pc = "read"]
  /\ UNCHANGED <<clock, disk, latest, endedAt, cache, delivered>>

(* A mutant: the error path forgets to unlock.                             *)
ReadDiskKeepsLock(r) ==
  /\ reader[r].pc = "read"
  /\ reader' = IF disk = Missing THEN [reader EXCEPT ![r] = Idle]
               ELSE [reader EXCEPT ![r].pc = "store", ![r].buf = disk, ![r].readAt = clock]
  /\ UNCHANGED <<clock, disk, latest, endedAt, cache, lock, delivered>>

(* ... os.ReadFile, whose error is returned with the cache as it was, ...  *)
ReadDisk(r) ==
  /\ reader[r].pc = "read"
  /\ IF disk = Missing
     THEN lock' = Free /\ reader' = [reader EXCEPT ![r] = Idle]
     ELSE /\ reader' = [reader EXCEPT ![r].pc = "store", ![r].buf = disk, ![r].readAt = clock]
          /\ UNCHANGED lock
  /\ UNCHANGED <<clock, disk, latest, endedAt, cache, delivered>>

(* ... and the new cache, fresh for ttl from now on.                       *)
StoreCache(r) ==
  /\ reader[r].pc = "store"
  /\ cache' = [buf |-> reader[r].buf, expiry |-> clock + Ttl]
  /\ lock' = Free
  /\ reader' = [reader EXCEPT ![r].pc = "return"]
  /\ UNCHANGED <<clock, disk, latest, endedAt, delivered>>

Return(r) ==
  /\ reader[r].pc = "return"
  /\ delivered' = IF reader[r].buf > delivered THEN reader[r].buf ELSE delivered
  /\ reader' = [reader EXCEPT ![r] = Idle]
  /\ UNCHANGED <<clock, disk, latest, endedAt, cache, lock>>

-----------------------------------------------------------------------------
Ended(v) == [x \in DOMAIN endedAt \cup ({v} \ {Missing}) |-> IF x = v THEN clock ELSE endedAt[x]]

Rewrite ==
  /\ latest < MaxVersion
  /\ latest' = latest + 1 /\ disk' = latest + 1
  /\ endedAt' = Ended(disk)
  /\ UNCHANGED <<clock, cache, lock, reader, delivered>>

Remove ==
  /\ disk # Missing
  /\ disk' = Missing
  /\ endedAt' = Ended(disk)
  /\ UNCHANGED <<clock, latest, cache, lock, reader, delivered>>

Tick ==
  /\ clock < MaxTime
  /\ \A r \in Reader : reader[r].pc = "store" => clock - reader[r].readAt < MaxReadTime
  /\ clock' = clock + 1
  /\ UNCHANGED <<disk, latest, endedAt, cache, lock, reader, delivered>>

Step(r) ==
  FastPath(r) \/ Stale(r) \/ TakeLock(r) \/ ReadDisk(r) \/ StoreCache(r) \/ Return(r)

Next == (\E r \in Reader : Step(r)) \/ Rewrite \/ Remove \/ Tick

Spec == Init /\ [][Next]_vars

-----------------------------------------------------------------------------
(* Types; whoever is between Lock and Unlock holds the lock.               *)
TypeOK ==
  /\ clock \in 1..MaxTime /\ latest \in 0..MaxVersion /\ disk \in {Missing, latest}
  /\ \A v \in DOMAIN endedAt : v \in 0..latest /\ endedAt[v] <= clock
  /\ cache.buf \in Missing..latest /\ cache.expiry \in 0..(MaxTime + Ttl)
  /\ lock \in Reader \cup {Free}
  /\ \A r \in Reader :
       /\ reader[r].pc \in {"idle", "return", "lock", "read", "store"}
       /\ lock = r <=> reader[r].pc \in {"read", "store"}
=============================================================================
