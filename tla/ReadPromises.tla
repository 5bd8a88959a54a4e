---------------------------- MODULE ReadPromises -----------------------------
(***************************************************************************)
(* What fileutil/caching_file_reader.go promises whoever calls ReadFile,   *)
(* over the part of the state that the promises are about.                 *)
(* CachingFileReader extends it.                                           *)
(***************************************************************************)
EXTENDS Integers

CONSTANTS
  Reader,            \* goroutines that call ReadFile
  Ttl,
  MaxReadTime        \* longest os.ReadFile, up to the clock being read again

VARIABLES
  endedAt,           \* history: version -> when it was last on disk
  reader             \* Reader -> where its ReadFile is, with its locals

(* ttl "is the time-to-live duration when cached file is considered stale" *)
(* (line 18): what ReadFile answers was on disk less than ttl ago, plus    *)
(* the time the read behind it took, as the expiry counts from its end.    *)
BoundedStaleness ==
  \A r \in Reader : reader[r].pc = "return" /\ reader[r].buf \in DOMAIN endedAt =>
    reader[r].readAt - endedAt[reader[r].buf] < Ttl + MaxReadTime

(* Callers never see the file go back: a ReadFile that begins after        *)
(* another has returned does not answer an older version, although the     *)
(* slow paths queue at the lock in any order.                              *)
MonotonicReads ==
  \A r \in Reader : reader[r].pc = "return" => reader[r].buf >= reader[r].floor
=============================================================================
