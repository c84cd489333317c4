----------------------------- MODULE VirusTotal -----------------------------
(***************************************************************************)
(* Hash lookups, sentinel/intel/virustotal_client.py: threads that share   *)
(* one client, its cache, its lock and its token bucket.                   *)
(*                                                                         *)
(* Time passes in ticks; every clock value is kept as what is left of it,  *)
(* and a thread may run later than it could.  A token is worth MinInterval *)
(* units and the bucket refills by one a tick (refill_rate is              *)
(* 1 / min_interval), so that the lazy update of acquire() and this one    *)
(* agree.  The network answers as it likes.                                *)
(***************************************************************************)
EXTENDS Integers, FiniteSets

CONSTANTS Callers, Hashes, NoCaller, NoHash,
          MinInterval, Capacity, Timeout, Offline,
          FirstBackoff, MaxBackoff, LeastBackoff, Jitter

ASSUME VirusTotalAssumption ==
  /\ {MinInterval, Capacity, Timeout, Offline} \subseteq Nat \ {0}
  /\ {FirstBackoff, LeastBackoff, Jitter} \subseteq Nat /\ MaxBackoff \in Nat \ {0}
  /\ 0 < FirstBackoff /\ FirstBackoff <= MaxBackoff
  /\ 0 < LeastBackoff /\ LeastBackoff <= MaxBackoff
  /\ NoCaller \notin Callers /\ NoHash \notin Hashes

VARIABLES enabled,        \* there is an API key
          cache,          \* hash_intel_cache
          lock,           \* _lock
          sinceLast,      \* ticks since _last_request, as far as they matter
          tokens,         \* of the bucket, in units
          backoff,        \* _backoff_seconds
          backoffLeft,    \* of _backoff_until
          offlineLeft,    \* of _offline_until
          caller          \* the threads

vtVars == <<enabled, cache, lock, sinceLast, tokens, backoff, backoffLeft, offlineLeft, caller>>
clientVars == <<enabled, cache, lock, sinceLast, tokens, backoff, backoffLeft, offlineLeft>>

Verdicts == {"clean", "malicious", "unknown"}

\* `left` is what is left of a sleep or of a deadline; `owed` is history: what was left
\* of the backoff when the thread looked, unless an answer ends it or a 429 replaces it.
Away == [at |-> "out", hash |-> NoHash, left |-> 0, owed |-> 0, verdict |-> "none"]

VtInit ==
  /\ enabled \in BOOLEAN
  /\ cache = [h \in Hashes |-> "none"]
  /\ lock = NoCaller /\ sinceLast = MinInterval
  /\ tokens = Capacity * MinInterval
  /\ backoff = 0 /\ backoffLeft = 0 /\ offlineLeft = 0
  /\ caller = [c \in Callers |-> Away]

At(c, place) == caller[c].at = place
Go(c, place) == caller' = [caller EXCEPT ![c].at = place]
GoFor(c, place, n) == caller' = [caller EXCEPT ![c].at = place, ![c].left = n]
Return(c) == caller' = [caller EXCEPT ![c] = Away]

Less(a, b) == IF a < b THEN a ELSE b
More(a, b) == IF a > b THEN a ELSE b
Down(n) == More(n - 1, 0)

-----------------------------------------------------------------------------
\* lookup, up to the rate limit; the name is normalised and is a SHA-256.
Lookup(c, h) ==
  /\ At(c, "out")
  /\ caller' = [caller EXCEPT ![c] =
                  IF cache[h] # "none" \/ ~enabled \/ offlineLeft > 0 THEN Away
                  ELSE [Away EXCEPT !.at = "backoff", !.hash = h]]
  /\ UNCHANGED clientVars

\* _wait_for_rate_limit looks at _backoff_until twice.
SeeBackoff(c) ==
  /\ At(c, "backoff")
  /\ caller' = [caller EXCEPT ![c].at = IF backoffLeft > 0 THEN "wait" ELSE "lock",
                              ![c].owed = backoffLeft]
  /\ UNCHANGED clientVars

WaitClipped(c) ==               \* mutant: it sleeps for as long as it may
  /\ At(c, "wait")
  /\ IF backoffLeft = 0 THEN Return(c) ELSE GoFor(c, "sleep", Less(backoffLeft, Timeout))
  /\ UNCHANGED clientVars

\* Another thread has set it to zero: the sleep has a negative length and raises.
Wait(c) ==
  /\ At(c, "wait")
  /\ IF backoffLeft = 0 \/ backoffLeft > Timeout THEN Return(c)
     ELSE GoFor(c, "sleep", backoffLeft)
  /\ UNCHANGED clientVars

Slept(c) ==
  /\ At(c, "sleep") /\ caller[c].left = 0
  /\ Go(c, "lock")
  /\ UNCHANGED clientVars

\* The spacing is slept with the lock held.
Lock(c) ==
  /\ At(c, "lock") /\ lock = NoCaller
  /\ lock' = c
  /\ GoFor(c, "space", MinInterval - sinceLast)
  /\ UNCHANGED <<enabled, cache, sinceLast, tokens, backoff, backoffLeft, offlineLeft>>

SpacedHolds(c) ==               \* mutant: the lock is kept
  /\ At(c, "space") /\ caller[c].left = 0
  /\ sinceLast' = 0
  /\ GoFor(c, "acquire", Timeout)
  /\ UNCHANGED <<enabled, cache, lock, tokens, backoff, backoffLeft, offlineLeft>>

Spaced(c) ==
  /\ At(c, "space") /\ caller[c].left = 0
  /\ lock' = NoCaller /\ sinceLast' = 0
  /\ GoFor(c, "acquire", Timeout)
  /\ UNCHANGED <<enabled, cache, tokens, backoff, backoffLeft, offlineLeft>>

-----------------------------------------------------------------------------
(* TokenBucket.acquire: a thread that may still wait sleeps and looks      *)
(* again.                                                                  *)

Acquire(c) ==
  /\ At(c, "acquire") /\ tokens >= MinInterval
  /\ tokens' = tokens - MinInterval
  /\ Go(c, "sent")
  /\ UNCHANGED <<enabled, cache, lock, sinceLast, backoff, backoffLeft, offlineLeft>>

NoToken(c) ==
  /\ At(c, "acquire") /\ tokens < MinInterval
  /\ MinInterval - tokens > caller[c].left
  /\ Return(c)
  /\ UNCHANGED clientVars

-----------------------------------------------------------------------------
(* The answer.                                                             *)

Unreachable(c) ==
  /\ At(c, "sent")
  /\ offlineLeft' = Offline
  /\ Return(c)
  /\ UNCHANGED <<enabled, cache, lock, sinceLast, tokens, backoff, backoffLeft>>

NotFound(c) ==
  /\ At(c, "sent")
  /\ caller' = [caller EXCEPT ![c].at = "store", ![c].verdict = "unknown"]
  /\ UNCHANGED clientVars

\* The seconds and the time are written one after the other, without the lock.
TooMany(c) ==
  /\ At(c, "sent")
  /\ backoff' = IF backoff = 0 THEN FirstBackoff ELSE Less(MaxBackoff, 2 * backoff)
  /\ Go(c, "until")
  /\ UNCHANGED <<enabled, cache, lock, sinceLast, tokens, backoffLeft, offlineLeft>>

\* By now another thread may have doubled the seconds once more, or cleared them.
BackOff(c) ==
  /\ At(c, "until")
  /\ \E j \in -Jitter..Jitter : backoffLeft' = More(LeastBackoff, backoff + j)
  /\ caller' = [d \in Callers |->
                  IF d = c THEN Away
                  ELSE [caller[d] EXCEPT !.owed = Less(@, backoffLeft')]]
  /\ UNCHANGED <<enabled, cache, lock, sinceLast, tokens, backoff, offlineLeft>>

HttpError(c) ==
  /\ At(c, "sent")
  /\ Return(c)
  /\ UNCHANGED clientVars

Ok(c) ==
  /\ At(c, "sent")
  /\ backoff' = 0
  /\ Go(c, "clear")
  /\ UNCHANGED <<enabled, cache, lock, sinceLast, tokens, backoffLeft, offlineLeft>>

\* The backoff that another thread has begun meanwhile is over as well.
Clear(c) ==
  /\ At(c, "clear")
  /\ backoffLeft' = 0
  /\ \E v \in Verdicts :
       caller' = [d \in Callers |->
                    IF d = c THEN [caller[c] EXCEPT !.at = "store", !.verdict = v]
                    ELSE [caller[d] EXCEPT !.owed = 0]]
  /\ UNCHANGED <<enabled, cache, lock, sinceLast, tokens, backoff, offlineLeft>>

Store(c) ==
  /\ At(c, "store")
  /\ cache' = [cache EXCEPT ![caller[c].hash] = caller[c].verdict]
  /\ Return(c)
  /\ UNCHANGED <<enabled, lock, sinceLast, tokens, backoff, backoffLeft, offlineLeft>>

StoreRaises(c) ==
  /\ At(c, "store")
  /\ Return(c)
  /\ UNCHANGED clientVars

-----------------------------------------------------------------------------
\* The two looks at _backoff_until are a moment apart.
VtTick ==
  /\ \A c \in Callers : ~At(c, "wait")
  /\ sinceLast' = Less(sinceLast + 1, MinInterval)
  /\ tokens' = Less(tokens + 1, Capacity * MinInterval)
  /\ backoffLeft' = Down(backoffLeft) /\ offlineLeft' = Down(offlineLeft)
  /\ caller' = [c \in Callers |->
                  [caller[c] EXCEPT !.left = Down(@), !.owed = Down(@)]]
  /\ UNCHANGED <<enabled, cache, lock, backoff>>

VtStep(c) ==
  \/ SeeBackoff(c) \/ Wait(c) \/ Slept(c) \/ Lock(c) \/ Spaced(c)
  \/ Acquire(c) \/ NoToken(c)
  \/ Unreachable(c) \/ NotFound(c) \/ TooMany(c) \/ BackOff(c) \/ HttpError(c)
  \/ Ok(c) \/ Clear(c)
  \/ Store(c) \/ StoreRaises(c)

VtNext ==
  \/ \E c \in Callers : VtStep(c) \/ \E h \in Hashes : Lookup(c, h)
  \/ VtTick

VtSpec == VtInit /\ [][VtNext]_vtVars

-----------------------------------------------------------------------------
(* Properties.                                                             *)

VtOK ==
  /\ enabled \in BOOLEAN /\ cache \in [Hashes -> Verdicts \cup {"none"}]
  /\ lock \in Callers \cup {NoCaller}
  /\ sinceLast \in 0..MinInterval /\ tokens \in 0..(Capacity * MinInterval)
  /\ backoff \in 0..MaxBackoff /\ backoffLeft \in 0..(MaxBackoff + Jitter)
  /\ offlineLeft \in 0..Offline
  /\ \A c \in Callers : lock = c <=> At(c, "space")

\* A lookup that finds the service backing off is not sent before that backoff is over,
\* or the service has answered another one or set a new one: it sleeps it out, gives up,
\* or raises.
BackoffSleptOut == \A c \in Callers : At(c, "sent") => caller[c].owed = 0

\* virustotal_client.py:4-6, "cache in events.db so the same hash is never looked up
\* twice": no thread asks for a hash while another has its answer.
NeverTwice ==
  \A c, d \in Callers :
    At(c, "store") /\ At(d, "sent") /\ c # d => caller[c].hash # caller[d].hash
=============================================================================
