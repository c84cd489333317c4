----------------------------- MODULE PartsProofs -----------------------------
(***************************************************************************)
(* Proofs about the parts that share nothing with each other: the          *)
(* VirusTotal client, the notifier, the memory scanner, the sandbox, the   *)
(* emulator, the heuristics for bursts, for the processor and for beacons, *)
(* the on-demand scanner with its page, the other pages of the dashboard,  *)
(* the rules and the sensors.  For each of them: the types of its state    *)
(* and the inductive invariant, a lemma for the operations that it keeps   *)
(* it, and the theorems that follow; and at the end all parts together.    *)
(***************************************************************************)
EXTENDS MCParts, Sums, SequenceTheorems, FiniteSetTheorems, TLAPS

-----------------------------------------------------------------------------
(* VirusTotal.  What makes BackoffSleptOut inductive: a caller that waits   *)
(* owes no more than what is left of the backoff, and one that sleeps no    *)
(* more than what is left of its sleep; all others owe nothing.             *)

CallerStates ==
  [at : {"out", "backoff", "wait", "sleep", "lock", "space", "acquire", "sent", "until", "clear",
         "store"},
   hash : Hashes \cup {NoHash}, left : Nat, owed : Nat, verdict : Verdicts \cup {"none"}]

\* What a caller in state r owes, when so much is left of the backoff.
Owes(r, remaining) ==
  \/ r.at = "wait" /\ r.owed <= remaining
  \/ r.at = "sleep" /\ r.owed <= r.left
  \/ r.at \notin {"wait", "sleep"} /\ r.owed = 0

VtShared ==
  /\ enabled \in BOOLEAN /\ cache \in [Hashes -> Verdicts \cup {"none"}]
  /\ sinceLast \in 0..MinInterval /\ tokens \in 0..(Capacity * MinInterval)
  /\ backoff \in 0..MaxBackoff /\ backoffLeft \in 0..(MaxBackoff + Jitter)
  /\ offlineLeft \in 0..Offline

VtLock ==
  /\ lock \in Callers \cup {NoCaller}
  /\ \A c \in Callers : lock = c <=> At(c, "space")

VtCallers == caller \in [Callers -> CallerStates]

VtOwing == \A c \in Callers : Owes(caller[c], backoffLeft)

VtInv == VtShared /\ VtLock /\ VtCallers /\ VtOwing

\* The numbers of the client, with their order.
LEMMA VtNumbers ==
  /\ MinInterval \in Nat /\ Timeout \in Nat /\ Offline \in Nat /\ Capacity * MinInterval \in Nat
  /\ MinInterval # 0 /\ MaxBackoff \in Nat /\ FirstBackoff \in Nat /\ LeastBackoff \in Nat
  /\ Jitter \in Nat /\ FirstBackoff <= MaxBackoff /\ LeastBackoff <= MaxBackoff
<1>1. \A m, n \in Nat : m * n \in Nat
  OBVIOUS
<1> QED BY <1>1, VirusTotalAssumption

LEMMA AwayIsState == Away \in CallerStates /\ \A n : Owes(Away, n)
BY DEF Away, CallerStates, Owes

\* A step of one caller that is not the holder of the lock before or after it.
LEMMA VtMoves ==
  ASSUME VtInv, NEW c \in Callers, NEW r \in CallerStates, caller' = [caller EXCEPT ![c] = r],
         ~At(c, "space"), r.at # "space", lock' = lock, Owes(r, backoffLeft),
         backoffLeft' = backoffLeft
  PROVE  VtLock' /\ VtCallers' /\ VtOwing'
<1>1. /\ caller' \in [Callers -> CallerStates] /\ caller'[c] = r
      /\ \A d \in Callers \ {c} : caller'[d] = caller[d]
  BY DEF VtInv, VtCallers
<1>2. VtLock'
  BY <1>1 DEF VtInv, VtLock, At
<1>3. VtOwing'
  BY <1>1 DEF VtInv, VtOwing
<1> QED BY <1>1, <1>2, <1>3 DEF VtCallers

LEMMA VtLockTaken ==
  ASSUME VtInv, NEW c \in Callers, Lock(c)
  PROVE  VtInv'
<1> DEFINE r == [caller[c] EXCEPT !.at = "space", !.left = MinInterval - sinceLast]
<1>1. caller[c] \in CallerStates /\ caller[c].at = "lock" /\ caller[c].owed = 0
  BY DEF VtInv, VtCallers, VtOwing, Owes, Lock, At
<1>2. MinInterval - sinceLast \in Nat
  BY VtNumbers DEF VtInv, VtShared
<1>3. r \in CallerStates /\ r.at = "space" /\ r.owed = 0
  BY <1>1, <1>2 DEF CallerStates
<1>4. caller' = [caller EXCEPT ![c] = r]
  BY DEF Lock, GoFor
<1> HIDE DEF r
<1>5. /\ caller' \in [Callers -> CallerStates] /\ caller'[c] = r
      /\ \A d \in Callers \ {c} : caller'[d] = caller[d]
  BY <1>3, <1>4 DEF VtInv, VtCallers
<1>6. lock = NoCaller /\ lock' = c /\ NoCaller \notin Callers
  BY VirusTotalAssumption DEF Lock
<1>7. VtLock'
  BY <1>3, <1>5, <1>6 DEF VtInv, VtLock, At
<1>8. VtOwing' /\ VtShared'
  BY <1>3, <1>5 DEF VtInv, VtOwing, VtShared, Owes, Lock
<1> QED BY <1>5, <1>7, <1>8 DEF VtInv, VtCallers

LEMMA VtLockFreed ==
  ASSUME VtInv, NEW c \in Callers, Spaced(c)
  PROVE  VtInv'
<1> DEFINE r == [caller[c] EXCEPT !.at = "acquire", !.left = Timeout]
<1>1. caller[c] \in CallerStates /\ caller[c].at = "space" /\ caller[c].owed = 0
  BY DEF VtInv, VtCallers, VtOwing, Owes, Spaced, At
<1>2. r \in CallerStates /\ r.at = "acquire" /\ r.owed = 0
  BY <1>1, VtNumbers DEF CallerStates
<1>3. caller' = [caller EXCEPT ![c] = r]
  BY DEF Spaced, GoFor
<1> HIDE DEF r
<1>4. /\ caller' \in [Callers -> CallerStates] /\ caller'[c] = r
      /\ \A d \in Callers \ {c} : caller'[d] = caller[d]
  BY <1>2, <1>3 DEF VtInv, VtCallers
<1>5. lock = c /\ lock' = NoCaller /\ NoCaller \notin Callers
  BY VirusTotalAssumption DEF Spaced, VtInv, VtLock
<1>6. VtLock'
  BY <1>2, <1>4, <1>5 DEF VtInv, VtLock, At
<1>7. VtOwing' /\ VtShared'
  BY <1>2, <1>4, VtNumbers DEF VtInv, VtOwing, VtShared, Owes, Spaced
<1> QED BY <1>4, <1>6, <1>7 DEF VtInv, VtCallers

\* The answers that concern the other callers too: each keeps its place.
LEMMA VtAnswered ==
  ASSUME VtInv, VtShared', NEW c \in Callers, NEW r \in CallerStates, NEW owed,
         caller' = [d \in Callers |-> IF d = c THEN r ELSE [caller[d] EXCEPT !.owed = owed[d]]],
         At(c, "until") \/ At(c, "clear"), r.at \in {"out", "store"}, r.owed = 0, lock' = lock,
         \A d \in Callers : /\ owed[d] \in Nat /\ owed[d] <= caller[d].owed
                            /\ owed[d] <= backoffLeft'
  PROVE  VtInv'
<1>1. \A d \in Callers : caller[d] \in CallerStates
  BY DEF VtInv, VtCallers
<1>2. ASSUME NEW d \in Callers, d # c
      PROVE  /\ caller'[d] \in CallerStates /\ caller'[d].at = caller[d].at
             /\ caller'[d].left = caller[d].left /\ caller'[d].owed = owed[d]
  BY <1>1, <1>2 DEF CallerStates
<1>3. caller'[c] = r
  OBVIOUS
<1>4. VtCallers'
  <2>1. \A d \in Callers : caller'[d] \in CallerStates
    BY <1>2, <1>3
  <2>2. caller' = [d \in Callers |-> caller'[d]]
    OBVIOUS
  <2> QED BY <2>1, <2>2 DEF VtCallers
<1>5. VtLock'
  BY <1>2, <1>3 DEF VtInv, VtLock, At
<1>6. ASSUME NEW d \in Callers
      PROVE  Owes(caller'[d], backoffLeft')
  <2>1. CASE d = c
    BY <1>3, <2>1 DEF Owes
  <2>2. CASE d # c
    <3>1. caller[d].owed \in Nat /\ caller[d].left \in Nat /\ backoffLeft' \in Nat
      BY <1>1, VtNumbers DEF CallerStates, VtShared
    <3>2. Owes(caller[d], backoffLeft)
      BY DEF VtInv, VtOwing
    <3> QED BY <1>2, <2>2, <3>1, <3>2 DEF Owes
  <2> QED BY <2>1, <2>2
<1> QED BY <1>4, <1>5, <1>6 DEF VtInv, VtOwing

\* An answer 429 sets a new backoff, of which the callers that wait owe nothing yet.
LEMMA VtBackOff ==
  ASSUME VtInv, NEW c \in Callers, BackOff(c)
  PROVE  VtInv'
<1>1. backoff \in 0..MaxBackoff
  BY DEF VtInv, VtShared
<1>2. PICK j \in -Jitter..Jitter : backoffLeft' = More(LeastBackoff, backoff + j)
  BY DEF BackOff
<1>3. backoffLeft' \in 0..(MaxBackoff + Jitter)
  <2> DEFINE soon == backoff + j
  <2>0. Jitter \in Nat /\ MaxBackoff \in Nat
    BY VtNumbers
  <2>a. -Jitter \in Int /\ j \in Int /\ j <= Jitter
    BY <2>0
  <2>b. backoff \in Nat /\ backoff <= MaxBackoff
    BY <1>1, <2>0
  <2>c. ASSUME NEW n \in Nat, NEW m \in Nat, NEW k \in Nat, NEW i \in Int, n <= m, i <= k
        PROVE  n + i \in Int /\ n + i <= m + k
    BY <2>c
  <2>1. soon \in Int /\ soon <= MaxBackoff + Jitter
    BY <2>0, <2>a, <2>b, <2>c
  <2>2. LeastBackoff \in 0..(MaxBackoff + Jitter)
    BY VtNumbers
  <2> HIDE DEF soon
  <2>3. CASE LeastBackoff > soon
    BY <1>2, <2>2, <2>3 DEF More, soon
  <2>4. CASE ~(LeastBackoff > soon)
    <3>1. backoffLeft' = soon
      BY <1>2, <2>4 DEF More, soon
    <3> QED BY <2>1, <2>2, <2>4, <3>1, VtNumbers
  <2> QED BY <2>3, <2>4
<1>4. VtShared'
  BY <1>1, <1>3 DEF VtInv, VtShared, BackOff
<1> DEFINE owed == [d \in Callers |-> Less(caller[d].owed, backoffLeft')]
<1>5. \A d \in Callers : caller[d].owed \in Nat
  BY DEF VtInv, VtCallers, CallerStates
<1>6. \A d \in Callers : owed[d] \in Nat /\ owed[d] <= caller[d].owed /\ owed[d] <= backoffLeft'
  BY <1>3, <1>5, VtNumbers DEF Less
<1>7. caller' = [d \in Callers |-> IF d = c THEN Away ELSE [caller[d] EXCEPT !.owed = owed[d]]]
  BY DEF BackOff
<1>8. Away \in CallerStates /\ Away.at = "out" /\ Away.owed = 0 /\ lock' = lock /\ At(c, "until")
  BY AwayIsState DEF Away, BackOff
<1> HIDE DEF owed
<1> QED BY <1>4, <1>6, <1>7, <1>8, VtAnswered

LEMMA VtClear ==
  ASSUME VtInv, NEW c \in Callers, Clear(c)
  PROVE  VtInv'
<1>1. VtShared' /\ backoffLeft' = 0 /\ lock' = lock /\ At(c, "clear")
  BY VtNumbers DEF VtInv, VtShared, Clear
<1>2. PICK v \in Verdicts :
        caller' = [d \in Callers |->
                     IF d = c THEN [caller[c] EXCEPT !.at = "store", !.verdict = v]
                     ELSE [caller[d] EXCEPT !.owed = 0]]
  BY DEF Clear
<1> DEFINE r == [caller[c] EXCEPT !.at = "store", !.verdict = v]
           owed == [d \in Callers |-> 0]
<1>3. caller[c] \in CallerStates /\ caller[c].owed = 0
  BY <1>1 DEF VtInv, VtCallers, VtOwing, Owes, At
<1>4. r \in CallerStates /\ r.at = "store" /\ r.owed = 0
  BY <1>3 DEF CallerStates
<1>5. \A d \in Callers : owed[d] \in Nat /\ owed[d] <= caller[d].owed /\ owed[d] <= backoffLeft'
  BY <1>1 DEF VtInv, VtCallers, CallerStates
<1>6. caller' = [d \in Callers |-> IF d = c THEN r ELSE [caller[d] EXCEPT !.owed = owed[d]]]
  BY <1>2
<1> HIDE DEF r, owed
<1> QED BY <1>1, <1>4, <1>5, <1>6, VtAnswered

\* Time passes: the backoff, the offline time and the sleeps fall together.
LEMMA VtTicks ==
  ASSUME VtInv, VtTick
  PROVE  VtInv'
<1>1. \A n \in Nat : Down(n) \in Nat /\ Down(n) <= n /\ \A m \in Nat : m <= n => Down(m) <= Down(n)
  BY DEF Down, More
<1>2. VtShared'
  <2>1. ASSUME NEW n \in Nat, NEW m \in 0..n
        PROVE  Less(m + 1, n) \in 0..n /\ Down(m) \in 0..n
    BY DEF Less, Down, More
  <2>2. sinceLast' \in 0..MinInterval /\ tokens' \in 0..(Capacity * MinInterval)
    BY <2>1, VtNumbers DEF VtInv, VtShared, VtTick
  <2>3. /\ backoffLeft' \in 0..(MaxBackoff + Jitter) /\ offlineLeft' \in 0..Offline
    <3>1. MaxBackoff + Jitter \in Nat
      BY VtNumbers
    <3> QED BY <2>1, <3>1, VtNumbers DEF VtInv, VtShared, VtTick
  <2> QED BY <2>2, <2>3 DEF VtInv, VtShared, VtTick
<1>3. \A c \in Callers : caller[c] \in CallerStates
  BY DEF VtInv, VtCallers
<1>4. caller' = [c \in Callers |-> [caller[c] EXCEPT !.left = Down(@), !.owed = Down(@)]]
  BY DEF VtTick
<1>5. ASSUME NEW c \in Callers
      PROVE  /\ caller'[c] \in CallerStates /\ caller'[c].at = caller[c].at
             /\ caller'[c].left = Down(caller[c].left) /\ caller'[c].owed = Down(caller[c].owed)
  BY <1>1, <1>3, <1>4 DEF CallerStates
<1>6. VtCallers'
  BY <1>4, <1>5 DEF VtCallers
<1>7. VtLock'
  BY <1>5 DEF VtInv, VtLock, At, VtTick
<1>8. ASSUME NEW c \in Callers
      PROVE  Owes(caller'[c], backoffLeft')
  <2>1. /\ Owes(caller[c], backoffLeft) /\ caller[c].at # "wait"
        /\ caller[c].owed \in Nat /\ caller[c].left \in Nat
    BY <1>3 DEF VtInv, VtOwing, VtTick, At, CallerStates
  <2>2. Down(0) = 0
    BY DEF Down, More
  <2> QED BY <1>1, <1>5, <2>1, <2>2 DEF Owes
<1> QED BY <1>2, <1>6, <1>7, <1>8 DEF VtInv, VtOwing

\* Every step of a lookup keeps the invariant.
LEMMA VtStepKeeps ==
  ASSUME VtInv, NEW c \in Callers, VtStep(c) \/ \E h \in Hashes : Lookup(c, h)
  PROVE  VtInv'
<1>0. /\ caller[c] \in CallerStates /\ Owes(caller[c], backoffLeft)
      /\ backoffLeft \in Nat /\ caller[c].owed \in Nat
  BY VtNumbers DEF VtInv, VtCallers, VtOwing, VtShared, CallerStates
<1>a. ASSUME caller' = [caller EXCEPT ![c] = Away], lock' = lock, backoffLeft' = backoffLeft,
             ~At(c, "space"), VtShared'
      PROVE  VtInv'
  <2>1. Away.at # "space"
    BY DEF Away
  <2>2. VtLock' /\ VtCallers' /\ VtOwing'
    BY <1>a, <2>1, AwayIsState, VtMoves
  <2> QED BY <1>a, <2>2 DEF VtInv
<1>1. ASSUME NEW h \in Hashes, Lookup(c, h) PROVE VtInv'
  <2> DEFINE r == IF cache[h] # "none" \/ ~enabled \/ offlineLeft > 0 THEN Away
                  ELSE [Away EXCEPT !.at = "backoff", !.hash = h]
  <2>1. r \in CallerStates /\ r.at # "space" /\ Owes(r, backoffLeft)
    BY AwayIsState DEF Away, CallerStates, Owes
  <2>2. caller' = [caller EXCEPT ![c] = r] /\ ~At(c, "space") /\ UNCHANGED clientVars
    BY <1>1 DEF Lookup, At
  <2> HIDE DEF r
  <2>3. VtLock' /\ VtCallers' /\ VtOwing'
    BY <2>1, <2>2, VtMoves DEF clientVars
  <2> QED BY <2>2, <2>3 DEF VtInv, VtShared, clientVars
<1>2. CASE SeeBackoff(c)
  <2> DEFINE r == [caller[c] EXCEPT !.at = IF backoffLeft > 0 THEN "wait" ELSE "lock",
                                    !.owed = backoffLeft]
  <2>1. r \in CallerStates /\ r.at # "space" /\ Owes(r, backoffLeft)
    <3>1. r.owed = backoffLeft /\ r.at = IF backoffLeft > 0 THEN "wait" ELSE "lock"
      BY <1>0 DEF CallerStates
    <3>2. r \in CallerStates
      <4>1. CASE backoffLeft > 0
        BY <1>0, <4>1 DEF CallerStates
      <4>2. CASE ~(backoffLeft > 0)
        BY <1>0, <4>2 DEF CallerStates
      <4> QED BY <4>1, <4>2
    <3> QED BY <1>0, <3>1, <3>2 DEF Owes
  <2>2. caller' = [caller EXCEPT ![c] = r] /\ ~At(c, "space") /\ UNCHANGED clientVars
    BY <1>2 DEF SeeBackoff, At
  <2> HIDE DEF r
  <2>3. VtLock' /\ VtCallers' /\ VtOwing'
    BY <2>1, <2>2, VtMoves DEF clientVars
  <2> QED BY <2>2, <2>3 DEF VtInv, VtShared, clientVars
<1>3. CASE Wait(c)
  <2>1. ~At(c, "space") /\ UNCHANGED clientVars /\ VtShared'
    BY <1>3 DEF Wait, At, VtInv, VtShared, clientVars
  <2>2. CASE Return(c)
    BY <1>a, <2>1, <2>2 DEF Return, clientVars
  <2>3. CASE GoFor(c, "sleep", backoffLeft)
    <3> DEFINE r == [caller[c] EXCEPT !.at = "sleep", !.left = backoffLeft]
    <3>1. r \in CallerStates /\ r.at # "space" /\ Owes(r, backoffLeft)
      BY <1>0, <1>3 DEF CallerStates, Owes, Wait, At
    <3>2. caller' = [caller EXCEPT ![c] = r]
      BY <2>3 DEF GoFor
    <3> HIDE DEF r
    <3>3. VtLock' /\ VtCallers' /\ VtOwing'
      BY <2>1, <3>1, <3>2, VtMoves DEF clientVars
    <3> QED BY <2>1, <3>3 DEF VtInv
  <2> QED BY <1>3, <2>2, <2>3 DEF Wait
<1>4. CASE Slept(c)
  <2> DEFINE r == [caller[c] EXCEPT !.at = "lock"]
  <2>1. r \in CallerStates /\ r.at # "space" /\ Owes(r, backoffLeft)
    BY <1>0, <1>4 DEF CallerStates, Owes, Slept, At
  <2>2. caller' = [caller EXCEPT ![c] = r] /\ ~At(c, "space") /\ UNCHANGED clientVars
    BY <1>4 DEF Slept, Go, At
  <2> HIDE DEF r
  <2>3. VtLock' /\ VtCallers' /\ VtOwing'
    BY <2>1, <2>2, VtMoves DEF clientVars
  <2> QED BY <2>2, <2>3 DEF VtInv, VtShared, clientVars
<1>5. CASE Acquire(c)
  <2> DEFINE r == [caller[c] EXCEPT !.at = "sent"]
  <2>1. r \in CallerStates /\ r.at # "space" /\ Owes(r, backoffLeft)
    BY <1>0, <1>5 DEF CallerStates, Owes, Acquire, At
  <2>2. caller' = [caller EXCEPT ![c] = r] /\ ~At(c, "space")
    BY <1>5 DEF Acquire, Go, At
  <2>3. VtShared' /\ lock' = lock /\ backoffLeft' = backoffLeft
    BY <1>5, VtNumbers DEF VtInv, VtShared, Acquire
  <2> HIDE DEF r
  <2>4. VtLock' /\ VtCallers' /\ VtOwing'
    BY <2>1, <2>2, <2>3, VtMoves
  <2> QED BY <2>3, <2>4 DEF VtInv
<1>6. CASE NotFound(c)
  <2> DEFINE r == [caller[c] EXCEPT !.at = "store", !.verdict = "unknown"]
  <2>1. r \in CallerStates /\ r.at # "space" /\ Owes(r, backoffLeft)
    BY <1>0, <1>6 DEF CallerStates, Owes, NotFound, At, Verdicts
  <2>2. caller' = [caller EXCEPT ![c] = r] /\ ~At(c, "space") /\ UNCHANGED clientVars
    BY <1>6 DEF NotFound, At
  <2> HIDE DEF r
  <2>3. VtLock' /\ VtCallers' /\ VtOwing'
    BY <2>1, <2>2, VtMoves DEF clientVars
  <2> QED BY <2>2, <2>3 DEF VtInv, VtShared, clientVars
<1>7. CASE NoToken(c) \/ HttpError(c) \/ StoreRaises(c)
  <2>1. ~At(c, "space") /\ UNCHANGED clientVars /\ Return(c)
    BY <1>7 DEF NoToken, HttpError, StoreRaises, At
  <2>2. VtShared'
    BY <2>1 DEF VtInv, VtShared, clientVars
  <2> QED BY <1>a, <2>1, <2>2 DEF Return, clientVars
<1>8. CASE Unreachable(c)
  <2>1. ~At(c, "space") /\ VtShared'
    BY <1>8, VtNumbers DEF VtInv, VtShared, Unreachable, At
  <2> QED BY <1>a, <1>8, <2>1 DEF Return, Unreachable
<1>9. CASE Store(c)
  <2>1. caller[c].verdict \in Verdicts \cup {"none"}
    BY <1>0 DEF CallerStates
  <2>2. ~At(c, "space") /\ VtShared'
    BY <1>9, <2>1 DEF VtInv, VtShared, Store, At
  <2> QED BY <1>a, <1>9, <2>2 DEF Return, Store
<1>10. CASE TooMany(c) \/ Ok(c)
  <2> DEFINE r(place) == [caller[c] EXCEPT !.at = place]
  <2>1. PICK place \in {"until", "clear"} : caller' = [caller EXCEPT ![c] = r(place)]
    BY <1>10 DEF TooMany, Ok, Go
  <2>2. r(place) \in CallerStates /\ r(place).at # "space" /\ Owes(r(place), backoffLeft)
    BY <1>0, <1>10 DEF CallerStates, Owes, TooMany, Ok, At
  <2>3. ~At(c, "space") /\ lock' = lock /\ backoffLeft' = backoffLeft
    BY <1>10 DEF TooMany, Ok, At
  <2>4. VtShared'
    BY <1>10, VtNumbers DEF VtInv, VtShared, TooMany, Ok, Less
  <2> HIDE DEF r
  <2>5. VtLock' /\ VtCallers' /\ VtOwing'
    BY <2>1, <2>2, <2>3, VtMoves
  <2> QED BY <2>4, <2>5 DEF VtInv
<1> QED
  BY <1>1, <1>2, <1>3, <1>4, <1>5, <1>6, <1>7, <1>8, <1>9, <1>10,
     VtLockTaken, VtLockFreed, VtBackOff, VtClear
  DEF VtStep

LEMMA VtStart == VtInit => VtInv
BY VtNumbers, AwayIsState, VirusTotalAssumption
   DEF VtInit, VtInv, VtShared, VtLock, VtCallers, VtOwing, At, Away

LEMMA VtKeeps == VtInv /\ [VtNext]_vtVars => VtInv'
<1>1. ASSUME VtInv, UNCHANGED vtVars PROVE VtInv'
  BY <1>1 DEF VtInv, VtShared, VtLock, VtCallers, VtOwing, At, vtVars
<1> QED BY <1>1, VtStepKeeps, VtTicks DEF VtNext

LEMMA VtInvTypes == VtInv => VtOK
BY DEF VtInv, VtShared, VtLock, VtOK

\* The bounds of the client's clocks and of its bucket, and that its lock is held by the
\* one thread that sleeps out the spacing, for any number of threads.
THEOREM ClientInBounds == VtSpec => []VtOK
BY VtInvTypes, VtStart, VtKeeps, PTL DEF VtSpec

\* No lookup that found the service backing off is sent before that backoff is over or
\* has been replaced, however many threads share the client.
THEOREM BackoffIsSleptOut == VtSpec => []BackoffSleptOut
<1>1. VtInv => BackoffSleptOut
  BY DEF VtInv, VtOwing, Owes, BackoffSleptOut, At
<1> QED BY <1>1, VtStart, VtKeeps, PTL DEF VtSpec

-----------------------------------------------------------------------------
(* Notifier.  What Accounted rests on: a thread that sends nothing carries *)
(* no key, so that nothing of any key goes with it when it starts anew.    *)

SenderStates == [at : {"out", "toast", "balloon"}, key : Keys \cup {NoKey}, count : Nat]

NotifierTypes ==
  /\ toast \in BOOLEAN /\ cooling \in [Keys -> 0..Cooldown]
  /\ suppressed \in [Keys -> Nat] /\ sender \in [Senders -> SenderStates]
  /\ raised \in [Keys -> 0..MaxRaised] /\ shown \in [Keys -> Nat] /\ lost \in [Keys -> Nat]

SilentHaveNoKey == \A s \in Senders : sender[s].at = "out" => sender[s].key = NoKey

NotifierInv == NotifierTypes /\ SilentHaveNoKey /\ Accounted

\* What a thread in state r carries of the key k.
Carried(r, k) == IF r.key = k THEN r.count ELSE 0

LEMMA NotifierNumbers ==
  /\ Cooldown \in Nat /\ Cooldown # 0 /\ MaxRaised \in Nat /\ NoKey \notin Keys
  /\ IsFiniteSet(Senders)
BY NotifierAssumption

\* How the sum changes when one thread goes from its state to r.
LEMMA OneSender ==
  ASSUME NotifierTypes, NEW s \in Senders, NEW r \in SenderStates,
         sender' = [sender EXCEPT ![s] = r]
  PROVE  /\ sender' \in [Senders -> SenderStates] /\ sender'[s] = r
         /\ \A t \in Senders \ {s} : sender'[t] = sender[t]
         /\ \A k \in Keys : /\ OnTheWay(k)' = OnTheWay(k) - Carried(sender[s], k) + Carried(r, k)
                            /\ OnTheWay(k) \in Int /\ Carried(sender[s], k) \in Nat
                            /\ Carried(r, k) \in Nat
<1>1. /\ sender' \in [Senders -> SenderStates] /\ sender'[s] = r
      /\ \A t \in Senders \ {s} : sender'[t] = sender[t]
  BY DEF NotifierTypes
<1>2. ASSUME NEW k \in Keys
      PROVE  /\ OnTheWay(k)' = OnTheWay(k) - Carried(sender[s], k) + Carried(r, k)
             /\ OnTheWay(k) \in Int /\ Carried(sender[s], k) \in Nat /\ Carried(r, k) \in Nat
  <2> DEFINE w == [t \in Senders |-> IF sender[t].key = k THEN sender[t].count ELSE 0]
             v == [t \in Senders |-> IF sender'[t].key = k THEN sender'[t].count ELSE 0]
  <2>1. \A t \in Senders : sender[t].count \in Nat /\ sender'[t].count \in Nat
    BY <1>1 DEF NotifierTypes, SenderStates
  <2>2. \A t \in Senders : w[t] \in Int /\ v[t] \in Int
    BY <2>1
  <2>3. \A t \in Senders \ {s} : v[t] = w[t]
    BY <1>1
  <2>4. w[s] = Carried(sender[s], k) /\ v[s] = Carried(r, k)
    BY <1>1 DEF Carried
  <2>5. OnTheWay(k) = SumFunctionOnSet(w, Senders) /\ OnTheWay(k)' = SumFunctionOnSet(v, Senders)
    BY DEF OnTheWay
  <2>6. w[s] \in Nat /\ v[s] \in Nat
    BY <2>1
  <2> HIDE DEF w, v
  <2>7. SumFunctionOnSet(v, Senders) = SumFunctionOnSet(w, Senders) - w[s] + v[s]
    BY <2>2, <2>3, NotifierNumbers, SumChange
  <2>8. SumFunctionOnSet(w, Senders) \in Int
    BY <2>2, NotifierNumbers, SumType
  <2> QED BY <2>4, <2>5, <2>6, <2>7, <2>8
<1> QED BY <1>1, <1>2

\* What is on the way is a natural number.
LEMMA OnTheWayType == ASSUME NotifierTypes, NEW k \in Keys PROVE OnTheWay(k) \in Nat
<1> DEFINE w == [t \in Senders |-> IF sender[t].key = k THEN sender[t].count ELSE 0]
<1>1. \A t \in Senders : w[t] \in Nat
  BY DEF NotifierTypes, SenderStates
<1> HIDE DEF w
<1>2. SumFunctionOnSet(w, Senders) \in Int
  BY <1>1, NotifierNumbers, SumType
<1>3. SumFunctionOnSet(w, {}) <= SumFunctionOnSet(w, Senders)
  BY <1>1, NotifierNumbers, SumPart
<1>4. SumFunctionOnSet(w, {}) = 0
  BY SumEmpty
<1> QED BY <1>2, <1>3, <1>4 DEF OnTheWay, w

\* A step that leaves the senders alone.
LEMMA NoSender == ASSUME UNCHANGED sender PROVE \A k \in Keys : OnTheWay(k)' = OnTheWay(k)
BY DEF OnTheWay

\* An alert within the cooldown is counted.
LEMMA SuppressKeeps ==
  ASSUME NotifierInv, NEW s \in Senders, NEW k \in Keys, Suppress(s, k)
  PROVE  NotifierInv'
<1>1. NotifierTypes /\ raised[k] \in Nat /\ raised[k] < MaxRaised /\ suppressed[k] \in Nat
  BY NotifierNumbers DEF NotifierInv, NotifierTypes, Suppress
<1>2. /\ raised' = [raised EXCEPT ![k] = raised[k] + 1]
      /\ suppressed' = [suppressed EXCEPT ![k] = suppressed[k] + 1]
      /\ UNCHANGED <<toast, cooling, sender, shown, lost>>
  BY DEF Suppress, Add
<1>3. raised[k] + 1 \in 0..MaxRaised /\ suppressed[k] + 1 \in Nat
  BY <1>1, NotifierNumbers
<1>4. NotifierTypes'
  BY <1>1, <1>2, <1>3 DEF NotifierTypes
<1>5. Accounted'
  <2> SUFFICES ASSUME NEW l \in Keys
               PROVE  raised'[l] = shown'[l] + lost'[l] + suppressed'[l] + OnTheWay(l)'
    BY DEF Accounted
  <2>1. raised[l] = shown[l] + lost[l] + suppressed[l] + OnTheWay(l)
    BY DEF NotifierInv, Accounted
  <2>2. OnTheWay(l) \in Nat /\ shown[l] \in Nat /\ lost[l] \in Nat /\ suppressed[l] \in Nat
    BY <1>1, OnTheWayType DEF NotifierTypes
  <2>3. OnTheWay(l)' = OnTheWay(l)
    BY <1>2, NoSender
  <2> QED BY <1>1, <1>2, <2>1, <2>2, <2>3 DEF NotifierTypes
<1> QED BY <1>2, <1>4, <1>5 DEF NotifierInv, SilentHaveNoKey

\* An alert that is let through takes the count of its key with it.
LEMMA LetThroughKeeps ==
  ASSUME NotifierInv, NEW s \in Senders, NEW k \in Keys, LetThrough(s, k)
  PROVE  NotifierInv'
<1> DEFINE r == [at |-> FirstChannel, key |-> k, count |-> 1 + suppressed[k]]
<1>1. /\ NotifierTypes /\ raised[k] \in Nat /\ raised[k] < MaxRaised /\ suppressed[k] \in Nat
      /\ sender[s].at = "out"
  BY NotifierNumbers DEF NotifierInv, NotifierTypes, LetThrough
<1>2. /\ raised' = [raised EXCEPT ![k] = raised[k] + 1]
      /\ suppressed' = [suppressed EXCEPT ![k] = 0] /\ cooling' = [cooling EXCEPT ![k] = Cooldown]
      /\ sender' = [sender EXCEPT ![s] = r] /\ UNCHANGED <<toast, shown, lost>>
  BY DEF LetThrough, Add, Sending
<1>3. r \in SenderStates /\ r.at # "out" /\ r.key = k /\ r.count = 1 + suppressed[k]
  BY <1>1 DEF SenderStates, FirstChannel
<1> HIDE DEF r
<1>4. raised[k] + 1 \in 0..MaxRaised /\ 0 \in Nat /\ Cooldown \in 0..Cooldown
  BY <1>1, NotifierNumbers
<1>5. /\ sender' \in [Senders -> SenderStates] /\ sender'[s] = r
      /\ \A t \in Senders \ {s} : sender'[t] = sender[t]
      /\ \A l \in Keys : OnTheWay(l)' = OnTheWay(l) - Carried(sender[s], l) + Carried(r, l)
  BY <1>1, <1>2, <1>3, OneSender
<1>6. NotifierTypes'
  BY <1>1, <1>2, <1>4, <1>5 DEF NotifierTypes
<1>7. sender[s].key = NoKey
  BY <1>1 DEF NotifierInv, SilentHaveNoKey
<1>8. Accounted'
  <2> SUFFICES ASSUME NEW l \in Keys
               PROVE  raised'[l] = shown'[l] + lost'[l] + suppressed'[l] + OnTheWay(l)'
    BY DEF Accounted
  <2>1. raised[l] = shown[l] + lost[l] + suppressed[l] + OnTheWay(l)
    BY DEF NotifierInv, Accounted
  <2>2. OnTheWay(l) \in Nat /\ shown[l] \in Nat /\ lost[l] \in Nat /\ suppressed[l] \in Nat
    BY <1>1, OnTheWayType DEF NotifierTypes
  <2>3. Carried(sender[s], l) = 0 /\ Carried(r, l) = IF l = k THEN 1 + suppressed[k] ELSE 0
    BY <1>3, <1>7, NotifierNumbers DEF Carried
  <2>4. OnTheWay(l)' = OnTheWay(l) + IF l = k THEN 1 + suppressed[k] ELSE 0
    BY <1>1, <1>5, <2>2, <2>3
  <2>5. /\ raised'[l] = raised[l] + IF l = k THEN 1 ELSE 0
        /\ suppressed'[l] = IF l = k THEN 0 ELSE suppressed[l]
        /\ shown'[l] = shown[l] /\ lost'[l] = lost[l] /\ raised[l] \in Nat
    BY <1>1, <1>2, NotifierNumbers DEF NotifierTypes
  <2>6. CASE l = k
    BY <2>1, <2>2, <2>4, <2>5, <2>6
  <2>7. CASE l # k
    BY <2>1, <2>2, <2>4, <2>5, <2>7
  <2> QED BY <2>6, <2>7
<1> QED BY <1>3, <1>5, <1>6, <1>8 DEF NotifierInv, SilentHaveNoKey

\* A thread takes another state without a change of what was raised or suppressed; what
\* it no longer carries has been shown or lost.
LEMMA SenderGoes ==
  ASSUME NotifierInv, NEW s \in Senders, NEW r \in SenderStates,
         sender' = [sender EXCEPT ![s] = r], r.at = "out" => r.key = NoKey,
         UNCHANGED <<toast, cooling, suppressed, raised>>,
         shown' \in [Keys -> Nat], lost' \in [Keys -> Nat],
         \A k \in Keys : shown'[k] + lost'[k] + Carried(r, k)
                           = shown[k] + lost[k] + Carried(sender[s], k)
  PROVE  NotifierInv'
<1>1. NotifierTypes
  BY DEF NotifierInv
<1>2. /\ sender' \in [Senders -> SenderStates] /\ sender'[s] = r
      /\ \A t \in Senders \ {s} : sender'[t] = sender[t]
      /\ \A k \in Keys : /\ OnTheWay(k)' = OnTheWay(k) - Carried(sender[s], k) + Carried(r, k)
                         /\ OnTheWay(k) \in Int /\ Carried(sender[s], k) \in Nat
                         /\ Carried(r, k) \in Nat
  BY <1>1, OneSender
<1>3. NotifierTypes'
  BY <1>1, <1>2 DEF NotifierTypes
<1>4. Accounted'
  <2> SUFFICES ASSUME NEW k \in Keys
               PROVE  raised'[k] = shown'[k] + lost'[k] + suppressed'[k] + OnTheWay(k)'
    BY DEF Accounted
  <2>1. raised[k] = shown[k] + lost[k] + suppressed[k] + OnTheWay(k)
    BY DEF NotifierInv, Accounted
  <2>2. /\ shown[k] \in Nat /\ lost[k] \in Nat /\ suppressed[k] \in Nat
        /\ shown'[k] \in Nat /\ lost'[k] \in Nat
    BY <1>1 DEF NotifierTypes
  <2>3. raised'[k] = raised[k] /\ suppressed'[k] = suppressed[k]
    OBVIOUS
  <2>4. shown'[k] + lost'[k] + Carried(r, k) = shown[k] + lost[k] + Carried(sender[s], k)
    OBVIOUS
  <2>5. /\ OnTheWay(k)' = OnTheWay(k) - Carried(sender[s], k) + Carried(r, k)
        /\ OnTheWay(k) \in Int /\ Carried(sender[s], k) \in Nat /\ Carried(r, k) \in Nat
    BY <1>2
  <2> QED BY <2>1, <2>2, <2>3, <2>4, <2>5
<1> QED BY <1>2, <1>3, <1>4 DEF NotifierInv, SilentHaveNoKey

\* A channel shows the alert, or fails, and then the next one or none is left.
LEMMA SendingKeeps ==
  ASSUME NotifierInv, NEW s \in Senders,
         Inform(s) \/ Delivered(s) \/ ToastFails(s) \/ BalloonFails(s)
  PROVE  NotifierInv'
<1>1. /\ NotifierTypes /\ sender[s] \in SenderStates /\ sender[s].key \in Keys \cup {NoKey}
      /\ sender[s].count \in Nat /\ shown \in [Keys -> Nat] /\ lost \in [Keys -> Nat]
  BY DEF NotifierInv, NotifierTypes, SenderStates
<1>2. \A k \in Keys : Carried(sender[s], k) \in Nat
  BY <1>1 DEF Carried
<1>3. CASE Inform(s)
  <2> DEFINE r == [at |-> FirstChannel, key |-> NoKey, count |-> 0]
  <2>1. /\ sender' = [sender EXCEPT ![s] = r] /\ sender[s].at = "out"
        /\ UNCHANGED <<toast, cooling, suppressed, raised, shown, lost>>
    BY <1>3 DEF Inform, Sending
  <2>2. r \in SenderStates /\ r.key = NoKey
    BY DEF SenderStates, FirstChannel
  <2>3. \A k \in Keys : Carried(sender[s], k) = 0 /\ Carried(r, k) = 0
    BY <2>1, NotifierNumbers DEF NotifierInv, SilentHaveNoKey, Carried
  <2> HIDE DEF r
  <2>4. \A k \in Keys : shown'[k] + lost'[k] + Carried(r, k)
                          = shown[k] + lost[k] + Carried(sender[s], k)
    BY <2>1, <2>3
  <2> QED BY <1>1, <2>1, <2>2, <2>4, SenderGoes
<1>4. CASE Delivered(s) \/ BalloonFails(s)
  <2> DEFINE r == [at |-> "out", key |-> NoKey, count |-> 0]
  <2>1. sender' = [sender EXCEPT ![s] = r] /\ UNCHANGED <<toast, cooling, suppressed, raised>>
    BY <1>4 DEF Delivered, BalloonFails, Sending
  <2>2. r \in SenderStates /\ r.key = NoKey
    BY DEF SenderStates
  <2>3. \A k \in Keys : Carried(r, k) = 0
    BY NotifierNumbers DEF Carried
  <2> HIDE DEF r
  <2>4. CASE Delivered(s)
    <3>1. shown' = [k \in Keys |-> shown[k] + Carried(sender[s], k)] /\ UNCHANGED lost
      BY <2>4 DEF Delivered, Carried
    <3>2. shown' \in [Keys -> Nat]
      BY <1>1, <1>2, <3>1
    <3>3. \A k \in Keys : shown'[k] + lost'[k] + Carried(r, k)
                            = shown[k] + lost[k] + Carried(sender[s], k)
      BY <1>1, <1>2, <2>3, <3>1
    <3> QED BY <1>1, <2>1, <2>2, <3>1, <3>2, <3>3, SenderGoes
  <2>5. CASE BalloonFails(s)
    <3>1. lost' = [k \in Keys |-> lost[k] + Carried(sender[s], k)] /\ UNCHANGED shown
      BY <2>5 DEF BalloonFails, Carried
    <3>2. lost' \in [Keys -> Nat]
      BY <1>1, <1>2, <3>1
    <3>3. \A k \in Keys : shown'[k] + lost'[k] + Carried(r, k)
                            = shown[k] + lost[k] + Carried(sender[s], k)
      BY <1>1, <1>2, <2>3, <3>1
    <3> QED BY <1>1, <2>1, <2>2, <3>1, <3>2, <3>3, SenderGoes
  <2> QED BY <1>4, <2>4, <2>5
<1>5. CASE ToastFails(s)
  <2> DEFINE r == [at |-> "balloon", key |-> sender[s].key, count |-> sender[s].count]
  <2>1. /\ sender' = [sender EXCEPT ![s] = r]
        /\ UNCHANGED <<toast, cooling, suppressed, raised, shown, lost>>
    BY <1>5 DEF ToastFails, Sending
  <2>2. r \in SenderStates /\ r.at # "out"
    BY <1>1 DEF SenderStates
  <2>3. \A k \in Keys : Carried(r, k) = Carried(sender[s], k)
    BY DEF Carried
  <2> HIDE DEF r
  <2> QED BY <1>1, <2>1, <2>2, <2>3, SenderGoes
<1> QED BY <1>3, <1>4, <1>5

LEMMA NotifierTicks ==
  ASSUME NotifierInv, NotifierTick
  PROVE  NotifierInv'
<1>1. UNCHANGED <<toast, suppressed, sender, raised, shown, lost>>
  BY DEF NotifierTick
<1>2. cooling' \in [Keys -> 0..Cooldown]
  <2>1. \A k \in Keys : cooling[k] \in 0..Cooldown
    BY DEF NotifierInv, NotifierTypes
  <2>2. \A k \in Keys : (IF cooling[k] > 0 THEN cooling[k] - 1 ELSE 0) \in 0..Cooldown
    BY <2>1, NotifierNumbers
  <2> QED BY <2>2 DEF NotifierTick
<1>3. \A k \in Keys : OnTheWay(k)' = OnTheWay(k)
  BY <1>1, NoSender
<1> QED BY <1>1, <1>2, <1>3 DEF NotifierInv, NotifierTypes, SilentHaveNoKey, Accounted

LEMMA NotifierStart == NotifierInit => NotifierInv
<1> SUFFICES ASSUME NotifierInit PROVE NotifierInv
  OBVIOUS
<1>1. NotifierTypes
  BY NotifierNumbers DEF NotifierInit, NotifierTypes, Silent, SenderStates
<1>2. \A s \in Senders : sender[s].key = NoKey
  BY DEF NotifierInit, Silent
<1>3. ASSUME NEW k \in Keys PROVE OnTheWay(k) = 0
  <2> DEFINE w == [t \in Senders |-> IF sender[t].key = k THEN sender[t].count ELSE 0]
  <2>1. \A t \in Senders : w[t] = 0
    BY <1>2, NotifierNumbers
  <2> HIDE DEF w
  <2>2. SumFunctionOnSet(w, Senders) = 0
    BY <2>1, NotifierNumbers, SumZero
  <2> QED BY <2>2 DEF OnTheWay, w
<1>4. Accounted
  BY <1>3 DEF Accounted, NotifierInit
<1> QED BY <1>1, <1>2, <1>4 DEF NotifierInv, SilentHaveNoKey

LEMMA NotifierKeeps == NotifierInv /\ [NotifierNext]_notifierVars => NotifierInv'
<1>1. ASSUME NotifierInv, UNCHANGED notifierVars PROVE NotifierInv'
  <2>1. \A k \in Keys : OnTheWay(k)' = OnTheWay(k)
    BY <1>1, NoSender DEF notifierVars
  <2> QED BY <1>1, <2>1 DEF NotifierInv, NotifierTypes, SilentHaveNoKey, Accounted, notifierVars
<1> QED BY <1>1, SuppressKeeps, LetThroughKeeps, SendingKeeps, NotifierTicks DEF NotifierNext

LEMMA NotifierInvTypes == NotifierInv => NotifierOK
<1> SUFFICES ASSUME NotifierInv PROVE NotifierOK
  OBVIOUS
<1>1. ASSUME NEW k \in Keys PROVE suppressed[k] \in 0..MaxRaised
  <2>1. /\ raised[k] \in 0..MaxRaised /\ shown[k] \in Nat /\ lost[k] \in Nat
        /\ suppressed[k] \in Nat /\ OnTheWay(k) \in Nat
    BY OnTheWayType DEF NotifierInv, NotifierTypes
  <2>2. raised[k] = shown[k] + lost[k] + suppressed[k] + OnTheWay(k)
    BY DEF NotifierInv, Accounted
  <2> QED BY <2>1, <2>2, NotifierNumbers
<1> QED BY <1>1 DEF NotifierInv, NotifierTypes, SenderStates, NotifierOK

\* The types of the notifier, and that no count exceeds what was raised.
THEOREM NotifierTypeCorrect == NotifierSpec => []NotifierOK
BY NotifierInvTypes, NotifierStart, NotifierKeeps, PTL DEF NotifierSpec

\* Whatever the number of threads: no alert is forgotten by the notifier.
THEOREM EveryAlertAccounted == NotifierSpec => []Accounted
<1>1. NotifierInv => Accounted
  BY DEF NotifierInv
<1> QED BY <1>1, NotifierStart, NotifierKeeps, PTL DEF NotifierSpec

-----------------------------------------------------------------------------
(* MemoryScanner.  What is due of a process is in its memory, and in the   *)
(* map of it that the walk has, as long as the walk has not passed it, and *)
(* is reported from then on; of a process that has ended nothing is due.   *)

Memories == [1..Regions -> Contents]
AllImages == [alive : BOOLEAN, jit : BOOLEAN, runtime : BOOLEAN, memory : Memories]
AllProcesses == [birth : Nat, image : AllImages]

Walks ==
  [at : {"out", "next", "named", "managed", "open", "mem", "regions", "read"},
   todo : SUBSET Pids,
   pid : Pids \cup {NoPid}, birth : Nat, jit : BOOLEAN, map : Memories \cup {<<>>},
   i : 0..Regions, total : Nat,
   threats : SUBSET [pid : Pids, region : 1..Regions,
                     type : {"reflective_pe", "shellcode_signature", "unbacked_executable"}],
   due : SUBSET (1..Regions)]

Reported(w, i) ==
  \/ platform = "darwin" /\ w.jit
  \/ [pid |-> w.pid, region |-> i, type |-> Sign] \in w.threats

\* The walk w has a map of the region that it judges next.
Mapped(w) == w.at \in {"mem", "read"} \/ (w.at = "regions" /\ platform # "windows")

\* What is due of the walk w, when image is that of the process it is at.
DueIsKept(w, image) ==
  /\ w.due # {} => image.alive
  /\ w.at = "next" => \A i \in w.due : Reported(w, i)
  /\ w.at # "next" => \A i \in w.due :
       IF i <= w.i THEN Reported(w, i)
       ELSE Betrays(image.memory[i]) /\ (Mapped(w) => w.map[i] = image.memory[i])

MemTypes ==
  /\ platform \in Platforms
  /\ process \in [Pids -> AllProcesses]
  /\ managedCache \in [Pids -> {"unknown", "managed", "native"}]
  /\ walk \in Walks

WalkIsSomewhere ==
  /\ walk.at \notin {"out", "next"} => walk.pid # NoPid
  /\ walk.at \in {"regions", "read"} => walk.i < Regions
  /\ Mapped(walk) => walk.map \in Memories
  /\ walk.at \in {"named", "managed", "open", "mem"} => walk.i = 0

NothingDueOfNone == walk.pid = NoPid => walk.due = {}

DueKept == walk.pid # NoPid => DueIsKept(walk, Image(walk.pid))

MemInv == MemTypes /\ WalkIsSomewhere /\ NothingDueOfNone /\ DueKept

LEMMA MemNumbers ==
  /\ Regions \in Nat /\ Regions # 0 /\ NoPid \notin Pids
  /\ \A r \in Contents : /\ r.exec \in BOOLEAN /\ r.write \in BOOLEAN /\ r.size \in Nat
                         /\ r.head \in {"data", "pe", "elf", "shellcode", "peb"}
<1>1. Regions \in Nat /\ Regions # 0 /\ NoPid \notin Pids
  BY MemoryAssumption
<1>2. ASSUME NEW r \in Contents
      PROVE  /\ r.exec \in BOOLEAN /\ r.write \in BOOLEAN /\ r.size \in Nat
             /\ r.head \in {"data", "pe", "elf", "shellcode", "peb"}
  <2>1. r \in [exec : BOOLEAN, write : BOOLEAN, private : BOOLEAN, anon : BOOLEAN,
               size : Nat, head : {"data", "pe", "elf", "shellcode", "peb"}]
    BY MemoryAssumption
  <2> QED BY <2>1
<1> QED BY <1>1, <1>2

\* What the types say of a process with a pid.
LEMMA ProcessTypes ==
  ASSUME MemInv, NEW p \in Pids
  PROVE  /\ process[p].birth \in Nat /\ Image(p) \in AllImages /\ Image(p).alive \in BOOLEAN
         /\ Image(p).jit \in BOOLEAN /\ Image(p).runtime \in BOOLEAN
         /\ Image(p).memory \in Memories
<1>1. process[p] \in AllProcesses
  BY DEF MemInv, MemTypes
<1> QED BY <1>1 DEF AllProcesses, AllImages, Image

\* A new walk, and the end of one.
LEMMA FreshWalks ==
  /\ NoWalk \in Walks
  /\ \A S \in SUBSET Pids : [NoWalk EXCEPT !.at = "next", !.todo = S] \in Walks
<1>1. NoWalk \in Walks
  <2>1. /\ {} \in SUBSET Pids /\ {} \in SUBSET (1..Regions) /\ 0 \in 0..Regions
        /\ {} \in SUBSET [pid : Pids, region : 1..Regions,
                          type : {"reflective_pe", "shellcode_signature", "unbacked_executable"}]
    BY MemNumbers
  <2> QED BY <2>1 DEF NoWalk, Walks
<1>2. ASSUME NEW S \in SUBSET Pids
      PROVE  [NoWalk EXCEPT !.at = "next", !.todo = S] \in Walks
  BY <1>1, <1>2 DEF Walks
<1> QED BY <1>1, <1>2

\* A walk begins with nothing due.
LEMMA WalkBegins ==
  ASSUME MemInv, StartWalk \/ EndWalk
  PROVE  MemInv'
<1>1. UNCHANGED <<platform, process, managedCache>>
  BY DEF StartWalk, EndWalk
<1>2. walk' \in Walks /\ walk'.at \in {"out", "next"} /\ walk'.pid = NoPid /\ walk'.due = {}
  <2>1. CASE StartWalk
    <3> DEFINE S == {p \in Pids : Image(p).alive}
    <3>1. walk' = [NoWalk EXCEPT !.at = "next", !.todo = S]
      BY <2>1 DEF StartWalk
    <3>2. S \in SUBSET Pids
      OBVIOUS
    <3> HIDE DEF S
    <3>3. walk' \in Walks
      BY <3>1, <3>2, FreshWalks
    <3> QED BY <3>1, <3>3 DEF NoWalk
  <2>2. CASE EndWalk
    BY <2>2, FreshWalks DEF EndWalk, NoWalk
  <2> QED BY <2>1, <2>2
<1> QED BY <1>1, <1>2 DEF MemInv, MemTypes, WalkIsSomewhere, Mapped, NothingDueOfNone, DueKept

\* The walk comes to a process, and what is injected there becomes due.
LEMMA NextProcessKeeps ==
  ASSUME MemInv, NEW p \in Pids, NextProcess(p)
  PROVE  MemInv'
<1>1. walk \in Walks /\ walk.at = "next" /\ UNCHANGED <<platform, process, managedCache>>
  BY DEF MemInv, MemTypes, NextProcess
<1>2. CASE Image(p).alive
  <2> DEFINE b == process[p].birth
             j == Image(p).jit
             d == Injected(Image(p).memory)
             at == IF platform = "windows" THEN "named" ELSE "managed"
  <2>1. walk' = [walk EXCEPT !.at = at, !.todo = @ \ {p}, !.pid = p, !.birth = b,
                             !.jit = j, !.i = 0, !.total = 0, !.due = d]
    BY <1>2 DEF NextProcess
  <2>2. b \in Nat /\ j \in BOOLEAN /\ d \in SUBSET (1..Regions) /\ 0 \in 0..Regions
    BY ProcessTypes, MemNumbers DEF Injected
  <2>3. \A i \in d : Betrays(Image(p).memory[i]) /\ ~(i <= 0)
    BY MemNumbers DEF Injected
  <2>9. at \in {"named", "managed"}
    OBVIOUS
  <2> HIDE DEF b, j, d, at
  <2>4. /\ walk' \in Walks /\ walk'.at \in {"named", "managed"} /\ walk'.pid = p /\ walk'.i = 0
        /\ walk'.due = d
    BY <1>1, <2>1, <2>2, <2>9 DEF Walks
  <2>5. Image(p)' = Image(p) /\ platform' = platform
    BY <1>1 DEF Image
  <2>6. DueIsKept(walk', Image(p))
    BY <1>2, <2>3, <2>4 DEF DueIsKept, Mapped
  <2>7. p # NoPid
    BY MemNumbers
  <2>8. DueKept'
    BY <2>4, <2>5, <2>6 DEF DueKept, DueIsKept, Reported, Sign, Mapped, Betrays, Image
  <2> QED BY <1>1, <2>4, <2>7, <2>8
          DEF MemInv, MemTypes, WalkIsSomewhere, Mapped, NothingDueOfNone
<1>3. CASE ~Image(p).alive
  <2>1. walk' = [walk EXCEPT !.todo = @ \ {p}]
    BY <1>3 DEF NextProcess
  <2>2. /\ walk' \in Walks /\ walk'.at = "next" /\ walk'.pid = walk.pid /\ walk'.due = walk.due
        /\ walk'.threats = walk.threats /\ walk'.jit = walk.jit
    BY <1>1, <2>1 DEF Walks
  <2>3. DueKept'
    BY <1>1, <2>2 DEF MemInv, DueKept, DueIsKept, Reported, Sign, Image
  <2> QED BY <1>1, <2>2, <2>3
          DEF MemInv, MemTypes, WalkIsSomewhere, Mapped, NothingDueOfNone
<1> QED BY <1>2, <1>3

\* The process is left before its regions are through.
LEMMA LeaveKeeps ==
  ASSUME MemInv, LeaveProcess \/ ProcessGone
  PROVE  MemInv'
<1>1. walk \in Walks /\ UNCHANGED <<platform, process, managedCache>>
  BY DEF MemInv, MemTypes, LeaveProcess, ProcessGone
<1>2. /\ walk' \in Walks /\ walk'.at = "next" /\ walk'.due = {}
  <2>1. {} \in SUBSET (1..Regions)
    OBVIOUS
  <2>2. CASE LeaveProcess
    BY <1>1, <2>1, <2>2 DEF LeaveProcess, Walks
  <2>3. CASE ProcessGone
    BY <1>1, <2>1, <2>3 DEF ProcessGone, Walks
  <2> QED BY <2>2, <2>3
<1>3. DueKept'
  BY <1>2 DEF DueKept, DueIsKept
<1> QED BY <1>1, <1>2, <1>3 DEF MemInv, MemTypes, WalkIsSomewhere, Mapped, NothingDueOfNone

\* What is due when the walk looks again who has the pid.
LEMMA DueByNow ==
  ASSUME MemInv, walk.at \in {"named", "open"}, Image(walk.pid).alive
  PROVE  /\ DueNow \in SUBSET (1..Regions)
         /\ \A i \in DueNow : Betrays(Image(walk.pid).memory[i]) /\ ~(i <= 0)
<1>1. /\ walk \in Walks /\ walk.pid # NoPid /\ walk.i = 0
      /\ \A i \in 1..Regions : ~(i <= 0)
  BY MemNumbers DEF MemInv, MemTypes, WalkIsSomewhere
<1>2. CASE SameProcess
  <2>1. walk.due \in SUBSET (1..Regions) /\ DueNow = walk.due
    BY <1>1, <1>2 DEF Walks, DueNow
  <2>2. \A i \in walk.due : Betrays(Image(walk.pid).memory[i])
    BY <1>1, <2>1 DEF MemInv, DueKept, DueIsKept
  <2> QED BY <1>1, <2>1, <2>2
<1>3. CASE ~SameProcess
  BY <1>1, <1>3 DEF DueNow, Injected
<1> QED BY <1>2, <1>3

\* Windows opens the process.
LEMMA OpenProcessKeeps ==
  ASSUME MemInv, OpenProcess
  PROVE  MemInv'
<1>1. /\ walk \in Walks /\ walk.at = "named" /\ UNCHANGED <<platform, process, managedCache>>
      /\ walk.pid \in Pids /\ walk.pid # NoPid /\ walk.i = 0 /\ Image(walk.pid).alive
  BY DEF MemInv, MemTypes, OpenProcess, WalkIsSomewhere, Walks
<1> DEFINE d == DueNow
           b == process[walk.pid].birth
<1>2. walk' = [walk EXCEPT !.at = "managed", !.birth = b, !.due = d]
  BY DEF OpenProcess
<1>3. /\ b \in Nat /\ d \in SUBSET (1..Regions)
      /\ \A i \in d : Betrays(Image(walk.pid).memory[i]) /\ ~(i <= 0)
  BY <1>1, ProcessTypes, DueByNow
<1> HIDE DEF d, b
<1>4. /\ walk' \in Walks /\ walk'.at = "managed" /\ walk'.pid = walk.pid /\ walk'.i = 0
      /\ walk'.due = d
  BY <1>1, <1>2, <1>3 DEF Walks
<1>5. DueKept'
  BY <1>1, <1>3, <1>4 DEF DueKept, DueIsKept, Mapped, Betrays, Image
<1> QED BY <1>1, <1>4, <1>5
        DEF MemInv, MemTypes, WalkIsSomewhere, Mapped, NothingDueOfNone

\* A process that is managed is read from the cache, or judged now.
LEMMA IsManagedKeeps ==
  ASSUME MemInv, IsManaged
  PROVE  MemInv'
<1>1. /\ walk \in Walks /\ walk.at = "managed" /\ UNCHANGED <<platform, process>>
      /\ walk.pid \in Pids /\ walk.i = 0
  BY DEF MemInv, MemTypes, IsManaged, WalkIsSomewhere, Walks
<1>2. managedCache' \in [Pids -> {"unknown", "managed", "native"}]
  <2>1. managedCache[walk.pid] \in {"unknown", "managed", "native"}
    BY <1>1 DEF MemInv, MemTypes
  <2> QED BY <1>1, <2>1 DEF MemInv, MemTypes, IsManaged
<1> DEFINE at == IF platform = "windows" THEN "regions" ELSE "open"
<1>3. \E j \in BOOLEAN : walk' = [walk EXCEPT !.at = at, !.jit = j]
  <2>1. CASE walk.jit
    <3>1. walk' = [walk EXCEPT !.at = at] /\ walk.jit \in BOOLEAN
      BY <1>1, <2>1 DEF IsManaged, Walks
    <3>2. walk' = [walk EXCEPT !.at = at, !.jit = walk.jit]
      BY <1>1, <3>1 DEF Walks
    <3> QED BY <3>1, <3>2
  <2>2. CASE ~walk.jit
    BY <1>1, <2>2 DEF IsManaged
  <2> QED BY <2>1, <2>2
<1>6. at \in {"regions", "open"} /\ (at = "regions" => platform = "windows") /\ 0 < Regions
  BY MemNumbers
<1> HIDE DEF at
<1>4. /\ walk' \in Walks /\ walk'.at = at /\ walk'.pid = walk.pid /\ walk'.i = 0
      /\ walk'.due = walk.due /\ walk'.threats = walk.threats
  BY <1>1, <1>3, <1>6 DEF Walks
<1>7. walk.due \in SUBSET (1..Regions) /\ \A i \in 1..Regions : ~(i <= 0)
  BY <1>1, MemNumbers DEF Walks
<1>5. DueKept'
  BY <1>1, <1>4, <1>6, <1>7 DEF MemInv, DueKept, DueIsKept, Mapped, Betrays, Image
<1> QED BY <1>1, <1>2, <1>4, <1>5, <1>6
        DEF MemInv, MemTypes, WalkIsSomewhere, Mapped, NothingDueOfNone

\* Linux and macOS read all regions at once.
LEMMA ReadMapsKeeps ==
  ASSUME MemInv, ReadMaps
  PROVE  MemInv'
<1>1. /\ walk \in Walks /\ walk.at = "open" /\ UNCHANGED <<platform, process, managedCache>>
      /\ walk.pid \in Pids /\ walk.pid # NoPid /\ walk.i = 0 /\ Image(walk.pid).alive
  BY DEF MemInv, MemTypes, ReadMaps, WalkIsSomewhere, Walks
<1> DEFINE d == DueNow
           b == process[walk.pid].birth
           m == Image(walk.pid).memory
           at == IF platform = "linux" THEN "mem" ELSE "regions"
<1>2. walk' = [walk EXCEPT !.at = at, !.birth = b, !.map = m, !.due = d]
  BY DEF ReadMaps
<1>3. /\ b \in Nat /\ m \in Memories /\ d \in SUBSET (1..Regions) /\ at \in {"mem", "regions"}
      /\ \A i \in d : Betrays(m[i]) /\ ~(i <= 0)
  BY <1>1, ProcessTypes, DueByNow
<1> HIDE DEF d, b, at
<1>4. /\ walk' \in Walks /\ walk'.at = at /\ walk'.pid = walk.pid /\ walk'.i = 0
      /\ walk'.map = m /\ walk'.due = d
  BY <1>1, <1>2, <1>3 DEF Walks
<1>5. DueKept'
  BY <1>1, <1>3, <1>4 DEF DueKept, DueIsKept, Betrays, Image
<1> QED BY <1>1, <1>3, <1>4, <1>5, MemNumbers
        DEF MemInv, MemTypes, WalkIsSomewhere, Mapped, NothingDueOfNone

\* Linux opens the memory, of whoever has the pid.
LEMMA OpenMemKeeps ==
  ASSUME MemInv, OpenMem
  PROVE  MemInv'
<1>1. /\ walk \in Walks /\ walk.at = "mem" /\ UNCHANGED <<platform, process, managedCache>>
      /\ walk.pid \in Pids /\ walk.pid # NoPid /\ walk.i = 0 /\ walk.map \in Memories
  BY DEF MemInv, MemTypes, OpenMem, WalkIsSomewhere, Mapped, Walks
<1> DEFINE b == process[walk.pid].birth
<1>2. walk' = [walk EXCEPT !.at = "regions", !.birth = b] /\ b \in Nat
  BY <1>1, ProcessTypes DEF OpenMem
<1> HIDE DEF b
<1>3. /\ walk' \in Walks /\ walk'.at = "regions" /\ walk'.pid = walk.pid /\ walk'.i = 0
      /\ walk'.map = walk.map /\ walk'.due = walk.due
  BY <1>1, <1>2 DEF Walks
<1>4. walk.due \in SUBSET (1..Regions) /\ \A i \in 1..Regions : ~(i <= 0)
  BY <1>1, MemNumbers DEF Walks
<1>5. DueKept'
  BY <1>1, <1>3, <1>4 DEF MemInv, DueKept, DueIsKept, Mapped, Betrays, Image
<1> QED BY <1>1, <1>3, <1>5, MemNumbers
        DEF MemInv, MemTypes, WalkIsSomewhere, Mapped, NothingDueOfNone

\* Windows asks for the next region.
LEMMA QueryRegionKeeps ==
  ASSUME MemInv, QueryRegion
  PROVE  MemInv'
<1>1. /\ walk \in Walks /\ walk.at = "regions" /\ UNCHANGED <<platform, process, managedCache>>
      /\ walk.pid \in Pids /\ walk.pid # NoPid /\ walk.i < Regions
  BY DEF MemInv, MemTypes, QueryRegion, WalkIsSomewhere, Walks
<1> DEFINE m == Image(walk.pid).memory
<1>2. walk' = [walk EXCEPT !.at = "read", !.map = m] /\ m \in Memories
  BY <1>1, ProcessTypes DEF QueryRegion
<1>3. /\ walk' \in Walks /\ walk'.at = "read" /\ walk'.pid = walk.pid /\ walk'.i = walk.i
      /\ walk'.map = m /\ walk'.due = walk.due /\ walk'.threats = walk.threats
      /\ walk'.jit = walk.jit
  BY <1>1, <1>2 DEF Walks
<1>4. DueKept'
  BY <1>1, <1>3 DEF MemInv, DueKept, DueIsKept, Reported, Sign, Betrays, Image
<1> QED BY <1>1, <1>2, <1>3, <1>4
        DEF MemInv, MemTypes, WalkIsSomewhere, Mapped, NothingDueOfNone

\* A region is judged: one that is due is reported, or its process has changed.
LEMMA ScanRegionKeeps ==
  ASSUME MemInv, ScanRegion
  PROVE  MemInv'
<1> DEFINE i == walk.i + 1
           r == walk.map[i]
           there == Image(walk.pid).memory[i]
<1>1. /\ walk \in Walks /\ walk.at # "next" /\ Mapped(walk)
      /\ UNCHANGED <<platform, process, managedCache>>
      /\ walk.pid \in Pids /\ walk.pid # NoPid /\ walk.map \in Memories
      /\ walk.i \in Nat /\ walk.i < Regions
  BY MemNumbers DEF MemInv, MemTypes, ScanRegion, WalkIsSomewhere, Mapped, Walks
<1>2. i \in 1..Regions /\ i \in 0..Regions
  BY <1>1, MemNumbers
<1>3. r \in Contents /\ there \in Contents
  <2>1. Image(walk.pid).memory \in Memories
    BY <1>1, ProcessTypes
  <2> HIDE DEF i
  <2> QED BY <1>1, <1>2, <2>1 DEF Memories
<1>4. PICK sample \in Samples(r, there, SameProcess) : Judge(i, r, sample)
  BY DEF ScanRegion
<1>5. sample # "none" => sample = there.head
  BY <1>4 DEF Samples
<1> DEFINE full == Scanned(r, sample) >= MaxScanBytes
           failed == IsRead(r) /\ sample = "none"
           total == Scanned(r, sample)
           found == walk.threats \cup Found(i, r, sample)
           d == (IF full THEN walk.due \cap 1..i ELSE walk.due) \ (IF failed THEN {i} ELSE {})
           at == IF full \/ i = Regions THEN "next" ELSE "regions"
<1>6. walk' = [walk EXCEPT !.i = i, !.total = total, !.threats = found, !.due = d, !.at = at]
  BY <1>4 DEF Judge
<1>7. total \in Nat
  BY <1>1, <1>3, MemNumbers DEF Scanned, Walks
<1>8. found \in SUBSET [pid : Pids, region : 1..Regions,
                        type : {"reflective_pe", "shellcode_signature", "unbacked_executable"}]
  <2>1. ThreatTypes(r, sample, walk.jit)
          \subseteq {"reflective_pe", "shellcode_signature", "unbacked_executable"}
    BY DEF ThreatTypes
  <2>2. Found(i, r, sample) \subseteq
          [pid : Pids, region : 1..Regions,
           type : {"reflective_pe", "shellcode_signature", "unbacked_executable"}]
    <3> HIDE DEF i, r
    <3> QED BY <1>1, <1>2, <2>1 DEF Found
  <2> QED BY <1>1, <2>2 DEF Walks
<1>9. d \in SUBSET (1..Regions) /\ d \subseteq walk.due
  BY <1>1 DEF Walks
<1>10. i \in d /\ r = there /\ Betrays(there) =>
         \/ platform = "darwin" /\ walk.jit
         \/ [pid |-> walk.pid, region |-> i, type |-> Sign] \in found
  <2> SUFFICES ASSUME i \in d, r = there, Betrays(there), ~(platform = "darwin" /\ walk.jit)
               PROVE  [pid |-> walk.pid, region |-> i, type |-> Sign] \in Found(i, r, sample)
    OBVIOUS
  <2>1. LookedAt(r)
    BY DEF Betrays, Unbacked, LookedAt
  <2>2. platform # "darwin" => sample = "pe"
    BY <1>5, <2>1 DEF IsRead, Betrays
  <2>3. Sign \in ThreatTypes(r, sample, walk.jit)
    <3>1. CASE platform = "darwin"
      BY <3>1 DEF ThreatTypes, Sign, Betrays
    <3>2. CASE platform # "darwin"
      BY <2>2, <3>2 DEF ThreatTypes, HasPe, Sign
    <3> QED BY <3>1, <3>2
  <2>4. Judged(r, sample)
    BY <2>1, <2>2 DEF Judged
  <2> HIDE DEF i, r
  <2> QED BY <2>3, <2>4 DEF Found
<1>11. at = "next" => \A k \in d : k <= i
  BY <1>1, <1>2, <1>9 DEF Walks
<1>12. at \in {"next", "regions"} /\ (at = "regions" => i < Regions)
  BY <1>2, MemNumbers
<1>13. walk.threats \subseteq found
  OBVIOUS
<1>14. \A k \in 1..Regions : k <= i => k <= walk.i \/ k = i
  BY <1>1, MemNumbers
<1> HIDE DEF i, r, there, d, at, total, found, full
<1>15. /\ walk' \in Walks /\ walk'.at = at /\ walk'.pid = walk.pid /\ walk'.i = i
       /\ walk'.map = walk.map /\ walk'.due = d /\ walk'.threats = found
       /\ walk'.jit = walk.jit
  BY <1>1, <1>2, <1>6, <1>7, <1>8, <1>9, <1>12 DEF Walks
<1>16. DueIsKept(walk, Image(walk.pid))
  BY <1>1 DEF MemInv, DueKept
<1>17. ASSUME NEW k \in d, k <= i PROVE Reported(walk', k)
  <2>1. k \in 1..Regions /\ k \in walk.due
    BY <1>9, <1>17
  <2>2. CASE k <= walk.i
    BY <1>1, <1>13, <1>15, <1>16, <2>1, <2>2 DEF DueIsKept, Reported
  <2>3. CASE k = i /\ ~(k <= walk.i)
    <3>1. Betrays(there) /\ r = there
      BY <1>1, <1>16, <2>1, <2>3 DEF DueIsKept, there, r
    <3> QED BY <1>10, <1>15, <1>17, <2>3, <3>1 DEF Reported
  <2> QED BY <1>14, <1>17, <2>1, <2>2, <2>3
<1>18. ASSUME NEW k \in d, ~(k <= i)
       PROVE  Betrays(Image(walk.pid).memory[k]) /\ walk.map[k] = Image(walk.pid).memory[k]
  <2>1. k \in 1..Regions /\ k \in walk.due /\ ~(k <= walk.i)
    BY <1>1, <1>9, <1>18, MemNumbers DEF i
  <2> QED BY <1>1, <1>16, <2>1 DEF DueIsKept
<1>19. DueIsKept(walk', Image(walk.pid))
  <2>1. walk'.due # {} => Image(walk.pid).alive
    BY <1>9, <1>15, <1>16 DEF DueIsKept
  <2> QED BY <1>11, <1>15, <1>17, <1>18, <2>1 DEF DueIsKept
<1>20. DueKept'
  BY <1>1, <1>15, <1>19 DEF DueKept, DueIsKept, Reported, Sign, Mapped, Betrays, Image
<1> QED BY <1>1, <1>12, <1>15, <1>20
        DEF MemInv, MemTypes, WalkIsSomewhere, Mapped, NothingDueOfNone

\* A step of the process p, by which the walk may at most have less that is due.
LEMMA ProcessMoves ==
  ASSUME MemInv, NEW p \in Pids, NEW q \in AllProcesses, process' = [process EXCEPT ![p] = q],
         UNCHANGED <<platform, managedCache>>, NEW d \in SUBSET walk.due,
         walk' = [walk EXCEPT !.due = d], walk.pid # p => d = walk.due,
         walk.pid = p => DueIsKept(walk', q.image)
  PROVE  MemInv'
<1>1. walk \in Walks /\ process \in [Pids -> AllProcesses]
  BY DEF MemInv, MemTypes
<1>2. process' \in [Pids -> AllProcesses]
  BY <1>1
<1>3. d \in SUBSET (1..Regions)
  BY <1>1 DEF Walks
<1>4. /\ walk' \in Walks /\ walk'.at = walk.at /\ walk'.pid = walk.pid /\ walk'.i = walk.i
      /\ walk'.map = walk.map /\ walk'.due = d /\ walk'.threats = walk.threats
      /\ walk'.jit = walk.jit
  BY <1>1, <1>3 DEF Walks
<1>5. DueKept'
  <2>1. CASE walk.pid = p
    BY <1>1, <1>4, <2>1 DEF DueKept, DueIsKept, Reported, Sign, Mapped, Betrays, Image
  <2>2. CASE walk.pid # p
    <3>1. process'[walk'.pid] = process[walk.pid] \/ walk.pid = NoPid
      BY <1>1, <1>4, <2>2 DEF Walks
    <3> QED BY <1>4, <2>2, <3>1 DEF MemInv, DueKept, DueIsKept, Reported, Sign, Mapped,
            Betrays, Image
  <2> QED BY <2>1, <2>2
<1> QED BY <1>1, <1>2, <1>4, <1>5
        DEF MemInv, MemTypes, WalkIsSomewhere, Mapped, NothingDueOfNone

\* The walk stays what it is.
LEMMA WalkStays ==
  ASSUME MemInv
  PROVE  walk = [walk EXCEPT !.due = walk.due] /\ walk.due \in SUBSET walk.due
BY DEF MemInv, MemTypes, Walks

\* A process changes a region: what it overwrites is no longer due.
LEMMA ChangeKeeps ==
  ASSUME MemInv, NEW p \in Pids, NEW i \in 1..Regions, NEW r \in Contents, Change(p, i, r)
  PROVE  MemInv'
<1> DEFINE m == [Image(p).memory EXCEPT ![i] = r]
           image == [Image(p) EXCEPT !.memory = m]
           q == [process[p] EXCEPT !.image = image]
           d == IF walk.pid = p THEN walk.due \ {i} ELSE walk.due
<1>1. /\ process \in [Pids -> AllProcesses] /\ process[p] \in AllProcesses
      /\ Image(p) \in AllImages /\ Image(p).memory \in Memories /\ walk \in Walks
  BY ProcessTypes DEF MemInv, MemTypes
<1>2. m \in Memories /\ \A k \in (1..Regions) \ {i} : m[k] = Image(p).memory[k]
  BY <1>1 DEF Memories
<1>3. process' = [process EXCEPT ![p] = q] /\ UNCHANGED <<platform, managedCache>>
  BY <1>1 DEF Change, Image, AllProcesses, AllImages
<1> HIDE DEF m
<1>4. image \in AllImages /\ image.memory = m /\ image.alive = Image(p).alive
  BY <1>1, <1>2 DEF AllImages
<1> HIDE DEF image
<1>5. q \in AllProcesses /\ q.image = image
  BY <1>1, <1>4 DEF AllProcesses
<1>6. walk' = [walk EXCEPT !.due = d]
  BY DEF Change, Forgive
<1>7. /\ walk'.at = walk.at /\ walk'.pid = walk.pid /\ walk'.i = walk.i /\ walk'.due = d
      /\ walk'.threats = walk.threats /\ walk'.jit = walk.jit /\ walk'.map = walk.map
  BY <1>1, <1>6 DEF Walks
<1>8. ASSUME walk.pid = p PROVE DueIsKept(walk', q.image)
  <2>1. DueIsKept(walk, Image(p))
    BY <1>8, MemNumbers DEF MemInv, DueKept
  <2>2. d = walk.due \ {i} /\ d \subseteq 1..Regions
    BY <1>1, <1>8 DEF Walks
  <2> HIDE DEF d
  <2> QED BY <1>2, <1>4, <1>5, <1>7, <2>1, <2>2 DEF DueIsKept, Reported, Mapped
<1>9. d \in SUBSET walk.due /\ (walk.pid # p => d = walk.due)
  OBVIOUS
<1> HIDE DEF d, q
<1> QED BY <1>3, <1>5, <1>6, <1>8, <1>9, ProcessMoves

LEMMA LoadRuntimeKeeps ==
  ASSUME MemInv, NEW p \in Pids, LoadRuntime(p)
  PROVE  MemInv'
<1> DEFINE image == [Image(p) EXCEPT !.runtime = TRUE]
           q == [process[p] EXCEPT !.image = image]
<1>1. /\ process \in [Pids -> AllProcesses] /\ process[p] \in AllProcesses
      /\ Image(p) \in AllImages
  BY ProcessTypes DEF MemInv, MemTypes
<1>2. /\ process' = [process EXCEPT ![p] = q]
      /\ UNCHANGED <<platform, managedCache, walk>>
  BY <1>1 DEF LoadRuntime, Image, AllProcesses, AllImages
<1>3. image \in AllImages /\ image.memory = Image(p).memory /\ image.alive = Image(p).alive
  BY <1>1 DEF AllImages
<1> HIDE DEF image
<1>4. q \in AllProcesses /\ q.image = image
  BY <1>1, <1>3 DEF AllProcesses
<1>5. walk.pid = p => DueIsKept(walk', q.image)
  BY <1>2, <1>3, <1>4, MemNumbers DEF MemInv, DueKept, DueIsKept, Reported
<1> HIDE DEF q
<1> QED BY <1>2, <1>4, <1>5, WalkStays, ProcessMoves

LEMMA ExitKeeps ==
  ASSUME MemInv, NEW p \in Pids, Exit(p)
  PROVE  MemInv'
<1> DEFINE image == [Image(p) EXCEPT !.alive = FALSE]
           q == [process[p] EXCEPT !.image = image]
           d == IF walk.pid = p THEN {} ELSE walk.due
<1>1. /\ process \in [Pids -> AllProcesses] /\ process[p] \in AllProcesses
      /\ Image(p) \in AllImages /\ walk \in Walks
  BY ProcessTypes DEF MemInv, MemTypes
<1>2. process' = [process EXCEPT ![p] = q] /\ UNCHANGED <<platform, managedCache>>
  BY <1>1 DEF Exit, Image, AllProcesses, AllImages
<1>3. image \in AllImages
  BY <1>1 DEF AllImages
<1> HIDE DEF image
<1>4. q \in AllProcesses
  BY <1>1, <1>3 DEF AllProcesses
<1>5. walk' = [walk EXCEPT !.due = d]
  BY DEF Exit
<1>6. walk'.due = d
  BY <1>1, <1>5 DEF Walks
<1>7. walk.pid = p => DueIsKept(walk', q.image)
  BY <1>6 DEF DueIsKept
<1>8. d \in SUBSET walk.due /\ (walk.pid # p => d = walk.due)
  OBVIOUS
<1> HIDE DEF d, q
<1> QED BY <1>2, <1>4, <1>5, <1>7, <1>8, ProcessMoves

\* A pid is given again.
LEMMA SpawnKeeps ==
  ASSUME MemInv, NEW p \in Pids, NEW image \in Images, Spawn(p, image)
  PROVE  MemInv'
<1> DEFINE q == [birth |-> process[p].birth + 1, image |-> image]
<1>1. image \in AllImages
  BY DEF Images, AllImages, Memories
<1>2. process[p].birth \in Nat /\ walk \in Walks
  BY ProcessTypes DEF MemInv, MemTypes
<1>3. q \in AllProcesses
  BY <1>1, <1>2 DEF AllProcesses
<1>4. /\ process' = [process EXCEPT ![p] = q] /\ ~Image(p).alive
      /\ UNCHANGED <<platform, managedCache, walk>>
  BY DEF Spawn
<1> HIDE DEF q
<1>5. walk.pid = p => DueIsKept(walk', q.image)
  BY <1>4, MemNumbers DEF MemInv, DueKept, DueIsKept
<1> QED BY <1>3, <1>4, <1>5, WalkStays, ProcessMoves

LEMMA MemStart == MemInit => MemInv
<1> SUFFICES ASSUME MemInit PROVE MemInv
  OBVIOUS
<1>1. \A m \in Images : m \in AllImages
  BY DEF Images, AllImages, Memories
<1>2. \A m \in Images : [birth |-> 1, image |-> m] \in AllProcesses
  BY <1>1 DEF AllProcesses
<1>3. process \in [Pids -> AllProcesses]
  BY <1>2 DEF MemInit
<1>4. walk \in Walks /\ walk.at = "out" /\ walk.pid = NoPid /\ walk.due = {}
  BY FreshWalks DEF MemInit, NoWalk
<1> QED BY <1>3, <1>4
        DEF MemInit, MemInv, MemTypes, WalkIsSomewhere, Mapped, NothingDueOfNone, DueKept

LEMMA MemKeeps == MemInv /\ [MemNext]_memVars => MemInv'
<1>1. ASSUME MemInv, UNCHANGED memVars PROVE MemInv'
  BY <1>1 DEF MemInv, MemTypes, WalkIsSomewhere, NothingDueOfNone, DueKept, DueIsKept, Reported,
              Sign, Mapped, Betrays, Image, memVars
<1> QED BY <1>1, WalkBegins, NextProcessKeeps, OpenProcessKeeps, LeaveKeeps, IsManagedKeeps,
           ReadMapsKeeps, OpenMemKeeps, QueryRegionKeeps, ScanRegionKeeps, ChangeKeeps,
           LoadRuntimeKeeps, ExitKeeps, SpawnKeeps
        DEF MemNext

LEMMA MemInvTypes == MemInv => MemOK
BY DEF MemInv, MemTypes, Walks, MemOK

\* The types of a scan of the memory.
THEOREM MemoryTypeCorrect == MemSpec => []MemOK
BY MemInvTypes, MemStart, MemKeeps, PTL DEF MemSpec

\* Whatever the number of processes and of their regions, and whatever they do while
\* the scan walks over them: injected code that stays and can be read is reported, unless
\* the scan had its fill before it; on macOS, where nothing is read, code that can be
\* written of what is not taken for a runtime.
THEOREM InjectionIsReported == MemSpec => []InjectedFound
<1>1. MemInv => InjectedFound
  BY DEF MemInv, DueKept, DueIsKept, Reported, InjectedFound
<1> QED BY <1>1, MemStart, MemKeeps, PTL DEF MemSpec

-----------------------------------------------------------------------------
(* Sandbox.  The program is alive only while run_binary waits for it, and  *)
(* the job takes its processes with it when it is closed.                  *)

SandboxRuns ==
  [at : {"out", "emulate", "stage", "copy", "spawn", "assign", "wait", "close",
         "look", "clean", "done", "raised"},
   mode : {"none", "emulation", "detonation", "hybrid"},
   emulated : SUBSET {"yara", "severe", "evasion", "mild"},
   timedOut : BOOLEAN,
   report : [mode : {"none", "emulation", "detonation", "hybrid"},
             reasons : SUBSET {"yara", "severe", "evasion", "mild", "script", "cipher"},
             seen : SUBSET Drops, timedOut : BOOLEAN]]

Processes == [alive : BOOLEAN, born : BOOLEAN, jobbed : BOOLEAN]

SandboxTypes ==
  /\ run \in SandboxRuns /\ job \in {"none", "lax", "strict", "closed"}
  /\ folder \in [there : BOOLEAN, files : SUBSET Drops] /\ (folder.files # {} => folder.there)
  /\ procs \in [Family -> Processes]

RootIsWaitedFor == procs[Root].alive => run.at \in {"assign", "wait"}

ClosedJobIsEmpty ==
  job = "closed" => /\ run.at \in {"look", "clean", "done"}
                    /\ \A p \in Alive : ~procs[p].jobbed

SandboxInv == SandboxTypes /\ RootIsWaitedFor /\ ClosedJobIsEmpty

\* The report of a suspicious run gives a signal.
LEMMA SuspicionIsSignalled == \A r : Signals(r) # {} \/ ~IsSuspicious(r)
BY DEF Signals, IsSuspicious

\* A folder is made, and it is gone.
LEMMA EmptyFolders ==
  \A b \in BOOLEAN : LET f == [there |-> b, files |-> {}]
                     IN  f \in [there : BOOLEAN, files : SUBSET Drops] /\ f.files = {}
<1>1. {} \in SUBSET Drops
  OBVIOUS
<1> QED BY <1>1

\* A step of the call that leaves the processes and the job alone.
LEMMA CallGoes ==
  ASSUME SandboxInv, run' \in SandboxRuns, UNCHANGED <<job, procs>>, job # "closed",
         run.at \notin {"assign", "wait"},
         folder' \in [there : BOOLEAN, files : SUBSET Drops],
         folder'.files # {} => folder'.there
  PROVE  SandboxInv'
BY DEF SandboxInv, SandboxTypes, RootIsWaitedFor, ClosedJobIsEmpty, Alive

\* A step that kills some processes.
LEMMA KilledStay ==
  ASSUME SandboxInv, NEW S \in SUBSET Family, procs' = Kill(S)
  PROVE  /\ procs' \in [Family -> Processes]
         /\ \A p \in Family : /\ procs'[p].alive <=> procs[p].alive /\ p \notin S
                              /\ procs'[p].jobbed = procs[p].jobbed
<1>1. \A p \in Family : procs[p] \in Processes
  BY DEF SandboxInv, SandboxTypes
<1>2. \A p \in Family : procs'[p] = [procs[p] EXCEPT !.alive = @ /\ p \notin S]
  BY DEF Kill
<1>3. \A p \in Family : /\ procs'[p] \in Processes
                        /\ procs'[p].alive = (procs[p].alive /\ p \notin S)
                        /\ procs'[p].jobbed = procs[p].jobbed
  BY <1>1, <1>2 DEF Processes
<1>4. procs' = [p \in Family |-> procs'[p]]
  BY DEF Kill
<1> QED BY <1>3, <1>4

LEMMA AnalysisKeeps ==
  ASSUME SandboxInv,
         \/ \E mode \in {"emulation", "detonation", "hybrid"} : Analyze(mode)
         \/ \E found \in SUBSET {"yara", "severe", "evasion", "mild"} : Emulate(found)
         \/ NoBinary \/ Stage \/ CopyFails \/ SpawnFails
  PROVE  SandboxInv'
<1>1. run \in SandboxRuns /\ folder \in [there : BOOLEAN, files : SUBSET Drops]
  BY DEF SandboxInv, SandboxTypes
<1>2. UNCHANGED <<job, procs>> /\ run.at \in {"out", "emulate", "stage", "copy", "spawn"}
  BY DEF Analyze, Emulate, NoBinary, Stage, CopyFails, SpawnFails
<1>3. job # "closed"
  BY <1>2 DEF SandboxInv, ClosedJobIsEmpty
<1>4. /\ folder' \in [there : BOOLEAN, files : SUBSET Drops]
      /\ folder'.files # {} => folder'.there
  <2>1. CASE UNCHANGED folder
    BY <1>1, <2>1 DEF SandboxInv, SandboxTypes
  <2>2. CASE folder' = [there |-> TRUE, files |-> {}] \/ folder' = NoFolder
    BY <2>2, EmptyFolders DEF NoFolder
  <2> QED BY <2>1, <2>2 DEF Analyze, Emulate, NoBinary, Stage, CopyFails, SpawnFails
<1>5. run' \in SandboxRuns
  <2>1. ASSUME NEW mode \in {"emulation", "detonation", "hybrid"}, Analyze(mode)
        PROVE  run' \in SandboxRuns
    BY <2>1 DEF Analyze, NoRun, NoReport, SandboxRuns
  <2>2. ASSUME NEW found \in SUBSET {"yara", "severe", "evasion", "mild"}, Emulate(found)
        PROVE  run' \in SandboxRuns
    BY <1>1, <2>2 DEF Emulate, NoReport, SandboxRuns
  <2>3. CASE NoBinary \/ Stage \/ CopyFails \/ SpawnFails
    BY <1>1, <2>3 DEF NoBinary, Stage, CopyFails, SpawnFails, Going, SandboxRuns
  <2> QED BY <2>1, <2>2, <2>3
<1> QED BY <1>2, <1>3, <1>4, <1>5, CallGoes

\* The steps of run_binary, from the folder to the end of the wait.
LEMMA RunKeeps ==
  ASSUME SandboxInv,
         Copy \/ SpawnRoot \/ Assign \/ AssignFails \/ Exited \/ TimedOut \/ CloseJob
  PROVE  SandboxInv'
<1>1. /\ run \in SandboxRuns /\ procs \in [Family -> Processes]
      /\ job \in {"none", "lax", "strict", "closed"} /\ Root \in Family
  BY DEF SandboxInv, SandboxTypes, Family
<1>2. job # "closed" /\ UNCHANGED folder
  BY DEF SandboxInv, ClosedJobIsEmpty, Copy, SpawnRoot, Assign, AssignFails, Exited, TimedOut,
         CloseJob
<1>3. run' \in SandboxRuns
  <2>1. CASE TimedOut
    <3>1. PICK late \in BOOLEAN : run' = [run EXCEPT !.at = "close", !.timedOut = late]
      BY <2>1 DEF TimedOut
    <3> QED BY <1>1, <3>1 DEF SandboxRuns
  <2>2. CASE ~TimedOut
    <3>1. \E at \in {"spawn", "assign", "wait", "close", "look"} : run' = [run EXCEPT !.at = at]
      BY <2>2 DEF Copy, SpawnRoot, Assign, AssignFails, Exited, CloseJob, Going
    <3> QED BY <1>1, <3>1 DEF SandboxRuns
  <2> QED BY <2>1, <2>2
<1>4. CASE Copy \/ AssignFails \/ Exited
  <2>1. run'.at \in {"spawn", "wait", "close"} /\ UNCHANGED procs
    BY <1>1, <1>4 DEF Copy, AssignFails, Exited, Going, SandboxRuns
  <2>2. job' \in {"none", "lax", "strict"}
    BY <1>1, <1>2, <1>4 DEF Copy, AssignFails, Exited
  <2>3. RootIsWaitedFor'
    BY <1>1, <1>4, <2>1 DEF SandboxInv, RootIsWaitedFor, Copy, AssignFails, Exited, Going, SandboxRuns
  <2> QED BY <1>1, <1>2, <1>3, <2>1, <2>2, <2>3
          DEF SandboxInv, SandboxTypes, ClosedJobIsEmpty
<1>5. CASE SpawnRoot \/ Assign
  <2>1. run'.at \in {"assign", "wait"} /\ UNCHANGED job
    BY <1>1, <1>5 DEF SpawnRoot, Assign, Going, SandboxRuns
  <2>2. procs' \in [Family -> Processes]
    BY <1>1, <1>5 DEF SpawnRoot, Assign, Unborn, Processes
  <2> QED BY <1>1, <1>2, <1>3, <2>1, <2>2
          DEF SandboxInv, SandboxTypes, RootIsWaitedFor, ClosedJobIsEmpty
<1>6. CASE TimedOut
  <2>1. /\ procs' \in [Family -> Processes] /\ ~procs'[Root].alive /\ UNCHANGED job
    <3>1. {Root} \in SUBSET Family /\ procs' = Kill({Root}) /\ UNCHANGED job
      BY <1>1, <1>6 DEF TimedOut
    <3> QED BY <1>1, <3>1, KilledStay
  <2> QED BY <1>1, <1>2, <1>3, <2>1
          DEF SandboxInv, SandboxTypes, RootIsWaitedFor, ClosedJobIsEmpty
<1>7. CASE CloseJob
  <2>1. ~procs[Root].alive /\ run'.at = "look"
    BY <1>1, <1>7 DEF SandboxInv, RootIsWaitedFor, CloseJob, Going, SandboxRuns
  <2>2. CASE job = "strict"
    <3> DEFINE S == {p \in Family : procs[p].jobbed}
    <3>1. procs' = Kill(S) /\ job' = "closed"
      BY <1>7, <2>2 DEF CloseJob
    <3>2. S \in SUBSET Family
      OBVIOUS
    <3> HIDE DEF S
    <3>3. /\ procs' \in [Family -> Processes]
          /\ \A p \in Family : /\ procs'[p].alive <=> procs[p].alive /\ p \notin S
                               /\ procs'[p].jobbed = procs[p].jobbed
      BY <3>1, <3>2, KilledStay
    <3>4. \A p \in Alive' : ~procs'[p].jobbed
      BY <3>3 DEF Alive, S
    <3> QED BY <1>1, <1>2, <1>3, <2>1, <3>1, <3>3, <3>4
            DEF SandboxInv, SandboxTypes, RootIsWaitedFor, ClosedJobIsEmpty
  <2>3. CASE job # "strict"
    <3>1. UNCHANGED procs /\ job' = "none"
      BY <1>7, <2>3 DEF CloseJob
    <3> QED BY <1>1, <1>2, <1>3, <2>1, <3>1
            DEF SandboxInv, SandboxTypes, RootIsWaitedFor, ClosedJobIsEmpty
  <2> QED BY <2>2, <2>3
<1> QED BY <1>4, <1>5, <1>6, <1>7

\* The steps behind the wait, from the close of the job to the report.
LEMMA EndKeeps ==
  ASSUME SandboxInv, (\E unseen \in SUBSET Drops : LookAtFolder(unseen)) \/ Clean \/ Finish
  PROVE  SandboxInv'
<1>1. /\ run \in SandboxRuns /\ procs \in [Family -> Processes] /\ Root \in Family
      /\ folder \in [there : BOOLEAN, files : SUBSET Drops]
  BY DEF SandboxInv, SandboxTypes, Family
<1>2. ASSUME NEW unseen \in SUBSET Drops, LookAtFolder(unseen) PROVE SandboxInv'
  <2> DEFINE left == folder.files \ (unseen \cap {"cipher"})
             r == [mode |-> run.mode, timedOut |-> run.timedOut, seen |-> left,
                   reasons |-> (left \cap {"script", "cipher"}) \cup (run.emulated \cap {"evasion"})]
  <2>1. run' = [run EXCEPT !.at = "clean", !.report = r] /\ UNCHANGED <<job, procs, folder>>
    BY <1>2 DEF LookAtFolder
  <2>2. left \in SUBSET Drops
    BY <1>1
  <2> HIDE DEF left
  <2>3. r \in [mode : {"none", "emulation", "detonation", "hybrid"},
               reasons : SUBSET {"yara", "severe", "evasion", "mild", "script", "cipher"},
               seen : SUBSET Drops, timedOut : BOOLEAN]
    BY <1>1, <2>2 DEF SandboxRuns
  <2> HIDE DEF r
  <2>4. run' \in SandboxRuns /\ run'.at = "clean" /\ ~procs[Root].alive
    BY <1>1, <1>2, <2>1, <2>3 DEF SandboxRuns, SandboxInv, RootIsWaitedFor, LookAtFolder
  <2> QED BY <2>1, <2>4 DEF SandboxInv, SandboxTypes, RootIsWaitedFor, ClosedJobIsEmpty, Alive
<1>3. CASE Clean
  <2>1. run' \in SandboxRuns /\ run'.at = "done" /\ ~procs[Root].alive /\ UNCHANGED <<job, procs>>
    BY <1>1, <1>3 DEF SandboxRuns, SandboxInv, RootIsWaitedFor, Clean, Going
  <2>2. folder' \in [there : BOOLEAN, files : SUBSET Drops] /\ (folder'.files # {} => folder'.there)
    <3>1. CASE UNCHANGED folder
      BY <1>1, <3>1 DEF SandboxInv, SandboxTypes
    <3>2. CASE folder' = NoFolder
      BY <3>2, EmptyFolders DEF NoFolder
    <3> QED BY <1>3, <3>1, <3>2 DEF Clean
  <2> QED BY <2>1, <2>2 DEF SandboxInv, SandboxTypes, RootIsWaitedFor, ClosedJobIsEmpty, Alive
<1>4. CASE Finish
  <2>1. run' \in SandboxRuns
    BY <1>4 DEF Finish, NoRun, NoReport, SandboxRuns
  <2>2. procs' \in [Family -> Processes] /\ ~procs'[Root].alive /\ job' = "none" /\ UNCHANGED folder
    BY <1>1, <1>4 DEF Finish, Unborn, Processes
  <2> QED BY <2>1, <2>2 DEF SandboxInv, SandboxTypes, RootIsWaitedFor, ClosedJobIsEmpty
<1> QED BY <1>2, <1>3, <1>4

\* What the program and its children do by themselves.
LEMMA ProgramKeeps ==
  ASSUME SandboxInv,
         \/ \E p \in Family : Exits(p) \/ \E k \in Kids : Fork(p, k)
         \/ \E d \in Drops : Write(d)
  PROVE  SandboxInv'
<1>1. /\ run \in SandboxRuns /\ procs \in [Family -> Processes] /\ Root \in Family
      /\ folder \in [there : BOOLEAN, files : SUBSET Drops] /\ UNCHANGED <<run, job>>
  BY DEF SandboxInv, SandboxTypes, Family, Exits, Fork, Write
<1>2. ASSUME NEW p \in Family, Exits(p) PROVE SandboxInv'
  <2>1. UNCHANGED folder /\ procs' = Kill({p})
    BY <1>2 DEF Exits
  <2>2. /\ procs' \in [Family -> Processes]
        /\ \A q \in Family : /\ procs'[q].alive => procs[q].alive
                             /\ procs'[q].jobbed = procs[q].jobbed
    BY <2>1, KilledStay
  <2> QED BY <1>1, <2>1, <2>2
          DEF SandboxInv, SandboxTypes, RootIsWaitedFor, ClosedJobIsEmpty, Alive
<1>3. ASSUME NEW p \in Family, NEW k \in Kids, Fork(p, k) PROVE SandboxInv'
  <2>1. k \in Family /\ k # Root
    BY SandboxAssumption DEF Family
  <2>2. /\ UNCHANGED folder /\ procs[p].alive
        /\ procs' = [procs EXCEPT ![k] = [alive |-> TRUE, born |-> TRUE,
                                          jobbed |-> procs[p].jobbed]]
    BY <1>3 DEF Fork
  <2>3. procs' \in [Family -> Processes] /\ procs'[Root] = procs[Root]
    BY <1>1, <2>1, <2>2 DEF Processes
  <2>4. \A q \in Family : q # k => procs'[q] = procs[q]
    BY <1>1, <2>2
  <2>5. procs'[k].jobbed = procs[p].jobbed
    BY <1>1, <2>1, <2>2
  <2>6. ClosedJobIsEmpty'
    BY <1>1, <2>2, <2>4, <2>5 DEF SandboxInv, ClosedJobIsEmpty, Alive
  <2> QED BY <1>1, <2>2, <2>3, <2>6 DEF SandboxInv, SandboxTypes, RootIsWaitedFor
<1>4. ASSUME NEW d \in Drops, Write(d) PROVE SandboxInv'
  <2>1. UNCHANGED procs /\ folder' \in [there : BOOLEAN, files : SUBSET Drops] /\ folder'.there
    BY <1>1, <1>4 DEF Write
  <2> QED BY <1>1, <2>1
          DEF SandboxInv, SandboxTypes, RootIsWaitedFor, ClosedJobIsEmpty, Alive
<1> QED BY <1>2, <1>3, <1>4

LEMMA SandboxStart == SandboxInit => SandboxInv
BY DEF SandboxInit, SandboxInv, SandboxTypes, RootIsWaitedFor, ClosedJobIsEmpty, NoRun, NoReport,
       SandboxRuns, NoFolder, Unborn, Processes, Family

LEMMA SandboxKeeps == SandboxInv /\ [SandboxNext]_sandboxVars => SandboxInv'
<1>1. ASSUME SandboxInv, UNCHANGED sandboxVars PROVE SandboxInv'
  BY <1>1 DEF SandboxInv, SandboxTypes, RootIsWaitedFor, ClosedJobIsEmpty, Alive, sandboxVars
<1> QED BY <1>1, AnalysisKeeps, RunKeeps, EndKeeps, ProgramKeeps DEF SandboxNext

LEMMA SandboxInvTypes == SandboxInv => SandboxOK
BY SuspicionIsSignalled DEF SandboxInv, SandboxTypes, SandboxRuns, SandboxOK

\* The types of the sandbox, and that the report of a suspicious run gives a signal
\* (to_signals).
THEOREM SandboxTypeCorrect == SandboxSpec => []SandboxOK
BY SandboxInvTypes, SandboxStart, SandboxKeeps, PTL DEF SandboxSpec

\* However many processes the program starts, at whatever moment: it is dead when its
\* folder is looked at, and so is all that runs in a job that had its limits.
THEOREM JobTakesAll == SandboxSpec => []ContainedDie
<1>1. SandboxInv => ContainedDie
  BY DEF SandboxInv, RootIsWaitedFor, ClosedJobIsEmpty, ContainedDie
<1> QED BY <1>1, SandboxStart, SandboxKeeps, PTL DEF SandboxSpec

-----------------------------------------------------------------------------
(* Emulator.  As long as a worker is alone, the memory is what it has made *)
(* of it: a step of another one that changes the memory ends that.         *)

Results == [evasions : Nat, rwx : Nat, injects : BOOLEAN, payload : BOOLEAN,
            yara : SUBSET Infected]

Emulations ==
  [at : {"out", "map", "run", "rescan", "done"}, program : Programs \cup {NoProgram},
   eip : Nat, steps : 0..MaxInstructions, stores : Nat, alone : BOOLEAN, result : Results]

\* What a program without instructions leaves behind: at most the evasion of a time out.
Untouched(e) ==
  /\ e.stores = 0 /\ e.result.rwx = 0 /\ ~e.result.injects /\ ~e.result.payload
  /\ e.result.yara = {}
  /\ e.result.evasions <= IF e.at \in {"rescan", "done"} THEN 1 ELSE 0

\* What e says when its worker is alone with the memory m.
Owned(e, m) ==
  /\ e.at = "map" => m.holds = {}
  /\ e.at \in {"run", "rescan", "done"} => m.holds = {e.program} /\ m.image = e.program
  /\ e.result.yara \subseteq {e.program}
  /\ e.at # "out" /\ Code[e.program] = <<>> => Untouched(e)

EmulatorTypes ==
  /\ vm.holds \subseteq Programs
  /\ emu \in [Workers -> Emulations]
  /\ \A w \in Workers : emu[w].at # "out" => emu[w].program \in Programs

AloneIsOwned == \A w \in Workers : emu[w].alone => Owned(emu[w], vm)

EmulatorInv == EmulatorTypes /\ AloneIsOwned

LEMMA EmulatorNumbers ==
  /\ MaxInstructions \in Nat /\ PayloadSize \in Nat /\ NoProgram \notin Programs
  /\ Infected \subseteq Programs
BY EmulatorAssumption

LEMMA NewIsResult == NewResult \in Results
<1>1. {} \in SUBSET Infected
  OBVIOUS
<1> QED BY <1>1 DEF NewResult, Results

LEMMA RestedIsFree == Rested \in Emulations /\ Owned(Rested, vm)
BY NewIsResult, EmulatorNumbers DEF Rested, Emulations, Owned, NewResult, Results

\* The worker w takes a step by itself and becomes e.
LEMMA OwnStep ==
  ASSUME EmulatorInv, NEW w \in Workers, NEW e \in Emulations, emu' = [emu EXCEPT ![w] = e],
         UNCHANGED vm, e.at # "out" => e.program \in Programs, e.alone => Owned(e, vm)
  PROVE  EmulatorInv'
<1>1. /\ emu' \in [Workers -> Emulations] /\ emu'[w] = e
      /\ \A v \in Workers \ {w} : emu'[v] = emu[v]
  BY DEF EmulatorInv, EmulatorTypes
<1> QED BY <1>1 DEF EmulatorInv, EmulatorTypes, AloneIsOwned

\* The worker w changes the memory and becomes e, and no other is alone any more.
LEMMA SharedStep ==
  ASSUME EmulatorInv, NEW w \in Workers, NEW e \in Emulations, Disturb(w, e),
         vm'.holds \subseteq Programs, e.at # "out" => e.program \in Programs,
         e.alone => Owned(e, vm')
  PROVE  EmulatorInv'
<1>1. \A v \in Workers : emu[v] \in Emulations
  BY DEF EmulatorInv, EmulatorTypes
<1>2. ASSUME NEW v \in Workers, v # w
      PROVE  /\ emu'[v] \in Emulations /\ emu'[v].at = emu[v].at /\ ~emu'[v].alone
             /\ emu'[v].program = emu[v].program
  <2>1. emu'[v] = [emu[v] EXCEPT !.alone = FALSE]
    BY <1>2 DEF Disturb
  <2> QED BY <1>1, <2>1 DEF Emulations
<1>3. emu'[w] = e
  BY DEF Disturb
<1>4. emu' = [v \in Workers |-> emu'[v]]
  BY DEF Disturb
<1>5. emu' \in [Workers -> Emulations]
  BY <1>2, <1>3, <1>4
<1>6. \A v \in Workers : emu'[v].at # "out" => emu'[v].program \in Programs
  BY <1>2, <1>3 DEF EmulatorInv, EmulatorTypes
<1>7. AloneIsOwned'
  BY <1>2, <1>3 DEF AloneIsOwned
<1> QED BY <1>5, <1>6, <1>7 DEF EmulatorInv, EmulatorTypes

LEMMA NewVmKeeps ==
  ASSUME EmulatorInv, NEW w \in Workers, NEW p \in Programs, NewVm(w, p)
  PROVE  EmulatorInv'
<1> DEFINE e == [Rested EXCEPT !.at = "map", !.program = p,
                               !.alone = \A v \in Workers \ {w} : emu[v].at = "out"]
<1>1. Disturb(w, e) /\ vm' = NewMemory
  BY DEF NewVm
<1>2. Rested \in Emulations
  BY RestedIsFree
<1>3. e \in Emulations /\ e.at = "map" /\ e.program = p /\ e.stores = 0 /\ e.result = NewResult
  BY <1>2 DEF Emulations, Rested
<1> HIDE DEF e
<1>4. Owned(e, vm')
  BY <1>1, <1>3 DEF Owned, Untouched, NewMemory, NewResult
<1>5. vm'.holds \subseteq Programs
  BY <1>1 DEF NewMemory
<1> QED BY <1>1, <1>3, <1>4, <1>5, SharedStep

LEMMA MapKeeps ==
  ASSUME EmulatorInv, NEW w \in Workers, Map(w)
  PROVE  EmulatorInv'
<1> DEFINE e == [emu[w] EXCEPT !.at = "run"]
<1>1. /\ emu[w] \in Emulations /\ emu[w].at = "map" /\ emu[w].program \in Programs
      /\ vm.holds \subseteq Programs
  BY DEF EmulatorInv, EmulatorTypes, Map
<1>2. /\ Disturb(w, e) /\ vm'.holds = vm.holds \cup {emu[w].program}
      /\ vm'.image = emu[w].program
  BY DEF Map
<1>3. /\ e \in Emulations /\ e.at = "run" /\ e.program = emu[w].program
      /\ e.alone = emu[w].alone /\ e.result = emu[w].result /\ e.stores = emu[w].stores
  BY <1>1 DEF Emulations
<1> HIDE DEF e
<1>4. e.alone => Owned(e, vm')
  BY <1>1, <1>2, <1>3 DEF EmulatorInv, AloneIsOwned, Owned, Untouched
<1> QED BY <1>1, <1>2, <1>3, <1>4, SharedStep

\* An instruction gives a result of the types, and a zero none.
LEMMA EffectType ==
  ASSUME NEW r \in Results, NEW i
  PROVE  /\ Effect(r, i) \in Results /\ Effect(r, i).yara = r.yara
         /\ i = "zero" => Effect(r, i) = r
<1>1. /\ [r EXCEPT !.evasions = @ + 1] \in Results
      /\ [r EXCEPT !.evasions = @ + 2] \in Results
      /\ [r EXCEPT !.evasions = @ + 1, !.rwx = @ + 1] \in Results
      /\ [r EXCEPT !.evasions = @ + 1, !.injects = TRUE] \in Results
  <2>1. \A n \in Nat : n + 1 \in Nat /\ n + 2 \in Nat
    OBVIOUS
  <2>2. ASSUME NEW m \in Nat, NEW n \in Nat
        PROVE  /\ [r EXCEPT !.evasions = m] \in Results
               /\ [r EXCEPT !.evasions = m, !.rwx = n] \in Results
               /\ [r EXCEPT !.evasions = m, !.injects = TRUE] \in Results
    BY DEF Results
  <2>3. r.evasions \in Nat /\ r.rwx \in Nat
    BY DEF Results
  <2> QED BY <2>1, <2>2, <2>3
<1>2. /\ [r EXCEPT !.evasions = @ + 1].yara = r.yara
      /\ [r EXCEPT !.evasions = @ + 2].yara = r.yara
      /\ [r EXCEPT !.evasions = @ + 1, !.rwx = @ + 1].yara = r.yara
      /\ [r EXCEPT !.evasions = @ + 1, !.injects = TRUE].yara = r.yara
  BY DEF Results
<1>3. CASE i \in {"rdtsc", "peb"}
  BY <1>1, <1>2, <1>3 DEF Effect
<1>4. CASE i \in {"debugger", "sleep"}
  BY <1>1, <1>2, <1>4 DEF Effect
<1>5. CASE i = "alloc"
  BY <1>1, <1>2, <1>5 DEF Effect
<1>6. CASE i = "inject"
  BY <1>1, <1>2, <1>6 DEF Effect
<1>7. CASE i \notin {"rdtsc", "peb", "debugger", "sleep", "alloc", "inject"}
  BY <1>7 DEF Effect
<1> QED BY <1>3, <1>4, <1>5, <1>6, <1>7

\* The end of a run.
LEMMA OverType ==
  ASSUME NEW e \in Emulations
  PROVE  /\ Over(e) \in Emulations /\ Over(e).at = "rescan" /\ Over(e).program = e.program
         /\ Over(e).alone = e.alone /\ Over(e).stores = e.stores
         /\ Over(e).result \in Results
         /\ Over(e).result.payload = (e.stores > PayloadSize)
         /\ Over(e).result.evasions = e.result.evasions /\ Over(e).result.rwx = e.result.rwx
         /\ Over(e).result.injects = e.result.injects /\ Over(e).result.yara = e.result.yara
<1>1. (e.stores > PayloadSize) \in BOOLEAN
  OBVIOUS
<1> HIDE DEF Over
<1>2. e.result \in Results
  BY DEF Emulations
<1> DEFINE r == [e.result EXCEPT !.payload = e.stores > PayloadSize]
<1>3. r \in Results /\ r.payload = (e.stores > PayloadSize) /\ r.evasions = e.result.evasions
      /\ r.rwx = e.result.rwx /\ r.injects = e.result.injects /\ r.yara = e.result.yara
  BY <1>1, <1>2 DEF Results
<1>4. Over(e) = [e EXCEPT !.at = "rescan", !.result = r]
  BY DEF Over
<1> HIDE DEF r
<1>5. /\ Over(e) \in Emulations /\ Over(e).at = "rescan" /\ Over(e).program = e.program
      /\ Over(e).alone = e.alone /\ Over(e).stores = e.stores /\ Over(e).result = r
  BY <1>3, <1>4 DEF Emulations
<1> QED BY <1>3, <1>5

\* A run that goes on, or ends, with e: nothing more is asked than that a program
\* without instructions has stored nothing.
LEMMA OverIsOwned ==
  ASSUME NEW e \in Emulations, NEW m, m.holds = {e.program}, m.image = e.program,
         e.result.yara \subseteq {e.program},
         Code[e.program] = <<>> =>
           /\ e.stores = 0 /\ e.result.rwx = 0 /\ ~e.result.injects
           /\ e.result.yara = {} /\ e.result.evasions <= 1
  PROVE  Owned(Over(e), m)
<1>1. Code[e.program] = <<>> => ~(e.stores > PayloadSize)
  BY EmulatorNumbers
<1> QED BY <1>1, OverType DEF Owned, Untouched

\* One instruction: it changes the memory and takes it from the others.
LEMMA InterpretKeeps ==
  ASSUME EmulatorInv, NEW w \in Workers, Interpret(w)
  PROVE  EmulatorInv'
<1> DEFINE i == Fetched(w)
           r == Effect(emu[w].result, i)
           n == emu[w].stores + (IF i = "stos" THEN 1 ELSE 0)
           k == IF i = "jump" THEN 1 ELSE emu[w].eip + 1
           e == [emu[w] EXCEPT !.steps = @ + 1, !.result = r, !.stores = n, !.eip = k]
<1>1. /\ emu[w] \in Emulations /\ emu[w].at = "run" /\ emu[w].program \in Programs
      /\ emu[w].steps < MaxInstructions /\ UNCHANGED vm
  BY DEF EmulatorInv, EmulatorTypes, Interpret
<1>2. emu' = [emu EXCEPT ![w] = IF i \in {"zero", "ret"} THEN Over(e) ELSE e]
  BY DEF Interpret
<1>3. r \in Results /\ r.yara = emu[w].result.yara /\ (i = "zero" => r = emu[w].result)
  <2>1. emu[w].result \in Results
    BY <1>1 DEF Emulations
  <2> HIDE DEF i
  <2> QED BY <2>1, EffectType
<1>4. emu[w].steps + 1 \in 0..MaxInstructions /\ n \in Nat /\ k \in Nat
  BY <1>1, EmulatorNumbers DEF Emulations
<1>5. i = "zero" => n = emu[w].stores
  BY <1>1 DEF Emulations
<1> HIDE DEF r, n, k
<1>6. /\ e \in Emulations /\ e.at = "run" /\ e.program = emu[w].program
      /\ e.alone = emu[w].alone /\ e.result = r /\ e.stores = n
  BY <1>1, <1>3, <1>4 DEF Emulations
<1> HIDE DEF e
<1>7. ASSUME e.alone
      PROVE  /\ vm.holds = {e.program} /\ vm.image = e.program
             /\ e.result.yara \subseteq {e.program}
             /\ Code[e.program] = <<>> => i = "zero" /\ Untouched(emu[w])
  <2>1. Owned(emu[w], vm)
    BY <1>6, <1>7 DEF EmulatorInv, AloneIsOwned
  <2>2. /\ vm.holds = {e.program} /\ vm.image = e.program
        /\ e.result.yara \subseteq {e.program}
        /\ Code[e.program] = <<>> => Untouched(emu[w])
    BY <1>1, <1>3, <1>6, <2>1 DEF Owned
  <2>3. Code[e.program] = <<>> => i = "zero"
    <3>1. DOMAIN <<>> = {}
      OBVIOUS
    <3> QED BY <2>2, <3>1 DEF Fetched
  <2> QED BY <2>2, <2>3
<1>8. ASSUME e.alone, Code[e.program] = <<>>
      PROVE  /\ e.stores = 0 /\ e.result.rwx = 0 /\ ~e.result.injects /\ ~e.result.payload
             /\ e.result.yara = {} /\ e.result.evasions <= 0
  BY <1>1, <1>3, <1>5, <1>6, <1>7, <1>8 DEF Untouched
<1>9. CASE i \in {"zero", "ret"}
  <2>1. Over(e).alone => Owned(Over(e), vm)
    <3>1. e.result.evasions \in Nat
      BY <1>3, <1>6 DEF Results
    <3> QED BY <1>6, <1>7, <1>8, <3>1, OverType, OverIsOwned
  <2>2. Over(e) \in Emulations /\ Over(e).program \in Programs
    BY <1>1, <1>6, OverType
  <2>3. emu' = [emu EXCEPT ![w] = Over(e)]
    BY <1>2, <1>9
  <2> QED BY <1>1, <2>1, <2>2, <2>3, OwnStep
<1>10. CASE i \notin {"zero", "ret"}
  <2>1. e.alone => Owned(e, vm)
    BY <1>6, <1>7, <1>10 DEF Owned
  <2>2. emu' = [emu EXCEPT ![w] = e]
    BY <1>2, <1>10
  <2> QED BY <1>1, <1>6, <2>1, <2>2, OwnStep
<1> QED BY <1>9, <1>10

\* A run that is stopped, by its number of instructions or by its time.
LEMMA StoppedKeeps ==
  ASSUME EmulatorInv, NEW w \in Workers, OutOfSteps(w) \/ OutOfTime(w)
  PROVE  EmulatorInv'
<1>1. /\ emu[w] \in Emulations /\ emu[w].at = "run" /\ emu[w].program \in Programs
      /\ UNCHANGED vm
  BY DEF EmulatorInv, EmulatorTypes, OutOfSteps, OutOfTime
<1>2. emu[w].result \in Results /\ emu[w].result.evasions \in Nat
  BY <1>1 DEF Emulations, Results
<1>3. PICK e \in Emulations :
        /\ emu' = [emu EXCEPT ![w] = Over(e)]
        /\ e.program = emu[w].program /\ e.alone = emu[w].alone /\ e.stores = emu[w].stores
        /\ e.result \in Results /\ e.result.rwx = emu[w].result.rwx
        /\ e.result.injects = emu[w].result.injects /\ e.result.yara = emu[w].result.yara
        /\ e.result.evasions \in {emu[w].result.evasions, emu[w].result.evasions + 1}
  <2>1. CASE OutOfSteps(w)
    <3>1. emu' = [emu EXCEPT ![w] = Over(emu[w])]
      BY <2>1 DEF OutOfSteps
    <3> QED BY <1>1, <1>2, <3>1
  <2>2. CASE OutOfTime(w)
    <3> DEFINE r == [emu[w].result EXCEPT !.evasions = @ + 1]
               e == [emu[w] EXCEPT !.result = r]
    <3>1. emu[w].result.evasions + 1 \in Nat
      BY <1>2
    <3>2. /\ r \in Results /\ r.rwx = emu[w].result.rwx /\ r.injects = emu[w].result.injects
          /\ r.yara = emu[w].result.yara /\ r.evasions = emu[w].result.evasions + 1
      BY <1>2, <3>1 DEF Results
    <3>3. emu' = [emu EXCEPT ![w] = Over(e)]
      BY <2>2 DEF OutOfTime
    <3> HIDE DEF r
    <3>4. /\ e \in Emulations /\ e.program = emu[w].program /\ e.alone = emu[w].alone
          /\ e.stores = emu[w].stores /\ e.result = r
      BY <1>1, <3>2 DEF Emulations
    <3> HIDE DEF e
    <3> QED BY <3>1, <3>2, <3>3, <3>4
  <2> QED BY <2>1, <2>2
<1>4. ASSUME e.alone PROVE Owned(Over(e), vm)
  <2>1. Owned(emu[w], vm)
    BY <1>3, <1>4 DEF EmulatorInv, AloneIsOwned
  <2>2. /\ vm.holds = {e.program} /\ vm.image = e.program /\ e.result.yara \subseteq {e.program}
        /\ Code[e.program] = <<>> => Untouched(emu[w])
    BY <1>1, <1>3, <2>1 DEF Owned
  <2>3. Code[e.program] = <<>> =>
           /\ e.stores = 0 /\ e.result.rwx = 0 /\ ~e.result.injects
           /\ e.result.yara = {} /\ e.result.evasions <= 1
    <3>1. e.result.evasions \in Nat
      BY <1>3 DEF Results
    <3> QED BY <1>1, <1>2, <1>3, <2>2, <3>1 DEF Untouched
  <2> QED BY <2>2, <2>3, OverIsOwned
<1>5. Over(e) \in Emulations /\ Over(e).program \in Programs /\ Over(e).alone = e.alone
  BY <1>1, <1>3, OverType
<1> QED BY <1>1, <1>3, <1>4, <1>5, OwnStep

\* The memory is scanned when the program has stopped.
LEMMA RescanKeeps ==
  ASSUME EmulatorInv, NEW w \in Workers, Rescan(w)
  PROVE  EmulatorInv'
<1> DEFINE y == IF emu[w].result.payload \/ emu[w].result.rwx > 0
                THEN vm.holds \cap Infected ELSE {}
           r == [emu[w].result EXCEPT !.yara = y]
           e == [emu[w] EXCEPT !.at = "done", !.result = r]
<1>1. /\ emu[w] \in Emulations /\ emu[w].at = "rescan" /\ emu[w].program \in Programs
      /\ UNCHANGED vm /\ emu[w].result \in Results
  BY DEF EmulatorInv, EmulatorTypes, Rescan, Emulations
<1>2. emu' = [emu EXCEPT ![w] = e]
  <2>1. emu' = [emu EXCEPT ![w].at = "done", ![w].result.yara = y]
    BY DEF Rescan
  <2> HIDE DEF y
  <2>2. emu \in [Workers -> Emulations]
    BY DEF EmulatorInv, EmulatorTypes
  <2>3. [emu EXCEPT ![w].at = "done"][w] = [emu[w] EXCEPT !.at = "done"]
    BY <2>2
  <2> QED BY <1>1, <2>1, <2>2, <2>3 DEF Emulations
<1>3. y \in SUBSET Infected /\ y \subseteq vm.holds
  OBVIOUS
<1>4. ~emu[w].result.payload /\ emu[w].result.rwx = 0 => y = {}
  OBVIOUS
<1> HIDE DEF y
<1>5. /\ r \in Results /\ r.rwx = emu[w].result.rwx /\ r.injects = emu[w].result.injects
      /\ r.payload = emu[w].result.payload /\ r.yara = y
      /\ r.evasions = emu[w].result.evasions
  BY <1>1, <1>3 DEF Results
<1> HIDE DEF r
<1>6. /\ e \in Emulations /\ e.at = "done" /\ e.program = emu[w].program
      /\ e.alone = emu[w].alone /\ e.stores = emu[w].stores /\ e.result = r
  BY <1>1, <1>5 DEF Emulations
<1> HIDE DEF e
<1>7. ASSUME e.alone PROVE Owned(e, vm)
  <2>1. Owned(emu[w], vm)
    BY <1>6, <1>7 DEF EmulatorInv, AloneIsOwned
  <2> QED BY <1>1, <1>3, <1>4, <1>5, <1>6, <2>1 DEF Owned, Untouched
<1> QED BY <1>1, <1>2, <1>6, <1>7, OwnStep

LEMMA ReportKeeps ==
  ASSUME EmulatorInv, NEW w \in Workers, Report(w)
  PROVE  EmulatorInv'
BY RestedIsFree, OwnStep DEF Report, Rested

LEMMA EmulatorStart == EmulatorInit => EmulatorInv
<1> SUFFICES ASSUME EmulatorInit PROVE EmulatorInv
  OBVIOUS
<1>1. \A w \in Workers : emu[w] = Rested
  BY DEF EmulatorInit
<1>2. emu \in [Workers -> Emulations]
  BY RestedIsFree DEF EmulatorInit
<1>3. Rested.at = "out" /\ vm.holds = {}
  BY DEF EmulatorInit, Rested, NewMemory
<1> QED BY <1>1, <1>2, <1>3, RestedIsFree DEF EmulatorInv, EmulatorTypes, AloneIsOwned

LEMMA EmulatorKeeps == EmulatorInv /\ [EmulatorNext]_emulatorVars => EmulatorInv'
<1>1. ASSUME EmulatorInv, UNCHANGED emulatorVars PROVE EmulatorInv'
  BY <1>1 DEF EmulatorInv, EmulatorTypes, AloneIsOwned, emulatorVars
<1> QED BY <1>1, NewVmKeeps, MapKeeps, InterpretKeeps, StoppedKeeps, RescanKeeps, ReportKeeps
        DEF EmulatorNext

LEMMA EmulatorInvTypes == EmulatorInv => EmulatorOK
BY DEF EmulatorInv, EmulatorTypes, Emulations, Results, EmulatorOK

\* The bounds of a run, and that what a scan of the memory finds is infected.
THEOREM EmulatorTypeCorrect == EmulatorSpec => []EmulatorOK
BY EmulatorInvTypes, EmulatorStart, EmulatorKeeps, PTL DEF EmulatorSpec

\* Whatever the programs and however many workers: an emulation that no other one
\* disturbs reports its own program only, and does not condemn one that does nothing.
THEOREM AloneIsRight == EmulatorSpec => []OwnMemory
<1>1. EmulatorInv => OwnMemory
  <2> SUFFICES ASSUME EmulatorInv, NEW w \in Workers, emu[w].at = "done", emu[w].alone
               PROVE  /\ emu[w].result.yara \subseteq {emu[w].program}
                      /\ Malicious(emu[w].result) => Code[emu[w].program] # <<>>
    BY DEF OwnMemory
  <2>1. Owned(emu[w], vm) /\ emu[w].result \in Results
    BY DEF EmulatorInv, EmulatorTypes, AloneIsOwned, Emulations
  <2>2. ASSUME Code[emu[w].program] = <<>> PROVE ~Malicious(emu[w].result)
    <3>1. /\ emu[w].result.rwx = 0 /\ ~emu[w].result.injects /\ ~emu[w].result.payload
          /\ emu[w].result.yara = {} /\ emu[w].result.evasions \in {0, 1}
      BY <2>1, <2>2 DEF Owned, Untouched, Results
    <3>2. Risk(emu[w].result) \in {0, 20}
      BY <3>1 DEF Risk, Capped
    <3> QED BY <3>1, <3>2 DEF Malicious
  <2> QED BY <2>1, <2>2 DEF Owned
<1> QED BY <1>1, EmulatorStart, EmulatorKeeps, PTL DEF EmulatorSpec

-----------------------------------------------------------------------------
(* Heuristics.  A deque holds the end of what was seen, from the first     *)
(* time that is within the window of now: as many as the set that Reached  *)
(* counts, whenever an event comes.                                        *)

\* The times in `kept` are the last of those in `past`.
IsEnd(kept, past) ==
  /\ kept \in Seq(Nat) /\ past \in Seq(Nat) /\ Len(kept) <= Len(past)
  /\ \A i \in 1..Len(kept) : kept[i] = past[Len(past) - Len(kept) + i]

\* Unless the clock was set back, all others were old when the last one came.
KeepsUp(kept, past, window) ==
  /\ IsEnd(kept, past)
  /\ Rises(past) => \A i \in 1..(Len(past) - Len(kept)) : past[i] + window < past[Len(past)]

\* They are old now, which is not before any of them.
FitsNow(kept, past, window) ==
  /\ IsEnd(kept, past)
  /\ \A i \in 1..Len(past) : past[i] <= now
  /\ \A i, j \in 1..Len(past) : i <= j => past[i] <= past[j]
  /\ \A i \in 1..(Len(past) - Len(kept)) : past[i] + window < now

\* A set of numbers up to n has a least one.
LEMMA LeastOf ==
  ASSUME NEW n \in Nat, NEW S \in SUBSET (1..n), S # {}
  PROVE  \E m \in S : \A k \in S : m <= k
<1> DEFINE I == 1..n
           B == {1..m : m \in S}
<1>1. IsFiniteSet(I)
  BY FS_Interval
<1>2. B \subseteq SUBSET I /\ B # {}
  <2>1. \A m \in S : (1..m) \in SUBSET I
    OBVIOUS
  <2> QED BY <2>1
<1>3. PICK s \in B : \A t \in B : t \subseteq s => t = s
  <2> HIDE DEF B, I
  <2> QED BY <1>1, <1>2, MinimalSubset
<1>4. PICK m \in S : s = 1..m
  BY <1>3
<1>5. ASSUME NEW k \in S, ~(m <= k) PROVE FALSE
  <2>1. k \in Nat /\ m \in Nat /\ k < m
    BY <1>5
  <2>2. (1..k) \subseteq (1..m) /\ m \in 1..m /\ m \notin 1..k
    BY <2>1, <1>4
  <2> QED BY <1>3, <1>4, <2>2
<1> QED BY <1>5

\* What popleft leaves of a deque to which now is appended.
LEMMA PoppedLeft ==
  ASSUME NEW A \in Seq(Nat), NEW window \in Nat, now \in Nat
  PROVE  \E f \in 1..(Len(A) + 1) :
           /\ Pruned(A, window) = SubSeq(Append(A, now), f, Len(A) + 1)
           /\ Append(A, now)[f] + window >= now
           /\ \A j \in 1..(f - 1) : Append(A, now)[j] + window < now
<1> DEFINE all == Append(A, now)
           n == Len(A) + 1
           Good(i) == all[i] + window >= now /\ \A j \in 1..(i - 1) : all[j] + window < now
           S == {i \in 1..n : all[i] + window >= now}
<1>1. /\ Len(A) \in Nat /\ Len(all) = n /\ DOMAIN all = 1..n /\ all[n] = now
      /\ all \in [1..n -> Nat]
  <2>1. all \in Seq(Nat) /\ Len(all) = n /\ all[n] = now /\ Len(A) \in Nat
    BY AppendProperties, LenProperties
  <2> HIDE DEF all
  <2>2. all \in [1..Len(all) -> Nat] /\ DOMAIN all = 1..Len(all)
    BY <2>1, LenProperties
  <2> QED BY <2>1, <2>2
<1>2. n \in S
  BY <1>1
<1>3. PICK m \in S : \A k \in S : m <= k
  <2>1. n \in Nat /\ S \in SUBSET (1..n)
    BY <1>1
  <2> HIDE DEF S, n
  <2> QED BY <1>2, <2>1, LeastOf
<1>4. Good(m)
  <2>1. ASSUME NEW j \in 1..(m - 1) PROVE all[j] + window < now
    <3>1. j \in 1..n /\ ~(m <= j)
      BY <1>1
    <3>2. all[j] \in Nat
      BY <1>1, <3>1
    <3> QED BY <1>3, <3>1, <3>2
  <2> QED BY <2>1
<1> DEFINE f == CHOOSE i \in DOMAIN all : Good(i)
<1>5. f \in 1..n /\ Good(f)
  <2>1. \E i \in DOMAIN all : Good(i)
    BY <1>1, <1>4
  <2> HIDE DEF Good, all
  <2> QED BY <1>1, <2>1
<1>6. Pruned(A, window) = SubSeq(all, f, n)
  BY <1>1 DEF Pruned
<1> HIDE DEF f
<1> QED BY <1>5, <1>6

\* After d times that had been taken before, popleft takes those before the f-th.
FirstLeft(A, L, P, M, window, d, f) ==
  /\ d = Len(L) - Len(A) /\ d + f \in 1..Len(M) /\ Len(M) - Len(P) = d + f - 1
  /\ M[d + f] \in Nat /\ M[d + f] + window >= now
  /\ \A j \in 1..(f - 1) : M[d + j] + window < now

\* A deque to which now is appended and from which popleft took what is old at its head:
\* what is left is the end of what was seen, from the first time that is not old.
LEMMA PrunedIsEnd ==
  ASSUME NEW A, NEW L, NEW window \in Nat, now \in Nat, IsEnd(A, L),
         NEW P, P = Pruned(A, window), NEW M, M = Append(L, now)
  PROVE  /\ IsEnd(P, M) /\ Len(P) \in Nat /\ Len(M) = Len(L) + 1 /\ Len(L) \in Nat
         /\ M[Len(M)] = now /\ \A i \in 1..Len(L) : M[i] = L[i]
         /\ \E d \in Nat, f \in Nat \ {0} : FirstLeft(A, L, P, M, window, d, f)
<1>1. /\ A \in Seq(Nat) /\ L \in Seq(Nat) /\ Len(A) <= Len(L) /\ Len(A) \in Nat /\ Len(L) \in Nat
      /\ \A i \in 1..Len(L) : L[i] \in Nat
  BY LenProperties, ElementOfSeq DEF IsEnd
<1>2. PICK f \in 1..(Len(A) + 1) :
        /\ P = SubSeq(Append(A, now), f, Len(A) + 1)
        /\ Append(A, now)[f] + window >= now
        /\ \A j \in 1..(f - 1) : Append(A, now)[j] + window < now
  BY <1>1, PoppedLeft
<1>3. /\ M \in Seq(Nat) /\ Len(M) = Len(L) + 1 /\ M[Len(L) + 1] = now
      /\ \A i \in 1..Len(L) : M[i] = L[i]
  BY <1>1, AppendProperties
<1> DEFINE all == Append(A, now)
           d == Len(L) - Len(A)
<1>4. /\ all \in Seq(Nat) /\ Len(all) = Len(A) + 1 /\ all[Len(A) + 1] = now
      /\ \A i \in 1..Len(A) : all[i] = A[i]
  BY <1>1, AppendProperties
<1>5. \A i \in 1..(Len(A) + 1) : all[i] = M[d + i] /\ all[i] \in Nat
  <2> SUFFICES ASSUME NEW i \in 1..(Len(A) + 1) PROVE all[i] = M[d + i] /\ all[i] \in Nat
    OBVIOUS
  <2>1. CASE i = Len(A) + 1
    BY <1>1, <1>3, <1>4, <2>1
  <2>2. CASE i # Len(A) + 1
    <3>1. i \in 1..Len(A) /\ d + i \in 1..Len(L)
      BY <1>1, <2>2
    <3>2. A[i] = L[d + i]
      BY <3>1 DEF IsEnd
    <3> QED BY <1>1, <1>3, <1>4, <3>1, <3>2
  <2> QED BY <2>1, <2>2
<1>6. /\ P \in Seq(Nat) /\ Len(P) = Len(A) + 2 - f
      /\ \A i \in 1..Len(P) : P[i] = all[f + i - 1]
  <2>1. f \in Int /\ Len(A) + 1 \in Int /\ \A i \in f..(Len(A) + 1) : all[i] \in Nat
    <3>1. f \in Int /\ Len(A) + 1 \in Int
      BY <1>1
    <3>2. f..(Len(A) + 1) \subseteq 1..(Len(A) + 1)
      BY <1>1
    <3> HIDE DEF all
    <3> QED BY <1>5, <3>1, <3>2
  <2> HIDE DEF all
  <2>2. /\ SubSeq(all, f, Len(A) + 1) \in Seq(Nat)
        /\ Len(SubSeq(all, f, Len(A) + 1)) = IF f <= Len(A) + 1 THEN Len(A) + 1 - f + 1 ELSE 0
        /\ \A i \in 1..(Len(A) + 1 - f + 1) : SubSeq(all, f, Len(A) + 1)[i] = all[f + i - 1]
    BY <2>1, SubSeqProperties
  <2>3. P = SubSeq(all, f, Len(A) + 1)
    BY <1>2 DEF all
  <2>4. IF f <= Len(A) + 1 THEN Len(A) + 1 - f + 1 = Len(A) + 2 - f ELSE FALSE
    BY <1>1, <1>2
  <2> QED BY <2>2, <2>3, <2>4
<1>9. Len(M) - Len(P) = d + f - 1 /\ d \in Nat /\ Len(P) \in Nat /\ Len(P) <= Len(M)
  <2> DEFINE a == Len(A)
             l == Len(L)
             p == Len(P)
             m == Len(M)
  <2>1. a \in Nat /\ l \in Nat /\ a <= l /\ m = l + 1 /\ p = a + 2 - f /\ d = l - a
    BY <1>1, <1>3, <1>6
  <2>2. f \in Nat /\ 1 <= f /\ f <= a + 1
    BY <2>1
  <2> HIDE DEF a, l, p, m, d
  <2>3. m - p = d + f - 1 /\ d \in Nat /\ p \in Nat /\ p <= m
    BY <2>1, <2>2
  <2> QED BY <2>3 DEF p, m
<1>12. \A i \in 1..Len(P) : P[i] = M[Len(M) - Len(P) + i]
  <2> SUFFICES ASSUME NEW i \in 1..Len(P) PROVE P[i] = M[Len(M) - Len(P) + i]
    OBVIOUS
  <2>1. f + i - 1 \in 1..(Len(A) + 1) /\ d + (f + i - 1) = Len(M) - Len(P) + i
    BY <1>1, <1>2, <1>6, <1>9
  <2>2. P[i] = all[f + i - 1]
    BY <1>6
  <2>3. all[f + i - 1] = M[d + (f + i - 1)]
    BY <1>5, <2>1
  <2> QED BY <2>1, <2>2, <2>3
<1>13. /\ d + f \in 1..Len(M) /\ M[d + f] \in Nat /\ M[d + f] + window >= now
       /\ \A j \in 1..(f - 1) : M[d + j] + window < now
  <2>1. d + f \in 1..Len(M) /\ f \in 1..(Len(A) + 1)
    <3>1. d \in Nat /\ Len(M) - Len(P) = d + f - 1 /\ Len(P) \in Nat /\ Len(P) <= Len(M)
      BY <1>9
    <3>2. f \in Nat /\ f >= 1 /\ f <= Len(A) + 1 /\ d = Len(L) - Len(A)
      BY <1>1
    <3> HIDE DEF d
    <3> QED BY <1>1, <1>3, <3>1, <3>2
  <2>2. \A j \in 1..(f - 1) : j \in 1..(Len(A) + 1)
    BY <1>1, <2>1
  <2> HIDE DEF d, all
  <2> QED BY <1>2, <1>5, <2>1, <2>2 DEF all
<1>14. f \in Nat \ {0}
  BY <1>1
<1>15. Len(M) \in Nat /\ Len(M) - Len(P) = d + f - 1 /\ d \in Nat /\ d = Len(L) - Len(A)
  BY <1>1, <1>3, <1>9
<1> HIDE DEF d, all
<1>16. \E e \in Nat, g \in Nat \ {0} : FirstLeft(A, L, P, M, window, e, g)
  BY <1>13, <1>14, <1>15 DEF FirstLeft
<1> QED BY <1>1, <1>3, <1>6, <1>9, <1>12, <1>16 DEF IsEnd

\* While the clock goes on, the deque holds exactly the times within the window of now.
LEMMA PrunedFits ==
  ASSUME NEW A, NEW L, NEW window \in Nat, now \in Nat, FitsNow(A, L, window),
         NEW P, P = Pruned(A, window), NEW M, M = Append(L, now)
  PROVE  /\ IsEnd(P, M) /\ Len(P) \in Nat /\ Len(M) = Len(L) + 1 /\ Len(L) \in Nat
         /\ M[Len(M)] = now /\ \A i \in 1..Len(L) : M[i] = L[i]
         /\ \A i \in 1..Len(M) : M[i] + window >= now <=> i > Len(M) - Len(P)
<1>1. /\ L \in Seq(Nat) /\ Len(L) \in Nat /\ \A i \in 1..Len(L) : L[i] \in Nat /\ L[i] <= now
      /\ IsEnd(A, L)
  BY LenProperties, ElementOfSeq DEF FitsNow, IsEnd
<1>2. /\ IsEnd(P, M) /\ Len(P) \in Nat /\ Len(M) = Len(L) + 1
      /\ M[Len(M)] = now /\ \A i \in 1..Len(L) : M[i] = L[i]
  <2>1. IsEnd(P, M)
    BY <1>1, PrunedIsEnd
  <2>2. Len(P) \in Nat
    BY <2>1, LenProperties DEF IsEnd
  <2>3. /\ Len(M) = Len(L) + 1 /\ M[Len(L) + 1] = now
        /\ \A i \in 1..Len(L) : M[i] = L[i]
    BY <1>1, AppendProperties
  <2> QED BY <1>1, <2>1, <2>2, <2>3
<1>3. PICK d \in Nat, f \in Nat \ {0} : FirstLeft(A, L, P, M, window, d, f)
  BY <1>1, PrunedIsEnd
<1>4. /\ d = Len(L) - Len(A) /\ d + f \in 1..Len(M) /\ Len(M) - Len(P) = d + f - 1
      /\ M[d + f] \in Nat /\ M[d + f] + window >= now
      /\ \A j \in 1..(f - 1) : M[d + j] + window < now
  BY <1>3 DEF FirstLeft
<1>5. ASSUME NEW i \in 1..Len(M) PROVE M[i] \in Nat /\ M[i] <= now
  <2>1. CASE i = Len(L) + 1
    BY <1>2, <2>1
  <2>2. CASE i # Len(L) + 1
    <3>1. i \in 1..Len(L)
      BY <1>1, <1>2, <2>2
    <3> QED BY <1>1, <1>2, <3>1
  <2> QED BY <2>1, <2>2
<1>6. ASSUME NEW i \in 1..Len(M), NEW j \in 1..Len(M), i <= j PROVE M[i] <= M[j]
  <2>1. CASE j = Len(L) + 1
    BY <1>2, <1>5, <2>1
  <2>2. CASE j # Len(L) + 1
    <3>1. i \in 1..Len(L) /\ j \in 1..Len(L)
      BY <1>1, <1>2, <1>6, <2>2
    <3> QED BY <1>2, <1>6, <3>1 DEF FitsNow
  <2> QED BY <2>1, <2>2
<1>7. ASSUME NEW i \in 1..Len(M), ~(i > Len(M) - Len(P)) PROVE M[i] + window < now
  <2>1. i \in Nat /\ i >= 1 /\ i <= d + f - 1
    BY <1>1, <1>2, <1>4, <1>7
  <2>2. CASE i <= d
    <3>1. i \in 1..(Len(L) - Len(A)) /\ i \in 1..Len(L)
      <4>1. Len(A) \in Nat /\ Len(A) <= Len(L)
        BY <1>1, LenProperties DEF IsEnd
      <4> QED BY <1>1, <1>4, <2>1, <2>2, <4>1
    <3>2. L[i] + window < now
      BY <3>1 DEF FitsNow
    <3> QED BY <1>2, <3>1, <3>2
  <2>3. CASE ~(i <= d)
    <3>1. i - d \in 1..(f - 1) /\ d + (i - d) = i
      BY <1>4, <2>1, <2>3
    <3> QED BY <1>4, <3>1
  <2> QED BY <2>2, <2>3
<1>8. ASSUME NEW i \in 1..Len(M), i > Len(M) - Len(P) PROVE M[i] + window >= now
  <2>1. d + f <= i
    BY <1>1, <1>2, <1>4, <1>8
  <2>2. M[d + f] <= M[i] /\ M[i] \in Nat
    BY <1>4, <1>5, <1>6, <2>1
  <2> DEFINE x == M[d + f]
             y == M[i]
  <2>3. x + window >= now /\ x \in Nat /\ y \in Nat /\ x <= y
    BY <1>4, <2>2
  <2> HIDE DEF x, y
  <2>4. y + window >= now
    BY <2>3
  <2> QED BY <2>4 DEF y
<1>9. \A i \in 1..Len(M) : M[i] + window >= now <=> i > Len(M) - Len(P)
  <2> SUFFICES ASSUME NEW i \in 1..Len(M) PROVE M[i] + window >= now <=> i > Len(M) - Len(P)
    OBVIOUS
  <2>1. M[i] \in Nat
    BY <1>5
  <2> QED BY <1>7, <1>8, <2>1
<1> QED BY <1>1, <1>2, <1>9

\* If the times rise with now among them, what was old when the last one came is old now.
LEMMA RisesFits ==
  ASSUME NEW A, NEW L, NEW window \in Nat, now \in Nat, KeepsUp(A, L, window),
         Rises(Append(L, now))
  PROVE  FitsNow(A, L, window) /\ Rises(L)
<1> DEFINE M == Append(L, now)
<1>1. /\ IsEnd(A, L) /\ L \in Seq(Nat) /\ Len(L) \in Nat /\ DOMAIN L = 1..Len(L)
      /\ Len(A) \in Nat /\ \A i \in 1..Len(L) : L[i] \in Nat
  BY LenProperties, ElementOfSeq DEF KeepsUp, IsEnd
<1>2. M \in Seq(Nat) /\ Len(M) = Len(L) + 1 /\ M[Len(L) + 1] = now /\ \A i \in 1..Len(L) : M[i] = L[i]
  BY <1>1, AppendProperties
<1>3. Rises(M)
  OBVIOUS
<1> HIDE DEF M
<1>4. DOMAIN M = 1..(Len(L) + 1)
  BY <1>2, LenProperties
<1>5. \A i, j \in 1..(Len(L) + 1) : i <= j => M[i] <= M[j]
  BY <1>3, <1>4 DEF Rises
<1>6. \A i \in 1..Len(L) : L[i] <= now
  <2> SUFFICES ASSUME NEW i \in 1..Len(L) PROVE L[i] <= now
    OBVIOUS
  <2>1. i \in 1..(Len(L) + 1) /\ Len(L) + 1 \in 1..(Len(L) + 1) /\ i <= Len(L) + 1
    BY <1>1
  <2>2. M[i] <= M[Len(L) + 1]
    BY <1>5, <2>1
  <2> QED BY <1>2, <2>2
<1>7. \A i, j \in 1..Len(L) : i <= j => L[i] <= L[j]
  <2> SUFFICES ASSUME NEW i \in 1..Len(L), NEW j \in 1..Len(L), i <= j PROVE L[i] <= L[j]
    OBVIOUS
  <2>1. i \in 1..(Len(L) + 1) /\ j \in 1..(Len(L) + 1)
    BY <1>1
  <2>2. M[i] <= M[j]
    BY <1>5, <2>1
  <2> QED BY <1>2, <2>2
<1>8. Rises(L)
  BY <1>1, <1>7 DEF Rises
<1>9. \A i \in 1..(Len(L) - Len(A)) : L[i] + window < now
  <2> SUFFICES ASSUME NEW i \in 1..(Len(L) - Len(A)) PROVE L[i] + window < now
    OBVIOUS
  <2>1. L[i] + window < L[Len(L)]
    BY <1>8 DEF KeepsUp
  <2>2. i \in 1..Len(L) /\ Len(L) \in 1..Len(L)
    BY <1>1
  <2>3. L[i] \in Nat /\ L[Len(L)] \in Nat /\ L[Len(L)] <= now
    BY <1>1, <1>6, <2>2
  <2> QED BY <2>1, <2>3
<1> QED BY <1>1, <1>6, <1>7, <1>8, <1>9 DEF FitsNow

\* A deque keeps up with the events that come.
LEMMA PrunedKeepsUp ==
  ASSUME NEW A, NEW L, NEW window \in Nat, now \in Nat, KeepsUp(A, L, window)
  PROVE  KeepsUp(Pruned(A, window), Append(L, now), window)
<1> DEFINE P == Pruned(A, window)
           M == Append(L, now)
<1>1. P = Pruned(A, window) /\ M = Append(L, now)
  OBVIOUS
<1> HIDE DEF P, M
<1>2. IsEnd(P, M)
  BY <1>1, PrunedIsEnd DEF KeepsUp
<1>3. ASSUME Rises(M), NEW i \in 1..(Len(M) - Len(P)) PROVE M[i] + window < M[Len(M)]
  <2>1. FitsNow(A, L, window)
    BY <1>1, <1>3, RisesFits
  <2>2. /\ Len(P) \in Nat /\ Len(M) = Len(L) + 1 /\ Len(L) \in Nat /\ M[Len(M)] = now
    BY <1>1, <2>1, PrunedFits
  <2>3. \A j \in 1..Len(M) : M[j] + window >= now <=> j > Len(M) - Len(P)
    BY <1>1, <2>1, PrunedFits
  <2>4. i \in 1..Len(M) /\ ~(i > Len(M) - Len(P))
    BY <2>2
  <2>5. M[i] \in Nat
    <3>1. M \in Seq(Nat)
      BY <1>2 DEF IsEnd
    <3> QED BY <2>4, <3>1, ElementOfSeq
  <2> QED BY <2>2, <2>3, <2>4, <2>5
<1> QED BY <1>1, <1>2, <1>3 DEF KeepsUp

\* So the deque is as long as the set that Reached counts.
LEMMA CountedLength ==
  ASSUME NEW A, NEW L, NEW window \in Nat, now \in Nat, FitsNow(A, L, window)
  PROVE  Cardinality({j \in 1..(Len(L) + 1) :
                        Append(L, now)[j] + window >= Append(L, now)[Len(L) + 1]})
           = Len(Pruned(A, window))
<1> DEFINE P == Pruned(A, window)
           M == Append(L, now)
           n == Len(L) + 1
           p == Len(P)
<1>1. /\ IsEnd(P, M) /\ Len(P) \in Nat /\ Len(M) = n /\ Len(L) \in Nat /\ M[Len(M)] = now
      /\ \A i \in 1..Len(M) : M[i] + window >= now <=> i > Len(M) - Len(P)
  <2>1. P = Pruned(A, window) /\ M = Append(L, now)
    OBVIOUS
  <2> HIDE DEF P, M
  <2>2. IsEnd(P, M) /\ Len(P) \in Nat /\ Len(L) \in Nat
    BY <2>1, PrunedFits
  <2>3. Len(M) = Len(L) + 1 /\ M[Len(M)] = now
    BY <2>1, PrunedFits
  <2>4. \A i \in 1..Len(M) : M[i] + window >= now <=> i > Len(M) - Len(P)
    BY <2>1, PrunedFits
  <2> QED BY <2>2, <2>3, <2>4
<1>2. p \in Nat /\ n \in Nat /\ p <= n
  BY <1>1 DEF IsEnd
<1> HIDE DEF P, M
<1>3. {j \in 1..n : M[j] + window >= M[n]} = (n - p + 1)..n
  <2>1. \A j \in 1..n : M[j] + window >= M[n] <=> j > n - p
    BY <1>1
  <2> HIDE DEF p, n
  <2>2. \A j \in 1..n : j > n - p <=> j \in (n - p + 1)..n
    BY <1>2
  <2>3. (n - p + 1)..n \subseteq 1..n
    BY <1>2
  <2> QED BY <2>1, <2>2, <2>3
<1>4. Cardinality((n - p + 1)..n) = p
  <2> HIDE DEF p, n
  <2>1. /\ n - p + 1 \in Int /\ n \in Int
        /\ (n - p + 1 > n => p = 0) /\ n - (n - p + 1) + 1 = p
    BY <1>2
  <2>2. Cardinality((n - p + 1)..n) = IF n - p + 1 > n THEN 0 ELSE n - (n - p + 1) + 1
    BY <2>1, FS_Interval
  <2> QED BY <2>1, <2>2
<1> QED BY <1>3, <1>4 DEF P, M

\* Another event makes the window reach its count if it did before, or does now.
LEMMA ReachedGrows ==
  ASSUME NEW A, NEW L, NEW window \in Nat, NEW count, now \in Nat, FitsNow(A, L, window)
  PROVE  Reached(Append(L, now), count, window)
           <=> Reached(L, count, window) \/ Len(Pruned(A, window)) >= count
<1> DEFINE M == Append(L, now)
           n == Len(L) + 1
           Back(times, i) == {j \in 1..i : times[j] + window >= times[i]}
<1>1. L \in Seq(Nat) /\ Len(L) \in Nat /\ DOMAIN L = 1..Len(L)
  BY LenProperties DEF FitsNow, IsEnd
<1>2. M \in Seq(Nat) /\ Len(M) = n /\ \A i \in 1..Len(L) : M[i] = L[i]
  BY <1>1, AppendProperties
<1>3. DOMAIN M = 1..n
  <2> HIDE DEF M
  <2> QED BY <1>2, LenProperties
<1>4. Cardinality(Back(M, n)) = Len(Pruned(A, window))
  BY CountedLength
<1> HIDE DEF M
<1>5. ASSUME NEW i \in 1..Len(L) PROVE Back(M, i) = Back(L, i)
  <2>1. \A j \in 1..i : j \in 1..Len(L)
    BY <1>1
  <2> QED BY <1>2, <2>1
<1>6. 1..n = (1..Len(L)) \cup {n} /\ n \in 1..n
  BY <1>1
<1>7. Reached(M, count, window) <=> \E i \in 1..n : Cardinality(Back(M, i)) >= count
  BY <1>3 DEF Reached
<1>8. Reached(L, count, window) <=> \E i \in 1..Len(L) : Cardinality(Back(L, i)) >= count
  BY <1>1 DEF Reached
<1> HIDE DEF Back, n
<1>9. Reached(M, count, window) <=> Reached(L, count, window) \/ Cardinality(Back(M, n)) >= count
  BY <1>5, <1>6, <1>7, <1>8
<1> QED BY <1>4, <1>9 DEF M

\* What keeps up is the end of what was seen.
LEMMA KeptIsSuffix ==
  ASSUME NEW A, NEW L, NEW window, KeepsUp(A, L, window)
  PROVE  IsSuffix(A, L)
<1> DEFINE a == Len(A)
           l == Len(L)
           RA == Reverse(A)
           RL == Reverse(L)
<1>1. a \in Nat /\ l \in Nat /\ a <= l /\ A \in [1..a -> Nat] /\ L \in [1..l -> Nat]
  BY LenProperties DEF KeepsUp, IsEnd
<1>2. RA = [i \in 1..a |-> A[(a - i) + 1]] /\ RL = [i \in 1..l |-> L[(l - i) + 1]]
  BY DEF Reverse
<1>3. \A i \in 1..a : A[i] = L[l - a + i]
  BY DEF KeepsUp, IsEnd
<1> HIDE DEF a, l, RA, RL
<1>4. \A i \in 1..a : RA[i] = RL[i] /\ RA[i] \in Nat
  <2> SUFFICES ASSUME NEW i \in 1..a PROVE RA[i] = RL[i] /\ RA[i] \in Nat
    OBVIOUS
  <2>1. (a - i) + 1 \in 1..a /\ i \in 1..l /\ l - a + ((a - i) + 1) = (l - i) + 1
    BY <1>1
  <2>2. A[(a - i) + 1] = L[(l - i) + 1]
    BY <1>3, <2>1
  <2> QED BY <1>1, <1>2, <2>1, <2>2
<1>5. RA \in Seq(Nat) /\ Len(RA) = a /\ Len(RL) = l
  <2>1. RA \in [1..a -> Nat]
    BY <1>2, <1>4
  <2>2. \A i \in 1..l : (l - i) + 1 \in 1..l
    BY <1>1
  <2>3. RL \in [1..l -> Nat]
    BY <1>1, <1>2, <2>2
  <2> QED BY <1>1, <2>1, <2>3
<1>6. /\ SubSeq(RA, 1, a) = [i \in 1..a |-> RA[i]]
      /\ SubSeq(RL, 1, a) = [i \in 1..a |-> RL[i]]
  <2>1. RL \in Seq(Nat)
    <3>1. \A i \in 1..l : (l - i) + 1 \in 1..l
      BY <1>1
    <3>2. RL \in [1..l -> Nat]
      BY <1>1, <1>2, <3>1
    <3> QED BY <1>1, <3>2
  <2>2. (1 - 1 + a) = a
    BY <1>1
  <2> QED BY <1>1, <1>5, <2>1, <2>2
<1>7. SubSeq(RA, 1, a) = SubSeq(RL, 1, a)
  BY <1>4, <1>6
<1> QED BY <1>1, <1>5, <1>7 DEF IsSuffix, IsPrefix, RA, RL

BurstDue(s) ==
  Rises(logins[s]) => (s \in bursts <=> Reached(logins[s], LoginCount, LoginWindow))
SpreeDue(s) ==
  Rises(written[s]) => (s \in massive <=> Reached(written[s], WriteRate, RateWindow))

\* Each deque keeps up with what was seen, and the signals with it.
HeurInv ==
  /\ now \in Nat
  /\ attempts \in [Hosts -> Seq(Nat)] /\ logins \in [Hosts -> Seq(Nat)]
  /\ writes \in [Scopes -> Seq(Nat)] /\ written \in [Scopes -> Seq(Nat)]
  /\ \A s \in Hosts : KeepsUp(attempts[s], logins[s], LoginWindow)
  /\ \A s \in Scopes : KeepsUp(writes[s], written[s], RateWindow)
  /\ BurstsAreDue

LEMMA Windows == LoginWindow \in Nat /\ RateWindow \in Nat /\ LoginCount \in Nat \ {0}
                  /\ WriteRate \in Nat \ {0}
BY HeuristicsAssumption DEF HeuristicsAssumption

LEMMA HeurInvInit == HeuristicsInit => HeurInv
<1> SUFFICES ASSUME HeuristicsInit PROVE HeurInv
  OBVIOUS
<1>1. /\ now = 0 /\ attempts = [s \in Hosts |-> <<>>] /\ logins = attempts
      /\ writes = [s \in Scopes |-> <<>>] /\ written = writes /\ bursts = {} /\ massive = {}
  BY DEF HeuristicsInit
<1>2. <<>> \in Seq(Nat) /\ Len(<<>>) = 0
  OBVIOUS
<1>3. \A window \in Nat : KeepsUp(<<>>, <<>>, window)
  BY <1>2 DEF KeepsUp, IsEnd
<1>4. \A count, window : ~Reached(<<>>, count, window)
  <2>1. DOMAIN <<>> = {}
    OBVIOUS
  <2> QED BY <2>1 DEF Reached
<1> QED BY <1>1, <1>2, <1>3, <1>4, Windows DEF HeurInv, BurstsAreDue

\* A failed logon is counted: the source is signalled exactly when its window is full.
LEMMA HeurLogin == HeurInv /\ ProcessLogin => HeurInv'
<1> SUFFICES ASSUME HeurInv, ProcessLogin PROVE HeurInv'
  OBVIOUS
<1> DEFINE h == Head(inbox)
           kept == Pruned(attempts[h], LoginWindow)
<1>1. /\ attempts' = [attempts EXCEPT ![h] = kept]
      /\ bursts' = IF Len(kept) >= LoginCount THEN bursts \cup {h} ELSE bursts
      /\ logins' = [logins EXCEPT ![h] = Append(logins[h], now)]
      /\ UNCHANGED <<now, writes, massive, written>>
  BY DEF ProcessLogin, Seen, writeVars
<1>2. /\ now \in Nat
      /\ attempts \in [Hosts -> Seq(Nat)] /\ logins \in [Hosts -> Seq(Nat)]
      /\ \A s \in Hosts : KeepsUp(attempts[s], logins[s], LoginWindow)
      /\ \A s \in Hosts : BurstDue(s)
  BY DEF HeurInv, BurstsAreDue, BurstDue
<1> HIDE DEF h
<1>3. \A s \in Hosts \ {h} : attempts'[s] = attempts[s] /\ logins'[s] = logins[s]
                             /\ (s \in bursts' <=> s \in bursts)
  BY <1>1, <1>2
<1>4. ASSUME h \in Hosts
      PROVE  /\ attempts'[h] = kept /\ logins'[h] = Append(logins[h], now)
             /\ kept \in Seq(Nat) /\ Append(logins[h], now) \in Seq(Nat)
             /\ KeepsUp(kept, Append(logins[h], now), LoginWindow)
             /\ Rises(Append(logins[h], now)) =>
                  (h \in bursts' <=> Reached(Append(logins[h], now), LoginCount, LoginWindow))
  <2> DEFINE A == attempts[h]
             L == logins[h]
  <2>1. /\ KeepsUp(A, L, LoginWindow)
        /\ Rises(L) => (h \in bursts <=> Reached(L, LoginCount, LoginWindow))
    BY <1>2, <1>4 DEF BurstDue
  <2>2. attempts'[h] = kept /\ logins'[h] = Append(logins[h], now)
    BY <1>1, <1>2, <1>4
  <2>3. h \in bursts' <=> h \in bursts \/ Len(kept) >= LoginCount
    BY <1>1
  <2> HIDE DEF A, L
  <2>4. KeepsUp(Pruned(A, LoginWindow), Append(L, now), LoginWindow)
    BY <1>2, <2>1, PrunedKeepsUp, Windows
  <2>5. ASSUME Rises(Append(L, now))
        PROVE  /\ Rises(L)
               /\ Reached(Append(L, now), LoginCount, LoginWindow)
                    <=> \/ Reached(L, LoginCount, LoginWindow)
                        \/ Len(Pruned(A, LoginWindow)) >= LoginCount
    <3>1. FitsNow(A, L, LoginWindow) /\ Rises(L)
      BY <1>2, <2>1, <2>5, RisesFits, Windows
    <3> QED BY <1>2, <3>1, ReachedGrows, Windows
  <2>6. Pruned(A, LoginWindow) \in Seq(Nat) /\ Append(L, now) \in Seq(Nat)
    BY <2>4 DEF KeepsUp, IsEnd
  <2>7. /\ kept = Pruned(A, LoginWindow) /\ Append(logins[h], now) = Append(L, now)
    BY DEF A, L
  <2> HIDE DEF kept
  <2> QED BY <2>1, <2>2, <2>3, <2>4, <2>5, <2>6, <2>7
<1> HIDE DEF kept
<1>5. attempts' \in [Hosts -> Seq(Nat)] /\ logins' \in [Hosts -> Seq(Nat)]
  BY <1>1, <1>2, <1>4
<1>6. \A s \in Hosts : KeepsUp(attempts'[s], logins'[s], LoginWindow)
  BY <1>2, <1>3, <1>4
<1>7. \A s \in Hosts : BurstDue(s)'
  <2> SUFFICES ASSUME NEW s \in Hosts, Rises(logins'[s])
               PROVE  s \in bursts' <=> Reached(logins'[s], LoginCount, LoginWindow)
    BY DEF BurstDue, Rises, Reached
  <2>1. CASE s = h
    BY <1>4, <2>1
  <2>2. CASE s # h
    BY <1>2, <1>3, <2>2 DEF BurstDue
  <2> QED BY <2>1, <2>2
<1>8. now' \in Nat
  BY <1>1, <1>2
<1>9. \A s \in Hosts : KeepsUp(attempts[s], logins[s], LoginWindow)'
  BY <1>6 DEF KeepsUp, IsEnd, Rises
<1>10. /\ \A s \in Scopes : KeepsUp(writes[s], written[s], RateWindow)'
       /\ \A s \in Scopes : SpreeDue(s)'
       /\ writes' \in [Scopes -> Seq(Nat)] /\ written' \in [Scopes -> Seq(Nat)]
  <2>1. UNCHANGED <<writes, massive, written>>
    BY <1>1
  <2>2. \A s \in Scopes : KeepsUp(writes[s], written[s], RateWindow)'
    BY <2>1 DEF HeurInv, KeepsUp, IsEnd, Rises
  <2>3. \A s \in Scopes : SpreeDue(s)'
    BY <2>1 DEF HeurInv, Rises, Reached, SpreeDue, BurstsAreDue
  <2> QED BY <2>1, <2>2, <2>3 DEF HeurInv
<1> QED BY <1>5, <1>7, <1>8, <1>9, <1>10 DEF HeurInv, BurstsAreDue, BurstDue, SpreeDue

\* A write is counted in one scope.
LEMMA HeurWrite ==
  ASSUME NEW k \in Scopes, NEW path, NEW high, HeurInv, ProcessWrite(k, path, high)
  PROVE  HeurInv'
<1> DEFINE A == writes[k]
           L == written[k]
           kept == Pruned(A, RateWindow)
<1>1. /\ writes' = [writes EXCEPT ![k] = kept]
      /\ massive' = IF Len(kept) >= WriteRate THEN massive \cup {k} ELSE massive
      /\ written' = [written EXCEPT ![k] = Append(L, now)]
      /\ UNCHANGED <<now, attempts, bursts, logins>>
  BY DEF ProcessWrite, Seen, loginVars, logVars
<1>2. /\ now \in Nat
      /\ writes \in [Scopes -> Seq(Nat)] /\ written \in [Scopes -> Seq(Nat)]
      /\ \A s \in Scopes : KeepsUp(writes[s], written[s], RateWindow)
      /\ \A s \in Scopes : SpreeDue(s)
  BY DEF HeurInv, BurstsAreDue, SpreeDue
<1>3. /\ KeepsUp(A, L, RateWindow)
      /\ Rises(L) => (k \in massive <=> Reached(L, WriteRate, RateWindow))
  BY <1>2 DEF SpreeDue
<1>4. /\ writes'[k] = kept /\ written'[k] = Append(L, now)
      /\ \A s \in Scopes \ {k} : writes'[s] = writes[s] /\ written'[s] = written[s]
                                /\ (s \in massive' <=> s \in massive)
  BY <1>1, <1>2
<1>5. k \in massive' <=> k \in massive \/ Len(kept) >= WriteRate
  BY <1>1
<1> HIDE DEF A, L
<1>6. KeepsUp(Pruned(A, RateWindow), Append(L, now), RateWindow)
  BY <1>2, <1>3, PrunedKeepsUp, Windows
<1>7. ASSUME Rises(Append(L, now))
      PROVE  /\ Rises(L)
             /\ Reached(Append(L, now), WriteRate, RateWindow)
                  <=> Reached(L, WriteRate, RateWindow) \/ Len(Pruned(A, RateWindow)) >= WriteRate
  <2>1. FitsNow(A, L, RateWindow) /\ Rises(L)
    BY <1>2, <1>3, <1>7, RisesFits, Windows
  <2> QED BY <1>2, <2>1, ReachedGrows, Windows
<1>8. kept \in Seq(Nat) /\ Append(L, now) \in Seq(Nat)
  BY <1>6 DEF KeepsUp, IsEnd
<1>9. KeepsUp(kept, Append(L, now), RateWindow)
  BY <1>6
<1>10. Rises(Append(L, now)) => (k \in massive' <=> Reached(Append(L, now), WriteRate, RateWindow))
  BY <1>3, <1>5, <1>7
<1> HIDE DEF kept
<1>11. writes' \in [Scopes -> Seq(Nat)] /\ written' \in [Scopes -> Seq(Nat)]
  BY <1>1, <1>2, <1>8
<1>12. \A s \in Scopes : KeepsUp(writes'[s], written'[s], RateWindow)
  BY <1>2, <1>4, <1>9
<1>13. \A s \in Scopes : SpreeDue(s)'
  <2> SUFFICES ASSUME NEW s \in Scopes, Rises(written'[s])
               PROVE  s \in massive' <=> Reached(written'[s], WriteRate, RateWindow)
    BY DEF SpreeDue, Rises, Reached
  <2>1. CASE s = k
    BY <1>4, <1>10, <2>1
  <2>2. CASE s # k
    BY <1>2, <1>4, <2>2 DEF SpreeDue
  <2> QED BY <2>1, <2>2
<1>14. now' \in Nat
  BY <1>1, <1>2
<1>15. \A s \in Scopes : KeepsUp(writes[s], written[s], RateWindow)'
  BY <1>12 DEF KeepsUp, IsEnd, Rises
<1>16. /\ \A s \in Hosts : KeepsUp(attempts[s], logins[s], LoginWindow)'
       /\ \A s \in Hosts : BurstDue(s)'
       /\ attempts' \in [Hosts -> Seq(Nat)] /\ logins' \in [Hosts -> Seq(Nat)]
  <2>1. UNCHANGED <<attempts, bursts, logins>>
    BY <1>1
  <2>2. \A s \in Hosts : KeepsUp(attempts[s], logins[s], LoginWindow)'
    BY <2>1 DEF HeurInv, KeepsUp, IsEnd, Rises
  <2>3. \A s \in Hosts : BurstDue(s)'
    BY <2>1 DEF HeurInv, Rises, Reached, BurstDue, BurstsAreDue
  <2> QED BY <2>1, <2>2, <2>3 DEF HeurInv
<1> QED BY <1>11, <1>13, <1>14, <1>15, <1>16 DEF HeurInv, BurstsAreDue, BurstDue, SpreeDue

\* Nothing is counted anew without an event, whatever the clock does.
LEMMA HeurStay ==
  HeurInv /\ now' \in Nat /\ UNCHANGED <<attempts, logins, bursts, writes, written, massive>>
    => HeurInv'
<1> SUFFICES ASSUME HeurInv, now' \in Nat,
                    UNCHANGED <<attempts, logins, bursts, writes, written, massive>>
             PROVE  HeurInv'
  OBVIOUS
<1>1. BurstsAreDue'
  BY DEF HeurInv, BurstsAreDue, Reached, Rises
<1>2. /\ \A s \in Hosts : KeepsUp(attempts[s], logins[s], LoginWindow)'
      /\ \A s \in Scopes : KeepsUp(writes[s], written[s], RateWindow)'
  BY DEF HeurInv, KeepsUp, IsEnd, Rises
<1> QED BY <1>1, <1>2 DEF HeurInv

LEMMA HeurInvNext == HeurInv /\ [LoginsNext \/ WritesNext]_heuristicsVars => HeurInv'
<1> SUFFICES ASSUME HeurInv, [LoginsNext \/ WritesNext]_heuristicsVars PROVE HeurInv'
  OBVIOUS
<1>0. now \in Nat
  BY DEF HeurInv
<1>1. ASSUME NEW source \in Hosts, NEW kind, Log(kind, source) PROVE HeurInv'
  BY <1>0, <1>1, HeurStay DEF Log, loginVars, writeVars
<1>2. CASE ClearLog
  BY <1>0, <1>2, HeurStay DEF ClearLog, loginVars, writeVars
<1>3. ASSUME NEW n \in 1..Len(log), Poll4625(n) PROVE HeurInv'
  BY <1>0, <1>3, HeurStay DEF Poll4625, loginVars, writeVars
<1>4. CASE ProcessLogin
  BY <1>4, HeurLogin
<1>5. CASE Pass
  BY <1>5, HeurStay, HeuristicsAssumption DEF Pass, loginVars, writeVars
<1>6. ASSUME NEW k \in Scopes, NEW path \in Paths, NEW high \in BOOLEAN,
             ProcessWrite(k, path, high)
      PROVE HeurInv'
  BY <1>6, HeurWrite
<1>7. CASE UNCHANGED heuristicsVars
  BY <1>0, <1>7, HeurStay DEF heuristicsVars
<1> QED BY <1>1, <1>2, <1>3, <1>4, <1>5, <1>6, <1>7 DEF LoginsNext, WritesNext

\* A burst of failed logons, a mass modification is signalled for the sources and scopes
\* that have had one within the window, and for no others: popleft forgets none too soon.
\* Of a source or a scope between whose events the clock was set back nothing is said.
THEOREM BurstsAreSignalled == HeuristicsSpec => []BurstsAreDue
<1>1. HeurInv => BurstsAreDue
  BY DEF HeurInv
<1> QED BY <1>1, HeurInvInit, HeurInvNext, PTL DEF HeuristicsSpec
LogOK == logged \in Nat /\ log \in Seq(Records) /\ spiked \subseteq Paths

LEMMA LogOKNext == LogOK /\ [LoginsNext \/ WritesNext]_heuristicsVars => LogOK'
<1> SUFFICES ASSUME LogOK, [LoginsNext \/ WritesNext]_heuristicsVars PROVE LogOK'
  OBVIOUS
<1> USE DEF LogOK
<1>1. ASSUME NEW source \in Hosts, NEW kind \in {"failed", "malformed", "other"},
             Log(kind, source)
      PROVE LogOK'
  <2> DEFINE r == [number |-> logged + 1, kind |-> kind, source |-> source]
  <2>1. r \in Records
    BY DEF Records
  <2>2. logged' = logged + 1 /\ log' = Append(log, r) /\ spiked' = spiked
    BY <1>1 DEF Log, writeVars
  <2> HIDE DEF r
  <2> QED BY <2>1, <2>2, AppendProperties
<1>2. CASE ClearLog
  BY <1>2 DEF ClearLog, writeVars
<1>3. ASSUME NEW n \in 1..Len(log), Poll4625(n) PROVE LogOK'
  BY <1>3 DEF Poll4625, writeVars
<1>4. CASE ProcessLogin
  BY <1>4 DEF ProcessLogin, writeVars
<1>5. CASE Pass
  BY <1>5 DEF Pass, writeVars, logVars
<1>6. ASSUME NEW k \in Scopes, NEW path \in Paths, NEW high \in BOOLEAN,
             ProcessWrite(k, path, high)
      PROVE LogOK'
  BY <1>6 DEF ProcessWrite, logVars
<1>7. CASE UNCHANGED heuristicsVars
  BY <1>7 DEF heuristicsVars
<1> QED BY <1>1, <1>2, <1>3, <1>4, <1>5, <1>6, <1>7 DEF LoginsNext, WritesNext

LEMMA HeurInvTypes == HeurInv /\ LogOK => HeuristicsOK
<1> SUFFICES ASSUME HeurInv, LogOK PROVE HeuristicsOK
  OBVIOUS
<1>1. \A i \in DOMAIN log : log[i] \in Records
  BY LenProperties, ElementOfSeq DEF LogOK
<1>2. \A s \in Hosts : IsSuffix(attempts[s], logins[s])
  BY KeptIsSuffix DEF HeurInv
<1>3. \A s \in Scopes : IsSuffix(writes[s], written[s])
  BY KeptIsSuffix DEF HeurInv
<1> QED BY <1>1, <1>2, <1>3 DEF HeuristicsOK, LogOK

\* The log holds records, and the deques hold the last times of those that were seen.
THEOREM HeuristicsTypeCorrect == HeuristicsSpec => []HeuristicsOK
<1>1. HeuristicsInit => LogOK
  BY DEF HeuristicsInit, LogOK
<1> QED BY <1>1, HeurInvTypes, HeurInvInit, HeurInvNext, LogOKNext, PTL DEF HeuristicsSpec

-----------------------------------------------------------------------------
(* The load of the processor.  The window of a pid is its readings of the  *)
(* last time, and those of a process come after those of the processes     *)
(* that had its pid before.                                                *)

\* What is known of one pid: t is the time, L its readings, W its window.
CpuOne(t, L, W, life) ==
  /\ \A r \in L : r.at \in Int /\ r.at <= t /\ r.life # 0
  /\ \A q, r \in L : q.at = r.at => q = r
  /\ \A w \in W : w.at \in Int /\ w.at <= t /\ \E r \in L : r.at = w.at /\ (w.hot <=> r.hot)
  /\ \A r \in L : r.at >= t - 2 * CpuSeconds => \E w \in W : w.at = r.at
  /\ \A q, r \in L : r.life = life /\ q.life # life => q.at < r.at

\* Looks, the meaning of a signal and HeldBusy, of the readings L.
Span(L, t) == {r \in L : t - CpuSeconds <= r.at /\ r.at <= t}
Sound(L, t) ==
  /\ \E r \in Span(L, t) : 4 * r.at <= 4 * t - 3 * CpuSeconds
  /\ \A r \in Span(L, t) : r.hot
Held(L, life, t) ==
  /\ \E r \in L : r.life = life /\ r.at <= t - CpuSeconds
  /\ \E r \in Span(L, t) : r.life = life /\ 4 * r.at <= 4 * t - 3 * CpuSeconds
  /\ \A r \in Span(L, t) : r.life = life => r.hot

LEMMA CpuNat == CpuSeconds \in Nat /\ CpuSeconds > 0
BY StreamsAssumption DEF StreamsAssumption

\* A reading is taken.
LEMMA ReadOne ==
  ASSUME NEW t \in Int, NEW u \in Int, u = t + 1, NEW L, NEW W, NEW life, life # 0,
         CpuOne(t, L, W, life),
         NEW r, r.at = u, r.life = life,
         NEW w, w.at = u, w.hot <=> r.hot,
         NEW M, M = L \cup {r},
         NEW V, V = {x \in W \cup {w} : x.at >= u - 2 * CpuSeconds}
  PROVE  CpuOne(u, M, V, life)
<1>1. /\ M = L \cup {r} /\ r.at = u /\ (w.hot <=> r.hot) /\ r.life = life /\ life # 0 /\ w.at = u
      /\ V = {x \in W \cup {w} : x.at >= u - 2 * CpuSeconds}
  OBVIOUS
<1>2. w \in V /\ \A x \in V : x = w \/ x \in W
  BY <1>1, CpuNat
<1>3. \A q \in L : q.at \in Int /\ q.at <= t /\ q.at < u /\ q.life # 0
  BY DEF CpuOne
<1>4. \A x \in W : x.at \in Int /\ x.at <= t /\ x.at < u
  BY DEF CpuOne
<1>5. \A q \in M : q.at \in Int /\ q.at <= u /\ q.life # 0
  BY <1>1, <1>3
<1>6. \A q, x \in M : q.at = x.at => q = x
  BY <1>1, <1>3 DEF CpuOne
<1>7. \A x \in V : x.at \in Int /\ x.at <= u /\ \E q \in M : q.at = x.at /\ (x.hot <=> q.hot)
  <2> SUFFICES ASSUME NEW x \in V
               PROVE  x.at \in Int /\ x.at <= u /\ \E q \in M : q.at = x.at /\ (x.hot <=> q.hot)
    OBVIOUS
  <2>1. CASE x = w
    BY <1>1, <2>1
  <2>2. CASE x \in W
    BY <1>1, <1>4, <2>2 DEF CpuOne
  <2> QED BY <1>2, <2>1, <2>2
<1>8. \A q \in M : q.at >= u - 2 * CpuSeconds => \E x \in V : x.at = q.at
  <2> SUFFICES ASSUME NEW q \in M, q.at >= u - 2 * CpuSeconds PROVE \E x \in V : x.at = q.at
    OBVIOUS
  <2>1. CASE q = r
    BY <1>1, <1>2, <2>1
  <2>2. CASE q \in L
    <3>1. q.at >= t - 2 * CpuSeconds
      BY <1>3, <2>2, CpuNat
    <3>2. PICK x \in W : x.at = q.at
      BY <2>2, <3>1 DEF CpuOne
    <3> QED BY <1>1, <3>2
  <2> QED BY <1>1, <2>1, <2>2
<1>9. \A q, x \in M : x.life = life /\ q.life # life => q.at < x.at
  BY <1>1, <1>3 DEF CpuOne
<1> QED BY <1>5, <1>6, <1>7, <1>8, <1>9 DEF CpuOne

\* Time passes without a reading.
LEMMA PassOne ==
  ASSUME NEW t \in Int, NEW u \in Int, u = t + 1, NEW L, NEW W, NEW life, CpuOne(t, L, W, life)
  PROVE  CpuOne(u, L, W, life)
<1>1. \A r \in L : r.at \in Int /\ r.at <= u
  BY DEF CpuOne
<1>2. \A w \in W : w.at \in Int /\ w.at <= u
  BY DEF CpuOne
<1>3. \A r \in L : r.at >= u - 2 * CpuSeconds => r.at >= t - 2 * CpuSeconds
  BY <1>1, CpuNat
<1> QED BY <1>1, <1>2, <1>3 DEF CpuOne

\* A life ends, or one begins that has no reading yet.
LEMMA OtherLife ==
  ASSUME NEW t \in Int, NEW L, NEW W, NEW life, CpuOne(t, L, W, life),
         NEW next, \A r \in L : r.life # next
  PROVE  CpuOne(t, L, W, next)
BY DEF CpuOne

\* The window tells the readings of the last time.
LEMMA SignalOne ==
  ASSUME NEW t \in Int, NEW L, NEW W, NEW life, CpuOne(t, L, W, life), SustainedAbove(W, t)
  PROVE  Sound(L, t)
<1> DEFINE within == {w \in W : w.at >= t - CpuSeconds}
<1>1. /\ \E w \in within : 4 * w.at <= 4 * (t - CpuSeconds) + CpuSeconds
      /\ \A w \in within : w.hot
  BY DEF SustainedAbove, Recent
<1>2. ASSUME NEW q \in Span(L, t) PROVE q.hot
  <2>1. q \in L /\ q.at \in Int /\ q.at >= t - 2 * CpuSeconds /\ q.at >= t - CpuSeconds
    BY CpuNat DEF CpuOne, Span
  <2>2. PICK w \in W : w.at = q.at
    BY <2>1 DEF CpuOne
  <2>3. PICK x \in L : x.at = w.at /\ (w.hot <=> x.hot)
    BY DEF CpuOne
  <2>4. x = q
    BY <2>1, <2>2, <2>3 DEF CpuOne
  <2> QED BY <1>1, <2>1, <2>2, <2>3, <2>4
<1>3. \E q \in Span(L, t) : 4 * q.at <= 4 * t - 3 * CpuSeconds
  <2>1. PICK w \in within : 4 * w.at <= 4 * (t - CpuSeconds) + CpuSeconds
    BY <1>1
  <2>2. w.at \in Int /\ w.at <= t /\ w.at >= t - CpuSeconds
    BY DEF CpuOne
  <2>3. PICK q \in L : q.at = w.at
    BY DEF CpuOne
  <2> QED BY <2>1, <2>2, <2>3, CpuNat DEF Span
<1> QED BY <1>2, <1>3 DEF Sound

\* A process that has been busy for all of the window has a window that says so.
LEMMA DueOne ==
  ASSUME NEW t \in Int, NEW L, NEW W, NEW life, CpuOne(t, L, W, life), Held(L, life, t)
  PROVE  SustainedAbove(W, t)
<1>1. PICK o \in L : o.life = life /\ o.at <= t - CpuSeconds
  BY DEF Held
<1>2. ASSUME NEW q \in Span(L, t) PROVE q.hot
  <2>1. q \in L /\ q.at \in Int /\ o.at \in Int /\ t - CpuSeconds <= q.at
    BY DEF CpuOne, Span
  <2>2. q.life = life
    BY <1>1, <2>1, CpuNat DEF CpuOne
  <2> QED BY <2>2 DEF Held
<1>3. ASSUME NEW w \in W, w.at >= t - CpuSeconds PROVE w.hot
  <2>1. PICK x \in L : x.at = w.at /\ (w.hot <=> x.hot)
    BY DEF CpuOne
  <2>2. x \in Span(L, t)
    BY <1>3, <2>1 DEF CpuOne, Span
  <2> QED BY <1>2, <2>1, <2>2
<1>4. \E w \in Recent(W, t, CpuSeconds) : 4 * w.at <= 4 * (t - CpuSeconds) + CpuSeconds
  <2>1. PICK r \in Span(L, t) : 4 * r.at <= 4 * t - 3 * CpuSeconds
    BY DEF Held
  <2>2. r \in L /\ r.at \in Int /\ r.at >= t - CpuSeconds /\ r.at >= t - 2 * CpuSeconds
    BY CpuNat DEF CpuOne, Span
  <2>3. PICK w \in W : w.at = r.at
    BY <2>2 DEF CpuOne
  <2> QED BY <2>1, <2>2, <2>3, CpuNat DEF Recent
<1>5. \A w \in Recent(W, t, CpuSeconds) : w.hot
  BY <1>3 DEF Recent
<1> QED BY <1>4, <1>5 DEF SustainedAbove

\* Later readings change nothing of what was at an earlier time.
LEMMA StableOne ==
  ASSUME NEW at \in Int, NEW L, NEW r, r.at \in Int, r.at > at
  PROVE  /\ Sound(L, at) => Sound(L \cup {r}, at)
         /\ \A life : Held(L \cup {r}, life, at) => Held(L, life, at)
<1>1. Span(L \cup {r}, at) = Span(L, at)
  <2>1. ~(r.at <= at)
    OBVIOUS
  <2> QED BY <2>1 DEF Span
<1>2. ~(r.at <= at - CpuSeconds)
  BY CpuNat
<1> QED BY <1>1, <1>2 DEF Sound, Held

-----------------------------------------------------------------------------
OwnSignal(p) == {m \in mined : m.pid = p /\ m.life = living[p]}

\* What is known of the flag of a pid, and of a signal.
FlagOne(p) ==
  p \notin outlived =>
    /\ p \in mining => living[p] # 0 /\ OwnSignal(p) # {}
    /\ living[p] # 0 =>
         \A r \in loads[p] : r.life = living[p] /\ Held(loads[p], living[p], r.at) =>
                               \E m \in OwnSignal(p) : m.at <= r.at
MinedOne(m) ==
  /\ m.pid \in Talkers /\ m.at \in Int /\ m.at <= streamTime /\ m.life # 0
  /\ Sound(loads[m.pid], m.at)
  /\ \E r \in loads[m.pid] : r.life = m.life
  /\ m.life = living[m.pid] => m.pid \in mining
  /\ \A n \in mined : n.pid = m.pid /\ n.life = m.life => n = m

CpuInv ==
  /\ streamTime \in Int
  /\ living = [p \in Talkers |-> living[p]]
  /\ \A p \in Talkers : CpuOne(streamTime, loads[p], cpuWindow[p], living[p]) /\ FlagOne(p)
  /\ \A m \in mined : MinedOne(m)

LEMMA CpuInit == StreamsInit => CpuInv
<1> SUFFICES ASSUME StreamsInit PROVE CpuInv
  OBVIOUS
<1>1. streamTime \in Int
  BY StreamsAssumption DEF StreamsInit, StreamsAssumption
<1>2. /\ living = [p \in Talkers |-> living[p]] /\ mined = {} /\ mining = {}
      /\ \A p \in Talkers : loads[p] = {} /\ cpuWindow[p] = {} /\ living[p] = 1
  BY DEF StreamsInit
<1>3. \A p \in Talkers : CpuOne(streamTime, loads[p], cpuWindow[p], living[p])
  <2> TAKE p \in Talkers
  <2>1. CpuOne(streamTime, {}, {}, 1)
    BY <1>1 DEF CpuOne
  <2> QED BY <1>2, <2>1
<1>4. \A p \in Talkers : FlagOne(p)
  BY <1>2 DEF FlagOne
<1> QED BY <1>1, <1>2, <1>3, <1>4 DEF CpuInv

\* A sample reads some pids and not others, and signals the busy ones.
LEMMA SampleKeeps ==
  ASSUME CpuInv, NEW read \in SUBSET {p \in Talkers : IsLiving(p)}, NEW busy \in SUBSET read,
         SampleCpu(read, busy)
  PROVE  CpuInv'
<1> DEFINE t == streamTime
           u == streamTime + 1
           win(p) == IF p \in read
                     THEN Recent(cpuWindow[p] \cup {[at |-> u, hot |-> p \in busy]},
                                 u, 2 * CpuSeconds)
                     ELSE cpuWindow[p]
           new == {p \in read \ mining : SustainedAbove(win(p), u)}
           r(p) == [at |-> u, hot |-> p \in busy, life |-> living[p]]
           s(p) == [pid |-> p, life |-> living[p], at |-> u]
<1>1. /\ t \in Int /\ u \in Int /\ u = t + 1 /\ streamTime' = u /\ living' = living
      /\ outlived' = outlived
  BY DEF CpuInv, SampleCpu
<1>2. \A p \in Talkers : cpuWindow'[p] = win(p)
  BY DEF SampleCpu
<1>3. \A p \in Talkers : loads'[p] = IF p \in read THEN loads[p] \cup {r(p)} ELSE loads[p]
  BY DEF SampleCpu
<1>4. mined' = mined \cup {s(p) : p \in new} /\ mining' = mining \cup new
  <2>1. \A p \in Talkers : win(p) = [q \in Talkers |-> win(q)][p]
    OBVIOUS
  <2>2. new = {p \in read \ mining : SustainedAbove([q \in Talkers |-> win(q)][p], u)}
    BY <2>1
  <2> QED BY <2>2 DEF SampleCpu
<1>5. \A p \in read : p \in Talkers /\ living[p] # 0
  BY DEF IsLiving
<1>6. \A p \in Talkers : (p \in new <=> p \in read \ mining /\ SustainedAbove(cpuWindow'[p], u))
  BY <1>2
<1>7. new \subseteq read
  OBVIOUS
<1>8. \A p : /\ r(p).at = u /\ r(p).life = living[p] /\ (r(p).hot <=> p \in busy)
             /\ s(p).pid = p /\ s(p).life = living[p] /\ s(p).at = u
  OBVIOUS
<1> HIDE DEF t, u, new, s
<1>9. \A p \in Talkers : CpuOne(u, loads'[p], cpuWindow'[p], living[p])
  <2> SUFFICES ASSUME NEW p \in Talkers
               PROVE  CpuOne(u, loads'[p], cpuWindow'[p], living[p])
    OBVIOUS
  <2>1. CpuOne(t, loads[p], cpuWindow[p], living[p])
    BY DEF CpuInv, t
  <2>2. CASE p \in read
    <3> DEFINE w == [at |-> u, hot |-> p \in busy]
    <3>1. w.at = u /\ (w.hot <=> r(p).hot)
      OBVIOUS
    <3>2. loads'[p] = loads[p] \cup {r(p)}
      BY <1>3, <2>2
    <3>3. cpuWindow'[p] = Recent(cpuWindow[p] \cup {w}, u, 2 * CpuSeconds)
      BY <1>2, <2>2
    <3> HIDE DEF w, r
    <3>4. cpuWindow'[p] = {x \in cpuWindow[p] \cup {w} : x.at >= u - 2 * CpuSeconds}
      BY <3>3 DEF Recent
    <3> QED BY <1>1, <1>5, <1>8, <2>1, <2>2, <3>1, <3>2, <3>4, ReadOne
  <2>3. CASE p \notin read
    <3>1. loads'[p] = loads[p] /\ cpuWindow'[p] = cpuWindow[p]
      BY <1>2, <1>3, <2>3
    <3> QED BY <1>1, <2>1, <3>1, PassOne
  <2> QED BY <2>2, <2>3
<1> HIDE DEF r, win
<1>10. ASSUME NEW p \in Talkers, NEW at \in Int, at <= t
       PROVE  /\ Sound(loads[p], at) => Sound(loads'[p], at)
              /\ \A life : Held(loads'[p], life, at) => Held(loads[p], life, at)
  <2>1. CASE p \in read
    <3>1. loads'[p] = loads[p] \cup {r(p)}
      BY <1>3, <2>1
    <3>2. r(p).at = u
      BY <1>8
    <3>3. u \in Int /\ u > at
      BY <1>1, <1>10
    <3>4. r(p).at \in Int /\ r(p).at > at
      BY <3>2, <3>3
    <3> QED BY <3>1, <3>4, StableOne
  <2>2. CASE p \notin read
    BY <1>3, <2>2
  <2> QED BY <2>1, <2>2
<1>11. \A p \in Talkers : FlagOne(p)'
  <2> SUFFICES ASSUME NEW p \in Talkers, p \notin outlived
               PROVE  /\ p \in mining' => living[p] # 0 /\ OwnSignal(p)' # {}
                      /\ living[p] # 0 =>
                           \A q \in loads'[p] :
                             q.life = living[p] /\ Held(loads'[p], living[p], q.at) =>
                               \E m \in OwnSignal(p)' : m.at <= q.at
    BY <1>1 DEF FlagOne
  <2>1. FlagOne(p) /\ CpuOne(t, loads[p], cpuWindow[p], living[p])
    BY DEF CpuInv, t
  <2>2. OwnSignal(p) \subseteq OwnSignal(p)'
    BY <1>1, <1>4 DEF OwnSignal
  <2>3. p \in new => s(p) \in OwnSignal(p)'
    BY <1>1, <1>4, <1>8 DEF OwnSignal
  <2>4. p \in mining' => living[p] # 0 /\ OwnSignal(p)' # {}
    BY <1>4, <1>5, <1>7, <2>1, <2>2, <2>3 DEF FlagOne
  <2>5. ASSUME NEW q \in loads'[p], q.life = living[p], living[p] # 0,
               Held(loads'[p], living[p], q.at)
        PROVE  \E m \in OwnSignal(p)' : m.at <= q.at
    <3>1. CASE q \in loads[p]
      <4>1. q.at \in Int /\ q.at <= t
        BY <2>1, <3>1 DEF CpuOne
      <4>2. Held(loads[p], living[p], q.at)
        BY <1>10, <2>5, <4>1
      <4>3. PICK m \in OwnSignal(p) : m.at <= q.at
        BY <2>1, <2>5, <3>1, <4>2 DEF FlagOne
      <4> QED BY <2>2, <4>3
    <3>2. CASE q \notin loads[p]
      <4>1. p \in read /\ q = r(p)
        BY <1>3, <3>2
      <4>5. q.at = u
        BY <1>8, <4>1
      <4>2. CASE p \in mining
        <5>1. PICK m \in OwnSignal(p) : TRUE
          BY <2>1, <4>2 DEF FlagOne
        <5>2. m.at \in Int /\ m.at <= t
          BY <5>1 DEF CpuInv, MinedOne, OwnSignal, t
        <5>3. m.at <= u
          BY <1>1, <5>2
        <5> QED BY <2>2, <4>5, <5>1, <5>3
      <4>3. CASE p \notin mining
        <5>1. SustainedAbove(cpuWindow'[p], u)
          BY <1>1, <1>9, <2>5, <4>5, DueOne
        <5>2. p \in new
          BY <1>6, <4>1, <4>3, <5>1
        <5>3. s(p).at = u /\ u <= u
          BY <1>1, <1>8
        <5> QED BY <2>3, <4>5, <5>2, <5>3
      <4> QED BY <4>2, <4>3
    <3> QED BY <3>1, <3>2
  <2> QED BY <2>4, <2>5
<1>12. ASSUME NEW m \in mined PROVE MinedOne(m)'
  <2>1. MinedOne(m)
    BY DEF CpuInv
  <2>2. m.at \in Int /\ m.at <= t /\ m.at <= u /\ m.pid \in Talkers
    BY <1>1, <2>1 DEF MinedOne, t
  <2>3. Sound(loads'[m.pid], m.at)
    BY <1>10, <2>1, <2>2 DEF MinedOne
  <2>4. \E q \in loads'[m.pid] : q.life = m.life
    BY <1>3, <2>1, <2>2 DEF MinedOne
  <2>5. ASSUME NEW n \in mined', n.pid = m.pid, n.life = m.life PROVE n = m
    <3>1. CASE n \in mined
      BY <2>1, <2>5, <3>1 DEF MinedOne
    <3>2. CASE n \notin mined
      <4>1. PICK p \in new : n = s(p)
        BY <1>4, <3>2
      <4>2. p \notin mining /\ m.pid = p /\ m.life = living[p]
        BY <1>5, <1>6, <1>7, <1>8, <2>5, <4>1
      <4> QED BY <2>1, <4>2 DEF MinedOne
    <3> QED BY <3>1, <3>2
  <2> QED BY <1>1, <1>4, <2>1, <2>2, <2>3, <2>4, <2>5 DEF MinedOne
<1>13. ASSUME NEW m \in mined' \ mined PROVE MinedOne(m)'
  <2>1. PICK p \in new : m = s(p)
    BY <1>4, <1>13
  <2>2. /\ p \in read /\ p \in Talkers /\ p \notin mining /\ SustainedAbove(cpuWindow'[p], u)
        /\ m.pid = p /\ m.life = living[p] /\ m.at = u /\ living[p] # 0 /\ p \in mining'
    BY <1>4, <1>5, <1>6, <1>7, <1>8, <2>1
  <2>3. Sound(loads'[p], u)
    BY <1>1, <1>9, <2>2, SignalOne
  <2>4. r(p) \in loads'[p] /\ r(p).life = living[p]
    BY <1>3, <1>8, <2>2
  <2>5. ASSUME NEW n \in mined', n.pid = p, n.life = living[p] PROVE n = m
    <3>1. CASE n \in mined
      BY <2>2, <2>5, <3>1 DEF CpuInv, MinedOne
    <3>2. CASE n \notin mined
      <4>1. PICK q \in new : n = s(q)
        BY <1>4, <3>2
      <4> QED BY <1>8, <2>1, <2>5, <4>1
    <3> QED BY <3>1, <3>2
  <2>6. u <= u
    BY <1>1
  <2> QED BY <1>1, <2>2, <2>3, <2>4, <2>5, <2>6 DEF MinedOne
<1>14. living' = [p \in Talkers |-> living'[p]] /\ streamTime' \in Int
  BY <1>1 DEF CpuInv
<1>15. \A p \in Talkers : CpuOne(streamTime', loads'[p], cpuWindow'[p], living'[p])
  BY <1>1, <1>9
<1> QED BY <1>11, <1>12, <1>13, <1>14, <1>15 DEF CpuInv

\* A life of one pid ends or begins: the readings and the signals stay as they are.
LEMMA LifeKeeps ==
  ASSUME CpuInv, NEW p \in Talkers, NEW next, \A r \in loads[p] : r.life # next,
         living' = [living EXCEPT ![p] = next],
         UNCHANGED <<streamTime, cpuWindow, loads, mined>>,
         mining' \ {p} = mining \ {p}, outlived' \ {p} = outlived \ {p},
         p \in mining' => p \in outlived'
  PROVE  CpuInv'
<1>1. \A q \in Talkers : living'[q] = IF q = p THEN next ELSE living[q]
  BY DEF CpuInv
<1>2. \A q \in Talkers : CpuOne(streamTime, loads[q], cpuWindow[q], living'[q])
  <2> TAKE q \in Talkers
  <2>1. CpuOne(streamTime, loads[q], cpuWindow[q], living[q]) /\ streamTime \in Int
    BY DEF CpuInv
  <2> QED BY <1>1, <2>1, OtherLife
<1>3. ASSUME NEW q \in Talkers PROVE FlagOne(q)'
  <2>1. CASE q = p
    BY <1>1, <2>1 DEF FlagOne
  <2>2. CASE q # p
    <3>1. living'[q] = living[q] /\ (q \in mining' <=> q \in mining)
            /\ (q \in outlived' <=> q \in outlived)
      BY <1>1, <2>2
    <3>2. FlagOne(q)
      BY DEF CpuInv
    <3>3. OwnSignal(q)' = OwnSignal(q)
      BY <3>1 DEF OwnSignal
    <3> QED BY <3>1, <3>2, <3>3 DEF FlagOne
  <2> QED BY <2>1, <2>2
<1>4. ASSUME NEW m \in mined PROVE MinedOne(m)'
  <2>1. MinedOne(m)
    BY DEF CpuInv
  <2>2. m.life = living'[m.pid] => m.pid \in mining'
    BY <1>1, <2>1 DEF MinedOne
  <2> QED BY <2>1, <2>2 DEF MinedOne
<1>5. living' = [q \in Talkers |-> living'[q]]
  BY DEF CpuInv
<1> QED BY <1>2, <1>3, <1>4, <1>5 DEF CpuInv

\* Each step on the readings keeps the invariant.
LEMMA CpuStep == CpuInv /\ [CpuNext]_streamVars => CpuInv'
<1> SUFFICES ASSUME CpuInv, [CpuNext]_streamVars PROVE CpuInv'
  OBVIOUS
<1>1. CASE \E read \in SUBSET {p \in Talkers : IsLiving(p)} : \E busy \in SUBSET read :
             SampleCpu(read, busy)
  BY <1>1, SampleKeeps
<1>2. ASSUME NEW p \in Talkers, BeginLife(p) PROVE CpuInv'
  <2> DEFINE next == 1 + Cardinality({r.life : r \in loads[p]})
  <2>1. /\ next \notin {r.life : r \in loads[p]} /\ living' = [living EXCEPT ![p] = next]
        /\ UNCHANGED <<streamTime, cpuWindow, loads, mined, mining, outlived>> /\ living[p] = 0
    BY <1>2 DEF BeginLife, IsLiving
  <2>2. p \in mining => p \in outlived
    BY <2>1 DEF CpuInv, FlagOne
  <2> HIDE DEF next
  <2> QED BY <2>1, <2>2, LifeKeeps
<1>3. ASSUME NEW p \in Talkers, NEW told \in BOOLEAN, EndLife(p, told) PROVE CpuInv'
  <2>1. /\ living' = [living EXCEPT ![p] = 0]
        /\ UNCHANGED <<streamTime, cpuWindow, loads, mined>>
        /\ mining' = IF told THEN mining \ {p} ELSE mining
        /\ outlived' = IF told THEN outlived \ {p} ELSE outlived \cup (mining \cap {p})
    BY <1>3 DEF EndLife
  <2>2. \A r \in loads[p] : r.life # 0
    BY DEF CpuInv, CpuOne
  <2>3. /\ mining' \ {p} = mining \ {p} /\ outlived' \ {p} = outlived \ {p}
        /\ (p \in mining' => p \in outlived')
    BY <2>1
  <2> QED BY <2>1, <2>2, <2>3, LifeKeeps
<1>4. CASE UNCHANGED streamVars
  BY <1>4 DEF CpuInv, FlagOne, MinedOne, OwnSignal, streamVars, cpuVars
<1> QED BY <1>1, <1>2, <1>3, <1>4 DEF CpuNext

\* Whatever the window and the number of pids: a pid is signalled for the processor only when
\* each of its readings of the last CpuSeconds was above the threshold and they go back
\* three quarters of that time; a process is signalled once; and one that was busy for all
\* of the window has been, unless a flag of an earlier owner of its pid is left
\* (heuristics_cryptomining.py:sustained_above, sample_cpu, clear_cpu_flag).
THEOREM BusyIsSignalled == CpuSpec => []CpuIsDue
<1>1. CpuInv => CpuIsDue
  <2> SUFFICES ASSUME CpuInv PROVE CpuIsDue
    OBVIOUS
  <2>1. \A p, at : Looks(p, at) = Span(loads[p], at)
    BY DEF Looks, Span
  <2>2. ASSUME NEW m \in mined
        PROVE  /\ \E r \in Looks(m.pid, m.at) : 4 * r.at <= 4 * m.at - 3 * CpuSeconds
               /\ \A r \in Looks(m.pid, m.at) : r.hot
               /\ \A n \in mined : n.pid = m.pid /\ n.life = m.life => n = m
    BY <2>1 DEF CpuInv, MinedOne, Sound
  <2>3. ASSUME NEW p \in Talkers \ outlived, NEW r \in Own(p), HeldBusy(p, r.at)
        PROVE  \E m \in mined : m.pid = p /\ m.life = living[p] /\ m.at <= r.at
    <3>1. /\ CpuOne(streamTime, loads[p], cpuWindow[p], living[p]) /\ FlagOne(p)
          /\ r \in loads[p] /\ r.life = living[p]
      BY DEF CpuInv, Own
    <3>2. Held(loads[p], living[p], r.at)
      <4>1. Looks(p, r.at) = Span(loads[p], r.at)
        BY <2>1
      <4>2. Span(loads[p], r.at) \subseteq loads[p]
        BY DEF Span
      <4>3. \A q : q \in Own(p) <=> q \in loads[p] /\ q.life = living[p]
        BY DEF Own
      <4> QED BY <2>3, <4>1, <4>2, <4>3 DEF HeldBusy, Held
    <3>3. living[p] # 0
      BY <3>1 DEF CpuOne
    <3> QED BY <3>1, <3>2, <3>3 DEF FlagOne, OwnSignal
  <2> QED BY <2>2, <2>3 DEF CpuIsDue
<1> QED BY <1>1, CpuInit, CpuStep, PTL DEF CpuSpec

-----------------------------------------------------------------------------
(* Beacons.  The deviation is judged by sums over the gaps: n gaps of which *)
(* m are a tick longer deviate by m (n - m) in all, which is never more     *)
(* than a quarter of n squared; and two values, one of them three times the *)
(* other, are far enough from the mean of any n that have them.  What the   *)
(* deque has lost, a cooldown later, does not matter: the rest of a         *)
(* periodic sequence is periodic.                                           *)

LEMMA StreamNumbers ==
  /\ MinBeaconSamples \in Nat /\ MinBeaconSamples > 0 /\ MaxKept \in Nat
  /\ MinGap \in Nat /\ MinGap > 0 /\ MaxGap \in Nat
  /\ CvInverse \in Nat /\ CvInverse > 0 /\ BeaconCooldown \in Nat
  /\ Gaps \subseteq Int /\ MinBeaconSamples <= MaxKept
  /\ 5 * (MinBeaconSamples - 1) < 2 * CvInverse * CvInverse
BY StreamsAssumption

\* n gaps, m of them longer by a tick than the others: the squares of the deviations.
LEMMA SteadyNumbers ==
  ASSUME NEW C \in Nat, NEW g \in Nat, NEW n \in Nat, NEW m \in 0..n, 2 * g >= C,
         NEW sum, sum = m + g * n, NEW squares, squares = (2 * g + 1) * m + g * g * n
  PROVE  C * C * (n * squares - sum * sum) <= sum * sum
<1> DEFINE r == n - m
<1>1. m \in Nat /\ r \in Nat /\ n = m + r
  OBVIOUS
<1> HIDE DEF r
<1>2. n * squares - sum * sum = m * r
  BY <1>1
<1>3. C * C <= 4 * (g * g)
  <2>1. C * C <= (2 * g) * C
    <3>1. \A a, b, c \in Nat : a <= b => a * c <= b * c
      OBVIOUS
    <3> QED BY <3>1
  <2>2. (2 * g) * C <= (2 * g) * (2 * g)
    <3>1. \A a, b, c \in Nat : a <= b => c * a <= c * b
      OBVIOUS
    <3>2. 2 * g \in Nat
      OBVIOUS
    <3> QED BY <3>1, <3>2
  <2> QED BY <2>1, <2>2
<1>4. m * r \in Nat /\ C * C \in Nat /\ g * g \in Nat
  BY <1>1
<1>5. (C * C) * (m * r) <= (4 * (g * g)) * (m * r)
  <2>1. \A a, b, c \in Nat : a <= b => a * c <= b * c
    OBVIOUS
  <2>2. 4 * (g * g) \in Nat
    BY <1>4
  <2> QED BY <1>3, <1>4, <2>1, <2>2
<1>6. 4 * (m * r) <= n * n
  <2>1. n * n = 4 * (m * r) + (m - r) * (m - r)
    BY <1>1
  <2>2. \A a \in Int : a * a >= 0
    OBVIOUS
  <2>3. (m - r) * (m - r) >= 0 /\ (m - r) * (m - r) \in Int
    BY <1>1, <2>2
  <2> QED BY <1>1, <1>4, <2>1, <2>3
<1>7. (g * g) * (4 * (m * r)) <= (g * g) * (n * n)
  <2>1. \A a, b, c \in Nat : a <= b => c * a <= c * b
    OBVIOUS
  <2>2. 4 * (m * r) \in Nat /\ n * n \in Nat
    BY <1>4
  <2> QED BY <1>4, <1>6, <2>1, <2>2
<1>8. (g * g) * (n * n) <= sum * sum
  <2>1. g * n <= sum /\ g * n \in Nat /\ sum \in Nat
    BY <1>1
  <2>2. \A a, b \in Nat : a <= b => a * a <= b * b
    OBVIOUS
  <2>3. (g * n) * (g * n) <= sum * sum
    BY <2>1, <2>2
  <2>4. (g * n) * (g * n) = (g * g) * (n * n)
    OBVIOUS
  <2> QED BY <2>3, <2>4
<1>9. (4 * (g * g)) * (m * r) = (g * g) * (4 * (m * r))
  BY <1>4
<1>10. /\ (C * C) * (m * r) \in Int /\ (g * g) * (4 * (m * r)) \in Int /\ (g * g) * (n * n) \in Int
       /\ sum * sum \in Int
  BY <1>1, <1>4
<1>11. C * C * (n * squares - sum * sum) = (C * C) * (m * r)
  BY <1>2
<1> QED BY <1>5, <1>7, <1>8, <1>9, <1>10, <1>11

\* Two of n values, one three times the other or more: z and y are n times their distances
\* from the mean.
LEMMA FarNumbers ==
  ASSUME NEW C \in Nat, NEW n \in Nat, 5 * n < 2 * C * C,
         NEW sum \in Nat, sum > 0, NEW y \in Int, NEW z \in Int, z >= 3 * y + 2 * sum,
         NEW V \in Int, C * C * V <= sum * sum, y * y + z * z <= n * V
  PROVE  FALSE
<1>1. 4 * (sum * sum) <= 10 * (y * y + z * z)
  <2>1. (z - 3 * y) * (z - 3 * y) >= (2 * sum) * (2 * sum)
    <3>1. \A a, b \in Nat : a <= b => a * a <= b * b
      OBVIOUS
    <3>2. 2 * sum \in Nat /\ z - 3 * y \in Nat /\ 2 * sum <= z - 3 * y
      OBVIOUS
    <3> QED BY <3>1, <3>2
  <2>2. 10 * (y * y + z * z) = (z - 3 * y) * (z - 3 * y) + (y + 3 * z) * (y + 3 * z)
    OBVIOUS
  <2>3. (y + 3 * z) * (y + 3 * z) >= 0
    <3>1. \A a \in Int : a * a >= 0
      OBVIOUS
    <3> QED BY <3>1
  <2>4. (2 * sum) * (2 * sum) = 4 * (sum * sum)
    OBVIOUS
  <2>5. /\ (z - 3 * y) * (z - 3 * y) \in Int /\ (y + 3 * z) * (y + 3 * z) \in Int
        /\ sum * sum \in Int /\ y * y + z * z \in Int
    OBVIOUS
  <2> QED BY <2>1, <2>2, <2>3, <2>4, <2>5
<1> DEFINE D == C * C
           Q == sum * sum
           W == y * y + z * z
<1>2. D \in Nat /\ Q \in Nat /\ W \in Int /\ Q > 0 /\ D > 0
  <2>1. \A a \in Nat : a > 0 => a * a > 0 /\ a * a \in Nat
    OBVIOUS
  <2>2. D \in Nat /\ W \in Int
    OBVIOUS
  <2>3. D # 0
    <3>1. 2 * C * C = 2 * D
      OBVIOUS
    <3> QED BY <3>1, <2>2
  <2> QED BY <2>1, <2>2, <2>3
<1>3. 4 * Q <= 10 * W /\ D * V <= Q /\ W <= n * V /\ 5 * n < 2 * D
  BY <1>1
<1> HIDE DEF D, Q, W
<1>4. n * (D * V) <= n * Q
  <2>1. \A a, b \in Int : \A c \in Nat : a <= b => c * a <= c * b
    OBVIOUS
  <2>2. D * V \in Int
    BY <1>2
  <2> QED BY <1>2, <1>3, <2>1, <2>2
<1>5. D * W <= D * (n * V)
  <2>1. \A a, b \in Int : \A c \in Nat : a <= b => c * a <= c * b
    OBVIOUS
  <2> QED BY <1>2, <1>3, <2>1
<1>6. D * (4 * Q) <= D * (10 * W)
  <2>1. \A a, b \in Int : \A c \in Nat : a <= b => c * a <= c * b
    OBVIOUS
  <2>2. 4 * Q \in Int /\ 10 * W \in Int
    BY <1>2
  <2> QED BY <1>2, <1>3, <2>1, <2>2
<1>7. (5 * n) * Q < (2 * D) * Q
  <2>1. \A a, b \in Nat : \A c \in Nat : a < b /\ c > 0 => a * c < b * c
    OBVIOUS
  <2>2. 5 * n \in Nat /\ 2 * D \in Nat
    BY <1>2
  <2> QED BY <1>2, <1>3, <2>1, <2>2
<1>8. /\ D * (n * V) = n * (D * V) /\ D * (4 * Q) = 4 * (D * Q) /\ D * (10 * W) = 10 * (D * W)
      /\ (5 * n) * Q = 5 * (n * Q) /\ (2 * D) * Q = 2 * (D * Q)
  BY <1>2
<1>9. D * Q \in Int /\ D * W \in Int /\ n * Q \in Int /\ n * (D * V) \in Int
  BY <1>2
<1> QED BY <1>4, <1>5, <1>6, <1>7, <1>8, <1>9

Valid(times) == {i \in DOMAIN GapsOf(times) : MinGap <= GapsOf(times)[i] /\ GapsOf(times)[i] <= MaxGap}
Squares(times) == [i \in Valid(times) |-> GapsOf(times)[i] * GapsOf(times)[i]]
Mean(times) == SumFunctionOnSet(GapsOf(times), Valid(times))     \* times their number

\* What IsBeacon says, with its parts named.
LEMMA BeaconIs ==
  ASSUME NEW times
  PROVE  IsBeacon(times)
           = /\ Len(times) >= MinBeaconSamples
             /\ Cardinality(Valid(times)) >= MinBeaconSamples - 1
             /\ CvInverse * CvInverse
                  * (Cardinality(Valid(times)) * SumFunctionOnSet(Squares(times), Valid(times))
                       - Mean(times) * Mean(times))
                  <= Mean(times) * Mean(times)
BY DEF IsBeacon, Valid, Squares, Mean

LEMMA GapsFacts ==
  ASSUME NEW times \in Seq(Int)
  PROVE  /\ DOMAIN GapsOf(times) = 1..(Len(times) - 1)
         /\ \A i \in DOMAIN GapsOf(times) : GapsOf(times)[i] \in Int
         /\ IsFiniteSet(DOMAIN GapsOf(times)) /\ IsFiniteSet(Valid(times))
         /\ Valid(times) \subseteq DOMAIN GapsOf(times)
         /\ Cardinality(Valid(times)) \in Nat
<1>1. DOMAIN GapsOf(times) = 1..(Len(times) - 1) /\ Len(times) \in Nat
  BY DEF GapsOf
<1>2. \A i \in DOMAIN GapsOf(times) : GapsOf(times)[i] \in Int
  BY <1>1 DEF GapsOf
<1>3. IsFiniteSet(DOMAIN GapsOf(times))
  BY <1>1, FS_Interval
<1>4. Valid(times) \subseteq DOMAIN GapsOf(times)
  BY DEF Valid
<1>5. IsFiniteSet(Valid(times))
  BY <1>3, <1>4, FS_Subset
<1> QED BY <1>1, <1>2, <1>3, <1>4, <1>5, FS_CardinalityType

\* Connections at one distance up to a tick are a beacon, however many of them.
LEMMA PeriodicIsBeacon ==
  ASSUME NEW times \in Seq(Int), Periodic(times)
  PROVE  IsBeacon(times)
<1> DEFINE G == GapsOf(times)
           S == Valid(times)
           n == Cardinality(S)
           sum == SumFunctionOnSet(G, S)
           q == SumFunctionOnSet(Squares(times), S)
<1>1. PICK g \in MinGap..(MaxGap - 1) : /\ 2 * g >= CvInverse
                                        /\ \A i \in DOMAIN G : G[i] \in {g, g + 1}
  BY DEF Periodic
<1>2. g \in Nat /\ MinGap <= g /\ g + 1 <= MaxGap
  BY StreamNumbers
<1>3. DOMAIN G = 1..(Len(times) - 1) /\ IsFiniteSet(S) /\ Len(times) \in Nat /\ n \in Nat
  BY GapsFacts
<1>4. S = DOMAIN G
  <2>1. \A i \in DOMAIN G : MinGap <= G[i] /\ G[i] <= MaxGap
    BY <1>1, <1>2, StreamNumbers
  <2> QED BY <2>1 DEF Valid
<1>5. Len(times) >= MinBeaconSamples /\ Len(times) - 1 \in Nat
  BY <1>3, StreamNumbers DEF Periodic
<1>6. n = Len(times) - 1
  <2>1. Cardinality(1..(Len(times) - 1)) = Len(times) - 1
    BY <1>5, FS_Interval
  <2> QED BY <2>1, <1>3, <1>4
<1> DEFINE e == [i \in S |-> G[i] - g]
           m == SumFunctionOnSet(e, S)
<1>7. \A i \in S : G[i] \in {g, g + 1} /\ e[i] \in {0, 1}
  BY <1>1, <1>2, <1>4
<1>8. m \in 0..n
  <2> HIDE DEF e, S, G
  <2> QED BY <1>3, <1>7, SumBounds
<1>9. sum = m + g * n
  <2> DEFINE a == 1
             b == 0
  <2>1. \A i \in S : e[i] \in Int /\ e[i] \in Int /\ G[i] = a * e[i] + b * e[i] + g
    BY <1>2, <1>7
  <2>2. a \in Int /\ b \in Int /\ g \in Int
    BY <1>2
  <2> HIDE DEF e, S, G, a, b
  <2>0. Combines(S, G, a, e, b, e, g)
    BY <1>3, <2>1, <2>2 DEF Combines
  <2>3. SumFunctionOnSet(G, S) = a * SumFunctionOnSet(e, S) + b * SumFunctionOnSet(e, S)
                                   + g * Cardinality(S)
    BY <2>0, SumLinear
  <2>4. m \in Int
    BY <1>3, <1>8
  <2> QED BY <1>2, <1>3, <2>3, <2>4 DEF a, b
<1>10. q = (2 * g + 1) * m + g * g * n
  <2> DEFINE a == 2 * g + 1
             b == 0
             c == g * g
             Sq == Squares(times)
  <2>1. \A i \in S : e[i] \in Int /\ e[i] \in Int /\ Sq[i] = a * e[i] + b * e[i] + c
    <3> TAKE i \in S
    <3>1. Sq[i] = G[i] * G[i]
      BY DEF Squares
    <3>2. e[i] \in Int
      BY <1>7
    <3>3. CASE G[i] = g
      BY <1>2, <3>1, <3>3
    <3>4. CASE G[i] = g + 1
      <4>1. e[i] = 1
        BY <1>2, <3>4
      <4>2. Sq[i] = g * g + 2 * g + 1
        BY <1>2, <3>1, <3>4
      <4> QED BY <1>2, <4>1, <4>2
    <3> QED BY <1>7, <3>2, <3>3, <3>4
  <2>2. a \in Int /\ b \in Int /\ c \in Int
    BY <1>2
  <2> HIDE DEF e, S, G, a, b, c, Sq
  <2>0. Combines(S, Sq, a, e, b, e, c)
    BY <1>3, <2>1, <2>2 DEF Combines
  <2>3. SumFunctionOnSet(Sq, S) = a * SumFunctionOnSet(e, S) + b * SumFunctionOnSet(e, S)
                                   + c * Cardinality(S)
    BY <2>0, SumLinear
  <2>4. m \in Int
    BY <1>3, <1>8
  <2>5. q = a * m + b * m + c * n
    BY <2>3 DEF Sq, n, sum, q
  <2> HIDE DEF m, n, q
  <2>6. b * m = 0 /\ a * m \in Int /\ c * n \in Int
    BY <1>2, <1>3, <2>2, <2>4 DEF b
  <2> QED BY <2>5, <2>6 DEF a, c
<1>11. CvInverse * CvInverse * (n * q - sum * sum) <= sum * sum
  <2> HIDE DEF n, m, sum, q, G, S, e
  <2> QED BY <1>1, <1>2, <1>3, <1>8, <1>9, <1>10, StreamNumbers, SteadyNumbers
<1>12. n >= MinBeaconSamples - 1
  BY <1>3, <1>5, <1>6, StreamNumbers
<1> QED BY <1>5, <1>11, <1>12, BeaconIs DEF Mean

\* The fewest connections that can be judged, of which one gap is three times another,
\* are none.
LEMMA BeaconIsRegular ==
  ASSUME NEW times \in Seq(Int), Len(times) = MinBeaconSamples, IsBeacon(times)
  PROVE  ~Irregular(times)
<1> DEFINE G == GapsOf(times)
           S == Valid(times)
           n == Cardinality(S)
           sum == SumFunctionOnSet(G, S)
           q == SumFunctionOnSet(Squares(times), S)
           Sq == Squares(times)
<1>1. SUFFICES ASSUME NEW i \in DOMAIN G, NEW j \in DOMAIN G, G[i] >= 3 * G[j]
               PROVE  FALSE
  BY DEF Irregular
<1>2. /\ DOMAIN G = 1..(Len(times) - 1) /\ IsFiniteSet(S) /\ IsFiniteSet(DOMAIN G) /\ n \in Nat
      /\ S \subseteq DOMAIN G /\ \A k \in DOMAIN G : G[k] \in Int
  BY GapsFacts
<1>3. Len(times) - 1 \in Nat /\ Cardinality(DOMAIN G) = MinBeaconSamples - 1
  <2>1. Len(times) - 1 \in Nat
    BY StreamNumbers
  <2>2. Cardinality(1..(Len(times) - 1)) = Len(times) - 1
    BY <2>1, FS_Interval
  <2> QED BY <2>1, <2>2, <1>2
<1>4. n >= MinBeaconSamples - 1 /\ CvInverse * CvInverse * (n * q - sum * sum) <= sum * sum
  BY BeaconIs DEF Mean
<1>5. S = DOMAIN G /\ n = MinBeaconSamples - 1
  <2>1. n <= Cardinality(DOMAIN G)
    BY <1>2, FS_Subset
  <2>2. n = Cardinality(DOMAIN G)
    BY <1>2, <1>3, <1>4, <2>1, StreamNumbers
  <2>3. S = DOMAIN G
    BY <1>2, <2>2, FS_Subset
  <2> QED BY <1>3, <2>2, <2>3
<1>6. \A k \in S : G[k] \in Nat /\ G[k] > 0 /\ Sq[k] \in Nat /\ Sq[k] = G[k] * G[k]
  <2> TAKE k \in S
  <2>1. G[k] \in Int /\ MinGap <= G[k] /\ Sq[k] = G[k] * G[k]
    BY <1>2 DEF Valid, Squares
  <2>2. \A a \in Nat : a * a \in Nat
    OBVIOUS
  <2> QED BY <2>1, <2>2, StreamNumbers
<1>7. i \in S /\ j \in S /\ i # j
  <2>1. i \in S /\ j \in S
    BY <1>5
  <2>2. G[j] \in Nat /\ G[j] > 0
    BY <1>6, <2>1
  <2> QED BY <2>1, <2>2, <1>1
<1>8. sum \in Nat /\ sum > 0 /\ q \in Int
  <2>1. sum \in Int /\ q \in Int
    <3>1. \A k \in S : G[k] \in Int /\ Sq[k] \in Int
      BY <1>6
    <3> HIDE DEF G, S, Sq
    <3>2. SumFunctionOnSet(G, S) \in Int /\ SumFunctionOnSet(Sq, S) \in Int
      BY <1>2, <3>1, SumType
    <3> QED BY <3>2 DEF Sq
  <2>2. G[i] + G[j] <= sum
    <3> HIDE DEF G, S, Sq
    <3> QED BY <1>2, <1>6, <1>7, SumPair
  <2> QED BY <2>1, <2>2, <1>6, <1>7
<1> DEFINE far == [k \in S |-> (n * G[k] - sum) * (n * G[k] - sum)]
           V == n * q - sum * sum
           y == n * G[j] - sum
           z == n * G[i] - sum
<1>9. \A k \in S : far[k] \in Nat
  <2> TAKE k \in S
  <2>1. n * G[k] - sum \in Int
    BY <1>2, <1>6, <1>8
  <2>2. \A a \in Int : a * a \in Nat
    OBVIOUS
  <2>3. far[k] = (n * G[k] - sum) * (n * G[k] - sum)
    OBVIOUS
  <2> HIDE DEF far, n, sum, G, S
  <2> QED BY <2>1, <2>2, <2>3
<1>10. SumFunctionOnSet(far, S) = n * V
  <2> DEFINE a == n * n
             b == -(2 * (n * sum))
             c == sum * sum
  <2>1. a \in Int /\ b \in Int /\ c \in Int
    <3>1. n \in Int /\ sum \in Int
      BY <1>2, <1>8
    <3>2. \A p, r \in Int : p * r \in Int /\ -(2 * (p * r)) \in Int
      OBVIOUS
    <3> HIDE DEF n, sum
    <3> QED BY <3>1, <3>2
  <2>2. \A k \in S : Sq[k] \in Int /\ G[k] \in Int /\ far[k] = a * Sq[k] + b * G[k] + c
    <3> TAKE k \in S
    <3>1. G[k] \in Int /\ Sq[k] \in Int /\ Sq[k] = G[k] * G[k]
      BY <1>6
    <3>2. far[k] = (n * G[k] - sum) * (n * G[k] - sum)
      OBVIOUS
    <3>3. \A p, s, x \in Int :
            (p * x - s) * (p * x - s) = (p * p) * (x * x) + (-(2 * (p * s))) * x + s * s
      OBVIOUS
    <3>4. n \in Int /\ sum \in Int
      BY <1>2, <1>8
    <3> HIDE DEF far, n, sum, G, S, Sq
    <3>5. far[k] = (n * n) * (G[k] * G[k]) + (-(2 * (n * sum))) * G[k] + sum * sum
      BY <3>1, <3>2, <3>3, <3>4
    <3> QED BY <3>1, <3>5
  <2> HIDE DEF far, S, G, Sq, a, b, c, n, sum, q, y, z, V
  <2>4. Combines(S, far, a, Sq, b, G, c)
    BY <1>2, <2>1, <2>2 DEF Combines
  <2>3. SumFunctionOnSet(far, S) = a * SumFunctionOnSet(Sq, S) + b * SumFunctionOnSet(G, S)
                                     + c * Cardinality(S)
    BY <2>4, SumLinear
  <2>5. SumFunctionOnSet(far, S) = a * q + b * sum + c * n
    BY <2>3 DEF Sq, n, sum, q
  <2> HIDE DEF n, sum, q
  <2> QED BY <1>2, <1>8, <2>5 DEF a, b, c, V
<1>11. far[i] + far[j] <= n * V
  <2> HIDE DEF far, S, G, Sq, n
  <2> QED BY <1>2, <1>7, <1>9, <1>10, SumPair
<1>12. y \in Int /\ z \in Int /\ V \in Int /\ far[i] = z * z /\ far[j] = y * y
  <2>1. far[i] = z * z /\ far[j] = y * y
    BY <1>7
  <2>2. G[i] \in Int /\ G[j] \in Int
    BY <1>6, <1>7
  <2>3. n \in Int /\ sum \in Int /\ q \in Int
    BY <1>2, <1>8
  <2> HIDE DEF far, S, G, Sq, n, sum, q
  <2>4. \A p, r \in Int : p * r \in Int /\ p - r \in Int
    OBVIOUS
  <2>5. y \in Int /\ z \in Int /\ V \in Int
    BY <2>2, <2>3, <2>4
  <2> QED BY <2>1, <2>5
<1>13. z >= 3 * y + 2 * sum
  <2>1. G[i] \in Nat /\ G[j] \in Nat
    BY <1>6, <1>7
  <2> HIDE DEF far, S, G, Sq, n, sum, q
  <2>2. n * (3 * G[j]) <= n * G[i]
    <3>1. \A a, b, c \in Nat : a <= b => c * a <= c * b
      OBVIOUS
    <3> QED BY <1>1, <1>2, <2>1, <3>1
  <2>3. n * (3 * G[j]) = 3 * (n * G[j]) /\ n * G[j] \in Int /\ n * G[i] \in Int
    BY <1>2, <2>1
  <2> QED BY <1>8, <2>2, <2>3
<1>14. 5 * n < 2 * CvInverse * CvInverse
  BY <1>5, StreamNumbers
<1>15. y * y + z * z <= n * V
  <2>1. y * y \in Int /\ z * z \in Int
    BY <1>12
  <2> HIDE DEF far, S, G, Sq, n, sum, q, y, z, V
  <2> QED BY <1>11, <1>12, <2>1
<1>16. CvInverse * CvInverse * V <= sum * sum
  BY <1>4
<1> HIDE DEF far, S, G, Sq, n, sum, q, y, z, V
<1> QED BY <1>2, <1>8, <1>12, <1>13, <1>14, <1>15, <1>16, StreamNumbers, FarNumbers

\* What is known of a stream: c are its connections and b its signals.
BeaconOne(c, b, s) ==
  /\ s.times = LastOf(c, MaxKept)
  /\ s.last = IF b = <<>> THEN 0 ELSE Last(b)
  /\ \A i \in 2..Len(b) : b[i] - b[i - 1] >= BeaconCooldown
  /\ Periodic(c) => b # <<>> /\ (Last(c) = Last(b) \/ Last(c) - Last(b) < BeaconCooldown)
  /\ b # <<>> => /\ Len(c) >= MinBeaconSamples
                 /\ Len(c) = MinBeaconSamples => IsBeacon(c)

BeaconTypes ==
  /\ streamTime \in Int
  /\ connected \in [StreamKeys -> Seq(Int)] /\ beaconed \in [StreamKeys -> Seq(Int)]
  /\ stream \in [StreamKeys -> [times : Seq(Int), last : Int]]

BeaconInv ==
  BeaconTypes /\ \A k \in StreamKeys : BeaconOne(connected[k], beaconed[k], stream[k])

\* The last n of a sequence.
LEMMA LastOfFacts ==
  ASSUME NEW s \in Seq(Int), NEW n \in Nat, n > 0
  PROVE  /\ LastOf(s, n) \in Seq(Int)
         /\ Len(LastOf(s, n)) = IF Len(s) > n THEN n ELSE Len(s)
         /\ \A i \in 1..Len(LastOf(s, n)) :
              LastOf(s, n)[i] = s[i + (Len(s) - Len(LastOf(s, n)))]
<1> DEFINE k == Len(s)
           m == IF k > n THEN k - n + 1 ELSE 1
           l == SubSeq(s, m, k)
<1>1. k \in Nat /\ m \in Nat /\ m <= k + 1 /\ m >= 1
  OBVIOUS
<1>2. \A i \in m..k : s[i] \in Int
  OBVIOUS
<1>3. k - m + 1 = IF k > n THEN n ELSE k
  OBVIOUS
<1>4. LastOf(s, n) = l
  BY DEF LastOf
<1> HIDE DEF m, k
<1>5. /\ l \in Seq(Int)
      /\ Len(l) = IF m <= k THEN k - m + 1 ELSE 0
      /\ \A i \in 1..(k - m + 1) : l[i] = s[m + i - 1]
  BY <1>1, <1>2, SubSeqProperties
<1> HIDE DEF l
<1>6. Len(l) = k - m + 1
  BY <1>1, <1>5
<1>7. ASSUME NEW i \in 1..Len(l)
      PROVE  l[i] = s[i + (k - Len(l))]
  <2>1. i + (k - Len(l)) = m + i - 1
    BY <1>1, <1>6
  <2> QED BY <1>5, <1>6, <2>1
<1> QED BY <1>3, <1>4, <1>5, <1>6, <1>7 DEF k

\* A deque of bounded length that takes one more has the last of all.
LEMMA LastOfAppend ==
  ASSUME NEW s \in Seq(Int), NEW t \in Int, NEW n \in Nat, n > 0
  PROVE  LastOf(Append(LastOf(s, n), t), n) = LastOf(Append(s, t), n)
<1> DEFINE l == LastOf(s, n)
           x == Append(l, t)
           y == Append(s, t)
<1>1. /\ l \in Seq(Int) /\ Len(l) = IF Len(s) > n THEN n ELSE Len(s)
      /\ \A i \in 1..Len(l) : l[i] = s[i + (Len(s) - Len(l))]
  BY LastOfFacts
<1>2. x \in Seq(Int) /\ y \in Seq(Int) /\ Len(x) = Len(l) + 1 /\ Len(y) = Len(s) + 1
      /\ Len(l) \in Nat /\ Len(s) \in Nat
  BY <1>1
<1>3. \A i \in 1..Len(x) : x[i] = IF i = Len(l) + 1 THEN t ELSE l[i]
  BY <1>1
<1>4. \A i \in 1..Len(y) : y[i] = IF i = Len(s) + 1 THEN t ELSE s[i]
  OBVIOUS
<1> HIDE DEF x, y, l
<1> DEFINE u == Len(LastOf(x, n))
           v == Len(LastOf(y, n))
<1>5. /\ LastOf(x, n) \in Seq(Int) /\ Len(LastOf(x, n)) = IF Len(x) > n THEN n ELSE Len(x)
      /\ \A i \in 1..Len(LastOf(x, n)) :
           LastOf(x, n)[i] = x[i + (Len(x) - Len(LastOf(x, n)))]
  BY <1>2, LastOfFacts
<1>6. /\ LastOf(y, n) \in Seq(Int) /\ Len(LastOf(y, n)) = IF Len(y) > n THEN n ELSE Len(y)
      /\ \A i \in 1..Len(LastOf(y, n)) :
           LastOf(y, n)[i] = y[i + (Len(y) - Len(LastOf(y, n)))]
  BY <1>2, LastOfFacts
<1>7. u = v /\ u \in Nat /\ u <= Len(x) /\ u <= Len(y) /\ Len(x) - u >= 0
  <2>1. /\ u = IF Len(x) > n THEN n ELSE Len(x)
        /\ v = IF Len(y) > n THEN n ELSE Len(y)
        /\ Len(l) = IF Len(s) > n THEN n ELSE Len(s)
        /\ Len(x) = Len(l) + 1 /\ Len(y) = Len(s) + 1 /\ Len(l) \in Nat /\ Len(s) \in Nat
    BY <1>1, <1>2, <1>5, <1>6
  <2> HIDE DEF u, v
  <2> QED BY <2>1
<1>71. Len(y) - Len(x) = Len(s) - Len(l) /\ Len(y) \in Nat /\ Len(x) \in Nat
  BY <1>2
<1>8. ASSUME NEW i \in 1..Len(LastOf(x, n))
      PROVE  LastOf(x, n)[i] = LastOf(y, n)[i]
  <2> DEFINE a == i + (Len(x) - Len(LastOf(x, n)))
             b == i + (Len(y) - Len(LastOf(y, n)))
  <2>1. a \in 1..Len(x) /\ b \in 1..Len(y) /\ b - a = Len(s) - Len(l)
    <3> HIDE DEF u, v
    <3>1. i \in 1..u
      BY DEF u
    <3>2. a = i + (Len(x) - u) /\ b = i + (Len(y) - v)
      BY DEF u, v
    <3> HIDE DEF a, b
    <3> QED BY <1>7, <1>71, <3>1, <3>2
  <2>2. LastOf(x, n)[i] = x[a] /\ LastOf(y, n)[i] = y[b]
    BY <1>5, <1>6, <1>7
  <2> HIDE DEF a, b
  <2>3. CASE a = Len(l) + 1
    <3>1. b = Len(s) + 1
      BY <1>2, <2>1, <2>3
    <3> QED BY <2>1, <2>2, <2>3, <3>1, <1>3, <1>4
  <2>4. CASE a # Len(l) + 1
    <3>0. a \in 1..(Len(l) + 1) /\ b \in 1..(Len(s) + 1) /\ Len(l) \in Nat /\ Len(s) \in Nat
      BY <1>2, <2>1
    <3>1. b # Len(s) + 1 /\ a \in 1..Len(l) /\ b = a + (Len(s) - Len(l))
      BY <3>0, <2>1, <2>4
    <3> QED BY <1>1, <2>1, <2>2, <2>4, <3>1, <1>3, <1>4
  <2> QED BY <2>3, <2>4
<1> QED BY <1>5, <1>6, <1>7, <1>8, SeqEqual DEF x, y, l

\* What is left of periodic connections is periodic too.
LEMMA LastOfPeriodic ==
  ASSUME NEW s \in Seq(Int), Periodic(s)
  PROVE  Periodic(LastOf(s, MaxKept))
<1> DEFINE l == LastOf(s, MaxKept)
           d == Len(s) - Len(l)
<1>1. /\ l \in Seq(Int) /\ Len(l) = IF Len(s) > MaxKept THEN MaxKept ELSE Len(s)
      /\ \A i \in 1..Len(l) : l[i] = s[i + d]
  <2>1. /\ l \in Seq(Int) /\ Len(l) = IF Len(s) > MaxKept THEN MaxKept ELSE Len(s)
        /\ \A i \in 1..Len(l) : l[i] = s[i + (Len(s) - Len(l))]
    <3>1. MaxKept \in Nat /\ MaxKept > 0
      BY StreamNumbers
    <3> QED BY <3>1, LastOfFacts
  <2> QED BY <2>1
<1>2. Len(s) >= MinBeaconSamples /\ Len(s) \in Nat /\ Len(l) \in Nat
  BY <1>1 DEF Periodic
<1>3. Len(l) >= MinBeaconSamples /\ d \in Nat
  BY <1>1, <1>2, StreamNumbers
<1>4. PICK g \in MinGap..(MaxGap - 1) :
        /\ 2 * g >= CvInverse
        /\ \A i \in DOMAIN GapsOf(s) : GapsOf(s)[i] \in {g, g + 1}
  BY DEF Periodic
<1>5. ASSUME NEW i \in DOMAIN GapsOf(l)
      PROVE  GapsOf(l)[i] \in {g, g + 1}
  <2>1. i \in 1..(Len(l) - 1) /\ GapsOf(l)[i] = l[i + 1] - l[i]
    BY <1>1, GapsFacts DEF GapsOf
  <2>2. l[i] = s[i + d] /\ l[i + 1] = s[(i + 1) + d]
    <3>1. i \in 1..Len(l) /\ i + 1 \in 1..Len(l)
      BY <1>2, <2>1
    <3> HIDE DEF d, l
    <3> QED BY <1>1, <3>1
  <2>3. i + d \in 1..(Len(s) - 1) /\ (i + 1) + d = (i + d) + 1
    <3>1. d = Len(s) - Len(l) /\ i \in 1..(Len(l) - 1) /\ Len(s) \in Nat /\ Len(l) \in Nat /\ d \in Nat
      BY <1>2, <1>3, <2>1
    <3> HIDE DEF d, l
    <3> QED BY <3>1
  <2>4. i + d \in DOMAIN GapsOf(s) /\ GapsOf(s)[i + d] = s[(i + d) + 1] - s[i + d]
    BY <2>3, GapsFacts DEF GapsOf
  <2> HIDE DEF d, l
  <2> QED BY <1>4, <2>1, <2>2, <2>3, <2>4
<1> HIDE DEF l, d
<1> QED BY <1>3, <1>4, <1>5 DEF Periodic, l

\* What a connection at t makes of a stream s and of its signals b.
KeptWith(s, t) == LastOf(Append(s.times, t), MaxKept)
DueAt(s, t) == t - s.last >= BeaconCooldown /\ IsBeacon(KeptWith(s, t))
StreamWith(s, t) == [times |-> KeptWith(s, t), last |-> IF DueAt(s, t) THEN t ELSE s.last]
SignalsWith(b, s, t) == IF DueAt(s, t) THEN Append(b, t) ELSE b

\* One more connection, that is signalled when it is due.
LEMMA BeaconConnect ==
  ASSUME NEW c \in Seq(Int), NEW b \in Seq(Int), NEW s \in [times : Seq(Int), last : Int],
         BeaconOne(c, b, s), NEW t \in Int, t >= BeaconCooldown
  PROVE  /\ BeaconOne(Append(c, t), SignalsWith(b, s, t), StreamWith(s, t))
         /\ StreamWith(s, t) \in [times : Seq(Int), last : Int]
         /\ SignalsWith(b, s, t) \in Seq(Int)
<1> DEFINE d == Append(c, t)
           kept == KeptWith(s, t)
           due == DueAt(s, t)
           r == StreamWith(s, t)
           a == SignalsWith(b, s, t)
<1>0. /\ kept = LastOf(Append(s.times, t), MaxKept)
      /\ due <=> (t - s.last >= BeaconCooldown /\ IsBeacon(kept))
      /\ r = [times |-> kept, last |-> IF due THEN t ELSE s.last]
      /\ a = IF due THEN Append(b, t) ELSE b
  BY DEF KeptWith, DueAt, StreamWith, SignalsWith
<1>01. r.times = kept /\ r.last = IF due THEN t ELSE s.last
  <2> HIDE DEF kept, due, r, a
  <2> QED BY <1>0
<1>02. (due => a = Append(b, t)) /\ (~due => a = b)
  BY <1>0
<1> HIDE DEF kept, due, r, a
<1>1. d \in Seq(Int) /\ Len(d) = Len(c) + 1 /\ Len(c) \in Nat /\ Last(d) = t
  BY DEF Last
<1>2. a \in Seq(Int) /\ (due => Len(a) = Len(b) + 1 /\ Last(a) = t /\ a # <<>>)
  <2>1. CASE due
    <3>1. Append(b, t) \in Seq(Int) /\ Len(Append(b, t)) = Len(b) + 1 /\ Len(b) \in Nat
          /\ Append(b, t)[Len(b) + 1] = t
      OBVIOUS
    <3>2. Append(b, t) # <<>>
      <4>1. Len(b) + 1 # 0 /\ Len(<<>>) = 0
        BY <3>1
      <4> QED BY <3>1, <4>1
    <3>3. Last(Append(b, t)) = t
      BY <3>1 DEF Last
    <3> QED BY <1>02, <2>1, <3>1, <3>2, <3>3
  <2>2. CASE ~due
    BY <1>02, <2>2
  <2> QED BY <2>1, <2>2
<1>3. kept = LastOf(d, MaxKept)
  <2>1. s.times = LastOf(c, MaxKept)
    BY DEF BeaconOne
  <2>2. MaxKept \in Nat /\ MaxKept > 0
    BY StreamNumbers
  <2> QED BY <1>0, <2>1, <2>2, LastOfAppend
<1>4. kept \in Seq(Int) /\ Len(kept) = IF Len(d) > MaxKept THEN MaxKept ELSE Len(d)
  <2> HIDE DEF d
  <2> QED BY <1>1, <1>3, LastOfFacts, StreamNumbers
<1>5. Len(d) <= MaxKept => kept = d
  <2> SUFFICES ASSUME Len(d) <= MaxKept PROVE kept = d
    OBVIOUS
  <2>1. ~(Len(d) > MaxKept)
    BY <1>1, StreamNumbers
  <2>2. LastOf(d, MaxKept) = SubSeq(d, 1, Len(d))
    BY <2>1 DEF LastOf
  <2> HIDE DEF d
  <2> QED BY <1>1, <1>3, <2>2, SubSeqFull
<1>6. s.last = IF b = <<>> THEN 0 ELSE Last(b)
  BY DEF BeaconOne
<1>7. \A i \in 2..Len(b) : b[i] - b[i - 1] >= BeaconCooldown
  BY DEF BeaconOne
<1>8. r.last = IF a = <<>> THEN 0 ELSE Last(a)
  <2>1. CASE due
    BY <1>01, <1>2, <2>1
  <2>2. CASE ~due
    BY <1>01, <1>02, <1>6, <2>2
  <2> QED BY <2>1, <2>2
<1>9. ASSUME NEW i \in 2..Len(a) PROVE a[i] - a[i - 1] >= BeaconCooldown
  <2>1. CASE ~due
    BY <1>02, <1>7, <2>1
  <2>2. CASE due
    <3>1. Len(a) = Len(b) + 1 /\ Len(b) \in Nat /\ i - 1 \in 1..Len(b)
      BY <1>2, <2>2
    <3>0. a = Append(b, t) /\ \A k \in 1..Len(b) : Append(b, t)[k] = b[k]
      BY <1>02, <2>2
    <3>2. a[i - 1] = b[i - 1]
      BY <3>0, <3>1
    <3>3. CASE i = Len(a)
      <4>1. a[i] = t /\ b[i - 1] = Last(b) /\ b # <<>>
        BY <1>02, <2>2, <3>1, <3>3 DEF Last
      <4>2. t - Last(b) >= BeaconCooldown
        BY <1>0, <1>6, <2>2, <4>1
      <4> QED BY <3>2, <4>1, <4>2
    <3>4. CASE i # Len(a)
      <4>1. i \in 2..Len(b) /\ a[i] = b[i]
        <5>1. i \in 2..Len(b) /\ i \in 1..Len(b)
          BY <3>1, <3>4
        <5> QED BY <3>0, <5>1
      <4> QED BY <1>7, <3>2, <4>1
    <3> QED BY <3>3, <3>4
  <2> QED BY <2>1, <2>2
<1>10. ASSUME Periodic(d)
       PROVE  a # <<>> /\ (Last(d) = Last(a) \/ Last(d) - Last(a) < BeaconCooldown)
  <2>1. IsBeacon(kept)
    <3>1. Periodic(kept)
      <4> HIDE DEF d
      <4> QED BY <1>1, <1>3, <1>10, LastOfPeriodic
    <3> QED BY <1>4, <3>1, PeriodicIsBeacon
  <2>2. CASE due
    BY <1>1, <1>2, <2>2
  <2>3. CASE ~due
    <3>1. t - s.last < BeaconCooldown
      <4>1. ~(t - s.last >= BeaconCooldown) /\ s.last \in Int /\ BeaconCooldown \in Int
        BY <1>0, <2>1, <2>3, StreamNumbers
      <4> QED BY <4>1
    <3>2. b # <<>>
      BY <1>6, <3>1, StreamNumbers
    <3> QED BY <1>02, <1>1, <1>6, <2>3, <3>1, <3>2
  <2> QED BY <2>2, <2>3
<1>11. ASSUME a # <<>>
       PROVE  /\ Len(d) >= MinBeaconSamples
              /\ Len(d) = MinBeaconSamples => IsBeacon(d)
  <2>1. CASE due
    <3>1. Len(kept) >= MinBeaconSamples
      <4>1. IsBeacon(kept)
        BY <1>0, <2>1
      <4> QED BY <4>1 DEF IsBeacon
    <3>2. Len(d) >= MinBeaconSamples
      BY <1>1, <1>4, <3>1, StreamNumbers
    <3>3. Len(d) = MinBeaconSamples => kept = d
      BY <1>5, StreamNumbers
    <3> HIDE DEF d
    <3> QED BY <1>0, <2>1, <3>2, <3>3
  <2>2. CASE ~due
    <3>1. Len(c) >= MinBeaconSamples
      BY <1>02, <1>11, <2>2 DEF BeaconOne
    <3> QED BY <1>1, <3>1, StreamNumbers
  <2> QED BY <2>1, <2>2
<1>12. r.times = LastOf(d, MaxKept)
  BY <1>01, <1>3
<1> HIDE DEF d
<1>13. BeaconOne(d, a, r)
  BY <1>8, <1>9, <1>10, <1>11, <1>12 DEF BeaconOne
<1>14. r \in [times : Seq(Int), last : Int]
  <2>1. (IF due THEN t ELSE s.last) \in Int
    OBVIOUS
  <2> QED BY <1>0, <1>4, <2>1
<1> QED BY <1>2, <1>13, <1>14 DEF d, a, r

\* A stream that is not there.
LEMMA NoBeacon == BeaconOne(<<>>, <<>>, NoStream) /\ NoStream \in [times : Seq(Int), last : Int]
<1>1. LastOf(<<>>, MaxKept) = <<>>
  <2>1. <<>> \in Seq(Int) /\ Len(<<>>) = 0
    OBVIOUS
  <2>2. LastOf(<<>>, MaxKept) \in Seq(Int) /\ Len(LastOf(<<>>, MaxKept)) = 0
    <3>1. MaxKept \in Nat /\ MaxKept > 0
      BY StreamNumbers
    <3>2. ~(0 > MaxKept)
      BY <3>1
    <3> QED BY <2>1, <3>1, <3>2, LastOfFacts
  <2> QED BY <2>2
<1>2. ~Periodic(<<>>)
  BY StreamNumbers DEF Periodic
<1>3. NoStream.times = <<>> /\ NoStream.last = 0
  BY DEF NoStream
<1>4. NoStream \in [times : Seq(Int), last : Int]
  BY DEF NoStream
<1>5. <<>> = <<>> /\ Len(<<>>) = 0
  OBVIOUS
<1> QED BY <1>1, <1>2, <1>3, <1>4, <1>5 DEF BeaconOne

LEMMA BeaconStart == StreamsInit => BeaconInv
<1> SUFFICES ASSUME StreamsInit PROVE BeaconInv
  OBVIOUS
<1>1. BeaconTypes
  <2>1. <<>> \in Seq(Int)
    OBVIOUS
  <2> QED BY <2>1, NoBeacon, StreamNumbers DEF BeaconTypes, StreamsInit
<1>2. \A k \in StreamKeys : BeaconOne(connected[k], beaconed[k], stream[k])
  BY NoBeacon DEF StreamsInit
<1> QED BY <1>1, <1>2 DEF BeaconInv

LEMMA ConnectKeeps ==
  ASSUME BeaconInv, NEW k \in StreamKeys, NEW g \in Gaps, ConnectTo(k, g)
  PROVE  BeaconInv'
<1> DEFINE t == streamTime + g
           r == StreamWith(stream[k], t)
           a == SignalsWith(beaconed[k], stream[k], t)
<1>1. BeaconTypes /\ \A j \in StreamKeys : BeaconOne(connected[j], beaconed[j], stream[j])
  BY DEF BeaconInv
<1>2. t \in Int /\ t >= BeaconCooldown /\ streamTime' = t
  BY <1>1, StreamNumbers DEF ConnectTo, BeaconTypes
<1>3. /\ stream' = [stream EXCEPT ![k] = r] /\ beaconed' = [beaconed EXCEPT ![k] = a]
      /\ connected' = [connected EXCEPT ![k] = Append(@, t)]
  <2>1. beaconed = [beaconed EXCEPT ![k] = beaconed[k]]
    BY <1>1 DEF BeaconTypes
  <2> QED BY <1>1, <2>1 DEF ConnectTo, BeaconTypes, StreamWith, SignalsWith, DueAt, KeptWith, Calm
<1>4. /\ connected[k] \in Seq(Int) /\ beaconed[k] \in Seq(Int)
      /\ stream[k] \in [times : Seq(Int), last : Int]
  BY <1>1 DEF BeaconTypes
<1>5. /\ BeaconOne(Append(connected[k], t), a, r)
      /\ r \in [times : Seq(Int), last : Int] /\ a \in Seq(Int)
  <2> HIDE DEF t
  <2> QED BY <1>1, <1>2, <1>4, BeaconConnect
<1> HIDE DEF t, r, a
<1>6. BeaconTypes'
  BY <1>1, <1>2, <1>3, <1>4, <1>5 DEF BeaconTypes
<1>7. ASSUME NEW j \in StreamKeys PROVE BeaconOne(connected[j], beaconed[j], stream[j])'
  <2>1. CASE j = k
    <3>1. connected'[k] = Append(connected[k], t) /\ beaconed'[k] = a /\ stream'[k] = r
      BY <1>1, <1>3 DEF BeaconTypes
    <3> QED BY <1>5, <2>1, <3>1
  <2>2. CASE j # k
    <3>1. connected'[j] = connected[j] /\ beaconed'[j] = beaconed[j] /\ stream'[j] = stream[j]
      BY <1>1, <1>3, <2>2 DEF BeaconTypes
    <3> QED BY <1>1, <3>1
  <2> QED BY <2>1, <2>2
<1> QED BY <1>6, <1>7 DEF BeaconInv

LEMMA ResetKeeps ==
  ASSUME BeaconInv, NEW p \in Talkers, ResetPid(p)
  PROVE  BeaconInv'
<1>1. BeaconTypes /\ \A j \in StreamKeys : BeaconOne(connected[j], beaconed[j], stream[j])
  BY DEF BeaconInv
<1>2. \A j \in StreamKeys :
        /\ stream'[j] = IF j[1] = p THEN NoStream ELSE stream[j]
        /\ connected'[j] = IF j[1] = p THEN <<>> ELSE connected[j]
        /\ beaconed'[j] = IF j[1] = p THEN <<>> ELSE beaconed[j]
  BY DEF ResetPid
<1>3. BeaconTypes'
  <2>1. <<>> \in Seq(Int)
    OBVIOUS
  <2> QED BY <1>1, <2>1, NoBeacon DEF BeaconTypes, ResetPid
<1>4. \A j \in StreamKeys : BeaconOne(connected[j], beaconed[j], stream[j])'
  BY <1>1, <1>2, NoBeacon
<1> QED BY <1>3, <1>4 DEF BeaconInv

\* A connection or the end of a process keeps what is known of each stream; the readings of
\* the processor do not touch it.
LEMMA BeaconKeeps == BeaconInv /\ [BeaconsNext \/ CpuNext]_streamVars => BeaconInv'
<1> SUFFICES ASSUME BeaconInv, [BeaconsNext \/ CpuNext]_streamVars PROVE BeaconInv'
  OBVIOUS
<1>1. ASSUME UNCHANGED <<stream, connected, beaconed>>, streamTime' \in Int PROVE BeaconInv'
  BY <1>1 DEF BeaconInv, BeaconTypes
<1>2. CASE BeaconsNext
  BY <1>2, ConnectKeeps, ResetKeeps DEF BeaconsNext
<1>3. CASE CpuNext
  <2>1. streamTime \in Int
    BY DEF BeaconInv, BeaconTypes
  <2>2. UNCHANGED <<stream, connected, beaconed>> /\ streamTime' \in Int
    <3>1. ASSUME NEW read, NEW busy, SampleCpu(read, busy)
          PROVE  UNCHANGED <<stream, connected, beaconed>> /\ streamTime' = streamTime + 1
      BY <3>1 DEF SampleCpu
    <3>2. ASSUME NEW p, NEW told, BeginLife(p) \/ EndLife(p, told)
          PROVE  UNCHANGED <<stream, connected, beaconed>> /\ streamTime' = streamTime
      BY <3>2 DEF BeginLife, EndLife, beaconVars
    <3> QED BY <1>3, <2>1, <3>1, <3>2 DEF CpuNext
  <2> QED BY <1>1, <2>2
<1>4. CASE UNCHANGED streamVars
  <2>1. UNCHANGED <<stream, connected, beaconed>> /\ streamTime' \in Int
    BY <1>4 DEF streamVars, beaconVars, BeaconInv, BeaconTypes
  <2> QED BY <1>1, <2>1
<1> QED BY <1>2, <1>3, <1>4

\* What is known of each stream implies what the signals mean.
LEMMA BeaconMeans == BeaconInv => BeaconsAreDue
<1> SUFFICES ASSUME BeaconInv, NEW k \in StreamKeys
             PROVE  LET c == connected[k]
                        b == beaconed[k]
                    IN  /\ \A i \in 2..Len(b) : b[i] - b[i - 1] >= BeaconCooldown
                        /\ Periodic(c) => /\ b # <<>>
                                           /\ (Last(c) = Last(b) \/ Last(c) - Last(b) < BeaconCooldown)
                        /\ b # <<>> /\ Len(c) = MinBeaconSamples /\ Last(b) = Last(c) => ~Irregular(c)
  BY DEF BeaconsAreDue
<1>1. connected[k] \in Seq(Int) /\ BeaconOne(connected[k], beaconed[k], stream[k])
  BY DEF BeaconInv, BeaconTypes
<1> QED BY <1>1, BeaconIsRegular DEF BeaconOne

\* A process that connects to an address at one distance, up to a tick, is signalled as soon as
\* there are enough connections to judge and whenever the cooldown is over, and never before;
\* and the fewest connections that can be judged are not signalled when one gap is three times
\* another, whatever the samples, the limits and the deviation that is allowed
\* (heuristics_c2.py:process_connection, BeaconStream.calculate_jitter).
THEOREM BeaconsAreSignalled == BeaconsSpec => []BeaconsAreDue
<1>1. BeaconInv /\ [BeaconsNext]_streamVars => BeaconInv'
  BY BeaconKeeps
<1> QED BY <1>1, BeaconStart, BeaconMeans, PTL DEF BeaconsSpec

\* What is kept of the lives of each pid.
LifeOK ==
  /\ living \in [Talkers -> 0..MaxLives]
  /\ mining \subseteq Talkers /\ outlived \subseteq mining
  /\ \A p \in Talkers : IsFiniteSet(loads[p])

LEMMA LifeStart == StreamsInit => LifeOK
<1> SUFFICES ASSUME StreamsInit PROVE LifeOK
  OBVIOUS
<1>1. MaxLives \in Nat /\ MaxLives > 0
  BY StreamsAssumption
<1>2. \A p \in Talkers : loads[p] = {}
  BY DEF StreamsInit
<1>3. living \in [Talkers -> 0..MaxLives] /\ mining = {} /\ outlived = {}
  BY <1>1 DEF StreamsInit
<1> QED BY <1>2, <1>3, FS_EmptySet DEF LifeOK

\* Readings and lives keep that; connections do not touch it.
LEMMA LifeStep == LifeOK /\ [BeaconsNext \/ CpuNext]_streamVars => LifeOK'
<1> SUFFICES ASSUME LifeOK, [BeaconsNext \/ CpuNext]_streamVars PROVE LifeOK'
  OBVIOUS
<1>0. MaxLives \in Nat /\ MaxLives > 0
  BY StreamsAssumption
<1>1. ASSUME UNCHANGED cpuVars PROVE LifeOK'
  BY <1>1 DEF cpuVars, LifeOK
<1>2. CASE BeaconsNext
  <2>1. ASSUME NEW k \in StreamKeys, NEW d \in Gaps, ConnectTo(k, d) PROVE UNCHANGED cpuVars
    BY <2>1 DEF ConnectTo
  <2>2. ASSUME NEW p \in Talkers, ResetPid(p) PROVE UNCHANGED cpuVars
    BY <2>2 DEF ResetPid
  <2> QED BY <1>1, <1>2, <2>1, <2>2 DEF BeaconsNext
<1>3. ASSUME NEW read \in SUBSET {p \in Talkers : IsLiving(p)}, NEW busy \in SUBSET read,
             SampleCpu(read, busy)
      PROVE  LifeOK'
  <2>1. living' = living /\ read \subseteq Talkers
    BY <1>3 DEF SampleCpu
  <2>4. mining' \subseteq Talkers /\ outlived' \subseteq mining'
    BY <1>3, <2>1 DEF SampleCpu, LifeOK
  <2>5. ASSUME NEW p \in Talkers PROVE IsFiniteSet(loads'[p])
    <3>1. PICK r : loads'[p] = loads[p] \/ loads'[p] = loads[p] \cup {r}
      BY <1>3 DEF SampleCpu
    <3>2. IsFiniteSet(loads[p])
      BY DEF LifeOK
    <3> QED BY <3>1, <3>2, FS_AddElement
  <2> QED BY <2>1, <2>4, <2>5 DEF LifeOK
<1>4. ASSUME NEW p \in Talkers, NEW told \in BOOLEAN, EndLife(p, told) PROVE LifeOK'
  <2>1. /\ living' = [living EXCEPT ![p] = 0] /\ mining' \subseteq mining
        /\ loads' = loads
    BY <1>4 DEF EndLife
  <2>2. outlived' \subseteq mining'
    BY <1>4 DEF EndLife, LifeOK
  <2> QED BY <1>0, <2>1, <2>2 DEF LifeOK
<1>5. ASSUME NEW p \in Talkers, BeginLife(p) PROVE LifeOK'
  <2> DEFINE lives == {r.life : r \in loads[p]}
             next == 1 + Cardinality(lives)
  <2>1. /\ living' = [living EXCEPT ![p] = next] /\ next <= MaxLives
        /\ mining' = mining /\ outlived' = outlived /\ loads' = loads
    BY <1>5 DEF BeginLife
  <2>2. IsFiniteSet(lives)
    <3>1. IsFiniteSet(loads[p])
      BY DEF LifeOK
    <3> DEFINE f == [r \in loads[p] |-> r.life]
    <3>2. f \in Surjection(loads[p], lives)
      BY DEF Surjection
    <3> HIDE DEF f, lives
    <3> QED BY <3>1, <3>2, FS_Surjection
  <2>3. Cardinality(lives) \in Nat
    BY <2>2, FS_CardinalityType
  <2> HIDE DEF lives
  <2>4. next \in 0..MaxLives
    BY <1>0, <2>1, <2>3
  <2> QED BY <2>1, <2>4 DEF LifeOK
<1>6. CASE CpuNext
  BY <1>3, <1>4, <1>5, <1>6 DEF CpuNext
<1>7. CASE UNCHANGED streamVars
  BY <1>1, <1>7 DEF streamVars
<1> QED BY <1>2, <1>6, <1>7

LEMMA StreamInvTypes == BeaconInv /\ LifeOK => StreamsOK
BY DEF BeaconInv, BeaconOne, LifeOK, StreamsOK

\* Of each stream the deque holds the last times that it was given, and no life has a number
\* that was not given out, whether connections are heard of or readings are taken
\* (heuristics_c2.py:BeaconStream.add_connection, heuristics_cryptomining.py:sample_processes).
THEOREM StreamsTypeCorrect == (BeaconsSpec => []StreamsOK) /\ (CpuSpec => []StreamsOK)
<1>2. /\ BeaconInv /\ [BeaconsNext]_streamVars => BeaconInv'
      /\ LifeOK /\ [BeaconsNext]_streamVars => LifeOK'
  BY BeaconKeeps, LifeStep
<1>3. /\ BeaconInv /\ [CpuNext]_streamVars => BeaconInv'
      /\ LifeOK /\ [CpuNext]_streamVars => LifeOK'
  BY BeaconKeeps, LifeStep
<1>4. BeaconsSpec => []StreamsOK
  BY StreamInvTypes, <1>2, BeaconStart, LifeStart, PTL DEF BeaconsSpec
<1>5. CpuSpec => []StreamsOK
  BY StreamInvTypes, <1>3, BeaconStart, LifeStart, PTL DEF CpuSpec
<1> QED BY <1>4, <1>5

-----------------------------------------------------------------------------
(* The on-demand scanner and the page of the dashboard.  A scan that was   *)
(* cancelled while it ran has the event set for as long as it is the last  *)
(* one begun, and has "cancelled" as its end once it is decided.           *)

Ends == {"completed", "cancelled", "error"}

ScanRecords ==
  [at : {"unborn", "enter", "memory", "files", "publish", "ended"}, quick : BOOLEAN,
   workers : Nat, todo : SUBSET Files, busy : SUBSET Files, found : BOOLEAN, final : Ends,
   told : BOOLEAN]

Notes ==
  [kind : {"threat"}, file : Files, what : {"untouched", "quarantined"}]
    \cup [kind : {"complete"}, file : {NoFile}, what : Ends \cup {"threats"}]

ScanTypes ==
  /\ status \in Statuses /\ cancelEvent \in BOOLEAN /\ unpaused \in BOOLEAN
  /\ readOnly \in BOOLEAN /\ auto \in BOOLEAN /\ vault \subseteq Files
  /\ scan \in [Scans -> ScanRecords]

PoolKept ==
  \A s \in Scans : IsFiniteSet(scan[s].busy) /\ Cardinality(scan[s].busy) <= scan[s].workers

PageTypes ==
  /\ active \in BOOLEAN /\ safe \in BOOLEAN
  /\ dialog.about = "manual" => dialog.file \in Files
  /\ timers \subseteq {"target", "quick"}
  /\ posted \in Seq(Notes)
  /\ rows \in [Files -> {"none", "untouched", "quarantined"}]
  /\ label \in Statuses \cup {"none", "isolated", "detected"}

ToldStops ==
  \A s \in Scans : scan[s].told =>
    /\ cancelEvent /\ scan[s].at \in {"memory", "files", "publish"}
    /\ scan[s].at = "publish" => scan[s].final = "cancelled"

ScanInv == ScanTypes /\ PoolKept /\ ToldStops

\* A scan that has not begun.
LEMMA NoScanIsOne ==
  /\ NoScan \in ScanRecords /\ ~NoScan.told /\ NoScan.busy = {} /\ NoScan.workers = 1
  /\ IsFiniteSet(NoScan.busy) /\ Cardinality(NoScan.busy) = 0
BY FS_EmptySet DEF NoScan, ScanRecords, Ends

LEMMA ScanStarts == DashboardInit => ScanInv /\ PageTypes
<1> SUFFICES ASSUME DashboardInit PROVE ScanInv /\ PageTypes
  OBVIOUS
<1>1. scan = [s \in Scans |-> NoScan] /\ ScanTypes
  BY NoScanIsOne DEF DashboardInit, ScannerInit, ScanTypes, Statuses
<1>2. PoolKept /\ ToldStops
  <2>1. \A s \in Scans : scan[s] = NoScan
    BY <1>1
  <2> HIDE DEF NoScan
  <2>2. Cardinality(NoScan.busy) <= NoScan.workers
    BY NoScanIsOne
  <2> QED BY <2>1, <2>2, NoScanIsOne DEF PoolKept, ToldStops
<1>3. PageTypes
  <2>1. /\ active = FALSE /\ safe = TRUE /\ dialog = NoDialog /\ timers \subseteq {"target"}
        /\ posted = <<>> /\ rows = [f \in Files |-> "none"] /\ label = "none"
    BY DEF DashboardInit
  <2>2. dialog.about # "manual"
    BY <2>1 DEF NoDialog
  <2>3. posted \in Seq(Notes)
    BY <2>1
  <2> QED BY <2>1, <2>2, <2>3 DEF PageTypes
<1> QED BY <1>1, <1>2, <1>3 DEF ScanInv

\* The body of CancelStops.
CancelKept ==
  \A s \in Scans :
    scan[s].told /\ (scan'[s].told \/ scan'[s].at = "ended") =>
      /\ scan'[s].busy \subseteq scan[s].busy
      /\ scan'[s].at = "ended" => status' = "cancelled"

\* A step of one thread changes the record of its own scan, to one that is as good.
LEMMA OneScan ==
  ASSUME ScanInv, NEW s \in Scans, NEW r, scan' = [scan EXCEPT ![s] = r],
         r \in ScanRecords, IsFiniteSet(r.busy), Cardinality(r.busy) <= r.workers,
         r.told => /\ cancelEvent' /\ r.at \in {"memory", "files", "publish"}
                   /\ r.at = "publish" => r.final = "cancelled",
         cancelEvent' = cancelEvent,
         status' \in Statuses, unpaused' \in BOOLEAN, readOnly' \in BOOLEAN, auto' \in BOOLEAN,
         vault' \subseteq Files,
         scan[s].told => /\ r.busy \subseteq scan[s].busy
                         /\ r.at = "ended" => status' = "cancelled"
  PROVE  ScanInv' /\ CancelKept
<1>1. scan \in [Scans -> ScanRecords] /\ scan' \in [Scans -> ScanRecords]
  BY DEF ScanInv, ScanTypes
<1>2. scan'[s] = r /\ \A t \in Scans \ {s} : scan'[t] = scan[t]
  BY <1>1
<1>3. ScanTypes'
  BY <1>1 DEF ScanInv, ScanTypes
<1>4. PoolKept'
  <2>1. \A t \in Scans : IsFiniteSet(scan'[t].busy) /\ Cardinality(scan'[t].busy) <= scan'[t].workers
    BY <1>2 DEF ScanInv, PoolKept
  <2> QED BY <2>1 DEF PoolKept
<1>5. ToldStops'
  <2>1. \A t \in Scans : scan'[t].told =>
          /\ cancelEvent' /\ scan'[t].at \in {"memory", "files", "publish"}
          /\ scan'[t].at = "publish" => scan'[t].final = "cancelled"
    BY <1>2 DEF ScanInv, ToldStops
  <2> QED BY <2>1 DEF ToldStops
<1>6. CancelKept
  <2>1. \A t \in Scans \ {s} : scan[t].told => scan'[t].at # "ended"
    BY <1>2 DEF ScanInv, ToldStops
  <2> QED BY <1>2, <2>1 DEF CancelKept
<1> QED BY <1>3, <1>4, <1>5, <1>6 DEF ScanInv

\* No scan changes, and the event is set only.
LEMMA NoScanChanges ==
  ASSUME ScanInv, UNCHANGED <<scan, cancelEvent>>,
         status' \in Statuses, unpaused' \in BOOLEAN, readOnly' \in BOOLEAN, auto' \in BOOLEAN,
         vault' \subseteq Files
  PROVE  ScanInv' /\ CancelKept
<1>1. ScanTypes'
  BY DEF ScanInv, ScanTypes
<1>2. PoolKept' /\ ToldStops'
  BY DEF ScanInv, PoolKept, ToldStops
<1>3. CancelKept
  BY DEF ScanInv, ToldStops, CancelKept
<1> QED BY <1>1, <1>2, <1>3 DEF ScanInv

\* A scan begins, or is refused because another one runs.
LEMMA EnterStep == ASSUME ScanInv, NEW s \in Scans, Enter(s) PROVE ScanInv' /\ CancelKept
<1> DEFINE todo == Collected(scan[s].quick)
           r == [scan[s] EXCEPT !.at = IF scan[s].quick THEN "memory" ELSE "files", !.todo = todo]
<1>1. /\ scan[s].at = "enter" /\ status' = "scanning" /\ cancelEvent' = FALSE /\ unpaused' = TRUE
      /\ scan' = [t \in Scans |-> IF t = s THEN r ELSE [scan[t] EXCEPT !.told = FALSE]]
      /\ UNCHANGED <<readOnly, auto, vault>>
  BY DEF Enter, modes
<1>2. scan \in [Scans -> ScanRecords]
  BY DEF ScanInv, ScanTypes
<1>3. todo \in SUBSET Files
  BY DEF Collected
<1>4. ~scan[s].told
  BY <1>1 DEF ScanInv, ToldStops
<1> HIDE DEF todo
<1>5. r \in ScanRecords /\ r.told = scan[s].told /\ r.busy = scan[s].busy
      /\ r.workers = scan[s].workers /\ r.at # "ended"
  BY <1>2, <1>3 DEF ScanRecords
<1>6. \A t \in Scans : LET x == [scan[t] EXCEPT !.told = FALSE] IN
        /\ x \in ScanRecords /\ ~x.told /\ x.busy = scan[t].busy /\ x.workers = scan[t].workers
  BY <1>2 DEF ScanRecords
<1> HIDE DEF r
<1>7. \A t \in Scans :
        /\ scan'[t] \in ScanRecords /\ ~scan'[t].told /\ scan'[t].busy = scan[t].busy
        /\ scan'[t].workers = scan[t].workers
  BY <1>1, <1>4, <1>5, <1>6
<1>8. scan'[s].at # "ended"
  BY <1>1, <1>5
<1>9. ScanTypes'
  BY <1>1, <1>7 DEF ScanInv, ScanTypes, Statuses
<1>10. PoolKept' /\ ToldStops'
  BY <1>7 DEF ScanInv, PoolKept, ToldStops
<1>11. CancelKept
  <2> SUFFICES ASSUME NEW t \in Scans, scan[t].told, scan'[t].at = "ended" PROVE FALSE
    BY <1>7 DEF CancelKept
  <2>1. t # s
    BY <1>4
  <2>2. scan'[t].at = scan[t].at
    BY <1>1, <1>2, <2>1 DEF ScanRecords
  <2> QED BY <2>2 DEF ScanInv, ToldStops
<1> QED BY <1>9, <1>10, <1>11 DEF ScanInv

\* A cancel sets the event for the scan that is the last one begun.
LEMMA CancelStep == ScanInv /\ Cancel => ScanInv' /\ CancelKept
<1> SUFFICES ASSUME ScanInv, Cancel PROVE ScanInv' /\ CancelKept
  OBVIOUS
<1>1. /\ cancelEvent' = TRUE /\ unpaused' = TRUE
      /\ scan' = [s \in Scans |-> [scan[s] EXCEPT !.told = scan[s].told \/ Running(s)]]
      /\ UNCHANGED <<status, readOnly, auto, vault>>
  BY DEF Cancel, modes
<1>2. scan \in [Scans -> ScanRecords]
  BY DEF ScanInv, ScanTypes
<1>3. \A s \in Scans : Running(s) \in BOOLEAN
  BY DEF Running
<1>4. ASSUME NEW s \in Scans
      PROVE  /\ scan'[s] \in ScanRecords /\ scan'[s].told = (scan[s].told \/ Running(s))
             /\ scan'[s].busy = scan[s].busy /\ scan'[s].workers = scan[s].workers
             /\ scan'[s].at = scan[s].at /\ scan'[s].final = scan[s].final
  <2> DEFINE b == scan[s].told \/ Running(s)
  <2>1. scan'[s] = [scan[s] EXCEPT !.told = b] /\ b \in BOOLEAN /\ scan[s] \in ScanRecords
    BY <1>1, <1>2, <1>3
  <2> HIDE DEF b
  <2>2. /\ scan'[s] \in ScanRecords /\ scan'[s].told = b
        /\ scan'[s].busy = scan[s].busy /\ scan'[s].workers = scan[s].workers
        /\ scan'[s].at = scan[s].at /\ scan'[s].final = scan[s].final
    BY <2>1 DEF ScanRecords
  <2> QED BY <2>2 DEF b
<1>5. ScanTypes'
  BY <1>1, <1>4 DEF ScanInv, ScanTypes
<1>6. PoolKept'
  BY <1>4 DEF ScanInv, PoolKept
<1>7. ToldStops'
  BY <1>1, <1>4 DEF ScanInv, ToldStops, Running
<1>8. CancelKept
  BY <1>4 DEF ScanInv, ToldStops, CancelKept
<1> QED BY <1>5, <1>6, <1>7, <1>8 DEF ScanInv
\* What is known of the record of a scan.
LEMMA ScanFacts ==
  ASSUME ScanInv, NEW s \in Scans
  PROVE  /\ scan[s] \in ScanRecords /\ IsFiniteSet(scan[s].busy)
         /\ Cardinality(scan[s].busy) \in Nat /\ Cardinality(scan[s].busy) <= scan[s].workers
         /\ scan[s].workers \in Nat /\ scan[s].busy \subseteq Files /\ scan[s].todo \subseteq Files
         /\ status \in Statuses /\ cancelEvent \in BOOLEAN /\ unpaused \in BOOLEAN
         /\ readOnly \in BOOLEAN /\ auto \in BOOLEAN /\ vault \subseteq Files
         /\ scan[s].told => /\ cancelEvent /\ scan[s].at \in {"memory", "files", "publish"}
                            /\ scan[s].at = "publish" => scan[s].final = "cancelled"
<1>1. scan[s] \in ScanRecords /\ IsFiniteSet(scan[s].busy) /\ Cardinality(scan[s].busy) <= scan[s].workers
  BY DEF ScanInv, ScanTypes, PoolKept
<1>2. Cardinality(scan[s].busy) \in Nat
  BY <1>1, FS_CardinalityType
<1> QED BY <1>1, <1>2 DEF ScanInv, ScanTypes, ToldStops, ScanRecords

\* A scan that has ended is told nothing any more.
LEMMA EndedStep ==
  ASSUME ScanInv, NEW s \in Scans, Ended(s), cancelEvent' = cancelEvent,
         status' \in Statuses, UNCHANGED <<unpaused, readOnly, auto, vault>>,
         scan[s].told => status' = "cancelled"
  PROVE  ScanInv' /\ CancelKept
<1> DEFINE r == [NoScan EXCEPT !.at = "ended"]
<1>1. scan' = [scan EXCEPT ![s] = r]
  BY DEF Ended, Set
<1>2. r \in ScanRecords /\ ~r.told /\ r.busy = {} /\ r.workers = 1
  BY NoScanIsOne DEF ScanRecords
<1>3. IsFiniteSet(r.busy) /\ Cardinality(r.busy) = 0
  BY <1>2, FS_EmptySet
<1>4. unpaused' \in BOOLEAN /\ readOnly' \in BOOLEAN /\ auto' \in BOOLEAN /\ vault' \subseteq Files
  BY ScanFacts
<1> HIDE DEF r
<1>5. scan[s].told => r.busy \subseteq scan[s].busy /\ (r.at = "ended" => status' = "cancelled")
  BY <1>2
<1>6. Cardinality(r.busy) <= r.workers
  BY <1>2, <1>3
<1> QED BY <1>1, <1>2, <1>3, <1>4, <1>5, <1>6, OneScan

LEMMA ScanMemoryStep ==
  ASSUME ScanInv, NEW s \in Scans, NEW found \in BOOLEAN, ScanMemory(s, found)
  PROVE  ScanInv' /\ CancelKept
<1> DEFINE r == [scan[s] EXCEPT !.at = "files", !.found = found]
<1>1. /\ scan' = [scan EXCEPT ![s] = r] /\ scan[s].at = "memory"
      /\ UNCHANGED <<status, cancelEvent, unpaused, readOnly, auto, vault>>
  BY DEF ScanMemory, Set, events, modes
<1>2. /\ r \in ScanRecords /\ r.told = scan[s].told /\ r.busy = scan[s].busy
      /\ r.workers = scan[s].workers /\ r.at = "files"
  BY ScanFacts DEF ScanRecords
<1> HIDE DEF r
<1> QED BY <1>1, <1>2, ScanFacts, OneScan

\* A worker begins a file, which no scan does that was told to stop.
LEMMA TakeStep ==
  ASSUME ScanInv, NEW s \in Scans, Take(s) PROVE ScanInv' /\ CancelKept
<1>1. /\ scan[s].at = "files" /\ Cardinality(scan[s].busy) < scan[s].workers /\ ~cancelEvent
      /\ UNCHANGED <<status, cancelEvent, unpaused, readOnly, auto, vault>>
  BY DEF Take, events, modes
<1>2. PICK f \in scan[s].todo :
        scan' = [scan EXCEPT ![s] = [scan[s] EXCEPT !.todo = scan[s].todo \ {f},
                                                    !.busy = scan[s].busy \cup {f}]]
  BY DEF Take, Set
<1> DEFINE busy == scan[s].busy \cup {f}
           r == [scan[s] EXCEPT !.todo = scan[s].todo \ {f}, !.busy = busy]
<1>3. ~scan[s].told
  BY <1>1, ScanFacts
<1>4. IsFiniteSet(busy) /\ Cardinality(busy) <= Cardinality(scan[s].busy) + 1
  <2>1. IsFiniteSet(scan[s].busy) /\ Cardinality(scan[s].busy) \in Nat
    BY ScanFacts
  <2> DEFINE S == scan[s].busy
  <2>2. IsFiniteSet(S) /\ Cardinality(S) \in Nat
    BY <2>1
  <2> HIDE DEF S
  <2>3. /\ IsFiniteSet(S \cup {f})
        /\ Cardinality(S \cup {f}) = IF f \in S THEN Cardinality(S) ELSE Cardinality(S) + 1
    BY <2>2, FS_AddElement
  <2>4. Cardinality(S \cup {f}) <= Cardinality(S) + 1
    BY <2>2, <2>3
  <2> QED BY <2>3, <2>4 DEF S
<1>5. busy \subseteq Files
  BY ScanFacts
<1>6. Cardinality(busy) \in Nat
  BY <1>4, FS_CardinalityType
<1>7. scan' = [scan EXCEPT ![s] = r]
  BY <1>2
<1> HIDE DEF busy
<1>8. /\ r \in ScanRecords /\ r.told = scan[s].told /\ r.busy = busy
      /\ r.workers = scan[s].workers
  BY <1>5, ScanFacts DEF ScanRecords
<1> HIDE DEF r
<1>9. Cardinality(r.busy) <= r.workers
  BY <1>1, <1>4, <1>6, <1>8, ScanFacts
<1> QED BY <1>1, <1>3, <1>4, <1>7, <1>8, <1>9, ScanFacts, OneScan

\* A scan sees the event and leaves its files, or some of them.
LEMMA SeeCancelStep ==
  ASSUME ScanInv, NEW s \in Scans, SeeCancel(s) PROVE ScanInv' /\ CancelKept
<1>1. PICK left \in SUBSET scan[s].todo, e \in {"cancelled", scan[s].final} :
        Set(s, [scan[s] EXCEPT !.todo = left, !.final = e])
  <2>1. CASE Set(s, [scan[s] EXCEPT !.todo = {}, !.final = "cancelled"])
    BY <2>1
  <2>2. ASSUME NEW left \in SUBSET scan[s].todo, Set(s, [scan[s] EXCEPT !.todo = left])
        PROVE  Set(s, [scan[s] EXCEPT !.todo = left, !.final = scan[s].final])
    <3>1. [scan[s] EXCEPT !.todo = left] = [scan[s] EXCEPT !.todo = left, !.final = scan[s].final]
      BY ScanFacts DEF ScanRecords
    <3> QED BY <2>2, <3>1
  <2> QED BY <2>1, <2>2 DEF SeeCancel
<1> DEFINE r == [scan[s] EXCEPT !.todo = left, !.final = e]
<1>2. /\ scan' = [scan EXCEPT ![s] = r] /\ scan[s].at = "files"
      /\ UNCHANGED <<status, cancelEvent, unpaused, readOnly, auto, vault>>
  BY <1>1 DEF SeeCancel, Set, events, modes
<1>3. /\ r \in ScanRecords /\ r.told = scan[s].told /\ r.busy = scan[s].busy
      /\ r.workers = scan[s].workers /\ r.at = scan[s].at
  BY ScanFacts DEF ScanRecords, Ends
<1> HIDE DEF r
<1> QED BY <1>2, <1>3, ScanFacts, OneScan

\* A worker is done with its file.
LEMMA DoneStep ==
  ASSUME ScanInv, NEW s \in Scans, NEW f \in scan[s].busy, NEW b \in BOOLEAN,
         Set(s, [scan[s] EXCEPT !.busy = scan[s].busy \ {f}, !.found = b]),
         UNCHANGED <<status, cancelEvent, unpaused, readOnly, auto>>, vault' \subseteq Files
  PROVE  ScanInv' /\ CancelKept
<1> DEFINE busy == scan[s].busy \ {f}
           r == [scan[s] EXCEPT !.busy = busy, !.found = b]
<1>1. scan' = [scan EXCEPT ![s] = r]
  BY DEF Set
<1>2. IsFiniteSet(busy) /\ Cardinality(busy) <= Cardinality(scan[s].busy) /\ busy \subseteq scan[s].busy
  BY ScanFacts, FS_Subset
<1>3. Cardinality(busy) \in Nat
  BY <1>2, FS_CardinalityType
<1> HIDE DEF busy
<1>4. /\ r \in ScanRecords /\ r.told = scan[s].told /\ r.busy = busy
      /\ r.workers = scan[s].workers /\ r.at = scan[s].at /\ r.final = scan[s].final
  BY <1>2, ScanFacts DEF ScanRecords
<1> HIDE DEF r
<1>5. Cardinality(r.busy) <= r.workers
  BY <1>2, <1>3, <1>4, ScanFacts
<1>6. scan[s].told => scan[s].at # "ended"
  BY ScanFacts
<1> QED BY <1>1, <1>2, <1>4, <1>5, <1>6, ScanFacts, OneScan

LEMMA DecidedStep ==
  ASSUME ScanInv, NEW s \in Scans, ScanError(s) \/ Close(s) PROVE ScanInv' /\ CancelKept
<1>1. PICK e \in Ends :
        /\ scan' = [scan EXCEPT ![s] = [scan[s] EXCEPT !.at = "publish", !.final = e]]
        /\ cancelEvent => e = "cancelled"
  <2>1. CASE ScanError(s)
    <3>1. (IF cancelEvent THEN "cancelled" ELSE "error") \in Ends
      BY DEF Ends
    <3> QED BY <2>1, <3>1 DEF ScanError, Set
  <2>2. CASE Close(s)
    <3>1. (IF cancelEvent THEN "cancelled" ELSE scan[s].final) \in Ends
      BY ScanFacts DEF Ends, ScanRecords
    <3> QED BY <2>2, <3>1 DEF Close, Set
  <2> QED BY <2>1, <2>2
<1>2. UNCHANGED <<status, cancelEvent, unpaused, readOnly, auto, vault>>
  BY DEF ScanError, Close, events, modes
<1> DEFINE r == [scan[s] EXCEPT !.at = "publish", !.final = e]
<1>3. /\ r \in ScanRecords /\ r.told = scan[s].told /\ r.busy = scan[s].busy
      /\ r.workers = scan[s].workers /\ r.at = "publish" /\ r.final = e
  BY ScanFacts DEF ScanRecords
<1>4. scan' = [scan EXCEPT ![s] = r]
  BY <1>1
<1> HIDE DEF r
<1> QED BY <1>1, <1>2, <1>3, <1>4, ScanFacts, OneScan

LEMMA LaunchStep ==
  ASSUME ScanInv, NEW s \in Scans, NEW quick \in BOOLEAN, NEW workers \in Nat \ {0},
         Launch(s, quick, workers), UNCHANGED <<status, cancelEvent, unpaused, vault>>,
         readOnly' \in BOOLEAN, auto' \in BOOLEAN
  PROVE  ScanInv' /\ CancelKept
<1> DEFINE r == [NoScan EXCEPT !.at = "enter", !.quick = quick, !.workers = workers]
<1>1. scan' = [scan EXCEPT ![s] = r]
  BY DEF Launch
<1>2. r \in ScanRecords /\ ~r.told /\ r.busy = {} /\ r.workers = workers /\ r.at = "enter"
  BY NoScanIsOne DEF ScanRecords
<1>3. IsFiniteSet(r.busy) /\ Cardinality(r.busy) = 0
  BY <1>2, FS_EmptySet
<1> HIDE DEF r
<1>4. Cardinality(r.busy) <= r.workers
  BY <1>2, <1>3
<1> QED BY <1>1, <1>2, <1>3, <1>4, ScanFacts, OneScan

\* Whatever the thread of a scan does.
LEMMA ThreadStep ==
  ASSUME ScanInv, NEW s \in Scans, ScanStep(s)
  PROVE  ScanInv' /\ CancelKept
<1>1. CASE Enter(s)
  BY <1>1, EnterStep
<1>2. CASE Refused(s)
  <2>1. scan[s].at = "enter" /\ Ended(s) /\ UNCHANGED <<status, cancelEvent, unpaused, readOnly, auto, vault>>
    BY <1>2 DEF Refused, events, modes
  <2>2. ~scan[s].told /\ status' \in Statuses
    BY <2>1, ScanFacts
  <2> QED BY <2>1, <2>2, EndedStep
<1>3. CASE Take(s)
  BY <1>3, TakeStep
<1>4. CASE SeeCancel(s)
  BY <1>4, SeeCancelStep
<1>5. CASE ScanError(s) \/ Close(s)
  BY <1>5, DecidedStep
<1>6. ASSUME NEW found \in BOOLEAN, ScanMemory(s, found) PROVE ScanInv' /\ CancelKept
  BY <1>6, ScanMemoryStep
<1>7. ASSUME NEW f \in Files, CleanFile(s, f) PROVE ScanInv' /\ CancelKept
  <2>1. /\ f \in scan[s].busy /\ Set(s, [scan[s] EXCEPT !.busy = scan[s].busy \ {f}])
        /\ UNCHANGED <<status, cancelEvent, unpaused, readOnly, auto, vault>>
    BY <1>7 DEF CleanFile, events, modes
  <2>2. /\ scan[s].found \in BOOLEAN
        /\ [scan[s] EXCEPT !.busy = scan[s].busy \ {f}]
             = [scan[s] EXCEPT !.busy = scan[s].busy \ {f}, !.found = scan[s].found]
    BY ScanFacts DEF ScanRecords
  <2>3. Set(s, [scan[s] EXCEPT !.busy = scan[s].busy \ {f}, !.found = scan[s].found])
    BY <2>1, <2>2
  <2> QED BY <2>1, <2>2, <2>3, DoneStep, ScanFacts
<1>8. ASSUME NEW f \in Files, NEW isolated \in BOOLEAN, BadFile(s, f, isolated)
      PROVE ScanInv' /\ CancelKept
  <2>1. /\ f \in scan[s].busy /\ Set(s, [scan[s] EXCEPT !.busy = scan[s].busy \ {f}, !.found = TRUE])
        /\ UNCHANGED <<status, cancelEvent, unpaused, readOnly, auto>>
        /\ vault' \subseteq vault \cup {f}
    BY <1>8 DEF BadFile, events, modes
  <2>2. vault' \subseteq Files
    BY <2>1, ScanFacts
  <2> QED BY <2>1, <2>2, DoneStep
<1>9. CASE Publish(s)
  <2>1. /\ scan[s].at = "publish" /\ status' = scan[s].final /\ Ended(s)
        /\ UNCHANGED <<cancelEvent, unpaused, readOnly, auto, vault>>
    BY <1>9 DEF Publish, events, modes
  <2>2. status' \in Statuses /\ (scan[s].told => status' = "cancelled")
    BY <2>1, ScanFacts DEF ScanRecords, Ends, Statuses
  <2> QED BY <2>1, <2>2, EndedStep
<1> QED BY <1>1, <1>2, <1>3, <1>4, <1>5, <1>6, <1>7, <1>8, <1>9 DEF ScanStep
LEMMA StartStep ==
  ASSUME ScanInv, PageTypes, NEW s \in Scans, NEW quick \in BOOLEAN, Start(s, quick)
  PROVE  ScanInv' /\ CancelKept
<1>1. /\ Launch(s, quick, 1) /\ UNCHANGED <<status, cancelEvent, unpaused, vault>>
      /\ readOnly' \in BOOLEAN /\ auto' \in BOOLEAN
  BY DEF Start, events, PageTypes
<1> QED BY <1>1, LaunchStep

LEMMA LibraryStep == ScanInv /\ Library => ScanInv' /\ CancelKept
<1> SUFFICES ASSUME ScanInv, Library PROVE ScanInv' /\ CancelKept
  OBVIOUS
<1>1. CASE Pause \/ Resume
  <2>1. /\ UNCHANGED <<scan, cancelEvent, readOnly, auto, vault>>
        /\ status' \in Statuses /\ unpaused' \in BOOLEAN
    BY <1>1 DEF Pause, Resume, modes, Statuses
  <2>2. readOnly \in BOOLEAN /\ auto \in BOOLEAN /\ vault \subseteq Files
    BY DEF ScanInv, ScanTypes
  <2> QED BY <2>1, <2>2, NoScanChanges
<1>2. CASE Cancel
  BY <1>2, CancelStep
<1>3. ASSUME NEW s \in Scans, NEW quick \in BOOLEAN, NEW workers \in ScanWorkers,
             Launch(s, quick, workers), UNCHANGED <<status, events, modes, vault>>
      PROVE ScanInv' /\ CancelKept
  <2>1. UNCHANGED <<status, cancelEvent, unpaused, readOnly, auto, vault>> /\ workers \in Nat \ {0}
    BY <1>3, DashboardAssumption DEF events, modes
  <2> QED BY <1>3, <2>1, LaunchStep, ScanFacts
<1> QED BY <1>1, <1>2, <1>3 DEF Library

\* The main loop: what does not start or cancel a scan leaves all scans as they are.
LEMMA ScanNext ==
  ASSUME ScanInv, PageTypes, [Next]_vars PROVE ScanInv' /\ CancelKept
<1>1. ASSUME NEW s \in Scans, ScanStep(s) PROVE ScanInv' /\ CancelKept
  BY <1>1, ThreadStep
<1>2. ASSUME NEW s \in Scans, TargetTimer(s) \/ ClickQuick(s) \/ AnswerFull(s) \/ AnswerCustom(s)
      PROVE ScanInv' /\ CancelKept
  BY <1>2, StartStep DEF TargetTimer, ClickQuick, OnStartQuickScan, AnswerFull, AnswerCustom
<1> DEFINE Quiet == /\ UNCHANGED <<scan, cancelEvent, status, unpaused>>
                    /\ readOnly' \in BOOLEAN /\ auto' \in BOOLEAN /\ vault' \subseteq Files
<1>3. ASSUME Quiet PROVE ScanInv' /\ CancelKept
  <2>1. status' \in Statuses /\ unpaused' \in BOOLEAN
    BY <1>3 DEF ScanInv, ScanTypes
  <2> QED BY <1>3, <2>1, NoScanChanges
<1>4. readOnly \in BOOLEAN /\ auto \in BOOLEAN /\ vault \subseteq Files
  BY DEF ScanInv, ScanTypes
<1>5. ASSUME UNCHANGED scannerVars PROVE Quiet
  BY <1>4, <1>5 DEF scannerVars, events, modes
<1> HIDE DEF Quiet
<1>6. CASE QuickTimer
  <2>1. CASE active
    <3>1. UNCHANGED scannerVars
      BY <1>6, <2>1 DEF QuickTimer
    <3> QED BY <1>3, <1>5, <3>1
  <2>2. CASE ~active
    BY <1>6, <2>2, StartStep DEF QuickTimer, OnStartQuickScan
  <2> QED BY <2>1, <2>2
<1>7. CASE ClickOverviewQuick \/ ClickFullOrCustom \/ AnswerNo \/ UntickSafe \/ KeepSafe
           \/ HandleThreat \/ HandleComplete \/ \E f \in Files : ClickQuarantine(f)
  <2>1. UNCHANGED scannerVars
    BY <1>7 DEF ClickOverviewQuick, ClickFullOrCustom, AnswerNo, UntickSafe, KeepSafe,
                HandleThreat, HandleComplete, ClickQuarantine
  <2> QED BY <1>3, <1>5, <2>1
<1>8. CASE ClickCancel
  BY <1>8, CancelStep DEF ClickCancel
<1>9. CASE TickSafe \/ ConfirmUnsafe
  <2>1. Quiet
    BY <1>4, <1>9 DEF TickSafe, ConfirmUnsafe, events, Quiet
  <2> QED BY <1>3, <2>1
<1>10. CASE AnswerQuarantine
  <2>1. dialog.about = "manual" /\ UNCHANGED <<scan, cancelEvent, status, unpaused, readOnly, auto>>
        /\ vault' = vault \cup {dialog.file}
    BY <1>10 DEF AnswerQuarantine, Closed, events, modes
  <2>2. Quiet
    BY <1>4, <2>1 DEF Quiet, PageTypes
  <2> QED BY <1>3, <2>2
<1>11. CASE Library
  BY <1>11, LibraryStep
<1>12. CASE UNCHANGED vars
  <2>1. UNCHANGED scannerVars
    BY <1>12 DEF vars
  <2> QED BY <1>3, <1>5, <2>1
<1> QED BY <1>1, <1>2, <1>6, <1>7, <1>8, <1>9, <1>10, <1>11, <1>12 DEF Next

LEMMA PostedIsNote ==
  ASSUME PageTypes, NEW n \in Notes, Post(n) PROVE posted' \in Seq(Notes)
BY AppendProperties DEF PageTypes, Post

\* The thread of a scan posts notes only.
LEMMA ThreadPosts ==
  ASSUME ScanInv, PageTypes, NEW s \in Scans, ScanStep(s) PROVE PageTypes'
<1>1. CASE UNCHANGED uiVars
  BY <1>1 DEF uiVars, PageTypes
<1>2. ASSUME NEW f \in Files, NEW isolated \in BOOLEAN,
             Post(Note("threat", f, IF isolated THEN "quarantined" ELSE "untouched")),
             UNCHANGED <<active, safe, dialog, timers, rows, label>>
      PROVE PageTypes'
  <2> DEFINE n == Note("threat", f, IF isolated THEN "quarantined" ELSE "untouched")
  <2>1. n \in Notes
    BY DEF Note, Notes
  <2>2. posted' \in Seq(Notes)
    <3> HIDE DEF n
    <3> QED BY <1>2, <2>1, PostedIsNote DEF n
  <2> QED BY <1>2, <2>2 DEF PageTypes
<1>3. ASSUME Post(Note("complete", NoFile,
                  IF scan[s].final # "cancelled" /\ scan[s].found THEN "threats"
                  ELSE scan[s].final)),
             UNCHANGED <<active, safe, dialog, timers, rows, label>>
      PROVE PageTypes'
  <2> DEFINE w == IF scan[s].final # "cancelled" /\ scan[s].found THEN "threats" ELSE scan[s].final
             n == Note("complete", NoFile, w)
  <2>1. w \in Ends \cup {"threats"}
    BY ScanFacts DEF ScanRecords
  <2>2. n \in Notes
    <3> HIDE DEF w
    <3> QED BY <2>1 DEF Note, Notes
  <2>3. Post(n)
    BY <1>3
  <2> HIDE DEF n
  <2>4. posted' \in Seq(Notes)
    BY <2>2, <2>3, PostedIsNote
  <2> QED BY <1>3, <2>4 DEF PageTypes
<1>4. \/ UNCHANGED uiVars
      \/ \E f \in Files, isolated \in BOOLEAN :
           /\ Post(Note("threat", f, IF isolated THEN "quarantined" ELSE "untouched"))
           /\ UNCHANGED <<active, safe, dialog, timers, rows, label>>
      \/ /\ Post(Note("complete", NoFile,
                      IF scan[s].final # "cancelled" /\ scan[s].found THEN "threats"
                      ELSE scan[s].final))
         /\ UNCHANGED <<active, safe, dialog, timers, rows, label>>
  <2> HIDE DEF ScanInv, PageTypes
  <2> QED BY DEF ScanStep
<1> QED BY <1>1, <1>2, <1>3, <1>4

\* The page's handlers keep the types of the page.
LEMMA PageNext ==
  ASSUME ScanInv, PageTypes, [Next]_vars PROVE PageTypes'
<1> USE DEF PageTypes
<1>1. ASSUME NEW s \in Scans, ScanStep(s) PROVE PageTypes'
  BY <1>1, ThreadPosts
<1>2. ASSUME NEW s \in Scans, TargetTimer(s) \/ ClickQuick(s) \/ AnswerFull(s) \/ AnswerCustom(s)
      PROVE PageTypes'
  <2>1. /\ UNCHANGED <<safe, posted, label>> /\ active' = TRUE /\ timers' \subseteq timers
        /\ rows' \in [Files -> {"none", "untouched", "quarantined"}]
    BY <1>2 DEF TargetTimer, ClickQuick, OnStartQuickScan, AnswerFull, AnswerCustom, Start, Cleared
  <2>2. dialog' = dialog \/ dialog' = NoDialog
    BY <1>2 DEF TargetTimer, ClickQuick, AnswerFull, AnswerCustom, Closed
  <2>3. NoDialog.about # "manual"
    BY DEF NoDialog
  <2> QED BY <2>1, <2>2, <2>3
<1>3. CASE QuickTimer
  BY <1>3 DEF QuickTimer, OnStartQuickScan, Start, Cleared
<1>4. CASE ClickOverviewQuick \/ ClickFullOrCustom \/ AnswerNo \/ ClickCancel
  <2>1. UNCHANGED <<active, safe, posted, rows, label>> /\ timers' \subseteq timers \cup {"quick"}
    BY <1>4 DEF ClickOverviewQuick, ClickFullOrCustom, AnswerNo, ClickCancel, uiVars
  <2>2. dialog' = dialog \/ dialog'.about # "manual"
    BY <1>4 DEF ClickOverviewQuick, ClickFullOrCustom, AnswerNo, ClickCancel, Open, Closed, NoDialog,
                uiVars
  <2> QED BY <2>1, <2>2
<1>5. CASE TickSafe \/ UntickSafe \/ ConfirmUnsafe \/ KeepSafe
  <2>1. UNCHANGED <<active, timers, posted, rows, label>> /\ safe' \in BOOLEAN
    BY <1>5 DEF TickSafe, UntickSafe, ConfirmUnsafe, KeepSafe
  <2>2. dialog' = dialog \/ dialog'.about # "manual"
    BY <1>5 DEF TickSafe, UntickSafe, ConfirmUnsafe, KeepSafe, Open, Closed, NoDialog
  <2> QED BY <2>1, <2>2
<1>6. ASSUME NEW f \in Files, ClickQuarantine(f) PROVE PageTypes'
  BY <1>6 DEF ClickQuarantine, Open
<1>7. CASE AnswerQuarantine
  BY <1>7 DEF AnswerQuarantine, Closed, NoDialog
<1>8. CASE HandleThreat \/ HandleComplete
  <2>1. posted # <<>> /\ posted' = Tail(posted)
    BY <1>8 DEF HandleThreat, HandleComplete
  <2>2. Head(posted) \in Notes /\ posted' \in Seq(Notes)
    BY <2>1, HeadTailProperties
  <2> DEFINE n == Head(posted)
  <2>3. n \in Notes
    BY <2>2
  <2>4. CASE HandleThreat
    <3>1. /\ n.kind = "threat" /\ rows' = [rows EXCEPT ![n.file] = n.what]
          /\ UNCHANGED <<active, safe, dialog, timers, label>>
      BY <2>4 DEF HandleThreat
    <3> HIDE DEF n
    <3>2. n.what \in {"untouched", "quarantined"}
      BY <2>3, <3>1 DEF Notes
    <3>3. rows' \in [Files -> {"none", "untouched", "quarantined"}]
      BY <3>1, <3>2
    <3> QED BY <2>2, <3>1, <3>3
  <2>5. CASE HandleComplete
    <3>1. /\ n.kind = "complete" /\ active' = FALSE
          /\ label' = IF n.what # "threats" THEN n.what ELSE IF auto THEN "isolated" ELSE "detected"
          /\ UNCHANGED <<safe, dialog, timers, rows>>
      BY <2>5 DEF HandleComplete
    <3> HIDE DEF n
    <3>2. n.what \in Ends \cup {"threats"}
      BY <2>3, <3>1 DEF Notes
    <3>3. label' \in Statuses \cup {"none", "isolated", "detected"}
      BY <3>1, <3>2 DEF Ends, Statuses
    <3> QED BY <2>2, <3>1, <3>3
  <2> QED BY <1>8, <2>4, <2>5
<1>9. CASE Library
  BY <1>9 DEF Library, uiVars
<1>10. CASE UNCHANGED vars
  BY <1>10 DEF vars, uiVars
<1> QED BY <1>1, <1>2, <1>3, <1>4, <1>5, <1>6, <1>7, <1>8, <1>9, <1>10 DEF Next

\* The invariants of the scanner and of the page.
LEMMA ScanInvariant == Spec => [](ScanInv /\ PageTypes)
<1>1. ScanInv /\ PageTypes /\ [Next]_vars => (ScanInv /\ PageTypes)'
  BY ScanNext, PageNext
<1> QED BY <1>1, ScanStarts, PTL DEF Spec

LEMMA ScanInvTypes == ScanInv /\ PageTypes => UiOK
<1> SUFFICES ASSUME ScanInv, PageTypes PROVE UiOK
  OBVIOUS
<1>1. ASSUME NEW s \in Scans
      PROVE  /\ scan[s].at \in {"unborn", "enter", "memory", "files", "publish", "ended"}
             /\ scan[s].todo \subseteq Files /\ Cardinality(scan[s].busy) <= scan[s].workers
             /\ scan[s].found \in BOOLEAN
  BY ScanFacts DEF ScanRecords
<1>2. /\ status \in Statuses /\ {cancelEvent, unpaused, readOnly, auto} \subseteq BOOLEAN
      /\ vault \subseteq Files
  BY DEF ScanInv, ScanTypes
<1>3. ScannerOK
  BY <1>1, <1>2 DEF ScannerOK
<1> QED BY <1>3 DEF UiOK, PageTypes

\* The scanner and the page keep to their states, and no scan has more files in hand than
\* workers, however the threads of the scans and the handlers of the page interleave.
THEOREM ScanTypeCorrect == Spec => []UiOK
BY ScanInvTypes, ScanInvariant, PTL

\* A scan that was cancelled while it ran takes no further file and ends as cancelled,
\* however it is paused and resumed, and whatever the number of its workers, for as long as
\* no other scan begins: nothing but that clears the event (scanner.py:558).
THEOREM CancelledScanStops == Spec => CancelStops
<1>1. ScanInv /\ PageTypes /\ [Next]_vars =>
        [\A s \in Scans :
           scan[s].told /\ (scan'[s].told \/ scan'[s].at = "ended") =>
             /\ scan'[s].busy \subseteq scan[s].busy
             /\ scan'[s].at = "ended" => status' = "cancelled"]_scannerVars
  BY ScanNext DEF CancelKept
<1> QED BY <1>1, ScanInvariant, PTL DEF Spec, CancelStops

-----------------------------------------------------------------------------
(* The pages of the dashboard.  Of the memory page and of the sandbox page *)
(* one thread is at work, or one call of such a thread waits for the main  *)
(* loop, and only while the page's flag is set.                            *)

PageKinds == {"memory", "network", "sandbox"}
PageRows == [scan : Nat, pid : Owners, life : Nat]
PageJobs ==
  [n : Nat, kind : PageKinds, at : {"runs", "listed", "handler"}, of : Targets \cup {NoTarget},
   todo : SUBSET Owners, found : SUBSET PageRows]
PageCalls ==
  [kind : {"memory", "network"}, n : Nat, what : {"rows"}, rows : SUBSET PageRows]
    \cup [kind : {"sandbox"}, n : Nat, what : {"malicious", "safe", "failed"},
          rows : SUBSET PageRows]

PagesTypes ==
  /\ page \in PageNames /\ targets \subseteq Targets
  /\ question.about \in {"none", "kill", "severed", "isolate"}
  /\ owner \in [Owners -> [now : Nat, born : Nat]]
  /\ \A o \in Owners : owner[o].now \in {0, owner[o].born}
  /\ started \in Nat /\ jobs \subseteq PageJobs /\ (\A j \in jobs : j.n <= started)
  /\ calls \in Seq(PageCalls)
  /\ memory \in [active : BOOLEAN, table : SUBSET PageRows]
  /\ network \in [off : BOOLEAN, table : SUBSET PageRows]
  /\ sandbox \in [off : BOOLEAN, target : Targets \cup {NoTarget}, isolable : BOOLEAN]

Working(js, kind) == {j \in js : j.kind = kind /\ j.at # "handler"}
HandedOver(cs, kind) == {i \in 1..Len(cs) : cs[i].kind = kind}

Alone(js, cs, kind, busy) ==
  /\ \A j, k \in Working(js, kind) : j = k
  /\ \A i, m \in HandedOver(cs, kind) : i = m
  /\ Working(js, kind) = {} \/ HandedOver(cs, kind) = {}
  /\ busy \/ (Working(js, kind) = {} /\ HandedOver(cs, kind) = {})

\* The rows that a thread has found and hands over are of its own scan.
RowsAreOwn ==
  /\ \A j \in jobs : \A r \in j.found : r.scan = j.n
  /\ \A i \in 1..Len(calls) : \A r \in calls[i].rows : r.scan = calls[i].n

OneTable ==
  /\ \A r, q \in memory.table : r.scan = q.scan
  /\ memory.active => memory.table = {}

PagesInv ==
  /\ PagesTypes /\ RowsAreOwn /\ OneTable
  /\ Alone(jobs, calls, "memory", memory.active)
  /\ Alone(jobs, calls, "sandbox", sandbox.off)

\* A thread is started while the flag is not set, and sets it.
LEMMA AloneBegins ==
  ASSUME NEW js, NEW cs, NEW kind, NEW x, Alone(js, cs, kind, FALSE)
  PROVE  Alone(js \cup {x}, cs, kind, TRUE)
BY DEF Alone, Working, HandedOver

\* The threads of the others do not matter.
LEMMA AloneOther ==
  ASSUME NEW js, NEW cs, NEW kind, NEW busy, NEW x, Alone(js, cs, kind, busy), x.kind # kind
  PROVE  Alone(js \cup {x}, cs, kind, busy)
<1>1. Working(js \cup {x}, kind) = Working(js, kind)
  BY DEF Working
<1> QED BY <1>1 DEF Alone

\* A thread goes on, or leaves.
LEMMA AloneGoesOn ==
  ASSUME NEW js, NEW cs, NEW kind, NEW busy, NEW j \in js, NEW x, Alone(js, cs, kind, busy),
         x.kind = j.kind, j.at # "handler"
  PROVE  Alone((js \ {j}) \cup {x}, cs, kind, busy)
<1>1. CASE j.kind = kind
  BY <1>1 DEF Alone, Working
<1>2. CASE j.kind # kind
  <2>1. Working((js \ {j}) \cup {x}, kind) = Working(js, kind)
    BY <1>2 DEF Working
  <2> QED BY <2>1 DEF Alone
<1> QED BY <1>1, <1>2

\* A thread that ends without a call leaves the page free.
LEMMA AloneLeaves ==
  ASSUME NEW js, NEW cs, NEW kind, NEW busy, NEW j, Alone(js, cs, kind, busy)
  PROVE  Alone(js \ {j}, cs, kind, busy)
BY DEF Alone, Working

\* A thread hands over what it has, and is no longer at work.
LEMMA AlonePosts ==
  ASSUME NEW js, NEW cs \in Seq(PageCalls), NEW c \in PageCalls, NEW kind, NEW busy,
         NEW j \in js, j.at # "handler", c.kind = j.kind, Alone(js, cs, kind, busy),
         NEW ks, Working(ks, kind) = Working(js, kind) \ {j}
  PROVE  Alone(ks, Append(cs, c), kind, busy)
<1> DEFINE ds == Append(cs, c)
<1>1. /\ Len(ds) = Len(cs) + 1 /\ Len(cs) \in Nat /\ ds[Len(cs) + 1] = c
      /\ \A i \in 1..Len(cs) : ds[i] = cs[i]
  BY AppendProperties, LenProperties
<1> HIDE DEF ds
<1>2. 1..Len(ds) = (1..Len(cs)) \cup {Len(ds)} /\ Len(ds) \notin 1..Len(cs)
  BY <1>1
<1>3. CASE c.kind = kind
  <2>1. j \in Working(js, kind)
    BY <1>3 DEF Working
  <2>2. Working(ks, kind) = {} /\ HandedOver(cs, kind) = {} /\ busy
    BY <2>1 DEF Alone
  <2>3. HandedOver(ds, kind) = {Len(ds)}
    BY <1>1, <1>2, <1>3, <2>2 DEF HandedOver
  <2> QED BY <2>2, <2>3 DEF Alone, ds
<1>4. CASE c.kind # kind
  <2>1. HandedOver(ds, kind) = HandedOver(cs, kind)
    BY <1>1, <1>2, <1>4 DEF HandedOver
  <2> QED BY <2>1 DEF Alone, ds
<1> QED BY <1>3, <1>4

\* The main loop takes a call; that of the kind itself ends the wait.
LEMMA AloneHandles ==
  ASSUME NEW js, NEW cs \in Seq(PageCalls), cs # <<>>, NEW kind, NEW busy, NEW after,
         Alone(js, cs, kind, busy), Head(cs).kind = kind \/ after = busy
  PROVE  Alone(js, Tail(cs), kind, after)
<1>1. /\ Len(cs) \in Nat /\ Len(cs) > 0 /\ Len(Tail(cs)) = Len(cs) - 1 /\ Head(cs) = cs[1]
      /\ \A i \in 1..Len(Tail(cs)) : Tail(cs)[i] = cs[i + 1]
  BY HeadTailProperties, EmptySeq, LenProperties
<1> DEFINE ds == Tail(cs)
<1> HIDE DEF ds
<1>2. \A i \in HandedOver(ds, kind) : i + 1 \in HandedOver(cs, kind) /\ i \in Nat /\ i >= 1
  BY <1>1 DEF HandedOver, ds
<1>3. \A i, m \in HandedOver(ds, kind) : i = m
  <2> SUFFICES ASSUME NEW i \in HandedOver(ds, kind), NEW m \in HandedOver(ds, kind) PROVE i = m
    OBVIOUS
  <2>1. i + 1 = m + 1 /\ i \in Nat /\ m \in Nat
    BY <1>2 DEF Alone
  <2> QED BY <2>1
<1>4. HandedOver(ds, kind) # {} => HandedOver(cs, kind) # {}
  BY <1>2
<1>5. CASE cs[1].kind = kind
  <2>1. 1 \in HandedOver(cs, kind)
    BY <1>1, <1>5 DEF HandedOver
  <2>2. Working(js, kind) = {}
    BY <2>1 DEF Alone
  <2>3. HandedOver(ds, kind) = {}
    <3> SUFFICES ASSUME NEW i \in HandedOver(ds, kind) PROVE FALSE
      OBVIOUS
    <3>1. i + 1 = 1 /\ i \in Nat /\ i >= 1
      BY <1>2, <2>1 DEF Alone
    <3> QED BY <3>1
  <2> QED BY <2>2, <2>3 DEF Alone, ds
<1>6. CASE cs[1].kind # kind
  <2>1. after = busy
    BY <1>1, <1>6
  <2> QED BY <1>3, <1>4, <2>1 DEF Alone, ds
<1> QED BY <1>5, <1>6
LEMMA PagesStart == PagesInit => PagesInv
<1> SUFFICES ASSUME PagesInit PROVE PagesInv
  OBVIOUS
<1>1. /\ page \in PageNames /\ question = NoQuestion /\ targets = Targets
      /\ owner = [o \in Owners |-> [now |-> 1, born |-> 1]]
      /\ jobs = {} /\ started = 0 /\ calls = <<>>
      /\ memory = [active |-> FALSE, table |-> {}] /\ network = [off |-> FALSE, table |-> {}]
      /\ sandbox = [off |-> FALSE, target |-> NoTarget, isolable |-> FALSE]
  BY DEF PagesInit
<1>2. PagesTypes
  BY <1>1 DEF PagesTypes, NoQuestion
<1>3. RowsAreOwn /\ OneTable
  BY <1>1 DEF RowsAreOwn, OneTable
<1>4. \A kind : Alone(jobs, calls, kind, FALSE)
  BY <1>1 DEF Alone, Working, HandedOver
<1>5. memory.active = FALSE /\ sandbox.off = FALSE
  BY <1>1
<1> QED BY <1>2, <1>3, <1>4, <1>5 DEF PagesInv

\* What leaves the threads, the calls and the tables alone.
LEMMA PagesStay ==
  ASSUME PagesInv, PagesTypes', UNCHANGED <<jobs, calls, memory>>, sandbox'.off = sandbox.off
  PROVE  PagesInv'
<1>1. RowsAreOwn' /\ OneTable'
  BY DEF PagesInv, RowsAreOwn, OneTable
<1>2. /\ Alone(jobs, calls, "memory", memory.active)'
      /\ Alone(jobs, calls, "sandbox", sandbox.off)'
  BY DEF PagesInv
<1> QED BY <1>1, <1>2 DEF PagesInv

LEMMA JobIsOne ==
  ASSUME PagesTypes, NEW kind \in PageKinds, NEW of \in Targets \cup {NoTarget},
         NEW todo \in SUBSET Owners
  PROVE  /\ Job(kind, of, todo) \in PageJobs /\ Job(kind, of, todo).n = started + 1
         /\ Job(kind, of, todo).kind = kind /\ Job(kind, of, todo).found = {}
<1>1. started + 1 \in Nat
  BY DEF PagesTypes
<1> QED BY <1>1 DEF Job, PageJobs

\* A thread that is started, of whatever kind.
LEMMA StartsJob ==
  ASSUME PagesInv, NEW kind \in PageKinds, NEW of \in Targets \cup {NoTarget},
         NEW todo \in SUBSET Owners, StartJob(kind, of, todo), calls' = calls
  PROVE  /\ started' \in Nat /\ jobs' \subseteq PageJobs /\ \A j \in jobs' : j.n <= started'
         /\ RowsAreOwn'
         /\ \A other \in PageKinds : \A busy : other # kind /\ Alone(jobs, calls, other, busy)
                                              => Alone(jobs', calls', other, busy)
         /\ Alone(jobs, calls, kind, FALSE) => Alone(jobs', calls', kind, TRUE)
<1> DEFINE x == Job(kind, of, todo)
<1>1. jobs' = jobs \cup {x} /\ started' = started + 1
  BY DEF StartJob
<1>2. PagesTypes /\ RowsAreOwn
  BY DEF PagesInv
<1>3. x \in PageJobs /\ x.n = started + 1 /\ x.kind = kind /\ x.found = {}
  BY <1>2, JobIsOne
<1> HIDE DEF x
<1>4. started' \in Nat /\ jobs' \subseteq PageJobs
  BY <1>1, <1>2, <1>3 DEF PagesTypes
<1>5. \A j \in jobs' : j.n <= started'
  <2>1. \A j \in jobs : j.n \in Nat /\ j.n <= started /\ started \in Nat
    BY <1>2 DEF PagesTypes, PageJobs
  <2> QED BY <1>1, <1>3, <2>1
<1>6. RowsAreOwn'
  BY <1>1, <1>2, <1>3 DEF RowsAreOwn
<1>7. \A other \in PageKinds : \A busy : other # kind /\ Alone(jobs, calls, other, busy)
                                        => Alone(jobs', calls', other, busy)
  BY <1>1, <1>3, AloneOther
<1>8. Alone(jobs, calls, kind, FALSE) => Alone(jobs', calls', kind, TRUE)
  BY <1>1, <1>3, AloneBegins
<1> QED BY <1>4, <1>5, <1>6, <1>7, <1>8

LEMMA MemoryBegins ==
  ASSUME PagesInv, OnScanMemory, UNCHANGED <<page, world, calls, network, sandbox>>,
         question' = question
  PROVE  PagesInv'
<1>1. /\ ~memory.active /\ memory' = [active |-> TRUE, table |-> {}]
      /\ StartJob("memory", NoTarget, Owners)
  BY DEF OnScanMemory
<1>2. PagesTypes /\ RowsAreOwn /\ Alone(jobs, calls, "memory", memory.active)
      /\ Alone(jobs, calls, "sandbox", sandbox.off)
  BY DEF PagesInv
<1>3. memory.active = FALSE
  BY <1>1, <1>2 DEF PagesTypes
<1>4. memory'.active = TRUE /\ memory'.table = {}
  BY <1>1
<1>5. /\ started' \in Nat /\ jobs' \subseteq PageJobs /\ (\A j \in jobs' : j.n <= started')
      /\ RowsAreOwn' /\ Alone(jobs', calls', "sandbox", sandbox.off)
      /\ Alone(jobs', calls', "memory", TRUE)
  BY <1>1, <1>2, <1>3, StartsJob DEF PageKinds
<1>6. PagesTypes'
  BY <1>1, <1>2, <1>5 DEF PagesTypes, world
<1>7. OneTable'
  BY <1>4 DEF OneTable
<1>8. Alone(jobs, calls, "memory", memory.active)' /\ Alone(jobs, calls, "sandbox", sandbox.off)'
  BY <1>4, <1>5
<1> QED BY <1>5, <1>6, <1>7, <1>8 DEF PagesInv

LEMMA NetworkBegins ==
  ASSUME PagesInv, OnRefreshNetwork, UNCHANGED <<page, world, calls, memory, sandbox>>,
         question'.about \in {"none", "kill", "severed", "isolate"}
  PROVE  PagesInv'
<1>1. network' = [network EXCEPT !.off = TRUE] /\ StartJob("network", NoTarget, {})
  BY DEF OnRefreshNetwork
<1>2. PagesTypes /\ RowsAreOwn /\ Alone(jobs, calls, "memory", memory.active)
      /\ Alone(jobs, calls, "sandbox", sandbox.off) /\ OneTable
  BY DEF PagesInv
<1>3. /\ started' \in Nat /\ jobs' \subseteq PageJobs /\ (\A j \in jobs' : j.n <= started')
      /\ RowsAreOwn' /\ Alone(jobs', calls', "sandbox", sandbox.off)
      /\ Alone(jobs', calls', "memory", memory.active)
  <2>1. {} \in SUBSET Owners /\ calls' = calls /\ "network" \in PageKinds
        /\ NoTarget \in Targets \cup {NoTarget}
    BY DEF PageKinds
  <2>2. /\ started' \in Nat /\ jobs' \subseteq PageJobs /\ (\A j \in jobs' : j.n <= started')
        /\ RowsAreOwn'
    BY <1>1, <2>1, StartsJob
  <2>3. \A other \in PageKinds : \A busy : other # "network" /\ Alone(jobs, calls, other, busy)
                                          => Alone(jobs', calls', other, busy)
    BY <1>1, <2>1, StartsJob
  <2> QED BY <1>2, <2>2, <2>3 DEF PageKinds
<1>4. PagesTypes'
  BY <1>1, <1>2, <1>3 DEF PagesTypes, world
<1>5. OneTable'
  BY <1>2 DEF OneTable
<1>6. Alone(jobs, calls, "memory", memory.active)' /\ Alone(jobs, calls, "sandbox", sandbox.off)'
  BY <1>3
<1> QED BY <1>3, <1>4, <1>5, <1>6 DEF PagesInv

LEMMA SandboxBegins == PagesInv /\ OnDetonate => PagesInv'
<1> SUFFICES ASSUME PagesInv, OnDetonate PROVE PagesInv'
  OBVIOUS
<1>1. /\ ~sandbox.off /\ sandbox' = [sandbox EXCEPT !.off = TRUE, !.isolable = FALSE]
      /\ StartJob("sandbox", sandbox.target, {})
      /\ UNCHANGED <<page, question, owner, targets, calls, memory, network>>
  BY DEF OnDetonate, world
<1>2. PagesTypes /\ RowsAreOwn /\ Alone(jobs, calls, "memory", memory.active)
      /\ Alone(jobs, calls, "sandbox", sandbox.off) /\ OneTable
  BY DEF PagesInv
<1>3. sandbox.off = FALSE /\ sandbox.target \in Targets \cup {NoTarget}
      /\ sandbox'.off = TRUE
  BY <1>1, <1>2 DEF PagesTypes
<1>4. /\ started' \in Nat /\ jobs' \subseteq PageJobs /\ (\A j \in jobs' : j.n <= started')
      /\ RowsAreOwn' /\ Alone(jobs', calls', "sandbox", TRUE)
      /\ Alone(jobs', calls', "memory", memory.active)
  <2>1. {} \in SUBSET Owners /\ calls' = calls /\ "sandbox" \in PageKinds
    BY <1>1 DEF PageKinds
  <2>2. /\ started' \in Nat /\ jobs' \subseteq PageJobs /\ (\A j \in jobs' : j.n <= started')
        /\ RowsAreOwn' /\ (Alone(jobs, calls, "sandbox", FALSE) => Alone(jobs', calls', "sandbox", TRUE))
    BY <1>1, <1>3, <2>1, StartsJob
  <2>3. \A other \in PageKinds : \A busy : other # "sandbox" /\ Alone(jobs, calls, other, busy)
                                          => Alone(jobs', calls', other, busy)
    BY <1>1, <1>3, <2>1, StartsJob
  <2>4. Alone(jobs, calls, "sandbox", FALSE)
    BY <1>2, <1>3
  <2> QED BY <1>2, <2>2, <2>3, <2>4 DEF PageKinds
<1>5. PagesTypes'
  BY <1>1, <1>2, <1>4 DEF PagesTypes
<1>6. OneTable'
  BY <1>1, <1>2 DEF OneTable
<1>7. Alone(jobs, calls, "memory", memory.active)' /\ Alone(jobs, calls, "sandbox", sandbox.off)'
  BY <1>1, <1>3, <1>4
<1> QED BY <1>4, <1>5, <1>6, <1>7 DEF PagesInv
\* A thread that goes on.
LEMMA GoesOn ==
  ASSUME PagesInv, NEW j \in jobs, NEW x, j.at # "handler", x \in PageJobs, x.kind = j.kind,
         x.n = j.n, \A r \in x.found : r.scan = x.n, jobs' = (jobs \ {j}) \cup {x},
         UNCHANGED <<page, question, owner, targets, started, calls, memory, network, sandbox>>
  PROVE  PagesInv'
<1>1. PagesTypes /\ RowsAreOwn /\ Alone(jobs, calls, "memory", memory.active)
      /\ Alone(jobs, calls, "sandbox", sandbox.off) /\ OneTable
  BY DEF PagesInv
<1>2. PagesTypes'
  BY <1>1 DEF PagesTypes
<1>3. RowsAreOwn' /\ OneTable'
  BY <1>1 DEF RowsAreOwn, OneTable
<1>4. \A kind, busy : Alone(jobs, calls, kind, busy) => Alone(jobs', calls', kind, busy)
  BY AloneGoesOn
<1>5. Alone(jobs, calls, "memory", memory.active)' /\ Alone(jobs, calls, "sandbox", sandbox.off)'
  BY <1>1, <1>4
<1> QED BY <1>2, <1>3, <1>5 DEF PagesInv

\* A thread that has handed over its rows, and leaves or stays in its handler.
LEMMA HandsOver ==
  ASSUME PagesInv, NEW j \in jobs, NEW what \in {"rows", "malicious", "safe", "failed"},
         j.at # "handler", PostCall(j, what), what = "rows" <=> j.kind # "sandbox",
         \/ jobs' = jobs \ {j}
         \/ jobs' = (jobs \ {j}) \cup {[j EXCEPT !.at = "handler"]},
         UNCHANGED <<page, question, owner, targets, started, memory, network, sandbox>>
  PROVE  PagesInv'
<1> DEFINE c == [kind |-> j.kind, n |-> j.n, what |-> what, rows |-> j.found]
           x == [j EXCEPT !.at = "handler"]
<1>1. PagesTypes /\ RowsAreOwn /\ Alone(jobs, calls, "memory", memory.active)
      /\ Alone(jobs, calls, "sandbox", sandbox.off) /\ OneTable
  BY DEF PagesInv
<1>2. j \in PageJobs /\ calls \in Seq(PageCalls)
  BY <1>1 DEF PagesTypes
<1>3. c \in PageCalls /\ c.kind = j.kind /\ c.n = j.n /\ c.rows = j.found /\ calls' = Append(calls, c)
  BY <1>2 DEF PageCalls, PageJobs, PostCall, PageKinds
<1>4. x \in PageJobs /\ x.n = j.n /\ x.found = j.found /\ x.at = "handler"
  BY <1>2 DEF PageJobs
<1> HIDE DEF c, x
<1>5. jobs' = jobs \ {j} \/ jobs' = (jobs \ {j}) \cup {x}
  BY DEF x
<1>6. /\ Len(calls') = Len(calls) + 1 /\ Len(calls) \in Nat /\ calls'[Len(calls) + 1] = c
      /\ (\A i \in 1..Len(calls) : calls'[i] = calls[i]) /\ calls' \in Seq(PageCalls)
  BY <1>2, <1>3, AppendProperties, LenProperties
<1>7. PagesTypes'
  BY <1>1, <1>4, <1>5, <1>6 DEF PagesTypes
<1>8. \A r \in c.rows : r.scan = c.n
  BY <1>1, <1>3 DEF RowsAreOwn
<1>9. RowsAreOwn'
  <2>1. \A k \in jobs' : \A r \in k.found : r.scan = k.n
    BY <1>1, <1>4, <1>5 DEF RowsAreOwn
  <2>2. ASSUME NEW i \in 1..Len(calls') PROVE \A r \in calls'[i].rows : r.scan = calls'[i].n
    <3>1. CASE i = Len(calls) + 1
      BY <1>6, <1>8, <3>1
    <3>2. CASE i # Len(calls) + 1
      <4>1. i \in 1..Len(calls)
        BY <1>6, <3>2
      <4> QED BY <1>1, <1>6, <4>1 DEF RowsAreOwn
    <3> QED BY <3>1, <3>2
  <2> QED BY <2>1, <2>2 DEF RowsAreOwn
<1>10. \A kind : Working(jobs', kind) = Working(jobs, kind) \ {j}
  BY <1>4, <1>5 DEF Working
<1>11. \A kind, busy : Alone(jobs, calls, kind, busy) => Alone(jobs', calls', kind, busy)
  BY <1>2, <1>3, <1>10, AlonePosts
<1>12. Alone(jobs, calls, "memory", memory.active)' /\ Alone(jobs, calls, "sandbox", sandbox.off)'
  BY <1>1, <1>11
<1>13. OneTable'
  BY <1>1 DEF OneTable
<1> QED BY <1>7, <1>9, <1>12, <1>13 DEF PagesInv

\* Each step of a page's thread keeps the invariant.
LEMMA JobSteps == ASSUME PagesInv, NEW j \in jobs, JobStep(j) PROVE PagesInv'
<1>1. j \in PageJobs /\ (\A r \in j.found : r.scan = j.n)
      /\ owner \in [Owners -> [now : Nat, born : Nat]]
  BY DEF PagesInv, PagesTypes, RowsAreOwn
<1>2. \A o \in Owners : RowOf(j, o) \in PageRows /\ RowOf(j, o).scan = j.n
  BY <1>1 DEF RowOf, PageRows, PageJobs
<1>3. ASSUME NEW o \in Owners, LookAtProcess(j, o) PROVE PagesInv'
  <2>1. PICK threats \in SUBSET (IF owner[o].now = 0 THEN {} ELSE {RowOf(j, o)}) :
          jobs' = (jobs \ {j}) \cup {[j EXCEPT !.todo = j.todo \ {o}, !.found = j.found \cup threats]}
    BY <1>3 DEF LookAtProcess
  <2> DEFINE found == j.found \cup threats
             x == [j EXCEPT !.todo = j.todo \ {o}, !.found = found]
  <2>2. threats \subseteq {RowOf(j, o)}
    BY <2>1
  <2>3. found \in SUBSET PageRows /\ \A r \in found : r.scan = j.n
    BY <1>1, <1>2, <2>2 DEF PageJobs
  <2>4. j.at = "runs" /\ UNCHANGED <<page, question, owner, targets, started, calls, memory, network, sandbox>>
    BY <1>3 DEF LookAtProcess, world
  <2>5. jobs' = (jobs \ {j}) \cup {x}
    BY <2>1
  <2> HIDE DEF found
  <2>6. x \in PageJobs /\ x.kind = j.kind /\ x.n = j.n /\ x.found = found
    BY <1>1, <2>3 DEF PageJobs
  <2> HIDE DEF x
  <2> QED BY <2>3, <2>4, <2>5, <2>6, GoesOn
<1>4. CASE ListSockets(j)
  <2>1. PICK read \in {{}, {RowOf(j, o) : o \in {y \in Owners : owner[y].now # 0}}} :
          jobs' = (jobs \ {j}) \cup {[j EXCEPT !.at = "listed", !.found = read]}
    BY <1>4 DEF ListSockets
  <2> DEFINE x == [j EXCEPT !.at = "listed", !.found = read]
  <2>2. read \in SUBSET PageRows /\ \A r \in read : r.scan = j.n
    BY <1>2
  <2>3. j.at = "runs" /\ UNCHANGED <<page, question, owner, targets, started, calls, memory, network, sandbox>>
    BY <1>4 DEF ListSockets, world
  <2>4. x \in PageJobs /\ x.kind = j.kind /\ x.n = j.n /\ x.found = read
    BY <1>1, <2>2 DEF PageJobs
  <2>5. jobs' = (jobs \ {j}) \cup {x}
    BY <2>1
  <2> HIDE DEF x
  <2> QED BY <2>2, <2>3, <2>4, <2>5, GoesOn
<1>5. CASE PostRows(j)
  BY <1>5, HandsOver DEF PostRows, world
<1>6. CASE PostReport(j)
  BY <1>6, HandsOver DEF PostReport, world
<1>7. CASE PostFailure(j)
  BY <1>7, HandsOver DEF PostFailure, world
<1>8. CASE LeaveHandler(j)
  <2>1. /\ jobs' = jobs \ {j}
        /\ UNCHANGED <<page, question, owner, targets, started, calls, memory, network, sandbox>>
    BY <1>8 DEF LeaveHandler, world
  <2>2. PagesTypes' /\ RowsAreOwn' /\ OneTable'
    BY <2>1 DEF PagesInv, PagesTypes, RowsAreOwn, OneTable
  <2>3. \A kind, busy : Alone(jobs, calls, kind, busy) => Alone(jobs', calls', kind, busy)
    BY <2>1, AloneLeaves
  <2>4. Alone(jobs, calls, "memory", memory.active)' /\ Alone(jobs, calls, "sandbox", sandbox.off)'
    BY <2>1, <2>3 DEF PagesInv
  <2> QED BY <2>2, <2>4 DEF PagesInv
<1> QED BY <1>3, <1>4, <1>5, <1>6, <1>7, <1>8 DEF JobStep
LEMMA HandlesCall == PagesInv /\ HandleCall => PagesInv'
<1> SUFFICES ASSUME PagesInv, HandleCall PROVE PagesInv'
  OBVIOUS
<1> DEFINE c == Head(calls)
<1>1. /\ calls # <<>> /\ calls' = Tail(calls)
      /\ UNCHANGED <<page, question, owner, targets, jobs, started>>
  BY DEF HandleCall, world
<1>2. PagesTypes /\ RowsAreOwn /\ Alone(jobs, calls, "memory", memory.active)
      /\ Alone(jobs, calls, "sandbox", sandbox.off) /\ OneTable
  BY DEF PagesInv
<1>3. /\ c \in PageCalls /\ calls \in Seq(PageCalls) /\ Len(calls) \in Nat /\ Len(calls) >= 1
      /\ c = calls[1] /\ calls' \in Seq(PageCalls) /\ Len(calls') = Len(calls) - 1
      /\ \A i \in 1..Len(calls') : calls'[i] = calls[i + 1]
  BY <1>1, <1>2, HeadTailProperties, EmptySeq, LenProperties, ElementOfSeq DEF PagesTypes
<1>4. /\ c.kind = "memory" =>
           memory' = [active |-> FALSE, table |-> memory.table \cup c.rows] /\ UNCHANGED <<network, sandbox>>
      /\ c.kind = "network" =>
           network' = [off |-> FALSE, table |-> c.rows] /\ UNCHANGED <<memory, sandbox>>
      /\ c.kind = "sandbox" =>
           /\ UNCHANGED <<memory, network>>
           /\ \E off, isolable \in BOOLEAN :
                sandbox' = [sandbox EXCEPT !.off = off, !.isolable = isolable]
  <2>1. CASE c.kind = "memory"
    <3>1. memory' = [active |-> FALSE, table |-> memory.table \cup c.rows] /\ UNCHANGED <<network, sandbox>>
      <4>1. OnMemoryScanFinished
        BY <1>3, <2>1 DEF HandleCall, PageCalls
      <4> QED BY <4>1 DEF OnMemoryScanFinished
    <3> HIDE DEF c
    <3> QED BY <2>1, <3>1
  <2>2. CASE c.kind = "network"
    <3>1. network' = [off |-> FALSE, table |-> c.rows] /\ UNCHANGED <<memory, sandbox>>
      <4>1. OnNetworkScanFinished
        BY <1>3, <2>2 DEF HandleCall, PageCalls
      <4> QED BY <4>1 DEF OnNetworkScanFinished
    <3> HIDE DEF c
    <3> QED BY <2>2, <3>1
  <2>3. CASE c.kind = "sandbox" /\ c.what = "failed"
    <3> DEFINE off == sandbox.off /\ ~\E j \in jobs : j.n = c.n
    <3>1. UNCHANGED <<memory, network>> /\ sandbox' = [sandbox EXCEPT !.off = off]
      BY <2>3 DEF HandleCall, OnSandboxFailed
    <3>2. sandbox \in [off : BOOLEAN, target : Targets \cup {NoTarget}, isolable : BOOLEAN]
          /\ off \in BOOLEAN
      BY <1>2 DEF PagesTypes
    <3> HIDE DEF off
    <3>3. [sandbox EXCEPT !.off = off] = [sandbox EXCEPT !.off = off, !.isolable = sandbox.isolable]
          /\ sandbox.isolable \in BOOLEAN
      BY <3>2
    <3> QED BY <2>3, <3>1, <3>2, <3>3
  <2>4. CASE c.kind = "sandbox" /\ c.what # "failed"
    <3> DEFINE isolable == c.what = "malicious"
    <3>1. UNCHANGED <<memory, network>>
          /\ sandbox' = [sandbox EXCEPT !.off = FALSE, !.isolable = isolable]
      BY <2>4 DEF HandleCall, OnSandboxFinished
    <3>2. isolable \in BOOLEAN
      OBVIOUS
    <3> HIDE DEF isolable
    <3> QED BY <2>4, <3>1, <3>2
  <2> QED BY <1>3, <2>1, <2>2, <2>3, <2>4 DEF PageCalls, PageKinds
<1>5. c.kind \in PageKinds /\ c.rows \subseteq PageRows /\ \A r \in c.rows : r.scan = c.n
  <2>1. 1 \in 1..Len(calls) /\ c = calls[1]
    BY <1>3
  <2>2. \A r \in c.rows : r.scan = c.n
    BY <1>2, <2>1 DEF RowsAreOwn
  <2> HIDE DEF c
  <2>3. c.kind \in PageKinds /\ c.rows \subseteq PageRows
    BY <1>3 DEF PageCalls, PageKinds
  <2> QED BY <2>2, <2>3
<1>6. \A kind, busy, after : Alone(jobs, calls, kind, busy) /\ (c.kind = kind \/ after = busy)
                                => Alone(jobs', calls', kind, after)
  BY <1>1, <1>3, AloneHandles
<1> HIDE DEF c
<1>7. RowsAreOwn'
  <2>1. \A i \in 1..Len(calls') : i + 1 \in 1..Len(calls)
    BY <1>3
  <2> QED BY <1>1, <1>2, <1>3, <2>1 DEF RowsAreOwn
<1>8. PagesTypes'
  <2>1. /\ memory' \in [active : BOOLEAN, table : SUBSET PageRows]
        /\ network' \in [off : BOOLEAN, table : SUBSET PageRows]
        /\ sandbox' \in [off : BOOLEAN, target : Targets \cup {NoTarget}, isolable : BOOLEAN]
    <3>1. CASE c.kind = "memory"
      <4>1. memory.table \cup c.rows \in SUBSET PageRows
        BY <1>2, <1>5 DEF PagesTypes
      <4>2. memory' = [active |-> FALSE, table |-> memory.table \cup c.rows]
            /\ UNCHANGED <<network, sandbox>>
        BY <1>4, <3>1
      <4> QED BY <1>2, <4>1, <4>2 DEF PagesTypes
    <3>2. CASE c.kind = "network"
      <4>1. network' = [off |-> FALSE, table |-> c.rows] /\ UNCHANGED <<memory, sandbox>>
        BY <1>4, <3>2
      <4>2. c.rows \in SUBSET PageRows
        BY <1>5
      <4> QED BY <1>2, <4>1, <4>2 DEF PagesTypes
    <3>3. CASE c.kind = "sandbox"
      BY <1>2, <1>4, <3>3 DEF PagesTypes
    <3> QED BY <1>5, <3>1, <3>2, <3>3 DEF PageKinds
  <2> QED BY <1>1, <1>2, <1>3, <2>1 DEF PagesTypes
<1>9. OneTable' /\ Alone(jobs, calls, "memory", memory.active)'
  <2>1. CASE c.kind = "memory"
    <3>1. 1 \in HandedOver(calls, "memory")
      BY <1>3, <2>1 DEF HandedOver
    <3>2. memory.active
      BY <1>2, <3>1 DEF Alone
    <3>3. memory.table = {} /\ memory'.table = memory.table \cup c.rows /\ memory'.active = FALSE
      BY <1>2, <1>4, <2>1, <3>2 DEF OneTable
    <3>4. OneTable'
      BY <1>5, <3>3 DEF OneTable
    <3> QED BY <1>2, <1>6, <2>1, <3>3, <3>4
  <2>2. CASE c.kind # "memory"
    <3>1. memory' = memory
      BY <1>4, <1>5, <2>2 DEF PageKinds
    <3> QED BY <1>2, <1>6, <3>1 DEF OneTable
  <2> QED BY <2>1, <2>2
<1>10. Alone(jobs, calls, "sandbox", sandbox.off)'
  <2>1. c.kind = "sandbox" \/ sandbox'.off = sandbox.off
    BY <1>4, <1>5 DEF PageKinds
  <2> QED BY <1>2, <1>6, <2>1
<1> QED BY <1>7, <1>8, <1>9, <1>10 DEF PagesInv

\* The user and the rest of the machine.
LEMMA PagesUser ==
  ASSUME PagesInv,
         \/ LeavePage \/ SwitchTab \/ ClickScanMemory \/ ClickRefreshNetwork \/ AnswerKill
         \/ AnswerInVain \/ CloseSevered \/ ClickIsolate
         \/ \E r \in memory.table \cup network.table : ClickKill(r)
         \/ \E s \in Targets \cup {NoTarget} : NameTarget(s)
         \/ \E o \in Owners : Quits(o) \/ TakesPid(o)
         \/ \E s \in Targets : Removed(s)
  PROVE  PagesInv'
<1>1. PagesTypes /\ RowsAreOwn /\ Alone(jobs, calls, "memory", memory.active)
      /\ Alone(jobs, calls, "sandbox", sandbox.off) /\ OneTable
  BY DEF PagesInv
<1>2. CASE LeavePage
  BY <1>1, <1>2, PagesStay DEF LeavePage, world, PagesTypes
<1>3. CASE SwitchTab
  <2>1. CASE page = "memory" /\ memory.table = {} /\ OnScanMemory /\ UNCHANGED network
    BY <1>3, <2>1, MemoryBegins DEF SwitchTab
  <2>2. CASE page = "network" /\ OnRefreshNetwork /\ UNCHANGED memory
    BY <1>1, <1>3, <2>2, NetworkBegins DEF SwitchTab, PagesTypes
  <2>3. CASE UNCHANGED <<jobs, started, memory, network>>
    BY <1>1, <1>3, <2>3, PagesStay DEF SwitchTab, world, PagesTypes
  <2> QED BY <1>3, <2>1, <2>2, <2>3 DEF SwitchTab
<1>4. CASE ClickScanMemory
  BY <1>4, MemoryBegins DEF ClickScanMemory
<1>5. CASE ClickRefreshNetwork
  BY <1>1, <1>5, NetworkBegins DEF ClickRefreshNetwork, PagesTypes
<1>6. CASE AnswerKill
  <2>1. /\ question'.about \in {"none", "severed"}
        /\ owner' = [owner EXCEPT ![question.row.pid].now = 0]
        /\ UNCHANGED <<page, targets, jobs, started, calls, network, sandbox>>
        /\ memory' = memory \/ memory' = [memory EXCEPT !.table = memory.table \ {question.row}]
    BY <1>6 DEF AnswerKill, Ask, NoQuestion
  <2>2. memory'.active = memory.active /\ memory'.table \subseteq memory.table
        /\ memory' \in [active : BOOLEAN, table : SUBSET PageRows]
    BY <1>1, <2>1 DEF PagesTypes
  <2>3. /\ owner' \in [Owners -> [now : Nat, born : Nat]]
        /\ \A o \in Owners : owner'[o].now \in {0, owner'[o].born}
    <3> DEFINE p == question.row.pid
    <3>1. CASE p \in Owners
      <4>1. owner' = [owner EXCEPT ![p] = [owner[p] EXCEPT !.now = 0]]
            /\ owner[p] \in [now : Nat, born : Nat]
        BY <1>1, <2>1, <3>1 DEF PagesTypes
      <4> HIDE DEF p
      <4>2. \A o \in Owners : owner'[o] \in [now : Nat, born : Nat]
                             /\ (owner'[o] = owner[o] \/ owner'[o].now = 0)
        BY <1>1, <3>1, <4>1 DEF PagesTypes
      <4> QED BY <1>1, <4>1, <4>2 DEF PagesTypes
    <3>2. CASE p \notin Owners
      <4>1. owner' = owner
        BY <1>1, <2>1, <3>2 DEF PagesTypes
      <4> QED BY <1>1, <4>1 DEF PagesTypes
    <3> QED BY <3>1, <3>2
  <2>4. PagesTypes'
    BY <1>1, <2>1, <2>2, <2>3 DEF PagesTypes
  <2>5. RowsAreOwn' /\ OneTable'
    BY <1>1, <2>1, <2>2 DEF RowsAreOwn, OneTable
  <2>6. Alone(jobs, calls, "memory", memory.active)' /\ Alone(jobs, calls, "sandbox", sandbox.off)'
    BY <1>1, <2>1, <2>2
  <2> QED BY <2>4, <2>5, <2>6 DEF PagesInv
<1>7. CASE AnswerInVain
  BY <1>1, <1>7, PagesStay DEF AnswerInVain, NoQuestion, world, PagesTypes
<1>8. CASE CloseSevered
  BY <1>8, NetworkBegins DEF CloseSevered, NoQuestion
<1>9. CASE ClickIsolate \/ \E r \in memory.table \cup network.table : ClickKill(r)
  <2>1. /\ question'.about \in {"isolate", "kill"}
        /\ UNCHANGED <<page, owner, targets, jobs, started, calls, memory, network, sandbox>>
    BY <1>9 DEF ClickIsolate, ClickKill, Ask, world
  <2> QED BY <1>1, <2>1, PagesStay DEF PagesTypes
<1>10. ASSUME NEW s \in Targets \cup {NoTarget}, NameTarget(s) PROVE PagesInv'
  <2>1. /\ sandbox' = [sandbox EXCEPT !.target = s]
        /\ UNCHANGED <<page, question, owner, targets, jobs, started, calls, memory, network>>
    BY <1>10 DEF NameTarget, world
  <2>2. /\ sandbox' \in [off : BOOLEAN, target : Targets \cup {NoTarget}, isolable : BOOLEAN]
        /\ sandbox'.off = sandbox.off
    BY <1>1, <2>1 DEF PagesTypes
  <2> QED BY <1>1, <2>1, <2>2, PagesStay DEF PagesTypes
<1>11. ASSUME NEW o \in Owners, Quits(o) \/ TakesPid(o) PROVE PagesInv'
  <2>1. UNCHANGED <<page, question, targets, jobs, started, calls, memory, network, sandbox>>
    BY <1>11 DEF Quits, TakesPid
  <2>2. \/ owner' = [owner EXCEPT ![o].now = 0]
        \/ owner' = [owner EXCEPT ![o] = [now |-> owner[o].born + 1, born |-> owner[o].born + 1]]
    BY <1>11 DEF Quits, TakesPid
  <2>3. /\ owner' \in [Owners -> [now : Nat, born : Nat]]
        /\ \A p \in Owners : owner'[p].now \in {0, owner'[p].born}
    <3>1. CASE owner' = [owner EXCEPT ![o].now = 0]
      BY <1>1, <3>1 DEF PagesTypes
    <3>2. CASE owner' = [owner EXCEPT ![o] = [now |-> owner[o].born + 1, born |-> owner[o].born + 1]]
      BY <1>1, <3>2 DEF PagesTypes
    <3> QED BY <2>2, <3>1, <3>2
  <2> QED BY <1>1, <2>1, <2>3, PagesStay DEF PagesTypes
<1>12. ASSUME NEW s \in Targets, Removed(s) PROVE PagesInv'
  BY <1>1, <1>12, PagesStay DEF Removed, PagesTypes
<1> QED BY <1>2, <1>3, <1>4, <1>5, <1>6, <1>7, <1>8, <1>9, <1>10, <1>11, <1>12

\* Each step of the pages keeps the invariant.
LEMMA PagesInvNext == PagesInv /\ [PagesNext]_pageVars => PagesInv'
<1> SUFFICES ASSUME PagesInv, [PagesNext]_pageVars PROVE PagesInv'
  OBVIOUS
<1>1. CASE UNCHANGED pageVars
  BY <1>1, PagesStay DEF pageVars, PagesInv, PagesTypes
<1>2. CASE HandleCall
  BY <1>2, HandlesCall
<1>3. CASE OnDetonate
  BY <1>3, SandboxBegins
<1> QED BY <1>1, <1>2, <1>3, JobSteps, PagesUser DEF PagesNext

LEMMA PagesInvariant == PagesSpec => []PagesInv
BY PagesStart, PagesInvNext, PTL DEF PagesSpec

LEMMA PagesInvTypes == PagesInv => PagesOK
BY DEF PagesInv, PagesTypes, PagesOK

\* The state of the pages has its types, and no thread has a number that was not given.
THEOREM PagesTypeCorrect == PagesSpec => []PagesOK
BY PagesInvTypes, PagesInvariant, PTL

LEMMA PagesAlternate == PagesInv => OneAtATime
<1> SUFFICES ASSUME PagesInv,
                    NEW j \in jobs, NEW k \in jobs, j.kind = "sandbox", k.kind = "sandbox", j # k
             PROVE  "handler" \in {j.at, k.at}
  BY DEF PagesInv, OneTable, OneAtATime
<1> QED BY DEF PagesInv, Alone, Working

\* The table of the memory page is of one scan and empty while one is at work, and one
\* thread at a time has the sandbox, however the user leaves the pages and comes back.
THEOREM PagesTakeTurns == PagesSpec => []OneAtATime
BY PagesAlternate, PagesInvariant, PTL

-----------------------------------------------------------------------------
(* The rules.  The table of the parser exists and says what _Condition     *)
(* does, since each of its entries depends on what follows in the text; the *)
(* values of the grammar exist, since those of a phrase depend on those of *)
(* shorter ones.  By the length of a phrase the parser finds each          *)
(* expression with each of its values, and from the end of the text        *)
(* backwards what it reads is an expression of that value.                 *)


Outcomes == {"yes", "no", "raises"}

Calls(t) == {"not", "and", "or"} \X (1..(Len(t) + 1)) \X Truth
Does(p, t, said, c) ==
  CASE c[1] = "not" -> NotAt(p, t, c[2], said)
    [] c[1] = "and" -> AndFrom(p, t, c[2], c[3])
    [] c[1] = "or"  -> OrFrom(p, t, c[2], c[3])
IsParser(p, t, said) == p = [c \in Calls(t) |-> Does(p, t, said, c)]

LEMMA ParserIs ==
  ASSUME NEW t, NEW said
  PROVE  Parser(t, said) = CHOOSE p : IsParser(p, t, said)
BY DEF Parser, IsParser, Does, Calls

\* A result that was read from i on or later, of a text of n words.
Good(r, i, n) == Failing(r) \/ (r.val \in Truth /\ r.at \in i..(n + 1))

\* What a table says at one place: that it is right, and that another one says the same.
StepsAt(p, t, said, i) ==
  \A v \in Truth : /\ p[<<"not", i, v>>] = NotAt(p, t, i, said)
                   /\ p[<<"and", i, v>>] = AndFrom(p, t, i, v)
                   /\ p[<<"or", i, v>>] = OrFrom(p, t, i, v)
GoodAt(p, t, i) ==
  \A v \in Truth : /\ Good(p[<<"not", i, v>>], i + 1, Len(t))
                   /\ Good(p[<<"and", i, v>>], i, Len(t))
                   /\ Good(p[<<"or", i, v>>], i, Len(t))
SameAt(p, q, i) ==
  \A v \in Truth : /\ p[<<"not", i, v>>] = q[<<"not", i, v>>]
                   /\ p[<<"and", i, v>>] = q[<<"and", i, v>>]
                   /\ p[<<"or", i, v>>] = q[<<"or", i, v>>]

SameFrom(p, q, t, j) == \A k \in j..(Len(t) + 1) : GoodAt(p, t, k) /\ SameAt(p, q, k)

LEMMA TruthFacts ==
  /\ "no" \in Truth /\ "yes" \in Truth /\ "raises" \notin Truth
  /\ \A v \in Truth : Negated(v) \in Truth
  /\ \A v, w \in Truth : Both(v, w) \in Truth /\ Either(v, w) \in Truth
  /\ \A i, n : Failing(Raised) /\ Good(Raised, i, n)
  /\ \A v \in Truth : \A i : ~Failing(Parsed(v, i)) /\ Parsed(v, i).val = v /\ Parsed(v, i).at = i
<1>1. "no" \in Truth /\ "yes" \in Truth /\ "raises" \notin Truth
  BY DEF Truth
<1>2. \A v \in Truth : Negated(v) \in Truth
  BY DEF Truth, Negated
<1>3. \A v, w \in Truth : Both(v, w) \in Truth /\ Either(v, w) \in Truth
  BY DEF Truth, Both, Either
<1>4. \A i, n : Failing(Raised) /\ Good(Raised, i, n)
  BY DEF Failing, Raised, Good
<1>5. \A v \in Truth : \A i : ~Failing(Parsed(v, i)) /\ Parsed(v, i).val = v /\ Parsed(v, i).at = i
  BY DEF Truth, Failing, Parsed
<1> QED BY <1>1, <1>2, <1>3, <1>4, <1>5

\* What is read from the place j on depends on the table from there on, and is good.
LEMMA ReadsLater ==
  ASSUME NEW n \in Nat, NEW t, Len(t) = n, NEW p, NEW q, NEW j \in 1..(n + 1),
         SameFrom(p, q, t, j)
  PROVE  /\ ParseNot(q, j) = ParseNot(p, j) /\ Good(ParseNot(p, j), j + 1, n)
         /\ ParseAnd(q, j) = ParseAnd(p, j) /\ Good(ParseAnd(p, j), j + 1, n)
         /\ ParseOr(q, j) = ParseOr(p, j) /\ Good(ParseOr(p, j), j + 1, n)
<1>1. \A k \in j..(n + 1) : GoodAt(p, t, k) /\ SameAt(p, q, k)
  BY DEF SameFrom
<1>2. ParseNot(q, j) = ParseNot(p, j) /\ Good(ParseNot(p, j), j + 1, n)
  <2>1. GoodAt(p, t, j) /\ SameAt(p, q, j)
    BY <1>1
  <2> QED BY <2>1, TruthFacts DEF ParseNot, GoodAt, SameAt
<1>3. ParseAnd(q, j) = ParseAnd(p, j) /\ Good(ParseAnd(p, j), j + 1, n)
  <2> DEFINE r == ParseNot(p, j)
  <2>1. CASE Failing(r)
    <3>1. ParseAnd(q, j) = Raised /\ ParseAnd(p, j) = Raised
      BY <1>2, <2>1 DEF ParseAnd
    <3> QED BY <3>1, TruthFacts
  <2>2. CASE ~Failing(r)
    <3>1. r.val \in Truth /\ r.at \in (j + 1)..(n + 1)
      BY <1>2, <2>2 DEF Good
    <3>2. ParseAnd(q, j) = q[<<"and", r.at, r.val>>] /\ ParseAnd(p, j) = p[<<"and", r.at, r.val>>]
      BY <1>2, <2>2 DEF ParseAnd
    <3> HIDE DEF r
    <3>3. r.at \in j..(n + 1) /\ r.at >= j + 1 /\ r.at \in Nat
      BY <3>1
    <3>4. ParseAnd(q, j) = ParseAnd(p, j) /\ Good(ParseAnd(p, j), r.at, n)
      BY <1>1, <3>1, <3>2, <3>3 DEF GoodAt, SameAt
    <3> QED BY <3>3, <3>4 DEF Good
  <2> QED BY <2>1, <2>2
<1>4. ParseOr(q, j) = ParseOr(p, j) /\ Good(ParseOr(p, j), j + 1, n)
  <2> DEFINE r == ParseAnd(p, j)
  <2>1. CASE Failing(r)
    <3>1. ParseOr(q, j) = Raised /\ ParseOr(p, j) = Raised
      BY <1>3, <2>1 DEF ParseOr
    <3> QED BY <3>1, TruthFacts
  <2>2. CASE ~Failing(r)
    <3>1. r.val \in Truth /\ r.at \in (j + 1)..(n + 1)
      BY <1>3, <2>2 DEF Good
    <3>2. ParseOr(q, j) = q[<<"or", r.at, r.val>>] /\ ParseOr(p, j) = p[<<"or", r.at, r.val>>]
      BY <1>3, <2>2 DEF ParseOr
    <3> HIDE DEF r
    <3>3. r.at \in j..(n + 1) /\ r.at >= j + 1 /\ r.at \in Nat
      BY <3>1
    <3>4. ParseOr(q, j) = ParseOr(p, j) /\ Good(ParseOr(p, j), r.at, n)
      BY <1>1, <3>1, <3>2, <3>3 DEF GoodAt, SameAt
    <3> QED BY <3>3, <3>4 DEF Good
  <2> QED BY <2>1, <2>2
<1> QED BY <1>2, <1>3, <1>4

\* So what a call does at i depends on what the table says behind i.
LEMMA DoesLater ==
  ASSUME NEW n \in Nat, NEW t, t \in Seq(Range(t)), Len(t) = n,
         NEW said, \A w \in DOMAIN said : said[w] \in Outcomes,
         NEW p, NEW q, NEW i \in 1..(n + 1),
         SameFrom(p, q, t, i + 1),
         NEW v \in Truth
  PROVE  /\ NotAt(q, t, i, said) = NotAt(p, t, i, said) /\ Good(NotAt(p, t, i, said), i + 1, n)
         /\ AndFrom(q, t, i, v) = AndFrom(p, t, i, v) /\ Good(AndFrom(p, t, i, v), i, n)
         /\ OrFrom(q, t, i, v) = OrFrom(p, t, i, v) /\ Good(OrFrom(p, t, i, v), i, n)
<1>1. DOMAIN t = 1..n
  BY LenProperties
<1>2. CASE i \notin DOMAIN t
  <2>1. i = n + 1 /\ \A w : ~Reads(t, i, w)
    BY <1>1, <1>2 DEF Reads
  <2>2. NotAt(q, t, i, said) = Raised /\ NotAt(p, t, i, said) = Raised
    BY <1>2, <2>1 DEF NotAt, AtomAt
  <2>3. /\ AndFrom(q, t, i, v) = Parsed(v, i) /\ AndFrom(p, t, i, v) = Parsed(v, i)
        /\ OrFrom(q, t, i, v) = Parsed(v, i) /\ OrFrom(p, t, i, v) = Parsed(v, i)
    BY <2>1 DEF AndFrom, OrFrom
  <2>4. Good(Parsed(v, i), i, n)
    BY TruthFacts DEF Good
  <2> QED BY <2>2, <2>3, <2>4, TruthFacts
<1>3. CASE i \in DOMAIN t
  <2> DEFINE j == i + 1
  <2>1. j \in 1..(n + 1) /\ i \in 1..n
    BY <1>1, <1>3
  <2>2. /\ ParseNot(q, j) = ParseNot(p, j) /\ Good(ParseNot(p, j), j + 1, n)
        /\ ParseAnd(q, j) = ParseAnd(p, j) /\ Good(ParseAnd(p, j), j + 1, n)
        /\ ParseOr(q, j) = ParseOr(p, j) /\ Good(ParseOr(p, j), j + 1, n)
    <3>1. SameFrom(p, q, t, j)
      OBVIOUS
    <3> HIDE DEF j
    <3> QED BY <2>1, <3>1, ReadsLater
  <2>3. \A k \in j..(n + 1) : GoodAt(p, t, k) /\ SameAt(p, q, k)
    BY DEF SameFrom
  <2>4. \A k \in (j + 1)..(n + 1) :
          /\ k \in Nat /\ k \in (i + 1)..(n + 1) /\ k \in i..(n + 1) /\ k > i + 1
          /\ k \in 1..n => k + 1 \in (i + 1)..(n + 1)
    BY <2>1
  <2>5. \A r : Good(r, j + 1, n) => Good(r, i + 1, n) /\ Good(r, i, n)
    BY <2>4 DEF Good
  <2>6. \A r : \A w \in Truth : ~Failing(r) /\ Good(r, j + 1, n) => Good(Parsed(w, r.at), i + 1, n)
    BY <2>4, TruthFacts DEF Good
  <2>7. AtomAt(q, t, i, said) = AtomAt(p, t, i, said) /\ Good(AtomAt(p, t, i, said), i + 1, n)
    <3> DEFINE r == ParseOr(p, j)
    <3>1. AtomAt(q, t, i, said) = AtomAt(p, t, i, said)
      BY <2>2 DEF AtomAt
    <3>2. CASE Reads(t, i, "(") /\ ~Failing(r) /\ Reads(t, r.at, ")")
      <4>1. AtomAt(p, t, i, said) = Parsed(r.val, r.at + 1)
        BY <3>2 DEF AtomAt
      <4>2. r.val \in Truth /\ r.at \in (j + 1)..(n + 1) /\ r.at \in 1..n
        BY <1>1, <2>2, <3>2 DEF Good, Reads
      <4>3. r.at + 1 \in (i + 1)..(n + 1)
        <5> HIDE DEF r
        <5> QED BY <2>4, <4>2
      <4> QED BY <3>1, <4>1, <4>2, <4>3, TruthFacts DEF Good
    <3>3. CASE ~Reads(t, i, "(") /\ t[i] \in DOMAIN said /\ said[t[i]] # "raises"
      <4>1. AtomAt(p, t, i, said) = Parsed(said[t[i]], i + 1)
        BY <1>3, <3>3 DEF AtomAt
      <4>2. said[t[i]] \in Truth
        BY <3>3 DEF Outcomes, Truth
      <4>3. i + 1 \in (i + 1)..(n + 1)
        BY <2>1
      <4> QED BY <3>1, <4>1, <4>2, <4>3, TruthFacts DEF Good
    <3>4. CASE ~(Reads(t, i, "(") /\ ~Failing(r) /\ Reads(t, r.at, ")"))
               /\ ~(~Reads(t, i, "(") /\ t[i] \in DOMAIN said /\ said[t[i]] # "raises")
      <4>1. AtomAt(p, t, i, said) = Raised
        BY <3>4 DEF AtomAt
      <4> QED BY <3>1, <4>1, TruthFacts
    <3> QED BY <3>2, <3>3, <3>4
  <2>8. NotAt(q, t, i, said) = NotAt(p, t, i, said) /\ Good(NotAt(p, t, i, said), i + 1, n)
    <3> DEFINE r == ParseNot(p, j)
    <3>1. NotAt(q, t, i, said) = NotAt(p, t, i, said)
      BY <2>2, <2>7 DEF NotAt
    <3>2. CASE ~Reads(t, i, "not")
      <4>1. NotAt(p, t, i, said) = AtomAt(p, t, i, said)
        BY <3>2 DEF NotAt
      <4> QED BY <2>7, <3>1, <4>1
    <3>3. CASE Reads(t, i, "not") /\ Failing(r)
      <4>1. NotAt(p, t, i, said) = Raised
        BY <3>3 DEF NotAt
      <4> QED BY <3>1, <4>1, TruthFacts
    <3>4. CASE Reads(t, i, "not") /\ ~Failing(r)
      <4>1. NotAt(p, t, i, said) = Parsed(Negated(r.val), r.at)
        BY <3>4 DEF NotAt
      <4>2. Negated(r.val) \in Truth
        BY <2>2, <3>4, TruthFacts DEF Good
      <4> HIDE DEF r
      <4>3. Good(r, j + 1, n)
        BY <2>2 DEF r
      <4> QED BY <2>6, <3>1, <3>4, <4>1, <4>2, <4>3
    <3> QED BY <3>2, <3>3, <3>4
  <2>9. AndFrom(q, t, i, v) = AndFrom(p, t, i, v) /\ Good(AndFrom(p, t, i, v), i, n)
    <3> DEFINE r == ParseNot(p, j)
    <3>1. CASE ~Reads(t, i, "and")
      <4>1. AndFrom(q, t, i, v) = Parsed(v, i) /\ AndFrom(p, t, i, v) = Parsed(v, i)
        BY <3>1 DEF AndFrom
      <4>2. i \in i..(n + 1)
        BY <2>1
      <4> QED BY <4>1, <4>2, TruthFacts DEF Good
    <3>2. CASE Reads(t, i, "and") /\ Failing(r)
      <4>1. AndFrom(q, t, i, v) = Raised /\ AndFrom(p, t, i, v) = Raised
        BY <2>2, <3>2 DEF AndFrom
      <4> QED BY <4>1, TruthFacts
    <3>3. CASE Reads(t, i, "and") /\ ~Failing(r)
      <4> DEFINE w == Both(v, r.val)
      <4>1. AndFrom(q, t, i, v) = q[<<"and", r.at, w>>] /\ AndFrom(p, t, i, v) = p[<<"and", r.at, w>>]
        BY <2>2, <3>3 DEF AndFrom
      <4>2. w \in Truth /\ r.at \in (j + 1)..(n + 1)
        BY <2>2, <3>3, TruthFacts DEF Good
      <4> HIDE DEF r, w, j
      <4>3. r.at \in i..(n + 1) /\ r.at \in j..(n + 1) /\ r.at \in Nat
        BY <2>4, <4>2 DEF j
      <4>4. /\ q[<<"and", r.at, w>>] = p[<<"and", r.at, w>>]
            /\ Good(p[<<"and", r.at, w>>], r.at, n)
        BY <2>3, <2>4, <4>2, <4>3 DEF GoodAt, SameAt
      <4>5. Good(p[<<"and", r.at, w>>], i, n)
        BY <2>1, <4>4, <4>3 DEF Good
      <4> QED BY <4>1, <4>4, <4>5
    <3> QED BY <3>1, <3>2, <3>3
  <2>10. OrFrom(q, t, i, v) = OrFrom(p, t, i, v) /\ Good(OrFrom(p, t, i, v), i, n)
    <3> DEFINE r == ParseAnd(p, j)
    <3>1. CASE ~Reads(t, i, "or")
      <4>1. OrFrom(q, t, i, v) = Parsed(v, i) /\ OrFrom(p, t, i, v) = Parsed(v, i)
        BY <3>1 DEF OrFrom
      <4>2. i \in i..(n + 1)
        BY <2>1
      <4> QED BY <4>1, <4>2, TruthFacts DEF Good
    <3>2. CASE Reads(t, i, "or") /\ Failing(r)
      <4>1. OrFrom(q, t, i, v) = Raised /\ OrFrom(p, t, i, v) = Raised
        BY <2>2, <3>2 DEF OrFrom
      <4> QED BY <4>1, TruthFacts
    <3>3. CASE Reads(t, i, "or") /\ ~Failing(r)
      <4> DEFINE w == Either(v, r.val)
      <4>1. OrFrom(q, t, i, v) = q[<<"or", r.at, w>>] /\ OrFrom(p, t, i, v) = p[<<"or", r.at, w>>]
        BY <2>2, <3>3 DEF OrFrom
      <4>2. w \in Truth /\ r.at \in (j + 1)..(n + 1)
        BY <2>2, <3>3, TruthFacts DEF Good
      <4> HIDE DEF r, w, j
      <4>3. r.at \in i..(n + 1) /\ r.at \in j..(n + 1) /\ r.at \in Nat
        BY <2>4, <4>2 DEF j
      <4>4. /\ q[<<"or", r.at, w>>] = p[<<"or", r.at, w>>]
            /\ Good(p[<<"or", r.at, w>>], r.at, n)
        BY <2>3, <2>4, <4>2, <4>3 DEF GoodAt, SameAt
      <4>5. Good(p[<<"or", r.at, w>>], i, n)
        BY <2>1, <4>4, <4>3 DEF Good
      <4> QED BY <4>1, <4>4, <4>5
    <3> QED BY <3>1, <3>2, <3>3
  <2> QED BY <2>8, <2>9, <2>10
<1> QED BY <1>2, <1>3


\* A text of n words, and what its names say.
Readable(t, said) == t \in Seq(Range(t)) /\ \A w \in DOMAIN said : said[w] \in Outcomes

OkFrom(p, t, said, k) == \A i \in k..(Len(t) + 1) : StepsAt(p, t, said, i) /\ GoodAt(p, t, i)

LEMMA DoesIs ==
  ASSUME NEW t, NEW said, NEW p, NEW i, NEW v
  PROVE  /\ Does(p, t, said, <<"not", i, v>>) = NotAt(p, t, i, said)
         /\ Does(p, t, said, <<"and", i, v>>) = AndFrom(p, t, i, v)
         /\ Does(p, t, said, <<"or", i, v>>) = OrFrom(p, t, i, v)
BY DEF Does

LEMMA DoesSame ==
  ASSUME NEW t, NEW said, Readable(t, said), NEW p, NEW q, NEW i \in 1..(Len(t) + 1),
         SameFrom(p, q, t, i + 1), NEW v \in Truth
  PROVE  /\ NotAt(q, t, i, said) = NotAt(p, t, i, said) /\ Good(NotAt(p, t, i, said), i + 1, Len(t))
         /\ AndFrom(q, t, i, v) = AndFrom(p, t, i, v) /\ Good(AndFrom(p, t, i, v), i, Len(t))
         /\ OrFrom(q, t, i, v) = OrFrom(p, t, i, v) /\ Good(OrFrom(p, t, i, v), i, Len(t))
<1>1. /\ Len(t) \in Nat /\ t \in Seq(Range(t)) /\ \A w \in DOMAIN said : said[w] \in Outcomes
  BY DEF Readable
<1> QED BY <1>1, DoesLater

\* A table that is right behind k can be made right at k.
LEMMA ParserGrows ==
  ASSUME NEW t, NEW said, Readable(t, said), NEW k \in 1..(Len(t) + 1), NEW q,
         OkFrom(q, t, said, k + 1)
  PROVE  \E p : OkFrom(p, t, said, k)
<1> DEFINE n == Len(t)
           p == [c \in Calls(t) |-> IF c[2] > k THEN q[c] ELSE Does(q, t, said, c)]
<1>1. n \in Nat
  BY DEF Readable
<1>2. \A s \in {"not", "and", "or"} : \A i \in 1..(n + 1) : \A v \in Truth :
        p[<<s, i, v>>] = IF i > k THEN q[<<s, i, v>>] ELSE Does(q, t, said, <<s, i, v>>)
  BY DEF Calls
<1>3. \A i \in (k + 1)..(n + 1) : i \in 1..(n + 1) /\ i > k
  BY <1>1
<1>4. \A i \in (k + 1)..(n + 1) : GoodAt(q, t, i) /\ StepsAt(q, t, said, i)
  BY DEF OkFrom
<1> HIDE DEF p
<1>5. \A i \in (k + 1)..(n + 1) : SameAt(q, p, i)
  BY <1>2, <1>3 DEF SameAt
<1>6. ASSUME NEW i \in k..(n + 1) PROVE SameFrom(q, p, t, i + 1)
  <2>1. \A j \in (i + 1)..(n + 1) : j \in (k + 1)..(n + 1)
    BY <1>1
  <2> QED BY <1>4, <1>5, <2>1 DEF SameFrom
<1>7. ASSUME NEW i \in k..(n + 1) PROVE StepsAt(p, t, said, i) /\ GoodAt(p, t, i)
  <2>1. i \in 1..(n + 1)
    BY <1>1
  <2>2. ASSUME NEW v \in Truth
        PROVE  /\ NotAt(p, t, i, said) = NotAt(q, t, i, said)
               /\ AndFrom(p, t, i, v) = AndFrom(q, t, i, v)
               /\ OrFrom(p, t, i, v) = OrFrom(q, t, i, v)
               /\ Good(NotAt(q, t, i, said), i + 1, n) /\ Good(AndFrom(q, t, i, v), i, n)
               /\ Good(OrFrom(q, t, i, v), i, n)
    BY <1>6, <2>1, DoesSame
  <2>3. ASSUME NEW v \in Truth
        PROVE  /\ p[<<"not", i, v>>] = NotAt(q, t, i, said)
               /\ p[<<"and", i, v>>] = AndFrom(q, t, i, v)
               /\ p[<<"or", i, v>>] = OrFrom(q, t, i, v)
    <3>1. CASE i > k
      <4>1. i \in (k + 1)..(n + 1)
        BY <1>1, <3>1
      <4> QED BY <1>2, <1>4, <2>1, <3>1, <4>1 DEF StepsAt
    <3>2. CASE ~(i > k)
      BY <1>2, <2>1, <3>2, DoesIs
    <3> QED BY <3>1, <3>2
  <2> QED BY <2>2, <2>3 DEF StepsAt, GoodAt
<1> QED BY <1>7 DEF OkFrom

LEMMA ParserExists ==
  ASSUME NEW t, NEW said, Readable(t, said)
  PROVE  \E p : IsParser(p, t, said)
<1> DEFINE n == Len(t)
           Bad == {m \in 1..(n + 1) : ~\E p : OkFrom(p, t, said, n + 2 - m)}
<1>1. n \in Nat /\ n + 1 \in Nat
  BY DEF Readable
<1>2. ASSUME Bad # {} PROVE FALSE
  <2>1. PICK m \in Bad : \A k \in Bad : m <= k
    <3>1. Bad \in SUBSET (1..(n + 1))
      OBVIOUS
    <3> HIDE DEF Bad
    <3> QED BY <1>1, <1>2, <3>1, LeastOf
  <2>2. m \in 1..(n + 1) /\ (n + 2 - m) \in 1..(n + 1) /\ (n + 2 - m) + 1 = n + 2 - (m - 1)
    BY <1>1
  <2>3. \E q : OkFrom(q, t, said, (n + 2 - m) + 1)
    <3>1. CASE m = 1
      <4>1. \A i : i \notin ((n + 2 - m) + 1)..(n + 1)
        BY <1>1, <3>1
      <4> QED BY <4>1 DEF OkFrom
    <3>2. CASE m # 1
      <4>1. m - 1 \in 1..(n + 1) /\ ~(m <= m - 1)
        BY <2>2, <3>2
      <4>2. m - 1 \notin Bad
        BY <2>1, <4>1
      <4> QED BY <2>2, <4>1, <4>2
    <3> QED BY <3>1, <3>2
  <2>4. \E p : OkFrom(p, t, said, n + 2 - m)
    <3> DEFINE k == n + 2 - m
    <3>1. k \in 1..(n + 1) /\ \E q : OkFrom(q, t, said, k + 1)
      BY <2>2, <2>3
    <3> HIDE DEF k
    <3>2. \E p : OkFrom(p, t, said, k)
      BY <3>1, ParserGrows
    <3> QED BY <3>2 DEF k
  <2> QED BY <2>1, <2>4
<1>3. PICK p : OkFrom(p, t, said, 1)
  <2>1. n + 1 \notin Bad /\ n + 1 \in 1..(n + 1) /\ n + 2 - (n + 1) = 1
    BY <1>1, <1>2
  <2> QED BY <2>1
<1> DEFINE q == [c \in Calls(t) |-> p[c]]
<1>4. \A s \in {"not", "and", "or"} : \A i \in 1..(n + 1) : \A v \in Truth :
        q[<<s, i, v>>] = p[<<s, i, v>>]
  BY DEF Calls
<1>5. q = [c \in Calls(t) |-> q[c]]
  OBVIOUS
<1> HIDE DEF q
<1>6. \A i \in 1..(n + 1) : SameAt(p, q, i)
  BY <1>4 DEF SameAt
<1>7. ASSUME NEW i \in 1..(n + 1) PROVE SameFrom(p, q, t, i + 1)
  <2>1. \A j \in (i + 1)..(n + 1) : j \in 1..(n + 1)
    BY <1>1
  <2> QED BY <1>3, <1>6, <2>1 DEF SameFrom, OkFrom
<1>8. ASSUME NEW i \in 1..(n + 1), NEW v \in Truth
      PROVE  /\ q[<<"not", i, v>>] = Does(q, t, said, <<"not", i, v>>)
             /\ q[<<"and", i, v>>] = Does(q, t, said, <<"and", i, v>>)
             /\ q[<<"or", i, v>>] = Does(q, t, said, <<"or", i, v>>)
  <2>1. /\ NotAt(q, t, i, said) = NotAt(p, t, i, said)
        /\ AndFrom(q, t, i, v) = AndFrom(p, t, i, v)
        /\ OrFrom(q, t, i, v) = OrFrom(p, t, i, v)
    BY <1>7, DoesSame
  <2>2. StepsAt(p, t, said, i)
    BY <1>3 DEF OkFrom
  <2> QED BY <1>4, <2>1, <2>2, DoesIs DEF StepsAt
<1>9. ASSUME NEW c \in Calls(t) PROVE q[c] = Does(q, t, said, c)
  <2>1. PICK s \in {"not", "and", "or"}, i \in 1..(n + 1), v \in Truth : c = <<s, i, v>>
    BY DEF Calls
  <2> QED BY <1>8, <2>1
<1>10. q = [c \in Calls(t) |-> Does(q, t, said, c)]
  BY <1>5, <1>9
<1> QED BY <1>10 DEF IsParser

\* What the parser does at each place, and that what it gives is good.
LEMMA ParserDoes ==
  ASSUME NEW t, NEW said, Readable(t, said)
  PROVE  OkFrom(Parser(t, said), t, said, 1)
<1> DEFINE n == Len(t)
           p == Parser(t, said)
           Bad == {m \in 1..(n + 1) : ~GoodAt(p, t, n + 2 - m)}
<1>1. n \in Nat /\ n + 1 \in Nat
  BY DEF Readable
<1>2. p = [c \in Calls(t) |-> Does(p, t, said, c)]
  BY ParserExists, ParserIs DEF IsParser
<1>3. ASSUME NEW i \in 1..(n + 1) PROVE StepsAt(p, t, said, i)
  <2> HIDE DEF p
  <2>1. \A s \in {"not", "and", "or"} : \A v \in Truth :
          p[<<s, i, v>>] = Does(p, t, said, <<s, i, v>>)
    BY <1>2 DEF Calls
  <2> QED BY <2>1, DoesIs DEF StepsAt
<1> HIDE DEF p
<1>4. ASSUME Bad # {} PROVE FALSE
  <2>1. PICK m \in Bad : \A k \in Bad : m <= k
    <3>1. Bad \in SUBSET (1..(n + 1))
      OBVIOUS
    <3> HIDE DEF Bad
    <3> QED BY <1>1, <1>4, <3>1, LeastOf
  <2> DEFINE i == n + 2 - m
  <2>2. i \in 1..(n + 1)
    BY <1>1
  <2>3. ASSUME NEW k \in (i + 1)..(n + 1) PROVE GoodAt(p, t, k)
    <3>1. (n + 2 - k) \in 1..(n + 1) /\ ~(m <= n + 2 - k) /\ n + 2 - (n + 2 - k) = k
      BY <1>1
    <3>2. (n + 2 - k) \notin Bad
      BY <2>1, <3>1
    <3> QED BY <3>1, <3>2
  <2>4. SameFrom(p, p, t, i + 1)
    BY <2>3 DEF SameFrom, SameAt
  <2>5. \A v \in Truth : /\ Good(NotAt(p, t, i, said), i + 1, n) /\ Good(AndFrom(p, t, i, v), i, n)
                         /\ Good(OrFrom(p, t, i, v), i, n)
    <3> HIDE DEF i
    <3> QED BY <2>2, <2>4, DoesSame
  <2>6. GoodAt(p, t, i)
    <3> HIDE DEF i
    <3> QED BY <1>3, <2>2, <2>5 DEF GoodAt, StepsAt
  <2> QED BY <2>1, <2>6
<1>5. \A i \in 1..(n + 1) : GoodAt(p, t, i)
  <2> TAKE i \in 1..(n + 1)
  <2> DEFINE m == n + 2 - i
  <2>1. m \in 1..(n + 1) /\ n + 2 - m = i
    BY <1>1
  <2> HIDE DEF m
  <2>2. m \notin Bad
    BY <1>4
  <2> QED BY <2>1, <2>2
<1> QED BY <1>3, <1>5 DEF OkFrom, p


Spans(t) == {x \in {"not", "and", "or"} \X (0..Len(t)) \X (1..(Len(t) + 1)) :
               x[2] + x[3] <= Len(t) + 1}
Gives(g, t, truth, x) ==
  CASE x[1] = "not" -> NotValues(g, t, truth, x[2], x[3])
    [] x[1] = "and" -> AndValues(g, t, truth, x[2], x[3])
    [] x[1] = "or"  -> OrValues(g, t, truth, x[2], x[3])
IsGrammar(g, t, truth) == g = [x \in Spans(t) |-> Gives(g, t, truth, x)]
Grammar(t, truth) == CHOOSE g : IsGrammar(g, t, truth)

LEMMA ValuesAre ==
  ASSUME NEW t, NEW truth
  PROVE  Values(t, truth) = Grammar(t, truth)[<<"or", Len(t), 1>>]
BY DEF Values, Grammar, IsGrammar, Gives, Spans

GivesAt(g, t, truth, n, i) ==
  /\ g[<<"not", n, i>>] = NotValues(g, t, truth, n, i)
  /\ g[<<"and", n, i>>] = AndValues(g, t, truth, n, i)
  /\ g[<<"or", n, i>>] = OrValues(g, t, truth, n, i)
SameWords(g, h, n, i) ==
  /\ g[<<"not", n, i>>] = h[<<"not", n, i>>]
  /\ g[<<"and", n, i>>] = h[<<"and", n, i>>]
  /\ g[<<"or", n, i>>] = h[<<"or", n, i>>]
\* The same of all phrases of less than n words.
SameBelow(g, h, t, n) ==
  \A k \in 0..(n - 1) : \A i \in 1..(Len(t) + 1) : k + i <= Len(t) + 1 => SameWords(g, h, k, i)
GivesBelow(g, t, truth, n) ==
  \A k \in 0..(n - 1) : \A i \in 1..(Len(t) + 1) : k + i <= Len(t) + 1 => GivesAt(g, t, truth, k, i)

\* The values of n words depend on those of fewer words.
LEMMA GivesShorter ==
  ASSUME NEW t, NEW truth, Len(t) \in Nat, NEW g, NEW h, NEW n \in 0..Len(t), NEW i \in 1..(Len(t) + 1),
         n + i <= Len(t) + 1, SameBelow(g, h, t, n)
  PROVE  /\ NotValues(g, t, truth, n, i) = NotValues(h, t, truth, n, i)
         /\ AndValues(g, t, truth, n, i) = AndValues(h, t, truth, n, i)
         /\ OrValues(g, t, truth, n, i) = OrValues(h, t, truth, n, i)
<1>1. \A k \in 0..(n - 1) : \A j \in 1..(Len(t) + 1) : k + j <= Len(t) + 1 => SameWords(g, h, k, j)
  BY DEF SameBelow
<1>2. NotValues(g, t, truth, n, i) = NotValues(h, t, truth, n, i)
  <2>1. CASE n = 0
    BY <2>1 DEF NotValues
  <2>2. CASE n = 1
    <3>1. SameWords(g, h, n - 1, i + 1)
      BY <1>1, <2>2
    <3> QED BY <2>2, <3>1 DEF NotValues, AtomValues, SameWords
  <2>3. CASE n > 1
    <3>1. SameWords(g, h, n - 1, i + 1) /\ SameWords(g, h, n - 2, i + 1)
      BY <1>1, <2>3
    <3> QED BY <2>3, <3>1 DEF NotValues, AtomValues, SameWords
  <2> QED BY <2>1, <2>2, <2>3
<1>3. ASSUME NEW k \in 1..(n - 2)
      PROVE  SameWords(g, h, k, i) /\ SameWords(g, h, n - k - 1, i + k + 1)
  <2>1. /\ k \in 0..(n - 1) /\ k + i <= Len(t) + 1
        /\ n - k - 1 \in 0..(n - 1) /\ i + k + 1 \in 1..(Len(t) + 1)
        /\ (n - k - 1) + (i + k + 1) <= Len(t) + 1
    OBVIOUS
  <2> QED BY <1>1, <2>1
<1>4. AndValues(g, t, truth, n, i) = AndValues(h, t, truth, n, i)
  <2>1. Sides(g, t, n, i, "and", "not") = Sides(h, t, n, i, "and", "not")
    BY <1>3 DEF Sides, SameWords
  <2> QED BY <1>2, <2>1 DEF AndValues
<1>5. OrValues(g, t, truth, n, i) = OrValues(h, t, truth, n, i)
  <2>1. Sides(g, t, n, i, "or", "and") = Sides(h, t, n, i, "or", "and")
    BY <1>3 DEF Sides, SameWords
  <2> QED BY <1>4, <2>1 DEF OrValues
<1> QED BY <1>2, <1>4, <1>5

LEMMA GivesIs ==
  ASSUME NEW t, NEW truth, NEW g, NEW n, NEW i
  PROVE  /\ Gives(g, t, truth, <<"not", n, i>>) = NotValues(g, t, truth, n, i)
         /\ Gives(g, t, truth, <<"and", n, i>>) = AndValues(g, t, truth, n, i)
         /\ Gives(g, t, truth, <<"or", n, i>>) = OrValues(g, t, truth, n, i)
BY DEF Gives

\* A table that is right for less than m words can be made right for m words.
LEMMA GrammarGrows ==
  ASSUME NEW t, NEW truth, Len(t) \in Nat, NEW m \in 0..Len(t), NEW h, GivesBelow(h, t, truth, m)
  PROVE  \E g : GivesBelow(g, t, truth, m + 1)
<1> DEFINE N == Len(t)
           g == [x \in Spans(t) |-> IF x[2] < m THEN h[x] ELSE Gives(h, t, truth, x)]
<1>1. \A s \in {"not", "and", "or"} : \A k \in 0..N : \A i \in 1..(N + 1) : k + i <= N + 1 =>
        g[<<s, k, i>>] = IF k < m THEN h[<<s, k, i>>] ELSE Gives(h, t, truth, <<s, k, i>>)
  BY DEF Spans
<1> HIDE DEF g
<1>2. ASSUME NEW k \in 0..(m - 1), NEW i \in 1..(N + 1), k + i <= N + 1
      PROVE  SameWords(h, g, k, i) /\ GivesAt(h, t, truth, k, i)
  <2>1. k \in 0..N /\ k < m
    OBVIOUS
  <2>2. SameWords(h, g, k, i)
    BY <1>1, <1>2, <2>1 DEF SameWords
  <2>3. GivesAt(h, t, truth, k, i)
    BY <1>2 DEF GivesBelow
  <2> QED BY <2>2, <2>3
<1>3. ASSUME NEW k \in 0..m PROVE SameBelow(h, g, t, k)
  <2>1. \A l \in 0..(k - 1) : l \in 0..(m - 1)
    OBVIOUS
  <2> QED BY <1>2, <2>1 DEF SameBelow
<1>4. ASSUME NEW k \in 0..((m + 1) - 1), NEW i \in 1..(N + 1), k + i <= N + 1
      PROVE  GivesAt(g, t, truth, k, i)
  <2>1. k \in 0..m /\ k \in 0..N
    OBVIOUS
  <2>2. /\ NotValues(h, t, truth, k, i) = NotValues(g, t, truth, k, i)
        /\ AndValues(h, t, truth, k, i) = AndValues(g, t, truth, k, i)
        /\ OrValues(h, t, truth, k, i) = OrValues(g, t, truth, k, i)
    BY <1>3, <1>4, <2>1, GivesShorter
  <2>3. CASE k < m
    <3>1. k \in 0..(m - 1)
      BY <2>3
    <3> QED BY <1>2, <1>4, <2>2, <3>1 DEF SameWords, GivesAt
  <2>4. CASE ~(k < m)
    BY <1>1, <1>4, <2>1, <2>2, <2>4, GivesIs DEF GivesAt
  <2> QED BY <2>3, <2>4
<1> QED BY <1>4 DEF GivesBelow

LEMMA GrammarExists ==
  ASSUME NEW t, NEW truth, Len(t) \in Nat
  PROVE  IsGrammar(Grammar(t, truth), t, truth)
<1> DEFINE N == Len(t)
           Bad == {m \in 1..(N + 1) : ~\E g : GivesBelow(g, t, truth, m)}
<1>1. ASSUME Bad # {} PROVE FALSE
  <2>1. PICK m \in Bad : \A k \in Bad : m <= k
    <3>1. Bad \in SUBSET (1..(N + 1)) /\ N + 1 \in Nat
      OBVIOUS
    <3> HIDE DEF Bad
    <3> QED BY <1>1, <3>1, LeastOf
  <2> DEFINE l == m - 1
  <2>2. l \in 0..N /\ l + 1 = m
    OBVIOUS
  <2>3. \E h : GivesBelow(h, t, truth, l)
    <3>1. CASE l = 0
      <4>1. \A k : k \notin 0..(l - 1)
        BY <3>1
      <4> QED BY <4>1 DEF GivesBelow
    <3>2. CASE l # 0
      <4>1. l \in 1..(N + 1) /\ ~(m <= l)
        BY <2>2, <3>2
      <4> HIDE DEF l
      <4>2. l \notin Bad
        BY <2>1, <4>1
      <4> QED BY <4>1, <4>2
    <3> QED BY <3>1, <3>2
  <2> HIDE DEF l
  <2>4. \E g : GivesBelow(g, t, truth, l + 1)
    BY <2>2, <2>3, GrammarGrows
  <2> QED BY <2>1, <2>2, <2>4
<1>2. PICK h : GivesBelow(h, t, truth, N + 1)
  <2>1. N + 1 \notin Bad /\ N + 1 \in 1..(N + 1)
    BY <1>1
  <2> QED BY <2>1
<1> DEFINE g == [x \in Spans(t) |-> h[x]]
<1>3. \A s \in {"not", "and", "or"} : \A k \in 0..N : \A i \in 1..(N + 1) : k + i <= N + 1 =>
        g[<<s, k, i>>] = h[<<s, k, i>>]
  BY DEF Spans
<1>4. g = [x \in Spans(t) |-> g[x]]
  OBVIOUS
<1> HIDE DEF g
<1>5. ASSUME NEW k \in 0..N, NEW i \in 1..(N + 1), k + i <= N + 1
      PROVE  SameWords(h, g, k, i) /\ GivesAt(h, t, truth, k, i)
  <2>1. k \in 0..((N + 1) - 1)
    OBVIOUS
  <2> QED BY <1>2, <1>3, <1>5, <2>1 DEF SameWords, GivesBelow
<1>6. ASSUME NEW k \in 0..N, NEW i \in 1..(N + 1), k + i <= N + 1
      PROVE  GivesAt(g, t, truth, k, i)
  <2>1. SameBelow(h, g, t, k)
    <3>1. \A l \in 0..(k - 1) : l \in 0..N
      OBVIOUS
    <3> QED BY <1>5, <3>1 DEF SameBelow
  <2>2. /\ NotValues(h, t, truth, k, i) = NotValues(g, t, truth, k, i)
        /\ AndValues(h, t, truth, k, i) = AndValues(g, t, truth, k, i)
        /\ OrValues(h, t, truth, k, i) = OrValues(g, t, truth, k, i)
    BY <1>6, <2>1, GivesShorter
  <2> QED BY <1>5, <1>6, <2>2 DEF SameWords, GivesAt
<1>7. ASSUME NEW x \in Spans(t) PROVE g[x] = Gives(g, t, truth, x)
  <2>1. PICK s \in {"not", "and", "or"}, k \in 0..N, i \in 1..(N + 1) : x = <<s, k, i>> /\ k + i <= N + 1
    BY DEF Spans
  <2>2. GivesAt(g, t, truth, k, i)
    BY <1>6, <2>1
  <2>3. g[<<s, k, i>>] = Gives(g, t, truth, <<s, k, i>>)
    BY <2>2, GivesIs DEF GivesAt
  <2> QED BY <2>1, <2>3
<1>8. IsGrammar(g, t, truth)
  BY <1>4, <1>7 DEF IsGrammar
<1> QED BY <1>8 DEF Grammar

\* What the grammar gives to each phrase of a text.
LEMMA GrammarGives ==
  ASSUME NEW t, NEW truth, Len(t) \in Nat, NEW n \in 0..Len(t), NEW i \in 1..(Len(t) + 1),
         n + i <= Len(t) + 1
  PROVE  GivesAt(Grammar(t, truth), t, truth, n, i)
<1> DEFINE g == Grammar(t, truth)
<1>1. g = [x \in Spans(t) |-> Gives(g, t, truth, x)]
  BY GrammarExists DEF IsGrammar
<1> HIDE DEF g
<1>2. \A s \in {"not", "and", "or"} : g[<<s, n, i>>] = Gives(g, t, truth, <<s, n, i>>)
  BY <1>1 DEF Spans
<1> QED BY <1>2, GivesIs DEF GivesAt, g

\* All values are of Truth.
LEMMA GrammarTruth ==
  ASSUME NEW t, NEW truth, Len(t) \in Nat, \A w \in DOMAIN truth : truth[w] \in Truth,
         NEW n \in 0..Len(t), NEW i \in 1..(Len(t) + 1), n + i <= Len(t) + 1
  PROVE  \A s \in {"not", "and", "or"} : Grammar(t, truth)[<<s, n, i>>] \subseteq Truth
<1> DEFINE N == Len(t)
           g == Grammar(t, truth)
           Fits(m) == \A j \in 1..(N + 1) : m + j <= N + 1 =>
                        \A s \in {"not", "and", "or"} : g[<<s, m, j>>] \subseteq Truth
           Bad == {m \in 1..(N + 1) : ~Fits(m - 1)}
<1>1. ASSUME NEW m \in 0..N, \A k \in 0..(m - 1) : Fits(k) PROVE Fits(m)
  <2> SUFFICES ASSUME NEW j \in 1..(N + 1), m + j <= N + 1
               PROVE  \A s \in {"not", "and", "or"} : g[<<s, m, j>>] \subseteq Truth
    OBVIOUS
  <2>1. GivesAt(g, t, truth, m, j)
    BY GrammarGives
  <2>2. NotValues(g, t, truth, m, j) \subseteq Truth
    <3>1. CASE m = 0
      BY <3>1 DEF NotValues
    <3>2. CASE m # 0 /\ t[j] = "not"
      BY <3>2 DEF NotValues, Negated, Truth
    <3>3. CASE m # 0 /\ t[j] # "not"
      <4>1. NotValues(g, t, truth, m, j) = AtomValues(g, t, truth, m, j)
        BY <3>3 DEF NotValues
      <4>2. CASE m = 1
        BY <4>1, <4>2 DEF AtomValues
      <4>3. CASE m # 1
        <5>1. m - 2 \in 0..(m - 1) /\ j + 1 \in 1..(N + 1) /\ (m - 2) + (j + 1) <= N + 1
          BY <3>3, <4>3
        <5>2. g[<<"or", m - 2, j + 1>>] \subseteq Truth
          <6> HIDE DEF g
          <6> QED BY <1>1, <5>1
        <5> QED BY <4>1, <4>3, <5>2 DEF AtomValues
      <4> QED BY <4>2, <4>3
    <3> QED BY <3>1, <3>2, <3>3
  <2>3. AndValues(g, t, truth, m, j) \subseteq Truth
    <3>1. \A x \in Sides(g, t, m, j, "and", "not") : Both(x[1], x[2]) \in Truth
      BY TruthFacts DEF Sides
    <3> QED BY <2>2, <3>1 DEF AndValues
  <2>4. OrValues(g, t, truth, m, j) \subseteq Truth
    <3>1. \A x \in Sides(g, t, m, j, "or", "and") : Either(x[1], x[2]) \in Truth
      BY TruthFacts DEF Sides
    <3> QED BY <2>3, <3>1 DEF OrValues
  <2> QED BY <2>1, <2>2, <2>3, <2>4 DEF GivesAt
<1> HIDE DEF g, Fits
<1>2. ASSUME Bad # {} PROVE FALSE
  <2>1. PICK m \in Bad : \A k \in Bad : m <= k
    <3>1. Bad \in SUBSET (1..(N + 1)) /\ N + 1 \in Nat
      OBVIOUS
    <3> HIDE DEF Bad
    <3> QED BY <1>2, <3>1, LeastOf
  <2>2. ASSUME NEW k \in 0..((m - 1) - 1) PROVE Fits(k)
    <3> DEFINE l == k + 1
    <3>1. l \in 1..(N + 1) /\ ~(m <= l) /\ l - 1 = k
      OBVIOUS
    <3> HIDE DEF l
    <3>2. l \notin Bad
      BY <2>1, <3>1
    <3> QED BY <3>1, <3>2
  <2>3. m - 1 \in 0..N
    OBVIOUS
  <2>4. Fits(m - 1)
    BY <1>1, <2>2, <2>3
  <2> QED BY <2>1, <2>4
<1>3. Fits(n)
  <2> DEFINE l == n + 1
  <2>1. l \in 1..(N + 1) /\ l - 1 = n
    OBVIOUS
  <2> HIDE DEF l
  <2>2. l \notin Bad
    BY <1>2
  <2> QED BY <2>1, <2>2
<1> QED BY <1>3 DEF Fits, g


TruthAt(g, n, i) == \A s \in {"not", "and", "or"} : g[<<s, n, i>>] \subseteq Truth

\* A parser and a grammar of the same text and names.
Settled(p, g, t, said) ==
  /\ Readable(t, said) /\ OkFrom(p, t, said, 1)
  /\ \A n \in 0..Len(t) : \A i \in 1..(Len(t) + 1) : n + i <= Len(t) + 1 =>
       /\ GivesAt(g, t, TruthOf(said), n, i)
       /\ TruthAt(g, n, i)

LEMMA SettledText ==
  ASSUME NEW p, NEW g, NEW t, NEW said, Settled(p, g, t, said)
  PROVE  Len(t) \in Nat /\ DOMAIN t = 1..Len(t)
BY LenProperties DEF Settled, Readable

LEMMA SettledAt ==
  ASSUME NEW p, NEW g, NEW t, NEW said, Settled(p, g, t, said), NEW i \in 1..(Len(t) + 1)
  PROVE  /\ ParseNot(p, i) = NotAt(p, t, i, said)
         /\ \A v \in Truth : /\ p[<<"and", i, v>>] = AndFrom(p, t, i, v)
                             /\ p[<<"or", i, v>>] = OrFrom(p, t, i, v)
         /\ Good(ParseNot(p, i), i + 1, Len(t)) /\ Good(ParseAnd(p, i), i + 1, Len(t))
         /\ Good(ParseOr(p, i), i + 1, Len(t))
<1>1. StepsAt(p, t, said, i)
  BY DEF Settled, OkFrom
<1>2. Len(t) \in Nat
  BY SettledText
<1>3. SameFrom(p, p, t, i)
  <2>1. \A k \in i..(Len(t) + 1) : k \in 1..(Len(t) + 1)
    BY <1>2
  <2> QED BY <2>1 DEF Settled, OkFrom, SameFrom, SameAt
<1>4. /\ Good(ParseNot(p, i), i + 1, Len(t)) /\ Good(ParseAnd(p, i), i + 1, Len(t))
      /\ Good(ParseOr(p, i), i + 1, Len(t))
  BY <1>2, <1>3, ReadsLater
<1> QED BY <1>1, <1>4, TruthFacts DEF StepsAt, ParseNot

LEMMA SettledGives ==
  ASSUME NEW p, NEW g, NEW t, NEW said, Settled(p, g, t, said),
         NEW n \in Nat, NEW i \in 1..(Len(t) + 1), n + i <= Len(t) + 1
  PROVE  GivesAt(g, t, TruthOf(said), n, i) /\ TruthAt(g, n, i)
<1>1. n \in 0..Len(t)
  BY SettledText
<1> QED BY <1>1 DEF Settled

-----------------------------------------------------------------------------
(* The parser finds each expression.                                       *)

FindsNot(p, g, t, n, i) ==
  \A v \in g[<<"not", n, i>>] : ParseNot(p, i) = Parsed(v, i + n)
FindsAnd(p, g, t, n, i) ==
  \A v \in g[<<"and", n, i>>] : ParseAnd(p, i) = p[<<"and", i + n, v>>]
FindsOr(p, g, t, n, i) ==
  ~Reads(t, i + n, "and") => \A v \in g[<<"or", n, i>>] : ParseOr(p, i) = p[<<"or", i + n, v>>]
Finds(p, g, t, n, i) == FindsNot(p, g, t, n, i) /\ FindsAnd(p, g, t, n, i) /\ FindsOr(p, g, t, n, i)
FindsBelow(p, g, t, n) ==
  \A k \in Nat : \A i \in 1..(Len(t) + 1) : k < n /\ k + i <= Len(t) + 1 => Finds(p, g, t, k, i)

LEMMA FindsNegation ==
  ASSUME NEW p, NEW g, NEW t, NEW said, Settled(p, g, t, said),
         NEW n \in Nat, NEW i \in 1..(Len(t) + 1), n + i <= Len(t) + 1, FindsBelow(p, g, t, n)
  PROVE  FindsNot(p, g, t, n, i)
<1> SUFFICES ASSUME NEW v \in g[<<"not", n, i>>] PROVE ParseNot(p, i) = Parsed(v, i + n)
  BY DEF FindsNot
<1> DEFINE N == Len(t)
           truth == TruthOf(said)
<1>1. GivesAt(g, t, TruthOf(said), n, i) /\ TruthAt(g, n, i)
  BY SettledGives
<1>2. N \in Nat /\ DOMAIN t = 1..N
  BY SettledText
<1>3. v \in NotValues(g, t, truth, n, i) /\ ParseNot(p, i) = NotAt(p, t, i, said)
  <2>1. g[<<"not", n, i>>] = NotValues(g, t, truth, n, i)
    BY <1>1 DEF GivesAt
  <2>2. ParseNot(p, i) = NotAt(p, t, i, said)
    BY SettledAt
  <2> QED BY <2>1, <2>2
<1>4. n # 0 /\ i \in 1..N
  BY <1>2, <1>3 DEF NotValues
<1>5. CASE t[i] = "not"
  <2>1. PICK w \in g[<<"not", n - 1, i + 1>>] : v = Negated(w)
    BY <1>3, <1>4, <1>5 DEF NotValues
  <2>2. n - 1 \in Nat /\ i + 1 \in 1..(N + 1) /\ (n - 1) + (i + 1) <= N + 1 /\ n - 1 < n
        /\ (i + 1) + (n - 1) = i + n
    BY <1>2, <1>4
  <2>3. FindsNot(p, g, t, n - 1, i + 1) /\ w \in Truth
    BY <2>2, SettledGives DEF FindsBelow, Finds, TruthAt
  <2>4. ParseNot(p, i + 1) = Parsed(w, i + n)
    BY <2>2, <2>3 DEF FindsNot
  <2>5. Reads(t, i, "not")
    BY <1>2, <1>4, <1>5 DEF Reads
  <2> QED BY <1>3, <2>1, <2>3, <2>4, <2>5, TruthFacts DEF NotAt
<1>6. CASE t[i] # "not"
  <2>1. v \in AtomValues(g, t, truth, n, i) /\ ParseNot(p, i) = AtomAt(p, t, i, said)
    BY <1>3, <1>4, <1>6 DEF NotValues, NotAt, Reads
  <2>2. CASE n = 1
    <3>1. t[i] # "(" /\ t[i] \in DOMAIN truth /\ v = truth[t[i]]
      BY <2>1, <2>2 DEF AtomValues
    <3>2. t[i] \in DOMAIN said /\ said[t[i]] # "raises" /\ v = said[t[i]]
      BY <3>1 DEF TruthOf
    <3> QED BY <1>2, <1>4, <2>1, <2>2, <3>1, <3>2 DEF AtomAt, Reads
  <2>3. CASE n # 1
    <3>1. t[i] = "(" /\ t[i + n - 1] = ")" /\ v \in g[<<"or", n - 2, i + 1>>]
      BY <2>1, <2>3 DEF AtomValues
    <3> DEFINE m == n - 2
               j == i + 1
    <3>2. m \in Nat /\ j \in 1..(N + 1) /\ m + j <= N + 1 /\ m < n /\ j + m = i + n - 1
          /\ j + m \in 1..N /\ (j + m) + 1 = i + n
      BY <1>2, <1>4, <2>3
    <3>3. t[j + m] = ")" /\ v \in g[<<"or", m, j>>]
      BY <3>1, <3>2
    <3>4. ParseNot(p, i) = (LET r == ParseOr(p, j)
               IN  IF ~Failing(r) /\ Reads(t, r.at, ")") THEN Parsed(r.val, r.at + 1) ELSE Raised)
      BY <1>2, <1>4, <2>1, <3>1 DEF AtomAt, Reads
    <3> HIDE DEF m, j
    <3>5. FindsOr(p, g, t, m, j) /\ v \in Truth
      BY <3>2, <3>3, SettledGives DEF FindsBelow, Finds, TruthAt
    <3>6. ParseOr(p, j) = p[<<"or", j + m, v>>]
      BY <3>3, <3>5 DEF FindsOr, Reads
    <3>7. p[<<"or", j + m, v>>] = OrFrom(p, t, j + m, v)
      <4> DEFINE e == j + m
      <4>1. e \in 1..(N + 1)
        BY <1>2, <3>2
      <4> HIDE DEF e
      <4>2. \A w \in Truth : p[<<"or", e, w>>] = OrFrom(p, t, e, w)
        BY <4>1, SettledAt
      <4> QED BY <3>5, <4>2 DEF e
    <3>8. ParseOr(p, j) = Parsed(v, j + m)
      BY <3>3, <3>6, <3>7 DEF OrFrom, Reads
    <3>9. Reads(t, j + m, ")")
      BY <1>2, <3>2, <3>3 DEF Reads
    <3> QED BY <3>2, <3>5, <3>8, <3>9, <3>4, TruthFacts
  <2> QED BY <2>2, <2>3
<1> QED BY <1>5, <1>6

LEMMA FindsConjunction ==
  ASSUME NEW p, NEW g, NEW t, NEW said, Settled(p, g, t, said),
         NEW n \in Nat, NEW i \in 1..(Len(t) + 1), n + i <= Len(t) + 1, FindsBelow(p, g, t, n),
         FindsNot(p, g, t, n, i)
  PROVE  FindsAnd(p, g, t, n, i)
<1> SUFFICES ASSUME NEW v \in g[<<"and", n, i>>] PROVE ParseAnd(p, i) = p[<<"and", i + n, v>>]
  BY DEF FindsAnd
<1> DEFINE N == Len(t)
           truth == TruthOf(said)
<1>1. GivesAt(g, t, TruthOf(said), n, i) /\ TruthAt(g, n, i)
  BY SettledGives
<1>2. N \in Nat /\ DOMAIN t = 1..N
  BY SettledText
<1>3. /\ g[<<"and", n, i>>] = AndValues(g, t, truth, n, i)
      /\ g[<<"not", n, i>>] = NotValues(g, t, truth, n, i)
      /\ g[<<"and", n, i>>] \subseteq Truth
  BY <1>1 DEF GivesAt, TruthAt
<1>4. CASE v \in NotValues(g, t, truth, n, i)
  <2>1. v \in g[<<"not", n, i>>] /\ v \in Truth
    BY <1>3, <1>4
  <2>2. ParseNot(p, i) = Parsed(v, i + n)
    BY <2>1 DEF FindsNot
  <2> QED BY <2>1, <2>2, TruthFacts DEF ParseAnd
<1>5. CASE v \notin NotValues(g, t, truth, n, i)
  <2>1. PICK x \in Sides(g, t, n, i, "and", "not") : v = Both(x[1], x[2])
    BY <1>3, <1>5 DEF AndValues
  <2>2. PICK k \in 1..(n - 2) :
          /\ t[i + k] = "and" /\ x[1] \in g[<<"and", k, i>>]
          /\ x[2] \in g[<<"not", n - k - 1, i + k + 1>>]
    BY <2>1 DEF Sides
  <2> DEFINE m == n - k - 1
             j == i + k
  <2>3. /\ k \in Nat /\ k < n /\ k + i <= N + 1
        /\ m \in Nat /\ m < n /\ j + 1 \in 1..(N + 1) /\ m + (j + 1) <= N + 1
        /\ j \in 1..N /\ j \in 1..(N + 1) /\ (j + 1) + m = i + n
    BY <1>2
  <2>4. /\ t[j] = "and" /\ x[1] \in g[<<"and", k, i>>] /\ x[2] \in g[<<"not", m, j + 1>>]
        /\ j = i + k
    BY <2>2
  <2> HIDE DEF m, j
  <2>5. FindsAnd(p, g, t, k, i) /\ FindsNot(p, g, t, m, j + 1)
    BY <2>3 DEF FindsBelow, Finds
  <2>6. x[1] \in Truth /\ x[2] \in Truth
    BY <2>1 DEF Sides
  <2>7. ParseAnd(p, i) = p[<<"and", j, x[1]>>] /\ ParseNot(p, j + 1) = Parsed(x[2], i + n)
    BY <2>3, <2>4, <2>5 DEF FindsAnd, FindsNot
  <2>8. p[<<"and", j, x[1]>>] = AndFrom(p, t, j, x[1])
    <3>1. \A w \in Truth : p[<<"and", j, w>>] = AndFrom(p, t, j, w)
      BY <2>3, SettledAt
    <3> QED BY <2>6, <3>1
  <2>9. Reads(t, j, "and")
    BY <1>2, <2>3, <2>4 DEF Reads
  <2> QED BY <2>1, <2>6, <2>7, <2>8, <2>9, TruthFacts DEF AndFrom
<1> QED BY <1>4, <1>5

LEMMA FindsDisjunction ==
  ASSUME NEW p, NEW g, NEW t, NEW said, Settled(p, g, t, said),
         NEW n \in Nat, NEW i \in 1..(Len(t) + 1), n + i <= Len(t) + 1, FindsBelow(p, g, t, n),
         FindsAnd(p, g, t, n, i)
  PROVE  FindsOr(p, g, t, n, i)
<1> SUFFICES ASSUME ~Reads(t, i + n, "and"), NEW v \in g[<<"or", n, i>>]
             PROVE  ParseOr(p, i) = p[<<"or", i + n, v>>]
  BY DEF FindsOr
<1> DEFINE N == Len(t)
           truth == TruthOf(said)
           e == i + n
<1>1. GivesAt(g, t, TruthOf(said), n, i) /\ TruthAt(g, n, i)
  BY SettledGives
<1>2. N \in Nat /\ DOMAIN t = 1..N /\ e \in 1..(N + 1)
  BY SettledText
<1>3. ASSUME NEW w \in Truth PROVE p[<<"and", e, w>>] = Parsed(w, e)
  <2>1. p[<<"and", e, w>>] = AndFrom(p, t, e, w)
    <3> HIDE DEF e
    <3> QED BY <1>2, SettledAt
  <2> QED BY <2>1 DEF AndFrom
<1>4. /\ g[<<"or", n, i>>] = OrValues(g, t, truth, n, i)
      /\ g[<<"and", n, i>>] = AndValues(g, t, truth, n, i)
      /\ g[<<"or", n, i>>] \subseteq Truth
  BY <1>1 DEF GivesAt, TruthAt
<1>5. CASE v \in AndValues(g, t, truth, n, i)
  <2>1. v \in g[<<"and", n, i>>] /\ v \in Truth
    BY <1>4, <1>5
  <2>2. ParseAnd(p, i) = Parsed(v, e)
    BY <1>3, <2>1 DEF FindsAnd
  <2> QED BY <2>1, <2>2, TruthFacts DEF ParseOr
<1>6. CASE v \notin AndValues(g, t, truth, n, i)
  <2>1. PICK x \in Sides(g, t, n, i, "or", "and") : v = Either(x[1], x[2])
    BY <1>4, <1>6 DEF OrValues
  <2>2. PICK k \in 1..(n - 2) :
          /\ t[i + k] = "or" /\ x[1] \in g[<<"or", k, i>>]
          /\ x[2] \in g[<<"and", n - k - 1, i + k + 1>>]
    BY <2>1 DEF Sides
  <2> DEFINE m == n - k - 1
             j == i + k
  <2>3. /\ k \in Nat /\ k < n /\ k + i <= N + 1
        /\ m \in Nat /\ m < n /\ j + 1 \in 1..(N + 1) /\ m + (j + 1) <= N + 1
        /\ j \in 1..N /\ j \in 1..(N + 1) /\ (j + 1) + m = e
    BY <1>2
  <2>4. /\ t[j] = "or" /\ x[1] \in g[<<"or", k, i>>] /\ x[2] \in g[<<"and", m, j + 1>>]
        /\ j = i + k
    BY <2>2
  <2> HIDE DEF m, j, e
  <2>5. FindsOr(p, g, t, k, i) /\ FindsAnd(p, g, t, m, j + 1)
    BY <2>3 DEF FindsBelow, Finds
  <2>6. x[1] \in Truth /\ x[2] \in Truth
    BY <2>1 DEF Sides
  <2>7. ParseOr(p, i) = p[<<"or", j, x[1]>>]
    BY <2>4, <2>5 DEF FindsOr, Reads
  <2>8. ParseAnd(p, j + 1) = Parsed(x[2], e)
    BY <1>3, <2>3, <2>4, <2>5, <2>6 DEF FindsAnd
  <2>9. p[<<"or", j, x[1]>>] = OrFrom(p, t, j, x[1])
    <3>1. \A w \in Truth : p[<<"or", j, w>>] = OrFrom(p, t, j, w)
      BY <2>3, SettledAt
    <3> QED BY <2>6, <3>1
  <2>10. Reads(t, j, "or")
    BY <1>2, <2>3, <2>4 DEF Reads
  <2>11. ParseOr(p, i) = p[<<"or", e, v>>]
    BY <2>1, <2>6, <2>7, <2>8, <2>9, <2>10, TruthFacts DEF OrFrom
  <2> QED BY <2>11 DEF e
<1> QED BY <1>5, <1>6

\* A bound on the phrases of which nothing is known yet.
LEMMA FindsAll ==
  ASSUME NEW p, NEW g, NEW t, NEW said, Settled(p, g, t, said)
  PROVE  \A n \in Nat : \A i \in 1..(Len(t) + 1) : n + i <= Len(t) + 1 => Finds(p, g, t, n, i)
<1> DEFINE N == Len(t)
           Bad == {m \in 1..(N + 1) :
                     \E i \in 1..(N + 1) : (m - 1) + i <= N + 1 /\ ~Finds(p, g, t, m - 1, i)}
<1>1. N \in Nat /\ N + 1 \in Nat
  BY SettledText
<1>2. ASSUME NEW n \in Nat, NEW i \in 1..(N + 1), n + i <= N + 1, FindsBelow(p, g, t, n)
      PROVE  Finds(p, g, t, n, i)
  BY <1>2, FindsNegation, FindsConjunction, FindsDisjunction DEF Finds
<1>3. ASSUME Bad # {} PROVE FALSE
  <2>1. PICK m \in Bad : \A k \in Bad : m <= k
    <3>1. Bad \in SUBSET (1..(N + 1))
      OBVIOUS
    <3> HIDE DEF Bad
    <3> QED BY <1>1, <1>3, <3>1, LeastOf
  <2> DEFINE n == m - 1
  <2>2. n \in Nat /\ m = n + 1
    BY <1>1
  <2>3. ASSUME NEW k \in Nat, NEW i \in 1..(N + 1), k < n, k + i <= N + 1 PROVE Finds(p, g, t, k, i)
    <3> DEFINE l == k + 1
    <3>1. l \in 1..(N + 1) /\ ~(m <= l) /\ l - 1 = k
      BY <1>1, <2>2, <2>3
    <3> HIDE DEF l
    <3>2. l \notin Bad
      BY <2>1, <3>1
    <3> QED BY <2>3, <3>1, <3>2
  <2> HIDE DEF n
  <2>4. FindsBelow(p, g, t, n)
    BY <2>3 DEF FindsBelow
  <2>5. \A i \in 1..(N + 1) : n + i <= N + 1 => Finds(p, g, t, n, i)
    BY <1>2, <2>2, <2>4
  <2> QED BY <2>1, <2>5 DEF n
<1> SUFFICES ASSUME NEW n \in Nat, NEW i \in 1..(N + 1), n + i <= N + 1 PROVE Finds(p, g, t, n, i)
  OBVIOUS
<1> DEFINE m == n + 1
<1>4. m \in 1..(N + 1) /\ m - 1 = n
  BY <1>1
<1> HIDE DEF m
<1>5. m \notin Bad
  BY <1>3
<1> QED BY <1>4, <1>5


(* What the parser reads is an expression, of that value.                  *)

\* r, when it does not raise, is the value of the phrase from i to where r ends.
Meant(r, g, sort, i) == Failing(r) \/ r.val \in g[<<sort, r.at - i, i>>]
\* The loops continue a phrase that began before them.
LoopsMean(p, g, i) ==
  \A h \in 1..(i - 1) : /\ \A v \in g[<<"and", i - h, h>>] : Meant(p[<<"and", i, v>>], g, "and", h)
                        /\ \A v \in g[<<"or", i - h, h>>] : Meant(p[<<"or", i, v>>], g, "or", h)
MeansAt(p, g, i) == Meant(ParseNot(p, i), g, "not", i) /\ LoopsMean(p, g, i)
MeansFrom(p, g, t, i) == \A k \in i..(Len(t) + 1) : MeansAt(p, g, k)

LEMMA LoopMeans ==
  ASSUME NEW p, NEW g, NEW i, NEW h \in 1..(i - 1), LoopsMean(p, g, i)
  PROVE  /\ \A v \in g[<<"and", i - h, h>>] : Meant(p[<<"and", i, v>>], g, "and", h)
         /\ \A v \in g[<<"or", i - h, h>>] : Meant(p[<<"or", i, v>>], g, "or", h)
BY DEF LoopsMean

\* A phrase is one of the next sort also.
LEMMA SortsGrow ==
  ASSUME NEW p, NEW g, NEW t, NEW said, Settled(p, g, t, said),
         NEW n \in Nat, NEW i \in 1..(Len(t) + 1), n + i <= Len(t) + 1
  PROVE  /\ g[<<"not", n, i>>] \subseteq g[<<"and", n, i>>]
         /\ g[<<"and", n, i>>] \subseteq g[<<"or", n, i>>]
<1>1. GivesAt(g, t, TruthOf(said), n, i)
  BY SettledGives
<1> QED BY <1>1 DEF GivesAt, AndValues, OrValues

LEMMA ReadMeans ==
  ASSUME NEW p, NEW g, NEW t, NEW said, Settled(p, g, t, said),
         NEW i \in 1..(Len(t) + 1), MeansFrom(p, g, t, i)
  PROVE  Meant(ParseAnd(p, i), g, "and", i) /\ Meant(ParseOr(p, i), g, "or", i)
<1> DEFINE N == Len(t)
<1>1. N \in Nat
  BY SettledText
<1>2. Good(ParseNot(p, i), i + 1, N) /\ Good(ParseAnd(p, i), i + 1, N)
  BY SettledAt
<1>3. ASSUME NEW e \in (i + 1)..(N + 1)
      PROVE  /\ MeansAt(p, g, i) /\ LoopsMean(p, g, e) /\ i \in 1..(e - 1)
             /\ e - i \in Nat /\ (e - i) + i <= N + 1
  <2>1. i \in i..(N + 1) /\ e \in i..(N + 1)
    BY <1>1
  <2> QED BY <1>1, <2>1 DEF MeansFrom, MeansAt
<1>4. Meant(ParseAnd(p, i), g, "and", i)
  <2> DEFINE r == ParseNot(p, i)
  <2>1. CASE Failing(r)
    BY <2>1, TruthFacts DEF ParseAnd, Meant
  <2>2. CASE ~Failing(r)
    <3> DEFINE e == r.at
               v == r.val
    <3>1. e \in (i + 1)..(N + 1)
      BY <1>2, <2>2 DEF Good
    <3>2. Meant(r, g, "not", i)
      BY <1>3, <3>1 DEF MeansAt
    <3>3. v \in g[<<"not", e - i, i>>] /\ ParseAnd(p, i) = p[<<"and", e, v>>]
      BY <2>2, <3>2 DEF Meant, ParseAnd
    <3> HIDE DEF e, v, r
    <3> DEFINE n == e - i
    <3>4. n \in Nat /\ n + i <= N + 1 /\ LoopsMean(p, g, e) /\ i \in 1..(e - 1)
      BY <1>3, <3>1
    <3>5. v \in g[<<"and", n, i>>]
      <4>1. v \in g[<<"not", n, i>>]
        BY <3>3
      <4> HIDE DEF n
      <4>2. g[<<"not", n, i>>] \subseteq g[<<"and", n, i>>]
        BY <3>4, SortsGrow
      <4> QED BY <4>1, <4>2
    <3>6. \A w \in g[<<"and", e - i, i>>] : Meant(p[<<"and", e, w>>], g, "and", i)
      BY <3>4, LoopMeans
    <3> QED BY <3>3, <3>5, <3>6
  <2> QED BY <2>1, <2>2
<1>5. Meant(ParseOr(p, i), g, "or", i)
  <2> DEFINE r == ParseAnd(p, i)
  <2>1. CASE Failing(r)
    BY <2>1, TruthFacts DEF ParseOr, Meant
  <2>2. CASE ~Failing(r)
    <3> DEFINE e == r.at
               v == r.val
    <3>1. e \in (i + 1)..(N + 1)
      BY <1>2, <2>2 DEF Good
    <3>2. v \in g[<<"and", e - i, i>>] /\ ParseOr(p, i) = p[<<"or", e, v>>]
      BY <1>4, <2>2 DEF Meant, ParseOr
    <3> HIDE DEF e, v, r
    <3> DEFINE n == e - i
    <3>3. n \in Nat /\ n + i <= N + 1 /\ LoopsMean(p, g, e) /\ i \in 1..(e - 1)
      BY <1>3, <3>1
    <3>4. v \in g[<<"or", n, i>>]
      <4>1. v \in g[<<"and", n, i>>]
        BY <3>2
      <4> HIDE DEF n
      <4>2. g[<<"and", n, i>>] \subseteq g[<<"or", n, i>>]
        BY <3>3, SortsGrow
      <4> QED BY <4>1, <4>2
    <3>5. \A w \in g[<<"or", e - i, i>>] : Meant(p[<<"or", e, w>>], g, "or", i)
      BY <3>3, LoopMeans
    <3> QED BY <3>2, <3>4, <3>5
  <2> QED BY <2>1, <2>2
<1> QED BY <1>4, <1>5

LEMMA NotMeans ==
  ASSUME NEW p, NEW g, NEW t, NEW said, Settled(p, g, t, said),
         NEW i \in 1..(Len(t) + 1), MeansFrom(p, g, t, i + 1)
  PROVE  Meant(ParseNot(p, i), g, "not", i)
<1> DEFINE N == Len(t)
           truth == TruthOf(said)
           r == ParseNot(p, i)
<1>1. N \in Nat /\ DOMAIN t = 1..N
  BY SettledText
<1>2. r = NotAt(p, t, i, said) /\ Good(r, i + 1, N)
  BY SettledAt
<1> HIDE DEF r
<1> DEFINE n == r.at - i
<1> SUFFICES ASSUME ~Failing(r) PROVE r.val \in g[<<"not", n, i>>]
  BY DEF Meant, r
<1>3. n \in Nat /\ n # 0 /\ n + i <= N + 1 /\ i + n = r.at
  BY <1>1, <1>2 DEF Good
<1>4. g[<<"not", n, i>>] = NotValues(g, t, truth, n, i)
  <2> HIDE DEF n
  <2>1. GivesAt(g, t, TruthOf(said), n, i)
    BY <1>3, SettledGives
  <2> QED BY <2>1 DEF GivesAt
<1>5. i \in 1..N
  BY <1>1, <1>3
<1>6. i + 1 \in 1..(N + 1)
  BY <1>1, <1>5
<1>7. CASE Reads(t, i, "not")
  <2> DEFINE q == ParseNot(p, i + 1)
  <2>1. ~Failing(q) /\ r = Parsed(Negated(q.val), q.at)
    BY <1>2, <1>7, TruthFacts DEF NotAt
  <2>2. MeansAt(p, g, i + 1)
    BY <1>1, <1>6 DEF MeansFrom
  <2>3. q.val \in g[<<"not", q.at - (i + 1), i + 1>>]
    BY <2>1, <2>2 DEF MeansAt, Meant
  <2>4. q.at = r.at /\ r.val = Negated(q.val)
    BY <2>1 DEF Parsed
  <2>5. q.at - (i + 1) = n - 1
    <3>1. q.at = i + n
      BY <1>3, <2>4
    <3> HIDE DEF n, q
    <3> QED BY <1>3, <3>1
  <2>6. r.val \in {Negated(v) : v \in g[<<"not", n - 1, i + 1>>]}
    BY <2>3, <2>4, <2>5
  <2>7. t[i] = "not"
    BY <1>7 DEF Reads
  <2> HIDE DEF n
  <2> QED BY <1>3, <1>4, <2>6, <2>7 DEF NotValues
<1>8. CASE ~Reads(t, i, "not")
  <2>1. r = AtomAt(p, t, i, said) /\ t[i] # "not"
    BY <1>1, <1>2, <1>5, <1>8 DEF NotAt, Reads
  <2>2. g[<<"not", n, i>>] = AtomValues(g, t, truth, n, i)
    <3> HIDE DEF n
    <3> QED BY <1>3, <1>4, <2>1 DEF NotValues
  <2>3. CASE Reads(t, i, "(")
    <3> DEFINE q == ParseOr(p, i + 1)
    <3>1. ~Failing(q) /\ Reads(t, q.at, ")") /\ r = Parsed(q.val, q.at + 1)
      BY <2>1, <2>3, TruthFacts DEF AtomAt
    <3>2. q.val \in g[<<"or", q.at - (i + 1), i + 1>>] /\ Good(q, (i + 1) + 1, N)
      <4>1. Meant(q, g, "or", i + 1)
        BY <1>6, ReadMeans
      <4>2. Good(q, (i + 1) + 1, N)
        BY <1>6, SettledAt
      <4> QED BY <3>1, <4>1, <4>2 DEF Meant
    <3>3. r.val = q.val /\ r.at = q.at + 1 /\ q.at \in DOMAIN t /\ t[q.at] = ")"
      BY <3>1 DEF Parsed, Reads
    <3>4. q.at \in Nat
      BY <1>1, <3>3
    <3> HIDE DEF q
    <3>5. q.at - (i + 1) = n - 2 /\ q.at = i + n - 1 /\ n # 1
      <4>1. q.at >= i + 2
        BY <3>1, <3>2, <1>1 DEF Good
      <4> QED BY <3>3, <3>4, <4>1
    <3>6. r.val \in g[<<"or", n - 2, i + 1>>] /\ t[i + n - 1] = ")" /\ t[i] = "("
      BY <2>3, <3>2, <3>3, <3>5 DEF Reads
    <3> HIDE DEF n
    <3> QED BY <2>2, <3>5, <3>6 DEF AtomValues
  <2>4. CASE ~Reads(t, i, "(")
    <3>1. /\ t[i] \in DOMAIN said /\ said[t[i]] # "raises" /\ r = Parsed(said[t[i]], i + 1)
          /\ t[i] # "("
      BY <1>1, <1>5, <2>1, <2>4, TruthFacts DEF AtomAt, Reads
    <3>2. r.val = said[t[i]] /\ n = 1
      BY <3>1 DEF Parsed
    <3>3. t[i] \in DOMAIN truth /\ truth[t[i]] = said[t[i]]
      BY <3>1 DEF TruthOf
    <3> HIDE DEF n, truth
    <3> QED BY <2>2, <3>1, <3>2, <3>3 DEF AtomValues
  <2> QED BY <2>3, <2>4
<1> QED BY <1>7, <1>8

LEMMA LoopsContinue ==
  ASSUME NEW p, NEW g, NEW t, NEW said, Settled(p, g, t, said),
         NEW i \in 1..(Len(t) + 1), MeansFrom(p, g, t, i + 1)
  PROVE  LoopsMean(p, g, i)
<1> SUFFICES ASSUME NEW h \in 1..(i - 1)
             PROVE  /\ \A v \in g[<<"and", i - h, h>>] : Meant(p[<<"and", i, v>>], g, "and", h)
                    /\ \A v \in g[<<"or", i - h, h>>] : Meant(p[<<"or", i, v>>], g, "or", h)
  BY DEF LoopsMean
<1> DEFINE N == Len(t)
           truth == TruthOf(said)
           k == i - h
<1>1. N \in Nat /\ DOMAIN t = 1..N
  BY SettledText
<1>2. k \in Nat /\ k >= 1 /\ k + h <= N + 1 /\ h \in 1..(N + 1) /\ i = h + k
  BY <1>1
<1>3. g[<<"and", k, h>>] \subseteq Truth /\ g[<<"or", k, h>>] \subseteq Truth
  <2> HIDE DEF k
  <2>1. TruthAt(g, k, h)
    BY <1>2, SettledGives
  <2> QED BY <2>1 DEF TruthAt
<1>4. ASSUME NEW v \in Truth PROVE p[<<"and", i, v>>] = AndFrom(p, t, i, v) /\ p[<<"or", i, v>>] = OrFrom(p, t, i, v)
  BY SettledAt
<1>5. ASSUME i \in DOMAIN t PROVE i + 1 \in 1..(N + 1)
  BY <1>1, <1>5
<1>6. ASSUME NEW v \in g[<<"and", k, h>>] PROVE Meant(p[<<"and", i, v>>], g, "and", h)
  <2>1. v \in Truth /\ p[<<"and", i, v>>] = AndFrom(p, t, i, v)
    <3>1. v \in Truth
      BY <1>3
    <3> QED BY <1>4, <3>1
  <2> DEFINE r == ParseNot(p, i + 1)
  <2>2. CASE ~Reads(t, i, "and")
    <3>1. p[<<"and", i, v>>] = Parsed(v, i)
      BY <2>1, <2>2 DEF AndFrom
    <3> QED BY <2>1, <3>1, TruthFacts DEF Meant
  <2>3. CASE Reads(t, i, "and") /\ Failing(r)
    BY <2>1, <2>3, TruthFacts DEF AndFrom, Meant
  <2>4. CASE Reads(t, i, "and") /\ ~Failing(r)
    <3>1. i \in DOMAIN t /\ t[i] = "and"
      BY <2>4 DEF Reads
    <3>2. i + 1 \in 1..(N + 1)
      BY <1>5, <3>1
    <3>3. MeansAt(p, g, i + 1) /\ Good(r, (i + 1) + 1, N)
      <4>1. i + 1 \in (i + 1)..(N + 1)
        BY <1>1, <3>2
      <4>2. Good(r, (i + 1) + 1, N)
        BY <3>2, SettledAt
      <4> QED BY <4>1, <4>2 DEF MeansFrom
    <3> DEFINE e == r.at
               w == r.val
               n == e - h
    <3>4. w \in g[<<"not", e - (i + 1), i + 1>>] /\ w \in Truth /\ e \in (i + 2)..(N + 1)
      BY <2>4, <3>3 DEF MeansAt, Meant, Good
    <3>5. p[<<"and", i, v>>] = p[<<"and", e, Both(v, w)>>]
      BY <2>1, <2>4 DEF AndFrom
    <3> HIDE DEF e, w, r
    <3>6. /\ n \in Nat /\ n + h <= N + 1 /\ k \in 1..(n - 2) /\ e - (i + 1) = n - k - 1
          /\ i + 1 = h + k + 1 /\ e \in (i + 1)..(N + 1) /\ h \in 1..(e - 1) /\ n = e - h
      BY <1>1, <1>2, <3>4
    <3>7. /\ t[h + k] = "and" /\ v \in g[<<"and", k, h>>]
          /\ w \in g[<<"not", n - k - 1, h + k + 1>>]
      BY <1>2, <3>1, <3>4, <3>6
    <3> HIDE DEF k, n
    <3>8. <<v, w>> \in Sides(g, t, n, h, "and", "not")
      BY <2>1, <3>4, <3>6, <3>7 DEF Sides
    <3>9. Both(v, w) \in AndValues(g, t, truth, n, h)
      <4>1. Both(<<v, w>>[1], <<v, w>>[2]) \in AndValues(g, t, truth, n, h)
        BY <3>8 DEF AndValues
      <4> QED BY <4>1
    <3>10. GivesAt(g, t, truth, n, h)
      BY <1>2, <3>6, SettledGives
    <3>11. Both(v, w) \in g[<<"and", e - h, h>>]
      BY <3>6, <3>9, <3>10 DEF GivesAt
    <3>12. LoopsMean(p, g, e)
      BY <3>6 DEF MeansFrom, MeansAt
    <3>13. \A u \in g[<<"and", e - h, h>>] : Meant(p[<<"and", e, u>>], g, "and", h)
      BY <3>6, <3>12, LoopMeans
    <3> QED BY <3>5, <3>11, <3>13
  <2> QED BY <2>2, <2>3, <2>4
<1>7. ASSUME NEW v \in g[<<"or", k, h>>] PROVE Meant(p[<<"or", i, v>>], g, "or", h)
  <2>1. v \in Truth /\ p[<<"or", i, v>>] = OrFrom(p, t, i, v)
    <3>1. v \in Truth
      BY <1>3
    <3> QED BY <1>4, <3>1
  <2> DEFINE r == ParseAnd(p, i + 1)
  <2>2. CASE ~Reads(t, i, "or")
    <3>1. p[<<"or", i, v>>] = Parsed(v, i)
      BY <2>1, <2>2 DEF OrFrom
    <3> QED BY <2>1, <3>1, TruthFacts DEF Meant
  <2>3. CASE Reads(t, i, "or") /\ Failing(r)
    BY <2>1, <2>3, TruthFacts DEF OrFrom, Meant
  <2>4. CASE Reads(t, i, "or") /\ ~Failing(r)
    <3>1. i \in DOMAIN t /\ t[i] = "or"
      BY <2>4 DEF Reads
    <3>2. i + 1 \in 1..(N + 1)
      BY <1>5, <3>1
    <3>3. Meant(r, g, "and", i + 1) /\ Good(r, (i + 1) + 1, N)
      <4>1. Good(r, (i + 1) + 1, N)
        BY <3>2, SettledAt
      <4>2. Meant(r, g, "and", i + 1)
        BY <3>2, ReadMeans
      <4> QED BY <4>1, <4>2
    <3> DEFINE e == r.at
               w == r.val
               n == e - h
    <3>4. w \in g[<<"and", e - (i + 1), i + 1>>] /\ w \in Truth /\ e \in (i + 2)..(N + 1)
      BY <2>4, <3>3 DEF Meant, Good
    <3>5. p[<<"or", i, v>>] = p[<<"or", e, Either(v, w)>>]
      BY <2>1, <2>4 DEF OrFrom
    <3> HIDE DEF e, w, r
    <3>6. /\ n \in Nat /\ n + h <= N + 1 /\ k \in 1..(n - 2) /\ e - (i + 1) = n - k - 1
          /\ i + 1 = h + k + 1 /\ e \in (i + 1)..(N + 1) /\ h \in 1..(e - 1) /\ n = e - h
      BY <1>1, <1>2, <3>4
    <3>7. /\ t[h + k] = "or" /\ v \in g[<<"or", k, h>>]
          /\ w \in g[<<"and", n - k - 1, h + k + 1>>]
      BY <1>2, <3>1, <3>4, <3>6
    <3> HIDE DEF k, n
    <3>8. <<v, w>> \in Sides(g, t, n, h, "or", "and")
      BY <2>1, <3>4, <3>6, <3>7 DEF Sides
    <3>9. Either(v, w) \in OrValues(g, t, truth, n, h)
      <4>1. Either(<<v, w>>[1], <<v, w>>[2]) \in OrValues(g, t, truth, n, h)
        BY <3>8 DEF OrValues
      <4> QED BY <4>1
    <3>10. GivesAt(g, t, truth, n, h)
      BY <1>2, <3>6, SettledGives
    <3>11. Either(v, w) \in g[<<"or", e - h, h>>]
      BY <3>6, <3>9, <3>10 DEF GivesAt
    <3>12. LoopsMean(p, g, e)
      BY <3>6 DEF MeansFrom, MeansAt
    <3>13. \A u \in g[<<"or", e - h, h>>] : Meant(p[<<"or", e, u>>], g, "or", h)
      BY <3>6, <3>12, LoopMeans
    <3> QED BY <3>5, <3>11, <3>13
  <2> QED BY <2>2, <2>3, <2>4
<1> QED BY <1>6, <1>7

LEMMA MeansAll ==
  ASSUME NEW p, NEW g, NEW t, NEW said, Settled(p, g, t, said)
  PROVE  MeansFrom(p, g, t, 1)
<1> DEFINE N == Len(t)
           Bad == {m \in 1..(N + 1) : ~MeansAt(p, g, N + 2 - m)}
<1>1. N \in Nat /\ N + 1 \in Nat
  BY SettledText
<1>2. ASSUME NEW i \in 1..(N + 1), MeansFrom(p, g, t, i + 1) PROVE MeansAt(p, g, i)
  BY <1>2, NotMeans, LoopsContinue DEF MeansAt
<1>3. ASSUME Bad # {} PROVE FALSE
  <2>1. PICK m \in Bad : \A k \in Bad : m <= k
    <3>1. Bad \in SUBSET (1..(N + 1))
      OBVIOUS
    <3> HIDE DEF Bad
    <3> QED BY <1>1, <1>3, <3>1, LeastOf
  <2> DEFINE i == N + 2 - m
  <2>2. i \in 1..(N + 1)
    BY <1>1
  <2>3. ASSUME NEW k \in (i + 1)..(N + 1) PROVE MeansAt(p, g, k)
    <3> DEFINE l == N + 2 - k
    <3>1. l \in 1..(N + 1) /\ ~(m <= l) /\ N + 2 - l = k
      BY <1>1
    <3> HIDE DEF l
    <3>2. l \notin Bad
      BY <2>1, <3>1
    <3> QED BY <3>1, <3>2
  <2>4. MeansFrom(p, g, t, i + 1)
    BY <2>3 DEF MeansFrom
  <2>5. MeansAt(p, g, i)
    <3> HIDE DEF i
    <3> QED BY <1>2, <2>2, <2>4
  <2> QED BY <2>1, <2>5
<1>4. ASSUME NEW i \in 1..(N + 1) PROVE MeansAt(p, g, i)
  <2> DEFINE m == N + 2 - i
  <2>1. m \in 1..(N + 1) /\ N + 2 - m = i
    BY <1>1
  <2> HIDE DEF m
  <2>2. m \notin Bad
    BY <1>3
  <2> QED BY <2>1, <2>2
<1> QED BY <1>4 DEF MeansFrom


\* A condition is true exactly when it is an expression of which "yes" is a value.
LEMMA ParserMeans ==
  ASSUME NEW t, NEW said, Readable(t, said)
  PROVE  ParseOr(Parser(t, said), 1) = Parsed("yes", Len(t) + 1)
           <=> "yes" \in Values(t, TruthOf(said))
<1> DEFINE N == Len(t)
           truth == TruthOf(said)
           p == Parser(t, said)
           g == Grammar(t, truth)
<1>1. N \in Nat /\ 1 \in 1..(N + 1) /\ N + 1 <= N + 1
  BY DEF Readable
<1>2. Settled(p, g, t, said)
  <2>1. OkFrom(p, t, said, 1)
    BY ParserDoes
  <2>2. \A w \in DOMAIN truth : truth[w] \in Truth
    BY DEF TruthOf, Readable, Outcomes, Truth
  <2> HIDE DEF p, truth
  <2>3. ASSUME NEW n \in 0..N, NEW i \in 1..(N + 1), n + i <= N + 1
        PROVE  GivesAt(g, t, truth, n, i) /\ TruthAt(g, n, i)
    BY <1>1, <2>2, <2>3, GrammarGives, GrammarTruth DEF TruthAt
  <2> HIDE DEF g
  <2> QED BY <2>1, <2>3 DEF Settled, truth
<1>3. Values(t, truth) = g[<<"or", N, 1>>]
  BY ValuesAre
<1> HIDE DEF p, g
<1>4. DOMAIN t = 1..N
  BY <1>2, SettledText
<1>5. ASSUME ParseOr(p, 1) = Parsed("yes", N + 1) PROVE "yes" \in g[<<"or", N, 1>>]
  <2>1. MeansFrom(p, g, t, 1)
    BY <1>2, MeansAll
  <2>2. Meant(ParseOr(p, 1), g, "or", 1)
    BY <1>1, <1>2, <2>1, ReadMeans
  <2>3. "yes" \in g[<<"or", (N + 1) - 1, 1>>]
    BY <1>5, <2>2, TruthFacts DEF Meant
  <2>4. (N + 1) - 1 = N
    BY <1>1
  <2> QED BY <2>3, <2>4
<1>6. ASSUME "yes" \in g[<<"or", N, 1>>] PROVE ParseOr(p, 1) = Parsed("yes", N + 1)
  <2> DEFINE e == N + 1
  <2>1. e \in 1..(N + 1) /\ e \notin DOMAIN t /\ 1 + N = e
    BY <1>1, <1>4
  <2>2. FindsOr(p, g, t, N, 1)
    BY <1>1, <1>2, FindsAll DEF Finds
  <2> HIDE DEF e
  <2>3. ParseOr(p, 1) = p[<<"or", e, "yes">>]
    BY <1>6, <2>1, <2>2 DEF FindsOr, Reads
  <2>4. \A v \in Truth : p[<<"or", e, v>>] = OrFrom(p, t, e, v)
    BY <1>2, <2>1, SettledAt
  <2>5. p[<<"or", e, "yes">>] = Parsed("yes", e)
    BY <2>1, <2>4, TruthFacts DEF OrFrom, Reads
  <2> QED BY <2>3, <2>5 DEF e
<1> QED BY <1>3, <1>5, <1>6 DEF p

\* The tokens of a condition are a sequence.
FoundAt(f, words, n) ==
  f[n] = IF n = 0 THEN <<>>
         ELSE IF words[n] \in Junk THEN f[n - 1] ELSE Append(f[n - 1], words[n])
FoundTo(f, words, k) == \A n \in 0..k : FoundAt(f, words, n)
IsFound(f, words) ==
  f = [n \in 0..Len(words) |->
         IF n = 0 THEN <<>>
         ELSE IF words[n] \in Junk THEN f[n - 1] ELSE Append(f[n - 1], words[n])]

LEMMA FoundExists ==
  ASSUME NEW words, Len(words) \in Nat
  PROVE  \E f : IsFound(f, words)
<1> DEFINE N == Len(words)
           Bad == {m \in 1..(N + 1) : ~\E f : FoundTo(f, words, m - 1)}
<1>1. ASSUME Bad # {} PROVE FALSE
  <2>1. PICK m \in Bad : \A k \in Bad : m <= k
    <3>1. Bad \in SUBSET (1..(N + 1)) /\ N + 1 \in Nat
      OBVIOUS
    <3> HIDE DEF Bad
    <3> QED BY <1>1, <3>1, LeastOf
  <2>2. CASE m = 1
    <3> DEFINE f == [n \in {0} |-> <<>>]
    <3>1. FoundTo(f, words, 0)
      <4>1. 0..0 = {0} /\ f[0] = <<>>
        OBVIOUS
      <4> QED BY <4>1 DEF FoundTo, FoundAt
    <3> QED BY <2>1, <2>2, <3>1
  <2>3. CASE m # 1
    <3> DEFINE l == m - 1
    <3>1. l \in 1..(N + 1) /\ ~(m <= l) /\ l \in Nat \ {0}
      BY <2>3
    <3> HIDE DEF l
    <3>2. l \notin Bad
      BY <2>1, <3>1
    <3>3. PICK h : FoundTo(h, words, l - 1)
      BY <3>1, <3>2
    <3> DEFINE f == [n \in 0..l |-> IF n < l THEN h[n]
                       ELSE IF words[l] \in Junk THEN h[l - 1] ELSE Append(h[l - 1], words[l])]
    <3>4. /\ \A n \in 0..(l - 1) : f[n] = h[n]
          /\ f[l] = IF words[l] \in Junk THEN h[l - 1] ELSE Append(h[l - 1], words[l])
      BY <3>1
    <3> HIDE DEF f
    <3>5. ASSUME NEW n \in 0..l PROVE FoundAt(f, words, n)
      <4>1. CASE n = l
        <5>1. l - 1 \in 0..(l - 1)
          BY <3>1
        <5> QED BY <3>1, <3>4, <4>1, <5>1 DEF FoundAt
      <4>2. CASE n # l
        <5>1. n \in 0..(l - 1) /\ (n # 0 => n - 1 \in 0..(l - 1))
          BY <3>1, <4>2
        <5>2. FoundAt(h, words, n)
          BY <3>3, <5>1 DEF FoundTo
        <5> QED BY <3>4, <5>1, <5>2 DEF FoundAt
      <4> QED BY <4>1, <4>2
    <3>6. FoundTo(f, words, l)
      BY <3>5 DEF FoundTo
    <3> QED BY <2>1, <3>6 DEF l
  <2> QED BY <2>2, <2>3
<1>2. PICK h : FoundTo(h, words, N)
  <2> DEFINE m == N + 1
  <2>1. m \in 1..(N + 1) /\ m - 1 = N
    OBVIOUS
  <2> HIDE DEF m
  <2>2. m \notin Bad
    BY <1>1
  <2> QED BY <2>1, <2>2
<1> DEFINE f == [n \in 0..N |-> h[n]]
<1>3. \A n \in 0..N : f[n] = IF n = 0 THEN <<>>
         ELSE IF words[n] \in Junk THEN f[n - 1] ELSE Append(f[n - 1], words[n])
  <2> TAKE n \in 0..N
  <2>1. FoundAt(h, words, n) /\ (n # 0 => n - 1 \in 0..N)
    BY <1>2 DEF FoundTo
  <2> QED BY <2>1 DEF FoundAt
<1>4. f = [n \in 0..N |-> f[n]]
  OBVIOUS
<1> HIDE DEF f
<1> QED BY <1>3, <1>4 DEF IsFound

LEMMA TokensAre ==
  ASSUME NEW words, IsSequence(words)
  PROVE  IsSequence(Tokens(words))
<1> DEFINE N == Len(words)
           S == Range(words)
           F == CHOOSE f : IsFound(f, words)
<1>1. N \in Nat /\ DOMAIN words = 1..N /\ \A i \in 1..N : words[i] \in S
  BY LenProperties, RangeEquality DEF IsSequence
<1>2. CASE words = <<>>
  <2>1. Tokens(words) = <<"selection">> /\ <<"selection">> \in Seq({"selection"})
    BY <1>2 DEF Tokens
  <2> QED BY <2>1, SeqOfRange DEF IsSequence
<1>3. CASE words # <<>>
  <2>1. Tokens(words) = F[N]
    BY <1>3 DEF Tokens, IsFound
  <2>2. IsFound(F, words)
    BY <1>1, FoundExists
  <2> HIDE DEF F
  <2>3. \A n \in 0..N : FoundAt(F, words, n)
    <3>1. F = [n \in 0..N |-> IF n = 0 THEN <<>>
                 ELSE IF words[n] \in Junk THEN F[n - 1] ELSE Append(F[n - 1], words[n])]
      BY <2>2 DEF IsFound
    <3> QED BY <3>1 DEF FoundAt
  <2> DEFINE Bad == {m \in 1..(N + 1) : F[m - 1] \notin Seq(S)}
  <2>4. ASSUME Bad # {} PROVE FALSE
    <3>1. PICK m \in Bad : \A k \in Bad : m <= k
      <4>1. Bad \in SUBSET (1..(N + 1)) /\ N + 1 \in Nat
        BY <1>1
      <4> HIDE DEF Bad
      <4> QED BY <2>4, <4>1, LeastOf
    <3> DEFINE l == m - 1
    <3>2. l \in 0..N
      BY <1>1
    <3>3. FoundAt(F, words, l)
      BY <2>3, <3>2
    <3>4. CASE l = 0
      <4>1. F[l] = <<>> /\ <<>> \in Seq(S)
        BY <3>3, <3>4 DEF FoundAt
      <4> QED BY <3>1, <4>1
    <3>5. CASE l # 0
      <4>1. l \in 1..(N + 1) /\ ~(m <= l) /\ l \in 1..N
        BY <1>1, <3>2, <3>5
      <4>2. F[l - 1] \in Seq(S) /\ words[l] \in S
        <5> HIDE DEF l
        <5>1. l \notin Bad
          BY <3>1, <4>1
        <5> QED BY <1>1, <4>1, <5>1
      <4>3. F[l] = IF words[l] \in Junk THEN F[l - 1] ELSE Append(F[l - 1], words[l])
        BY <3>3, <3>5 DEF FoundAt
      <4> HIDE DEF l, S
      <4>4. Append(F[l - 1], words[l]) \in Seq(S)
        BY <4>2, AppendProperties
      <4>5. F[l] \in Seq(S)
        BY <4>2, <4>3, <4>4
      <4> QED BY <3>1, <4>5 DEF l
    <3> QED BY <3>4, <3>5
  <2>5. F[N] \in Seq(S)
    <3> DEFINE m == N + 1
    <3>1. m \in 1..(N + 1) /\ m - 1 = N
      BY <1>1
    <3> HIDE DEF m
    <3>2. m \notin Bad
      BY <2>4
    <3> QED BY <3>1, <3>2
  <2> QED BY <2>1, <2>5, SeqOfRange DEF IsSequence
<1> QED BY <1>2, <1>3

LEMMA ConditionIsExpression ==
  ASSUME NEW words, IsSequence(words), NEW said, \A w \in DOMAIN said : said[w] \in Outcomes
  PROVE  ConditionHolds(words, said) <=> "yes" \in Values(Tokens(words), TruthOf(said))
<1> DEFINE t == Tokens(words)
<1>1. Readable(t, said)
  BY TokensAre DEF Readable, IsSequence
<1> HIDE DEF t
<1>2. ParseOr(Parser(t, said), 1) = Parsed("yes", Len(t) + 1) <=> "yes" \in Values(t, TruthOf(said))
  BY <1>1, ParserMeans
<1> QED BY <1>2 DEF ConditionHolds, t

-----------------------------------------------------------------------------
RuleOK(d) ==
  /\ d.form = "rule" /\ IsSequence(d.condition)
  /\ \A name \in DOMAIN d.selections : IsSequence(d.selections[name].criteria)
FileOK(f) == IsSequence(f.docs) /\ \A d \in Range(f.docs) : d.form = "rule" => RuleOK(d)

LEMMA Outcome ==
  ASSUME NEW e, NEW d, RuleOK(d), NEW w \in DOMAIN Said(d, e)
  PROVE  Said(d, e)[w] \in Outcomes
<1> DEFINE sel == d.selections[w]
           out == [i \in DOMAIN sel.criteria |-> CriterionOutcome(sel.criteria[i], e)]
           bad == {i \in DOMAIN out : out[i] # "yes"}
           N == Len(sel.criteria)
<1>1. w \in DOMAIN d.selections /\ Said(d, e)[w] = SelectionOutcome(sel, e)
  BY DEF Said
<1>2. N \in Nat /\ DOMAIN out = 1..N
  <2>1. IsSequence(sel.criteria)
    BY <1>1 DEF RuleOK
  <2> QED BY <2>1, LenProperties DEF IsSequence
<1>3. \A i \in DOMAIN out : out[i] \in Outcomes
  BY DEF CriterionOutcome, Outcomes
<1>4. CASE sel.hook \/ bad = {}
  BY <1>1, <1>4 DEF SelectionOutcome, Outcomes
<1>5. CASE ~(sel.hook \/ bad = {})
  <2> DEFINE first == CHOOSE i \in bad : \A k \in bad : i <= k
  <2>1. SelectionOutcome(sel, e) = out[first]
    BY <1>5 DEF SelectionOutcome
  <2>2. first \in bad
    <3>1. bad \in SUBSET (1..N) /\ bad # {}
      BY <1>2, <1>5
    <3> HIDE DEF bad
    <3>2. \E i \in bad : \A k \in bad : i <= k
      BY <1>2, <3>1, LeastOf
    <3> QED BY <3>2
  <2> HIDE DEF first
  <2> QED BY <1>1, <1>3, <2>1, <2>2
<1> QED BY <1>4, <1>5

RuleInv ==
  /\ engine \in {"loading", "ready", "failed"}
  /\ IsSequence(unread) /\ \A f \in Range(unread) : FileOK(f)
  /\ IsSequence(rules) /\ \A d \in Range(rules) : RuleOK(d)
  /\ signals \subseteq [rule : DOMAIN rules, subject : {"pid", "path", "unknown"},
                        kind : {"rule_match_high", "rule_match_medium", "rule_match_low"}]
  /\ engine # "ready" => matching = NoEvent /\ signals = {}
  /\ ConditionMeans

LEMMA RuleInvInit == RulesInit => RuleInv
<1> SUFFICES ASSUME RulesInit PROVE RuleInv
  OBVIOUS
<1>1. unread \in RuleFolders /\ rules = <<>> /\ engine = "loading" /\ matching = NoEvent /\ signals = {}
  BY DEF RulesInit
<1>2. IsSequence(unread) /\ \A f \in Range(unread) : FileOK(f)
  BY <1>1, FoldersAssumption DEF FileOK, RuleOK
<1>3. IsSequence(rules) /\ Range(rules) = {}
  <2>1. <<>> \in Seq({}) /\ Len(<<>>) = 0
    OBVIOUS
  <2>2. Range(<<>>) = {}
    BY DEF Range
  <2> QED BY <1>1, <2>1, <2>2 DEF IsSequence
<1> QED BY <1>1, <1>2, <1>3 DEF RuleInv, ConditionMeans

LEMMA RuleInvNext == RuleInv /\ [RulesNext]_ruleVars => RuleInv'
<1> SUFFICES ASSUME RuleInv, [RulesNext]_ruleVars PROVE RuleInv'
  OBVIOUS
<1> USE DEF RuleInv
<1>1. CASE ReadRuleFile
  <2>1. /\ engine = "loading" /\ unread # <<>> /\ unread' = Tail(unread) /\ matching' = matching
        /\ signals' = signals /\ engine' \in {"loading", "failed"}
        /\ rules' = IF FileOutcome(Head(unread)) = "rules" THEN rules \o Head(unread).docs ELSE rules
    BY <1>1 DEF ReadRuleFile
  <2>2. matching' = NoEvent /\ signals' = {}
    BY <2>1
  <2>3. Head(unread) \in Range(unread) /\ IsSequence(Tail(unread)) /\ Range(Tail(unread)) \subseteq Range(unread)
    <3>1. Tail(unread) \in Seq(Range(unread)) /\ Head(unread) \in Range(unread)
      BY <2>1, HeadTailProperties DEF IsSequence
    <3> HIDE DEF RuleInv
    <3> QED BY <3>1, SeqOfRange, RangeOfSeq DEF IsSequence
  <2>4. IsSequence(unread') /\ \A f \in Range(unread') : FileOK(f)
    BY <2>1, <2>3
  <2>5. IsSequence(rules') /\ \A d \in Range(rules') : RuleOK(d)
    <3> DEFINE f == Head(unread)
    <3>1. CASE FileOutcome(f) # "rules"
      BY <2>1, <3>1
    <3>2. CASE FileOutcome(f) = "rules"
      <4>1. \A i \in DOMAIN f.docs : f.docs[i].form = "rule"
        BY <3>2 DEF FileOutcome
      <4>2. FileOK(f)
        BY <2>3
      <4> HIDE DEF f
      <4>3. ASSUME NEW d \in Range(f.docs) PROVE RuleOK(d)
        <5>1. PICK i \in DOMAIN f.docs : d = f.docs[i]
          BY DEF Range
        <5> QED BY <4>1, <4>2, <5>1 DEF FileOK
      <4> DEFINE docs == f.docs
                 A == Range(rules)
                 B == Range(docs)
      <4>4. rules \in Seq(A) /\ docs \in Seq(B) /\ rules' = rules \o docs
        BY <2>1, <3>2, <4>2 DEF FileOK, IsSequence, f
      <4>5. A \subseteq A \cup B /\ B \subseteq A \cup B
        OBVIOUS
      <4> HIDE DEF docs, A, B, RuleInv
      <4>6. rules \in Seq(A \cup B) /\ docs \in Seq(A \cup B)
        BY <4>4, <4>5
      <4>7. rules \o docs \in Seq(A \cup B)
        BY <4>6, ConcatProperties
      <4>8. IsSequence(rules') /\ Range(rules') = Range(rules) \cup Range(docs)
        BY <4>4, <4>6, <4>7, SeqOfRange, RangeConcatenation DEF IsSequence
      <4> QED BY <4>3, <4>8 DEF docs, RuleInv
    <3> QED BY <3>1, <3>2
  <2> QED BY <2>1, <2>2, <2>4, <2>5 DEF ConditionMeans
<1>2. CASE RulesLoaded
  <2>1. /\ engine = "loading" /\ engine' = "ready" /\ unread' = unread /\ rules' = rules
        /\ matching' = matching /\ signals' = signals
    BY <1>2 DEF RulesLoaded
  <2> QED BY <2>1 DEF ConditionMeans
<1>3. ASSUME NEW e \in RuleEvents, MatchRules(e) PROVE RuleInv'
  <2> DEFINE On(k) == /\ AppliesTo(rules[k], e)
                      /\ ConditionHolds(rules[k].condition, Said(rules[k], e))
             Sig(i) == [rule |-> i, kind |-> SignalKind(rules[i].level), subject |-> SubjectOf(e)]
  <2>1. /\ engine = "ready" /\ engine' = engine /\ unread' = unread /\ rules' = rules
        /\ matching' = e /\ signals' = {Sig(i) : i \in {k \in DOMAIN rules : On(k)}}
    BY <1>3 DEF MatchRules
  <2>2. \A i \in DOMAIN rules : /\ Sig(i).rule = i
                                /\ Sig(i).subject \in {"pid", "path", "unknown"}
                                /\ Sig(i).kind \in {"rule_match_high", "rule_match_medium", "rule_match_low"}
    BY DEF SignalKind, SubjectOf
  <2>3. signals' \subseteq [rule : DOMAIN rules, subject : {"pid", "path", "unknown"},
                        kind : {"rule_match_high", "rule_match_medium", "rule_match_low"}]
    BY <2>1 DEF SignalKind, SubjectOf
  <2>4. ASSUME NEW i \in DOMAIN rules
        PROVE  (\E x \in signals' : x.rule = i) <=>
                 /\ AppliesTo(rules[i], e)
                 /\ "yes" \in Values(Tokens(rules[i].condition), TruthOf(Said(rules[i], e)))
    <3>1. RuleOK(rules[i])
      BY DEF Range
    <3> HIDE DEF RuleInv
    <3>2. ConditionHolds(rules[i].condition, Said(rules[i], e)) <=>
            "yes" \in Values(Tokens(rules[i].condition), TruthOf(Said(rules[i], e)))
      <4>1. IsSequence(rules[i].condition)
        BY <3>1 DEF RuleOK
      <4>2. \A w \in DOMAIN Said(rules[i], e) : Said(rules[i], e)[w] \in Outcomes
        BY <3>1, Outcome
      <4> QED BY <4>1, <4>2, ConditionIsExpression
    <3>3. (\E x \in signals' : x.rule = i) <=> On(i)
      <4> HIDE DEF On
      <4>1. \A j : Sig(j).rule = j
        OBVIOUS
      <4> HIDE DEF Sig
      <4> QED BY <2>1, <4>1
    <3> QED BY <3>2, <3>3
  <2>5. ConditionMeans'
    <3> HIDE DEF RuleInv
    <3> QED BY <2>1, <2>4 DEF ConditionMeans
  <2> QED BY <2>1, <2>3, <2>5
<1>4. CASE UNCHANGED ruleVars
  BY <1>4 DEF ruleVars, ConditionMeans
<1> QED BY <1>1, <1>2, <1>3, <1>4 DEF RulesNext

\* A rule signals an event exactly when its condition, read by the grammar, is true of it.
THEOREM RulesMean == RulesSpec => []ConditionMeans
<1>1. RuleInv => ConditionMeans
  BY DEF RuleInv
<1> QED BY <1>1, RuleInvInit, RuleInvNext, PTL DEF RulesSpec

LEMMA RuleInvTypes == RuleInv => RulesOK
BY DEF RuleInv, RulesOK, RuleOK, Range

\* The types of the rules read so far and of the signals.
THEOREM RulesTypeCorrect == RulesSpec => []RulesOK
BY RuleInvTypes, RuleInvInit, RuleInvNext, PTL DEF RulesSpec

-----------------------------------------------------------------------------
(* Sensors.  While the service stops, a sensor that started has halted or   *)
(* is still in the list of those to stop: what makes "all have halted when  *)
(* the service has" inductive, for a list that may name a sensor twice.     *)

SensorRecords ==
  [at : {"absent", "running", "leaving", "dead", "stopped"}, mode : {"none", "native", "helper"},
   parts : SUBSET Folders, helper : BOOLEAN, todo : Nat, took : Nat, sent : Nat]

\* The sensors of a list, and that all that started but those of rest have halted.
Among(s, k) == \E i \in DOMAIN s : s[i] = k
HaltedBut(rest) == \A k \in Kinds : Among(listed, k) => Among(rest, k) \/ Halted(k, sensor[k])

SensorTyped == sensor \in [Kinds -> SensorRecords] /\ \A k \in Kinds : sensor[k].sent <= sensor[k].took

SensorsInv ==
  /\ phase \in {"starting", "running", "stopping", "stopped"}
  /\ sockets \subseteq Connections /\ seen \subseteq Connections
  /\ plan \in Seq(Kinds) /\ listed \in Seq(Kinds)
  /\ SensorTyped
  /\ phase = "stopping" => HaltedBut(plan)
  /\ phase = "stopped" => HaltedBut(<<>>)

LEMMA SensorPlans ==
  ASSUME NEW p \in Machines
  PROVE  Plan(p) \in Seq(Kinds)
<1>1. p \in {"windows", "linux", "darwin"}
  BY SensorsAssumption
<1>2. /\ <<"fs", "network", "etw", "eventlog">> \in Seq(Kinds)
      /\ <<"fanotify", "network", "audit", "journald">> \in Seq(Kinds)
      /\ <<"fsevents", "network", "maclog">> \in Seq(Kinds)
  BY DEF Kinds
<1> QED BY <1>1, <1>2 DEF Plan

Counted(r) == r \in SensorRecords /\ r.sent <= r.took

LEMMA SensorFacts ==
  /\ Counted(Absent) /\ Counted(Up) /\ Counted(Helped)
  /\ \A parts \in SUBSET Folders : /\ Counted([Up EXCEPT !.parts = parts])
                                  /\ Counted([Absent EXCEPT !.parts = parts, !.at = "running"])
                                  /\ Counted([Absent EXCEPT !.parts = parts, !.at = "absent"])
<1>1. Counted(Absent)
  BY DEF Absent, Counted, SensorRecords
<1>2. Counted(Up)
  BY <1>1 DEF Up, Counted, SensorRecords
<1>3. Counted(Helped)
  BY <1>2 DEF Helped, Counted, SensorRecords
<1>4. ASSUME NEW parts \in SUBSET Folders
      PROVE  /\ Counted([Up EXCEPT !.parts = parts])
             /\ Counted([Absent EXCEPT !.parts = parts, !.at = "running"])
             /\ Counted([Absent EXCEPT !.parts = parts, !.at = "absent"])
  BY <1>1, <1>2 DEF Counted, SensorRecords
<1> QED BY <1>1, <1>2, <1>3, <1>4

LEMMA SensorPut ==
  ASSUME SensorTyped, NEW k \in Kinds, NEW r, Counted(r),
         sensor' = [sensor EXCEPT ![k] = r]
  PROVE  SensorTyped' /\ sensor'[k] = r /\ \A l \in Kinds \ {k} : sensor'[l] = sensor[l]
BY DEF SensorTyped, Counted

LEMMA SensorsInit0 == SensorsInit => SensorsInv
<1> SUFFICES ASSUME SensorsInit PROVE SensorsInv
  OBVIOUS
<1>1. Plan(host) \in Seq(Kinds)
  BY SensorPlans DEF SensorsInit
<1>2. SensorTyped
  BY SensorFacts DEF SensorsInit, SensorTyped, Counted
<1> QED BY <1>1, <1>2 DEF SensorsInit, SensorsInv

\* The first of the plan, and the rest.
LEMMA PlanStep ==
  ASSUME plan \in Seq(Kinds), plan # <<>>
  PROVE  /\ Next1 \in Kinds /\ Tail(plan) \in Seq(Kinds)
         /\ \A k : Among(plan, k) => k = Next1 \/ Among(Tail(plan), k)
<1>1. /\ Len(plan) \in Nat /\ DOMAIN plan = 1..Len(plan) /\ Head(plan) = plan[1]
      /\ Head(plan) \in Kinds /\ Tail(plan) \in Seq(Kinds) /\ Len(Tail(plan)) = Len(plan) - 1
      /\ DOMAIN Tail(plan) = 1..Len(Tail(plan))
      /\ \A i \in 1..Len(Tail(plan)) : Tail(plan)[i] = plan[i + 1]
  BY HeadTailProperties, LenProperties
<1>2. ASSUME NEW i \in DOMAIN plan, i # 1 PROVE Among(Tail(plan), plan[i])
  <2>1. i - 1 \in DOMAIN Tail(plan) /\ Tail(plan)[i - 1] = plan[i]
    BY <1>1, <1>2
  <2> QED BY <2>1 DEF Among
<1> QED BY <1>1, <1>2 DEF Next1, Among

\* One more sensor is there.
LEMMA SensorStarts ==
  ASSUME SensorsInv, NEW k \in Kinds, Starting(k), NEW r, Counted(r),
         sensor' = [sensor EXCEPT ![k] = r], plan' = Tail(plan),
         listed' = listed \/ listed' = Append(listed, k),
         seen' \subseteq Connections, UNCHANGED <<phase, sockets>>
  PROVE  SensorsInv'
<1>1. phase' = "starting" /\ plan' \in Seq(Kinds)
  BY PlanStep DEF Starting, SensorsInv
<1>2. listed' \in Seq(Kinds)
  BY AppendProperties DEF SensorsInv
<1>3. SensorTyped'
  BY SensorPut DEF SensorsInv
<1> QED BY <1>1, <1>2, <1>3 DEF SensorsInv

\* A sensor goes on, or ends.
LEMMA SensorMoves ==
  ASSUME SensorsInv, NEW k \in Kinds, NEW r, Counted(r),
         sensor' = [sensor EXCEPT ![k] = r], Halted(k, sensor[k]) => Halted(k, r),
         seen' \subseteq Connections, UNCHANGED <<phase, plan, listed, sockets>>
  PROVE  SensorsInv'
<1>1. SensorTyped' /\ sensor'[k] = r /\ \A l \in Kinds \ {k} : sensor'[l] = sensor[l]
  BY SensorPut DEF SensorsInv
<1>2. \A l \in Kinds : Halted(l, sensor[l]) => Halted(l, sensor'[l])
  BY <1>1
<1>3. ASSUME NEW rest, HaltedBut(rest) PROVE HaltedBut(rest)'
  <2>1. \A l \in Kinds : Among(listed, l) => Among(rest, l) \/ Halted(l, sensor'[l])
    BY <1>2, <1>3 DEF HaltedBut
  <2> QED BY <2>1 DEF HaltedBut
<1> QED BY <1>1, <1>3 DEF SensorsInv

\* The counts of a sensor may change.
LEMMA CountsChange ==
  ASSUME NEW s, Counted(s), NEW a \in Nat, NEW b \in Nat, NEW c \in Nat
  PROVE  /\ Counted([s EXCEPT !.todo = a])
         /\ s.sent <= b => Counted([s EXCEPT !.todo = a, !.took = b])
         /\ c <= b => Counted([s EXCEPT !.todo = a, !.took = b, !.sent = c])
         /\ c <= b => Counted([s EXCEPT !.took = b, !.sent = c])
BY DEF Counted, SensorRecords

\* What the updates of a sensor leave of its record.
LEMMA SensorUpdates ==
  ASSUME NEW s, Counted(s)
  PROVE  /\ Counted([s EXCEPT !.todo = @ + 1])
         /\ s.todo > 0 => /\ Counted([s EXCEPT !.todo = @ - 1])
                          /\ Counted([s EXCEPT !.todo = @ - 1, !.took = @ + 1])
                          /\ Counted([s EXCEPT !.todo = @ - 1, !.took = @ + 1, !.sent = @ + 1])
         /\ \A n \in Nat : Counted([s EXCEPT !.took = @ + n, !.sent = @ + n])
         /\ \A k : Counted(LoopEnds(k, s))
         /\ Counted([s EXCEPT !.helper = FALSE])
         /\ Counted([s EXCEPT !.at = "stopped", !.helper = FALSE, !.parts = {}])
         /\ \A at \in {"leaving", "stopped"}, helper \in BOOLEAN, parts \in {s.parts, {}} :
              Counted([s EXCEPT !.at = at, !.parts = parts, !.helper = helper])
         /\ \A some \in SUBSET s.parts : Counted([s EXCEPT !.parts = some])
<1> DEFINE more == s.todo + 1
           less == s.todo - 1
           took == s.took + 1
           sent == s.sent + 1
<1>0. /\ s.todo \in Nat /\ s.took \in Nat /\ s.sent \in Nat /\ s.sent <= s.took
      /\ more \in Nat /\ took \in Nat /\ sent \in Nat /\ sent <= took /\ s.sent <= took
  BY DEF Counted, SensorRecords
<1>1. Counted([s EXCEPT !.todo = @ + 1])
  <2>1. [s EXCEPT !.todo = @ + 1] = [s EXCEPT !.todo = more]
    OBVIOUS
  <2> HIDE DEF more
  <2> QED BY <1>0, <2>1, CountsChange
<1>2. ASSUME s.todo > 0
      PROVE  /\ Counted([s EXCEPT !.todo = @ - 1])
             /\ Counted([s EXCEPT !.todo = @ - 1, !.took = @ + 1])
             /\ Counted([s EXCEPT !.todo = @ - 1, !.took = @ + 1, !.sent = @ + 1])
  <2>1. less \in Nat
    BY <1>0, <1>2
  <2>2. /\ [s EXCEPT !.todo = @ - 1] = [s EXCEPT !.todo = less]
        /\ [s EXCEPT !.todo = @ - 1, !.took = @ + 1] = [s EXCEPT !.todo = less, !.took = took]
        /\ [s EXCEPT !.todo = @ - 1, !.took = @ + 1, !.sent = @ + 1]
             = [s EXCEPT !.todo = less, !.took = took, !.sent = sent]
    OBVIOUS
  <2> HIDE DEF less, took, sent
  <2>3. Counted([s EXCEPT !.todo = less])
    BY <2>1, CountsChange
  <2>4. Counted([s EXCEPT !.todo = less, !.took = took])
    BY <1>0, <2>1, CountsChange
  <2>5. Counted([s EXCEPT !.todo = less, !.took = took, !.sent = sent])
    BY <1>0, <2>1, CountsChange
  <2> QED BY <2>2, <2>3, <2>4, <2>5
<1>3. ASSUME NEW n \in Nat PROVE Counted([s EXCEPT !.took = @ + n, !.sent = @ + n])
  <2> DEFINE b == s.took + n
             c == s.sent + n
  <2>1. b \in Nat /\ c \in Nat /\ c <= b
    BY <1>0
  <2>2. [s EXCEPT !.took = @ + n, !.sent = @ + n] = [s EXCEPT !.took = b, !.sent = c]
    OBVIOUS
  <2> HIDE DEF b, c
  <2> QED BY <1>0, <2>1, <2>2, CountsChange
<1>4. \A k : Counted(LoopEnds(k, s))
  <2>1. Counted([s EXCEPT !.mode = "helper", !.helper = TRUE])
    BY DEF Counted, SensorRecords
  <2>2. Counted([s EXCEPT !.at = "dead"])
    BY DEF Counted, SensorRecords
  <2> QED BY <2>1, <2>2 DEF LoopEnds
<1>5. Counted([s EXCEPT !.helper = FALSE])
  BY DEF Counted, SensorRecords
<1>6. Counted([s EXCEPT !.at = "stopped", !.helper = FALSE, !.parts = {}])
  BY DEF Counted, SensorRecords
<1>7. \A at \in {"leaving", "stopped"}, helper \in BOOLEAN, parts \in {s.parts, {}} :
        Counted([s EXCEPT !.at = at, !.parts = parts, !.helper = helper])
  BY DEF Counted, SensorRecords
<1>8. \A some \in SUBSET s.parts : Counted([s EXCEPT !.parts = some])
  BY DEF Counted, SensorRecords
<1> QED BY <1>1, <1>2, <1>3, <1>4, <1>5, <1>6, <1>7, <1>8

\* Counting a record changes neither where a sensor is nor what it watches.
Same(s, u) == u.at = s.at /\ u.parts = s.parts

LEMMA UpdatesStay ==
  ASSUME NEW s, Counted(s)
  PROVE  /\ Same(s, [s EXCEPT !.todo = @ + 1]) /\ Same(s, [s EXCEPT !.todo = @ - 1])
         /\ Same(s, [s EXCEPT !.todo = @ - 1, !.took = @ + 1])
         /\ Same(s, [s EXCEPT !.todo = @ - 1, !.took = @ + 1, !.sent = @ + 1])
         /\ Same(s, [s EXCEPT !.helper = FALSE])
BY DEF Counted, SensorRecords, Same

\* A sensor that goes on, or whose loop ends, watches what it did.
LEMMA LoopKeeps ==
  ASSUME NEW s, Counted(s), NEW k
  PROVE  /\ LoopEnds(k, s).parts = s.parts
         /\ s.at = "running" => LoopEnds(k, s).at \in {"running", "dead"}
BY DEF Counted, SensorRecords, LoopEnds

LEMMA SensorsBegin ==
  ASSUME SensorsInv,
         \/ FallBack \/ StartFs \/ StartNetwork \/ StartFanotify \/ StartFsevents \/ StartEtw
         \/ StartEventlog \/ StartAudit \/ StartJournald \/ StartMaclog
         \/ \E k \in Kinds : StartFails(k)
  PROVE  SensorsInv'
<1>1. CASE FallBack
  <2>1. plan' = <<"fs">> \o Tail(plan) /\ phase = "starting" /\ plan # <<>>
        /\ UNCHANGED <<phase, listed, sensor, sockets, seen>>
    BY <1>1 DEF FallBack, Starting
  <2>2. plan' \in Seq(Kinds)
    <3>1. Tail(plan) \in Seq(Kinds) /\ <<"fs">> \in Seq(Kinds)
      BY <2>1, PlanStep DEF SensorsInv, Kinds
    <3> QED BY <2>1, <3>1, ConcatProperties
  <2> QED BY <2>1, <2>2 DEF SensorsInv, SensorTyped
<1>2. ASSUME NEW k \in Kinds, NEW r, Counted(r), Begins(k, r) PROVE SensorsInv'
  <2>1. /\ Starting(k) /\ sensor' = [sensor EXCEPT ![k] = r] /\ plan' = Tail(plan)
        /\ listed' = Append(listed, k) /\ UNCHANGED <<phase, sockets, seen>>
    BY <1>2 DEF Begins, Started
  <2> QED BY <1>2, <2>1, SensorStarts DEF SensorsInv
<1>3. CASE StartFs
  <2>1. PICK there \in SUBSET Folders : Begins("fs", [Up EXCEPT !.parts = there])
    BY <1>3 DEF StartFs, Begins
  <2> QED BY <1>2, <2>1, SensorFacts DEF Kinds
<1>4. CASE StartNetwork
  <2>1. /\ Starting("network") /\ sensor' = [sensor EXCEPT !["network"] = Up] /\ plan' = Tail(plan)
        /\ listed' = Append(listed, "network") /\ seen' = sockets /\ UNCHANGED <<phase, sockets>>
    BY <1>4 DEF StartNetwork, Started
  <2>2. "network" \in Kinds /\ Counted(Up) /\ sockets \subseteq Connections
    BY SensorFacts DEF Kinds, SensorsInv
  <2> QED BY <2>1, <2>2, SensorStarts
<1>5. CASE StartFanotify
  <2>1. PICK there \in SUBSET Folders : Begins("fanotify", [Up EXCEPT !.parts = there])
    BY <1>5 DEF StartFanotify
  <2> QED BY <1>2, <2>1, SensorFacts DEF Kinds
<1>6. CASE StartFsevents
  <2>1. PICK there \in SUBSET Folders : Begins("fsevents", [Up EXCEPT !.parts = there])
    BY <1>6 DEF StartFsevents
  <2> QED BY <1>2, <2>1, SensorFacts DEF Kinds
<1>7. CASE StartEtw \/ StartEventlog \/ StartAudit \/ StartJournald \/ StartMaclog
  <2>1. \E k \in Kinds : Begins(k, Up) \/ Begins(k, Helped)
    BY <1>7 DEF StartEtw, StartEventlog, StartAudit, StartJournald, StartMaclog, Kinds
  <2> QED BY <1>2, <2>1, SensorFacts
<1>8. ASSUME NEW k \in Kinds, StartFails(k) PROVE SensorsInv'
  <2>1. PICK some \in IF k = "fs" THEN (SUBSET Folders) \ {Folders} ELSE {{}} :
          sensor' = [sensor EXCEPT ![k] =
                    [Absent EXCEPT !.parts = some,
                                   !.at = IF some = {} THEN "absent" ELSE "running"]]
    BY <1>8 DEF StartFails
  <2> DEFINE r == [Absent EXCEPT !.parts = some, !.at = IF some = {} THEN "absent" ELSE "running"]
  <2>2. Counted(r)
    BY SensorFacts
  <2>3. /\ Starting(k) /\ plan' = Tail(plan) /\ listed' = listed
        /\ UNCHANGED <<phase, sockets, seen>>
    BY <1>8 DEF StartFails
  <2> HIDE DEF r
  <2>4. sensor' = [sensor EXCEPT ![k] = r]
    BY <2>1 DEF r
  <2> QED BY <2>2, <2>3, <2>4, SensorStarts DEF SensorsInv
<1> QED BY <1>1, <1>3, <1>4, <1>5, <1>6, <1>7, <1>8

LEMMA SensorsWork ==
  ASSUME SensorsInv,
         \/ Poll
         \/ \E k \in Kinds : \/ Arrive(k) \/ Noise(k) \/ PublishRecord(k) \/ Raises(k)
                            \/ SourceEnds(k) \/ Leave(k)
  PROVE  SensorsInv'
<1>1. \A k \in Kinds : Counted(sensor[k])
  BY DEF SensorsInv, SensorTyped, Counted
<1>2. CASE Poll
  <2> DEFINE new == Cardinality(sockets \ seen)
             r == [sensor["network"] EXCEPT !.took = @ + new, !.sent = @ + new]
  <2>1. new \in Nat
    BY SensorsAssumption, FS_Subset, FS_CardinalityType DEF SensorsInv
  <2> HIDE DEF new
  <2>2. /\ sensor' = [sensor EXCEPT !["network"] = r] /\ seen' = seen \cup sockets
        /\ Runs("network") /\ UNCHANGED <<phase, plan, listed, sockets>>
    BY <1>2 DEF Poll, new
  <2>3. "network" \in Kinds /\ Counted(r) /\ ~Halted("network", sensor["network"])
    <3>1. "network" \in Kinds
      BY DEF Kinds
    <3>2. ~Halted("network", sensor["network"])
      BY <2>2 DEF Runs, Halted
    <3> QED BY <1>1, <2>1, <3>1, <3>2, SensorUpdates
  <2>4. seen' \subseteq Connections
    BY <2>2 DEF SensorsInv
  <2> HIDE DEF r
  <2> QED BY <2>2, <2>3, <2>4, SensorMoves
<1>3. ASSUME NEW k \in Kinds, Arrive(k) \/ Noise(k) \/ PublishRecord(k) \/ Raises(k) \/ SourceEnds(k)
      PROVE  SensorsInv'
  <2> DEFINE s == sensor[k]
  <2>0. Counted(s) /\ s.at = "running" /\ seen' \subseteq Connections
        /\ UNCHANGED <<phase, plan, listed, sockets>>
    <3>1. Runs(k) /\ seen' = seen /\ UNCHANGED <<phase, plan, listed, sockets>>
      BY <1>3 DEF Arrive, Noise, PublishRecord, Raises, SourceEnds
    <3> QED BY <1>1, <3>1 DEF Runs, SensorsInv
  <2>1. \E r : /\ Counted(r) /\ sensor' = [sensor EXCEPT ![k] = r]
               /\ r.parts = s.parts /\ r.at \in {"running", "dead"}
    <3>1. CASE Arrive(k)
      <4> DEFINE u == [s EXCEPT !.todo = @ + 1]
      <4>1. sensor' = [sensor EXCEPT ![k] = u]
        BY <3>1 DEF Arrive
      <4>2. Counted(u) /\ Same(s, u)
        BY <2>0, SensorUpdates, UpdatesStay
      <4> HIDE DEF u
      <4> QED BY <2>0, <4>1, <4>2 DEF Same
    <3>2. CASE Noise(k)
      <4> DEFINE u == [s EXCEPT !.todo = @ - 1]
      <4>1. s.todo > 0 /\ sensor' = [sensor EXCEPT ![k] = u]
        BY <3>2 DEF Noise
      <4>2. Counted(u) /\ Same(s, u)
        BY <2>0, <4>1, SensorUpdates, UpdatesStay
      <4> HIDE DEF u
      <4> QED BY <2>0, <4>1, <4>2 DEF Same
    <3>3. CASE PublishRecord(k)
      <4> DEFINE u == [s EXCEPT !.todo = @ - 1, !.took = @ + 1, !.sent = @ + 1]
      <4>1. s.todo > 0
        BY <3>3 DEF PublishRecord
      <4>2. sensor' = [sensor EXCEPT ![k] = u]
        BY <3>3 DEF PublishRecord, SensorsInv, SensorTyped
      <4>3. Counted(u) /\ Same(s, u)
        BY <2>0, <4>1, SensorUpdates, UpdatesStay
      <4> HIDE DEF u
      <4> QED BY <2>0, <4>2, <4>3 DEF Same
    <3>4. CASE Raises(k)
      <4> DEFINE u == [s EXCEPT !.todo = @ - 1, !.took = @ + 1]
      <4>1. s.todo > 0 /\ sensor' = [sensor EXCEPT ![k] = LoopEnds(k, u)]
        BY <3>4 DEF Raises
      <4>2. Counted(u) /\ u.parts = s.parts /\ u.at = "running"
        BY <2>0, <4>1, SensorUpdates, UpdatesStay DEF Same
      <4> HIDE DEF u
      <4> QED BY <4>1, <4>2, SensorUpdates, LoopKeeps
    <3>5. CASE SourceEnds(k)
      <4> DEFINE u == [s EXCEPT !.helper = FALSE]
      <4>1. sensor' = [sensor EXCEPT ![k] = LoopEnds(k, u)]
        BY <3>5 DEF SourceEnds
      <4>2. Counted(u) /\ u.parts = s.parts /\ u.at = "running"
        BY <2>0, SensorUpdates, UpdatesStay DEF Same
      <4> HIDE DEF u
      <4> QED BY <4>1, <4>2, SensorUpdates, LoopKeeps
    <3> QED BY <1>3, <3>1, <3>2, <3>3, <3>4, <3>5
  <2>2. PICK r : /\ Counted(r) /\ sensor' = [sensor EXCEPT ![k] = r]
                 /\ r.parts = s.parts /\ r.at \in {"running", "dead"}
    BY <2>1
  <2>3. Halted(k, s) => Halted(k, r)
    BY <2>0, <2>2 DEF Halted
  <2> QED BY <2>0, <2>2, <2>3, SensorMoves
<1>4. ASSUME NEW k \in Kinds, Leave(k) PROVE SensorsInv'
  <2> DEFINE s == sensor[k]
             r == [s EXCEPT !.at = "stopped", !.helper = FALSE, !.parts = {}]
  <2>1. sensor' = [sensor EXCEPT ![k] = r] /\ UNCHANGED <<phase, plan, listed, sockets, seen>>
    BY <1>4 DEF Leave, SensorsInv, SensorTyped
  <2>2. Counted(r)
    BY <1>1, SensorUpdates
  <2>3. Halted(k, s) => Halted(k, r)
    BY <1>1 DEF Halted, Counted, SensorRecords
  <2> HIDE DEF r
  <2> QED BY <2>1, <2>2, <2>3, SensorMoves DEF SensorsInv
<1> QED BY <1>2, <1>3, <1>4

LEMMA SensorsStop ==
  ASSUME SensorsInv, AllStarted \/ BeginStop \/ StopSensor \/ StopRaises \/ Stopped
  PROVE  SensorsInv'
<1>1. CASE AllStarted
  BY <1>1 DEF AllStarted, SensorsInv, SensorTyped
<1>2. CASE BeginStop
  <2>1. /\ phase' = "stopping" /\ plan' = listed
        /\ UNCHANGED <<listed, sensor, sockets, seen>>
    BY <1>2 DEF BeginStop
  <2>2. HaltedBut(plan)'
    BY <2>1 DEF HaltedBut, Among
  <2> QED BY <2>1, <2>2 DEF SensorsInv, SensorTyped
<1>3. ASSUME phase = "stopping", plan # <<>>, plan' = Tail(plan),
             UNCHANGED <<phase, listed, sockets, seen>>,
             NEW r, Counted(r), Halted(Next1, r), sensor' = [sensor EXCEPT ![Next1] = r]
      PROVE  SensorsInv'
  <2> DEFINE k == Next1
  <2>1. /\ k \in Kinds /\ Tail(plan) \in Seq(Kinds)
        /\ \A l : Among(plan, l) => l = k \/ Among(Tail(plan), l)
    BY <1>3, PlanStep DEF SensorsInv
  <2>2. Halted(k, r) /\ sensor' = [sensor EXCEPT ![k] = r]
    BY <1>3
  <2> HIDE DEF k
  <2>3. SensorTyped' /\ sensor'[k] = r /\ \A l \in Kinds \ {k} : sensor'[l] = sensor[l]
    BY <1>3, <2>1, <2>2, SensorPut DEF SensorsInv
  <2>4. \A l \in Kinds : Among(listed, l) => Among(Tail(plan), l) \/ Halted(l, sensor'[l])
    BY <1>3, <2>1, <2>2, <2>3 DEF SensorsInv, HaltedBut
  <2>5. HaltedBut(plan)'
    BY <1>3, <2>4 DEF HaltedBut
  <2> QED BY <1>3, <2>1, <2>3, <2>5 DEF SensorsInv
<1>5. ASSUME plan # <<>> PROVE Next1 \in Kinds /\ Counted(sensor[Next1])
  <2>1. Next1 \in Kinds
    BY <1>5, PlanStep DEF SensorsInv
  <2> QED BY <2>1 DEF SensorsInv, SensorTyped, Counted
<1>6. CASE StopSensor
  <2> DEFINE k == Next1
             s == sensor[k]
             waits == Waits(k, s)
             at == IF waits THEN "leaving" ELSE "stopped"
             parts == IF waits THEN s.parts ELSE {}
             helper == s.helper /\ k # "maclog" /\ (waits \/ s.at = "dead")
             r == [s EXCEPT !.at = at, !.parts = parts, !.helper = helper]
  <2>1. /\ phase = "stopping" /\ plan # <<>> /\ plan' = Tail(plan)
        /\ UNCHANGED <<phase, listed, sockets, seen>> /\ sensor' = [sensor EXCEPT ![k] = r]
    BY <1>6 DEF StopSensor
  <2>2. /\ at \in {"leaving", "stopped"} /\ helper \in BOOLEAN /\ parts \in {s.parts, {}}
        /\ at = "stopped" => parts = {}
    OBVIOUS
  <2>3. Counted(s)
    BY <1>5, <2>1
  <2>4. Counted(r) /\ Halted(k, r)
    <3> HIDE DEF k, s, at, parts, helper
    <3>1. Counted(r)
      BY <2>2, <2>3, SensorUpdates
    <3>2. r.at = at /\ r.parts = parts
      BY <2>3 DEF Counted, SensorRecords
    <3> QED BY <2>2, <3>1, <3>2 DEF Halted
  <2> HIDE DEF r, s, waits, at, parts, helper
  <2> QED BY <1>3, <2>1, <2>4
<1>7. CASE StopRaises
  <2> DEFINE k == Next1
             s == sensor[k]
  <2>1. /\ phase = "stopping" /\ plan # <<>> /\ plan' = Tail(plan)
        /\ UNCHANGED <<phase, listed, sockets, seen>> /\ k \in {"fs", "fsevents"}
        /\ s.at = "running"
    BY <1>7 DEF StopRaises, Runs
  <2>2. PICK some \in (SUBSET s.parts) \ {{}} : sensor' = [sensor EXCEPT ![k] = [s EXCEPT !.parts = some]]
    BY <1>7 DEF StopRaises
  <2> DEFINE r == [s EXCEPT !.parts = some]
  <2>3. Counted(s)
    BY <1>5, <2>1
  <2>4. Counted(r) /\ Halted(k, r)
    <3> HIDE DEF s, k
    <3>1. Counted(r)
      BY <2>2, <2>3, SensorUpdates
    <3>2. r.at = s.at /\ r.parts = some
      BY <2>3 DEF Counted, SensorRecords
    <3>3. some # {} /\ s.at = "running"
      BY <2>1, <2>2
    <3> HIDE DEF r
    <3>4. k \in {"fs", "fsevents"}
      BY <2>1
    <3> QED BY <3>1, <3>2, <3>3, <3>4 DEF Halted
  <2>5. sensor' = [sensor EXCEPT ![k] = r]
    BY <2>2
  <2> HIDE DEF r, s
  <2> QED BY <1>3, <2>1, <2>4, <2>5
<1>4. CASE Stopped
  <2>1. /\ phase = "stopping" /\ plan = <<>> /\ phase' = "stopped"
        /\ UNCHANGED <<plan, listed, sensor, sockets, seen>>
    BY <1>4 DEF Stopped
  <2>2. HaltedBut(<<>>)
    BY <2>1 DEF SensorsInv
  <2>3. HaltedBut(<<>>)'
    BY <2>1, <2>2 DEF HaltedBut
  <2> QED BY <2>1, <2>3 DEF SensorsInv, SensorTyped
<1> QED BY <1>1, <1>2, <1>4, <1>6, <1>7

LEMMA SensorsInvNext == SensorsInv /\ [SensorsNext]_sensorVars => SensorsInv'
<1> SUFFICES ASSUME SensorsInv, [SensorsNext]_sensorVars PROVE SensorsInv'
  OBVIOUS
<1>1. ASSUME NEW c \in Connections, Connect(c) PROVE SensorsInv'
  <2>1. sockets' \subseteq Connections /\ UNCHANGED <<phase, plan, listed, sensor, seen>>
    BY <1>1 DEF Connect, SensorsInv
  <2> QED BY <2>1 DEF SensorsInv, SensorTyped, HaltedBut
<1>2. CASE UNCHANGED sensorVars
  BY <1>2 DEF sensorVars, SensorsInv, SensorTyped, HaltedBut
<1> QED BY <1>1, <1>2, SensorsBegin, SensorsWork, SensorsStop DEF SensorsNext

LEMMA SensorsInvTypes == SensorsInv => SensorsOK
<1> SUFFICES ASSUME SensorsInv PROVE SensorsOK
  OBVIOUS
<1>1. ASSUME phase = "stopped", NEW i \in DOMAIN listed PROVE Halted(listed[i], sensor[listed[i]])
  <2>1. listed[i] \in Kinds /\ Among(listed, listed[i])
    BY LenProperties, ElementOfSeq DEF SensorsInv, Among
  <2>2. ~Among(<<>>, listed[i])
    BY DEF Among
  <2> QED BY <1>1, <2>1, <2>2 DEF SensorsInv, HaltedBut
<1>2. \A k \in Kinds : /\ sensor[k].at \in {"absent", "running", "leaving", "dead", "stopped"}
                       /\ sensor[k].sent <= sensor[k].took
  BY DEF SensorsInv, SensorTyped, SensorRecords
<1> QED BY <1>1, <1>2 DEF SensorsInv, SensorsOK

\* The stop has reached all that started: what has stopped watches nothing, what waits goes
\* on for a line at most, and else only observers whose stop raised go on; and no more is
\* published than was taken (service.py:366-371 and the stop of each sensor).
THEOREM SensorsTypeCorrect == SensorsSpec => []SensorsOK
BY SensorsInvTypes, SensorsInit0, SensorsInvNext, PTL DEF SensorsSpec

-----------------------------------------------------------------------------
(* The parts together.  Each moves in behaviours of its own while the       *)
(* others stay, so the invariants of all are kept by a step of any of them. *)

PartsInv ==
  /\ ScanInv /\ PageTypes /\ SandboxInv /\ EmulatorInv /\ MemInv /\ VtInv /\ NotifierInv
  /\ SensorsInv /\ HeurInv /\ LogOK /\ BeaconInv /\ LifeOK /\ PagesInv /\ RuleInv

LEMMA PartsStart == Init => PartsInv
<1>1. HeuristicsInit => LogOK
  BY DEF HeuristicsInit, LogOK
<1> QED BY <1>1, ScanStarts, SandboxStart, EmulatorStart, MemStart, VtStart, NotifierStart,
           SensorsInit0, HeurInvInit, BeaconStart, LifeStart, PagesStart, RuleInvInit
        DEF Init, PartsInv

\* A step of a part is a step of its specification, and leaves the others alone.
LEMMA PartSteps ==
  [PartNext]_partVars =>
    /\ [Next]_vars /\ [SandboxNext]_sandboxVars /\ [EmulatorNext]_emulatorVars
    /\ [MemNext]_memVars /\ [VtNext]_vtVars /\ [NotifierNext]_notifierVars
    /\ [SensorsNext]_sensorVars /\ [LoginsNext \/ WritesNext]_heuristicsVars
    /\ [BeaconsNext \/ CpuNext]_streamVars /\ [PagesNext]_pageVars /\ [RulesNext]_ruleVars
BY DEF PartNext, Still, partVars

LEMMA PartsKeep == PartsInv /\ [PartNext]_partVars => PartsInv'
<1> SUFFICES ASSUME PartsInv, [PartNext]_partVars PROVE PartsInv'
  OBVIOUS
<1>1. (ScanInv /\ PageTypes)'
  BY PartSteps, ScanNext, PageNext DEF PartsInv
<1>2. (SandboxInv /\ EmulatorInv /\ MemInv)'
  BY PartSteps, SandboxKeeps, EmulatorKeeps, MemKeeps DEF PartsInv
<1>3. (VtInv /\ NotifierInv /\ SensorsInv)'
  BY PartSteps, VtKeeps, NotifierKeeps, SensorsInvNext DEF PartsInv
<1>4. (HeurInv /\ LogOK /\ BeaconInv /\ LifeOK)'
  BY PartSteps, HeurInvNext, LogOKNext, BeaconKeeps, LifeStep DEF PartsInv
<1>5. (PagesInv /\ RuleInv)'
  BY PartSteps, PagesInvNext, RuleInvNext DEF PartsInv
<1> QED BY <1>1, <1>2, <1>3, <1>4, <1>5 DEF PartsInv

\* The types of all the parts, and with them what their locks, clocks and lists keep right:
\* whichever of the parts moves, for any number of threads, processes, scans and rules.
THEOREM PartsTypeCorrect == PartSpec => []TypeOK
<1>1. PartsInv => TypeOK
  BY ScanInvTypes, SandboxInvTypes, EmulatorInvTypes, MemInvTypes, VtInvTypes, NotifierInvTypes,
     SensorsInvTypes, HeurInvTypes, StreamInvTypes, PagesInvTypes, PagesAlternate, RuleInvTypes
  DEF PartsInv, TypeOK
<1> QED BY <1>1, PartsStart, PartsKeep, PTL DEF PartSpec
=============================================================================
