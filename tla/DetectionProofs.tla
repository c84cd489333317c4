-------------------------- MODULE DetectionProofs --------------------------
(***************************************************************************)
(* Proofs about the consumer: its types, what decay leaves to evict_stale, *)
(* the totals of the scores, and, when pids are reused with care, that a   *)
(* process answers for its own signals only and that no suspect is passed  *)
(* over.                                                                   *)
(***************************************************************************)
EXTENDS Detection, Sums

(***************************************************************************)
(* What the operations on the table of scores keep.                        *)
(***************************************************************************)
\* add_signal brings in the new signal only, and dates the score by it.
LEMMA AddKeeps ==
  ASSUME NEW table, NEW sig, NEW t \in AddSignal(table, sig)
  PROVE  \A s \in DOMAIN t :
           /\ \/ s \in DOMAIN table /\ t[s] = table[s]
              \/ s = sig.subject /\ t[s].last = sig.time
           /\ s \in DOMAIN table \cup {sig.subject}
           /\ \A g \in DOMAIN t[s].signals :
                \/ s = sig.subject /\ g = sig
                \/ s \in DOMAIN table /\ g \in DOMAIN table[s].signals
<1> DEFINE Ok(u) == \A s \in DOMAIN u :
             /\ \/ s \in DOMAIN table /\ u[s] = table[s]
                \/ s = sig.subject /\ u[s].last = sig.time
             /\ s \in DOMAIN table \cup {sig.subject}
             /\ \A g \in DOMAIN u[s].signals :
                  \/ s = sig.subject /\ g = sig
                  \/ s \in DOMAIN table /\ g \in DOMAIN table[s].signals
<1>1. ASSUME NEW base, DOMAIN base \subseteq DOMAIN table,
             \A s \in DOMAIN base : base[s] = table[s]
      PROVE  Ok(Add(base, sig))
  <2>1. DOMAIN Add(base, sig) = DOMAIN base \cup {sig.subject}
    BY DEF Add
  <2>2. ASSUME NEW s \in DOMAIN base, s # sig.subject
        PROVE  Add(base, sig)[s] = table[s]
    BY <1>1, <2>2 DEF Add
  <2>3. Add(base, sig)[sig.subject] = Plus(Score(base, sig.subject), sig)
    BY DEF Add
  <2>4. /\ Add(base, sig)[sig.subject].last = sig.time
        /\ DOMAIN Add(base, sig)[sig.subject].signals
             = DOMAIN Score(base, sig.subject).signals \cup {sig}
    BY <2>3 DEF Plus, OneMore
  <2>5. CASE sig.subject \in DOMAIN base
    <3>1. Score(base, sig.subject) = table[sig.subject]
      BY <1>1, <2>5 DEF Score
    <3> QED
      BY <1>1, <2>1, <2>2, <2>4, <2>5, <3>1
  <2>6. CASE sig.subject \notin DOMAIN base
    <3>1. DOMAIN Score(base, sig.subject).signals = {}
      BY <2>6 DEF Score, NoScore, NoSignals
    <3> QED
      BY <1>1, <2>1, <2>2, <2>4, <2>6, <3>1
  <2> QED
    BY <2>5, <2>6
<1>2. Ok(t)
  <2>1. CASE Full(table, sig)
    <3>1. PICK s \in Oldest(table) : t = Add(Without(table, {s}), sig)
      BY <2>1 DEF AddSignal
    <3>2. /\ DOMAIN Without(table, {s}) \subseteq DOMAIN table
          /\ \A x \in DOMAIN Without(table, {s}) : Without(table, {s})[x] = table[x]
      BY DEF Without
    <3> QED
      BY <1>1, <3>1, <3>2
  <2>2. CASE ~Full(table, sig)
    <3>1. t = Add(table, sig)
      BY <2>2 DEF AddSignal
    <3> QED
      BY <1>1, <3>1
  <2> QED
    BY <2>1, <2>2
<1> QED
  BY <1>2

\* One score: pruning takes signals out and dates it by now if it does.
LEMMA PrunedKeeps ==
  ASSUME NEW score, NEW t
  PROVE  /\ DOMAIN Pruned(score, t).signals \subseteq DOMAIN score.signals
         /\ \A g \in DOMAIN Pruned(score, t).signals : g.time >= t - SignalTtl
         /\ Pruned(score, t).last \in {t, score.last}
<1>1. /\ DOMAIN Active(score.signals, t) \subseteq DOMAIN score.signals
      /\ \A g \in DOMAIN Active(score.signals, t) : g.time >= t - SignalTtl
  BY DEF Active
<1>2. CASE DOMAIN Active(score.signals, t) = DOMAIN score.signals
  BY <1>1, <1>2 DEF Pruned
<1>3. CASE DOMAIN Active(score.signals, t) # DOMAIN score.signals
  <2>1. Pruned(score, t) = [signals |-> Active(score.signals, t),
                            total |-> Sum(Active(score.signals, t)), last |-> t]
    BY <1>3 DEF Pruned
  <2> QED
    BY <1>1, <2>1
<1> QED
  BY <1>2, <1>3

\* decay leaves scores with a signal, all of them young.
LEMMA DecayKeeps ==
  ASSUME NEW table, NEW t
  PROVE  /\ DOMAIN Decay(table, t) \subseteq DOMAIN table
         /\ \A s \in DOMAIN Decay(table, t) :
              /\ Decay(table, t)[s] = Pruned(table[s], t)
              /\ DOMAIN Decay(table, t)[s].signals # {}
<1> DEFINE pruned == [s \in DOMAIN table |-> Pruned(table[s], t)]
           dead == {s \in DOMAIN pruned : DOMAIN pruned[s].signals = {} \/ pruned[s].total <= 0}
<1>1. Decay(table, t) = Without(pruned, dead)
  BY DEF Decay
<1>2. DOMAIN Decay(table, t) = DOMAIN table \ dead
  BY <1>1 DEF Without
<1>3. ASSUME NEW s \in DOMAIN Decay(table, t)
      PROVE  Decay(table, t)[s] = pruned[s] /\ s \in DOMAIN table /\ s \notin dead
  BY <1>1, <1>2 DEF Without
<1> QED
  BY <1>2, <1>3

LEMMA PruneKeeps ==
  ASSUME NEW table, NEW t, NEW s \in DOMAIN EvictStale(Decay(table, t), t)
  PROVE  LET after == EvictStale(Decay(table, t), t)[s] IN
           /\ s \in DOMAIN table
           /\ DOMAIN after.signals \subseteq DOMAIN table[s].signals
           /\ after.last \in {t, table[s].last}
<1>1. s \in DOMAIN Decay(table, t) /\ EvictStale(Decay(table, t), t)[s] = Decay(table, t)[s]
  BY DEF EvictStale, Without
<1> QED
  BY <1>1, DecayKeeps, PrunedKeeps

(***************************************************************************)
(* Types.                                                                  *)
(***************************************************************************)
LEMMA PublishType ==
  ASSUME NEW q \in Seq(Events), NEW ev \in Events
  PROVE  Publish(q, ev) \in Seq(Events)
<1>1. QueueSize \in Nat \ {0}
  BY DetectionAssumption
<1> QED
  BY <1>1 DEF Publish

LEMMA SubjectOfProcess == \A p \in Procs : Pid[p] \in Pids
  BY DetectionAssumption

LEMMA AddType ==
  ASSUME TypeOK, NEW sig \in Signals, NEW t \in AddSignal(scores, sig)
  PROVE  \A s \in DOMAIN t :
              /\ s \in Subjects
              /\ t[s].last \in Nat
              /\ \A g \in DOMAIN t[s].signals : g \in Signals /\ g.subject = s
<1>1. sig.subject \in Subjects /\ sig.time \in Nat
  BY DEF Signals
<1> TAKE s \in DOMAIN t
<1>2. /\ s \in DOMAIN scores \cup {sig.subject}
      /\ \/ s \in DOMAIN scores /\ t[s] = scores[s]
         \/ s = sig.subject /\ t[s].last = sig.time
      /\ \A g \in DOMAIN t[s].signals :
           \/ s = sig.subject /\ g = sig
           \/ s \in DOMAIN scores /\ g \in DOMAIN scores[s].signals
  BY AddKeeps
<1>3. t[s].last \in Nat
  BY <1>1, <1>2 DEF TypeOK
<1>4. ASSUME NEW g \in DOMAIN t[s].signals PROVE g \in Signals /\ g.subject = s
  BY <1>2, <1>4 DEF TypeOK
<1> QED
  BY <1>1, <1>2, <1>3, <1>4 DEF TypeOK

\* Every signal a detector raises is one of its subject.
LEMMA SignalType ==
  ASSUME TypeOK, NEW p \in Procs, NEW kind \in SignalKinds
  PROVE  Signal(kind, p) \in Signals
<1>1. now \in Nat
  BY DetectionAssumption DEF TypeOK
<1> QED
  BY <1>1, SubjectOfProcess DEF Signal, Signals, Subjects, Entities

LEMMA FoundType ==
  ASSUME TypeOK, NEW kinds \in Seq(SignalKinds), NEW s \in Subjects, NEW e \in Entities
  PROVE  Found(kinds, s, e) \in Seq(Signals)
<1>1. now \in Nat
  BY DetectionAssumption DEF TypeOK
<1>2. \A i \in DOMAIN kinds :
        [kind |-> kinds[i], subject |-> s, time |-> now, about |-> e] \in Signals
  BY <1>1 DEF Signals
<1> QED
  BY <1>2 DEF Found

LEMMA KindNames ==
  {"stratum_network", "c2_threat_intel", "c2_beaconing", "cpu_sustained"} \subseteq SignalKinds
  BY DEF SignalKinds, WEIGHTS

\* What the world does keeps the types.
LEMMA TypeWorld == TypeOK /\ World => TypeOK'
<1> SUFFICES ASSUME TypeOK, World PROVE TypeOK'
  OBVIOUS
<1> USE DEF TypeOK, consumer, latches, clock, history, world
<1>0. MaxEvents \in Nat /\ MaxTime \in Nat
  BY DetectionAssumption
<1>1. ASSUME NEW p \in Procs, Start(p) PROVE TypeOK'
  BY <1>1 DEF Start
<1>2. ASSUME NEW p \in Procs, Exit(p) PROVE TypeOK'
  BY <1>2 DEF Exit
<1>3. ASSUME NEW p \in Procs, ReportExit(p) PROVE TypeOK'
  <2>1. [type |-> "exit", who |-> p, what |-> None] \in Events
    BY DEF Events
  <2>2. queue' \in Seq(Events)
    BY <1>3, <2>1, PublishType DEF ReportExit
  <2> QED
    BY <1>3, <2>2 DEF ReportExit
<1>4. ASSUME NEW ev \in Events, Make(ev)
      PROVE  queue' \in Seq(Events) /\ published' \in 0..MaxEvents
  BY <1>0, <1>4, PublishType DEF Make
<1>5. ASSUME NEW p \in Procs, NEW kinds \in ProcessKinds, Act(p, kinds) PROVE TypeOK'
  <2>1. [type |-> "process", who |-> p, what |-> kinds] \in Events
    BY DetectionAssumption DEF Events
  <2>2. queue' \in Seq(Events) /\ published' \in 0..MaxEvents
    BY <1>4, <1>5, <2>1 DEF Act
  <2> QED
    BY <1>5, <2>2 DEF Act
<1>6. ASSUME NEW p \in Procs, NEW r \in Remotes, Snapshot(p, r) PROVE TypeOK'
  <2>1. [type |-> "connection", who |-> p, what |-> r] \in Events
    BY DEF Events
  <2> QED
    BY <1>6, <2>1 DEF Snapshot
<1>7. ASSUME PublishPolled PROVE TypeOK'
  <2>1. PICK ev \in polled : /\ Make(ev)
                             /\ polled' = polled \ {ev}
                             /\ UNCHANGED <<life, onDisk, consumer, clock, history>>
    BY <1>7 DEF PublishPolled
  <2>2. queue' \in Seq(Events) /\ published' \in 0..MaxEvents
    BY <1>4, <2>1
  <2> QED
    BY <2>1, <2>2
<1>8. ASSUME NEW f \in Files, Drop(f) PROVE TypeOK'
  <2>1. [type |-> "file", who |-> f, what |-> FileKinds[f]] \in Events
    BY DetectionAssumption DEF Events
  <2>2. queue' \in Seq(Events) /\ published' \in 0..MaxEvents
    BY <1>4, <1>8, <2>1 DEF Drop
  <2> QED
    BY <1>8, <2>2 DEF Drop
<1>9. ASSUME Tick PROVE TypeOK'
  BY <1>0, <1>9 DEF Tick
<1> QED
  BY <1>1, <1>2, <1>3, <1>5, <1>6, <1>7, <1>8, <1>9 DEF World

LEMMA HeadTail ==
  ASSUME NEW S, NEW q \in Seq(S), q # <<>>
  PROVE  /\ Head(q) \in S /\ Tail(q) \in Seq(S)
         /\ Len(q) > 0 /\ Head(q) = q[1] /\ 1 \in DOMAIN q
         /\ \A i \in DOMAIN Tail(q) : i + 1 \in DOMAIN q /\ Tail(q)[i] = q[i + 1]
  OBVIOUS

LEMMA TypeTake == TypeOK /\ Take => TypeOK'
<1> SUFFICES ASSUME TypeOK, Take PROVE TypeOK'
  OBVIOUS
<1> DEFINE ev == Head(queue)
<1>1. ev \in Events /\ Tail(queue) \in Seq(Events)
  BY HeadTail DEF TypeOK, Take
<1>2. /\ queue' \in Seq(Events) /\ pc' = "event"
      /\ UNCHANGED <<world, clock, attempted, blamed>>
  BY <1>1 DEF Take
<1> SUFFICES /\ pending' \in Seq(Signals)
             /\ DOMAIN scores' \subseteq Subjects
             /\ \A s \in DOMAIN scores' :
                  /\ scores'[s].last \in Nat
                  /\ \A sig \in DOMAIN scores'[s].signals : sig \in Signals /\ sig.subject = s
             /\ responded' \subseteq Subjects
             /\ emittedCpu' \in [Pids -> Procs \cup {None}]
             /\ emittedStratum' \in [Pids -> Procs \cup {None}]
             /\ streams' \in [Pids \X Remotes -> Seq(Procs)] /\ checked' \subseteq Files
             /\ handled' \subseteq Procs
  BY <1>2 DEF TypeOK, world, clock
<1> USE DEF TypeOK, latches
<1>3. CASE ev.type = "exit" /\ ProcessExit(ev.who)
  <2>1. ev.who \in Procs /\ Pid[ev.who] \in Pids
    BY <1>1, <1>3, SubjectOfProcess DEF Events
  <2>2. streams' \in [Pids \X Remotes -> Seq(Procs)]
    BY <1>3 DEF ProcessExit, ResetStreams
  <2>3. /\ DOMAIN scores' \subseteq DOMAIN scores
        /\ \A s \in DOMAIN scores' : scores'[s] = scores[s]
    BY <1>3 DEF ProcessExit, ResetScore, Without
  <2> QED
    BY <1>3, <2>1, <2>2, <2>3 DEF ProcessExit, ForgetResponded
<1>4. ASSUME NEW p \in Procs, NEW kinds \in Seq(SignalKinds), ProcessFound(p, kinds)
      PROVE  pending' \in Seq(Signals) /\ UNCHANGED <<scores, responded, latches, handled>>
  <2>1. Pid[p] \in Subjects /\ p \in Entities
    BY SubjectOfProcess DEF Subjects, Entities
  <2> QED
    BY <1>4, <2>1, FoundType DEF ProcessFound
<1>5. CASE ev.type = "process" /\ ProcessFound(ev.who, ev.what)
  <2>1. ev.who \in Procs /\ ev.what \in Seq(SignalKinds)
    BY <1>1, <1>5 DEF Events
  <2> QED
    BY <1>4, <1>5, <2>1
<1>6. CASE ev.type = "suspended" /\ ProcessFound(ev.who, <<>>)
  <2>1. ev.who \in Procs /\ <<>> \in Seq(SignalKinds)
    BY <1>1, <1>6 DEF Events
  <2> QED
    BY <1>4, <1>6, <2>1
<1>7. CASE ev.type = "connection" /\ Connection(ev.who, ev.what)
  <2>1. ev.who \in Procs /\ ev.what \in Remotes /\ Pid[ev.who] \in Pids
    BY <1>1, <1>7, SubjectOfProcess DEF Events
  <2> DEFINE p == ev.who
             r == ev.what
             one == Signal("stratum_network", p)
             two == Signal("c2_threat_intel", p)
             three == Signal("c2_beaconing", p)
  <2>2. one \in Signals /\ two \in Signals /\ three \in Signals
    BY <2>1, SignalType, KindNames
  <2> HIDE DEF one, two, three
  <2>3. streams[<<Pid[p], r>>] \in Seq(Procs)
    BY <2>1
  <2>4. PICK stratum \in BOOLEAN, beacon \in BOOLEAN :
          /\ emittedStratum' = [emittedStratum EXCEPT ![Pid[p]] = IF stratum THEN p ELSE @]
          /\ streams' = [streams EXCEPT ![<<Pid[p], r>>] = Append(streams[<<Pid[p], r>>], p)]
          /\ pending' = (IF stratum THEN <<one>> ELSE <<>>)
                          \o (IF r \in Listed THEN <<two>> ELSE <<>>)
                          \o (IF beacon THEN <<three>> ELSE <<>>)
          /\ UNCHANGED <<scores, responded, emittedCpu, checked, handled>>
    BY <1>7 DEF Connection, one, two, three
  <2>5. pending' \in Seq(Signals)
    BY <2>2, <2>4
  <2>6. emittedStratum' \in [Pids -> Procs \cup {None}]
    BY <2>1, <2>4
  <2>7. streams' \in [Pids \X Remotes -> Seq(Procs)]
    BY <2>1, <2>3, <2>4
  <2> QED
    BY <2>4, <2>5, <2>6, <2>7
<1>8. CASE ev.type = "file" /\ FileEvent(ev.who, ev.what)
  <2>1. ev.who \in Files /\ ev.what \in Seq(SignalKinds)
    BY <1>1, <1>8 DEF Events
  <2>2. Found(ev.what, ev.who, ev.who) \in Seq(Signals)
    BY <2>1, FoundType DEF Subjects, Entities
  <2>3. pending' \in Seq(Signals) /\ checked' \subseteq Files
    BY <1>8, <2>1, <2>2 DEF FileEvent
  <2> QED
    BY <1>8, <2>3 DEF FileEvent
<1> QED
  BY <1>3, <1>5, <1>6, <1>7, <1>8 DEF Take, Process

LEMMA RespondType ==
  ASSUME TypeOK, NEW sig \in Signals, NEW t \in AddSignal(scores, sig), NEW s \in Subjects,
         s \in DOMAIN t, Respond(t, s), pc \in {"event", "sampled"}, pending # <<>>
  PROVE  /\ life' \in [Procs -> {"new", "running", "suspended", "exited", "reported"}]
         /\ onDisk' \subseteq Files /\ queue' \in Seq(Events)
         /\ pc' \in {"top", "event", "check", "sampled"} /\ pending' \in Seq(Signals)
         /\ responded' \subseteq Subjects /\ attempted' \subseteq Entities
         /\ blamed' \in [Procs -> SUBSET Entities]
<1> USE DEF TypeOK
<1>1. responded' \subseteq Subjects /\ attempted' \subseteq Entities
  BY DEF Respond, Owners, Entities
<1>2. GoesOn \/ Raises =>
        pc' \in {"top", "event", "check", "sampled"} /\ pending' \in Seq(Signals)
  <2>1. pending \in Seq(Signals) /\ pending # <<>>
    OBVIOUS
  <2>2. Tail(pending) \in Seq(Signals)
    BY <2>1
  <2>3. <<>> \in Seq(Signals)
    OBVIOUS
  <2> QED
    BY <2>2, <2>3 DEF GoesOn, Raises
<1>3. CASE Suspend(t, s)
  <2>1. PICK p \in Owners(s) :
          /\ life' = [life EXCEPT ![p] = "suspended"]
          /\ blamed' = [blamed EXCEPT ![p] = @ \cup {g.about : g \in DOMAIN t[s].signals}]
          /\ UNCHANGED onDisk
          /\ \/ GoesOn /\ queue' = Publish(queue, [type |-> "suspended", who |-> p, what |-> None])
             \/ Raises /\ UNCHANGED queue
    BY <1>3 DEF Suspend
  <2>2. p \in Procs /\ [type |-> "suspended", who |-> p, what |-> None] \in Events
    BY DEF Owners, Events
  <2>3. queue' \in Seq(Events)
    BY <2>1, <2>2, PublishType
  <2>4. {g.about : g \in DOMAIN t[s].signals} \subseteq Entities
    BY AddType DEF Signals
  <2> QED
    BY <1>1, <1>2, <2>1, <2>2, <2>3, <2>4
<1>4. CASE Quarantine(s)
  BY <1>1, <1>2, <1>4 DEF Quarantine
<1>5. CASE ResponseFails
  BY <1>1, <1>2, <1>5 DEF ResponseFails
<1> QED
  BY <1>3, <1>4, <1>5 DEF Respond

LEMMA TypeScore == TypeOK /\ Score1 => TypeOK'
<1> SUFFICES ASSUME TypeOK, Score1 PROVE TypeOK'
  OBVIOUS
<1> DEFINE sig == Head(pending)
<1>1. sig \in Signals /\ sig.subject \in Subjects /\ Tail(pending) \in Seq(Signals)
  <2>1. pending \in Seq(Signals) /\ pending # <<>>
    BY DEF TypeOK, Score1
  <2>2. sig \in Signals /\ Tail(pending) \in Seq(Signals)
    BY <2>1
  <2> QED
    BY <2>2 DEF Signals
<1>2. PICK t \in AddSignal(scores, sig) :
        /\ scores' = t
        /\ IF ShouldRespond(t, sig.subject) /\ sig.subject \notin responded
             THEN Respond(t, sig.subject)
             ELSE GoesOn /\ UNCHANGED <<life, onDisk, queue, responded, attempted, blamed>>
  BY DEF Score1
<1>3. UNCHANGED <<polled, published, latches, clock, handled>>
  BY DEF Score1
<1>4. \A s \in DOMAIN scores' :
        /\ s \in Subjects /\ scores'[s].last \in Nat
        /\ \A g \in DOMAIN scores'[s].signals : g \in Signals /\ g.subject = s
  BY <1>1, <1>2, AddType
<1>5. CASE ShouldRespond(t, sig.subject) /\ sig.subject \notin responded
  <2>1. Respond(t, sig.subject) /\ sig.subject \in DOMAIN t
    BY <1>2, <1>5 DEF ShouldRespond
  <2>2. pc \in {"event", "sampled"} /\ pending # <<>>
    BY DEF Score1
  <2> HIDE DEF sig
  <2> QED
    BY <1>1, <1>3, <1>4, <2>1, <2>2, RespondType DEF TypeOK, latches, clock
<1>6. CASE ~(ShouldRespond(t, sig.subject) /\ sig.subject \notin responded)
  <2>1. GoesOn /\ UNCHANGED <<life, onDisk, queue, responded, attempted, blamed>>
    BY <1>2, <1>6
  <2>2. pc' = pc /\ pending' \in Seq(Signals)
    BY <1>1, <2>1 DEF GoesOn
  <2> QED
    BY <1>3, <1>4, <2>1, <2>2 DEF TypeOK, latches, clock
<1> QED
  BY <1>5, <1>6

LEMMA HotProcs ==
  ASSUME NEW hot \in Orders(Sustained)
  PROVE  \E n \in Nat : hot \in [1..n -> Sustained]
  BY DEF Orders

\* The latches after a sample: the pids found busy are latched by their process.
LEMMA LatchedBy ==
  ASSUME NEW hot \in Orders(Sustained), NEW x \in Pids, NEW latch,
         latch = IF \E i \in DOMAIN hot : Pid[hot[i]] = x
                   THEN CHOOSE p \in Range(hot) : Pid[p] = x ELSE emittedCpu[x]
  PROVE  latch = emittedCpu[x] \/ (latch \in Sustained /\ Pid[latch] = x)
<1>1. Range(hot) \subseteq Sustained
  BY HotProcs DEF Range
<1>2. (\E i \in DOMAIN hot : Pid[hot[i]] = x) => \E p \in Range(hot) : Pid[p] = x
  BY DEF Range
<1> QED
  BY <1>1, <1>2

LEMMA TypeSample == TypeOK /\ Sample => TypeOK'
<1> SUFFICES ASSUME TypeOK, Sample PROVE TypeOK'
  OBVIOUS
<1>1. PICK hot \in Orders(Sustained) :
        /\ pending' = [i \in DOMAIN hot |-> Signal("cpu_sustained", hot[i])]
        /\ emittedCpu' = [x \in Pids |->
             IF \E i \in DOMAIN hot : Pid[hot[i]] = x
               THEN CHOOSE p \in Range(hot) : Pid[p] = x ELSE emittedCpu[x]]
  BY DEF Sample
<1>2. PICK n \in Nat : hot \in [1..n -> Sustained]
  BY HotProcs
<1>3. Sustained \subseteq Procs
  BY DetectionAssumption DEF Sustained
<1>4. pending' \in Seq(Signals)
  <2>1. \A i \in 1..n : Signal("cpu_sustained", hot[i]) \in Signals
    BY <1>2, <1>3, SignalType, KindNames
  <2> QED
    BY <1>1, <1>2, <2>1
<1>5. emittedCpu' \in [Pids -> Procs \cup {None}]
  <2>1. ASSUME NEW x \in Pids PROVE emittedCpu'[x] \in Procs \cup {None}
    BY <1>1, <1>3, LatchedBy DEF TypeOK
  <2> QED
    BY <1>1, <2>1
<1>6. now \in Nat
  BY DetectionAssumption DEF TypeOK
<1>7. /\ UNCHANGED <<world, queue, scores, responded, emittedStratum, streams, checked, now, history>>
      /\ lastCheck' = now /\ pc' = "sampled"
  BY DEF Sample
<1> QED
  BY <1>4, <1>5, <1>6, <1>7 DEF TypeOK, world, history

LEMMA TypePrune == TypeOK /\ Prune => TypeOK'
<1> SUFFICES ASSUME TypeOK, Prune PROVE TypeOK'
  OBVIOUS
<1>1. now \in Nat
  BY DetectionAssumption DEF TypeOK
<1>2. \A s \in DOMAIN scores' :
        /\ s \in DOMAIN scores
        /\ DOMAIN scores'[s].signals \subseteq DOMAIN scores[s].signals
        /\ scores'[s].last \in {now, scores[s].last}
  BY PruneKeeps DEF Prune
<1>3. /\ pc' = "top"
      /\ UNCHANGED <<world, queue, pending, responded, latches, clock, history>>
  BY DEF Prune
<1> QED
  BY <1>1, <1>2, <1>3 DEF TypeOK, world, latches, clock, history

LEMMA TypeStep == TypeOK /\ [Next]_vars => TypeOK'
<1> SUFFICES ASSUME TypeOK, [Next]_vars PROVE TypeOK'
  OBVIOUS
<1>1. CASE Idle
  BY <1>1 DEF TypeOK, Idle, world, latches, clock, history
<1>2. CASE EndEvent
  BY <1>2 DEF TypeOK, EndEvent, world, latches, clock, history
<1>3. CASE NotDue
  BY <1>3 DEF TypeOK, NotDue, world, latches, clock, history
<1>4. CASE UNCHANGED vars
  BY <1>4 DEF TypeOK, vars, world, latches, clock, history
<1> QED
  BY <1>1, <1>2, <1>3, <1>4, TypeWorld, TypeTake, TypeScore, TypeSample, TypePrune
  DEF Next, Consumer

LEMMA TypeInit == Init => TypeOK
  BY DetectionAssumption DEF Init, TypeOK

\* Every variable keeps its type, whatever the world does.
THEOREM TypeCorrect == Spec => []TypeOK
  BY TypeInit, TypeStep, PTL DEF Spec

(***************************************************************************)
(* Decay leaves evict_stale nothing: a score is as young as its youngest   *)
(* signal, because the signals are scored in the order of their times.     *)
(***************************************************************************)
Dates ==
  /\ \A s \in DOMAIN scores :
       /\ scores[s].last <= now
       /\ \A g \in DOMAIN scores[s].signals : g.time <= scores[s].last
  /\ \A i \in DOMAIN pending :
       /\ pending[i].time <= now
       /\ \A s \in DOMAIN scores : scores[s].last <= pending[i].time
       /\ \A j \in DOMAIN pending : pending[j].time = pending[i].time

\* What an event or a sample raises is dated now, and the scores hold nothing new.
LEMMA DatesNew ==
  ASSUME TypeOK, Dates, now' = now, \A i \in DOMAIN pending' : pending'[i].time = now,
         \A s \in DOMAIN scores' : s \in DOMAIN scores /\ scores'[s] = scores[s]
  PROVE  Dates'
<1>1. now \in Nat
  BY DetectionAssumption DEF TypeOK
<1> QED
  BY <1>1 DEF Dates

LEMMA DatesTake == TypeOK /\ Dates /\ Take => Dates'
<1> SUFFICES ASSUME TypeOK, Dates, Take PROVE Dates'
  OBVIOUS
<1> DEFINE ev == Head(queue)
<1>1. now' = now
  BY DEF Take, clock
<1>2. CASE ProcessExit(ev.who)
  BY <1>1, <1>2, DatesNew DEF ProcessExit, ResetScore, Without
<1>3. CASE \E kinds : ProcessFound(ev.who, kinds)
  BY <1>1, <1>3, DatesNew DEF ProcessFound, Found
<1>4. CASE FileEvent(ev.who, ev.what)
  <2>1. \A i \in DOMAIN pending' : pending'[i].time = now
    BY <1>4 DEF FileEvent, Found
  <2> QED
    BY <1>1, <1>4, <2>1, DatesNew DEF FileEvent
<1>5. CASE Connection(ev.who, ev.what)
  <2> DEFINE one == Signal("stratum_network", ev.who)
             two == Signal("c2_threat_intel", ev.who)
             three == Signal("c2_beaconing", ev.who)
  <2>1. one.time = now /\ two.time = now /\ three.time = now
    BY DEF Signal
  <2> HIDE DEF one, two, three
  <2>2. PICK stratum \in BOOLEAN, listed \in BOOLEAN, beacon \in BOOLEAN :
          /\ pending' = (IF stratum THEN <<one>> ELSE <<>>)
                          \o (IF listed THEN <<two>> ELSE <<>>)
                          \o (IF beacon THEN <<three>> ELSE <<>>)
          /\ UNCHANGED scores
    BY <1>5 DEF Connection, one, two, three
  <2>3. \A i \in DOMAIN pending' : pending'[i] \in {one, two, three}
    BY <2>2
  <2>4. \A i \in DOMAIN pending' : pending'[i].time = now
    BY <2>1, <2>3
  <2> QED
    BY <1>1, <2>2, <2>4, DatesNew
<1> QED
  BY <1>2, <1>3, <1>4, <1>5 DEF Take, Process

\* Whatever the response does, some of the pending signals stay, in their order.
LEMMA ScoreRest ==
  ASSUME TypeOK, Score1
  PROVE  \E t \in AddSignal(scores, Head(pending)) :
           /\ scores' = t /\ UNCHANGED <<clock, handled, polled, latches>>
           /\ Head(pending) = pending[1] /\ 1 \in DOMAIN pending
           /\ \A i \in DOMAIN pending' :
                \E j \in DOMAIN pending : pending'[i] = pending[j]
<1>1. PICK t \in AddSignal(scores, Head(pending)) :
        /\ scores' = t
        /\ pending' \in {Tail(pending), <<>>}
  BY DEF Score1, Respond, Suspend, Quarantine, ResponseFails, GoesOn, Raises
<1>2. pending \in Seq(Signals) /\ pending # <<>>
  BY DEF TypeOK, Score1
<1>3. \A i \in DOMAIN Tail(pending) : i + 1 \in DOMAIN pending /\ Tail(pending)[i] = pending[i + 1]
  BY <1>2, HeadTail
<1>4. Head(pending) = pending[1] /\ 1 \in DOMAIN pending
  BY <1>2, HeadTail
<1> QED
  BY <1>1, <1>3, <1>4 DEF Score1

LEMMA DatesScore == TypeOK /\ Dates /\ Score1 => Dates'
<1> SUFFICES ASSUME TypeOK, Dates, Score1 PROVE Dates'
  OBVIOUS
<1> DEFINE sig == pending[1]
<1>1. PICK t \in AddSignal(scores, sig) :
        /\ scores' = t /\ now' = now /\ 1 \in DOMAIN pending
        /\ \A i \in DOMAIN pending' : \E j \in DOMAIN pending : pending'[i] = pending[j]
  BY ScoreRest DEF clock
<1>2. sig \in Signals /\ sig.time \in Nat /\ now \in Nat
  <2>1. pending \in Seq(Signals)
    BY DEF TypeOK
  <2>2. sig \in Signals
    BY <1>1, <2>1
  <2> QED
    BY <2>2, DetectionAssumption DEF TypeOK, Signals
<1>3. sig.time <= now /\ \A j \in DOMAIN pending : pending[j].time = sig.time
  BY <1>1 DEF Dates
<1>4. ASSUME NEW s \in DOMAIN t
      PROVE  /\ t[s].last \in Nat /\ t[s].last <= sig.time
             /\ \A g \in DOMAIN t[s].signals : g.time <= t[s].last
  <2>1. CASE s \in DOMAIN scores /\ t[s] = scores[s]
    BY <1>1, <2>1 DEF Dates, TypeOK
  <2>2. CASE s = sig.subject /\ t[s].last = sig.time
    <3>1. ASSUME NEW g \in DOMAIN t[s].signals PROVE g.time <= sig.time
      <4>1. CASE g = sig
        BY <1>2, <4>1
      <4>2. CASE s \in DOMAIN scores /\ g \in DOMAIN scores[s].signals
        <5>1. g.time <= scores[s].last /\ scores[s].last <= sig.time
          BY <1>1, <4>2 DEF Dates
        <5>2. g.time \in Nat /\ scores[s].last \in Nat
          BY <4>2 DEF TypeOK, Signals
        <5> QED
          BY <1>2, <5>1, <5>2
      <4> QED
        BY <4>1, <4>2, AddKeeps
    <3> QED
      BY <1>2, <2>2, <3>1
  <2> QED
    BY <2>1, <2>2, AddKeeps
<1> HIDE DEF sig
<1> QED
  BY <1>1, <1>2, <1>3, <1>4 DEF Dates

LEMMA DatesPrune == TypeOK /\ Dates /\ Prune => Dates'
<1> SUFFICES ASSUME TypeOK, Dates, Prune PROVE Dates'
  OBVIOUS
<1>1. now' = now /\ pending = <<>> /\ pending' = <<>> /\ now \in Nat
  BY DetectionAssumption DEF Prune, clock, TypeOK
<1>2. ASSUME NEW s \in DOMAIN scores'
      PROVE  /\ scores'[s].last <= now
             /\ \A g \in DOMAIN scores'[s].signals : g.time <= scores'[s].last
  <2>1. /\ s \in DOMAIN scores
        /\ DOMAIN scores'[s].signals \subseteq DOMAIN scores[s].signals
        /\ scores'[s].last \in {now, scores[s].last}
    BY PruneKeeps DEF Prune
  <2>2. scores[s].last \in Nat /\ scores[s].last <= now
    BY <2>1 DEF TypeOK, Dates
  <2>3. \A g \in DOMAIN scores[s].signals : g.time \in Nat /\ g.time <= scores[s].last
    BY <2>1 DEF TypeOK, Dates, Signals
  <2> QED
    BY <1>1, <2>1, <2>2, <2>3
<1> QED
  BY <1>1, <1>2 DEF Dates

LEMMA DatesStep == TypeOK /\ Dates /\ [Next]_vars => Dates'
<1> SUFFICES ASSUME TypeOK, Dates, [Next]_vars PROVE Dates'
  OBVIOUS
<1>1. CASE Sample
  <2>1. /\ now' = now /\ scores' = scores
        /\ \A i \in DOMAIN pending' : pending'[i].time = now
    BY <1>1 DEF Sample, Signal
  <2> QED
    BY <2>1, DatesNew
<1>2. CASE Tick
  <2>1. now' = now + 1 /\ UNCHANGED <<scores, pending>> /\ now \in Nat
    BY <1>2, DetectionAssumption DEF Tick, consumer, TypeOK
  <2>2. \A s \in DOMAIN scores : scores[s].last \in Nat
    BY DEF TypeOK
  <2>3. ASSUME NEW i \in DOMAIN pending PROVE pending[i].time \in Nat
    <3>1. pending \in Seq(Signals)
      BY DEF TypeOK
    <3>2. pending[i] \in Signals
      BY <3>1
    <3> QED
      BY <3>2 DEF Signals
  <2> QED
    BY <2>1, <2>2, <2>3 DEF Dates
<1>3. CASE UNCHANGED <<scores, pending, now>>
  BY <1>3 DEF Dates
<1>4. World => Tick \/ UNCHANGED <<scores, pending, now>>
  BY DEF World, Start, Exit, ReportExit, Act, Snapshot, PublishPolled, Drop, consumer, clock
<1>5. Idle \/ EndEvent \/ NotDue \/ UNCHANGED vars => UNCHANGED <<scores, pending, now>>
  BY DEF Idle, EndEvent, NotDue, vars, clock
<1> QED
  BY <1>1, <1>2, <1>3, <1>4, <1>5, DatesTake, DatesScore, DatesPrune DEF Next, Consumer

LEMMA DatesKept == TypeOK /\ Dates => ActiveIsKept
<1> SUFFICES ASSUME TypeOK, Dates, NEW s \in DOMAIN Decay(scores, now)
             PROVE  s \in DOMAIN EvictStale(Decay(scores, now), now)
  BY DEF ActiveIsKept
<1> DEFINE after == Decay(scores, now)[s]
<1>1. s \in DOMAIN scores /\ after = Pruned(scores[s], now) /\ DOMAIN after.signals # {}
  BY DecayKeeps
<1>2. PICK g \in DOMAIN after.signals : TRUE
  BY <1>1
<1>3. g \in DOMAIN scores[s].signals /\ g.time >= now - SignalTtl
      /\ after.last \in {now, scores[s].last}
  BY <1>1, <1>2, PrunedKeeps
<1>4. g.time <= scores[s].last /\ scores[s].last <= now
  BY <1>1, <1>3 DEF Dates
<1>5. g.time \in Nat /\ scores[s].last \in Nat /\ now \in Nat
  BY <1>1, <1>3, DetectionAssumption DEF TypeOK, Signals
<1>6. SignalTtl \in Nat /\ MaxAge \in Nat /\ SignalTtl <= MaxAge
  BY ScoringAssumption
<1> HIDE DEF after
<1>7. after.last \in Nat /\ after.last >= now - MaxAge
  BY <1>3, <1>4, <1>5, <1>6
<1>8. ~(after.last < now - MaxAge)
  BY <1>5, <1>6, <1>7
<1> QED
  BY <1>8 DEF EvictStale, Without, after

\* evict_stale, run after decay with a longer age than decay's, takes nothing that
\* decay has left.
THEOREM StaleIsDecayed == Spec => []ActiveIsKept
<1>1. Init => TypeOK /\ Dates
  BY TypeInit DEF Init, Dates
<1>2. (TypeOK /\ Dates) /\ [Next]_vars => (TypeOK /\ Dates)'
  BY TypeStep, DatesStep
<1> QED
  BY <1>1, <1>2, DatesKept, PTL DEF Spec

(***************************************************************************)
(* Whose signals they are.  A process is live from its start until its     *)
(* exit was processed.  With Prompt no two live processes share a pid, and *)
(* all that is queued, scored, latched or counted is about live processes: *)
(* this is the strengthening RightProcess and LatchesAreOwn need.          *)
(***************************************************************************)
Live(p) == life[p] # "new" /\ p \notin handled

AboutProcess(ev) == ev.type \in {"exit", "process", "connection"}

\* The event of q's exit is the last that is about a process.
Owned ==
  /\ \A p \in handled : life[p] = "reported"
  /\ \A p, q \in Procs : Live(p) /\ Live(q) /\ Pid[p] = Pid[q] => p = q
  /\ \A ev \in polled :
       ev.type = "connection" /\ ev.who \in Procs /\ Live(ev.who) /\ life[ev.who] # "reported"
  /\ \A i \in DOMAIN queue : AboutProcess(queue[i]) =>
       /\ queue[i].who \in Procs /\ Live(queue[i].who)
       /\ queue[i].type = "exit" => life[queue[i].who] = "reported"
       /\ \A j \in DOMAIN queue :
            j < i /\ queue[j].type = "exit" => queue[j].who # queue[i].who

OwnSignal(g) ==
  \/ g.subject \in Files /\ g.about = g.subject
  \/ /\ g.subject \in Pids /\ g.about \in Procs
     /\ Live(g.about) /\ Pid[g.about] = g.subject

Evidence ==
  /\ \A i \in DOMAIN pending : OwnSignal(pending[i])
  /\ \A s \in DOMAIN scores : \A g \in DOMAIN scores[s].signals : OwnSignal(g)
  /\ \A x \in Pids : emittedCpu[x] # None =>
       Live(emittedCpu[x]) /\ Pid[emittedCpu[x]] = x
  /\ \A key \in Pids \X Remotes : \A i \in DOMAIN streams[key] :
       Live(streams[key][i]) /\ Pid[streams[key][i]] = key[1]

\* A queue without its head: the order of what is left is the same.
LEMMA OwnedTail ==
  ASSUME TypeOK, Owned, queue # <<>>,
         NEW i \in DOMAIN Tail(queue), AboutProcess(Tail(queue)[i])
  PROVE  LET who == Tail(queue)[i].who IN
           /\ who \in Procs /\ Live(who)
           /\ Tail(queue)[i].type = "exit" => life[who] = "reported"
           /\ Head(queue).type = "exit" => Head(queue).who # who
           /\ \A j \in DOMAIN Tail(queue) :
                j < i /\ Tail(queue)[j].type = "exit" => Tail(queue)[j].who # who
<1>1. queue \in Seq(Events)
  BY DEF TypeOK
<1>2. \A k \in DOMAIN Tail(queue) :
        k \in Nat \ {0} /\ k + 1 \in DOMAIN queue /\ Tail(queue)[k] = queue[k + 1]
  BY <1>1
<1>3. Head(queue) = queue[1] /\ 1 \in DOMAIN queue /\ 1 < i + 1
  BY <1>1, <1>2
<1>4. \A j \in DOMAIN Tail(queue) : j < i => j + 1 < i + 1
  BY <1>2
<1> QED
  BY <1>2, <1>3, <1>4 DEF Owned

\* An event about a live process that was not reported, or one about no process,
\* may come last.
LEMMA OwnedAppend ==
  ASSUME TypeOK, Owned, NEW ev \in Events, queue' = Append(queue, ev),
         handled' = handled, polled' \subseteq polled,
         \A p \in Procs : life'[p] = life[p]
                        \/ (ev.type = "exit" /\ ev.who = p /\ life'[p] = "reported" /\ life[p] = "exited")
                        \/ (life[p] = "running" /\ life'[p] = "suspended"),
         AboutProcess(ev) => /\ ev.who \in Procs /\ Live(ev.who)
                             /\ life[ev.who] # "reported"
                             /\ ev.type = "exit" => life'[ev.who] = "reported",
         ev.type = "exit" => \A old \in polled : old.who # ev.who
  PROVE  Owned'
<1> DEFINE After(p) == life'[p] # "new" /\ p \notin handled'
<1>1. queue \in Seq(Events) /\ handled \subseteq Procs
  BY DEF TypeOK
<1>2. \A p \in Procs : Live(p) <=> After(p)
  BY DEF Live
<1>3. \A p \in handled' : life'[p] = "reported"
  BY <1>1 DEF Owned
<1>4. \A old \in polled' :
        old.type = "connection" /\ old.who \in Procs /\ After(old.who) /\ life'[old.who] # "reported"
  BY <1>2 DEF Owned
<1>5. DOMAIN queue' = 1..(Len(queue) + 1)
      /\ queue'[Len(queue) + 1] = ev
      /\ \A i \in 1..Len(queue) : queue'[i] = queue[i] /\ i \in DOMAIN queue
  BY <1>1
<1>6. ASSUME NEW i \in 1..Len(queue), AboutProcess(queue[i])
      PROVE  /\ queue[i].who \in Procs /\ After(queue[i].who)
             /\ queue[i].type = "exit" => life'[queue[i].who] = "reported"
             /\ \A j \in 1..Len(queue) :
                  j < i /\ queue[j].type = "exit" => queue[j].who # queue[i].who
  BY <1>2, <1>5, <1>6 DEF Owned
<1>7. ASSUME AboutProcess(ev), NEW j \in 1..Len(queue), queue[j].type = "exit"
      PROVE  queue[j].who # ev.who
  BY <1>5, <1>7 DEF Owned, AboutProcess
<1>8. ASSUME NEW i \in DOMAIN queue', AboutProcess(queue'[i])
      PROVE  /\ queue'[i].who \in Procs /\ After(queue'[i].who)
             /\ queue'[i].type = "exit" => life'[queue'[i].who] = "reported"
             /\ \A j \in DOMAIN queue' :
                  j < i /\ queue'[j].type = "exit" => queue'[j].who # queue'[i].who
  <2>0. Len(queue) \in Nat
    BY <1>1
  <2> HIDE DEF After
  <2>1. CASE i = Len(queue) + 1
    BY <1>2, <1>5, <1>7, <1>8, <2>0, <2>1
  <2>2. CASE i \in 1..Len(queue)
    BY <1>5, <1>6, <1>8, <2>0, <2>2
  <2> QED
    BY <1>5, <2>0, <2>1, <2>2
<1>9. \A p, q \in Procs : After(p) /\ After(q) /\ Pid[p] = Pid[q] => p = q
  BY <1>2 DEF Owned
<1> QED
  BY <1>3, <1>4, <1>8, <1>9 DEF Owned, AboutProcess, Live

\* A step that leaves queue and polls alone, and reports nobody.
LEMMA OwnedStays ==
  ASSUME TypeOK, Owned, UNCHANGED <<queue, polled, handled>>,
         \A p \in Procs : life'[p] = life[p]
                        \/ (life[p] \in {"running", "suspended"} /\ life'[p] \in {"suspended", "exited"})
  PROVE  Owned'
<1> DEFINE After(p) == life'[p] # "new" /\ p \notin handled'
<1>1. \A p \in Procs : (Live(p) <=> After(p)) /\ (life'[p] = "reported" <=> life[p] = "reported")
  BY DEF Live
<1>2. handled \subseteq Procs
  BY DEF TypeOK
<1> QED
  BY <1>1, <1>2 DEF Owned, AboutProcess, Live

LEMMA OwnedStart ==
  ASSUME TypeOK, Owned, Prompt, NEW p \in Procs, Start(p)
  PROVE  Owned'
<1> DEFINE After(q) == life'[q] # "new" /\ q \notin handled'
<1>1. /\ \A q \in Procs : life'[q] = IF q = p THEN "running" ELSE life[q]
      /\ UNCHANGED <<queue, polled, handled>>
  BY DEF Start, TypeOK, history
<1>2. p \notin handled /\ life[p] = "new" /\ ~Live(p)
  BY DEF Owned, Start, Live
<1>3. \A q \in Procs : q # p => (After(q) <=> Live(q))
  BY <1>1 DEF Live
<1>4. \A q \in Procs \ {p} : Pid[q] = Pid[p] => ~Live(q)
  BY DEF Start, Left, Live
<1>5. \A q, r \in Procs : After(q) /\ After(r) /\ Pid[q] = Pid[r] => q = r
  BY <1>3, <1>4 DEF Owned
<1>6. handled \subseteq Procs
  BY DEF TypeOK
<1>7. \A ev \in polled : ev.who \in Procs /\ ev.who # p /\ life'[ev.who] = life[ev.who]
  BY <1>1, <1>2 DEF Owned
<1>8. \A i \in DOMAIN queue : AboutProcess(queue[i]) =>
        queue[i].who # p /\ After(queue[i].who) /\ life'[queue[i].who] = life[queue[i].who]
  BY <1>1, <1>2, <1>3 DEF Owned
<1>9. \A q \in handled' : life'[q] = "reported"
  BY <1>1, <1>2, <1>6 DEF Owned
<1>10. \A ev \in polled' :
         ev.type = "connection" /\ ev.who \in Procs /\ After(ev.who) /\ life'[ev.who] # "reported"
  BY <1>1, <1>3, <1>7 DEF Owned
<1> QED
  BY <1>1, <1>5, <1>8, <1>9, <1>10 DEF Owned, AboutProcess, Live

LEMMA HereIsLive == TypeOK /\ Owned => \A p \in Procs :
  Here(p) \/ life[p] = "exited" => Live(p) /\ life[p] # "reported"
  BY DEF Owned, Here, Live

LEMMA OwnedWorld ==
  ASSUME TypeOK, Owned, Prompt, World
  PROVE  Owned' /\ \A p \in Procs : Live(p) => life'[p] # "new" /\ p \notin handled'
<1> USE DEF TypeOK, consumer, latches, clock, history, world
<1>0. ASSUME NEW ev, Make(ev) PROVE queue' = Append(queue, ev)
  BY <1>0 DEF Make, Publish
<1>1. ASSUME NEW p \in Procs, Start(p) PROVE Owned'
  BY <1>1, OwnedStart
<1>2. ASSUME NEW p \in Procs, Exit(p) PROVE Owned'
  <2>1. \A q \in Procs : life'[q] = life[q]
          \/ (life[q] \in {"running", "suspended"} /\ life'[q] \in {"suspended", "exited"})
    BY <1>2 DEF Exit, Here
  <2>2. UNCHANGED <<queue, polled, handled>>
    BY <1>2 DEF Exit
  <2> QED
    BY <2>1, <2>2, OwnedStays
<1>3. ASSUME NEW p \in Procs, ReportExit(p) PROVE Owned'
  <2> DEFINE ev == [type |-> "exit", who |-> p, what |-> None]
  <2>1. ev \in Events /\ ev.type = "exit" /\ ev.who = p
    BY DEF Events
  <2>2. /\ queue' = Append(queue, ev) /\ UNCHANGED <<polled, handled>>
        /\ life[p] = "exited" /\ life' = [life EXCEPT ![p] = "reported"]
        /\ \A old \in polled : old.who # p
    BY <1>3 DEF ReportExit, Publish
  <2>3. Live(p)
    BY <2>2, HereIsLive
  <2> HIDE DEF ev
  <2>4. \A q \in Procs : life'[q] = life[q]
          \/ (ev.type = "exit" /\ ev.who = q /\ life'[q] = "reported" /\ life[q] = "exited")
    BY <2>1, <2>2
  <2>5. life'[p] = "reported"
    BY <2>2
  <2> QED
    BY <2>1, <2>2, <2>3, <2>4, <2>5, OwnedAppend
<1>4. ASSUME NEW p \in Procs, NEW kinds \in ProcessKinds, Act(p, kinds) PROVE Owned'
  <2> DEFINE ev == [type |-> "process", who |-> p, what |-> kinds]
  <2>1. ev \in Events /\ ev.type = "process" /\ ev.who = p
    BY DetectionAssumption DEF Events
  <2>2. queue' = Append(queue, ev) /\ UNCHANGED <<life, polled, handled>> /\ life[p] = "running"
    BY <1>0, <1>4 DEF Act
  <2>3. Live(p)
    BY <2>2, HereIsLive DEF Here
  <2> HIDE DEF ev
  <2> QED
    BY <2>1, <2>2, <2>3, OwnedAppend
<1>5. ASSUME NEW p \in Procs, NEW r \in Remotes, Snapshot(p, r) PROVE Owned'
  <2>1. Live(p) /\ life[p] # "reported"
    BY <1>5, HereIsLive DEF Snapshot, Here
  <2>2. /\ polled' = {[type |-> "connection", who |-> p, what |-> r]}
        /\ UNCHANGED <<life, queue, handled>>
    BY <1>5 DEF Snapshot
  <2> QED
    BY <2>1, <2>2 DEF Owned, Live, AboutProcess
<1>6. ASSUME PublishPolled PROVE Owned'
  <2>1. PICK ev \in polled : /\ Make(ev)
                             /\ polled' = polled \ {ev}
                             /\ UNCHANGED <<life, onDisk, consumer, clock, history>>
    BY <1>6 DEF PublishPolled
  <2>2. /\ ev \in Events /\ ev.type = "connection" /\ ev.who \in Procs
        /\ Live(ev.who) /\ life[ev.who] # "reported"
    BY DEF Owned
  <2>3. queue' = Append(queue, ev) /\ UNCHANGED <<life, handled>> /\ polled' \subseteq polled
    BY <1>0, <2>1
  <2> QED
    BY <2>2, <2>3, OwnedAppend
<1>7. ASSUME NEW f \in Files, Drop(f) PROVE Owned'
  <2> DEFINE ev == [type |-> "file", who |-> f, what |-> FileKinds[f]]
  <2>1. ev \in Events /\ ev.type = "file"
    BY DetectionAssumption DEF Events
  <2>2. queue' = Append(queue, ev) /\ UNCHANGED <<life, polled, handled>>
    BY <1>0, <1>7 DEF Drop
  <2> HIDE DEF ev
  <2> QED
    BY <2>1, <2>2, OwnedAppend DEF AboutProcess
<1>8. ASSUME Tick PROVE Owned'
  <2>1. UNCHANGED <<life, queue, polled, handled>>
    BY <1>8 DEF Tick
  <2> QED
    BY <2>1, OwnedStays
<1>9. \A p \in Procs : Live(p) => life'[p] # "new" /\ p \notin handled'
  BY DEF World, Start, Exit, ReportExit, Act, Snapshot, PublishPolled, Drop, Tick, Live
<1> QED
  BY <1>1, <1>2, <1>3, <1>4, <1>5, <1>6, <1>7, <1>8, <1>9 DEF World

\* The evidence stays its owner's while the owners stay live and no signal is new.
LEMMA EvidenceStays ==
  ASSUME TypeOK, Evidence,
         \A p \in Procs : Live(p) => life'[p] # "new" /\ p \notin handled',
         UNCHANGED <<emittedCpu, streams>>,
         \A i \in DOMAIN pending' : \E j \in DOMAIN pending : pending'[i] = pending[j],
         \A s \in DOMAIN scores' : \A g \in DOMAIN scores'[s].signals :
           \/ \E j \in DOMAIN pending : g = pending[j]
           \/ s \in DOMAIN scores /\ g \in DOMAIN scores[s].signals
  PROVE  Evidence'
<1> DEFINE OwnAfter(g) == \/ g.subject \in Files /\ g.about = g.subject
                          \/ /\ g.subject \in Pids /\ g.about \in Procs
                             /\ life'[g.about] # "new" /\ g.about \notin handled'
                             /\ Pid[g.about] = g.subject
<1>1. \A g : OwnSignal(g) => OwnAfter(g)
  BY DEF OwnSignal
<1>2. \A i \in DOMAIN pending' : OwnAfter(pending'[i])
  BY <1>1 DEF Evidence
<1>3. \A s \in DOMAIN scores' : \A g \in DOMAIN scores'[s].signals : OwnAfter(g)
  BY <1>1 DEF Evidence
<1>4. \A x \in Pids : emittedCpu'[x] # None =>
        /\ life'[emittedCpu'[x]] # "new" /\ emittedCpu'[x] \notin handled'
        /\ Pid[emittedCpu'[x]] = x
  BY DEF Evidence, TypeOK
<1>5. \A key \in Pids \X Remotes : \A i \in DOMAIN streams[key] : streams[key][i] \in Procs
  BY DEF TypeOK
<1>6. \A key \in Pids \X Remotes : \A i \in DOMAIN streams'[key] :
        /\ life'[streams'[key][i]] # "new" /\ streams'[key][i] \notin handled'
        /\ Pid[streams'[key][i]] = key[1]
  BY <1>5 DEF Evidence
<1> QED
  BY <1>2, <1>3, <1>4, <1>6 DEF Evidence, OwnSignal, Live

LEMMA OwnedTake ==
  ASSUME TypeOK, Owned, Take
  PROVE  Owned'
<1> DEFINE ev == Head(queue)
           After(p) == life'[p] # "new" /\ p \notin handled'
<1>1. queue # <<>> /\ queue' = Tail(queue) /\ UNCHANGED <<life, polled>>
  BY DEF Take, world
<1>2. \/ ev.type = "exit" /\ handled' = handled \cup {ev.who}
      \/ ev.type # "exit" /\ handled' = handled
  BY DEF Take, Process, ProcessExit, ProcessFound, Connection, FileEvent
<1>3. ev.type = "exit" => ev.who \in Procs /\ life[ev.who] = "reported"
  <2>1. 1 \in DOMAIN queue /\ queue[1] = ev
    BY <1>1, HeadTail DEF TypeOK
  <2> QED
    BY <2>1 DEF Owned, AboutProcess
<1>4. \A p \in Procs : After(p) => Live(p)
  BY <1>1, <1>2 DEF Live
<1>5. \A p \in Procs : Live(p) /\ ~(ev.type = "exit" /\ ev.who = p) => After(p)
  BY <1>1, <1>2 DEF Live
<1>6. \A p \in handled' : life'[p] = "reported"
  BY <1>1, <1>2, <1>3 DEF Owned
<1>7. \A p, q \in Procs : After(p) /\ After(q) /\ Pid[p] = Pid[q] => p = q
  BY <1>4 DEF Owned
<1>8. \A old \in polled' :
        old.type = "connection" /\ old.who \in Procs /\ After(old.who) /\ life'[old.who] # "reported"
  BY <1>1, <1>3, <1>5 DEF Owned
<1> HIDE DEF After
<1>9. ASSUME NEW i \in DOMAIN Tail(queue), AboutProcess(Tail(queue)[i])
      PROVE  LET who == Tail(queue)[i].who IN
               /\ who \in Procs /\ After(who)
               /\ Tail(queue)[i].type = "exit" => life[who] = "reported"
               /\ \A j \in DOMAIN Tail(queue) :
                    j < i /\ Tail(queue)[j].type = "exit" => Tail(queue)[j].who # who
  BY <1>1, <1>5, <1>9, OwnedTail
<1> USE DEF After
<1> QED
  BY <1>1, <1>6, <1>7, <1>8, <1>9 DEF Owned, AboutProcess, Live

\* The exit of p: nothing that is left is p's, because p's evidence is that of its pid.
LEMMA EvidenceExit ==
  ASSUME TypeOK, Evidence, NEW p \in Procs, ProcessExit(p), UNCHANGED life
  PROVE  Evidence'
<1> DEFINE After(q) == life'[q] # "new" /\ q \notin handled'
<1>1. \A q \in Procs : Live(q) /\ Pid[q] # Pid[p] => After(q)
  BY DEF ProcessExit, Live
<1>2. pending' = <<>>
  BY DEF ProcessExit
<1>3. ASSUME NEW s \in DOMAIN scores', NEW g \in DOMAIN scores'[s].signals
      PROVE  \/ g.subject \in Files /\ g.about = g.subject
             \/ /\ g.subject \in Pids /\ g.about \in Procs
                /\ After(g.about) /\ Pid[g.about] = g.subject
  <2>1. s \in DOMAIN scores /\ s # Pid[p] /\ scores'[s] = scores[s]
    BY DEF ProcessExit, ResetScore, Without
  <2>2. OwnSignal(g) /\ g.subject = s
    BY <2>1 DEF Evidence, TypeOK
  <2> QED
    BY <1>1, <2>1, <2>2 DEF OwnSignal
<1>4. ASSUME NEW x \in Pids, emittedCpu'[x] # None
      PROVE  After(emittedCpu'[x]) /\ Pid[emittedCpu'[x]] = x
  <2>1. emittedCpu'[x] = emittedCpu[x] /\ x # Pid[p]
    BY <1>4 DEF ProcessExit, TypeOK
  <2>2. emittedCpu[x] \in Procs /\ Live(emittedCpu[x]) /\ Pid[emittedCpu[x]] = x
    BY <1>4, <2>1 DEF Evidence, TypeOK
  <2> QED
    BY <1>1, <2>1, <2>2
<1>5. ASSUME NEW key \in Pids \X Remotes, NEW i \in DOMAIN streams'[key]
      PROVE  After(streams'[key][i]) /\ Pid[streams'[key][i]] = key[1]
  <2>1. streams'[key] = IF key[1] = Pid[p] THEN <<>> ELSE streams[key]
    BY DEF ProcessExit, ResetStreams, TypeOK
  <2>2. key[1] # Pid[p] /\ streams'[key] = streams[key]
    BY <2>1
  <2>3. streams[key] \in Seq(Procs)
    BY DEF TypeOK
  <2>4. streams[key][i] \in Procs
    BY <2>2, <2>3
  <2> QED
    BY <1>1, <2>2, <2>4 DEF Evidence
<1> QED
  BY <1>2, <1>3, <1>4, <1>5 DEF Evidence, OwnSignal, Live

LEMMA EvidenceTake ==
  ASSUME TypeOK, Owned, Evidence, Take
  PROVE  Evidence'
<1> DEFINE ev == Head(queue)
<1>1. /\ queue # <<>> /\ UNCHANGED life
      /\ ev \in Events /\ 1 \in DOMAIN queue /\ queue[1] = ev
  BY HeadTail DEF Take, world, TypeOK
<1>2. AboutProcess(ev) => ev.who \in Procs /\ Live(ev.who) /\ Pid[ev.who] \in Pids
  BY <1>1, SubjectOfProcess DEF Owned
<1>3. CASE ev.type = "exit" /\ ProcessExit(ev.who)
  BY <1>1, <1>2, <1>3, EvidenceExit DEF AboutProcess
\* The other events raise signals of their subject and leave the scores alone.
<1>4. ASSUME UNCHANGED <<scores, emittedCpu, handled>>,
             \A i \in DOMAIN pending' : OwnSignal(pending'[i]),
             \A key \in Pids \X Remotes : \A i \in DOMAIN streams'[key] :
               Live(streams'[key][i]) /\ Pid[streams'[key][i]] = key[1]
      PROVE  Evidence'
  BY <1>1, <1>4 DEF Evidence, OwnSignal, Live
<1>5. \A key \in Pids \X Remotes : \A i \in DOMAIN streams[key] :
        Live(streams[key][i]) /\ Pid[streams[key][i]] = key[1]
  BY DEF Evidence
<1>6. CASE ev.type = "process" /\ ProcessFound(ev.who, ev.what)
  <2>1. \A i \in DOMAIN pending' : OwnSignal(pending'[i])
    BY <1>2, <1>6 DEF ProcessFound, Found, OwnSignal, AboutProcess
  <2> QED
    BY <1>4, <1>5, <1>6, <2>1 DEF ProcessFound, latches
<1>7. CASE ev.type = "suspended" /\ ProcessFound(ev.who, <<>>)
  <2>1. \A i \in DOMAIN pending' : OwnSignal(pending'[i])
    BY <1>7 DEF ProcessFound, Found
  <2> QED
    BY <1>4, <1>5, <1>7, <2>1 DEF ProcessFound, latches
<1>8. CASE ev.type = "file" /\ FileEvent(ev.who, ev.what)
  <2>1. ev.who \in Files
    BY <1>1, <1>8 DEF Events
  <2>2. \A i \in DOMAIN pending' : OwnSignal(pending'[i])
    BY <1>8, <2>1 DEF FileEvent, Found, OwnSignal
  <2> QED
    BY <1>4, <1>5, <1>8, <2>2 DEF FileEvent
<1>9. CASE ev.type = "connection" /\ Connection(ev.who, ev.what)
  <2> DEFINE p == ev.who
             r == ev.what
             one == Signal("stratum_network", p)
             two == Signal("c2_threat_intel", p)
             three == Signal("c2_beaconing", p)
  <2>1. p \in Procs /\ Live(p) /\ r \in Remotes /\ Pid[p] \in Pids
    BY <1>1, <1>2, <1>9 DEF Events, AboutProcess
  <2>2. OwnSignal(one) /\ OwnSignal(two) /\ OwnSignal(three)
    BY <2>1 DEF OwnSignal, Signal
  <2> HIDE DEF one, two, three
  <2>3. PICK stratum \in BOOLEAN, listed \in BOOLEAN, beacon \in BOOLEAN :
          /\ pending' = (IF stratum THEN <<one>> ELSE <<>>)
                          \o (IF listed THEN <<two>> ELSE <<>>)
                          \o (IF beacon THEN <<three>> ELSE <<>>)
          /\ streams' = [streams EXCEPT ![<<Pid[p], r>>] = Append(streams[<<Pid[p], r>>], p)]
          /\ UNCHANGED <<scores, responded, emittedCpu, checked, handled>>
    BY <1>9 DEF Connection, one, two, three
  <2>4. \A i \in DOMAIN pending' : pending'[i] \in {one, two, three}
    BY <2>3
  <2>5. \A i \in DOMAIN pending' : OwnSignal(pending'[i])
    BY <2>2, <2>4
  <2>6. ASSUME NEW key \in Pids \X Remotes, NEW i \in DOMAIN streams'[key]
        PROVE  Live(streams'[key][i]) /\ Pid[streams'[key][i]] = key[1]
    <3>1. CASE key = <<Pid[p], r>>
      <4>1. streams'[key] = Append(streams[key], p)
        BY <2>3, <3>1 DEF TypeOK
      <4>2. streams[key] \in Seq(Procs)
        BY DEF TypeOK
      <4>3. streams'[key][i] = p \/ (i \in DOMAIN streams[key] /\ streams'[key][i] = streams[key][i])
        BY <4>1, <4>2
      <4>4. key[1] = Pid[p]
        BY <3>1
      <4> QED
        BY <1>5, <2>1, <4>3, <4>4
    <3>2. CASE key # <<Pid[p], r>>
      <4>1. streams'[key] = streams[key]
        BY <2>3, <3>2 DEF TypeOK
      <4> QED
        BY <1>5, <4>1
    <3> QED
      BY <3>1, <3>2
  <2> QED
    BY <1>4, <2>3, <2>5, <2>6
<1> QED
  BY <1>3, <1>6, <1>7, <1>8, <1>9 DEF Take, Process

\* A response suspends an owner of the pid for the signals of the pid: its own.
LEMMA OwnScore ==
  ASSUME TypeOK, Owned, Evidence, RightProcess, Prompt, Score1
  PROVE  (Owned /\ Evidence /\ RightProcess)'
<1> DEFINE sig == Head(pending)
<1>1. PICK t \in AddSignal(scores, sig) :
        /\ scores' = t
        /\ IF ShouldRespond(t, sig.subject) /\ sig.subject \notin responded
             THEN Respond(t, sig.subject)
             ELSE GoesOn /\ UNCHANGED <<life, onDisk, queue, responded, attempted, blamed>>
  BY DEF Score1
<1>2. sig \in Signals /\ OwnSignal(sig) /\ \E j \in DOMAIN pending : sig = pending[j]
  <2>1. pending \in Seq(Signals) /\ pending # <<>>
    BY DEF TypeOK, Score1
  <2>2. 1 \in DOMAIN pending /\ sig = pending[1] /\ sig \in Signals
    BY <2>1
  <2> QED
    BY <2>2 DEF Evidence
<1>3. /\ UNCHANGED <<emittedCpu, streams, handled, polled>>
      /\ \A i \in DOMAIN pending' : \E j \in DOMAIN pending : pending'[i] = pending[j]
  BY ScoreRest DEF latches
<1>4. \A s \in DOMAIN t : \A g \in DOMAIN t[s].signals :
        \/ s = sig.subject /\ g = sig
        \/ s \in DOMAIN scores /\ g \in DOMAIN scores[s].signals
  BY AddKeeps
<1>5. \A s \in DOMAIN t : \A g \in DOMAIN t[s].signals : OwnSignal(g) /\ g.subject = s
  BY <1>2, <1>4 DEF Evidence, TypeOK
<1>6. CASE Respond(t, sig.subject) /\ Suspend(t, sig.subject) /\ sig.subject \in DOMAIN t
  <2> DEFINE s == sig.subject
  <2>1. PICK p \in Owners(s) :
          /\ life' = [life EXCEPT ![p] = "suspended"]
          /\ blamed' = [blamed EXCEPT ![p] = @ \cup {g.about : g \in DOMAIN t[s].signals}]
          /\ \/ queue' = Publish(queue, [type |-> "suspended", who |-> p, what |-> None])
             \/ UNCHANGED queue
    BY <1>6 DEF Suspend
  <2>2. p \in Procs /\ Here(p) /\ Pid[p] = s /\ Live(p)
    BY HereIsLive DEF Owners
  <2>3. \A g \in DOMAIN t[s].signals : g.about = p
    <3>1. s \in Pids /\ s \notin Files
      BY <2>2, DetectionAssumption
    <3> QED
      BY <1>5, <1>6, <2>2, <3>1 DEF OwnSignal, Owned
  <2>4. RightProcess'
    BY <2>1, <2>2, <2>3 DEF RightProcess, TypeOK
  <2>5. \A q \in Procs : life'[q] = life[q]
          \/ (life[q] \in {"running", "suspended"} /\ life'[q] = "suspended")
    BY <2>1, <2>2 DEF Here, TypeOK
  <2>6. Owned'
    <3>1. CASE UNCHANGED queue
      BY <1>3, <2>5, <3>1, OwnedStays
    <3>2. CASE queue' = Publish(queue, [type |-> "suspended", who |-> p, what |-> None])
      <4> DEFINE ev == [type |-> "suspended", who |-> p, what |-> None]
      <4>1. ev \in Events /\ ~AboutProcess(ev) /\ ev.type # "exit"
        BY <2>2 DEF Events, AboutProcess
      <4>2. queue' = Append(queue, ev)
        BY <3>2 DEF Publish
      <4> HIDE DEF ev
      <4>3. \A q \in Procs : life'[q] = life[q]
              \/ (life[q] = "running" /\ life'[q] = "suspended")
        BY <2>5
      <4> QED
        BY <1>3, <4>1, <4>2, <4>3, OwnedAppend
    <3> QED
      BY <2>1, <3>1, <3>2
  <2>7. \A q \in Procs : Live(q) => life'[q] # "new" /\ q \notin handled'
    BY <1>3, <2>5 DEF Live
  <2>8. Evidence'
    BY <1>1, <1>2, <1>3, <1>4, <2>7, EvidenceStays
  <2> QED
    BY <2>4, <2>6, <2>8
<1>7. CASE UNCHANGED <<life, queue, blamed>>
  <2>1. Owned'
    BY <1>3, <1>7, OwnedStays
  <2>2. Evidence'
    BY <1>1, <1>2, <1>3, <1>4, <1>7, EvidenceStays DEF Live
  <2> QED
    BY <1>7, <2>1, <2>2 DEF RightProcess
<1> QED
  BY <1>1, <1>6, <1>7 DEF Respond, Quarantine, ResponseFails, ShouldRespond

LEMMA EvidenceSample ==
  ASSUME TypeOK, Owned, Evidence, Sample
  PROVE  Evidence'
<1>1. PICK hot \in Orders(Sustained) :
        /\ pending' = [i \in DOMAIN hot |-> Signal("cpu_sustained", hot[i])]
        /\ emittedCpu' = [x \in Pids |->
             IF \E i \in DOMAIN hot : Pid[hot[i]] = x
               THEN CHOOSE p \in Range(hot) : Pid[p] = x ELSE emittedCpu[x]]
  BY DEF Sample
<1>2. PICK n \in Nat : hot \in [1..n -> Sustained]
  BY HotProcs
<1>3. \A p \in Sustained : p \in Procs /\ Live(p) /\ Pid[p] \in Pids
  BY DetectionAssumption, HereIsLive DEF Sustained, Here
<1>4. UNCHANGED <<life, handled, scores, streams>>
  BY DEF Sample, world, history
<1>5. \A i \in DOMAIN pending' : OwnSignal(pending'[i])
  BY <1>1, <1>2, <1>3 DEF Signal, OwnSignal
<1>6. ASSUME NEW x \in Pids, emittedCpu'[x] # None
      PROVE  Live(emittedCpu'[x]) /\ Pid[emittedCpu'[x]] = x
  <2>1. emittedCpu'[x] = emittedCpu[x]
          \/ (emittedCpu'[x] \in Sustained /\ Pid[emittedCpu'[x]] = x)
    BY <1>1, LatchedBy
  <2> QED
    BY <1>3, <1>6, <2>1 DEF Evidence
<1> QED
  BY <1>4, <1>5, <1>6 DEF Evidence, OwnSignal, Live

LEMMA OwnStep ==
  ASSUME TypeOK, Owned, Evidence, RightProcess, Prompt, [Next]_vars
  PROVE  (Owned /\ Evidence /\ RightProcess)'
<1>1. CASE World
  <2>1. UNCHANGED <<scores, pending, emittedCpu, streams, blamed>>
    BY <1>1 DEF World, Start, Exit, ReportExit, Act, Snapshot, PublishPolled, Drop, Tick,
                consumer, latches, history
  <2> QED
    BY <1>1, <2>1, OwnedWorld, EvidenceStays DEF RightProcess
<1>2. CASE Take
  BY <1>2, OwnedTake, EvidenceTake DEF Take, RightProcess
<1>3. CASE Score1
  BY <1>3, OwnScore
<1>4. CASE Sample
  <2>1. UNCHANGED <<life, queue, polled, handled, blamed>>
    BY <1>4 DEF Sample, world, history
  <2> QED
    BY <1>4, <2>1, OwnedStays, EvidenceSample DEF RightProcess
<1>5. CASE Prune
  <2>1. /\ UNCHANGED <<life, queue, polled, handled, blamed, pending, emittedCpu, streams>>
        /\ \A s \in DOMAIN scores' : /\ s \in DOMAIN scores
             /\ DOMAIN scores'[s].signals \subseteq DOMAIN scores[s].signals
    BY <1>5, PruneKeeps DEF Prune, world, latches, history
  <2>2. Evidence'
    BY <2>1, EvidenceStays DEF Live
  <2> QED
    BY <2>1, <2>2, OwnedStays DEF RightProcess
<1>6. CASE Idle \/ EndEvent \/ NotDue \/ UNCHANGED vars
  <2>1. UNCHANGED <<life, queue, polled, handled, blamed, pending, scores, emittedCpu, streams>>
    BY <1>6 DEF Idle, EndEvent, NotDue, vars, world, latches, history
  <2>2. Evidence'
    BY <2>1, EvidenceStays DEF Live
  <2> QED
    BY <2>1, <2>2, OwnedStays DEF RightProcess
<1> QED
  BY <1>1, <1>2, <1>3, <1>4, <1>5, <1>6 DEF Next, Consumer

LEMMA OwnInit == Init => Owned /\ Evidence /\ RightProcess
  BY DEF Init, Owned, Evidence, RightProcess, Live, AboutProcess

LEMMA OwnLatches == TypeOK /\ Owned /\ Evidence => LatchesAreOwn
<1> SUFFICES ASSUME TypeOK, Owned, Evidence, NEW p \in Procs, Here(p)
             PROVE  /\ emittedCpu[Pid[p]] \in {None, p}
                    /\ \A r \in Remotes : \A i \in DOMAIN streams[<<Pid[p], r>>] :
                         streams[<<Pid[p], r>>][i] = p
  BY DEF LatchesAreOwn
<1>1. Live(p) /\ Pid[p] \in Pids
  BY HereIsLive, SubjectOfProcess
<1>2. ASSUME emittedCpu[Pid[p]] # None PROVE emittedCpu[Pid[p]] = p
  <2> DEFINE q == emittedCpu[Pid[p]]
  <2>1. Live(q) /\ Pid[q] = Pid[p]
    BY <1>1, <1>2 DEF Evidence
  <2>2. q \in Procs
    BY <1>1, <1>2 DEF TypeOK
  <2> HIDE DEF q
  <2>3. q = p
    BY <1>1, <2>1, <2>2 DEF Owned
  <2> QED
    BY <2>3 DEF q
<1>3. ASSUME NEW r \in Remotes, NEW i \in DOMAIN streams[<<Pid[p], r>>]
      PROVE  streams[<<Pid[p], r>>][i] = p
  <2> DEFINE key == <<Pid[p], r>>
  <2>1. key \in Pids \X Remotes /\ key[1] = Pid[p]
    BY <1>1
  <2> HIDE DEF key
  <2>2. \A j \in DOMAIN streams[key] :
          streams[key][j] \in Procs /\ Live(streams[key][j]) /\ Pid[streams[key][j]] = Pid[p]
    BY <2>1 DEF Evidence, TypeOK
  <2>3. \A j \in DOMAIN streams[key] : streams[key][j] = p
    BY <1>1, <2>2 DEF Owned
  <2> QED
    BY <2>3 DEF key
<1> QED
  BY <1>2, <1>3

\* With Prompt (a pid is given again only after the exit event of its owner was handled,
\* the bus has room, and no connection comes in behind the exit that was reported)
\* nobody is suspended for another's signals.
THEOREM OnlyTheGuilty ==
  ASSUME Prompt
  PROVE  Spec => []RightProcess
<1>1. Init => TypeOK /\ Owned /\ Evidence /\ RightProcess
  BY TypeInit, OwnInit
<1>2. (TypeOK /\ Owned /\ Evidence /\ RightProcess) /\ [Next]_vars
        => (TypeOK /\ Owned /\ Evidence /\ RightProcess)'
  BY Prompt, TypeStep, OwnStep
<1> QED
  BY <1>1, <1>2, PTL DEF Spec

\* With Prompt, and all it assumes, no process inherits a CPU latch or a beacon stream.
THEOREM NothingInherited ==
  ASSUME Prompt
  PROVE  Spec => []LatchesAreOwn
<1>1. Init => TypeOK /\ Owned /\ Evidence /\ RightProcess
  BY TypeInit, OwnInit
<1>2. (TypeOK /\ Owned /\ Evidence /\ RightProcess) /\ [Next]_vars
        => (TypeOK /\ Owned /\ Evidence /\ RightProcess)'
  BY Prompt, TypeStep, OwnStep
<1>3. TypeOK /\ Owned /\ Evidence /\ RightProcess => LatchesAreOwn
  BY OwnLatches
<1> QED
  BY <1>1, <1>2, <1>3, PTL DEF Spec

(***************************************************************************)
(* The sum of the weights of a bag of signals: one more signal adds its    *)
(* weight, and what decay takes out does not raise it.                     *)
(***************************************************************************)
\* The signals of a score are finitely many, each there at least once.
Bag(b) == /\ IsFiniteSet(DOMAIN b)
          /\ \A g \in DOMAIN b : b[g] \in Nat \ {0} /\ g.kind \in SignalKinds

LEMMA WeightType == \A k \in SignalKinds : WEIGHTS[k] \in Nat
BY DEF SignalKinds, WEIGHTS

Points(b) == [g \in DOMAIN b |-> b[g] * Weight(g)]

LEMMA SumIs == ASSUME NEW b PROVE Sum(b) = SumFunctionOnSet(Points(b), DOMAIN b)
BY DEF Sum, SumFunction, Points

LEMMA PointsType == ASSUME NEW b, Bag(b) PROVE \A g \in DOMAIN b : Points(b)[g] \in Nat
<1> TAKE g \in DOMAIN b
<1>1. b[g] \in Nat /\ Weight(g) \in Nat
  BY WeightType DEF Bag, Weight
<1>2. \A m, n \in Nat : m * n \in Nat
  OBVIOUS
<1> QED
  BY <1>1, <1>2 DEF Points

LEMMA SumOneMore ==
  ASSUME NEW b, Bag(b), NEW sig, sig.kind \in SignalKinds
  PROVE  Bag(OneMore(b, sig)) /\ Sum(OneMore(b, sig)) = Sum(b) + Weight(sig)
<1> DEFINE c == OneMore(b, sig)
           S == DOMAIN b
<1>1. DOMAIN c = S \cup {sig}
  BY DEF OneMore
<1>2. \A g \in DOMAIN c : c[g] = (IF g \in S THEN b[g] ELSE 0) + (IF g = sig THEN 1 ELSE 0)
  BY DEF OneMore
<1>3. \A g \in S : b[g] \in Nat /\ b[g] # 0 /\ g.kind \in SignalKinds
  BY DEF Bag
<1> HIDE DEF c
<1>4. Bag(c)
  <2>1. IsFiniteSet(DOMAIN c)
    BY <1>1, FS_AddElement DEF Bag
  <2>2. \A g \in DOMAIN c : c[g] \in Nat \ {0}
    BY <1>1, <1>2, <1>3
  <2>3. \A g \in DOMAIN c : g.kind \in SignalKinds
    BY <1>1, <1>3
  <2> QED
    BY <2>1, <2>2, <2>3 DEF Bag
<1>5. \A g \in DOMAIN c : Points(c)[g] \in Int
  BY <1>4, PointsType
<1>6. \A g \in S : Points(b)[g] \in Int
  BY PointsType
<1>7. \A g \in S \ {sig} : Points(c)[g] = Points(b)[g]
  <2>1. \A g \in S \ {sig} : c[g] = b[g]
    BY <1>1, <1>2, <1>3
  <2> QED
    BY <1>1, <2>1 DEF Points
<1>8. Weight(sig) \in Nat
  BY WeightType DEF Weight
<1>9. IsFiniteSet(S)
  BY DEF Bag
<1>10. CASE sig \in S
  <2>1. DOMAIN c = S
    BY <1>1, <1>10
  <2>2. c[sig] = b[sig] + 1
    BY <1>2, <1>3, <1>10, <2>1
  <2>3. Points(c)[sig] = Points(b)[sig] + Weight(sig)
    <3>1. \A m, n \in Nat : (m + 1) * n = m * n + n
      OBVIOUS
    <3> QED
      BY <1>3, <1>8, <1>10, <2>1, <2>2, <3>1 DEF Points
  <2>4. SumFunctionOnSet(Points(c), S)
          = SumFunctionOnSet(Points(b), S) - Points(b)[sig] + Points(c)[sig]
    <3>1. \A y \in S : Points(c)[y] \in Int /\ Points(b)[y] \in Int
      BY <1>5, <1>6, <2>1
    <3> QED
      BY <1>7, <1>9, <1>10, <3>1, SumChange
  <2>5. SumFunctionOnSet(Points(b), S) \in Int
    BY <1>6, <1>9, SumType
  <2>6. SumFunctionOnSet(Points(c), S) = SumFunctionOnSet(Points(b), S) + Weight(sig)
    BY <1>6, <1>8, <1>10, <2>3, <2>4, <2>5
  <2> QED
    BY <1>4, <2>1, <2>6, SumIs DEF c
<1>11. CASE sig \notin S
  <2>1. c[sig] = 1
    BY <1>1, <1>2, <1>11
  <2>2. Points(c)[sig] = Weight(sig)
    BY <1>1, <1>8, <2>1 DEF Points
  <2>3. SumFunctionOnSet(Points(c), S \cup {sig})
          = Points(c)[sig] + SumFunctionOnSet(Points(c), S)
    BY <1>1, <1>5, <1>9, <1>11, SumAdd
  <2>4. SumFunctionOnSet(Points(c), S) = SumFunctionOnSet(Points(b), S)
    BY <1>7, <1>9, <1>11, SumSame
  <2>5. SumFunctionOnSet(Points(b), S) \in Int
    BY <1>6, <1>9, SumType
  <2>6. Sum(c) = SumFunctionOnSet(Points(c), S \cup {sig})
    BY <1>1, SumIs
  <2> QED
    BY <1>4, <1>8, <2>2, <2>3, <2>4, <2>5, <2>6, SumIs DEF c
<1> QED
  BY <1>10, <1>11

LEMMA SumInteger == ASSUME NEW b, Bag(b) PROVE Sum(b) \in Int
<1>1. IsFiniteSet(DOMAIN b) /\ \A g \in DOMAIN b : Points(b)[g] \in Int
  BY PointsType DEF Bag
<1> QED
  BY <1>1, SumType, SumIs

\* The signals that decay keeps.
LEMMA SumActive ==
  ASSUME NEW b, Bag(b), NEW t
  PROVE  Bag(Active(b, t)) /\ Sum(Active(b, t)) <= Sum(b)
<1> DEFINE a == Active(b, t)
<1>1. DOMAIN a \subseteq DOMAIN b /\ \A g \in DOMAIN a : a[g] = b[g]
  BY DEF Active
<1> HIDE DEF a
<1>2. Bag(a)
  BY <1>1, FS_Subset DEF Bag
<1>3. \A g \in DOMAIN a : Points(a)[g] = Points(b)[g]
  BY <1>1 DEF Points
<1>4. SumFunctionOnSet(Points(a), DOMAIN a) = SumFunctionOnSet(Points(b), DOMAIN a)
  BY <1>2, <1>3, SumSame DEF Bag
<1>5. SumFunctionOnSet(Points(b), DOMAIN a) <= SumFunctionOnSet(Points(b), DOMAIN b)
  BY <1>1, PointsType, SumPart DEF Bag
<1> QED
  BY <1>2, <1>4, <1>5, SumIs DEF a

(***************************************************************************)
(* Totals: a score is the sum of its signals.                              *)
(***************************************************************************)
Total(score) == Bag(score.signals) /\ score.total = Sum(score.signals)

LEMMA NoScoreTotal == Total(NoScore)
<1>1. DOMAIN NoSignals = {}
  BY DEF NoSignals
<1>2. Sum(NoSignals) = 0
  BY <1>1, SumIs, SumEmpty
<1>3. Bag(NoSignals)
  BY <1>1, FS_EmptySet DEF Bag
<1> QED
  BY <1>2, <1>3 DEF NoScore, Total

LEMMA AddTotal ==
  ASSUME NEW table, \A s \in DOMAIN table : Total(table[s]),
         NEW sig \in Signals, NEW t \in AddSignal(table, sig)
  PROVE  \A s \in DOMAIN t : Total(t[s])
<1>0. sig.kind \in SignalKinds
  BY DEF Signals
<1>1. ASSUME NEW base, \A s \in DOMAIN base : Total(base[s])
      PROVE  \A s \in DOMAIN Add(base, sig) : Total(Add(base, sig)[s])
  <2>1. Total(Score(base, sig.subject))
    BY <1>1, NoScoreTotal DEF Score
  <2> DEFINE old == Score(base, sig.subject)
             new == Plus(old, sig)
  <2>2. new.signals = OneMore(old.signals, sig) /\ new.total = old.total + Weight(sig)
    BY DEF Plus
  <2> HIDE DEF new, old
  <2>3. Total(new)
    BY <1>0, <2>1, <2>2, SumOneMore DEF Total, old
  <2>4. \A s \in DOMAIN Add(base, sig) :
          Add(base, sig)[s] = IF s = sig.subject THEN new ELSE base[s]
    BY DEF Add, new, old
  <2>5. DOMAIN Add(base, sig) = DOMAIN base \cup {sig.subject}
    BY DEF Add
  <2> QED
    BY <1>1, <2>3, <2>4, <2>5
<1>2. CASE Full(table, sig)
  <2>1. PICK s \in Oldest(table) : t = Add(Without(table, {s}), sig)
    BY <1>2 DEF AddSignal
  <2>2. \A x \in DOMAIN Without(table, {s}) : Total(Without(table, {s})[x])
    BY DEF Without
  <2> QED
    BY <1>1, <2>1, <2>2
<1>3. CASE ~Full(table, sig)
  BY <1>1, <1>3 DEF AddSignal
<1> QED
  BY <1>2, <1>3

\* Pruning computes the total again, and never raises it.
LEMMA PrunedTotal ==
  ASSUME NEW score, Total(score), NEW t
  PROVE  Total(Pruned(score, t)) /\ Pruned(score, t).total <= score.total
<1> DEFINE active == Active(score.signals, t)
<1>1. Bag(active) /\ Sum(active) <= Sum(score.signals)
  BY SumActive DEF Total
<1>2. score.total \in Int /\ score.total = Sum(score.signals)
  BY SumInteger DEF Total
<1>3. CASE DOMAIN active = DOMAIN score.signals
  <2>1. Pruned(score, t) = score
    BY <1>3 DEF Pruned
  <2> QED
    BY <1>2, <2>1
<1>4. CASE DOMAIN active # DOMAIN score.signals
  <2>1. Pruned(score, t) = [signals |-> active, total |-> Sum(active), last |-> t]
    BY <1>4 DEF Pruned
  <2> HIDE DEF active
  <2> QED
    BY <1>1, <1>2, <2>1 DEF Total
<1> QED
  BY <1>3, <1>4

Totals == \A s \in DOMAIN scores : Total(scores[s])

LEMMA TotalsStep == TypeOK /\ Totals /\ [Next]_vars => Totals'
<1> SUFFICES ASSUME TypeOK, Totals, [Next]_vars PROVE Totals'
  OBVIOUS
<1>1. CASE World
  <2>1. scores' = scores
    BY <1>1 DEF World, Start, Exit, ReportExit, Act, Snapshot, PublishPolled, Drop, Tick, consumer
  <2> QED
    BY <2>1 DEF Totals
<1>2. CASE Take
  <2>1. \A s \in DOMAIN scores' : s \in DOMAIN scores /\ scores'[s] = scores[s]
    BY <1>2 DEF Take, Process, ProcessExit, ResetScore, Without, ProcessFound, Connection, FileEvent
  <2> QED
    BY <2>1 DEF Totals
<1>3. CASE Score1
  <2>1. Head(pending) \in Signals
    BY <1>3, HeadTail DEF TypeOK, Score1
  <2>2. scores' \in AddSignal(scores, Head(pending))
    BY <1>3 DEF Score1
  <2> QED
    BY <2>1, <2>2, AddTotal DEF Totals
<1>4. CASE Prune
  <2>1. scores' = EvictStale(Decay(scores, now), now)
    BY <1>4 DEF Prune
  <2>2. \A s \in DOMAIN scores' : s \in DOMAIN scores /\ scores'[s] = Pruned(scores[s], now)
    BY <2>1, DecayKeeps DEF EvictStale, Without
  <2> QED
    BY <2>2, PrunedTotal DEF Totals
<1>5. CASE Idle \/ EndEvent \/ Sample \/ NotDue \/ UNCHANGED vars
  BY <1>5 DEF Totals, Idle, EndEvent, Sample, NotDue, vars
<1> QED
  BY <1>1, <1>2, <1>3, <1>4, <1>5 DEF Next, Consumer

\* Every score is the sum of the weights of the signals it holds, whatever was added,
\* decayed, evicted or reset, for any table and any number of signals.
THEOREM TotalsAdd == Spec => []TotalIsSum
<1>1. Init => TypeOK /\ Totals
  BY TypeInit DEF Init, Totals
<1>2. (TypeOK /\ Totals) /\ [Next]_vars => (TypeOK /\ Totals)'
  BY TypeStep, TotalsStep
<1>3. Totals => TotalIsSum
  BY DEF Totals, Total, TotalIsSum
<1> QED
  BY <1>1, <1>2, <1>3, PTL DEF Spec

(***************************************************************************)
(* Every suspect is answered.  What makes this inductive: a score that     *)
(* calls for a response has had it, because it only falls between two      *)
(* signals; and the latch of a pid is that of a live process, so that a    *)
(* process never starts with the latch of another.                         *)
(***************************************************************************)
Answered ==
  /\ \A s \in DOMAIN scores : ShouldRespond(scores, s) => s \in responded
  /\ \A s \in responded \cap Pids : \E q \in Procs : Live(q) /\ Pid[q] = s
  /\ \A p \in Procs : Here(p) /\ Pid[p] \in responded => p \in attempted

LEMMA AnsweredStart ==
  ASSUME TypeOK, Owned, Answered, Prompt, NEW p \in Procs, Start(p)
  PROVE  Answered'
<1>1. /\ UNCHANGED <<scores, responded, attempted, handled>>
      /\ \A q \in Procs : life'[q] = IF q = p THEN "running" ELSE life[q]
  BY DEF Start, TypeOK, consumer, history
<1>2. life[p] = "new" /\ ~Live(p) /\ Pid[p] \in Pids
  BY SubjectOfProcess DEF Start, Live
<1>3. \A q \in Procs : Pid[q] = Pid[p] => ~Live(q)
  BY <1>2 DEF Start, Left, Live
<1>4. Pid[p] \notin responded
  BY <1>2, <1>3 DEF Answered
<1>5. \A q \in Procs : Live(q) => life'[q] # "new" /\ q \notin handled'
  BY <1>1, <1>2 DEF Live
<1>6. \A s \in responded' \cap Pids :
        \E q \in Procs : life'[q] # "new" /\ q \notin handled' /\ Pid[q] = s
  BY <1>1, <1>5 DEF Answered
<1>7. \A q \in Procs : life'[q] \in {"running", "suspended"} /\ Pid[q] \in responded'
        => q \in attempted'
  BY <1>1, <1>4 DEF Answered, Here
<1>8. \A s \in DOMAIN scores' : ShouldRespond(scores', s) => s \in responded'
  BY <1>1 DEF Answered
<1> QED
  BY <1>6, <1>7, <1>8 DEF Answered, Live, Here

\* A step that starts and reports nobody, and neither scores nor responds.
LEMMA AnsweredStays ==
  ASSUME TypeOK, Answered, UNCHANGED <<scores, responded, attempted, handled>>,
         \A p \in Procs : life'[p] = life[p]
                        \/ (life[p] # "new" /\ life'[p] \in {"exited", "reported"})
  PROVE  Answered'
<1>1. \A q \in Procs : Live(q) => life'[q] # "new" /\ q \notin handled'
  BY DEF Live
<1>2. \A q \in Procs : life'[q] \in {"running", "suspended"} => Here(q)
  BY DEF Here
<1>3. \A s \in responded' \cap Pids :
        \E q \in Procs : life'[q] # "new" /\ q \notin handled' /\ Pid[q] = s
  BY <1>1 DEF Answered
<1>4. \A q \in Procs : life'[q] \in {"running", "suspended"} /\ Pid[q] \in responded'
        => q \in attempted'
  BY <1>2 DEF Answered
<1>5. \A s \in DOMAIN scores' : ShouldRespond(scores', s) => s \in responded'
  BY DEF Answered
<1> QED
  BY <1>3, <1>4, <1>5 DEF Answered, Live, Here

LEMMA AnsweredWorld ==
  ASSUME TypeOK, Owned, Answered, Prompt, World
  PROVE  Answered'
<1>1. CASE \E p \in Procs : Start(p)
  BY <1>1, AnsweredStart
<1>2. ASSUME NEW p \in Procs, Exit(p) \/ ReportExit(p) PROVE Answered'
  <2>1. UNCHANGED <<scores, responded, attempted, handled>>
    BY <1>2 DEF Exit, ReportExit, consumer, history
  <2>2. \A q \in Procs : life'[q] = life[q]
          \/ (life[q] # "new" /\ life'[q] \in {"exited", "reported"})
    BY <1>2 DEF Exit, ReportExit, Here, TypeOK
  <2> QED
    BY <2>1, <2>2, AnsweredStays
<1>3. CASE \/ \E p \in Procs : \E kinds \in ProcessKinds : Act(p, kinds)
           \/ \E p \in Procs, r \in Remotes : Snapshot(p, r)
           \/ PublishPolled \/ Tick \/ \E f \in Files : Drop(f)
  <2>1. UNCHANGED <<scores, responded, attempted, handled, life>>
    BY <1>3 DEF Act, Snapshot, PublishPolled, Tick, Drop, consumer, history, world
  <2> QED
    BY <2>1, AnsweredStays
<1> QED
  BY <1>1, <1>2, <1>3 DEF World

LEMMA AnsweredTake ==
  ASSUME TypeOK, Owned, Answered, Take
  PROVE  Answered'
<1> DEFINE ev == Head(queue)
<1>0. UNCHANGED <<life, attempted>> /\ ev \in Events
  BY HeadTail DEF Take, TypeOK, world
<1>1. CASE ev.type = "exit" /\ ProcessExit(ev.who)
  <2> DEFINE p == ev.who
  <2>1. p \in Procs /\ Pid[p] \in Pids
    BY <1>0, <1>1, SubjectOfProcess DEF Events
  <2> HIDE DEF p
  <2>2. responded' = responded \ {Pid[p]} /\ handled' = handled \cup {p}
    BY <1>1 DEF ProcessExit, ForgetResponded, p
  <2>3. \A s \in DOMAIN scores' : s \in DOMAIN scores /\ s # Pid[p] /\ scores'[s] = scores[s]
    BY <1>1 DEF ProcessExit, ResetScore, Without, p
  <2>4. \A s \in DOMAIN scores' : ShouldRespond(scores', s) => s \in responded'
    BY <2>2, <2>3 DEF Answered, ShouldRespond
  <2>5. \A s \in responded' \cap Pids :
          \E q \in Procs : life'[q] # "new" /\ q \notin handled' /\ Pid[q] = s
    BY <1>0, <2>2 DEF Answered, Live
  <2>6. \A q \in Procs : Here(q) /\ Pid[q] \in responded' => q \in attempted'
    BY <1>0, <2>2 DEF Answered
  <2> QED
    BY <1>0, <2>4, <2>5, <2>6 DEF Answered, Live, Here
<1>2. CASE UNCHANGED <<scores, responded, handled>>
  BY <1>0, <1>2, AnsweredStays
<1> QED
  BY <1>1, <1>2 DEF Take, Process, ProcessFound, Connection, FileEvent

LEMMA AnsweredScore ==
  ASSUME TypeOK, Owned, Evidence, Answered, Score1
  PROVE  Answered'
<1> DEFINE sig == Head(pending)
<1>1. PICK t \in AddSignal(scores, sig) :
        /\ scores' = t
        /\ IF ShouldRespond(t, sig.subject) /\ sig.subject \notin responded
             THEN Respond(t, sig.subject)
             ELSE GoesOn /\ UNCHANGED <<life, onDisk, queue, responded, attempted, blamed>>
  BY DEF Score1
<1>2. sig \in Signals /\ OwnSignal(sig)
  <2>1. pending \in Seq(Signals) /\ pending # <<>>
    BY DEF TypeOK, Score1
  <2>2. 1 \in DOMAIN pending /\ sig = pending[1] /\ sig \in Signals
    BY <2>1
  <2> QED
    BY <2>2 DEF Evidence
<1>3. handled' = handled
  BY DEF Score1
<1> DEFINE s == sig.subject
<1>4. \A x \in DOMAIN t : x = s \/ (x \in DOMAIN scores /\ t[x] = scores[x])
  <2>1. ASSUME NEW base, \A x \in DOMAIN base : x \in DOMAIN scores /\ base[x] = scores[x],
               t = Add(base, sig)
        PROVE  \A x \in DOMAIN t : x = s \/ (x \in DOMAIN scores /\ t[x] = scores[x])
    BY <2>1 DEF Add
  <2>2. \A x : \A y \in DOMAIN Without(scores, {x}) :
          y \in DOMAIN scores /\ Without(scores, {x})[y] = scores[y]
    BY DEF Without
  <2>3. CASE Full(scores, sig)
    <3>1. PICK x \in Oldest(scores) : t = Add(Without(scores, {x}), sig)
      BY <2>3 DEF AddSignal
    <3> QED
      BY <2>1, <2>2, <3>1
  <2>4. CASE ~Full(scores, sig)
    <3>1. t = Add(scores, sig)
      BY <2>4 DEF AddSignal
    <3> QED
      BY <2>1, <3>1
  <2> QED
    BY <2>3, <2>4
<1> HIDE DEF sig, s
<1>5. \A x \in DOMAIN t : x # s /\ ShouldRespond(t, x) => x \in responded
  BY <1>4 DEF Answered, ShouldRespond
<1>6. CASE Respond(t, s)
  <2>1. responded' = responded \cup {s} /\ Owners(s) \subseteq attempted' /\ attempted \subseteq attempted'
    BY <1>6 DEF Respond
  <2>2. \A q \in Procs : life'[q] = life[q] \/ (Here(q) /\ life'[q] = "suspended")
    BY <1>6 DEF Respond, Suspend, Quarantine, ResponseFails, Owners, TypeOK
  <2>3. \A q \in Procs : Live(q) => life'[q] # "new" /\ q \notin handled'
    BY <1>3, <2>2 DEF Live
  <2>4. s \in Pids => \E q \in Procs : Live(q) /\ Pid[q] = s
    BY <1>2, DetectionAssumption DEF OwnSignal, s
  <2>5. \A x \in responded' \cap Pids :
          \E q \in Procs : life'[q] # "new" /\ q \notin handled' /\ Pid[q] = x
    BY <2>1, <2>3, <2>4 DEF Answered
  <2>6. \A q \in Procs : life'[q] \in {"running", "suspended"} => Here(q)
    BY <2>2 DEF Here
  <2>7. ASSUME NEW q \in Procs, Here(q), Pid[q] \in responded' PROVE q \in attempted'
    <3>1. CASE Pid[q] = s
      BY <2>1, <2>7, <3>1 DEF Owners
    <3>2. CASE Pid[q] # s
      BY <2>1, <2>7, <3>2 DEF Answered
    <3> QED
      BY <3>1, <3>2
  <2>8. \A x \in DOMAIN scores' : ShouldRespond(scores', x) => x \in responded'
    BY <1>1, <1>5, <2>1
  <2> QED
    BY <2>5, <2>6, <2>7, <2>8 DEF Answered, Live, Here
<1>7. CASE /\ UNCHANGED <<life, responded, attempted>>
           /\ ~(ShouldRespond(t, s) /\ s \notin responded)
  <2>1. \A x \in DOMAIN scores' : ShouldRespond(scores', x) => x \in responded'
    BY <1>1, <1>5, <1>7
  <2> QED
    BY <1>3, <1>7, <2>1 DEF Answered, Live, Here
<1> QED
  BY <1>1, <1>6, <1>7 DEF s

\* What decay leaves of a score calls for a response only if the score did.
LEMMA AnsweredPrune ==
  ASSUME TypeOK, Totals, Answered, Prune
  PROVE  Answered'
<1>1. UNCHANGED <<life, responded, attempted, handled>>
  BY DEF Prune, world, history
<1>2. \A s \in DOMAIN scores' : s \in DOMAIN scores /\ scores'[s] = Pruned(scores[s], now)
  BY DecayKeeps DEF Prune, EvictStale, Without
<1>3. ASSUME NEW s \in DOMAIN scores', ShouldRespond(scores', s)
      PROVE  ShouldRespond(scores, s)
  <2>1. /\ DOMAIN scores'[s].signals \subseteq DOMAIN scores[s].signals
        /\ Total(scores[s]) /\ Total(scores'[s])
        /\ scores'[s].total <= scores[s].total
    BY <1>2, PrunedKeeps, PrunedTotal DEF Totals
  <2>2. scores[s].total \in Int /\ scores'[s].total \in Int /\ Threshold \in Int
    BY <2>1, SumInteger, ScoringAssumption DEF Total
  <2>3. scores'[s].total >= Threshold
    BY <1>3 DEF ShouldRespond
  <2>4. scores[s].total >= Threshold
    BY <2>1, <2>2, <2>3
  <2> QED
    BY <1>2, <1>3, <2>1, <2>4 DEF ShouldRespond
<1> QED
  BY <1>1, <1>2, <1>3 DEF Answered, Live, Here

LEMMA AnsweredStep ==
  ASSUME TypeOK, Totals, Owned, Evidence, Answered, Prompt, [Next]_vars
  PROVE  Answered'
<1>1. CASE World
  BY <1>1, AnsweredWorld
<1>2. CASE Take
  BY <1>2, AnsweredTake
<1>3. CASE Score1
  BY <1>3, AnsweredScore
<1>4. CASE Prune
  BY <1>4, AnsweredPrune
<1>5. CASE Idle \/ EndEvent \/ Sample \/ NotDue \/ UNCHANGED vars
  <2>1. UNCHANGED <<scores, responded, attempted, handled, life>>
    BY <1>5 DEF Idle, EndEvent, Sample, NotDue, vars, world, history
  <2> QED
    BY <2>1, AnsweredStays
<1> QED
  BY <1>1, <1>2, <1>3, <1>4, <1>5 DEF Next, Consumer

\* With Prompt, and all it assumes, a process that runs while its pid's score calls for a
\* response has been answered: the latch _responded_subjects never silences the next
\* owner of a pid.
THEOREM NoSuspectPassedOver ==
  ASSUME Prompt
  PROVE  Spec => []SuspectsAnswered
<1> DEFINE IInv == TypeOK /\ Totals /\ Owned /\ Evidence /\ RightProcess /\ Answered
<1>1. Init => IInv
  BY TypeInit, OwnInit DEF Init, Totals, Answered
<1>2. IInv /\ [Next]_vars => IInv'
  BY Prompt, TypeStep, TotalsStep, OwnStep, AnsweredStep
<1>3. IInv => SuspectsAnswered
  BY DEF Answered, SuspectsAnswered, Here, ShouldRespond
<1> QED
  BY <1>1, <1>2, <1>3, PTL DEF Spec
=============================================================================
