------------------------- MODULE ChannelHandoverProofs -------------------------
(* What TLC checks of ChannelHandover on two names and three generations,  *)
(* proved for any finite set of names and any number of connections,       *)
(* generations, turns and failures.                                        *)
EXTENDS ChannelHandover, FiniteSetTheorems, TLAPS

(* What each phase of an apply leaves untouched.                           *)
Phases ==
    /\ pc \notin {"idle", "down"} => Gen < MaxGen
    /\ pc \in {"idle", "down"} => cand = NoCand /\ ~ barrier
    /\ pc \in {"idle", "drain", "down"} => stopped = {} /\ tried = {}
    /\ pc \in {"idle", "drain", "down"} => todo = {}
    /\ pc \notin {"clean", "restore"} => bad = {}
    /\ pc = "stop" => tried = {}

Published(n, k) == \E g \in 1..Gen : hosts[g][n] = k

(* A connection is published once, and never again after it was taken      *)
(* away: what is up, open or retained was published, a candidate was not.  *)
Objects ==
    /\ \A n \in Names, g \in 1..Gen : hosts[g][n] # 0 => state[<<n, hosts[g][n]>>] # "new"
    /\ \A n \in Names : retired[n] # 0 => Published(n, retired[n])
    /\ \A c \in open : Published(c[1], c[2])
    /\ \A b \in batches : \A c \in b.conns : Published(c[1], c[2])
    /\ \A n \in Names : Adds(n) => ~ Published(n, cand[n])

(* Whose connection the handover stopped, and whose it started.            *)
Progress ==
    /\ stopped \subseteq {n \in Names : Replaces(n)}
    /\ tried \subseteq {n \in Names : Adds(n)}
    /\ pc = "stop" => \A n \in Names : Replaces(n) => n \in todo \cup stopped
    /\ pc = "start" => /\ todo \subseteq {n \in Names : Adds(n)}
                       /\ \A n \in Names : Adds(n) => n \in todo \cup tried
                       /\ \A n \in Names : Replaces(n) => n \in stopped
    /\ pc = "clean" => /\ todo \subseteq tried
                       /\ \A n \in tried : Replaces(n) => n \in stopped
    /\ pc = "restore" => todo \subseteq stopped \ bad

(* A connection the handover stopped and has not restarted.                *)
Away(n) == n \in stopped /\ (pc \in {"stop", "start", "clean"} \/ n \in todo)

(* What is up is published or retained, or a candidate being tried, whose  *)
(* predecessor is down.                                                    *)
Upward ==
    /\ \A n \in Names, k \in 1..MaxConns : Up(<<n, k>>) =>
          \/ k \in {host[n], retired[n]}
          \/ k = cand[n] /\ n \in tried /\ (pc = "start" \/ (pc = "clean" /\ n \in todo))
    /\ \A n \in Names : Away(n) /\ pc # "restore" => ~ Up(<<n, Outgoing(n)>>)
    /\ \A c \in Conns : state[c] = "starting" =>
          /\ pc = "restore" /\ c[1] \in todo /\ c[2] = Outgoing(c[1])
          /\ sender[c[1]] = c[2] /\ c[1] \notin marked

(* Without the barrier nothing is taken away from under accepted turns.    *)
Guarded ==
    /\ pc \notin {"idle", "down"} /\ ~ barrier => ~ RequiresExclusive(cand)
    /\ pc \in {"drain", "stop", "start"} /\ barrier => open \cap Of(host) = {}
    /\ pc \in {"stop", "start"} /\ barrier => \A w \in work : ~ Owned(w)
    /\ pc = "down" => open \cap Of(host) = {}

(* A batch waits for every turn its connections may have accepted.         *)
Waiting ==
    /\ \A b \in batches : b.upto < Gen
    /\ \A b \in batches : \A c \in b.conns : \A g \in 1..Gen :
          hosts[g][c[1]] = c[2] => g <= b.upto
    /\ \A w \in work : Owned(w) =>
          w.conn[2] \in {host[w.conn[1]], retired[w.conn[1]]}

(* A published connection serves and a retained one only answers, from one *)
(* apply to the next, unless it was stopped or reported.                   *)
Serves(n) == host[n] # 0 =>
    state[<<n, host[n]>>] = "live" /\ sender[n] = host[n] /\ n \notin marked
Answers(n) == retired[n] # 0 =>
    /\ state[<<n, retired[n]>>] = "live" /\ sender[n] = retired[n]
    /\ n \in marked /\ <<n, retired[n]>> \notin open
Kept ==
    /\ pc # "down" => \A n \in Names \ (degraded \cup bad) :
          Away(n) \/ (Serves(n) /\ Answers(n))
    /\ pc = "idle" => \A n \in Names \ degraded : host[n] # 0 => <<n, host[n]>> \in open
    /\ pc \in {"stop", "start"} => \A n \in Names :
          Parks(n) /\ n \notin todo => <<n, host[n]>> \notin open
    /\ \A n \in Names : Away(n) =>
          \/ <<n, Outgoing(n)>> \notin open
          \/ pc = "restore" /\ sender[n] = Outgoing(n)
    /\ pc = "start" => \A n \in tried :
          state[<<n, cand[n]>>] = "live" /\ sender[n] = cand[n] /\ n \notin marked

(* Its turns are over once a batch waits for the replies of all turns, and *)
(* answered once it waits for the lock.                                    *)
Ripe ==
    \A b \in batches :
        /\ b.awaits # "turns" => TurnsOver(b)
        /\ b.awaits = "lock" => \A w \in work : w.gen > b.upto

IInv ==
    /\ TypeOK /\ Phases /\ Objects /\ Progress /\ Upward /\ Guarded /\ Waiting /\ Ripe /\ Kept
    /\ RepliesReachOrigin /\ NoStrayTurn

-----------------------------------------------------------------------------
(* Types.                                                                    *)

\* Where the published slots, the outgoing connections and pairs live.
LEMMA Shapes ==
  ASSUME TypeOK
  PROVE  /\ Gen \in Nat \ {0} /\ host \in Slots
         /\ \A g \in 1..Gen : hosts[g] \in Slots
         /\ \A n \in Names : Outgoing(n) \in 0..MaxConns
         /\ \A slots \in Slots : Of(slots) \subseteq Conns
         /\ \A slots \in Slots, n \in Names : \A k : <<n, k>> \in Of(slots) <=> slots[n] = k /\ k # 0
  BY HandoverAssumption DEF TypeOK, Gen, host, Slots, Outgoing, Of, Conns

\* A new connection and its place in the list of generations.
LEMMA Appended ==
  ASSUME TypeOK, hosts' = Append(hosts, cand)
  PROVE  /\ hosts' \in Seq(Slots) /\ Gen' = Gen + 1 /\ host' = cand
         /\ \A g \in 1..Gen : hosts'[g] = hosts[g]
         /\ hosts'[Gen + 1] = cand
  BY DEF TypeOK, Gen, host, Slots

\* At the start one generation is published and no handover is under way.
LEMMA InitTypes == Init => TypeOK /\ Phases
<1> SUFFICES ASSUME Init PROVE TypeOK /\ Phases
  OBVIOUS
<1>1. PICK names \in SUBSET Names, failed \in SUBSET Names :
         /\ failed \subseteq names /\ Cardinality(failed) <= MaxFailures
         /\ hosts = <<[n \in Names |-> IF n \in names THEN 1 ELSE 0]>>
         /\ sender = hosts[1] /\ open = Of(hosts[1])
         /\ state = [c \in Conns |-> IF c \notin open THEN "new"
                                     ELSE IF c[1] \in failed THEN "unsure" ELSE "live"]
         /\ degraded = failed /\ failures = Cardinality(failed)
  BY DEF Init
<1>2. failures \in 0..MaxFailures
  BY <1>1, HandoverAssumption, FS_Subset, FS_CardinalityType
<1>3. Gen = 1 /\ hosts \in Seq(Slots) /\ sender \in Slots
  BY <1>1, HandoverAssumption DEF Gen, Slots
<1>4. NoCand \in Slots
  BY HandoverAssumption DEF NoCand, Slots
<1>5. open \subseteq Conns
  BY <1>1, <1>3 DEF Of, Conns, Slots
<1>6. retired = NoCand /\ \A n \in Names : retired[n] = 0
  BY DEF Init, NoCand
<1>7. state \in [Conns -> {"new", "off", "starting", "live", "unsure"}]
  BY <1>1
<1>8. degraded \in SUBSET Names
  BY <1>1
<1>9. Phases
  BY DEF Init, Phases
<1>10. /\ work \subseteq [conn : Conns, gen : 1..Gen, at : {"turn", "reply"}]
       /\ batches \subseteq [conns : SUBSET Conns, upto : 1..Gen, awaits : {"turns", "replies", "lock"}]
  BY DEF Init
<1>11. {todo, stopped, tried, bad, degraded} \subseteq SUBSET Names
  BY <1>8 DEF Init
<1>12. retired \in Slots /\ cand \in Slots /\ marked \subseteq Names
       /\ \A n \in Names : host[n] = 0 \/ retired[n] = 0
  BY <1>4, <1>6 DEF Init
<1>13. Gen \in 1..MaxGen
  BY <1>3, HandoverAssumption
<1>14. pc \in {"idle", "drain", "stop", "start", "clean", "restore", "down"} /\ barrier \in BOOLEAN
  BY DEF Init
<1> QED
  BY <1>2, <1>3, <1>5, <1>7, <1>9, <1>10, <1>11, <1>12, <1>13, <1>14 DEF TypeOK

\* Steps that publish, accept and retire nothing.
LEMMA HandoverTyped ==
  ASSUME TypeOK,
         UNCHANGED <<hosts, retired, work, batches>>,
         cand' \in Slots, sender' \in Slots, open' \subseteq Conns, marked' \subseteq Names,
         state' \in [Conns -> {"new", "off", "starting", "live", "unsure"}],
         pc' \in {"idle", "drain", "stop", "start", "clean", "restore", "down"},
         barrier' \in BOOLEAN, failures' \in 0..MaxFailures,
         {todo', stopped', tried', bad', degraded'} \subseteq SUBSET Names
  PROVE  TypeOK'
  BY DEF TypeOK, Gen, host

\* Taking registrations away.
LEMMA StopTyped ==
  ASSUME TypeOK, NEW gone
  PROVE  /\ [m \in Names |-> IF <<m, sender[m]>> \in gone THEN 0 ELSE sender[m]] \in Slots
         /\ {m \in marked : <<m, sender[m]>> \notin gone} \subseteq Names
  BY HandoverAssumption DEF TypeOK, Slots

\* A failure is counted within its bound.
LEMMA FailsTyped ==
  ASSUME TypeOK, Fails \/ UNCHANGED failures
  PROVE  failures' \in 0..MaxFailures
  BY HandoverAssumption DEF TypeOK, Fails

\* A batch that waits for something else is the same batch.
LEMMA Renewed ==
  ASSUME TypeOK, NEW b \in batches, NEW s \in {"turns", "replies", "lock"}
  PROVE  /\ [b EXCEPT !.awaits = s] \in
              [conns : SUBSET Conns, upto : 1..Gen, awaits : {"turns", "replies", "lock"}]
         /\ [b EXCEPT !.awaits = s].conns = b.conns /\ [b EXCEPT !.awaits = s].upto = b.upto
         /\ [b EXCEPT !.awaits = s].awaits = s
  BY DEF TypeOK

\* Those who wait for the queue to be empty wait for the lock then.
LEMMA JoinedBatch ==
  ASSUME TypeOK, NEW b \in Joined(batches)
  PROVE  /\ b \in [conns : SUBSET Conns, upto : 1..Gen, awaits : {"turns", "replies", "lock"}]
         /\ \E a \in batches : /\ a.conns = b.conns /\ a.upto = b.upto
                              /\ b.awaits = IF a.awaits = "replies" THEN "lock" ELSE a.awaits
<1>1. PICK a \in batches : b = [a EXCEPT !.awaits = IF @ = "replies" THEN "lock" ELSE @]
  BY DEF Joined
<1>2. (IF a.awaits = "replies" THEN "lock" ELSE a.awaits) \in {"turns", "replies", "lock"}
  BY DEF TypeOK
<1>3. b = [a EXCEPT !.awaits = IF a.awaits = "replies" THEN "lock" ELSE a.awaits]
  BY <1>1
<1> QED BY <1>2, <1>3, Renewed

\* Turns and the choice of a candidate.
LEMMA OutsideTypes ==
  ASSUME TypeOK, Phases
  PROVE  /\ \A c \in Conns : Accept(c) => TypeOK' /\ Phases'
         /\ \A w \in work : Answer(w) \/ Deliver(w) => TypeOK' /\ Phases'
         /\ \A c \in Candidates : Apply(c) => TypeOK' /\ Phases'
         /\ DrainFails \/ Enter => TypeOK' /\ Phases'
         /\ \A b \in batches : Released(b) => TypeOK' /\ Phases'
<1>1. ASSUME NEW c \in Conns, Accept(c) PROVE TypeOK' /\ Phases'
  BY <1>1 DEF Accept, TypeOK, Phases, Gen, host
<1>2. ASSUME NEW w \in work, Answer(w) PROVE TypeOK' /\ Phases'
  BY <1>2 DEF Answer, TypeOK, Phases, Gen, host
<1>3. ASSUME NEW w \in work, Deliver(w) PROVE TypeOK' /\ Phases'
  <2>1. batches' \subseteq [conns : SUBSET Conns, upto : 1..Gen, awaits : {"turns", "replies", "lock"}]
    BY <1>3, JoinedBatch DEF Deliver, TypeOK
  <2> QED BY <1>3, <2>1 DEF Deliver, TypeOK, Phases, Gen, host
<1>4. ASSUME NEW c \in Candidates, Apply(c) PROVE TypeOK' /\ Phases'
  <2>1. c \in Slots /\ barrier' \in BOOLEAN /\ open' \subseteq Conns
    BY <1>4 DEF Apply, Candidates, RequiresExclusive, Paused, TypeOK
  <2>2. TypeOK'
    BY <1>4, <2>1, HandoverTyped DEF Apply, TypeOK
  <2> QED BY <1>4, <2>2 DEF Apply, Phases, Gen
<1>5. NoCand \in Slots
  BY HandoverAssumption DEF NoCand, Slots
<1>6. CASE DrainFails
  <2>1. cand' \in Slots /\ {todo', stopped', tried', bad', degraded'} \subseteq SUBSET Names
    BY <1>5, <1>6 DEF DrainFails, Forget, TypeOK
  <2>2. open' \subseteq Conns /\ failures' \in 0..MaxFailures
    BY <1>6, Shapes, FailsTyped DEF DrainFails, TypeOK
  <2>3. TypeOK'
    BY <1>6, <2>1, <2>2, HandoverTyped DEF DrainFails, Forget, TypeOK
  <2> QED BY <1>6, <2>3 DEF DrainFails, Forget, Fails, Phases, Gen
<1>7. CASE Enter
  <2>1. TypeOK'
    BY <1>7, HandoverTyped DEF Enter, TypeOK
  <2> QED BY <1>7, <2>1 DEF Enter, Phases, Gen
<1>8. ASSUME NEW b \in batches, Released(b) PROVE TypeOK' /\ Phases'
  <2>1. PICK s \in {"lock", "replies"} : batches' = (batches \ {b}) \cup {[b EXCEPT !.awaits = s]}
    BY <1>8 DEF Released
  <2>2. batches' \subseteq [conns : SUBSET Conns, upto : 1..Gen, awaits : {"turns", "replies", "lock"}]
    BY <2>1, Renewed DEF TypeOK
  <2> QED BY <1>8, <2>2 DEF Released, TypeOK, Phases, Gen, host
<1> QED BY <1>1, <1>2, <1>3, <1>4, <1>6, <1>7, <1>8

\* The handover and its rollback.
LEMMA HandoverTypes ==
  ASSUME TypeOK, Phases, Progress
  PROVE  /\ StartPhase \/ SwitchFails \/ RestorePhase => TypeOK' /\ Phases'
         /\ \A n \in Names : Park(n) \/ Stop(n) \/ Start(n) \/ Clean(n) \/ Restart(n)
              \/ Restarted(n) => TypeOK' /\ Phases'
<1>1. ASSUME NEW n \in Names, Park(n) PROVE TypeOK' /\ Phases'
  <2>1. TypeOK'
    BY <1>1, HandoverTyped DEF Park, TypeOK
  <2> QED BY <1>1, <2>1 DEF Park, Phases, Gen
<1>2. ASSUME NEW n \in Names, Stop(n) PROVE TypeOK' /\ Phases'
  <2>1. sender' \in Slots /\ marked' \subseteq Names
    BY <1>2, StopTyped DEF Stop, Unregistered
  <2>2. /\ failures' \in 0..MaxFailures
        /\ state' \in [Conns -> {"new", "off", "starting", "live", "unsure"}]
    BY <1>2, FailsTyped DEF Stop, TypeOK
  <2>3. {todo', stopped', tried', bad', degraded'} \subseteq SUBSET Names
    BY <1>2 DEF Stop, TypeOK
  <2>4. TypeOK'
    BY <1>2, <2>1, <2>2, <2>3, HandoverTyped DEF Stop, TypeOK
  <2> QED BY <1>2, <2>4 DEF Stop, Phases, Gen
<1>3. CASE StartPhase
  <2>1. TypeOK'
    BY <1>3, HandoverTyped DEF StartPhase, TypeOK
  <2> QED BY <1>3, <2>1 DEF StartPhase, Phases, Gen
<1>4. ASSUME NEW n \in Names, Start(n) PROVE TypeOK' /\ Phases'
  <2>1. sender' \in Slots /\ marked' \subseteq Names
    BY <1>4 DEF Start, Registered, Slots, TypeOK
  <2>2. /\ failures' \in 0..MaxFailures
        /\ state' \in [Conns -> {"new", "off", "starting", "live", "unsure"}]
    BY <1>4, FailsTyped DEF Start, TypeOK
  <2>3. {todo', stopped', tried', bad', degraded'} \subseteq SUBSET Names
    BY <1>4 DEF Start, TypeOK
  <2>4. TypeOK'
    BY <1>4, <2>1, <2>2, <2>3, HandoverTyped DEF Start, TypeOK
  <2> QED BY <1>4, <2>4 DEF Start, Phases, Gen
<1>5. CASE SwitchFails
  <2>1. TypeOK'
    BY <1>5, Shapes, HandoverTyped, FailsTyped DEF SwitchFails, Reopened, TypeOK
  <2> QED BY <1>5, <2>1 DEF SwitchFails, Phases, Gen
<1>6. ASSUME NEW n \in Names, Clean(n) PROVE TypeOK' /\ Phases'
  <2>1. sender' \in Slots /\ marked' \subseteq Names
    BY <1>6, StopTyped DEF Clean, Stops, Unregistered
  <2>2. /\ failures' \in 0..MaxFailures
        /\ state' \in [Conns -> {"new", "off", "starting", "live", "unsure"}]
    BY <1>6, FailsTyped DEF Clean, Stops, TypeOK
  <2>3. {todo', stopped', tried', bad', degraded'} \subseteq SUBSET Names
    BY <1>6 DEF Clean, Stops, TypeOK
  <2>4. TypeOK'
    BY <1>6, <2>1, <2>2, <2>3, HandoverTyped DEF Clean, Stops, TypeOK
  <2> QED BY <1>6, <2>4 DEF Clean, Stops, Phases, Gen
<1>7. CASE RestorePhase
  <2>1. TypeOK'
    BY <1>7, HandoverTyped DEF RestorePhase, Restorable, TypeOK
  <2> QED BY <1>7, <2>1 DEF RestorePhase, Phases, Gen
<1>8. ASSUME NEW n \in Names, Restart(n) PROVE TypeOK' /\ Phases'
  <2>1. sender' \in Slots /\ marked' \subseteq Names
    BY <1>8, Shapes DEF Restart, Registered, Slots, TypeOK
  <2>2. open' \subseteq Conns
    BY <1>8, Shapes DEF Restart, Progress, Replaces, Conns, TypeOK
  <2>3. TypeOK'
    BY <1>8, <2>1, <2>2, HandoverTyped DEF Restart, TypeOK
  <2> QED BY <1>8, <2>3 DEF Restart, Phases, Gen
<1>9. ASSUME NEW n \in Names, Restarted(n) PROVE TypeOK' /\ Phases'
  <2>1. open' \subseteq Conns /\ marked' \subseteq Names /\ failures' \in 0..MaxFailures
    BY <1>9, FailsTyped DEF Restarted, TypeOK
  <2>2. state' \in [Conns -> {"new", "off", "starting", "live", "unsure"}]
    BY <1>9 DEF Restarted, TypeOK
  <2>3. {todo', stopped', tried', bad', degraded'} \subseteq SUBSET Names
    BY <1>9 DEF Restarted, TypeOK
  <2>4. TypeOK'
    BY <1>9, <2>1, <2>2, <2>3, HandoverTyped DEF Restarted, TypeOK
  <2> QED BY <1>9, <2>4 DEF Restarted, Phases, Gen
<1> QED BY <1>1, <1>2, <1>3, <1>4, <1>5, <1>6, <1>7, <1>8, <1>9

\* The end of an apply, retirement and shutdown.
LEMMA EndTypes ==
  ASSUME TypeOK, Phases,
         Switch \/ Recover \/ (\E b \in batches : Retire(b)) \/ StopAll
  PROVE  TypeOK' /\ Phases'
<1>1. NoCand \in Slots
  BY HandoverAssumption DEF NoCand, Slots
<1>2. CASE Switch
  <2>1. Gen < MaxGen
    BY <1>2 DEF Switch, Phases
  <2>2. /\ hosts' \in Seq(Slots) /\ Gen' = Gen + 1 /\ host' = cand /\ Gen' \in 1..MaxGen
    BY <1>2, <2>1, Appended, Shapes, HandoverAssumption DEF Switch, TypeOK
  <2>3. /\ cand' \in Slots /\ open' \subseteq Conns /\ marked' \subseteq Names
        /\ {todo', stopped', tried', bad', degraded'} \subseteq SUBSET Names
    BY <1>1, <1>2, Shapes DEF Switch, Forget, TypeOK
  <2>4. retired' \in Slots /\ \A n \in Names : host'[n] = 0 \/ retired'[n] = 0
    BY <1>2, <2>2, Shapes, HandoverAssumption DEF Switch, StillRetired, Parks, Slots, TypeOK
  <2>5. \A g \in 1..Gen : g \in 1..Gen'
    BY <2>2, Shapes
  <2>6. work' \subseteq [conn : Conns, gen : 1..Gen', at : {"turn", "reply"}]
    BY <1>2, <2>5 DEF Switch, TypeOK
  <2>7. batches' \subseteq [conns : SUBSET Conns, upto : 1..Gen', awaits : {"turns", "replies", "lock"}]
    <3> DEFINE parked == {n \in Names : Parks(n)}
               new == [conns |-> {<<n, host[n]>> : n \in parked}, upto |-> Gen, awaits |-> "turns"]
    <3>1. {<<n, host[n]>> : n \in parked} \subseteq Conns
      BY Shapes DEF Parks, Conns, Slots
    <3>2. new \in [conns : SUBSET Conns, upto : 1..Gen', awaits : {"turns", "replies", "lock"}]
      BY <3>1, <2>5, Shapes
    <3>3. batches \subseteq [conns : SUBSET Conns, upto : 1..Gen', awaits : {"turns", "replies", "lock"}]
      BY <2>5 DEF TypeOK
    <3>4. batches' \subseteq batches \cup {new}
      BY <1>2 DEF Switch
    <3> HIDE DEF new
    <3> QED BY <3>2, <3>3, <3>4
  <2>8. TypeOK'
    BY <1>2, <2>2, <2>3, <2>4, <2>6, <2>7 DEF Switch, Forget, TypeOK
  <2> QED BY <1>2, <2>8 DEF Switch, Forget, Phases, NoCand
<1>3. CASE Recover
  <2>1. open' \subseteq Conns /\ cand' \in Slots
    BY <1>1, <1>3, Shapes DEF Recover, Forget, TypeOK
  <2>2. {todo', stopped', tried', bad', degraded'} \subseteq SUBSET Names
    BY <1>3 DEF Recover, Forget, TypeOK
  <2>3. TypeOK'
    BY <1>3, <2>1, <2>2, HandoverTyped DEF Recover, Forget, TypeOK
  <2> QED BY <1>3, <2>3 DEF Recover, Forget, Phases, NoCand, Gen
<1>4. ASSUME NEW b \in batches, Retire(b) PROVE TypeOK' /\ Phases'
  <2>1. PICK done \in SUBSET Members(b), failed \in SUBSET Members(b) :
          /\ (done = Members(b) /\ UNCHANGED failures) \/ (Cardinality(failed) = 1 /\ Fails)
          /\ state' = [c \in Conns |-> IF c \in done THEN "off"
                                       ELSE IF c \in failed THEN "unsure" ELSE state[c]]
          /\ retired' = [n \in Names |-> IF <<n, retired[n]>> \in done THEN 0 ELSE retired[n]]
          /\ Unregistered(done \cup failed) /\ open' = open \ (done \cup failed)
          /\ degraded' = degraded \cup {c[1] : c \in failed}
    BY <1>4 DEF Retire
  <2>2. failures' \in 0..MaxFailures
    BY <2>1, FailsTyped
  <2>3. sender' \in Slots /\ marked' \subseteq Names
    BY <2>1, StopTyped DEF Unregistered
  <2>4. retired' \in Slots /\ \A n \in Names : host[n] = 0 \/ retired'[n] = 0
    BY <2>1, HandoverAssumption DEF TypeOK, Slots
  <2>5. state' \in [Conns -> {"new", "off", "starting", "live", "unsure"}]
    BY <2>1 DEF TypeOK
  <2>6. degraded' \in SUBSET Names /\ open' \subseteq Conns
    <3>1. failed \subseteq Conns
      BY DEF Members, TypeOK
    <3>2. {c[1] : c \in failed} \subseteq Names
      BY <3>1 DEF Conns
    <3> QED BY <2>1, <3>2 DEF TypeOK
  <2>7. batches' \subseteq batches /\ hosts' = hosts
    BY <1>4 DEF Retire
  <2>8. {todo', stopped', tried', bad', degraded'} \subseteq SUBSET Names
    BY <1>4, <2>6 DEF Retire, TypeOK
  <2>9. TypeOK'
    BY <1>4, <2>2, <2>3, <2>4, <2>5, <2>6, <2>7, <2>8 DEF Retire, TypeOK, Gen, host
  <2> QED BY <1>4, <2>9 DEF Retire, Phases, Gen
<1>5. CASE StopAll
  <2>1. sender' \in Slots /\ marked' \subseteq Names
    BY <1>5, StopTyped DEF StopAll, Unregistered
  <2>2. failures' \in 0..MaxFailures
    BY <1>5, FailsTyped DEF StopAll
  <2>3. state' \in [Conns -> {"new", "off", "starting", "live", "unsure"}]
    BY <1>5 DEF StopAll, TypeOK
  <2>4. open' \subseteq Conns
    BY <1>5 DEF StopAll, TypeOK
  <2>5. TypeOK'
    BY <1>5, <2>1, <2>2, <2>3, <2>4 DEF StopAll, TypeOK, Gen, host
  <2> QED BY <1>5, <2>5 DEF StopAll, Phases, Gen
<1> QED BY <1>2, <1>3, <1>4, <1>5

\* Every step keeps the types and what a phase leaves untouched.
LEMMA NextTypes ==
  ASSUME TypeOK, Phases, Progress, [Next]_vars
  PROVE  TypeOK' /\ Phases'
<1>1. CASE UNCHANGED vars
  BY <1>1 DEF vars, TypeOK, Phases, Gen, host
<1> QED
  BY <1>1, OutsideTypes, HandoverTypes, EndTypes DEF Next, Handover

\* The ends of an apply forget its progress, and what a handover adds,
\* replaces or parks is settled before it begins.
LEMMA SameCandidate ==
  ASSUME UNCHANGED <<hosts, retired, cand>>
  PROVE  /\ Gen' = Gen /\ host' = host
         /\ \A n \in Names : Outgoing(n)' = Outgoing(n) /\ Existing(n)' = Existing(n)
         /\ \A n \in Names : Adds(n)' = Adds(n) /\ Replaces(n)' = Replaces(n) /\ Parks(n)' = Parks(n)
         /\ \A n \in Names : \A k : Published(n, k)' = Published(n, k)
  BY DEF Gen, host, Outgoing, Existing, Adds, Replaces, Parks, Published

\* Every step of a handover keeps the account of what it stopped and started.
LEMMA ProgressStep ==
  ASSUME TypeOK, Phases, Progress, [Next]_vars
  PROVE  Progress'
<1> USE DEF Progress
<1>1. ASSUME UNCHANGED <<hosts, retired, cand, pc, todo, stopped, tried, bad>>
      PROVE  Progress'
  BY <1>1, SameCandidate
<1>2. ASSUME stopped' = {}, tried' = {}, pc' \in {"idle", "drain", "down"}
      PROVE  Progress'
  BY <1>2
<1>3. ASSUME NEW c \in Conns, Accept(c) PROVE Progress'
  BY <1>1, <1>3 DEF Accept
<1>4. ASSUME NEW w \in work, Answer(w) \/ Deliver(w) PROVE Progress'
  BY <1>1, <1>4 DEF Answer, Deliver
<1>5. ASSUME NEW c \in Candidates, Apply(c) PROVE Progress'
  BY <1>2, <1>5 DEF Apply, Phases
<1>6. CASE DrainFails \/ Switch \/ Recover
  BY <1>2, <1>6 DEF DrainFails, Switch, Recover, Forget
<1>7. CASE Enter
  <2>1. stopped = {} /\ tried = {}
    BY <1>7 DEF Enter, Phases
  <2> QED BY <1>7, <2>1, SameCandidate DEF Enter
<1>8. CASE StartPhase
  <2>1. tried = {}
    BY <1>8 DEF StartPhase, Phases
  <2> QED BY <1>8, <2>1, SameCandidate DEF StartPhase
<1>9. CASE SwitchFails
  BY <1>9, SameCandidate DEF SwitchFails
<1>10. CASE RestorePhase
  BY <1>10, SameCandidate DEF RestorePhase, Restorable
<1>11. ASSUME NEW n \in Names, Park(n) PROVE Progress'
  <2>1. ~ Replaces(n)
    BY <1>11 DEF Park, Parks, Replaces
  <2> QED BY <1>11, <2>1, SameCandidate DEF Park
<1>12. ASSUME NEW n \in Names, Stop(n) PROVE Progress'
  <2>1. tried = {}
    BY <1>12 DEF Stop, Phases
  <2> QED BY <1>12, <2>1, SameCandidate DEF Stop
<1>13. ASSUME NEW n \in Names, Start(n) PROVE Progress'
  BY <1>13, SameCandidate DEF Start
<1>14. ASSUME NEW n \in Names, Clean(n) PROVE Progress'
  BY <1>14, SameCandidate DEF Clean, Stops
<1>15. ASSUME NEW n \in Names, Restart(n) PROVE Progress'
  BY <1>1, <1>15 DEF Restart
<1>16. ASSUME NEW n \in Names, Restarted(n) PROVE Progress'
  BY <1>16, SameCandidate DEF Restarted
<1>17. ASSUME NEW b \in batches, Retire(b) PROVE Progress'
  <2>1. pc \in {"idle", "drain"}
    BY <1>17 DEF Retire, Locked, TypeOK
  <2> QED BY <1>2, <1>17, <2>1 DEF Retire, Phases
<1>18. CASE StopAll
  BY <1>2, <1>18 DEF StopAll, Phases
<1>19. CASE UNCHANGED vars
  BY <1>1, <1>19 DEF vars
<1>20. ASSUME NEW b \in batches, Released(b) PROVE Progress'
  BY <1>1, <1>20 DEF Released
<1> QED
  BY <1>3, <1>4, <1>5, <1>6, <1>7, <1>8, <1>9, <1>10, <1>11, <1>12, <1>13, <1>14,
     <1>15, <1>16, <1>17, <1>18, <1>19, <1>20 DEF Next, Handover

-----------------------------------------------------------------------------
(* Connection objects.                                                       *)

\* A connection that left the state "new" never returns to it.
LEMMA NeverNewAgain ==
  ASSUME TypeOK, [Next]_vars, NEW c \in Conns, state[c] # "new"
  PROVE  state'[c] # "new"
<1>1. CASE UNCHANGED state
  BY <1>1
<1>2. ASSUME NEW d, NEW s \in {"off", "unsure", "live", "starting"},
             state' = [state EXCEPT ![d] = s]
      PROVE  state'[c] # "new"
  BY <1>2 DEF TypeOK
<1>3. ASSUME NEW n \in Names, Stop(n) \/ Start(n) \/ Clean(n) \/ Restart(n) \/ Restarted(n)
      PROVE  state'[c] # "new"
  BY <1>2, <1>3 DEF Stop, Start, Clean, Stops, Restart, Restarted
<1>4. ASSUME NEW b \in batches, Retire(b) PROVE state'[c] # "new"
  BY <1>4 DEF Retire
<1>5. CASE StopAll
  BY <1>5 DEF StopAll
<1> QED
  BY <1>1, <1>3, <1>4, <1>5 DEF Next, Handover, Accept, Answer, Deliver, Apply, DrainFails,
     Enter, StartPhase, Switch, SwitchFails, RestorePhase, Recover, Park, Released, vars

\* What was published stays published.
LEMMA StaysPublished ==
  ASSUME TypeOK, [Next]_vars
  PROVE  /\ UNCHANGED hosts \/ Switch
         /\ \A n, k : Published(n, k) => Published(n, k)'
<1>1. UNCHANGED hosts \/ Switch
  BY DEF Next, Handover, Accept, Answer, Deliver, Apply, DrainFails, Enter, StartPhase,
     SwitchFails, RestorePhase, Recover, Park, Stop, Start, Clean, Restart, Restarted,
     Released, Retire, StopAll, vars
<1>2. CASE UNCHANGED hosts
  BY <1>2 DEF Published, Gen
<1>3. CASE Switch
  <2>1. Gen \in Nat /\ Gen' = Gen + 1 /\ \A g \in 1..Gen : hosts'[g] = hosts[g]
    BY <1>3, Appended, Shapes DEF Switch
  <2>2. \A g \in 1..Gen : g \in 1..Gen'
    BY <2>1
  <2> QED BY <2>1, <2>2, <1>3 DEF Published
<1> QED BY <1>1, <1>2, <1>3

\* Only the end of an apply and a retirement change what is retained.
LEMMA SameOutside ==
  ASSUME [Next]_vars
  PROVE  \/ UNCHANGED <<hosts, retired, cand>>
         \/ \E c \in Candidates : Apply(c)
         \/ Switch \/ DrainFails \/ Recover
         \/ \E b \in batches : Retire(b)
  BY DEF Next, Handover, Accept, Answer, Deliver, Enter, StartPhase, SwitchFails,
     RestorePhase, Park, Stop, Start, Clean, Restart, Restarted, Released, StopAll, vars

\* A batch after a step was there before, perhaps waiting for something else,
\* or holds what the end of an apply parked.
LEMMA BatchesAfter ==
  ASSUME TypeOK, [Next]_vars, NEW b \in batches'
  PROVE  \/ \E a \in batches : a.conns = b.conns /\ a.upto = b.upto
         \/ /\ Switch /\ b.upto = Gen /\ b.awaits = "turns"
            /\ b.conns = {<<n, host[n]>> : n \in {m \in Names : Parks(m)}}
<1>1. CASE batches' \subseteq batches
  BY <1>1
<1>2. ASSUME NEW w \in work, Deliver(w)
      PROVE  \E a \in batches : a.conns = b.conns /\ a.upto = b.upto
  BY <1>2, JoinedBatch DEF Deliver
<1>3. ASSUME NEW a \in batches, Released(a)
      PROVE  \E d \in batches : d.conns = b.conns /\ d.upto = b.upto
  <2>1. PICK s \in {"lock", "replies"} : batches' = (batches \ {a}) \cup {[a EXCEPT !.awaits = s]}
    BY <1>3 DEF Released
  <2> QED BY <2>1, Renewed
<1>4. CASE Switch
  BY <1>4 DEF Switch
<1> QED
  BY <1>1, <1>2, <1>3, <1>4 DEF Next, Handover, Accept, Answer, Apply, DrainFails, Enter, StartPhase,
     SwitchFails, RestorePhase, Recover, Park, Stop, Start, Clean, Restart, Restarted, Retire,
     StopAll, vars

\* Nothing is added once an apply has ended.
LEMMA NothingAdded ==
  ASSUME TypeOK, Phases, pc \in {"idle", "down"}
  PROVE  \A n \in Names : cand[n] = 0 /\ ~ Adds(n) /\ ~ Replaces(n)
  BY DEF Phases, NoCand, Adds, Replaces

\* No step publishes a connection that was published before.
LEMMA ObjectsStep ==
  ASSUME IInv, [Next]_vars
  PROVE  Objects'
<1> USE DEF IInv
<1>1. Gen \in Nat \ {0} /\ host \in Slots /\ \A n, k : Published(n, k) => Published(n, k)'
  BY Shapes, StaysPublished
<1>2. \A n \in Names : retired[n] # 0 => Published(n, retired[n])
  BY DEF Objects
<1>3. \A n \in Names : Published(n, host[n])
  BY <1>1 DEF Published, host
<1>4. ASSUME NEW n \in Names, NEW g \in 1..Gen', hosts'[g][n] # 0
      PROVE  state'[<<n, hosts'[g][n]>>] # "new"
  <2>1. CASE UNCHANGED hosts
    <3>1. g \in 1..Gen /\ hosts'[g][n] = hosts[g][n] /\ hosts[g][n] \in 0..MaxConns
      BY <2>1, Shapes DEF Gen, Slots
    <3>2. <<n, hosts[g][n]>> \in Conns
      BY <1>4, <3>1, HandoverAssumption DEF Conns
    <3> QED BY <1>4, <3>1, <3>2, NeverNewAgain DEF Objects
  <2>2. CASE Switch
    <3>1. /\ hosts' = Append(hosts, cand) /\ state' = state
          /\ pc = "start" /\ todo = {}
      BY <2>2 DEF Switch
    <3>2. Gen' = Gen + 1 /\ g \in 1..Gen + 1
      BY <3>1, Appended
    <3>3. CASE g = Gen + 1 /\ Adds(n)
      <4>1. n \in tried /\ hosts'[g] = cand
        BY <3>1, <3>3, Appended DEF Progress
      <4> QED BY <3>1, <4>1 DEF Kept
    <3>4. CASE g = Gen + 1 /\ ~ Adds(n)
      <4>1. hosts'[g] = cand /\ cand[n] = host[n]
        BY <1>4, <3>1, <3>4, Appended DEF Adds
      <4>2. Gen \in 1..Gen
        BY <1>1
      <4> QED BY <1>4, <3>1, <4>1, <4>2 DEF Objects, host
    <3>5. CASE g \in 1..Gen
      <4>1. hosts'[g] = hosts[g]
        BY <3>1, <3>5, Appended
      <4> QED BY <1>4, <3>1, <3>5, <4>1 DEF Objects
    <3> QED BY <1>1, <3>2, <3>3, <3>4, <3>5
  <2> QED BY <2>1, <2>2, StaysPublished
<1>5. ASSUME NEW n \in Names, retired'[n] # 0 PROVE Published(n, retired[n])'
  <2>1. CASE UNCHANGED retired
    BY <1>1, <1>2, <1>5, <2>1 DEF Published
  <2>2. CASE Switch
    <3>1. retired'[n] \in {host[n], retired[n]}
      BY <1>5, <2>2 DEF Switch, StillRetired, TypeOK, Slots
    <3> QED BY <1>1, <1>2, <1>3, <1>5, <3>1
  <2>3. ASSUME NEW b \in batches, Retire(b) PROVE Published(n, retired[n])'
    <3>1. retired'[n] = retired[n]
      BY <1>5, <2>3 DEF Retire
    <3> QED BY <1>1, <1>2, <1>5, <3>1
  <2> QED
    BY <2>1, <2>2, <2>3, SameOutside DEF Apply, DrainFails, Forget, Recover
<1>6. ASSUME NEW c \in open' PROVE Published(c[1], c[2])'
  <2>1. CASE c \in open
    BY <1>1, <2>1 DEF Objects
  <2>2. CASE c \in Of(host)
    <3>1. c[1] \in Names /\ c[2] = host[c[1]]
      BY <2>2 DEF Of
    <3> QED BY <1>1, <1>3, <3>1
  <2>3. CASE Switch
    <3>1. hosts' = Append(hosts, cand) /\ open' = open \cup Of(cand)
      BY <2>3 DEF Switch
    <3>2. CASE c \in Of(cand)
      <4>1. c[1] \in Names /\ c[2] = cand[c[1]]
        BY <3>2 DEF Of
      <4>2. Gen' = Gen + 1 /\ hosts'[Gen + 1] = cand
        BY <3>1, Appended
      <4>3. Gen + 1 \in 1..Gen'
        BY <1>1, <4>2
      <4> QED BY <4>1, <4>2, <4>3 DEF Published
    <3> QED BY <2>1, <3>1, <3>2
  <2>4. ASSUME NEW n \in Names, Restart(n), c = <<n, Outgoing(n)>> PROVE Published(c[1], c[2])'
    <3>1. Replaces(n)
      BY <2>4 DEF Restart, Progress
    <3>2. Outgoing(n) \in {host[n], retired[n]} /\ Outgoing(n) # 0
      BY <3>1 DEF Outgoing, Replaces
    <3> QED BY <1>1, <1>2, <1>3, <2>4, <3>2
  <2>5. \/ c \in open \cup Of(host) \/ Switch
        \/ \E n \in Names : Restart(n) /\ c = <<n, Outgoing(n)>>
    <3>1. CASE open' \subseteq open \cup Of(host)
      BY <3>1
    <3>2. ASSUME NEW n \in Names, Restart(n) PROVE open' = open \cup {<<n, Outgoing(n)>>}
      BY <3>2 DEF Restart
    <3>3. \/ open' \subseteq open \cup Of(host) \/ Switch \/ \E n \in Names : Restart(n)
      BY DEF Next, Handover, Accept, Answer, Deliver, Apply, Paused, DrainFails, Enter,
         StartPhase, SwitchFails, Reopened, RestorePhase, Recover, Park, Stop, Start, Clean,
         Stops, Restarted, Released, Retire, StopAll, vars
    <3> QED BY <3>1, <3>2, <3>3
  <2> QED BY <2>1, <2>2, <2>3, <2>4, <2>5
<1>7. ASSUME NEW n \in Names, Adds(n)' PROVE ~ Published(n, cand[n])'
  <2>1. TypeOK' /\ Phases'
    BY NextTypes
  <2>2. pc' \notin {"idle", "down"}
    BY <1>7, <2>1 DEF Phases, NoCand, Adds
  <2>3. CASE UNCHANGED <<hosts, retired, cand>>
    BY <1>7, <2>3, SameCandidate DEF Objects
  <2>4. ASSUME NEW c \in Candidates, Apply(c) PROVE ~ Published(n, cand[n])'
    <3>1. cand' = c /\ hosts' = hosts /\ state[<<n, c[n]>>] = "new" /\ c[n] # 0
      BY <1>7, <2>4 DEF Apply, Candidates, Adds, host, Gen
    <3>2. ~ Published(n, c[n])
      BY <3>1 DEF Objects, Published
    <3> QED BY <3>1, <3>2 DEF Published, Gen
  <2>5. CASE Switch \/ DrainFails \/ Recover
    BY <2>2, <2>5 DEF Switch, DrainFails, Recover
  <2>6. ASSUME NEW b \in batches, Retire(b) PROVE ~ Published(n, cand[n])'
    BY <1>7, <2>6 DEF Retire, Objects, Adds, Published, host, Gen
  <2> QED BY <2>3, <2>4, <2>5, <2>6, SameOutside
<1>8. ASSUME NEW b \in batches', NEW c \in b.conns PROVE Published(c[1], c[2])'
  <2>1. ASSUME NEW a \in batches, a.conns = b.conns PROVE Published(c[1], c[2])'
    BY <1>1, <2>1 DEF Objects
  <2>2. CASE b.conns = {<<n, host[n]>> : n \in {m \in Names : Parks(m)}}
    <3>1. c[1] \in Names /\ c[2] = host[c[1]]
      BY <2>2
    <3> QED BY <1>1, <1>3, <3>1
  <2> QED BY <2>1, <2>2, BatchesAfter
<1> QED BY <1>4, <1>5, <1>6, <1>7, <1>8 DEF Objects

-----------------------------------------------------------------------------
(* What is up.                                                               *)

\* Where a state was assigned, and where it was not.
LEMMA Assigned ==
  ASSUME TypeOK, NEW n \in Names, NEW k \in 1..MaxConns, NEW s,
         state' = [state EXCEPT ![<<n, k>>] = s]
  PROVE  /\ state'[<<n, k>>] = s
         /\ \A m \in Names, j \in 1..MaxConns : m # n \/ j # k => state'[<<m, j>>] = state[<<m, j>>]
  BY HandoverAssumption DEF TypeOK, Conns

\* A connection is its name and its number.
LEMMA Pairs ==
  /\ \A c \in Conns : c[1] \in Names /\ c[2] \in 1..MaxConns /\ c = <<c[1], c[2]>>
  /\ \A n \in Names, k \in 1..MaxConns : <<n, k>> \in Conns
  BY DEF Conns

\* The connection a handover takes away is the published or retained one.
LEMMA Outgoings ==
  ASSUME IInv, NEW n \in Names
  PROVE  /\ Outgoing(n) \in {host[n], retired[n]}
         /\ cand[n] # 0 => Outgoing(n) = Existing(n)
         /\ host[n] # 0 => Existing(n) = host[n]
         /\ Replaces(n) => Outgoing(n) \in 1..MaxConns /\ Outgoing(n) # cand[n] /\ cand[n] # 0
         /\ Adds(n) => cand[n] \in 1..MaxConns /\ cand[n] # retired[n] /\ cand[n] # host[n]
         /\ Adds(n) /\ Existing(n) # 0 => Replaces(n)
<1>1. host[n] = 0 \/ retired[n] = 0
  BY DEF IInv, TypeOK
<1>2. host[n] \in 0..MaxConns /\ retired[n] \in 0..MaxConns /\ cand[n] \in 0..MaxConns
  BY Shapes DEF IInv, TypeOK, Slots
<1>3. Adds(n) => cand[n] # retired[n]
  BY DEF IInv, Objects, Adds
<1> QED BY <1>1, <1>2, <1>3, HandoverAssumption DEF Outgoing, Existing, Replaces, Adds

\* No step brings up a connection that is neither published, retained nor being tried.
LEMMA UpwardStep ==
  ASSUME IInv, [Next]_vars
  PROVE  Upward'
<1> USE DEF Upward, Up, Away
<1>0. TypeOK /\ Phases /\ Progress /\ Upward
  BY DEF IInv
<1>1. ASSUME UNCHANGED <<hosts, retired, cand, state, pc, tried, stopped, todo, sender, marked>>
      PROVE  Upward'
  BY <1>0, <1>1 DEF Gen, host, Outgoing
<1>2. ASSUME NEW c \in Conns, Accept(c) PROVE Upward'
  BY <1>1, <1>2 DEF Accept
<1>3. ASSUME NEW w \in work, Answer(w) \/ Deliver(w) PROVE Upward'
  BY <1>1, <1>3 DEF Answer, Deliver
<1>4. ASSUME pc # "restore", stopped' = {}, UNCHANGED <<hosts, retired, state>>,
             pc \in {"idle", "drain"}
      PROVE  Upward'
  <2>1. tried = {} /\ \A c \in Conns : state[c] # "starting"
    BY <1>0, <1>4 DEF Phases
  <2> QED BY <1>0, <1>4, <2>1 DEF Gen, host
<1>5. ASSUME NEW c \in Candidates, Apply(c) PROVE Upward'
  BY <1>0, <1>4, <1>5 DEF Apply, Phases
<1>6. CASE DrainFails
  BY <1>4, <1>6 DEF DrainFails, Forget
<1>7. CASE Enter
  BY <1>0, <1>4, <1>7 DEF Enter, Phases
<1>8. ASSUME NEW n \in Names, Park(n) PROVE Upward'
  BY <1>0, <1>8, SameCandidate DEF Park
<1>9. ASSUME NEW n \in Names, Stop(n) PROVE Upward'
  <2>1. Outgoing(n) \in 1..MaxConns /\ pc = "stop" /\ tried = {}
    BY <1>0, <1>9, Outgoings DEF Stop, Phases
  <2>2. /\ state'[<<n, Outgoing(n)>>] \in {"off", "unsure"}
        /\ \A m \in Names, j \in 1..MaxConns :
             m # n \/ j # Outgoing(n) => state'[<<m, j>>] = state[<<m, j>>]
    BY <1>0, <1>9, <2>1, Assigned DEF Stop
  <2>3. UNCHANGED <<hosts, retired, cand, tried>> /\ stopped' \subseteq stopped \cup {n}
    BY <1>9 DEF Stop
  <2>4. \A m \in stopped : m \in Names /\ Outgoing(m) \in 1..MaxConns
    BY <1>0, Outgoings DEF Progress
  <2>5. \A c \in Conns : state'[c] # "starting"
    BY <1>0, <2>1, <2>2, Pairs
  <2>6. \A m \in Names : Away(m)' => ~ Up(<<m, Outgoing(m)>>)'
    BY <1>0, <2>1, <2>2, <2>3, <2>4, SameCandidate
  <2> QED BY <1>0, <2>1, <2>2, <2>3, <2>5, <2>6, SameCandidate
<1>10. CASE StartPhase
  BY <1>0, <1>10, SameCandidate DEF StartPhase, Phases
<1>11. ASSUME NEW n \in Names, Start(n) PROVE Upward'
  <2>1. cand[n] \in 1..MaxConns /\ pc = "start" /\ Adds(n)
    BY <1>0, <1>11, Outgoings DEF Start, Progress
  <2>2. /\ state'[<<n, cand[n]>>] \in {"live", "unsure"}
        /\ \A m \in Names, j \in 1..MaxConns :
             m # n \/ j # cand[n] => state'[<<m, j>>] = state[<<m, j>>]
    <3>1. PICK s \in {"live", "unsure"} : state' = [state EXCEPT ![<<n, cand[n]>>] = s]
      BY <1>11 DEF Start
    <3>2. cand[n] \in 1..MaxConns
      BY <2>1
    <3> QED BY <1>0, <3>1, <3>2, Pairs DEF TypeOK
  <2>3. /\ UNCHANGED <<hosts, retired, cand, stopped>> /\ tried' = tried \cup {n}
        /\ pc' = "start" \/ (pc' = "clean" /\ todo' = tried')
    BY <1>11, <2>1 DEF Start
  <2>4. \A m \in stopped : m \in Names /\ Outgoing(m) \in 1..MaxConns /\ Outgoing(m) # cand[m]
    BY <1>0, Outgoings DEF Progress
  <2>5. \A c \in Conns : state'[c] # "starting"
    BY <1>0, <2>1, <2>2, Pairs
  <2>6. \A m \in Names : Away(m)' => ~ Up(<<m, Outgoing(m)>>)'
    BY <1>0, <2>1, <2>2, <2>3, <2>4, SameCandidate
  <2> QED BY <1>0, <2>1, <2>2, <2>3, <2>5, <2>6, SameCandidate
<1>12. CASE Switch
  <2>1. /\ pc = "start" /\ todo = {} /\ state' = state /\ stopped' = {} /\ host' = cand
        /\ hosts' = Append(hosts, cand)
    BY <1>0, <1>12, Appended DEF Switch, Forget
  <2>2. ASSUME NEW n \in Names, NEW k \in 1..MaxConns, Up(<<n, k>>)
        PROVE  k \in {cand[n], retired'[n]}
    <3>1. k \in {host[n], retired[n], cand[n]}
      BY <1>0, <2>2
    <3>2. CASE cand[n] = 0
      BY <1>0, <1>12, <2>2, <3>1, <3>2 DEF Switch, Parks, StillRetired, TypeOK
    <3>3. CASE cand[n] # 0 /\ k # cand[n]
      <4>1. k = Existing(n) /\ Outgoing(n) = k
        BY <1>0, <3>1, <3>3, Outgoings DEF Existing, TypeOK
      <4>2. Replaces(n)
        BY <3>3, <4>1 DEF Replaces
      <4>3. Away(n)
        BY <1>0, <2>1, <4>2 DEF Progress
      <4> QED BY <1>0, <2>1, <2>2, <4>1, <4>3
    <3> QED BY <3>2, <3>3
  <2>3. \A c \in Conns : state[c] # "starting"
    BY <1>0, <2>1
  <2> QED BY <2>1, <2>2, <2>3
<1>13. CASE SwitchFails
  BY <1>0, <1>13, SameCandidate DEF SwitchFails
<1>14. ASSUME NEW n \in Names, Clean(n) PROVE Upward'
  <2>1. cand[n] \in 1..MaxConns /\ pc = "clean" /\ Adds(n) /\ n \in Names
    BY <1>0, <1>14, Outgoings DEF Clean, Progress
  <2>2. /\ state'[<<n, cand[n]>>] \in {"off", "unsure"}
        /\ \A m \in Names, j \in 1..MaxConns :
             m # n \/ j # cand[n] => state'[<<m, j>>] = state[<<m, j>>]
    <3>1. PICK s \in {"off", "unsure"} : state' = [state EXCEPT ![<<n, cand[n]>>] = s]
      BY <1>14 DEF Clean, Stops
    <3>2. cand[n] \in 1..MaxConns
      BY <2>1
    <3> QED BY <1>0, <3>1, <3>2, Pairs DEF TypeOK
  <2>3. UNCHANGED <<hosts, retired, cand, stopped, tried, pc>> /\ todo' = todo \ {n}
    BY <1>14 DEF Clean, Stops
  <2>4. \A m \in stopped : m \in Names /\ Outgoing(m) \in 1..MaxConns /\ Outgoing(m) # cand[m]
    BY <1>0, Outgoings DEF Progress
  <2>5. \A c \in Conns : state'[c] # "starting"
    BY <1>0, <2>1, <2>2, Pairs
  <2>6. \A m \in Names : Away(m)' => ~ Up(<<m, Outgoing(m)>>)'
    BY <1>0, <2>1, <2>2, <2>3, <2>4, SameCandidate
  <2> QED BY <1>0, <2>1, <2>2, <2>3, <2>5, <2>6, SameCandidate
<1>15. CASE RestorePhase
  BY <1>0, <1>15, SameCandidate DEF RestorePhase
<1>16. ASSUME NEW n \in Names, Restart(n) PROVE Upward'
  <2>1. /\ Outgoing(n) \in 1..MaxConns /\ pc = "restore" /\ n \in todo
        /\ Outgoing(n) \in {host[n], retired[n]}
    BY <1>0, <1>16, Outgoings DEF Restart, Progress
  <2>2. /\ state'[<<n, Outgoing(n)>>] = "starting"
        /\ \A m \in Names, j \in 1..MaxConns :
             m # n \/ j # Outgoing(n) => state'[<<m, j>>] = state[<<m, j>>]
    BY ZenonT(60), <1>0, <1>16, <2>1, Assigned DEF Restart
  <2>3. /\ UNCHANGED <<hosts, retired, cand, pc, todo>>
        /\ sender' = [sender EXCEPT ![n] = Outgoing(n)] /\ marked' = marked \ {n}
    BY <1>16 DEF Restart, Registered
  <2>4. \A c \in Conns : state'[c] = "starting" => c = <<n, Outgoing(n)>>
    BY <1>16, <2>2, Pairs DEF Restart
  <2>5. sender'[n] = Outgoing(n)
    BY <1>0, <2>3 DEF TypeOK, Slots
  <2> QED BY <1>0, <2>1, <2>2, <2>3, <2>4, <2>5, SameCandidate
<1>17. ASSUME NEW n \in Names, Restarted(n) PROVE Upward'
  <2>1. /\ Outgoing(n) \in 1..MaxConns /\ pc = "restore" /\ n \in todo
        /\ Outgoing(n) \in {host[n], retired[n]}
    BY <1>0, <1>17, Outgoings DEF Restarted, Progress
  <2>2. /\ state'[<<n, Outgoing(n)>>] \in {"live", "unsure"}
        /\ \A m \in Names, j \in 1..MaxConns :
             m # n \/ j # Outgoing(n) => state'[<<m, j>>] = state[<<m, j>>]
    BY <1>0, <1>17, <2>1, Assigned DEF Restarted
  <2>3. /\ UNCHANGED <<hosts, retired, cand, pc, sender>> /\ todo' = todo \ {n}
        /\ marked' \subseteq marked \cup {n}
    BY <1>17 DEF Restarted
  <2>4. \A c \in Conns : state'[c] = "starting" => state[c] = "starting" /\ c[1] # n
    BY <1>0, <2>2, Pairs
  <2>5. \A c \in Conns : state'[c] = "starting" =>
          /\ c[1] \in todo' /\ c[2] = Outgoing(c[1]) /\ sender'[c[1]] = c[2] /\ c[1] \notin marked'
    BY <1>0, <2>3, <2>4
  <2> QED BY <1>0, <2>1, <2>2, <2>3, <2>5, Pairs, SameCandidate
<1>18. CASE Recover
  BY <1>0, <1>18 DEF Recover, Forget, Gen, host
<1>19. ASSUME NEW b \in batches, Retire(b) PROVE Upward'
  <2>1. PICK done \in SUBSET Members(b), failed \in SUBSET Members(b) :
          /\ state' = [c \in Conns |-> IF c \in done THEN "off"
                                       ELSE IF c \in failed THEN "unsure" ELSE state[c]]
          /\ retired' = [n \in Names |-> IF <<n, retired[n]>> \in done THEN 0 ELSE retired[n]]
    BY <1>19 DEF Retire
  <2>2. pc \in {"idle", "drain"} /\ stopped = {} /\ tried = {}
    BY <1>0, <1>19 DEF Retire, Locked, TypeOK, Phases
  <2>3. \A c \in Conns : state[c] # "starting" /\ state'[c] # "starting"
    BY <1>0, <2>1, <2>2
  <2>4. ASSUME NEW n \in Names, NEW k \in 1..MaxConns, Up(<<n, k>>)'
        PROVE  k \in {host[n], retired'[n]}
    <3>1. <<n, k>> \notin done /\ Up(<<n, k>>)
      BY <2>1, <2>4, Pairs
    <3>2. k \in {host[n], retired[n]}
      BY <1>0, <2>2, <3>1
    <3> QED BY <2>1, <3>1, <3>2
  <2>5. host' = host /\ stopped' = {}
    BY <1>19, <2>2 DEF Retire, host, Gen
  <2> QED BY <2>3, <2>4, <2>5
<1>20. CASE StopAll
  <2>1. /\ pc = "idle" /\ stopped' = {} /\ host' = host /\ retired' = retired /\ tried = {}
        /\ \A c \in Conns : state'[c] = state[c] \/ state'[c] \in {"off", "unsure"}
    BY <1>0, <1>20 DEF StopAll, Phases, host, Gen
  <2>2. \A c \in Conns : state'[c] # "starting"
    BY <1>0, <2>1
  <2> QED BY <1>0, <2>1, <2>2, Pairs
<1>21. CASE UNCHANGED vars
  BY <1>1, <1>21 DEF vars
<1>22. ASSUME NEW b \in batches, Released(b) PROVE Upward'
  BY <1>1, <1>22 DEF Released
<1> QED
  BY <1>2, <1>3, <1>5, <1>6, <1>7, <1>8, <1>9, <1>10, <1>11, <1>12, <1>13, <1>14, <1>15,
     <1>16, <1>17, <1>18, <1>19, <1>20, <1>21, <1>22 DEF Next, Handover

-----------------------------------------------------------------------------
(* The barrier, and the turns a handover waits for.                          *)

\* Which steps concern turns, and what they do to them.
LEMMA TurnsStep ==
  ASSUME [Next]_vars
  PROVE  \/ UNCHANGED work
         \/ \E c \in Conns : Accept(c)
         \/ \E w \in work : Answer(w) \/ Deliver(w)
         \/ StopAll
  BY DEF Next, Handover, Apply, DrainFails, Enter, StartPhase, Switch, SwitchFails,
     RestorePhase, Recover, Park, Stop, Start, Clean, Restart, Restarted, Released, Retire, vars

\* Every turn after a step was there before, apart from its progress, or is new.
LEMMA TurnsAfter ==
  ASSUME IInv, [Next]_vars, NEW w \in work'
  PROVE  \/ \E v \in work : v.conn = w.conn /\ v.gen = w.gen
         \/ \E c \in Conns : Accept(c) /\ w.conn = c /\ w.gen = Gen
<1>1. CASE UNCHANGED work
  BY <1>1
<1>2. ASSUME NEW c \in Conns, Accept(c) PROVE w \in work \/ (w.conn = c /\ w.gen = Gen)
  BY <1>2 DEF Accept
<1>3. ASSUME NEW v \in work, Answer(v) \/ Deliver(v)
      PROVE  w \in work \/ (w.conn = v.conn /\ w.gen = v.gen)
  BY <1>3 DEF Answer, Deliver, IInv, TypeOK
<1>4. CASE StopAll
  BY <1>4 DEF StopAll
<1> QED BY <1>1, <1>2, <1>3, <1>4, TurnsStep

\* A turn's connection is a pair of a name and a number.
LEMMA Turns ==
  ASSUME TypeOK, NEW w \in work
  PROVE  /\ w.conn \in Conns /\ w.gen \in 1..Gen
         /\ w.conn[1] \in Names /\ w.conn[2] \in 1..MaxConns /\ w.conn = <<w.conn[1], w.conn[2]>>
  BY Pairs DEF TypeOK

\* A published connection of the current generation.
LEMMA InHost ==
  ASSUME TypeOK
  PROVE  /\ \A c \in Conns : c \in Of(host) <=> host[c[1]] = c[2]
         /\ Gen \in 1..Gen
  BY Shapes, Pairs, HandoverAssumption DEF Conns, Of

\* No step takes a connection away from under accepted turns without the barrier.
LEMMA GuardedStep ==
  ASSUME IInv, [Next]_vars
  PROVE  Guarded'
<1> USE DEF Guarded
<1>0. TypeOK /\ Phases /\ Guarded
  BY DEF IInv
<1>1. ASSUME UNCHANGED <<hosts, retired, cand>>
      PROVE  /\ Of(host)' = Of(host) /\ RequiresExclusive(cand)' = RequiresExclusive(cand)
             /\ \A w : Owned(w)' = Owned(w)
  BY <1>1 DEF Of, host, Gen, RequiresExclusive, Existing, Owned
<1>2. ASSUME UNCHANGED <<hosts, retired, cand, barrier, pc>>, open' \subseteq open,
             \A w \in work' : \E v \in work : v.conn = w.conn /\ v.gen = w.gen
      PROVE  Guarded'
  BY <1>0, <1>1, <1>2 DEF Owned
<1>3. ASSUME NEW c \in Conns, Accept(c) PROVE Guarded'
  <2>1. UNCHANGED <<hosts, retired, cand, barrier, pc, open>> /\ c \in open
    BY <1>3 DEF Accept
  <2>2. pc \in {"stop", "start"} /\ barrier => host[c[1]] # c[2]
    BY <1>0, <2>1, InHost
  <2>3. ASSUME NEW w \in work', pc \in {"stop", "start"}, barrier PROVE ~ Owned(w)
    <3>1. w \in work \/ (w.conn = c /\ w.gen = Gen)
      BY <1>3 DEF Accept
    <3> QED BY <1>0, <2>2, <2>3, <3>1 DEF Owned, host
  <2> QED BY <1>0, <1>1, <2>1, <2>3
<1>4. ASSUME NEW w \in work, Answer(w) \/ Deliver(w) PROVE Guarded'
  <2>1. ASSUME NEW v \in work' PROVE \E u \in work : u.conn = v.conn /\ u.gen = v.gen
    BY <1>0, <1>4 DEF Answer, Deliver, TypeOK
  <2> QED BY <1>2, <1>4, <2>1 DEF Answer, Deliver
<1>5. ASSUME NEW c \in Candidates, Apply(c) PROVE Guarded'
  <2>1. UNCHANGED <<hosts, retired>> /\ cand' = c /\ pc' = "drain"
    BY <1>5 DEF Apply
  <2>2. Of(host)' = Of(host) /\ RequiresExclusive(cand)' = RequiresExclusive(c)
    BY <2>1 DEF Of, host, Gen, RequiresExclusive, Existing
  <2> QED BY <1>5, <2>1, <2>2 DEF Apply, Paused
<1>6. CASE DrainFails \/ Switch \/ Recover
  BY <1>6 DEF DrainFails, Switch, Recover
<1>7. CASE Enter
  BY <1>0, <1>1, <1>7 DEF Enter, Drained
<1>8. ASSUME UNCHANGED <<hosts, retired, cand, barrier, work>>, open' \subseteq open,
             pc \in {"stop", "start"}, pc' \in {"stop", "start", "clean"}
      PROVE  Guarded'
  BY <1>0, <1>1, <1>8
<1>9. ASSUME NEW n \in Names, Park(n) \/ Stop(n) \/ Start(n) PROVE Guarded'
  BY <1>8, <1>9 DEF Park, Stop, Start
<1>10. CASE StartPhase
  BY <1>8, <1>10 DEF StartPhase
<1>11. ASSUME UNCHANGED <<hosts, retired, cand, barrier>>,
              pc \in {"start", "clean", "restore"}, pc' \in {"clean", "restore"}
       PROVE  Guarded'
  BY <1>0, <1>1, <1>11
<1>12. CASE SwitchFails \/ RestorePhase
  BY <1>11, <1>12 DEF SwitchFails, RestorePhase
<1>13. ASSUME NEW n \in Names, Clean(n) \/ Restart(n) \/ Restarted(n) PROVE Guarded'
  BY <1>11, <1>13 DEF Clean, Stops, Restart, Restarted
<1>14. ASSUME NEW b \in batches, Retire(b) PROVE Guarded'
  <2>1. /\ pc \in {"idle", "drain"} /\ UNCHANGED <<hosts, work, pc, barrier, cand>>
        /\ open' \subseteq open
    BY <1>0, <1>14 DEF Retire, Locked, TypeOK
  <2>2. \A n \in Names : retired'[n] = retired[n] \/ retired'[n] = 0
    BY <1>0, <1>14 DEF Retire, TypeOK
  <2>3. \A n \in Names : host[n] = 0 \/ retired[n] = 0
    BY <1>0 DEF TypeOK
  <2>4. Of(host)' = Of(host) /\ host' = host
    BY <2>1 DEF Of, host, Gen
  <2>5. RequiresExclusive(cand)' => RequiresExclusive(cand)
    BY <2>1, <2>2, <2>3, <2>4 DEF RequiresExclusive, Existing
  <2> QED BY <1>0, <2>1, <2>4, <2>5
<1>15. CASE StopAll
  <2>1. pc' = "down" /\ open' \cap Of(host) = {} /\ hosts' = hosts
    BY <1>15 DEF StopAll
  <2> QED BY <2>1 DEF Of, host, Gen
<1>16. CASE UNCHANGED vars
  BY <1>2, <1>16 DEF vars
<1>17. ASSUME NEW b \in batches, Released(b) PROVE Guarded'
  BY <1>2, <1>17 DEF Released
<1> QED
  BY <1>3, <1>4, <1>5, <1>6, <1>7, <1>9, <1>10, <1>12, <1>13, <1>14, <1>15, <1>16, <1>17
     DEF Next, Handover

\* While connections are stopped and started, nothing is taken away from or
\* added beside the connection of an accepted turn.
LEMMA Undisturbed ==
  ASSUME IInv, NEW w \in work, Owned(w), pc \in {"stop", "start"}
  PROVE  /\ Existing(w.conn[1]) = w.conn[2] /\ cand[w.conn[1]] \in {0, w.conn[2]}
         /\ ~ Adds(w.conn[1]) /\ ~ Replaces(w.conn[1])
<1> DEFINE n == w.conn[1]
           k == w.conn[2]
<1>0. TypeOK /\ Guarded /\ Waiting
  BY DEF IInv
<1>1. n \in Names /\ k \in 1..MaxConns /\ k # 0
  BY <1>0, Turns, HandoverAssumption
<1>2. k \in {host[n], retired[n]}
  BY <1>0 DEF Waiting
<1>3. ~ RequiresExclusive(cand)
  BY <1>0 DEF Guarded
<1>4. Existing(n) = k
  BY <1>0, <1>1, <1>2 DEF Existing, TypeOK
<1>5. cand[n] = 0 \/ cand[n] = k
  BY <1>1, <1>3, <1>4 DEF RequiresExclusive
<1>6. Outgoing(n) = k \/ cand[n] = 0
  BY <1>4, Outgoings, <1>1
<1>7. Replaces(n) => cand[n] # 0 /\ Outgoing(n) # cand[n]
  BY DEF Replaces
<1>8. ~ Replaces(n)
  BY <1>5, <1>6, <1>7
<1>9. ~ Adds(n)
  BY <1>1, <1>4, <1>8, Outgoings
<1> QED BY <1>4, <1>5, <1>8, <1>9

\* No step makes a turn that the retirement of its connection does not wait for.
LEMMA WaitingStep ==
  ASSUME IInv, [Next]_vars
  PROVE  Waiting'
<1>0. TypeOK /\ Phases /\ Progress /\ Guarded /\ Objects /\ Waiting /\ Ripe
  BY DEF IInv
<1>1. ASSUME UNCHANGED <<hosts, retired>>, ~ Switch
      PROVE  Waiting'
  <2>1. ASSUME NEW w \in work', Owned(w)
        PROVE  w.conn[2] \in {host[w.conn[1]], retired[w.conn[1]]}
    <3>1. CASE \E v \in work : v.conn = w.conn /\ v.gen = w.gen
      BY <1>0, <2>1, <3>1 DEF Waiting, Owned
    <3>2. CASE w.gen = Gen
      BY <2>1, <3>2 DEF Owned, host
    <3> QED BY <3>1, <3>2, TurnsAfter
  <2>2. Gen' = Gen /\ host' = host /\ \A w : Owned(w)' = Owned(w)
    BY <1>1 DEF Gen, host, Owned
  <2>3. \A b \in batches' : \E a \in batches : a.conns = b.conns /\ a.upto = b.upto
    BY <1>0, <1>1, BatchesAfter
  <2> QED BY <1>0, <2>1, <2>2, <2>3, <1>1 DEF Waiting
<1>2. CASE Switch
  <2>1. /\ pc = "start" /\ todo = {} /\ hosts' = Append(hosts, cand) /\ work' = work
        /\ \A n \in Names : retired'[n] = IF Parks(n) THEN host[n] ELSE StillRetired(n)
    BY <1>2 DEF Switch
  <2>2. /\ Gen \in Nat \ {0} /\ Gen' = Gen + 1 /\ host' = cand /\ hosts'[Gen + 1] = cand
        /\ \A g \in 1..Gen : hosts'[g] = hosts[g]
    BY <1>0, <2>1, Appended, Shapes
  <2>3. ASSUME NEW b \in batches' PROVE b \in batches \/ (b.upto = Gen /\ b.conns = {<<n, host[n]>> : n \in {m \in Names : Parks(m)}})
    BY <1>2 DEF Switch
  <2>4. \A b \in batches' : b.upto < Gen'
    <3>1. \A b \in batches : b.upto \in Nat /\ b.upto < Gen
      BY <1>0 DEF Waiting, TypeOK
    <3> QED BY <2>2, <2>3, <3>1
  <2>5. ASSUME NEW b \in batches', NEW c \in b.conns, NEW g \in 1..Gen', hosts'[g][c[1]] = c[2]
        PROVE  g <= b.upto
    <3>1. CASE b \in batches
      <4>1. c[1] \in Names /\ c[2] \in 1..MaxConns
        BY <1>0, <3>1, Pairs DEF TypeOK
      <4>2. CASE g \in 1..Gen
        BY <1>0, <2>2, <2>5, <3>1, <4>2 DEF Waiting
      <4>3. CASE g = Gen + 1
        <5>1. cand[c[1]] = c[2] /\ c[2] # 0
          BY <2>2, <2>5, <4>1, <4>3, HandoverAssumption
        <5>2. host[c[1]] # c[2]
          <6>1. b.upto \in 1..Gen /\ b.upto < Gen
            BY <1>0, <3>1 DEF TypeOK, Waiting
          <6>2. Gen \in 1..Gen /\ ~ (Gen <= b.upto)
            BY <2>2, <6>1
          <6> QED BY <1>0, <3>1, <6>2 DEF Waiting, host
        <5>3. Adds(c[1])
          BY <5>1, <5>2 DEF Adds
        <5>4. Published(c[1], c[2])
          BY <1>0, <3>1 DEF Objects
        <5> QED BY <1>0, <4>1, <5>1, <5>3, <5>4 DEF Objects
      <4> QED BY <2>2, <4>2, <4>3
    <3>2. CASE b.upto = Gen /\ b.conns = {<<n, host[n]>> : n \in {m \in Names : Parks(m)}}
      <4>1. c[1] \in Names /\ c[2] = host[c[1]] /\ Parks(c[1])
        BY <3>2
      <4>2. g # Gen + 1
        BY <2>2, <2>5, <4>1 DEF Parks
      <4> QED BY <2>2, <3>2, <4>2
    <3> QED BY <2>3, <3>1, <3>2
  <2>6. ASSUME NEW w \in work', Owned(w)'
        PROVE  w.conn[2] \in {host'[w.conn[1]], retired'[w.conn[1]]}
    <3> DEFINE n == w.conn[1]
               k == w.conn[2]
    <3>1. n \in Names /\ k \in 1..MaxConns /\ w \in work /\ w.gen \in 1..Gen
      BY <1>0, <2>1, Turns
    <3>2. Owned(w)
      BY <2>2, <2>6, <3>1 DEF Owned
    <3>3. k \in {host[n], retired[n]} /\ k # 0
      BY <1>0, <3>1, <3>2, HandoverAssumption DEF Waiting
    <3>6. cand[n] = 0 \/ cand[n] = k
      BY <2>1, <3>1, <3>2, Undisturbed
    <3>7. CASE cand[n] = 0
      BY <1>0, <2>1, <3>1, <3>3, <3>7 DEF Parks, StillRetired, TypeOK
    <3> QED BY <2>2, <3>6, <3>7
  <2> QED BY <2>4, <2>5, <2>6 DEF Waiting
<1>3. ASSUME NEW b \in batches, Retire(b) PROVE Waiting'
  <2>1. UNCHANGED <<hosts, work>> /\ batches' \subseteq batches
    BY <1>3 DEF Retire
  <2>2. Gen' = Gen /\ host' = host /\ \A w : Owned(w)' = Owned(w)
    BY <2>1 DEF Gen, host, Owned
  <2>3. ASSUME NEW w \in work, Owned(w) PROVE w.conn[2] \in {host[w.conn[1]], retired'[w.conn[1]]}
    <3>1. /\ w.conn[1] \in Names /\ w.conn[2] \in {host[w.conn[1]], retired[w.conn[1]]}
          /\ w.conn = <<w.conn[1], w.conn[2]>>  /\ w.gen \in 1..Gen /\ w.gen > b.upto
      BY <1>0, <1>3, <2>3, Turns DEF Waiting, Retire, Ripe
    <3>2. w.conn \notin b.conns
      <4>1. b.upto \in Nat
        BY <1>0 DEF TypeOK
      <4> QED BY <1>0, <2>3, <3>1, <4>1 DEF Waiting, Owned
    <3>3. <<w.conn[1], retired[w.conn[1]]>> \in b.conns \/ retired'[w.conn[1]] = retired[w.conn[1]]
      BY <1>3, <3>1 DEF Retire, Members
    <3> QED BY <3>1, <3>2, <3>3
  <2> QED BY <1>0, <2>1, <2>2, <2>3 DEF Waiting
<1>4. UNCHANGED <<hosts, retired>> \/ Switch \/ \E b \in batches : Retire(b)
  BY DEF Next, Handover, Accept, Answer, Deliver, Apply, DrainFails, Enter, StartPhase,
     SwitchFails, RestorePhase, Recover, Park, Stop, Start, Clean, Restart, Restarted, Released,
     StopAll, vars
<1> QED BY <1>1, <1>2, <1>3, <1>4

\* No step lets a batch go on before the turns it waits for are answered,
\* although it then waits in one queue with the replies of later turns.
LEMMA RipeStep ==
  ASSUME IInv, [Next]_vars
  PROVE  Ripe'
<1>0. TypeOK /\ Waiting /\ Ripe
  BY DEF IInv
<1>1. ASSUME batches' \subseteq batches, \A w \in work' : w \in work \/ w.gen = Gen
      PROVE  Ripe'
  <2>1. \A b \in batches : b.upto \in Nat /\ Gen > b.upto
    BY <1>0, Shapes DEF Waiting, TypeOK
  <2> QED BY <1>0, <1>1, <2>1 DEF Ripe, TurnsOver
<1>2. ASSUME NEW c \in Conns, Accept(c) PROVE Ripe'
  BY <1>1, <1>2 DEF Accept
<1>3. ASSUME NEW v \in work, Answer(v) PROVE Ripe'
  <2>1. \A w \in work' : w \in work \/ (w.gen = v.gen /\ w.at = "reply")
    BY <1>0, <1>3 DEF Answer, TypeOK
  <2>2. batches' = batches /\ v.at = "turn"
    BY <1>3 DEF Answer
  <2> QED BY <1>0, <2>1, <2>2 DEF Ripe, TurnsOver
<1>4. ASSUME NEW v \in work, Deliver(v) PROVE Ripe'
  <2>1. work' \subseteq work
    BY <1>4 DEF Deliver
  <2>2. CASE batches' = batches
    BY <1>1, <2>1, <2>2
  <2>3. CASE batches' = Joined(batches) /\ NoReply(work')
    <3>1. ASSUME NEW b \in batches', b.awaits # "turns"
          PROVE  \A w \in work' : w.gen > b.upto
      <4>1. PICK a \in batches : /\ a.upto = b.upto
                                 /\ b.awaits = IF a.awaits = "replies" THEN "lock" ELSE a.awaits
        BY <1>0, <2>3, JoinedBatch
      <4>2. a.awaits # "turns"
        BY <3>1, <4>1
      <4>3. \A w \in work' : w.at = "turn"
        BY <1>0, <2>1, <2>3 DEF NoReply, TypeOK
      <4> QED BY <1>0, <2>1, <4>1, <4>2, <4>3 DEF Ripe, TurnsOver
    <3> QED BY <3>1 DEF Ripe, TurnsOver
  <2> QED BY <1>4, <2>2, <2>3 DEF Deliver
<1>5. ASSUME NEW a \in batches, Released(a) PROVE Ripe'
  <2>1. PICK s \in {"lock", "replies"} :
          /\ batches' = (batches \ {a}) \cup {[a EXCEPT !.awaits = s]}
          /\ s = "lock" => NoReply(work)
    BY <1>5 DEF Released
  <2>2. work' = work /\ TurnsOver(a)
    BY <1>5 DEF Released
  <2>3. ASSUME s = "lock", NEW w \in work PROVE w.gen > a.upto
    <3>1. w.at = "turn"
      BY <1>0, <2>1, <2>3 DEF NoReply, TypeOK
    <3> QED BY <2>2, <3>1 DEF TurnsOver
  <2>4. ASSUME NEW b \in batches'
        PROVE  /\ b.awaits # "turns" => TurnsOver(b)
               /\ b.awaits = "lock" => \A w \in work : w.gen > b.upto
    <3>1. CASE b \in batches
      BY <1>0, <3>1 DEF Ripe
    <3>2. CASE b.upto = a.upto /\ b.awaits = s
      BY <2>2, <2>3, <3>2 DEF TurnsOver
    <3> QED BY <1>0, <2>1, <3>1, <3>2, Renewed
  <2> QED BY <2>2, <2>4 DEF Ripe, TurnsOver
<1>6. CASE Switch
  <2>1. work' = work /\ \A b \in batches' : b \in batches \/ b.awaits = "turns"
    BY <1>6 DEF Switch
  <2> QED BY <1>0, <2>1 DEF Ripe, TurnsOver
<1>7. ASSUME NEW b \in batches, Retire(b) PROVE Ripe'
  BY <1>1, <1>7 DEF Retire
<1>8. CASE StopAll
  BY <1>1, <1>8 DEF StopAll
<1>9. CASE UNCHANGED <<work, batches>>
  BY <1>1, <1>9
<1> QED
  BY <1>2, <1>3, <1>4, <1>5, <1>6, <1>7, <1>8, <1>9 DEF Next, Handover, Apply, DrainFails, Enter,
     StartPhase, SwitchFails, RestorePhase, Recover, Park, Stop, Start, Clean, Restart, Restarted, vars

-----------------------------------------------------------------------------
(* What keeps serving.                                                       *)

\* Registrations of other names are left alone.
LEMMA OthersRegistered ==
  ASSUME TypeOK, NEW n \in Names, NEW k, Unregistered({<<n, k>>}) \/ Registered(n, k)
  PROVE  \A m \in Names \ {n} : sender'[m] = sender[m] /\ (m \in marked' <=> m \in marked)
  BY DEF Unregistered, Registered, TypeOK, Slots

\* A name whose connections, registration and progress a step leaves alone is
\* served after the step as before.
LEMMA OneKept ==
  ASSUME TypeOK, NEW n \in Names, UNCHANGED <<hosts, retired>>,
         \A k \in 1..MaxConns : state'[<<n, k>>] = state[<<n, k>>],
         sender'[n] = sender[n], n \in marked' <=> n \in marked,
         retired[n] # 0 => (<<n, retired[n]>> \in open' => <<n, retired[n]>> \in open)
  PROVE  Serves(n) /\ Answers(n) => Serves(n)' /\ Answers(n)'
<1>1. host' = host /\ host[n] \in 0..MaxConns /\ retired[n] \in 0..MaxConns
  BY Shapes DEF host, Gen, Slots, TypeOK
<1> QED BY <1>1, HandoverAssumption DEF Serves, Answers

\* A name whose connection a handover replaces has no other one.
LEMMA Replaced ==
  ASSUME IInv, NEW n \in Names, Adds(n), pc \in {"start", "clean"}, n \in tried \/ pc = "start"
  PROVE  Away(n) \/ (host[n] = 0 /\ retired[n] = 0)
  BY Outgoings DEF IInv, Progress, Away, Existing

\* The steps that take a handover through one name leave the others alone.
LEMMA OthersAlone ==
  ASSUME IInv, NEW n \in Names,
         Park(n) \/ Stop(n) \/ Start(n) \/ Clean(n) \/ Restart(n) \/ Restarted(n),
         NEW m \in Names \ {n}
  PROVE  /\ \A k \in 1..MaxConns : state'[<<m, k>>] = state[<<m, k>>]
         /\ sender'[m] = sender[m] /\ (m \in marked' <=> m \in marked)
         /\ \A k \in 1..MaxConns : <<m, k>> \in open' <=> <<m, k>> \in open
         /\ Away(m)' <=> Away(m)
<1> USE DEF IInv
<1>1. ASSUME NEW k \in 1..MaxConns PROVE state'[<<m, k>>] = state[<<m, k>>]
  <2>1. UNCHANGED state \/ \E j, s : state' = [state EXCEPT ![<<n, j>>] = s]
    BY DEF Park, Stop, Start, Clean, Stops, Restart, Restarted
  <2> QED BY <2>1, Pairs DEF TypeOK
<1>2. sender'[m] = sender[m] /\ (m \in marked' <=> m \in marked)
  <2>1. \/ \E k : Unregistered({<<n, k>>}) \/ Registered(n, k)
        \/ sender' = sender /\ (marked' = marked \/ marked' = marked \cup {n})
    BY DEF Park, Stop, Start, Clean, Stops, Restart, Restarted
  <2> QED BY <2>1, OthersRegistered
<1>3. ASSUME NEW k \in 1..MaxConns PROVE <<m, k>> \in open' <=> <<m, k>> \in open
  <2>1. open' = open \/ \E j : open' = open \ {<<n, j>>} \/ open' = open \cup {<<n, j>>}
    BY DEF Park, Stop, Start, Clean, Stops, Restart, Restarted
  <2> QED BY <2>1
<1>4. Away(m)' <=> Away(m)
  <2>1. (m \in stopped' <=> m \in stopped)
    BY DEF Park, Stop, Start, Clean, Restart, Restarted
  <2>2. \/ pc \in {"stop", "start", "clean"} /\ pc' \in {"stop", "start", "clean"}
        \/ pc = "restore" /\ pc' = "restore" /\ (m \in todo' <=> m \in todo)
    BY DEF Park, Stop, Start, Clean, Stops, Restart, Restarted
  <2> QED BY <2>1, <2>2 DEF Away
<1> QED BY <1>1, <1>2, <1>3, <1>4

\* A step through one name keeps what holds of the others.
LEMMA OthersKept ==
  ASSUME IInv, NEW n \in Names,
         Park(n) \/ Stop(n) \/ Start(n) \/ Clean(n) \/ Restart(n) \/ Restarted(n),
         NEW m \in Names \ {n}
  PROVE  /\ m \notin degraded' \cup bad' => Away(m)' \/ (Serves(m)' /\ Answers(m)')
         /\ pc' \in {"stop", "start"} =>
              (Parks(m)' /\ m \notin todo' => <<m, host'[m]>> \notin open')
         /\ Away(m)' => \/ <<m, Outgoing(m)'>> \notin open'
                        \/ pc' = "restore" /\ sender'[m] = Outgoing(m)'
         /\ pc' = "start" /\ m \in tried' =>
              state'[<<m, cand'[m]>>] = "live" /\ sender'[m] = cand'[m] /\ m \notin marked'
<1> USE DEF IInv
<1>1. /\ UNCHANGED <<hosts, retired, cand, degraded>>
      /\ m \notin bad' => m \notin bad
      /\ pc # "down"
      /\ pc' \in {"stop", "start"} => pc' = pc /\ (m \notin todo' => m \notin todo)
      /\ pc' = "start" /\ m \in tried' => m \in tried
      /\ pc = "restore" => pc' = "restore"
  BY DEF Phases, Park, Stop, Start, Clean, Stops, Restart, Restarted
<1>2. /\ \A k \in 1..MaxConns : state'[<<m, k>>] = state[<<m, k>>]
      /\ sender'[m] = sender[m] /\ (m \in marked' <=> m \in marked)
      /\ \A k \in 1..MaxConns : <<m, k>> \in open' <=> <<m, k>> \in open
      /\ Away(m)' <=> Away(m)
  BY OthersAlone
<1>3. /\ host[m] \in 0..MaxConns /\ retired[m] \in 0..MaxConns
      /\ Replaces(m) => Outgoing(m) \in 1..MaxConns
      /\ Adds(m) => cand[m] \in 1..MaxConns
  BY Shapes, Outgoings DEF Slots, TypeOK
<1>4. m \notin degraded' \cup bad' => Away(m)' \/ (Serves(m)' /\ Answers(m)')
  <2>1. retired[m] # 0 => retired[m] \in 1..MaxConns
    BY <1>3, HandoverAssumption
  <2>2. m \notin degraded' \cup bad' => Away(m) \/ (Serves(m) /\ Answers(m))
    BY <1>1 DEF Kept
  <2> QED BY <1>1, <1>2, <2>1, <2>2, OneKept
<1>5. pc' \in {"stop", "start"} => (Parks(m)' /\ m \notin todo' => <<m, host'[m]>> \notin open')
  <2>1. Parks(m) => host[m] \in 1..MaxConns
    BY <1>3, HandoverAssumption DEF Parks
  <2> QED BY <1>1, <1>2, <2>1, SameCandidate DEF Kept
<1>6. Away(m)' => \/ <<m, Outgoing(m)'>> \notin open'
                  \/ pc' = "restore" /\ sender'[m] = Outgoing(m)'
  <2>1. Away(m) => Outgoing(m) \in 1..MaxConns
    BY <1>3 DEF Away, Progress
  <2> QED BY <1>1, <1>2, <2>1, SameCandidate DEF Kept
<1>7. pc' = "start" /\ m \in tried' =>
        state'[<<m, cand'[m]>>] = "live" /\ sender'[m] = cand'[m] /\ m \notin marked'
  BY <1>1, <1>2, <1>3 DEF Kept, Progress
<1> QED BY <1>4, <1>5, <1>6, <1>7

\* The same of the name itself.
LEMMA NameKept ==
  ASSUME IInv, NEW n \in Names,
         Park(n) \/ Stop(n) \/ Start(n) \/ Clean(n) \/ Restart(n) \/ Restarted(n)
  PROVE  /\ n \notin degraded' \cup bad' => Away(n)' \/ (Serves(n)' /\ Answers(n)')
         /\ pc' \in {"stop", "start"} =>
              (Parks(n)' /\ n \notin todo' => <<n, host'[n]>> \notin open')
         /\ Away(n)' => \/ <<n, Outgoing(n)'>> \notin open'
                        \/ pc' = "restore" /\ sender'[n] = Outgoing(n)'
         /\ pc' = "start" /\ n \in tried' =>
              state'[<<n, cand'[n]>>] = "live" /\ sender'[n] = cand'[n] /\ n \notin marked'
<1>0. TypeOK /\ Phases /\ Progress /\ Upward /\ Objects /\ Kept
  BY DEF IInv
<1>1. CASE Park(n)
  <2>1. UNCHANGED <<hosts, retired, cand, state, sender, marked, bad, degraded, stopped, tried, pc>>
    BY <1>1 DEF Park
  <2>2. /\ pc = "stop" /\ tried = {} /\ ~ Replaces(n) /\ ~ Away(n) /\ open' \subseteq open
        /\ <<n, host[n]>> \notin open'
    BY <1>0, <1>1 DEF Park, Parks, Replaces, Phases, Away, Progress
  <2>3. n \notin degraded' \cup bad' => Serves(n)' /\ Answers(n)'
    BY <1>0, <2>1, <2>2, OneKept DEF Kept
  <2> QED BY <2>1, <2>2, <2>3, SameCandidate DEF Away
<1>2. CASE Stop(n)
  <2>1. UNCHANGED <<hosts, retired, cand, tried>> /\ ~ Parks(n) /\ Replaces(n) /\ tried = {}
    BY <1>0, <1>2 DEF Stop, Parks, Replaces, Phases
  <2>2. (n \in bad' /\ pc' = "clean") \/ (n \in stopped' /\ pc' = "stop")
    BY <1>2 DEF Stop
  <2>3. <<n, Outgoing(n)>> \notin open'
    BY <1>2 DEF Stop
  <2> QED BY <2>1, <2>2, <2>3, SameCandidate DEF Away
<1>3. CASE Start(n)
  <2>1. /\ UNCHANGED <<hosts, retired, cand, open, stopped, bad, degraded>> /\ Adds(n)
        /\ pc = "start" /\ pc' \in {"start", "clean"} /\ ~ Parks(n)
    BY <1>0, <1>3 DEF Start, Progress, Parks, Adds
  <2>2. Away(n) \/ (host[n] = 0 /\ retired[n] = 0)
    BY <2>1, Replaced
  <2>3. Away(n)' <=> Away(n)
    BY <2>1 DEF Away
  <2>4. host' = host
    BY <2>1 DEF host, Gen
  <2>5. Away(n)' \/ (Serves(n)' /\ Answers(n)')
    BY <2>1, <2>2, <2>3, <2>4 DEF Serves, Answers
  <2>6. pc' = "start" => state'[<<n, cand[n]>>] = "live" /\ sender'[n] = cand[n] /\ n \notin marked'
    <3>1. cand[n] \in 1..MaxConns
      BY <2>1, Outgoings
    <3> QED BY <1>0, <1>3, <3>1, Pairs DEF Start, Registered, TypeOK, Slots
  <2>7. Away(n)' => <<n, Outgoing(n)>> \notin open
    BY <1>0, <2>1, <2>3 DEF Kept
  <2> QED BY <2>1, <2>5, <2>6, <2>7, SameCandidate
<1>4. CASE Clean(n)
  <2>1. /\ UNCHANGED <<hosts, retired, cand, pc, stopped, tried, degraded>> /\ pc = "clean" /\ n \in tried
        /\ Adds(n) /\ open' \subseteq open
    BY <1>0, <1>4 DEF Clean, Stops, Progress
  <2>2. Away(n) \/ (host[n] = 0 /\ retired[n] = 0)
    BY <2>1, Replaced
  <2>3. Away(n)' <=> Away(n)
    BY <2>1 DEF Away
  <2>4. host' = host
    BY <2>1 DEF host, Gen
  <2>5. Away(n)' \/ (Serves(n)' /\ Answers(n)')
    BY <2>1, <2>2, <2>3, <2>4 DEF Serves, Answers
  <2>6. Away(n)' => <<n, Outgoing(n)>> \notin open
    BY <1>0, <2>1, <2>3 DEF Kept
  <2> QED BY <2>1, <2>5, <2>6, SameCandidate
<1>5. CASE Restart(n)
  <2>1. UNCHANGED <<hosts, retired, cand, pc, stopped, todo>> /\ pc = "restore" /\ n \in todo /\ n \in stopped
    BY <1>0, <1>5 DEF Restart, Progress
  <2>2. sender'[n] = Outgoing(n)
    BY <1>0, <1>5 DEF Restart, Registered, TypeOK, Slots
  <2> QED BY <2>1, <2>2, SameCandidate DEF Away
<1>6. CASE Restarted(n)
  <2>1. /\ UNCHANGED <<hosts, retired, cand, pc, sender, stopped, degraded>> /\ pc = "restore"
        /\ todo' = todo \ {n} /\ Replaces(n) /\ ~ Away(n)'
    BY <1>0, <1>6 DEF Restarted, Progress, Away
  <2>2. Outgoing(n) \in 1..MaxConns /\ sender[n] = Outgoing(n) /\ n \notin marked
    <3>1. Outgoing(n) \in 1..MaxConns
      BY <2>1, Outgoings
    <3>2. state[<<n, Outgoing(n)>>] = "starting"
      BY <1>6 DEF Restarted
    <3> QED BY <1>0, <3>1, <3>2, Pairs DEF Upward
  <2>3. CASE state' = [state EXCEPT ![<<n, Outgoing(n)>>] = "live"]
    <3>1. state'[<<n, Outgoing(n)>>] = "live"
      BY <1>0, <2>2, <2>3, Pairs DEF TypeOK
    <3>2. IF retired[n] # 0 THEN open' = open \ {<<n, retired[n]>>} /\ marked' = marked \cup {n}
          ELSE UNCHANGED <<open, marked>>
      <4>1. "live" # "unsure"
        OBVIOUS
      <4>2. state' # [state EXCEPT ![<<n, Outgoing(n)>>] = "unsure"]
        BY <1>0, <2>2, <3>1, <4>1, Pairs DEF TypeOK
      <4> QED BY <1>6, <4>2 DEF Restarted, Again
    <3>3. host' = host /\ (host[n] = 0 \/ retired[n] = 0)
      BY <1>0, <2>1 DEF host, Gen, TypeOK
    <3>4. Outgoing(n) = IF retired[n] # 0 THEN retired[n] ELSE host[n]
      BY <2>1, Outgoings DEF Existing
    <3>5. Serves(n)' /\ Answers(n)'
      BY <2>1, <2>2, <3>1, <3>2, <3>3, <3>4 DEF Serves, Answers
    <3> QED BY <2>1, <3>5
  <2>4. CASE n \in bad'
    BY <2>1, <2>4
  <2>5. state' = [state EXCEPT ![<<n, Outgoing(n)>>] = "live"] \/ n \in bad'
    BY <1>6 DEF Restarted
  <2> QED BY <2>1, <2>3, <2>4, <2>5
<1> QED BY <1>1, <1>2, <1>3, <1>4, <1>5, <1>6

\* The end of an apply that published its candidate.
LEMMA SwitchKept ==
  ASSUME IInv, Switch
  PROVE  Kept'
<1>0. TypeOK /\ Phases /\ Progress /\ Upward /\ Objects /\ Kept
  BY DEF IInv
<1>1. /\ pc = "start" /\ todo = {} /\ bad = {} /\ bad' = {} /\ pc' = "idle"
      /\ stopped' = {} /\ tried' = {} /\ host' = cand /\ UNCHANGED <<state, sender>>
      /\ open' = open \cup Of(cand) /\ degraded' = {n \in degraded : ~ Adds(n)}
      /\ marked' = marked \cup {n \in Names : Parks(n)}
      /\ retired' = [n \in Names |-> IF Parks(n) THEN host[n] ELSE StillRetired(n)]
  BY <1>0, Appended DEF Switch, Forget, Phases
<1>2. ASSUME NEW n \in Names, n \notin degraded'
      PROVE  Serves(n)' /\ Answers(n)' /\ (cand[n] # 0 => <<n, cand[n]>> \in open')
  <2>1. cand[n] \in 0..MaxConns /\ host[n] \in 0..MaxConns
    BY <1>0, Shapes DEF Slots, TypeOK
  <2>2. cand[n] # 0 => <<n, cand[n]>> \in Of(cand)
    BY DEF Of
  <2>3. CASE Adds(n)
    <3>1. cand[n] # 0 /\ retired'[n] = 0 /\ ~ Parks(n)
      BY <1>1, <2>3 DEF Adds, Parks, StillRetired
    <3>2. n \in tried
      BY <1>0, <1>1, <2>3 DEF Progress
    <3>3. state[<<n, cand[n]>>] = "live" /\ sender[n] = cand[n] /\ n \notin marked
      BY <1>0, <1>1, <3>2 DEF Kept
    <3> QED BY <1>1, <2>2, <3>1, <3>3 DEF Serves, Answers
  <2>4. CASE cand[n] # 0 /\ ~ Adds(n)
    <3>1. cand[n] = host[n] /\ retired[n] = 0 /\ ~ Parks(n) /\ retired'[n] = 0
      BY <1>0, <1>1, <2>4 DEF Adds, Parks, StillRetired, TypeOK
    <3>2. ~ Away(n)
      BY <1>0, <3>1 DEF Away, Progress, Replaces, Outgoing
    <3>3. Serves(n)
      BY <1>0, <1>1, <1>2, <2>4, <3>2 DEF Kept
    <3> QED BY <1>1, <2>2, <2>4, <3>1, <3>3 DEF Serves, Answers
  <2>5. CASE cand[n] = 0
    <3>1. ~ Away(n)
      BY <1>0, <2>5 DEF Away, Progress, Replaces
    <3>2. Serves(n) /\ Answers(n)
      BY <1>0, <1>1, <1>2, <2>5, <3>1 DEF Kept, Adds
    <3>3. \A k : <<n, k>> \notin Of(cand)
      BY <2>5 DEF Of
    <3>4. CASE Parks(n)
      <4>1. <<n, host[n]>> \notin open
        BY <1>0, <1>1, <3>4 DEF Kept
      <4> QED BY <1>1, <2>5, <3>2, <3>3, <3>4, <4>1 DEF Serves, Answers, Parks
    <3>5. CASE ~ Parks(n)
      BY <1>1, <2>5, <3>2, <3>3, <3>5 DEF Serves, Answers, StillRetired
    <3> QED BY <3>4, <3>5
  <2> QED BY <2>3, <2>4, <2>5
<1> QED BY <1>1, <1>2 DEF Kept, Away

\* No step but a reported failure leaves a published connection down.
LEMMA KeptStep ==
  ASSUME IInv, [Next]_vars
  PROVE  Kept'
<1>0. TypeOK /\ Phases /\ Progress /\ Upward /\ Guarded /\ Objects /\ Kept
  BY DEF IInv
<1>1. ASSUME NEW n \in Names,
             Park(n) \/ Stop(n) \/ Start(n) \/ Clean(n) \/ Restart(n) \/ Restarted(n)
      PROVE  Kept'
  <2>1. pc' # "idle"
    BY <1>0, <1>1, NameKept, OthersAlone DEF Park, Stop, Start, Clean, Stops, Restart, Restarted
  <2>2. tried' \subseteq Names
    BY <1>0, NextTypes DEF TypeOK
  <2>3. ASSUME NEW m \in Names
        PROVE  /\ m \notin degraded' \cup bad' => Away(m)' \/ (Serves(m)' /\ Answers(m)')
               /\ pc' \in {"stop", "start"} =>
                    (Parks(m)' /\ m \notin todo' => <<m, host'[m]>> \notin open')
               /\ Away(m)' => \/ <<m, Outgoing(m)'>> \notin open'
                              \/ pc' = "restore" /\ sender'[m] = Outgoing(m)'
               /\ pc' = "start" /\ m \in tried' =>
                    state'[<<m, cand'[m]>>] = "live" /\ sender'[m] = cand'[m] /\ m \notin marked'
    <3>1. CASE m = n
      BY <1>1, <3>1, NameKept
    <3>2. CASE m # n
      BY <1>1, <3>2, OthersKept
    <3> QED BY <3>1, <3>2
  <2> QED BY <2>1, <2>2, <2>3 DEF Kept
<1>2. ASSUME UNCHANGED <<hosts, retired, cand, state, sender, marked, pc, todo, stopped, tried,
                         bad, degraded, open>>
      PROVE  Kept'
  BY <1>0, <1>2, SameCandidate DEF Kept, Away, Serves, Answers
<1>3. ASSUME NEW c \in Conns, Accept(c) PROVE Kept'
  BY <1>2, <1>3 DEF Accept
<1>4. ASSUME NEW w \in work, Answer(w) \/ Deliver(w) PROVE Kept'
  BY <1>2, <1>4 DEF Answer, Deliver
<1>5. ASSUME UNCHANGED <<hosts, retired, state, sender, marked>>, stopped' = {},
             \A n \in Names : n \notin degraded' \cup bad' =>
               n \notin degraded \cup bad /\ ~ Away(n),
             pc # "down",
             open' \subseteq open \cup Of(host), pc' \in {"idle", "drain"},
             pc' = "idle" => \A n \in Names \ degraded' : host[n] # 0 => <<n, host[n]>> \in open'
      PROVE  Kept'
  <2>1. host' = host
    BY <1>5 DEF host, Gen
  <2>2. ASSUME NEW n \in Names, n \notin degraded' \cup bad' PROVE Serves(n)' /\ Answers(n)'
    <3>1. Serves(n) /\ Answers(n)
      BY <1>0, <1>5, <2>2 DEF Kept
    <3>2. retired[n] # 0 => <<n, retired[n]>> \notin Of(host)
      BY <1>0 DEF Of, TypeOK
    <3> QED BY <1>5, <2>1, <3>1, <3>2 DEF Serves, Answers
  <2> QED BY <1>5, <2>1, <2>2 DEF Kept, Away
<1>6. ASSUME NEW c \in Candidates, Apply(c) PROVE Kept'
  <2>1. /\ UNCHANGED <<hosts, retired, state, sender, marked, degraded, bad, stopped>>
        /\ open' \subseteq open /\ pc' = "drain" /\ pc = "idle" /\ stopped = {}
    BY <1>0, <1>6 DEF Apply, Paused, Phases
  <2> QED BY <1>5, <2>1 DEF Away
<1>7. CASE DrainFails
  <2>1. /\ UNCHANGED <<hosts, retired, state, sender, marked, degraded>>
        /\ open' = open \cup Of(host) /\ pc' = "idle" /\ pc = "drain" /\ stopped = {}
        /\ stopped' = {} /\ bad' = {} /\ bad = {}
    BY <1>0, <1>7 DEF DrainFails, Forget, Phases
  <2>2. \A n \in Names : host[n] # 0 => <<n, host[n]>> \in Of(host)
    BY DEF Of
  <2> QED BY <1>5, <2>1, <2>2 DEF Away
<1>8. CASE Recover
  <2>1. /\ UNCHANGED <<hosts, retired, state, sender, marked>> /\ degraded' = degraded \cup bad
        /\ open' = open \cup {c \in Of(host) : barrier \/ c[1] \notin bad}
        /\ pc' = "idle" /\ pc = "restore" /\ stopped' = {} /\ bad' = {} /\ todo = {}
    BY <1>0, <1>8 DEF Recover, Forget
  <2>2. \A n \in Names \ bad : host[n] # 0 => <<n, host[n]>> \in open'
    BY <2>1 DEF Of
  <2> QED BY <1>5, <2>1, <2>2 DEF Away
<1>9. CASE Enter
  <2>1. /\ UNCHANGED <<hosts, retired, cand, state, sender, marked, bad, degraded, open, stopped, tried>>
        /\ pc = "drain" /\ pc' = "stop" /\ stopped = {}
        /\ \A n \in Names : Parks(n) => n \in todo'
    BY <1>0, <1>9 DEF Enter, Phases
  <2> QED BY <1>0, <2>1, SameCandidate DEF Kept, Away, Serves, Answers
<1>10. CASE StartPhase
  <2>1. /\ UNCHANGED <<hosts, retired, cand, state, sender, marked, bad, degraded, open, stopped, tried>>
        /\ pc = "stop" /\ pc' = "start" /\ tried = {} /\ todo = {}
    BY <1>0, <1>10 DEF StartPhase, Phases
  <2> QED BY <1>0, <2>1, SameCandidate DEF Kept, Away, Serves, Answers
<1>11. CASE SwitchFails
  <2>1. /\ UNCHANGED <<hosts, retired, cand, state, sender, marked, bad, degraded, stopped, tried>>
        /\ pc = "start" /\ pc' = "clean" /\ open' = open \cup Reopened
    BY <1>11 DEF SwitchFails
  <2>2. host' = host /\ \A n \in Names : Outgoing(n)' = Outgoing(n)
    BY <2>1, SameCandidate
  <2>3. ASSUME NEW n \in Names, Away(n) PROVE <<n, Outgoing(n)>> \notin open'
    <3>1. Replaces(n)
      BY <1>0, <2>3 DEF Away, Progress
    <3>2. <<n, Outgoing(n)>> \notin Reopened
      BY <3>1 DEF Reopened, Replaces
    <3> QED BY <1>0, <2>1, <2>3, <3>2 DEF Kept
  <2>4. ASSUME NEW n \in Names, Serves(n), Answers(n) PROVE Serves(n)' /\ Answers(n)'
    <3>1. retired[n] # 0 => <<n, retired[n]>> \notin Reopened
      BY <1>0 DEF Reopened, Of, TypeOK
    <3> QED BY <2>1, <2>2, <2>4, <3>1 DEF Serves, Answers
  <2>5. \A n \in Names : Away(n)' <=> Away(n)
    BY <2>1 DEF Away
  <2> QED BY <1>0, <2>1, <2>2, <2>3, <2>4, <2>5 DEF Kept
<1>12. CASE RestorePhase
  <2>1. /\ UNCHANGED <<hosts, retired, cand, state, sender, marked, bad, degraded, open, stopped, tried>>
        /\ pc = "clean" /\ pc' = "restore" /\ todo' = stopped \ bad
    BY <1>12 DEF RestorePhase, Restorable
  <2>2. \A n \in Names : (Away(n)' => Away(n)) /\ (n \notin bad /\ Away(n) => Away(n)')
    BY <2>1 DEF Away
  <2> QED BY <1>0, <2>1, <2>2, SameCandidate DEF Kept, Serves, Answers
<1>13. CASE Switch
  BY <1>13, SwitchKept
<1>14. ASSUME NEW b \in batches, Retire(b) PROVE Kept'
  <2>1. PICK done \in SUBSET Members(b), failed \in SUBSET Members(b) :
          /\ state' = [c \in Conns |-> IF c \in done THEN "off"
                                       ELSE IF c \in failed THEN "unsure" ELSE state[c]]
          /\ retired' = [n \in Names |-> IF <<n, retired[n]>> \in done THEN 0 ELSE retired[n]]
          /\ Unregistered(done \cup failed) /\ open' = open \ (done \cup failed)
          /\ degraded' = degraded \cup {c[1] : c \in failed}
    BY <1>14 DEF Retire
  <2>2. /\ pc \in {"idle", "drain"} /\ stopped = {} /\ tried = {} /\ todo = {} /\ bad = {}
        /\ UNCHANGED <<hosts, stopped, bad, pc, tried>>
    BY <1>0, <1>14 DEF Retire, Locked, TypeOK, Phases
  <2>3. host' = host
    BY <2>2 DEF host, Gen
  <2>4. ASSUME NEW n \in Names, n \notin degraded' PROVE Serves(n)' /\ Answers(n)'
    <3>1. Serves(n) /\ Answers(n) /\ (host[n] = 0 \/ retired[n] = 0)
      BY <1>0, <2>1, <2>2, <2>4 DEF Kept, Away, TypeOK
    <3>2. \A k : <<n, k>> \in done \cup failed => k = retired[n] /\ k # 0
      <4>1. \A c \in b.conns : c \in Conns
        BY <1>0 DEF TypeOK
      <4> QED BY <4>1, HandoverAssumption DEF Members, Conns
    <3>3. \A k : <<n, k>> \notin failed
      BY <2>1, <2>4
    <3>4. CASE host[n] # 0
      <4>1. host[n] \in 1..MaxConns /\ retired'[n] = 0
        BY <1>0, <2>1, <3>1, <3>4, Shapes, HandoverAssumption DEF Slots
      <4>2. state'[<<n, host[n]>>] = state[<<n, host[n]>>]
        BY <2>1, <3>1, <3>2, <3>4, <4>1, Pairs
      <4>3. sender'[n] = sender[n] /\ n \notin marked'
        BY <2>1, <3>1, <3>2, <3>4 DEF Unregistered, Serves
      <4> QED BY <2>3, <3>1, <3>4, <4>1, <4>2, <4>3 DEF Serves, Answers
    <3>5. CASE host[n] = 0 /\ retired'[n] # 0
      <4>1. retired'[n] = retired[n] /\ <<n, retired[n]>> \notin done \cup failed
        BY <2>1, <3>3, <3>5
      <4>2. retired[n] \in 1..MaxConns
        BY <1>0, <3>5, <4>1, HandoverAssumption DEF TypeOK, Slots
      <4>3. state'[<<n, retired[n]>>] = state[<<n, retired[n]>>]
        BY <2>1, <4>1, <4>2, Pairs
      <4>4. sender'[n] = sender[n] /\ (n \in marked => n \in marked')
        BY <2>1, <3>1, <3>5, <4>1 DEF Unregistered, Answers
      <4> QED BY <2>1, <2>3, <3>1, <3>5, <4>1, <4>3, <4>4 DEF Serves, Answers
    <3> QED BY <2>3, <3>4, <3>5 DEF Serves, Answers
  <2>5. ASSUME pc = "idle", NEW n \in Names \ degraded', host[n] # 0 PROVE <<n, host[n]>> \in open'
    <3>1. <<n, host[n]>> \in open
      BY <1>0, <2>1, <2>5 DEF Kept
    <3>2. retired[n] = 0
      BY <1>0, <2>5 DEF TypeOK
    <3>3. <<n, host[n]>> \notin done \cup failed
      BY <2>5, <3>2 DEF Members
    <3> QED BY <2>1, <3>1, <3>3
  <2> QED BY <2>2, <2>3, <2>4, <2>5 DEF Kept, Away
<1>15. CASE StopAll
  <2>1. pc' = "down" /\ stopped' = {}
    BY <1>0, <1>15 DEF StopAll, Phases
  <2> QED BY <2>1 DEF Kept, Away
<1>16. CASE UNCHANGED vars
  BY <1>2, <1>16 DEF vars
<1>17. ASSUME NEW b \in batches, Released(b) PROVE Kept'
  BY <1>2, <1>17 DEF Released
<1> QED
  BY <1>1, <1>17, <1>3, <1>4, <1>6, <1>7, <1>8, <1>9, <1>10, <1>11, <1>12, <1>13, <1>14, <1>15, <1>16
     DEF Next, Handover

-----------------------------------------------------------------------------
(* Turns and their answers.                                                  *)

\* A turn is accepted through a connection that is registered.
LEMMA AcceptedRegistered ==
  ASSUME IInv, NEW c \in Conns, Accept(c), host[c[1]] = c[2]
  PROVE  sender[c[1]] = c[2] \/ c[1] \in degraded \cup bad
<1> DEFINE n == c[1]
<1>0. TypeOK /\ Guarded /\ Kept /\ c \in open /\ n \in Names /\ c = <<n, host[n]>> /\ host[n] # 0
  BY Pairs, HandoverAssumption DEF IInv, Accept
<1>1. pc # "down"
  BY <1>0, InHost DEF Guarded
<1>2. CASE Serves(n)
  BY <1>0, <1>2 DEF Serves
<1>3. CASE Away(n)
  <2>1. Outgoing(n) = host[n]
    BY <1>0, Outgoings DEF Outgoing, TypeOK
  <2> QED BY <1>0, <1>3, <2>1 DEF Kept
<1> QED BY <1>0, <1>1, <1>2, <1>3 DEF Kept

\* No step leaves an accepted turn without the sender of its connection.
LEMMA RepliesStep ==
  ASSUME IInv, [Next]_vars
  PROVE  RepliesReachOrigin'
<1>0. TypeOK /\ Phases /\ Progress /\ Upward /\ Guarded /\ Waiting /\ Ripe /\ Kept /\ RepliesReachOrigin
  BY DEF IInv
<1> SUFFICES ASSUME NEW w \in work', Owned(w)'
             PROVE  sender'[w.conn[1]] = w.conn[2] \/ w.conn[1] \in degraded' \cup bad'
  BY DEF RepliesReachOrigin
<1> DEFINE n == w.conn[1]
           k == w.conn[2]
<1>1. ASSUME NEW c \in Conns, Accept(c), w.conn = c, w.gen = Gen
      PROVE  sender'[n] = k \/ n \in degraded' \cup bad'
  <2>1. host[c[1]] = c[2] /\ UNCHANGED <<sender, degraded, bad>>
    BY <1>1 DEF Accept, Owned, host
  <2> QED BY <1>1, <2>1, AcceptedRegistered
<1>2. ASSUME NEW v \in work, v.conn = w.conn, v.gen = w.gen
      PROVE  sender'[n] = k \/ n \in degraded' \cup bad'
  <2>1. Owned(v)
    <3>1. CASE UNCHANGED hosts
      BY <1>2, <3>1 DEF Owned
    <3>2. CASE Switch
      <4>1. v.gen \in 1..Gen
        BY <1>0, Turns
      <4> QED BY <1>0, <1>2, <3>2, <4>1, Appended DEF Switch, Owned
    <3> QED BY <3>1, <3>2, StaysPublished, <1>0
  <2>2. /\ n \in Names /\ k \in 1..MaxConns /\ k # 0 /\ v.conn = <<n, k>> /\ v.gen \in 1..Gen
        /\ k \in {host[n], retired[n]}
        /\ sender[n] = k \/ n \in degraded \cup bad
    BY <1>0, <1>2, <2>1, Turns, HandoverAssumption DEF Waiting, RepliesReachOrigin
  <2>3. CASE UNCHANGED sender /\ degraded \cup bad \subseteq degraded' \cup bad'
    BY <2>2, <2>3
  <2>4. ASSUME NEW m \in Names, Stop(m) PROVE sender'[n] = k \/ n \in degraded' \cup bad'
    <3>1. m # n /\ bad = {} /\ degraded' = degraded
      BY <1>0, <1>2, <2>1, <2>4, Undisturbed DEF Stop, Phases
    <3> QED BY <1>0, <2>2, <2>4, <3>1, OthersRegistered DEF Stop
  <2>5. ASSUME NEW m \in Names, Start(m) PROVE sender'[n] = k \/ n \in degraded' \cup bad'
    <3>1. m # n /\ UNCHANGED <<bad, degraded>>
      BY <1>0, <1>2, <2>1, <2>5, Undisturbed DEF Start, Progress
    <3> QED BY <1>0, <2>2, <2>5, <3>1, OthersRegistered DEF Start
  <2>6. ASSUME NEW m \in Names, Clean(m) PROVE sender'[n] = k \/ n \in degraded' \cup bad'
    <3>1. Adds(m) /\ degraded' = degraded /\ bad \subseteq bad'
      BY <1>0, <2>6 DEF Clean, Stops, Progress
    <3>2. m = n => cand[n] # k
      BY <2>2, <3>1, Outgoings
    <3>3. sender[n] = k => sender'[n] = k
      BY <2>2, <2>6, <3>2 DEF Clean, Stops, Unregistered
    <3> QED BY <2>2, <3>1, <3>3
  <2>7. ASSUME NEW m \in Names, Restart(m) PROVE sender'[n] = k \/ n \in degraded' \cup bad'
    <3>1. Replaces(m) /\ UNCHANGED <<degraded, bad>> /\ sender' = [sender EXCEPT ![m] = Outgoing(m)]
      BY <1>0, <2>7 DEF Restart, Registered, Progress
    <3>2. Outgoing(m) = Existing(m)
      BY <3>1, Outgoings
    <3>3. Existing(n) = k
      BY <1>0, <2>2 DEF Existing, TypeOK
    <3> QED BY <1>0, <2>2, <3>1, <3>2, <3>3 DEF TypeOK, Slots
  <2>8. CASE Switch
    <3>1. pc = "start" /\ UNCHANGED sender /\ degraded' = {m \in degraded : ~ Adds(m)} /\ bad = {}
      BY <1>0, <2>8 DEF Switch, Phases
    <3>2. ~ Adds(n)
      BY <1>2, <2>1, <3>1, Undisturbed
    <3> QED BY <2>2, <3>1, <3>2
  <2>9. ASSUME NEW b \in batches, Retire(b) PROVE sender'[n] = k \/ n \in degraded' \cup bad'
    <3>1. v.gen > b.upto /\ degraded \subseteq degraded' /\ bad' = bad
      BY <1>0, <1>2, <2>9 DEF Retire, Ripe
    <3>2. <<n, k>> \notin b.conns
      <4>1. b.upto \in Nat /\ ~ (v.gen <= b.upto)
        BY <1>0, <2>2, <3>1 DEF TypeOK
      <4> QED BY <1>0, <2>1, <2>2, <1>2, <4>1 DEF Waiting, Owned
    <3>3. sender[n] = k => sender'[n] = k
      BY <2>2, <2>9, <3>2 DEF Retire, Unregistered, Members
    <3> QED BY <2>2, <3>1, <3>3
  <2>10. CASE StopAll
    BY <2>10 DEF StopAll
  <2>11. \/ UNCHANGED sender /\ degraded \cup bad \subseteq degraded' \cup bad'
         \/ \E m \in Names : Stop(m) \/ Start(m) \/ Clean(m) \/ Restart(m)
         \/ Switch \/ StopAll \/ \E b \in batches : Retire(b)
    <3>1. CASE DrainFails \/ Recover
      BY <1>0, <3>1 DEF DrainFails, Recover, Forget, Phases
    <3> QED
      BY <3>1 DEF Next, Handover, Accept, Answer, Deliver, Apply, Enter, StartPhase, SwitchFails,
         RestorePhase, Park, Restarted, Released, vars
  <2> QED BY <2>3, <2>4, <2>5, <2>6, <2>7, <2>8, <2>9, <2>10, <2>11
<1> QED BY <1>1, <1>2, TurnsAfter

\* No step accepts a turn through a connection that was never published.
LEMMA StrayStep ==
  ASSUME IInv, [Next]_vars
  PROVE  NoStrayTurn'
<1>0. TypeOK /\ Objects /\ NoStrayTurn
  BY DEF IInv
<1>1. Gen \in Nat \ {0} /\ Gen' \in Nat /\ Gen <= Gen'
      /\ \A g \in 1..Gen : g \in 1..Gen' /\ hosts'[g] = hosts[g]
  <2>1. CASE UNCHANGED hosts
    BY <1>0, <2>1, Shapes DEF Gen
  <2>2. CASE Switch
    <3>1. /\ Gen \in Nat \ {0} /\ Gen' = Gen + 1
          /\ \A g \in 1..Gen : hosts'[g] = hosts[g]
      BY <1>0, <2>2, Shapes, Appended DEF Switch
    <3> QED BY <3>1
  <2> QED BY <1>0, <2>1, <2>2, StaysPublished
<1>2. ASSUME NEW w \in work', NEW v \in work, v.conn = w.conn, v.gen = w.gen
      PROVE  \E g \in 1..w.gen : hosts'[g][w.conn[1]] = w.conn[2]
  <2>1. v.gen \in 1..Gen
    BY <1>0, Turns
  <2>2. \A g \in 1..v.gen : g \in 1..Gen
    BY <1>1, <2>1
  <2> QED BY <1>0, <1>1, <1>2, <2>2 DEF NoStrayTurn
<1>3. ASSUME NEW w \in work', NEW c \in Conns, Accept(c), w.conn = c, w.gen = Gen
      PROVE  \E g \in 1..w.gen : hosts'[g][w.conn[1]] = w.conn[2]
  <2>1. c \in open
    BY <1>3 DEF Accept
  <2> QED BY <1>0, <1>1, <1>3, <2>1 DEF Objects, Published
<1> QED BY <1>2, <1>3, TurnsAfter DEF NoStrayTurn

-----------------------------------------------------------------------------
(* The theorems.                                                             *)

\* The inductive invariant holds at the start.
LEMMA InitInv == Init => IInv
<1> SUFFICES ASSUME Init PROVE IInv
  OBVIOUS
<1>1. PICK names \in SUBSET Names, failed \in SUBSET Names :
         /\ failed \subseteq names
         /\ hosts = <<[n \in Names |-> IF n \in names THEN 1 ELSE 0]>>
         /\ sender = hosts[1] /\ open = Of(hosts[1])
         /\ state = [c \in Conns |-> IF c \notin open THEN "new"
                                     ELSE IF c[1] \in failed THEN "unsure" ELSE "live"]
         /\ degraded = failed
  BY DEF Init
<1>2. TypeOK /\ Phases
  BY InitTypes
<1>3. /\ pc = "idle" /\ stopped = {} /\ tried = {} /\ todo = {} /\ bad = {} /\ batches = {}
      /\ work = {} /\ retired = NoCand /\ marked = {} /\ Gen = 1 /\ host = hosts[1]
      /\ \A n \in Names : retired[n] = 0
  BY <1>1 DEF Init, Gen, host, NoCand
<1>4. /\ \A n \in Names : Published(n, host[n])
      /\ \A n \in Names : host[n] # 0 => <<n, host[n]>> \in open /\ <<n, host[n]>> \in Conns
      /\ open \subseteq Conns
      /\ \A c \in open : c[1] \in Names /\ c[2] = host[c[1]]
  BY <1>1, <1>2, <1>3, Shapes, HandoverAssumption DEF Published, Of, Conns, Slots
<1>5. \A c \in Conns : (c \in open => state[c] # "new") /\ state[c] # "starting"
        /\ (c \notin open => state[c] = "new")
        /\ (c \in open /\ c[1] \notin degraded => state[c] = "live")
  BY <1>1
<1>6. Objects
  BY <1>2, <1>3, <1>4, <1>5, NothingAdded DEF Objects
<1>7. Progress /\ Guarded /\ Waiting /\ Ripe
  BY <1>3 DEF Progress, Guarded, Waiting, Ripe
<1>8. Upward
  <2>1. ASSUME NEW n \in Names, NEW k \in 1..MaxConns, Up(<<n, k>>) PROVE k = host[n]
    <3>1. <<n, k>> \in open
      BY <1>5, <2>1, Pairs DEF Up
    <3> QED BY <1>4, <3>1
  <2> QED BY <1>3, <1>5, <2>1 DEF Upward, Away
<1>9. Kept
  BY <1>1, <1>3, <1>4, <1>5 DEF Kept, Away, Serves, Answers
<1>10. RepliesReachOrigin /\ NoStrayTurn
  BY <1>3 DEF RepliesReachOrigin, NoStrayTurn
<1> QED BY <1>2, <1>6, <1>7, <1>8, <1>9, <1>10 DEF IInv

\* Every step keeps the inductive invariant.
LEMMA StepInv == IInv /\ [Next]_vars => IInv'
  BY NextTypes, ProgressStep, ObjectsStep, UpwardStep, GuardedStep, WaitingStep, RipeStep, KeptStep,
     RepliesStep, StrayStep DEF IInv

\* The inductive invariant holds in every reachable state.
THEOREM Inductive == Spec => []IInv
  BY InitInv, StepInv, PTL DEF Spec

\* Types: every stop, start, commit, rollback and retirement, failing or not.
THEOREM TypeCorrect == Spec => []TypeOK
<1>1. IInv => TypeOK
  BY DEF IInv
<1> QED BY <1>1, Inductive, PTL

\* However often a channel is changed and however its handovers fail, two of
\* its connections are never up together (channel_host.py:165-222).
THEOREM OneLiveCorrect == Spec => []OneLive
<1>1. ASSUME IInv, NEW n \in Names PROVE Cardinality({k \in 1..MaxConns : Up(<<n, k>>)}) <= 1
  <2> DEFINE up == {k \in 1..MaxConns : Up(<<n, k>>)}
  <2>1. ASSUME NEW k \in up, NEW j \in up PROVE k = j
    <3>1. TypeOK /\ Upward /\ Progress
      BY <1>1 DEF IInv
    <3>2. (host[n] = 0 \/ retired[n] = 0) /\ k # 0 /\ j # 0
      BY <3>1, HandoverAssumption DEF TypeOK
    <3>3. CASE n \in tried /\ pc \in {"start", "clean"}
      <4>1. Adds(n)
        BY <3>1, <3>3 DEF Progress
      <4>2. ASSUME NEW i \in up, i \in {host[n], retired[n]} PROVE FALSE
        <5>1. i = Existing(n) /\ i # 0
          BY <3>2, <4>2, HandoverAssumption DEF Existing
        <5>2. Replaces(n) /\ Outgoing(n) = i
          BY <1>1, <4>1, <5>1, Outgoings DEF Replaces
        <5>3. Away(n)
          BY <1>1, <3>3, <4>1, <5>1, Replaced, <3>2, <4>2
        <5> QED BY <3>1, <3>3, <4>2, <5>2, <5>3 DEF Upward
      <4> QED BY <3>1, <4>2 DEF Upward
    <3>4. CASE ~ (n \in tried /\ pc \in {"start", "clean"})
      BY <3>1, <3>2, <3>4 DEF Upward
    <3> QED BY <3>3, <3>4
  <2>2. Cardinality(up) <= 1
    <3> HIDE DEF up
    <3>1. up = {} \/ \E k \in up : up = {k}
      BY <2>1
    <3>2. Cardinality({}) = 0 /\ \A k : Cardinality({k}) = 1
      BY FS_EmptySet, FS_Singleton
    <3>3. Cardinality(up) = 0 \/ Cardinality(up) = 1
      BY <3>1, <3>2
    <3> QED BY <3>3
  <2> QED BY <2>2
<1>2. IInv => OneLive
  BY <1>1 DEF OneLive
<1> QED BY <1>2, Inductive, PTL

\* The connection an accepted turn came in through is registered until the
\* turn is answered, unless a failure was reported (channel_barrier.py:36-61,
\* channel_host.py:247-258).
THEOREM RepliesReachOriginCorrect == Spec => []RepliesReachOrigin
<1>1. IInv => RepliesReachOrigin
  BY DEF IInv
<1> QED BY <1>1, Inductive, PTL

\* No turn comes in through a connection that was never published
\* (channel_host.py:173-197).
THEOREM NoStrayTurnCorrect == Spec => []NoStrayTurn
<1>1. IInv => NoStrayTurn
  BY DEF IInv
<1> QED BY <1>1, Inductive, PTL

\* After an apply, published connections serve and retained ones only answer,
\* whatever failed, except where it was reported (channel_host.py:189-238,
\* reload.py:122-126).
THEOREM SettledCorrect == Spec => []Settled
<1>1. ASSUME IInv, pc \in {"idle", "drain"}, NEW n \in Names \ degraded
      PROVE  /\ Serves(n) /\ Answers(n)
             /\ pc = "idle" /\ host[n] # 0 => <<n, host[n]>> \in open
             /\ \A k \in 1..MaxConns : Up(<<n, k>>) => k \in {host[n], retired[n]}
  BY <1>1 DEF IInv, Phases, Kept, Away, Upward
<1>2. IInv => Settled
  BY <1>1 DEF Settled, Serves, Answers
<1> QED BY <1>2, Inductive, PTL

=============================================================================
