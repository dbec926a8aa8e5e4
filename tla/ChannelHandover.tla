---------------------------- MODULE ChannelHandover ----------------------------
(***************************************************************************)
(* ChannelHost and the barrier around it: how the connections of the chat  *)
(* channels are switched when a new configuration is published.  An        *)
(* unchanged connection is reused, a changed one is stopped before its     *)
(* successor starts, a removed one stays connected, with its intake        *)
(* paused, until the turns it accepted are answered.  Any step may fail,   *)
(* and the handover then restores what it stopped.                         *)
(*                                                                         *)
(* Connection k of channel n is the pair <<n, k>>; 0 stands for none.      *)
(***************************************************************************)
EXTENDS Naturals, FiniteSets, Sequences

CONSTANTS Names,       \* channel names
          MaxConns,    \* bound: connection objects per name
          MaxGen,      \* bound: published generations
          MaxWork,     \* bound: accepted turns not answered yet
          MaxFailures  \* bound: stops, starts and commits that fail

ASSUME HandoverAssumption ==
    /\ IsFiniteSet(Names)
    /\ MaxConns \in Nat \ {0} /\ MaxGen \in Nat \ {0}
    /\ MaxWork \in Nat /\ MaxFailures \in Nat

VARIABLES
    hosts,     \* the connection each generation published under a name
    retired,   \* _retired_transports
    state,     \* of each connection: new, off, starting, live, unsure
    open,      \* connections whose intake is neither paused nor closed
    sender,    \* the connection registered with the bus and the push tool
    marked,    \* the push tool's _retired_channels
    work,      \* accepted turns, and their replies still in the queue
    batches,   \* retirement tasks: the parked connections and what they wait for
    pc,        \* where the current apply is
    barrier,   \* the apply closed admission: it must drain first
    cand,      \* the candidate's connections
    todo,      \* names the current phase still has to handle
    stopped,   \* names whose old connection was stopped
    tried,     \* names whose new connection was started
    bad,       \* names reported degraded by this handover
    degraded,  \* history: names reported degraded, until a new connection starts
    failures   \* failures so far

vars == <<hosts, retired, state, open, sender, marked, work, batches, pc, barrier,
          cand, todo, stopped, tried, bad, degraded, failures>>

Conns == Names \X (1..MaxConns)
Slots == [Names -> 0..MaxConns]
Gen == Len(hosts)
host == hosts[Gen]
Of(slots) == {<<n, slots[n]>> : n \in {m \in Names : slots[m] # 0}}
Up(c) == state[c] \in {"starting", "live"}
Running(c) == Up(c) \/ state[c] = "unsure"
Locked == pc \in {"stop", "start", "clean", "restore"}  \* transport_lock
Fails == failures < MaxFailures /\ failures' = failures + 1

TypeOK ==
    /\ hosts \in Seq(Slots) /\ Gen \in 1..MaxGen
    /\ retired \in Slots /\ sender \in Slots /\ cand \in Slots
    /\ state \in [Conns -> {"new", "off", "starting", "live", "unsure"}]
    /\ open \subseteq Conns /\ marked \subseteq Names
    /\ work \subseteq [conn : Conns, gen : 1..Gen, at : {"turn", "reply"}]
    /\ batches \subseteq [conns : SUBSET Conns, upto : 1..Gen, awaits : {"turns", "replies", "lock"}]
    /\ pc \in {"idle", "drain", "stop", "start", "clean", "restore", "down"}
    /\ barrier \in BOOLEAN /\ failures \in 0..MaxFailures
    /\ {todo, stopped, tried, bad, degraded} \subseteq SUBSET Names
    /\ \A n \in Names : host[n] = 0 \/ retired[n] = 0

-----------------------------------------------------------------------------
(* Connections: what start and stop do to one, whether or not they raise.    *)

\* start registers the senders first, so a failed start leaves them registered.
Registered(n, k) == sender' = [sender EXCEPT ![n] = k] /\ marked' = marked \ {n}

\* stop detaches its own senders in a finally, so a failed stop does it too.
Unregistered(gone) ==
    /\ sender' = [n \in Names |-> IF <<n, sender[n]>> \in gone THEN 0 ELSE sender[n]]
    /\ marked' = {n \in marked : <<n, sender[n]>> \notin gone}

\* The outcome of stopping a connection of n: off, or unknown with a report.
Stops(n, c) ==
    /\ open' = open \ {c}
    /\ Unregistered({c})
    /\ todo' = todo \ {n}
    /\ \/ state' = [state EXCEPT ![c] = "off"] /\ UNCHANGED <<bad, failures>>
       \/ state' = [state EXCEPT ![c] = "unsure"] /\ bad' = bad \cup {n} /\ Fails

-----------------------------------------------------------------------------
(* Turns.  A turn belongs to the generation published when it is accepted;   *)
(* its reply leaves through whatever connection the name has by then.        *)

Accept(c) ==
    /\ c \in open /\ Running(c) /\ Cardinality(work) < MaxWork
    /\ work' = work \cup {[conn |-> c, gen |-> Gen, at |-> "turn"]}
    /\ UNCHANGED <<hosts, retired, state, open, sender, marked, batches, pc, barrier,
                   cand, todo, stopped, tried, bad, degraded, failures>>

Answer(w) ==
    /\ w.at = "turn"
    /\ work' = (work \ {w}) \cup {[w EXCEPT !.at = "reply"]}
    /\ UNCHANGED <<hosts, retired, state, open, sender, marked, batches, pc, barrier,
                   cand, todo, stopped, tried, bad, degraded, failures>>

\* No reply is queued: queue.join() returns to everyone who waits in it.
NoReply(rest) == \A w \in rest : w.at # "reply"
Joined(waiting) == {[b EXCEPT !.awaits = IF @ = "replies" THEN "lock" ELSE @] : b \in waiting}

\* The dispatcher delivers the replies of every generation from one queue.
Deliver(w) ==
    /\ w.at = "reply" /\ ~Locked
    /\ work' = work \ {w}
    /\ batches' = IF NoReply(work') THEN Joined(batches) ELSE batches
    /\ UNCHANGED <<hosts, retired, state, open, sender, marked, pc, barrier,
                   cand, todo, stopped, tried, bad, degraded, failures>>

-----------------------------------------------------------------------------
(* Apply: the candidate and the barrier.                                     *)

\* A candidate reuses the published connection or constructs a new object.
Candidates ==
    {c \in Slots : \A n \in Names :
        \/ c[n] \in {0, host[n]}
        \/ /\ state[<<n, c[n]>>] = "new"
           /\ \A k \in 1..(c[n] - 1) : state[<<n, k>>] # "new"}

\* Mutant: the retained transports are forgotten when the barrier is chosen.
ExistingHosted(n) == host[n]
Existing(n) == IF retired[n] # 0 THEN retired[n] ELSE host[n]
RequiresExclusive(c) == \E n \in Names : c[n] # 0 /\ Existing(n) \notin {0, c[n]}

\* Mutant: a retained transport is not taken away.
OutgoingHosted(n) == host[n]
\* The connection a handover takes away under name n.
Outgoing(n) == IF retired[n] # 0 /\ cand[n] # 0 THEN retired[n] ELSE host[n]
Replaces(n) == cand[n] # 0 /\ Outgoing(n) \notin {0, cand[n]}
Parks(n) == cand[n] = 0 /\ host[n] # 0
Adds(n) == cand[n] \notin {0, host[n]}
NoCand == [n \in Names |-> 0]
Forget == cand' = NoCand /\ todo' = {} /\ stopped' = {} /\ tried' = {} /\ bad' = {} /\ barrier' = FALSE

\* Mutant: the barrier closes admission and leaves the intake alone.
PausedNever == open
\* The barrier pauses the intake of the published connections.
Paused == open \ Of(host)
Apply(c) ==
    /\ pc = "idle" /\ Gen < MaxGen
    /\ cand' = c
    /\ barrier' = RequiresExclusive(c)
    /\ open' = IF barrier' THEN Paused ELSE open
    /\ pc' = "drain"
    /\ UNCHANGED <<hosts, retired, state, sender, marked, work, batches, todo, stopped,
                   tried, bad, degraded, failures>>

\* Behind the barrier, accepted turns and the outbound queue are finished first.
Drained == barrier => work = {}
Enter ==
    /\ pc = "drain" /\ Drained
    /\ pc' = "stop" /\ todo' = {n \in Names : Replaces(n) \/ Parks(n)}
    /\ UNCHANGED <<hosts, retired, state, open, sender, marked, work, batches, barrier,
                   cand, stopped, tried, bad, degraded, failures>>

\* Background work failed to drain: nothing was switched.
DrainFails ==
    /\ pc = "drain" /\ barrier /\ Fails
    /\ pc' = "idle" /\ open' = open \cup Of(host) /\ Forget
    /\ UNCHANGED <<hosts, retired, state, sender, marked, work, batches, degraded>>

-----------------------------------------------------------------------------
(* The handover, under the transport lock.                                   *)

Park(n) ==
    /\ pc = "stop" /\ n \in todo /\ Parks(n)
    /\ open' = open \ {<<n, host[n]>>} /\ todo' = todo \ {n}
    /\ UNCHANGED <<hosts, retired, state, sender, marked, work, batches, pc, barrier,
                   cand, stopped, tried, bad, degraded, failures>>

Stop(n) ==
    /\ pc = "stop" /\ n \in todo /\ Replaces(n)
    /\ open' = open \ {<<n, Outgoing(n)>>}
    /\ Unregistered({<<n, Outgoing(n)>>})
    /\ \/ /\ state' = [state EXCEPT ![<<n, Outgoing(n)>>] = "off"]
          /\ stopped' = stopped \cup {n} /\ todo' = todo \ {n}
          /\ UNCHANGED <<pc, bad, failures>>
       \/ /\ state' = [state EXCEPT ![<<n, Outgoing(n)>>] = "unsure"] /\ Fails
          /\ pc' = "clean" /\ todo' = {} /\ bad' = {n} /\ UNCHANGED stopped
    /\ UNCHANGED <<hosts, retired, work, batches, barrier, cand, tried, degraded>>

StartPhase ==
    /\ pc = "stop" /\ todo = {}
    /\ pc' = "start" /\ todo' = {n \in Names : Adds(n)}
    /\ UNCHANGED <<hosts, retired, state, open, sender, marked, work, batches, barrier,
                   cand, stopped, tried, bad, degraded, failures>>

\* A candidate starts with its intake paused.
Start(n) ==
    /\ pc = "start" /\ n \in todo
    /\ tried' = tried \cup {n}
    /\ Registered(n, cand[n])
    /\ \/ /\ state' = [state EXCEPT ![<<n, cand[n]>>] = "live"]
          /\ todo' = todo \ {n} /\ UNCHANGED <<pc, failures>>
       \/ /\ state' = [state EXCEPT ![<<n, cand[n]>>] = "unsure"] /\ Fails
          /\ pc' = "clean" /\ todo' = tried'
    /\ UNCHANGED <<hosts, retired, open, work, batches, barrier, cand, stopped, bad, degraded>>

StillRetired(n) == IF cand[n] # 0 THEN 0 ELSE retired[n]

\* Resume and commit are one synchronous step; parked connections are retired.
Switch ==
    /\ pc = "start" /\ todo = {}
    /\ hosts' = Append(hosts, cand)
    /\ open' = open \cup Of(cand)
    /\ LET parked == {n \in Names : Parks(n)} IN
       /\ retired' = [n \in Names |-> IF n \in parked THEN host[n] ELSE StillRetired(n)]
       /\ marked' = marked \cup parked
       /\ batches' = IF parked = {} THEN batches ELSE
                     batches \cup {[conns |-> {<<n, host[n]>> : n \in parked}, upto |-> Gen,
                                    awaits |-> "turns"]}
    /\ degraded' = {n \in degraded : ~Adds(n)}
    /\ pc' = "idle" /\ Forget
    /\ UNCHANGED <<state, sender, work, failures>>

\* Mutant: the candidates that were resumed are not paused again.
ReopenedToo == Of(cand)
\* A resume or the commit raised: candidates are paused again before any await.
Reopened == {c \in Of(host) : cand[c[1]] = c[2]}
SwitchFails ==
    /\ pc = "start" /\ todo = {} /\ Fails
    /\ open' = open \cup Reopened
    /\ pc' = "clean" /\ todo' = tried
    /\ UNCHANGED <<hosts, retired, state, sender, marked, work, batches, barrier, cand,
                   stopped, tried, bad, degraded>>

-----------------------------------------------------------------------------
(* A failed handover: stop the candidates, restart what was stopped.         *)

Clean(n) ==
    /\ pc = "clean" /\ n \in todo
    /\ Stops(n, <<n, cand[n]>>)
    /\ UNCHANGED <<hosts, retired, work, batches, pc, barrier, cand, stopped, tried, degraded>>

\* A name whose connection may still be up is not connected a second time.
Restorable == stopped \ bad
RestorePhase ==
    /\ pc = "clean" /\ todo = {}
    /\ pc' = "restore" /\ todo' = Restorable
    /\ UNCHANGED <<hosts, retired, state, open, sender, marked, work, batches, barrier,
                   cand, stopped, tried, bad, degraded, failures>>

\* The old connection starts with its intake open, a retired one too.
Restart(n) ==
    /\ pc = "restore" /\ n \in todo /\ \A c \in Conns : state[c] # "starting"
    /\ state' = [state EXCEPT ![<<n, Outgoing(n)>>] = "starting"]
    /\ open' = open \cup {<<n, Outgoing(n)>>}
    /\ Registered(n, Outgoing(n))
    /\ UNCHANGED <<hosts, retired, work, batches, pc, barrier, cand, todo, stopped, tried,
                   bad, degraded, failures>>

\* Mutant: a restarted retired connection is treated like a published one.
AgainNever(n) == FALSE
\* A restarted retired connection is paused and marked again.
Again(n) == retired[n] # 0
Restarted(n) ==
    /\ pc = "restore" /\ n \in todo /\ state[<<n, Outgoing(n)>>] = "starting"
    /\ todo' = todo \ {n}
    /\ \/ /\ state' = [state EXCEPT ![<<n, Outgoing(n)>>] = "live"]
          /\ IF Again(n) THEN open' = open \ {<<n, retired[n]>>} /\ marked' = marked \cup {n}
             ELSE UNCHANGED <<open, marked>>
          /\ UNCHANGED <<bad, failures>>
       \/ /\ state' = [state EXCEPT ![<<n, Outgoing(n)>>] = "unsure"] /\ Fails
          /\ bad' = bad \cup {n} /\ UNCHANGED <<open, marked>>
    /\ UNCHANGED <<hosts, retired, sender, work, batches, pc, barrier, cand, stopped, tried, degraded>>

\* The published connections take input again, and the barrier opens.
Recover ==
    /\ pc = "restore" /\ todo = {}
    /\ open' = open \cup {c \in Of(host) : barrier \/ c[1] \notin bad}
    /\ degraded' = degraded \cup bad
    /\ pc' = "idle" /\ Forget
    /\ UNCHANGED <<hosts, retired, state, sender, marked, work, batches, failures>>

-----------------------------------------------------------------------------
(* Retirement and shutdown.                                                  *)

\* Mutant: the generations to wait for are read when the task runs.
TurnsOverAll(b) == \A w \in work : w.at # "turn"
\* The generations published when the connection was removed are drained.
TurnsOver(b) == \A w \in work : w.at = "turn" => w.gen > b.upto

\* Then the replies in the queue are waited for, those of later turns too.
Released(b) ==
    /\ pc # "down" /\ b.awaits = "turns" /\ TurnsOver(b)
    /\ batches' = (batches \ {b}) \cup
                  {[b EXCEPT !.awaits = IF NoReply(work) THEN "lock" ELSE "replies"]}
    /\ UNCHANGED <<hosts, retired, state, open, sender, marked, work, pc, barrier,
                   cand, todo, stopped, tried, bad, degraded, failures>>

Members(b) == {c \in b.conns : retired[c[1]] = c[2]}

Retire(b) ==
    /\ ~Locked /\ pc # "down" /\ b.awaits = "lock"
    /\ batches' = batches \ {b}
    /\ \E done \in SUBSET Members(b), failed \in SUBSET Members(b) :
       /\ failed \cap done = {}
       /\ \/ done = Members(b) /\ UNCHANGED failures
          \/ Cardinality(failed) = 1 /\ Fails
       /\ state' = [c \in Conns |-> IF c \in done THEN "off"
                                    ELSE IF c \in failed THEN "unsure" ELSE state[c]]
       /\ retired' = [n \in Names |-> IF <<n, retired[n]>> \in done THEN 0 ELSE retired[n]]
       /\ Unregistered(done \cup failed) /\ open' = open \ (done \cup failed)
       /\ degraded' = degraded \cup {c[1] : c \in failed}
    /\ UNCHANGED <<hosts, work, pc, barrier, cand, todo, stopped, tried, bad>>

\* Accepted work has ended or was cut off before the connections are stopped.
StopAll ==
    /\ pc = "idle"
    /\ pc' = "down" /\ batches' = {} /\ work' = {}
    /\ LET all == Of(host) \cup Of(retired) IN
       /\ \/ /\ state' = [c \in Conns |-> IF c \in all THEN "off" ELSE state[c]]
             /\ UNCHANGED failures
          \/ /\ Fails
             /\ \E f \in all :
                state' = [c \in Conns |-> IF c = f THEN "unsure"
                                          ELSE IF c \in all THEN "off" ELSE state[c]]
       /\ open' = open \ all /\ Unregistered(all)
    /\ UNCHANGED <<hosts, retired, barrier, cand, todo, stopped, tried, bad, degraded>>

-----------------------------------------------------------------------------
\* start_all at boot goes on after a channel that does not start.
Init ==
    /\ \E names \in SUBSET Names, failed \in SUBSET Names :
       /\ failed \subseteq names /\ Cardinality(failed) <= MaxFailures
       /\ hosts = <<[n \in Names |-> IF n \in names THEN 1 ELSE 0]>>
       /\ sender = hosts[1] /\ open = Of(hosts[1])
       /\ state = [c \in Conns |-> IF c \notin open THEN "new"
                                   ELSE IF c[1] \in failed THEN "unsure" ELSE "live"]
       /\ degraded = failed /\ failures = Cardinality(failed)
    /\ retired = NoCand /\ cand = NoCand /\ marked = {} /\ work = {} /\ batches = {}
    /\ pc = "idle" /\ barrier = FALSE
    /\ todo = {} /\ stopped = {} /\ tried = {} /\ bad = {}

Handover ==
    \/ Enter \/ StartPhase \/ Switch \/ SwitchFails \/ RestorePhase \/ Recover
    \/ \E n \in Names : Park(n) \/ Stop(n) \/ Start(n) \/ Clean(n) \/ Restart(n) \/ Restarted(n)

Next ==
    \/ \E c \in Conns : Accept(c)
    \/ \E w \in work : Answer(w) \/ Deliver(w)
    \/ \E c \in Candidates : Apply(c)
    \/ DrainFails
    \/ Handover
    \/ \E b \in batches : Released(b) \/ Retire(b)
    \/ StopAll

Spec == Init /\ [][Next]_vars

\* Calls to start and stop return, the dispatcher goes on, and turns a barrier
\* or a retirement waits for are finite in number and end.
Awaited(w) == w.gen < Gen \/ (pc = "drain" /\ barrier)
FairSpec ==
    /\ Spec
    /\ WF_vars(Handover)
    /\ WF_vars(\E w \in work : Awaited(w) /\ Answer(w))
    /\ WF_vars(\E w \in work : Deliver(w))
    /\ WF_vars(\E b \in batches : Released(b) \/ Retire(b))

-----------------------------------------------------------------------------
(* Properties.                                                               *)

\* Two connections of one name are never both up: a successor starts only
\* after the predecessor was stopped, and a rollback restarts the old one only
\* when the candidate is down (channel_host.py:165-222).
OneLive ==
    \A n \in Names :
        Cardinality({k \in 1..MaxConns : Up(<<n, k>>)}) <= 1

\* A turn was accepted by a connection its generation had published.
Owned(w) == hosts[w.gen][w.conn[1]] = w.conn[2]

\* The answer to an accepted turn finds the connection the turn came in
\* through still registered: neither a changed nor a removed connection goes
\* away before its turns are answered (channel_barrier.py:36-61,
\* channel_host.py:247-258).
RepliesReachOrigin ==
    \A w \in work : Owned(w) =>
        sender[w.conn[1]] = w.conn[2] \/ w.conn[1] \in degraded \cup bad

\* No turn is accepted through a connection that was never published: a
\* candidate that is rolled back takes no input (channel_host.py:173-197).
NoStrayTurn == \A w \in work : \E g \in 1..w.gen : hosts[g][w.conn[1]] = w.conn[2]

\* Once an apply is over, every published connection serves its channel and
\* every retired one only answers, whatever failed on the way, except where a
\* failure was reported (channel_host.py:189-238, reload.py:122-126).
Settled ==
    pc \in {"idle", "drain"} => \A n \in Names \ degraded :
        /\ host[n] # 0 => /\ state[<<n, host[n]>>] = "live" /\ sender[n] = host[n]
                          /\ n \notin marked
                          /\ pc = "idle" => <<n, host[n]>> \in open
        /\ retired[n] # 0 => /\ state[<<n, retired[n]>>] = "live" /\ sender[n] = retired[n]
                             /\ n \in marked /\ <<n, retired[n]>> \notin open
        /\ \A k \in 1..MaxConns : Up(<<n, k>>) => k \in {host[n], retired[n]}

\* An apply ends: the barrier has closed the intake, so what it waits for
\* grows no more and does not wait for it (channel_barrier.py:44-60). Only a
\* retained connection that a failed restart left open goes on accepting.
Strays == {c \in open \ Of(host) : state[c] = "unsure"}
ApplyEnds == []<>(pc \in {"idle", "down"} \/ Strays # {})

\* Every retirement runs in the end, although turns of the generations after
\* it go on for ever and their queued replies prolong it: it needs the one
\* queue of all generations to be empty once (reload.py:164-168).
RetirementEnds == []<>NoReply(work) => []<>(batches = {})

\* A removed connection is on its way out unless stopping it failed: the
\* failure of one channel lets the others proceed (channel_host.py:261).
StillRetiring ==
    pc # "down" => \A n \in Names \ degraded :
        retired[n] # 0 => \E b \in batches : <<n, retired[n]>> \in b.conns

\* A retired connection only answers the turns accepted while it was
\* configured (agent/tools/message_push.py:84).
OnlyWhileConfigured == \A w \in work : Owned(w)

=============================================================================
