------------------------------ MODULE Sessions ------------------------------
(***************************************************************************)
(* One role session: the messages the process caches, the rows SQLite      *)
(* holds, the per-session write lock that orders the writers, /undo, and   *)
(* the background consolidation that writes old messages into the Markdown *)
(* memory and moves the cursor.                                            *)
(*                                                                         *)
(* Every writer adds its messages to the shared cache at once and then     *)
(* waits for the lock; only a consolidation commit keeps the lock across   *)
(* awaits, so all other critical sections are single steps.  The cached    *)
(* and the stored cursor are always written in the same step and are one   *)
(* variable here.                                                          *)
(***************************************************************************)
EXTENDS Naturals, Sequences, FiniteSets, SequencesExt, FiniteSetsExt

CONSTANTS MaxMessages,   \* bound: messages ever created
          Keep,          \* keep_count: the newest messages stay out of memory
          MinNew,        \* a window smaller than this is not consolidated
          FaultSets      \* the sets of faults a behaviour may be exposed to

ASSUME SessionAssumption ==
    /\ MaxMessages \in Nat /\ Keep \in Nat /\ MinNew \in Nat \ {0}
    /\ FaultSets \subseteq SUBSET {"cancel", "crash", "fail", "cut"}

VARIABLES
    db,        \* the session's rows, in seq order
    cache,     \* session.messages of the cached Session
    cursor,    \* last_consolidated, cached and stored
    waiting,   \* FIFO of the tasks that wait for the write lock
    phase,     \* where the maintenance task is
    draft,     \* what it captured before preparing
    requests,  \* entries of the maintenance queue
    history,   \* the windows written to HISTORY.md, by source_ref
    created,   \* messages created so far
    named,     \* the messages this process knows an id of
    faults     \* the faults of this behaviour; never changes

vars == <<db, cache, cursor, waiting, phase, draft, requests, history, created, named, faults>>

Message == [n : 1..MaxMessages, kind : {"user", "reply", "push"}, turn : 1..MaxMessages]
User(k) == [n |-> k, kind |-> "user", turn |-> k]
Reply(k, t) == [n |-> k, kind |-> "reply", turn |-> t]
Push(k) == [n |-> k, kind |-> "push", turn |-> k]

\* Waiters.  `cut` is the length a desktop writer truncates the cache to when
\* its write fails; the other writers leave the cache as it is.
NoCut == MaxMessages + 1
AppendOp(msgs, cut, ends) == [op |-> "append", msgs |-> msgs, cut |-> cut, ends |-> ends]
SaveAll(msgs, cut) == [op |-> "save", msgs |-> msgs, cut |-> cut, ends |-> FALSE]
UndoLast == [op |-> "undo", msgs |-> <<>>, cut |-> NoCut, ends |-> FALSE]
CommitDraft == [op |-> "commit", msgs |-> <<>>, cut |-> NoCut, ends |-> FALSE]

NoDraft == [ids |-> <<>>, blank |-> 0, cursor |-> 0, upto |-> 0]
Held == phase \in {"writing", "written", "publishing"}
Free == ~Held /\ waiting = <<>>

\* The sequence s without the messages of a set.
Without(s, gone) ==
    LET left[k \in 0..Len(s)] == IF k = 0 THEN <<>>
                                 ELSE IF s[k] \in gone THEN left[k - 1]
                                 ELSE Append(left[k - 1], s[k])
    IN left[Len(s)]
Within(s, kept) == Without(s, ToSet(s) \ kept)

-----------------------------------------------------------------------------
(* The pure parts. *)

\* insert_message for every message that has no id yet.
Inserted(rows, msgs) == rows \o Without(msgs, named)

\* save writes the whole cache in one transaction when rows and cached ids differ ...
NeedsSync(rows, msgs) == \/ Within(msgs, named) # rows
                         \/ ~IsPrefix(rows, msgs)

\* ... rows that left the cache are deleted, the others keep their sequence
\* numbers and the messages without a row get the next ones.
Synced(rows, msgs) == Within(rows, ToSet(msgs)) \o Without(msgs, ToSet(rows))

\* The rows of the last passive turn: the last reply right after a user message.
TurnEnds(rows) == {i \in 2..Len(rows) : rows[i].kind = "reply" /\ rows[i - 1].kind = "user"}

\* The index the cursor falls back to (0-based, as in the code), given the
\* sources the memory engine names for the deleted rows.
RollbackIndex(rows, i, old, sources) ==
    IF i - 2 >= old
    THEN Min({old, Len(rows) - 2})
    ELSE Min({i - 2, old} \cup {k - 1 : k \in {k \in DOMAIN rows : rows[k] \in sources}})

\* Mutant: the rows left behind are never counted.
UndoCursorKeeps(rows, i, rollback) == Min({cursor, Len(rows) - 2})
\* The cursor after the rows i-1 and i are deleted.
UndoCursor(rows, i, rollback) ==
    Min({rollback - Cardinality({k \in {i - 2, i - 1} : k < rollback}), Len(rows) - 2})

\* The messages to consolidate, as the last index; 0 when there are too few.
WindowEnd(msgs, from) ==
    IF Len(msgs) > Keep /\ Len(msgs) - Keep >= from + MinNew THEN Len(msgs) - Keep ELSE 0

\* Mutant: only the cursor is compared.
CurrentCursor(rows, cur, d) == cur = d.cursor /\ d.blank = 0

\* commit_consolidation's check of the draft against the rows.
Current(rows, cur, d) == /\ cur = d.cursor
                         /\ d.blank = 0
                         /\ IsPrefix(d.ids, rows)

Window == ToSet(SubSeq(draft.ids, draft.cursor + 1, draft.upto))

-----------------------------------------------------------------------------
(* What a task does when it has the lock, on the cache c. *)

Stores(o, c) ==
    /\ db' = IF o.op = "append" THEN Inserted(db, o.msgs) ELSE Synced(db, c)
    /\ cache' = c
    /\ named' = named \cup ToSet(db')
    /\ requests' = IF o.ends THEN requests + 1 ELSE requests
    /\ UNCHANGED <<cursor, phase, draft, history>>

\* The write fails: row by row after some rows, a whole sync with no row but with
\* ids handed out.  A desktop writer (fault "cut") cuts the cache back to the
\* length it saw, whatever other writers have added since.
StoreFails(o, c) ==
    /\ (IF o.cut = NoCut THEN "fail" ELSE "cut") \in faults
    /\ IF o.op = "save" /\ NeedsSync(db, c)
       THEN db' = db /\ named' = named \cup ToSet(c)
       ELSE LET new == Without(IF o.op = "append" THEN o.msgs ELSE c, named)
            IN /\ \E k \in 0..Len(new) - 1 : db' = db \o SubSeq(new, 1, k)
               /\ named' = named \cup ToSet(db')
    /\ cache' = IF o.cut = NoCut THEN c ELSE SubSeq(c, 1, Min({o.cut, Len(c)}))
    /\ UNCHANGED <<cursor, phase, draft, requests, history>>

\* Mutant: the cached session keeps the deleted messages.
UndoesRows(c) ==
    /\ TurnEnds(db) # {}
    /\ LET i == Max(TurnEnds(db))
       IN /\ db' = Without(db, {db[i - 1], db[i]})
          /\ cursor' = UndoCursor(db, i, RollbackIndex(db, i, cursor, {}))
    /\ cache' = c
    /\ UNCHANGED <<phase, draft, requests, history, named>>

\* /undo, with the sources the memory engine names: none, or the windows touched.
Undoes(c) ==
    /\ IF TurnEnds(db) = {}
       THEN UNCHANGED <<db, cursor>> /\ cache' = c
       ELSE LET i == Max(TurnEnds(db))
                gone == {db[i - 1], db[i]}
                touched == UNION {w \in history : w \cap gone # {}}
            IN /\ db' = Without(db, gone)
               /\ cache' = Without(c, gone)
               /\ \E sources \in {{}, touched} :
                     cursor' = UndoCursor(db, i, RollbackIndex(db, i, cursor, sources))
    /\ UNCHANGED <<phase, draft, requests, history, named>>

\* A stale draft is dropped before any side effect; a current one keeps the lock.
Commits(c) ==
    /\ cache' = c
    /\ IF Current(db, cursor, draft)
       THEN phase' = "writing" /\ UNCHANGED draft
       ELSE phase' = "idle" /\ draft' = NoDraft
    /\ UNCHANGED <<db, cursor, requests, history, named>>

Runs(o, c) == \/ o.op \in {"append", "save"} /\ (Stores(o, c) \/ StoreFails(o, c))
              \/ o.op = "undo" /\ Undoes(c)
              \/ o.op = "commit" /\ Commits(c)

\* A free lock is taken without yielding; otherwise the task queues up.
Arrives(o, c) == \/ Free /\ Runs(o, c) /\ UNCHANGED waiting
                 \/ /\ ~Free
                    /\ waiting' = Append(waiting, o)
                    /\ cache' = c
                    /\ UNCHANGED <<db, cursor, draft, requests, history, named>>
                    /\ phase' = IF o.op = "commit" THEN "waiting" ELSE phase

-----------------------------------------------------------------------------
(* The writers. *)

Adds(msgs, o) == /\ created + Len(msgs) <= MaxMessages
                 /\ created' = created + Len(msgs)
                 /\ Arrives(o, cache \o msgs)

\* A channel turn persists its user message and its reply together.
Turn == LET msgs == <<User(created + 1), Reply(created + 2, created + 1)>>
        IN Adds(msgs, AppendOp(msgs, NoCut, TRUE))

\* A desktop turn persists the user message first ...
DesktopUser == LET msgs == <<User(created + 1)>>
               IN Adds(msgs, AppendOp(msgs, Len(cache), FALSE))

\* ... and its reply when the turn ends.
DesktopReply ==
    \E u \in ToSet(db) :
        LET msgs == <<Reply(created + 1, u.turn)>>
        IN /\ u.kind = "user"
           /\ \A m \in ToSet(cache) : m.kind = "reply" => m.turn # u.turn
           /\ Adds(msgs, AppendOp(msgs, NoCut, TRUE))

\* A proactive message, an external image.
Proactive == LET msgs == <<Push(created + 1)>> IN Adds(msgs, AppendOp(msgs, NoCut, FALSE))

\* A desktop push saves the whole session.
DesktopPush == LET msgs == <<Push(created + 1)>> IN Adds(msgs, SaveAll(msgs, Len(cache)))

\* Role metadata updates call save without the lock.
SaveUnlocked == /\ db' = Synced(db, cache)
                /\ db' # db
                /\ named' = named \cup ToSet(db')
                /\ UNCHANGED <<cache, cursor, waiting, phase, draft, requests, history, created>>

Undo == /\ \A k \in DOMAIN waiting : waiting[k].op # "undo"
        /\ Arrives(UndoLast, cache)
        /\ UNCHANGED created

\* The lock goes to the first waiter.
Grant == /\ ~Held /\ waiting # <<>>
         /\ waiting' = Tail(waiting)
         /\ Runs(Head(waiting), cache)
         /\ UNCHANGED created

\* The turn of a waiting writer is cancelled: its messages stay in the cache.
Cancel == /\ "cancel" \in faults
          /\ \E k \in DOMAIN waiting :
                /\ waiting[k].op # "commit"
                /\ waiting' = RemoveAt(waiting, k)
          /\ UNCHANGED <<db, cache, cursor, phase, draft, requests, history, created, named>>

-----------------------------------------------------------------------------
(* The maintenance task. *)

\* The next queued request: capture ids and cursor, choose the window.
Capture == /\ phase = "idle" /\ requests > 0
           /\ requests' = requests - 1
           /\ LET end == WindowEnd(cache, cursor)
              IN IF end = 0
                 THEN UNCHANGED <<phase, draft>>
                 ELSE /\ phase' = "preparing"
                      /\ draft' = [ids |-> cache, blank |-> Cardinality(ToSet(cache) \ named),
                                   cursor |-> cursor, upto |-> end]
           /\ UNCHANGED <<db, cache, cursor, waiting, history, created, named>>

Prepared == /\ phase = "preparing"
            /\ Arrives(CommitDraft, cache)
            /\ UNCHANGED created

\* The model call failed: the queue is cleared.
PrepareFails == /\ phase = "preparing"
                /\ phase' = "idle" /\ draft' = NoDraft /\ requests' = 0
                /\ UNCHANGED <<db, cache, cursor, waiting, history, created, named>>

\* append_history_once and its siblings, in a worker thread.
WriteMemory == /\ phase = "writing"
               /\ phase' = "written"
               /\ history' = history \cup {Window}
               /\ UNCHANGED <<db, cache, cursor, waiting, draft, requests, created, named>>

\* Mutant: the cursor goes to where a new window would end.
CommitCursorNow == /\ phase = "written"
                   /\ phase' = "publishing"
                   /\ cursor' = Len(db) - Keep
                   /\ UNCHANGED <<db, cache, waiting, draft, requests, history, created, named>>

CommitCursor == /\ phase = "written"
                /\ phase' = "publishing"
                /\ cursor' = draft.upto
                /\ UNCHANGED <<db, cache, waiting, draft, requests, history, created, named>>

\* Mutant: a consumer waits for the session lock itself.
PublishLocks == /\ phase = "publishing" /\ waiting = <<>>
                /\ phase' = "idle" /\ draft' = NoDraft
                /\ UNCHANGED <<db, cache, cursor, waiting, requests, history, created, named>>

\* The awaited consumers return and the lock is released.
Publish == /\ phase = "publishing"
           /\ phase' = "idle" /\ draft' = NoDraft
           /\ UNCHANGED <<db, cache, cursor, waiting, requests, history, created, named>>

\* A Markdown write or a consumer raises: the lock is released, the queue dropped.
CommitFails == /\ Held /\ "fail" \in faults
               /\ phase' = "idle" /\ draft' = NoDraft /\ requests' = 0
               /\ UNCHANGED <<db, cache, cursor, waiting, history, created, named>>

\* The process dies and loads the session again.
Crash == /\ "crash" \in faults
         /\ cache' = db /\ named' = ToSet(db) /\ waiting' = <<>>
         /\ phase' = "idle" /\ draft' = NoDraft /\ requests' = 0
         /\ UNCHANGED <<db, cursor, history, created>>

-----------------------------------------------------------------------------
Init == /\ db = <<>> /\ cache = <<>> /\ cursor = 0 /\ waiting = <<>>
        /\ phase = "idle" /\ draft = NoDraft /\ requests = 0
        /\ history = {} /\ created = 0 /\ named = {} /\ faults \in FaultSets

Writers == Turn \/ DesktopUser \/ DesktopReply \/ Proactive \/ DesktopPush \/ SaveUnlocked \/ Undo
Work == Grant \/ Prepared \/ WriteMemory \/ CommitCursor \/ Publish
Next == /\ Writers \/ Work \/ Cancel \/ Capture \/ PrepareFails \/ CommitFails \/ Crash
        /\ UNCHANGED faults

Spec == Init /\ [][Next]_vars
FairSpec == Spec /\ WF_vars(Capture /\ UNCHANGED faults) /\ WF_vars(Work /\ UNCHANGED faults)

-----------------------------------------------------------------------------
(* Properties. *)

Waiter == [op : {"append", "save", "undo", "commit"}, msgs : Seq(Message), cut : Nat, ends : BOOLEAN]
Draft == [ids : Seq(Message), blank : Nat, cursor : Nat, upto : Nat]
TypeOK ==
    /\ db \in Seq(Message) /\ cache \in Seq(Message) /\ waiting \in Seq(Waiter)
    /\ cursor \in Nat /\ requests \in Nat /\ created \in 0..MaxMessages
    /\ phase \in {"idle", "preparing", "waiting", "writing", "written", "publishing"}
    /\ draft \in Draft
    /\ named \subseteq Message /\ history \subseteq SUBSET Message
    /\ faults \in FaultSets

\* Every message before the cursor is in the memory: whatever undo, cancellation
\* or a crash does between preparing a draft and its commit, consolidation never
\* skips a message that was not written.  Behaviours in which a desktop writer
\* fails are left out: see RepliesStay.
Remembered == "cut" \notin faults =>
                  /\ cursor <= Len(db)
                  /\ \A i \in 1..cursor : db[i] \in UNION history

\* What a commit writes into the memory is exactly the rows behind the cursor at
\* that moment, although they were read before the model call.
WritesCurrent ==
    [][history' # history /\ "cut" \notin faults
           => Window = ToSet(SubSeq(db, cursor + 1, Min({draft.upto, Len(db)})))]_vars

\* While no writer is cancelled and no write fails the cache holds the rows in
\* their order, then the messages whose writers wait for the lock: otherwise the
\* next save would delete rows, and every later draft would be stale.
CacheMirrors ==
    faults \cap {"cancel", "fail", "cut"} = {} =>
        /\ IsPrefix(db, cache)
        /\ \A i \in Len(db) + 1..Len(cache) :
              \E k \in DOMAIN waiting : cache[i] \in ToSet(waiting[k].msgs)

\* A session is a conversation log, whatever fails but the write of a desktop
\* writer.  Behaviours with that failure are mapped to the empty log: see RepliesStay.
Sound(value, none) == IF "cut" \in faults THEN none ELSE value
Log == INSTANCE ConversationLog WITH
           log <- Sound(db, <<>>), mark <- Sound(cursor, 0), kept <- Sound(UNION history, {})
ImplementsLog == Log!LogSpec

\* The write lock is given to every task that waits for it, and the maintenance
\* task comes to rest.
LockServed == <>[](phase = "idle" /\ waiting = <<>>)

\* app_service.py:138: "Other writers can append while persistence or runtime
\* effects await."  A stored reply is deleted by an undo, which finds it in the cache too,
\* and not because another writer has failed.
RepliesStay == [][\A m \in ToSet(db) \ ToSet(db') : m.kind = "reply" => m \in ToSet(cache)]_vars

\* plugin_undo/backend/plugin.py:49: "Undo the latest committed passive turn".
Turns(rows) == {<<u.n, r.n>> : u \in {m \in ToSet(rows) : m.kind = "user"},
                               r \in {m \in ToSet(rows) : m.kind = "reply"}}
Committed(rows) == {t \in Turns(rows) :
                      \E m \in ToSet(rows) : m.n = t[2] /\ m.turn = t[1]}
UndoesLatest == [][\A t \in Committed(db) \ Committed(db') :
                     \A s \in Committed(db') : s[2] < t[2]]_vars
=============================================================================
