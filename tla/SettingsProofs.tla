--------------------------- MODULE SettingsProofs ----------------------------
(* Proofs about a setting on its way from an input field to the disk, for  *)
(* every value of the constants: first the files of a commit               *)
(* (ConfigTransaction), then the editors, the bridge and the apply lock in *)
(* front of it (SettingsSave).                                             *)
EXTENDS ConfigTransaction, SettingsSave, SequenceTheorems, FiniteSetTheorems, TLAPS

-----------------------------------------------------------------------------
(* What each step of commit() and recover() knows of the journal and of    *)
(* the two files.  This is what makes Recoverable inductive: at the commit *)
(* point the files are the requested pair, and a journal is only removed   *)
(* when the files are the pair it would have restored.                     *)
StepKnows ==
  /\ pc = "prepare" => journal.state = "none"
  /\ pc \in {"drop_stale", "unlink"} => journal.state = "committed"
  /\ pc \in {"write_config", "write_roles", "mark_committed", "undo_config",
             "undo_roles", "undo_unlink", "recover_config", "recover_roles"}
       => journal.state = "prepared"
  /\ pc \in {"write_roles", "mark_committed"} => config = request.pair.config
  /\ pc = "mark_committed" => roles = request.pair.roles
  /\ pc \in {"undo_roles", "undo_unlink", "recover_roles"}
       => config = journal.before.config
  /\ pc = "undo_unlink" => roles = journal.before.roles
  /\ pc = "recover_unlink" =>
       \/ journal.state = "committed"
       \/ journal.state = "prepared" /\ Files = journal.before
  /\ pc \in {"down"} \cup Recovering => reply = "quiet"

CommitInv == FilesTypeOK /\ StepKnows /\ Recoverable

-----------------------------------------------------------------------------
(* Every variable keeps its type: no restore and no retry ever writes      *)
(* anything but a text or a manifest that was on disk or asked for.        *)
LEMMA FilesTypeInit == FilesInit => FilesTypeOK
<1> SUFFICES ASSUME FilesInit PROVE FilesTypeOK
  OBVIOUS
<1>1. Files \in Pair
  BY DEF FilesInit, Files, Pair
<1>2. journal \in [state: {"none", "prepared", "committed"}, before: Pair]
  BY <1>1 DEF FilesInit
<1>3. request \in [pair: Pair, withRoles: BOOLEAN]
  BY <1>1 DEF FilesInit
<1> QED
  BY <1>1, <1>2, <1>3 DEF FilesInit, FilesTypeOK

(* One step of the transaction keeps the types.                            *)
LEMMA FilesTypeStep == FilesTypeOK /\ [FilesNext]_filesVars => FilesTypeOK'
<1> SUFFICES ASSUME FilesTypeOK, [FilesNext]_filesVars PROVE FilesTypeOK'
  OBVIOUS
<1> USE DEF FilesTypeOK, Pair, Files, Recovering, Committing, files, history
<1>1. ASSUME NEW c \in Config, NEW p \in Roles \cup {NoPayload},
             CallCommit(c, p)
      PROVE FilesTypeOK'
  BY <1>1 DEF CallCommit, Goto
<1>2. CASE CheckJournal
  BY <1>2 DEF CheckJournal, Raise
<1>3. CASE DropStaleJournal
  BY <1>3 DEF DropStaleJournal, Raise
<1>4. CASE WritePrepared
  BY <1>4 DEF WritePrepared, Raise
<1>5. CASE WriteConfig
  BY <1>5 DEF WriteConfig, Goto
<1>6. CASE WriteRoles
  BY <1>6 DEF WriteRoles, Goto
<1>7. CASE MarkCommitted
  BY <1>7 DEF MarkCommitted, Goto
<1>8. CASE UnlinkCommitted
  BY <1>8 DEF UnlinkCommitted, Goto
<1>9. CASE UndoConfig
  BY <1>9 DEF UndoConfig, Raise
<1>10. CASE UndoRoles
  BY <1>10 DEF UndoRoles, Raise
<1>11. CASE UndoUnlink
  BY <1>11 DEF UndoUnlink, Raise
<1>12. ASSUME NEW r \in Roles, EditRoles(r)
       PROVE FilesTypeOK'
  BY <1>12 DEF EditRoles
<1>13. CASE Die
  BY <1>13 DEF Die
<1>14. CASE Start
  BY <1>14 DEF Start
<1>15. CASE RecoverConfig
  BY <1>15 DEF RecoverConfig, Goto
<1>16. CASE RecoverRoles
  BY <1>16 DEF RecoverRoles, Goto
<1>17. CASE RecoverUnlink
  BY <1>17 DEF RecoverUnlink, Goto
<1>18. CASE UNCHANGED filesVars
  BY <1>18 DEF filesVars
<1> QED
  BY <1>1, <1>2, <1>3, <1>4, <1>5, <1>6, <1>7, <1>8, <1>9, <1>10, <1>11,
     <1>12, <1>13, <1>14, <1>15, <1>16, <1>17, <1>18 DEF FilesNext

(* The type invariant of the transaction.                                  *)
THEOREM FilesTypeCorrect == FilesSpec => []FilesTypeOK
<1>1. FilesInit => FilesTypeOK
  BY FilesTypeInit
<1>2. FilesTypeOK /\ [FilesNext]_filesVars => FilesTypeOK'
  BY FilesTypeStep
<1> QED
  BY <1>1, <1>2, PTL DEF FilesSpec

-----------------------------------------------------------------------------
(* One step keeps what the steps know and what a restart would find.       *)
LEMMA RecoverableStep == CommitInv /\ [FilesNext]_filesVars => (StepKnows /\ Recoverable)'
<1> SUFFICES ASSUME CommitInv, [FilesNext]_filesVars PROVE (StepKnows /\ Recoverable)'
  OBVIOUS
<1> USE DEF CommitInv, FilesTypeOK, StepKnows, Recoverable, Recovered, Files, Pair,
            Recovering, Committing, files, history
<1>1. ASSUME NEW c \in Config, NEW p \in Roles \cup {NoPayload},
             CallCommit(c, p)
      PROVE (StepKnows /\ Recoverable)'
  BY <1>1 DEF CallCommit, Goto
<1>2. CASE CheckJournal
  BY <1>2 DEF CheckJournal, Raise
<1>3. CASE DropStaleJournal
  BY <1>3 DEF DropStaleJournal, Raise
<1>4. CASE WritePrepared
  BY <1>4 DEF WritePrepared, Raise
<1>5. CASE WriteConfig
  BY <1>5 DEF WriteConfig, Goto
<1>6. CASE WriteRoles
  BY <1>6 DEF WriteRoles, Goto
<1>7. CASE MarkCommitted
  BY <1>7 DEF MarkCommitted, Goto
<1>8. CASE UnlinkCommitted
  BY <1>8 DEF UnlinkCommitted, Goto
<1>9. CASE UndoConfig
  BY <1>9 DEF UndoConfig, Raise
<1>10. CASE UndoRoles
  BY <1>10 DEF UndoRoles, Raise
<1>11. CASE UndoUnlink
  BY <1>11 DEF UndoUnlink, Raise
<1>12. ASSUME NEW r \in Roles, EditRoles(r)
       PROVE (StepKnows /\ Recoverable)'
  BY <1>12 DEF EditRoles
<1>13. CASE Die
  BY <1>13 DEF Die
<1>14. CASE Start
  BY <1>14 DEF Start
<1>15. CASE RecoverConfig
  BY <1>15 DEF RecoverConfig, Goto
<1>16. CASE RecoverRoles
  BY <1>16 DEF RecoverRoles, Goto
<1>17. CASE RecoverUnlink
  BY <1>17 DEF RecoverUnlink, Goto
<1>18. CASE UNCHANGED filesVars
  BY <1>18 DEF filesVars
<1> QED
  BY <1>1, <1>2, <1>3, <1>4, <1>5, <1>6, <1>7, <1>8, <1>9, <1>10, <1>11,
     <1>12, <1>13, <1>14, <1>15, <1>16, <1>17, <1>18 DEF FilesNext

(* The strengthened invariant holds throughout.                            *)
LEMMA CommitInvHolds == FilesSpec => []CommitInv
<1>1. FilesInit => CommitInv
  <2>1. FilesInit => FilesTypeOK
    BY FilesTypeInit
  <2>2. FilesInit => StepKnows /\ Recoverable
    BY DEF FilesInit, StepKnows, Recoverable, Recovered, Files, Recovering
  <2> QED
    BY <2>1, <2>2 DEF CommitInv
<1>2. CommitInv /\ [FilesNext]_filesVars => CommitInv'
  BY FilesTypeStep, RecoverableStep DEF CommitInv
<1> QED
  BY <1>1, <1>2, PTL DEF FilesSpec

(* Whatever fails and wherever the process dies, a restart finds the last  *)
(* accepted configuration and, unless a role edit was saved beside an      *)
(* unfinished journal, the last accepted roles.                            *)
THEOREM RecoverableCorrect == FilesSpec => []Recoverable
<1>1. CommitInv => Recoverable
  BY DEF CommitInv
<1> QED
  BY <1>1, CommitInvHolds, PTL

-----------------------------------------------------------------------------
(* A step of the transaction is a step of AtomicSettings or leaves it      *)
(* alone.                                                                  *)
LEMMA AtomicStep == CommitInv /\ [FilesNext]_filesVars => [Atomic!Next]_(Atomic!vars)
<1> SUFFICES ASSUME CommitInv, [FilesNext]_filesVars PROVE [Atomic!Next]_(Atomic!vars)
  OBVIOUS
<1> USE DEF CommitInv, FilesTypeOK, StepKnows, Recovered, Files, Pair, Recovering,
            Committing, files, history, Atomic!Next, Atomic!vars,
            Atomic!Pair, Atomic!Resting, AtomicStatus
<1>1. ASSUME NEW c \in Config, NEW p \in Roles \cup {NoPayload},
             CallCommit(c, p)
      PROVE Atomic!Submit
  BY <1>1 DEF CallCommit, Goto, Atomic!Submit
<1>2. CASE CheckJournal
  BY <1>2 DEF CheckJournal, Raise, Atomic!Fail
<1>3. CASE DropStaleJournal
  BY <1>3 DEF DropStaleJournal, Raise, Atomic!Fail
<1>4. CASE WritePrepared
  BY <1>4 DEF WritePrepared, Raise, Atomic!Fail
<1>5. CASE WriteConfig
  BY <1>5 DEF WriteConfig, Goto
<1>6. CASE WriteRoles
  BY <1>6 DEF WriteRoles, Goto
<1>7. CASE MarkCommitted
  BY <1>7 DEF MarkCommitted, Goto, Atomic!Apply
<1>8. CASE UnlinkCommitted
  BY <1>8 DEF UnlinkCommitted, Goto, Atomic!Succeed
<1>9. CASE UndoConfig
  BY <1>9 DEF UndoConfig, Raise, Atomic!Fail
<1>10. CASE UndoRoles
  BY <1>10 DEF UndoRoles, Raise, Atomic!Fail
<1>11. CASE UndoUnlink
  BY <1>11 DEF UndoUnlink, Raise, Atomic!Fail
<1>12. ASSUME NEW r \in Roles, EditRoles(r)
       PROVE [Atomic!Next]_(Atomic!vars)
  BY <1>12 DEF EditRoles, Atomic!EditRoles
<1>13. CASE Die
  BY <1>13 DEF Die, Atomic!Crash
<1>14. CASE Start
  BY <1>14 DEF Start
<1>15. CASE RecoverConfig
  BY <1>15 DEF RecoverConfig, Goto
<1>16. CASE RecoverRoles
  BY <1>16 DEF RecoverRoles, Goto
<1>17. CASE RecoverUnlink
  BY <1>17 DEF RecoverUnlink, Goto
<1>18. CASE UNCHANGED filesVars
  BY <1>18 DEF filesVars
<1> QED
  BY <1>1, <1>2, <1>3, <1>4, <1>5, <1>6, <1>7, <1>8, <1>9, <1>10, <1>11,
     <1>12, <1>13, <1>14, <1>15, <1>16, <1>17, <1>18 DEF FilesNext

(* The journalled transaction implements the one-step commit: for every    *)
(* caller the two files change together or not at all.                     *)
THEOREM ImplementsAtomicSettings == FilesSpec => AtomicSpec
<1>1. FilesInit => Atomic!Init
  <2> SUFFICES ASSUME FilesInit PROVE Atomic!Init
    OBVIOUS
  <2>1. Recovered = Files
    BY DEF FilesInit, Recovered
  <2>2. Recovered \in Atomic!Pair
    BY <2>1 DEF FilesInit, Files, Atomic!Pair
  <2>3. AtomicStatus = "quiet"
    BY DEF FilesInit, AtomicStatus, Committing
  <2> QED
    BY <2>1, <2>2, <2>3 DEF FilesInit, Atomic!Init
<1>2. CommitInv /\ [FilesNext]_filesVars => [Atomic!Next]_(Atomic!vars)
  BY AtomicStep
<1> QED
  BY <1>1, <1>2, CommitInvHolds, PTL DEF FilesSpec, AtomicSpec, Atomic!Spec

-----------------------------------------------------------------------------
(* The editors, the bridge and the apply lock.                             *)

(* What a behaviour of the constants may do: a crash beside another writer *)
(* of the form's tables makes a generation of the old process match again. *)
Separate ==
  \A D \in Disturbances : "crash" \in D =>
    "onboard" \notin D /\ \A e, f \in Forms : e = f

Writers == Editors \cup {"toggle", "onboarding"}
Queue == [draft: Shown, snap: Shown, expect: Nat \ {0}, dirty: BOOLEAN, running: BOOLEAN,
          failed: BOOLEAN, paused: BOOLEAN, queued: Optional, attempted: Optional, op: 0..MaxDrains]
Attempt == [at: {"none", "sent", "done", "read"},
            out: {"ok", "failed", "invalid", "conflict", "exit"}, val: Shown, gen: Nat]
Reading == {Unread} \cup [val: Shown, gen: Nat \ {0}]
Requests == [who: Writers, op: 1..MaxDrains, val: Shown, expect: Nat, live: BOOLEAN]
Memory == [op: Writers \X (1..MaxDrains), gen: Nat \ {0}]

Types ==
  /\ ed \in [Editors -> Queue] /\ call \in [Editors -> Attempt] /\ load \in [Editors -> Reading]
  /\ requests \in Seq(Requests) /\ candidate \in {NoText} \cup [Parts -> Shown]
  /\ text \in [Parts -> Shown] /\ generation \in Nat \ {0}
  /\ memo \in Seq(Memory) /\ done \subseteq Writers \X (1..MaxDrains) /\ Len(memo) <= MemoLimit
  /\ onboarding \in Reading
  /\ spent \in [edits: Nat, loads: Nat]
  /\ left \subseteq {"crash", "timeout", "fail", "toggle", "onboard"}

(* A queue runs exactly while its attempt is in flight; what it holds back *)
(* is newer than its attempt and waits for that attempt or for the user.   *)
Discipline(e) ==
  /\ ed[e].running <=> call[e].at # "none"
  /\ ed[e].queued.set => (ed[e].running \/ ed[e].paused) /\ ed[e].queued # ed[e].attempted
  /\ ed[e].paused => ed[e].running \/ ed[e].failed
  /\ call[e].at = "read" => call[e].out = "ok" /\ load[e] = Unread
  /\ call[e].at \in {"done", "read"} /\ call[e].out = "ok" => call[e].gen # 0
  /\ ed[e].running /\ ed[e].attempted.set => ed[e].attempted.val = call[e].val
  /\ ed[e].attempted.set => ed[e].op # 0
Disciplined == \A e \in Editors : Discipline(e)

(* Of an editor at most one request has somebody who waits for it.         *)
Single ==
  /\ \A i \in DOMAIN requests : requests[i].live =>
       requests[i].who \in Editors /\ call[requests[i].who].at = "sent"
  /\ \A i, j \in DOMAIN requests :
       requests[i].live /\ requests[j].live /\ requests[i].who = requests[j].who => i = j

(* What is prepared is what the head of the queue makes of the text now.   *)
Prepared ==
  candidate # NoText =>
    requests # <<>> /\ Known(Head(requests)) = {} /\ candidate = Derived(Head(requests))

(* The form e is the only writer of its tables.                            *)
Alone(e) ==
  /\ \A f \in Forms : f = e
  /\ "onboard" \notin left /\ onboarding = Unread
  /\ \A i \in DOMAIN requests : requests[i].who # "onboarding"

(* The form's tables, read at generation g, were v; if nobody has written  *)
(* them since, they still are.                                             *)
Current(e, g, v) ==
  \/ Alone(e) /\ v = text["form"]
  \/ "crash" \notin left /\ g <= generation /\ (g = generation => v = text["form"])

FormKnows(e) ==
  /\ "crash" \in left => Alone(e)
  /\ load[e] # Unread /\ ~ ed[e].running => Current(e, load[e].gen, load[e].val)
  /\ ~ ed[e].running /\ ~ ed[e].failed =>
       /\ Current(e, ed[e].expect, ed[e].snap)
       /\ ed[e].attempted.set => Current(e, ed[e].expect, ed[e].attempted.val)
       /\ ed[e].dirty \/ ed[e].draft = ed[e].snap \/ ed[e].attempted = Some(ed[e].draft)
  /\ call[e].at \in {"done", "read"} /\ call[e].out = "ok" => Current(e, call[e].gen, call[e].val)
  /\ \A i \in DOMAIN requests : requests[i].who = e =>
       requests[i].live /\ requests[i].op = ed[e].op /\ requests[i].val = call[e].val
  /\ \A i \in DOMAIN memo : memo[i].op[1] = e =>
       /\ memo[i].op[2] <= ed[e].op
       /\ memo[i].op[2] = ed[e].op =>
            /\ ed[e].running => Current(e, memo[i].gen, call[e].val)
            /\ ed[e].attempted.set => Current(e, memo[i].gen, ed[e].attempted.val)

FormsKnow == \A e \in Forms : FormKnows(e)

Remembered == done \subseteq {memo[i].op : i \in DOMAIN memo}
Unique == \A i, j \in DOMAIN memo : memo[i].op = memo[j].op => i = j

-----------------------------------------------------------------------------
(* Sequences.                                                              *)

\* A new last element.
LEMMA Appended ==
  ASSUME NEW S, NEW s \in Seq(S), NEW x \in S, NEW t, t = Append(s, x)
  PROVE  /\ t \in Seq(S) /\ Len(s) \in Nat /\ Len(t) = Len(s) + 1
         /\ DOMAIN s = 1..Len(s) /\ DOMAIN t = 1..Len(s) + 1 /\ t # <<>>
         /\ \A i \in 1..Len(s) : t[i] = s[i]
         /\ t[Len(s) + 1] = x
         /\ s # <<>> => Head(t) = Head(s)
<1>1. /\ Len(s) \in Nat /\ DOMAIN s = 1..Len(s) BY LenProperties
<1>2. /\ t \in Seq(S) /\ t # <<>> /\ Len(t) = Len(s) + 1 /\ t[Len(s) + 1] = x
      /\ \A i \in 1..Len(s) : t[i] = s[i]
  BY AppendProperties
<1>3. DOMAIN t = 1..Len(s) + 1 BY <1>2, LenProperties
<1>4. ASSUME s # <<>> PROVE Head(t) = Head(s)
  <2>1. Head(s) = s[1] /\ Head(t) = t[1] BY <1>2, <1>4, HeadTailProperties
  <2>2. 1 \in 1..Len(s) BY <1>1, <1>4, EmptySeq
  <2> QED BY <1>2, <2>1, <2>2
<1> QED BY <1>1, <1>2, <1>3, <1>4

\* Without its first element.
LEMMA Tailed ==
  ASSUME NEW S, NEW s \in Seq(S), s # <<>>, NEW t, t = Tail(s)
  PROVE  /\ t \in Seq(S) /\ Len(s) \in Nat \ {0} /\ Len(t) = Len(s) - 1
         /\ DOMAIN s = 1..Len(s) /\ DOMAIN t = 1..Len(s) - 1
         /\ \A i \in 1..Len(s) - 1 : t[i] = s[i + 1]
         /\ 1 \in DOMAIN s /\ Head(s) = s[1] /\ Head(s) \in S
<1>1. Len(s) \in Nat \ {0} /\ DOMAIN s = 1..Len(s) BY LenProperties, EmptySeq
<1>2. /\ Head(s) \in S /\ t \in Seq(S) /\ Len(t) = Len(s) - 1
      /\ \A i \in 1..Len(t) : t[i] = s[i + 1]
  BY HeadTailProperties
<1>3. Head(s) = s[1] BY HeadTailProperties
<1>4. DOMAIN t = 1..Len(s) - 1 BY <1>2, LenProperties
<1> QED BY <1>1, <1>2, <1>3, <1>4

\* The empty sequence has no index.
LEMMA EmptyDomain == DOMAIN <<>> = {}
<1>1. <<>> \in Seq({}) /\ Len(<<>>) = 0 BY EmptySeq
<1> QED BY <1>1, LenProperties


-----------------------------------------------------------------------------
(* Types.                                                                  *)

\* The constants and the empty records belong to the types they are used at.
LEMMA Words ==
  /\ "form" \in Parts /\ "enabled" \in Parts /\ Added \in Shown /\ 0 \in Shown
  /\ None \in Optional /\ \A v \in Shown : Some(v) \in Optional
  /\ NoCall \in Attempt /\ Unread \in Reading
  /\ \A v \in Shown : Sent(v) \in Attempt
  /\ \A w \in Writers : Part(w) \in Parts
  /\ \A e \in Forms : Part(e) = "form"
  /\ Editors \subseteq Writers
BY SettingsAssumption DEF Parts, Shown, Optional, None, Some, NoCall, Attempt, Unread, Reading, Sent,
  Writers, Part, Editors

\* The types hold at the start.
LEMMA TypesInit == Init => Types
<1> SUFFICES ASSUME Init PROVE Types
  OBVIOUS
<1>1. Fresh(0, 1) \in Queue BY Words, SettingsAssumption DEF Fresh, Queue
<1>2. <<>> \in Seq(Requests) /\ <<>> \in Seq(Memory) /\ Len(<<>>) = 0 BY EmptySeq
<1> QED BY <1>1, <1>2, Words, SettingsAssumption DEF Init, Types, NoText

\* What handing a record to the queue makes of the editor, its attempt and the requests.
LEMMA ResumeCases ==
  ASSUME Types, NEW e \in Editors, NEW r \in Queue, Resume(e, r)
  PROVE  /\ \A f \in Editors : f # e => ed'[f] = ed[f] /\ call'[f] = call[f]
         /\ ed' \in [Editors -> Queue] /\ call' \in [Editors -> Attempt] /\ requests' \in Seq(Requests)
         /\ \/ /\ r.queued.set /\ ~ r.running /\ ~ r.paused
               /\ MayDrain(e) /\ ed'[e] = Drained(r) /\ call'[e] = Sent(r.queued.val)
               /\ Request(e, Drained(r)) \in Requests
               /\ requests' = Append(requests, Request(e, Drained(r)))
            \/ /\ ~ (r.queued.set /\ ~ r.running /\ ~ r.paused)
               /\ ed'[e] = r /\ call'[e] = IF r.running THEN call[e] ELSE NoCall
               /\ UNCHANGED requests
<1>1. ed \in [Editors -> Queue] /\ call \in [Editors -> Attempt] /\ requests \in Seq(Requests)
  BY DEF Types
<1>2. CASE r.queued.set /\ ~ r.running /\ ~ r.paused
  <2>1. /\ MayDrain(e) /\ ed' = [ed EXCEPT ![e] = Drained(r)]
        /\ call' = [call EXCEPT ![e] = Sent(r.queued.val)]
        /\ requests' = Append(requests, Request(e, Drained(r)))
    BY <1>2 DEF Resume
  <2>2. (r.op % MaxDrains) + 1 \in 1..MaxDrains
    <3>1. r.op \in Nat /\ MaxDrains \in Nat \ {0} BY SettingsAssumption DEF Queue
    <3> QED BY <3>1
  <2>3. Drained(r) \in Queue /\ Drained(r).op \in 1..MaxDrains /\ Drained(r).attempted = r.queued
    <3> DEFINE n == (r.op % MaxDrains) + 1
    <3>1. n \in 1..MaxDrains /\ n \in 0..MaxDrains BY <2>2, SettingsAssumption
    <3>2. Drained(r) = [r EXCEPT !.queued = None, !.attempted = r.queued, !.op = n,
                                 !.running = TRUE, !.failed = FALSE]
      BY Zenon DEF Drained
    <3> HIDE DEF n
    <3> QED BY <3>1, <3>2, Words DEF Queue
  <2>4. r.queued \in Optional BY DEF Queue
  <2>5. Request(e, Drained(r)) \in Requests
    <3>1. Drained(r).expect \in Nat BY <2>3 DEF Queue
    <3>2. (IF e \in Forms THEN Drained(r).expect ELSE 0) \in Nat BY <3>1
    <3>3. Drained(r).attempted.val \in Shown BY <2>3, <2>4 DEF Optional
    <3> QED BY <2>3, <3>2, <3>3, Words DEF Request, Requests
  <2>6. Sent(r.queued.val) \in Attempt BY <2>4, Words DEF Optional
  <2>7. requests' \in Seq(Requests) BY <1>1, <2>1, <2>5, Appended
  <2> QED BY <1>1, <1>2, <2>1, <2>3, <2>5, <2>6, <2>7
<1>3. CASE ~ (r.queued.set /\ ~ r.running /\ ~ r.paused)
  <2>1. /\ ed' = [ed EXCEPT ![e] = r] /\ UNCHANGED requests
        /\ call' = [call EXCEPT ![e] = IF r.running THEN @ ELSE NoCall]
    BY <1>3, Zenon DEF Resume
  <2> QED BY <1>1, <1>3, <2>1, Words
<1> QED BY <1>2, <1>3

\* The records the editors hand to their queues.
LEMMA Records ==
  ASSUME Types, NEW e \in Editors
  PROVE  /\ ed[e] \in Queue /\ call[e] \in Attempt /\ load[e] \in Reading
         /\ Enqueued([ed[e] EXCEPT !.dirty = FALSE]) \in Queue
         /\ \A p \in BOOLEAN : [ed[e] EXCEPT !.running = FALSE, !.failed = TRUE, !.paused = p] \in Queue
         /\ [Applied(e, ed[e]) EXCEPT !.running = FALSE, !.paused = FALSE, !.dirty = TRUE] \in Queue
         /\ call[e].gen # 0 =>
              [ReadBack(e, ed[e]) EXCEPT !.running = FALSE, !.paused = FALSE, !.dirty = TRUE] \in Queue
<1>1. ed[e] \in Queue /\ call[e] \in Attempt /\ load[e] \in Reading BY DEF Types
<1>2. text["form"] \in Shown BY Words DEF Types
<1>3. Enqueued([ed[e] EXCEPT !.dirty = FALSE]) \in Queue
  <2> DEFINE r == [ed[e] EXCEPT !.dirty = FALSE]
  <2>1. r \in Queue BY <1>1 DEF Queue
  <2> HIDE DEF r
  <2>2. Some(r.draft) \in Optional /\ None \in Optional BY <2>1, Words DEF Queue
  <2>3. Enqueued(r) \in {[r EXCEPT !.queued = None], [r EXCEPT !.queued = Some(r.draft)]}
    BY Zenon DEF Enqueued
  <2>4. Enqueued(r) \in Queue BY <2>1, <2>2, <2>3 DEF Queue
  <2> QED BY <2>4 DEF r
<1>4. ASSUME NEW p \in BOOLEAN
      PROVE [ed[e] EXCEPT !.running = FALSE, !.failed = TRUE, !.paused = p] \in Queue
  BY <1>1 DEF Queue
<1>5. [Applied(e, ed[e]) EXCEPT !.running = FALSE, !.paused = FALSE, !.dirty = TRUE] \in Queue
  BY <1>1 DEF Queue, Attempt, Applied
<1>6. ASSUME call[e].gen # 0
      PROVE [ReadBack(e, ed[e]) EXCEPT !.running = FALSE, !.paused = FALSE, !.dirty = TRUE] \in Queue
  <2>1. ReadBack(e, ed[e]) \in Queue BY <1>1, <1>2, <1>6 DEF Queue, Attempt, ReadBack
  <2> QED BY <2>1 DEF Queue
<1> QED BY <1>1, <1>3, <1>4, <1>5, <1>6

\* The answer to the head of the queue.
LEMMA AnswerTypes ==
  ASSUME Types, requests # <<>>, NEW out \in {"ok", "failed", "invalid", "conflict", "exit"},
         NEW g \in Nat, Answer(out, g), Single
  PROVE  /\ requests' = Tail(requests) /\ requests' \in Seq(Requests) /\ Head(requests) \in Requests
         /\ call' \in [Editors -> Attempt]
         /\ Head(requests).live =>
              /\ Head(requests).who \in Editors /\ call[Head(requests).who].at = "sent"
              /\ call'[Head(requests).who] =
                   [call[Head(requests).who] EXCEPT !.at = "done", !.out = out, !.gen = g]
         /\ \A f \in Editors : ~ (Head(requests).live /\ f = Head(requests).who) => call'[f] = call[f]
<1> DEFINE r == Head(requests)
<1>1. requests \in Seq(Requests) /\ call \in [Editors -> Attempt] BY DEF Types
<1>2. requests' = Tail(requests) /\ requests' \in Seq(Requests) /\ r \in Requests
  BY <1>1, Tailed DEF Answer
<1>3. r.live => r.who \in Editors /\ call[r.who].at = "sent"
  <2>1. 1 \in DOMAIN requests /\ r = requests[1] BY <1>1, Tailed
  <2> QED BY <2>1 DEF Single
<1>4. call' = IF r.live THEN [call EXCEPT ![r.who] = [@ EXCEPT !.at = "done", !.out = out, !.gen = g]]
              ELSE call
  BY Zenon DEF Answer
<1> HIDE DEF r
<1>5. CASE r.live
  <2> DEFINE c == [call[r.who] EXCEPT !.at = "done", !.out = out, !.gen = g]
  <2>1. c \in Attempt BY <1>1, <1>3, <1>5 DEF Attempt
  <2>2. call' = [call EXCEPT ![r.who] = c] BY <1>4, <1>5
  <2> HIDE DEF c
  <2>3. call' \in [Editors -> Attempt] /\ call'[r.who] = c /\ \A f \in Editors : f # r.who => call'[f] = call[f]
    BY <1>1, <1>3, <1>5, <2>1, <2>2
  <2>4. c = [call[r.who] EXCEPT !.at = "done", !.out = out, !.gen = g] BY DEF c
  <2> QED BY <1>2, <1>3, <1>5, <2>3, <2>4 DEF r
<1>6. CASE ~ r.live
  BY <1>1, <1>2, <1>4, <1>6 DEF r
<1> QED BY <1>5, <1>6

\* What is remembered of a new operation.
LEMMA Remembers ==
  ASSUME Types, NEW r \in Requests, NEW g \in Nat \ {0}, Known(r) = {}, NEW m, m = Remember(r, g)
  PROVE  /\ m \in Seq(Memory) /\ Len(m) <= MemoLimit
         /\ Operation(r) \in Writers \X (1..MaxDrains)
         /\ LET all == Append(memo, [op |-> Operation(r), gen |-> g]) IN
              /\ all \in Seq(Memory) /\ DOMAIN all = 1..Len(memo) + 1 /\ DOMAIN memo = 1..Len(memo)
              /\ Len(memo) \in Nat
              /\ \A i \in 1..Len(memo) : all[i] = memo[i]
              /\ all[Len(memo) + 1] = [op |-> Operation(r), gen |-> g]
              /\ m = IF Len(memo) + 1 > MemoLimit THEN Tail(all) ELSE all
<1> DEFINE entry == [op |-> Operation(r), gen |-> g]
           all == Append(memo, entry)
<1>1. Operation(r) \in Writers \X (1..MaxDrains) BY DEF Operation, Requests
<1>2. entry \in Memory BY <1>1 DEF Memory
<1>3. memo \in Seq(Memory) /\ Len(memo) <= MemoLimit BY DEF Types
<1>4. m = IF Len(all) > MemoLimit THEN Tail(all) ELSE all BY Zenon DEF Remember
<1> HIDE DEF entry
<1>5. /\ all \in Seq(Memory) /\ Len(memo) \in Nat /\ Len(all) = Len(memo) + 1
      /\ DOMAIN memo = 1..Len(memo) /\ DOMAIN all = 1..Len(memo) + 1 /\ all # <<>>
      /\ \A i \in 1..Len(memo) : all[i] = memo[i]
      /\ all[Len(memo) + 1] = entry
  BY <1>2, <1>3, Appended
<1> HIDE DEF all
<1>6. Tail(all) \in Seq(Memory) /\ Len(Tail(all)) = Len(memo) BY <1>5, Tailed
<1>7. m \in Seq(Memory) /\ Len(m) <= MemoLimit
  <2>1. MemoLimit \in Nat BY SettingsAssumption
  <2> QED BY <1>3, <1>4, <1>5, <1>6, <2>1
<1>8. m = IF Len(memo) + 1 > MemoLimit THEN Tail(all) ELSE all BY <1>4, <1>5
<1> QED BY <1>1, <1>5, <1>7, <1>8 DEF all, entry

\* The two requests that no editor waits for.
LEMMA OneShots ==
  /\ OneShot("toggle", Added, 0) \in Requests
  /\ \A g \in Nat : OneShot("onboarding", Added, g) \in Requests
BY Words, SettingsAssumption DEF OneShot, Requests, Writers

\* A timeout only takes the requests of its editor away from those who wait.
LEMMA TimedOut ==
  ASSUME Types, NEW e \in Editors, Timeout(e)
  PROVE  /\ requests' \in Seq(Requests) /\ DOMAIN requests' = DOMAIN requests
         /\ \A i \in DOMAIN requests :
              /\ requests'[i].who = requests[i].who /\ requests'[i].op = requests[i].op
              /\ requests'[i].val = requests[i].val /\ requests'[i].expect = requests[i].expect
              /\ requests'[i].live <=> requests[i].live /\ requests[i].who # e
         /\ requests # <<>> => requests' # <<>> /\ 1 \in DOMAIN requests
              /\ Head(requests) = requests[1] /\ Head(requests') = requests'[1]
<1>0. requests' = [i \in DOMAIN requests |-> [requests[i] EXCEPT !.live = @ /\ requests[i].who # e]]
  BY Zenon DEF Timeout
<1>1. requests \in Seq(Requests) BY DEF Types
<1>2. Len(requests) \in Nat /\ DOMAIN requests = 1..Len(requests) BY <1>1, LenProperties
<1>3. \A i \in DOMAIN requests : requests[i] \in Requests BY <1>1, <1>2, ElementOfSeq
<1>4. ASSUME NEW i \in DOMAIN requests
      PROVE  /\ [requests[i] EXCEPT !.live = @ /\ requests[i].who # e] \in Requests
             /\ requests'[i] = [requests[i] EXCEPT !.live = @ /\ requests[i].who # e]
  BY <1>0, <1>3 DEF Requests
<1>5. requests' \in [1..Len(requests) -> Requests] BY <1>0, <1>2, <1>4
<1>6. requests' \in Seq(Requests) BY <1>2, <1>5, SeqDef
<1>7. DOMAIN requests' = DOMAIN requests BY <1>0
<1>8. ASSUME requests # <<>>
      PROVE  /\ requests' # <<>> /\ 1 \in DOMAIN requests
             /\ Head(requests) = requests[1] /\ Head(requests') = requests'[1]
  <2>1. 1 \in DOMAIN requests /\ Head(requests) = requests[1] BY <1>1, <1>8, Tailed
  <2>2. requests' # <<>>
    <3>1. Len(requests') \in Nat /\ DOMAIN requests' = 1..Len(requests') BY <1>6, LenProperties
    <3>2. Len(<<>>) = 0 BY EmptySeq
    <3> QED BY <1>7, <2>1, <3>1, <3>2
  <2>3. Head(requests') = requests'[1] BY <1>6, <2>2, Tailed
  <2> QED BY <2>1, <2>2, <2>3
<1>9. ASSUME NEW i \in DOMAIN requests
      PROVE  /\ requests'[i].who = requests[i].who /\ requests'[i].op = requests[i].op
             /\ requests'[i].val = requests[i].val /\ requests'[i].expect = requests[i].expect
             /\ requests'[i].live <=> requests[i].live /\ requests[i].who # e
  BY <1>3, <1>4 DEF Requests
<1> QED BY <1>6, <1>7, <1>8, <1>9

\* The derived text differs from the committed one in its writer's part alone.
LEMMA DerivedText ==
  ASSUME Types, NEW r \in Requests
  PROVE  /\ Derived(r) \in [Parts -> Shown] /\ Derived(r) # NoText
         /\ Part(r.who) \in Parts /\ Derived(r)[Part(r.who)] = r.val
         /\ \A p \in Parts : p # Part(r.who) => Derived(r)[p] = text[p]
<1>1. text \in [Parts -> Shown] /\ r.val \in Shown /\ Part(r.who) \in Parts
  BY Words DEF Types, Requests
<1>2. Derived(r) \in [Parts -> Shown] BY <1>1 DEF Derived
<1>3. Derived(r) # NoText
  <2>1. DOMAIN Derived(r) # {} BY <1>2, Words
  <2> QED BY <2>1, EmptyDomain DEF NoText
<1> QED BY <1>1, <1>2, <1>3 DEF Derived

\* How the head of the queue may be declined.
LEMMA Declines ==
  ASSUME Types, Decline
  PROVE  /\ requests # <<>>
         /\ \/ \E i \in Known(Head(requests)) :
                 i \in DOMAIN memo /\ memo[i].op = Operation(Head(requests)) /\ memo[i].gen \in Nat \ {0}
                   /\ Answer("ok", memo[i].gen)
            \/ Answer("invalid", 0) \/ Answer("conflict", 0)
<1>1. \A i \in DOMAIN memo : memo[i].gen \in Nat \ {0}
  <2>1. memo \in Seq(Memory) BY DEF Types
  <2>2. \A i \in DOMAIN memo : memo[i] \in Memory BY <2>1, LenProperties, ElementOfSeq
  <2> QED BY <2>2 DEF Memory
<1>2. \A i \in Known(Head(requests)) : i \in DOMAIN memo /\ memo[i].op = Operation(Head(requests))
  BY DEF Known
<1>3. requests # <<>>
      /\ \/ \E i \in Known(Head(requests)) : Answer("ok", memo[i].gen)
         \/ Answer("invalid", 0) \/ Answer("conflict", 0)
  BY Zenon DEF Decline
<1> QED BY <1>1, <1>2, <1>3

\* What a commit does.
Committed ==
  /\ requests # <<>> /\ requests' = Tail(requests) /\ requests' \in Seq(Requests)
  /\ Head(requests) \in Requests /\ Known(Head(requests)) = {}
  /\ call' \in [Editors -> Attempt]
  /\ text' = Derived(Head(requests)) /\ text' \in [Parts -> Shown]
  /\ generation' \in Nat \ {0}
  /\ generation' = IF text' = text \/ Forms = {} THEN generation ELSE generation + 1
  /\ memo' = Remember(Head(requests), generation') /\ memo' \in Seq(Memory) /\ Len(memo') <= MemoLimit
  /\ Operation(Head(requests)) \in Writers \X (1..MaxDrains)
  /\ done' = done \cup {Operation(Head(requests))}
  /\ Answer("ok", generation')
  /\ candidate' = NoText

\* A commit finds prepared what the head of the queue makes of the text now.
LEMMA Commits == ASSUME Types, Single, Prepared, Commit PROVE Committed
<1>1. /\ candidate # NoText /\ text' = candidate /\ generation' = Bumped
      /\ memo' = Remember(Head(requests), Bumped)
      /\ done' = done \cup {Operation(Head(requests))} /\ Answer("ok", Bumped)
      /\ candidate' = NoText
  BY Zenon DEF Commit
<1>2. requests # <<>> /\ Known(Head(requests)) = {} /\ candidate = Derived(Head(requests))
  BY <1>1 DEF Prepared
<1>3. Bumped \in Nat \ {0} /\ Bumped = IF text' = text \/ Forms = {} THEN generation ELSE generation + 1
  BY <1>1 DEF Bumped, Types
<1>4. Head(requests) \in Requests BY <1>2, Tailed DEF Types
<1>5. /\ requests' = Tail(requests) /\ requests' \in Seq(Requests) /\ call' \in [Editors -> Attempt]
  BY <1>1, <1>2, <1>3, AnswerTypes
<1>6. memo' \in Seq(Memory) /\ Len(memo') <= MemoLimit
      /\ Operation(Head(requests)) \in Writers \X (1..MaxDrains)
  BY <1>1, <1>2, <1>3, <1>4, Remembers
<1>7. text' \in [Parts -> Shown] BY <1>1, <1>2, <1>4, DerivedText
<1> QED BY <1>1, <1>2, <1>3, <1>4, <1>5, <1>6, <1>7 DEF Committed

\* A failed attempt asked for once more.
LEMMA RetriedTypes ==
  ASSUME Types, Disciplined, NEW e \in Editors, Retry(e)
  PROVE  Request(e, [ed[e] EXCEPT !.failed = FALSE, !.running = TRUE]) \in Requests
<1> DEFINE r == [ed[e] EXCEPT !.failed = FALSE, !.running = TRUE]
<1>1. ed[e] \in Queue /\ Discipline(e) BY DEF Types, Disciplined
<1>2. r \in Queue /\ r.attempted \in Optional BY <1>1 DEF Queue
<1>3. r.op \in 1..MaxDrains
  <2>1. ed[e].op # 0 /\ ed[e].op \in 0..MaxDrains BY <1>1 DEF Retry, Queue, Discipline
  <2>2. r.op = ed[e].op BY <1>1 DEF Queue
  <2> QED BY <2>1, <2>2, SettingsAssumption
<1>4. r.expect \in Nat /\ r.attempted.val \in Shown BY <1>2 DEF Queue, Optional
<1>5. (IF e \in Forms THEN r.expect ELSE 0) \in Nat BY <1>4
<1> HIDE DEF r
<1>6. Request(e, r) \in Requests BY <1>3, <1>4, <1>5, Words DEF Request, Requests
<1> QED BY <1>6 DEF r

\* Every step keeps the types.
LEMMA TypesStep == Types /\ Disciplined /\ Single /\ Prepared /\ [Next]_vars => Types'
<1> SUFFICES ASSUME Types, Disciplined, Single, Prepared, [Next]_vars PROVE Types'
  OBVIOUS
<1>0. /\ ed \in [Editors -> Queue] /\ call \in [Editors -> Attempt] /\ load \in [Editors -> Reading]
      /\ requests \in Seq(Requests) /\ text \in [Parts -> Shown]
  BY DEF Types
<1>1. ASSUME NEW e \in Editors, Edit(e) PROVE Types'
  <2>1. PICK v \in Values : ed' = [ed EXCEPT ![e].draft = v, ![e].dirty = TRUE] BY <1>1, Zenon DEF Edit
  <2>2. ed' = [ed EXCEPT ![e] = [@ EXCEPT !.draft = v, !.dirty = TRUE]] BY <2>1, <1>0 DEF Queue
  <2>3. v \in Shown BY DEF Shown
  <2>4. [ed[e] EXCEPT !.draft = v, !.dirty = TRUE] \in Queue BY <1>0, <2>3 DEF Queue
  <2>5. ed' \in [Editors -> Queue] BY <1>0, <2>2, <2>4
  <2>6. spent' \in [edits: Nat, loads: Nat] BY <1>1 DEF Edit, Types
  <2> QED BY <1>1, <2>5, <2>6 DEF Edit, Types, bridge
<1>2. ASSUME NEW e \in Editors, Effect(e) PROVE Types'
  BY <1>2, Records, ResumeCases DEF Effect, Types, others
<1>3. ASSUME NEW e \in Editors, AttemptFails(e) PROVE Types'
  <2> DEFINE p == ~ResumesAutomatically(e, call[e].out)
             r == [ed[e] EXCEPT !.running = FALSE, !.failed = TRUE, !.paused = p]
  <2>1. r \in Queue
    <3>1. p \in BOOLEAN OBVIOUS
    <3> QED BY <3>1, Records
  <2>2. Resume(e, r) /\ UNCHANGED <<load, candidate, text, generation, memo, done, others>>
    BY <1>3, Zenon DEF AttemptFails
  <2> HIDE DEF r
  <2> QED BY <2>1, <2>2, ResumeCases DEF Types, others
<1>4. ASSUME NEW e \in Editors, PanelSaved(e) PROVE Types'
  BY <1>4, Records, ResumeCases DEF PanelSaved, Types, others
<1>5. ASSUME NEW e \in Editors, FormSaved(e) PROVE Types'
  <2>1. call' = [call EXCEPT ![e] = [@ EXCEPT !.at = "read"]] BY <1>0, <1>5 DEF FormSaved, Attempt
  <2>2. call' \in [Editors -> Attempt] BY <1>0, <2>1 DEF Attempt
  <2> QED BY <1>5, <2>2 DEF FormSaved, Types, bridge, others
<1>6. ASSUME NEW e \in Editors, FormApplied(e) PROVE Types'
  <2>1. call[e].gen # 0 BY <1>6 DEF FormApplied, Disciplined, Discipline
  <2> QED BY <1>6, <2>1, Records, ResumeCases DEF FormApplied, Types, others
<1>7. ASSUME NEW e \in Editors, Retry(e) PROVE Types'
  <2> DEFINE r == [ed[e] EXCEPT !.failed = FALSE, !.running = TRUE]
  <2>1. r \in Queue /\ r.attempted \in Optional BY <1>0 DEF Queue
  <2>2. /\ ed' = [ed EXCEPT ![e] = r] /\ call' = [call EXCEPT ![e] = Sent(r.attempted.val)]
        /\ requests' = Append(requests, Request(e, r))
        /\ UNCHANGED <<load, candidate, text, generation, memo, done, others>>
    BY <1>7, Zenon DEF Retry
  <2>3. Sent(r.attempted.val) \in Attempt BY <2>1, Words DEF Optional
  <2>5. Request(e, r) \in Requests BY <1>7, RetriedTypes
  <2> QED BY <1>0, <2>1, <2>2, <2>3, <2>5, Appended DEF Types, others
<1>8. ASSUME NEW e \in Editors, Reload(e) PROVE Types'
  <2>1. text[Part(e)] \in Shown /\ generation \in Nat \ {0} BY <1>0, Words DEF Types
  <2>2. [val |-> text[Part(e)], gen |-> generation] \in Reading BY <2>1 DEF Reading
  <2>3. load' \in [Editors -> Reading] BY <1>0, <1>8, <2>2 DEF Reload
  <2>4. spent' \in [edits: Nat, loads: Nat] BY <1>8 DEF Reload, Types
  <2> QED BY <1>8, <2>3, <2>4 DEF Reload, Types, bridge
<1>9. ASSUME NEW e \in Editors, LoadArrives(e) PROVE Types'
  <2>1. load[e] \in [val: Shown, gen: Nat \ {0}] BY <1>0, <1>9 DEF LoadArrives, Reading
  <2>2. Reloaded(ed[e], load[e]) \in Queue
    <3>1. load[e].val \in Shown /\ load[e].gen \in Nat \ {0} /\ ed[e] \in Queue BY <1>0, <2>1
    <3>2. None \in Optional BY Words
    <3> QED BY <3>1, <3>2, Zenon DEF Reloaded, Queue
  <2>3. ed' \in [Editors -> Queue] /\ load' \in [Editors -> Reading]
    BY <1>0, <1>9, <2>2, Words DEF LoadArrives
  <2> QED BY <1>9, <2>3 DEF LoadArrives, Types, bridge, others
<1>10. ASSUME NEW e \in Editors, Timeout(e) PROVE Types'
  <2>1. call' = [call EXCEPT ![e] = [@ EXCEPT !.at = "done", !.out = "exit"]]
    BY <1>0, <1>10 DEF Timeout, Attempt
  <2>2. call' \in [Editors -> Attempt] BY <1>0, <2>1 DEF Attempt
  <2>3. requests' \in Seq(Requests) BY <1>10, TimedOut
  <2> QED BY <1>10, <2>2, <2>3 DEF Timeout, Types
<1>11. CASE Toggle
  <2>1. OneShot("toggle", Added, 0) \in Requests BY OneShots
  <2> QED BY <1>0, <1>11, <2>1, Appended DEF Toggle, Types
<1>12. CASE OnboardingReads
  <2>1. [val |-> text["form"], gen |-> generation] \in Reading BY <1>0, Words DEF Reading, Types
  <2> QED BY <1>12, <2>1 DEF OnboardingReads, Types, bridge
<1>13. CASE OnboardingSaves
  <2>1. OneShot("onboarding", Added, onboarding.gen) \in Requests
    BY <1>13, OneShots DEF OnboardingSaves, Types, Reading
  <2> QED BY <1>0, <1>13, <2>1, Appended, Words DEF OnboardingSaves, Types
<1>14. CASE Decline
  <2>1. requests # <<>> /\ UNCHANGED <<ed, load, candidate, text, generation, memo, done, others>>
    BY <1>14, Zenon DEF Decline
  <2>2. PICK out \in {"ok", "failed", "invalid", "conflict", "exit"}, g \in Nat : Answer(out, g)
    BY <1>14, Declines
  <2> QED BY <2>1, <2>2, AnswerTypes DEF Types, others
<1>15. CASE Derive
  <2>1. candidate' \in [Parts -> Shown]
    <3>1. Head(requests) \in Requests BY <1>0, <1>15, Tailed DEF Derive
    <3> QED BY <1>0, <1>15, <3>1, DerivedText, Zenon DEF Derive
  <2> QED BY <1>15, <2>1 DEF Derive, Types, others
<1>16. CASE PrepareFails
  <2>1. requests # <<>> /\ Answer("failed", 0) BY <1>16 DEF PrepareFails, Prepared
  <2>2. left' \subseteq left BY <1>16 DEF PrepareFails
  <2> QED BY <1>16, <2>1, <2>2, AnswerTypes DEF PrepareFails, Types
<1>17. CASE Commit
  <2>1. Committed BY <1>17, Commits
  <2> QED BY <1>17, <2>1 DEF Committed, Commit, Types, others
<1>18. CASE Crash
  <2>1. PICK t \in {text} \cup ({candidate} \ {NoText}) :
          /\ text' = t
          /\ load' = [e \in Editors |-> IF load[e] = Unread THEN Unread
                                        ELSE [val |-> t[Part(e)], gen |-> 1]]
    BY <1>18, Zenon DEF Crash
  <2>2. t \in [Parts -> Shown] BY <2>1 DEF Types
  <2>3. \A e \in Editors : [val |-> t[Part(e)], gen |-> 1] \in Reading BY <2>2, Words DEF Reading
  <2>4. load' \in [Editors -> Reading] BY <2>1, <2>3, Words
  <2>5. call' \in [Editors -> Attempt]
    <3>1. \A e \in Editors : [call[e] EXCEPT !.at = "done", !.out = "exit"] \in Attempt
      BY <1>0 DEF Attempt
    <3> QED BY <1>0, <1>18, <3>1 DEF Crash
  <2>6. /\ generation' = 1 /\ memo' = <<>> /\ done' = {} /\ requests' = <<>> /\ candidate' = NoText
        /\ left' = left \ {"crash"} /\ UNCHANGED <<ed, onboarding, spent>>
    BY <1>18, Zenon DEF Crash
  <2>7. <<>> \in Seq(Requests) /\ <<>> \in Seq(Memory) /\ Len(<<>>) = 0 /\ MemoLimit \in Nat
    BY EmptySeq, SettingsAssumption
  <2>8. left' \subseteq left BY <2>6
  <2> QED BY <2>1, <2>2, <2>4, <2>5, <2>6, <2>7, <2>8 DEF Types
<1>19. CASE UNCHANGED vars
  BY <1>19 DEF vars, Types
<1> QED
  BY <1>1, <1>2, <1>3, <1>4, <1>5, <1>6, <1>7, <1>8, <1>9, <1>10, <1>11, <1>12, <1>13, <1>14, <1>15,
     <1>16, <1>17, <1>18, <1>19 DEF Next

-----------------------------------------------------------------------------
(* The queues' discipline.                                                 *)

\* The queues are idle at the start.
LEMMA DisciplineInit == Init => Disciplined
BY DEF Init, Disciplined, Discipline, Fresh, None, NoCall

\* An editor nothing has happened to.
LEMMA Untouched ==
  ASSUME NEW f, Discipline(f), ed'[f] = ed[f], call'[f] = call[f], load'[f] = load[f]
  PROVE  Discipline(f)'
BY DEF Discipline

\* What an editor may hand to its queue.
Handed(e, r) ==
  /\ r.running => ed[e].running /\ r.attempted = ed[e].attempted
  /\ r.queued.set => r.queued # r.attempted
  /\ r.paused => r.running \/ r.failed
  /\ r.attempted.set => r.op # 0

\* What the effect of a render makes of an editor's record.
LEMMA Waits ==
  ASSUME Types, Disciplined, NEW e \in Editors
  PROVE  /\ Enqueued([ed[e] EXCEPT !.dirty = FALSE]).draft = ed[e].draft
         /\ Enqueued([ed[e] EXCEPT !.dirty = FALSE]).snap = ed[e].snap
         /\ Enqueued([ed[e] EXCEPT !.dirty = FALSE]).expect = ed[e].expect
         /\ Enqueued([ed[e] EXCEPT !.dirty = FALSE]).running = ed[e].running
         /\ Enqueued([ed[e] EXCEPT !.dirty = FALSE]).failed = ed[e].failed
         /\ Enqueued([ed[e] EXCEPT !.dirty = FALSE]).paused = ed[e].paused
         /\ Enqueued([ed[e] EXCEPT !.dirty = FALSE]).attempted = ed[e].attempted
         /\ Enqueued([ed[e] EXCEPT !.dirty = FALSE]).op = ed[e].op
         /\ Enqueued([ed[e] EXCEPT !.dirty = FALSE]).queued =
              IF \/ ed[e].attempted = Some(ed[e].draft)
                 \/ ~ ed[e].running /\ ~ ed[e].failed /\ ed[e].draft = ed[e].snap
              THEN None ELSE Some(ed[e].draft)
<1> DEFINE r == [ed[e] EXCEPT !.dirty = FALSE]
<1>1. /\ r \in Queue /\ r.draft = ed[e].draft /\ r.snap = ed[e].snap /\ r.expect = ed[e].expect
      /\ r.running = ed[e].running /\ r.failed = ed[e].failed /\ r.paused = ed[e].paused
      /\ r.attempted = ed[e].attempted /\ r.op = ed[e].op
  <2>1. ed[e] \in Queue BY DEF Types
  <2> QED BY <2>1 DEF Queue
<1> HIDE DEF r
<1>2. Enqueued(r) = [r EXCEPT !.queued =
        IF r.attempted = Some(r.draft) \/ (~ r.running /\ ~ r.failed /\ r.draft = r.snap)
        THEN None ELSE Some(r.draft)]
  BY Zenon DEF Enqueued
<1>3. /\ Enqueued(r).draft = r.draft /\ Enqueued(r).snap = r.snap /\ Enqueued(r).expect = r.expect
      /\ Enqueued(r).running = r.running /\ Enqueued(r).failed = r.failed /\ Enqueued(r).paused = r.paused
      /\ Enqueued(r).attempted = r.attempted /\ Enqueued(r).op = r.op
      /\ Enqueued(r).queued =
           IF r.attempted = Some(r.draft) \/ (~ r.running /\ ~ r.failed /\ r.draft = r.snap)
           THEN None ELSE Some(r.draft)
  BY <1>1, <1>2 DEF Queue
<1> QED BY <1>1, <1>3 DEF r

\* A record handed over keeps the discipline.
LEMMA DisciplineResume ==
  ASSUME Types, Disciplined, NEW e \in Editors, NEW r \in Queue, Resume(e, r), Handed(e, r),
         UNCHANGED load
  PROVE  Disciplined'
<1>1. ASSUME NEW f \in Editors, f # e PROVE Discipline(f)'
  BY <1>1, ResumeCases, Untouched DEF Disciplined
<1>2. Discipline(e)'
  <2>1. CASE /\ r.queued.set /\ ~ r.running /\ ~ r.paused
             /\ ed'[e] = Drained(r) /\ call'[e] = Sent(r.queued.val)
             /\ Request(e, Drained(r)) \in Requests
    <3>1. /\ Drained(r).running /\ Drained(r).queued = None /\ Drained(r).attempted = r.queued
          /\ ~ Drained(r).paused /\ Drained(r).op \in Nat \ {0}
      <4>1. Drained(r).op \in 1..MaxDrains BY <2>1 DEF Request, Requests
      <4> QED BY <2>1, <4>1, SettingsAssumption DEF Drained, Queue
    <3>2. call'[e].at = "sent" /\ call'[e].val = r.queued.val BY <2>1 DEF Sent, NoCall
    <3> QED BY <2>1, <3>1, <3>2 DEF Discipline, None
  <2>2. CASE /\ ~ (r.queued.set /\ ~ r.running /\ ~ r.paused)
             /\ ed'[e] = r /\ call'[e] = IF r.running THEN call[e] ELSE NoCall
    <3>1. CASE r.running
      BY <2>2, <3>1 DEF Handed, Discipline, Disciplined
    <3>2. CASE ~ r.running
      BY <2>2, <3>2 DEF Handed, Discipline, NoCall
    <3> QED BY <3>1, <3>2
  <2> QED BY <2>1, <2>2, ResumeCases
<1> QED BY <1>1, <1>2 DEF Disciplined

\* What the editors hand over.
LEMMA Hands ==
  ASSUME Types, Disciplined, NEW e \in Editors
  PROVE  /\ Handed(e, Enqueued([ed[e] EXCEPT !.dirty = FALSE]))
         /\ \A p \in BOOLEAN : Handed(e, [ed[e] EXCEPT !.running = FALSE, !.failed = TRUE, !.paused = p])
         /\ Handed(e, [Applied(e, ed[e]) EXCEPT !.running = FALSE, !.paused = FALSE, !.dirty = TRUE])
         /\ Handed(e, [ReadBack(e, ed[e]) EXCEPT !.running = FALSE, !.paused = FALSE, !.dirty = TRUE])
<1>1. ed[e] \in Queue /\ Discipline(e) BY DEF Types, Disciplined
<1>2. Handed(e, Enqueued([ed[e] EXCEPT !.dirty = FALSE]))
  <2>1. Enqueued([ed[e] EXCEPT !.dirty = FALSE]).queued.set =>
          Enqueued([ed[e] EXCEPT !.dirty = FALSE]).queued # ed[e].attempted
    BY Waits DEF None
  <2>2. ed[e].paused => ed[e].running \/ ed[e].failed BY <1>1 DEF Discipline
  <2>3. ed[e].attempted.set => ed[e].op # 0 BY <1>1 DEF Discipline
  <2> QED BY <2>1, <2>2, <2>3, Waits DEF Handed
<1>3. ASSUME NEW p \in BOOLEAN
      PROVE Handed(e, [ed[e] EXCEPT !.running = FALSE, !.failed = TRUE, !.paused = p])
  BY <1>1 DEF Handed, Discipline, Queue
<1>4. Handed(e, [Applied(e, ed[e]) EXCEPT !.running = FALSE, !.paused = FALSE, !.dirty = TRUE])
  BY <1>1 DEF Handed, Discipline, Queue, Applied
<1>5. Handed(e, [ReadBack(e, ed[e]) EXCEPT !.running = FALSE, !.paused = FALSE, !.dirty = TRUE])
  BY <1>1 DEF Handed, Discipline, Queue, ReadBack
<1> QED BY <1>2, <1>3, <1>4, <1>5

\* The answer to an attempt leaves its queue as it is.
LEMMA DisciplineAnswer ==
  ASSUME Types, Disciplined, Single, requests # <<>>, UNCHANGED <<ed, load>>,
         \/ \E g \in Nat \ {0} : Answer("ok", g)
         \/ Answer("invalid", 0) \/ Answer("conflict", 0) \/ Answer("failed", 0)
  PROVE  Disciplined'
<1>1. PICK out \in {"ok", "failed", "invalid", "conflict"}, g \in Nat :
        Answer(out, g) /\ (out = "ok" => g # 0)
  OBVIOUS
<1>2. /\ Head(requests).live =>
           /\ Head(requests).who \in Editors /\ call[Head(requests).who].at = "sent"
           /\ call'[Head(requests).who] =
                [call[Head(requests).who] EXCEPT !.at = "done", !.out = out, !.gen = g]
      /\ \A f \in Editors : ~ (Head(requests).live /\ f = Head(requests).who) => call'[f] = call[f]
  <2>1. out \in {"ok", "failed", "invalid", "conflict", "exit"} OBVIOUS
  <2> QED BY <1>1, <2>1, AnswerTypes
<1> SUFFICES ASSUME NEW f \in Editors PROVE Discipline(f)' BY DEF Disciplined
<1>3. CASE call'[f] = call[f] BY <1>3, Untouched DEF Disciplined
<1>4. CASE call[f].at = "sent" /\ call'[f] = [call[f] EXCEPT !.at = "done", !.out = out, !.gen = g]
  BY <1>1, <1>4 DEF Disciplined, Discipline, Types, Attempt
<1> QED BY <1>2, <1>3, <1>4

\* Every step keeps the discipline.
LEMMA DisciplineStep == Types /\ Disciplined /\ Single /\ Prepared /\ [Next]_vars => Disciplined'
<1> SUFFICES ASSUME Types, Disciplined, Single, Prepared, [Next]_vars PROVE Disciplined'
  OBVIOUS
<1>0. /\ ed \in [Editors -> Queue] /\ call \in [Editors -> Attempt] /\ load \in [Editors -> Reading]
      /\ \A e \in Editors : Discipline(e)
  BY DEF Types, Disciplined
<1>1. ASSUME NEW e \in Editors, Edit(e) PROVE Disciplined'
  <2>1. PICK v \in Values : ed' = [ed EXCEPT ![e] = [@ EXCEPT !.draft = v, !.dirty = TRUE]]
    BY <1>0, <1>1 DEF Edit, Queue
  <2> SUFFICES ASSUME NEW f \in Editors PROVE Discipline(f)' BY DEF Disciplined
  <2> QED BY <1>0, <1>1, <2>1 DEF Edit, Discipline, Queue
<1>2. ASSUME NEW e \in Editors, Effect(e) PROVE Disciplined'
  BY <1>2, Records, Hands, DisciplineResume DEF Effect
<1>3. ASSUME NEW e \in Editors, AttemptFails(e) PROVE Disciplined'
  <2> DEFINE p == ~ResumesAutomatically(e, call[e].out)
             r == [ed[e] EXCEPT !.running = FALSE, !.failed = TRUE, !.paused = p]
  <2>1. r \in Queue /\ Handed(e, r)
    <3>1. p \in BOOLEAN OBVIOUS
    <3> QED BY <3>1, Records, Hands
  <2>2. Resume(e, r) /\ UNCHANGED load BY <1>3, Zenon DEF AttemptFails
  <2> HIDE DEF r
  <2> QED BY <2>1, <2>2, DisciplineResume
<1>4. ASSUME NEW e \in Editors, PanelSaved(e) PROVE Disciplined'
  BY <1>4, Records, Hands, DisciplineResume DEF PanelSaved
<1>5. ASSUME NEW e \in Editors, FormSaved(e) PROVE Disciplined'
  <2>1. call' = [call EXCEPT ![e] = [@ EXCEPT !.at = "read"]] BY <1>0, <1>5 DEF FormSaved, Attempt
  <2> SUFFICES ASSUME NEW f \in Editors PROVE Discipline(f)' BY DEF Disciplined
  <2> QED BY <1>0, <1>5, <2>1 DEF FormSaved, Discipline, Attempt
<1>6. ASSUME NEW e \in Editors, FormApplied(e) PROVE Disciplined'
  <2>1. call[e].gen # 0 BY <1>0, <1>6 DEF FormApplied, Discipline
  <2> QED BY <1>6, <2>1, Records, Hands, DisciplineResume DEF FormApplied
<1>7. ASSUME NEW e \in Editors, Retry(e) PROVE Disciplined'
  <2> SUFFICES ASSUME NEW f \in Editors PROVE Discipline(f)' BY DEF Disciplined
  <2>1. /\ ed' = [ed EXCEPT ![e] = [ed[e] EXCEPT !.failed = FALSE, !.running = TRUE]]
        /\ call' = [call EXCEPT ![e] = Sent([ed[e] EXCEPT !.failed = FALSE, !.running = TRUE].attempted.val)]
        /\ UNCHANGED load
    BY <1>7, Zenon DEF Retry
  <2>2. CASE f # e BY <1>0, <2>1, <2>2, Untouched
  <2>3. CASE f = e
    <3>1. call'[e].at = "sent" /\ call'[e].val = ed[e].attempted.val
      BY <1>0, <2>1 DEF Sent, NoCall, Queue
    <3>2. ed'[e] = [ed[e] EXCEPT !.failed = FALSE, !.running = TRUE] BY <1>0, <2>1
    <3> QED BY <1>0, <2>3, <3>1, <3>2 DEF Discipline, Queue
  <2> QED BY <2>2, <2>3
<1>8. ASSUME NEW e \in Editors, Reload(e) PROVE Disciplined'
  <2> SUFFICES ASSUME NEW f \in Editors PROVE Discipline(f)' BY DEF Disciplined
  <2>1. UNCHANGED <<ed, call>> /\ ~ ed[e].running /\ \A g \in Editors : g # e => load'[g] = load[g]
    BY <1>0, <1>8 DEF Reload
  <2>2. CASE f # e BY <1>0, <2>1, <2>2, Untouched
  <2>3. CASE f = e BY <1>0, <2>1, <2>3 DEF Discipline
  <2> QED BY <2>2, <2>3
<1>9. ASSUME NEW e \in Editors, LoadArrives(e) PROVE Disciplined'
  <2> SUFFICES ASSUME NEW f \in Editors PROVE Discipline(f)' BY DEF Disciplined
  <2>1. /\ ed' = [ed EXCEPT ![e] = Reloaded(@, load[e])] /\ load' = [load EXCEPT ![e] = Unread]
        /\ UNCHANGED call
    BY <1>9 DEF LoadArrives
  <2>2. CASE f # e BY <1>0, <2>1, <2>2, Untouched
  <2>3. CASE f = e BY <1>0, <2>1, <2>3 DEF Discipline, Reloaded, Queue, None
  <2> QED BY <2>2, <2>3
<1>10. ASSUME NEW e \in Editors, Timeout(e) PROVE Disciplined'
  <2>1. call' = [call EXCEPT ![e] = [@ EXCEPT !.at = "done", !.out = "exit"]]
    BY <1>0, <1>10 DEF Timeout, Attempt
  <2> SUFFICES ASSUME NEW f \in Editors PROVE Discipline(f)' BY DEF Disciplined
  <2> QED BY <1>0, <1>10, <2>1 DEF Timeout, Discipline, Attempt
<1>11. CASE Toggle BY <1>0, <1>11, Untouched DEF Toggle, Disciplined
<1>12. CASE OnboardingReads BY <1>0, <1>12, Untouched DEF OnboardingReads, Disciplined
<1>13. CASE OnboardingSaves BY <1>0, <1>13, Untouched DEF OnboardingSaves, Disciplined
<1>14. CASE Decline
  <2>1. requests # <<>> /\ UNCHANGED <<ed, load>> BY <1>14, Zenon DEF Decline
  <2>2. \/ \E g \in Nat \ {0} : Answer("ok", g)
        \/ Answer("invalid", 0) \/ Answer("conflict", 0)
    BY <1>14, Declines
  <2> QED BY <2>1, <2>2, DisciplineAnswer
<1>15. CASE Derive BY <1>0, <1>15, Untouched DEF Derive, Disciplined
<1>16. CASE PrepareFails
  <2>1. requests # <<>> /\ Answer("failed", 0) /\ UNCHANGED <<ed, load>>
    BY <1>16 DEF PrepareFails, Prepared
  <2> QED BY <2>1, DisciplineAnswer
<1>17. CASE Commit
  <2>1. Committed BY <1>17, Commits
  <2>2. UNCHANGED <<ed, load>> BY <1>17, Zenon DEF Commit
  <2> QED BY <2>1, <2>2, DisciplineAnswer DEF Committed
<1>18. CASE Crash
  <2>1. PICK t \in {text} \cup ({candidate} \ {NoText}) :
          load' = [e \in Editors |-> IF load[e] = Unread THEN Unread
                                    ELSE [val |-> t[Part(e)], gen |-> 1]]
    BY <1>18, Zenon DEF Crash
  <2>2. call' = [e \in Editors |-> IF call[e].at \in {"sent", "read"}
                                   THEN [call[e] EXCEPT !.at = "done", !.out = "exit"] ELSE call[e]]
        /\ UNCHANGED ed
    BY <1>18, Zenon DEF Crash
  <2> SUFFICES ASSUME NEW f \in Editors PROVE Discipline(f)' BY DEF Disciplined
  <2>3. CASE call[f].at \in {"sent", "read"}
    <3>1. call'[f] = [call[f] EXCEPT !.at = "done", !.out = "exit"] BY <2>2, <2>3, Zenon
    <3>2. call[f] \in Attempt BY <1>0
    <3>3. call'[f].at = "done" /\ call'[f].out = "exit" /\ call'[f].val = call[f].val
      BY <3>1, <3>2 DEF Attempt
    <3> QED BY <1>0, <2>2, <2>3, <3>3 DEF Discipline
  <2>4. CASE call[f].at \notin {"sent", "read"} BY <1>0, <2>2, <2>4 DEF Discipline
  <2> QED BY <2>3, <2>4
<1>19. CASE UNCHANGED vars BY <1>0, <1>19, Untouched DEF vars, Disciplined
<1> QED
  BY <1>1, <1>2, <1>3, <1>4, <1>5, <1>6, <1>7, <1>8, <1>9, <1>10, <1>11, <1>12, <1>13, <1>14, <1>15,
     <1>16, <1>17, <1>18, <1>19 DEF Next

-----------------------------------------------------------------------------
(* The requests and what is prepared of them.                              *)

\* Nobody stops waiting, and nobody starts.
LEMMA SingleKept ==
  ASSUME Single, UNCHANGED requests,
         \A f \in Editors : call[f].at = "sent" => call'[f].at = "sent"
  PROVE  Single'
BY DEF Single

\* A new request is that of an editor that waited for nothing.
LEMMA SingleAppended ==
  ASSUME Types, Single, NEW r \in Requests, requests' = Append(requests, r),
         r.live => r.who \in Editors /\ call[r.who].at # "sent" /\ call'[r.who].at = "sent",
         \A f \in Editors : call[f].at = "sent" => call'[f].at = "sent"
  PROVE  Single'
<1>1. /\ Len(requests) \in Nat /\ DOMAIN requests = 1..Len(requests)
      /\ DOMAIN requests' = 1..Len(requests) + 1
      /\ \A i \in 1..Len(requests) : requests'[i] = requests[i]
      /\ requests'[Len(requests) + 1] = r
  BY Appended DEF Types
<1>2. ASSUME NEW i \in DOMAIN requests'
      PROVE  \/ i \in DOMAIN requests /\ requests'[i] = requests[i]
             \/ i = Len(requests) + 1 /\ requests'[i] = r
  <2>1. i \in 1..Len(requests) \/ i = Len(requests) + 1 BY <1>1
  <2> QED BY <1>1, <2>1
<1>3. ASSUME NEW i \in DOMAIN requests', requests'[i].live
      PROVE  requests'[i].who \in Editors /\ call'[requests'[i].who].at = "sent"
  BY <1>2, <1>3 DEF Single
<1>4. ASSUME NEW i \in DOMAIN requests', NEW j \in DOMAIN requests', requests'[i].live, requests'[j].live,
             requests'[i].who = requests'[j].who
      PROVE  i = j
  <2>1. \A k \in DOMAIN requests : requests[k].live /\ r.live => requests[k].who # r.who
    BY DEF Single
  <2> QED BY <1>2, <1>4, <2>1 DEF Single
<1> QED BY <1>3, <1>4 DEF Single

\* A queue that does not run has no request that anybody waits for.
LEMMA SingleResume ==
  ASSUME Types, Single, NEW e \in Editors, NEW r \in Queue, Resume(e, r),
         call[e].at = "sent" => r.running
  PROVE  Single'
<1>1. CASE /\ ~ r.running /\ call'[e] = Sent(r.queued.val)
           /\ Request(e, Drained(r)) \in Requests
           /\ requests' = Append(requests, Request(e, Drained(r)))
  <2>1. call'[e].at = "sent" /\ call[e].at # "sent" BY <1>1 DEF Sent, NoCall
  <2>2. Request(e, Drained(r)).who = e BY DEF Request
  <2> HIDE DEF Request
  <2> QED BY <1>1, <2>1, <2>2, ResumeCases, SingleAppended
<1>2. CASE call'[e] = (IF r.running THEN call[e] ELSE NoCall) /\ UNCHANGED requests
  BY <1>2, ResumeCases, SingleKept
<1> QED BY <1>1, <1>2, ResumeCases

\* Who is answered waits no longer.
LEMMA SingleAnswer ==
  ASSUME Types, Single, requests # <<>>, NEW out \in {"ok", "failed", "invalid", "conflict", "exit"},
         NEW g \in Nat, Answer(out, g)
  PROVE  Single'
<1>1. /\ Len(requests) \in Nat /\ DOMAIN requests = 1..Len(requests)
      /\ DOMAIN requests' = 1..Len(requests) - 1
      /\ \A i \in 1..Len(requests) - 1 : requests'[i] = requests[i + 1]
      /\ 1 \in DOMAIN requests /\ Head(requests) = requests[1]
  <2>1. requests \in Seq(Requests) /\ requests' = Tail(requests) BY AnswerTypes DEF Types
  <2> QED BY <2>1, Tailed
<1>2. \A i \in DOMAIN requests' : i \in Nat /\ i + 1 \in DOMAIN requests /\ i + 1 # 1
                                  /\ requests'[i] = requests[i + 1]
  BY <1>1
<1>3. \A f \in Editors : ~ (Head(requests).live /\ f = Head(requests).who) => call'[f] = call[f]
  BY AnswerTypes
<1>4. ASSUME NEW i \in DOMAIN requests', requests'[i].live
      PROVE  requests'[i].who \in Editors /\ call'[requests'[i].who].at = "sent"
  <2>1. i + 1 \in DOMAIN requests /\ i + 1 # 1 /\ requests[i + 1].live /\ requests'[i] = requests[i + 1]
    BY <1>2, <1>4
  <2>2. ~ (Head(requests).live /\ requests[i + 1].who = Head(requests).who) BY <1>1, <2>1 DEF Single
  <2> QED BY <1>3, <2>1, <2>2 DEF Single
<1>5. ASSUME NEW i \in DOMAIN requests', NEW j \in DOMAIN requests', requests'[i].live, requests'[j].live,
             requests'[i].who = requests'[j].who
      PROVE  i = j
  <2>1. i + 1 = j + 1 BY <1>2, <1>5 DEF Single
  <2> QED BY <1>2, <2>1
<1> QED BY <1>4, <1>5 DEF Single

\* Every step keeps the waiting requests apart.
LEMMA SingleStep == Types /\ Disciplined /\ Single /\ Prepared /\ [Next]_vars => Single'
<1> SUFFICES ASSUME Types, Disciplined, Single, Prepared, [Next]_vars PROVE Single'
  OBVIOUS
<1>0. /\ call \in [Editors -> Attempt] /\ \A e \in Editors : Discipline(e) /\ ed[e] \in Queue
  BY DEF Types, Disciplined
<1>1. ASSUME NEW e \in Editors, Edit(e) PROVE Single'
  BY <1>1, SingleKept DEF Edit, bridge
<1>2. ASSUME NEW e \in Editors, Effect(e) PROVE Single'
  <2>1. call[e].at = "sent" => Enqueued([ed[e] EXCEPT !.dirty = FALSE]).running
    BY <1>0, Waits DEF Discipline
  <2> QED BY <1>2, <2>1, Records, SingleResume DEF Effect
<1>3. ASSUME NEW e \in Editors, AttemptFails(e) PROVE Single'
  <2> DEFINE p == ~ResumesAutomatically(e, call[e].out)
             r == [ed[e] EXCEPT !.running = FALSE, !.failed = TRUE, !.paused = p]
  <2>1. r \in Queue
    <3>1. p \in BOOLEAN OBVIOUS
    <3> QED BY <3>1, Records
  <2>2. Resume(e, r) /\ call[e].at # "sent" BY <1>3, Zenon DEF AttemptFails
  <2> HIDE DEF r
  <2> QED BY <2>1, <2>2, SingleResume
<1>4. ASSUME NEW e \in Editors, PanelSaved(e) PROVE Single'
  BY <1>4, Records, SingleResume DEF PanelSaved
<1>5. ASSUME NEW e \in Editors, FormSaved(e) PROVE Single'
  <2>1. \A f \in Editors : f # e => call'[f] = call[f] BY <1>0, <1>5 DEF FormSaved
  <2> QED BY <1>5, <2>1, SingleKept DEF FormSaved, bridge
<1>6. ASSUME NEW e \in Editors, FormApplied(e) PROVE Single'
  <2>1. call[e].gen # 0 BY <1>0, <1>6 DEF FormApplied, Discipline
  <2> QED BY <1>6, <2>1, Records, SingleResume DEF FormApplied
<1>7. ASSUME NEW e \in Editors, Retry(e) PROVE Single'
  <2> DEFINE r == [ed[e] EXCEPT !.failed = FALSE, !.running = TRUE]
  <2>1. /\ call' = [call EXCEPT ![e] = Sent(r.attempted.val)]
        /\ requests' = Append(requests, Request(e, r)) /\ ~ ed[e].running
    BY <1>7, Zenon DEF Retry
  <2>2. call'[e].at = "sent" /\ call[e].at # "sent" BY <1>0, <2>1 DEF Sent, NoCall, Discipline
  <2>3. \A f \in Editors : f # e => call'[f] = call[f] BY <1>0, <2>1
  <2>4. Request(e, r).who = e BY DEF Request
  <2>5. Request(e, r) \in Requests BY <1>7, RetriedTypes
  <2> HIDE DEF Request, r
  <2> QED BY <2>1, <2>2, <2>3, <2>4, <2>5, SingleAppended
<1>8. ASSUME NEW e \in Editors, Reload(e) PROVE Single'
  BY <1>8, SingleKept DEF Reload, bridge
<1>9. ASSUME NEW e \in Editors, LoadArrives(e) PROVE Single'
  BY <1>9, SingleKept DEF LoadArrives, bridge
<1>10. ASSUME NEW e \in Editors, Timeout(e) PROVE Single'
  <2>1. DOMAIN requests' = DOMAIN requests
        /\ \A i \in DOMAIN requests :
              /\ requests'[i].who = requests[i].who
              /\ requests'[i].live <=> requests[i].live /\ requests[i].who # e
    BY <1>10, TimedOut
  <2>2. \A f \in Editors : f # e => call'[f] = call[f] BY <1>0, <1>10 DEF Timeout
  <2> QED BY <2>1, <2>2 DEF Single
<1>11. CASE Toggle
  <2>1. OneShot("toggle", Added, 0) \in Requests /\ ~ OneShot("toggle", Added, 0).live
    BY OneShots DEF OneShot
  <2> HIDE DEF OneShot
  <2> QED BY <1>11, <2>1, SingleAppended DEF Toggle
<1>12. CASE OnboardingReads BY <1>12, SingleKept DEF OnboardingReads, bridge
<1>13. CASE OnboardingSaves
  <2>1. OneShot("onboarding", Added, onboarding.gen) \in Requests
        /\ ~ OneShot("onboarding", Added, onboarding.gen).live
    BY <1>13, OneShots DEF OnboardingSaves, Types, Reading, OneShot
  <2> HIDE DEF OneShot
  <2> QED BY <1>13, <2>1, SingleAppended DEF OnboardingSaves
<1>14. CASE Decline
  <2>1. PICK out \in {"ok", "failed", "invalid", "conflict", "exit"}, g \in Nat : Answer(out, g)
    BY <1>14, Declines
  <2> QED BY <1>14, <2>1, Declines, SingleAnswer
<1>15. CASE Derive BY <1>15, SingleKept DEF Derive
<1>16. CASE PrepareFails
  <2>1. requests # <<>> /\ Answer("failed", 0) BY <1>16 DEF PrepareFails, Prepared
  <2> QED BY <2>1, SingleAnswer
<1>17. CASE Commit
  <2>1. Committed BY <1>17, Commits
  <2> QED BY <2>1, SingleAnswer DEF Committed
<1>18. CASE Crash
  <2>1. requests' = <<>> BY <1>18, Zenon DEF Crash
  <2>2. DOMAIN <<>> = {} BY EmptyDomain
  <2> QED BY <2>1, <2>2 DEF Single
<1>19. CASE UNCHANGED vars BY <1>19, SingleKept DEF vars
<1> QED
  BY <1>1, <1>2, <1>3, <1>4, <1>5, <1>6, <1>7, <1>8, <1>9, <1>10, <1>11, <1>12, <1>13, <1>14, <1>15,
     <1>16, <1>17, <1>18, <1>19 DEF Next

\* More requests behind the head.
LEMMA PreparedQueued ==
  ASSUME Types, Prepared, UNCHANGED <<candidate, text, memo>>,
         UNCHANGED requests \/ \E r \in Requests : requests' = Append(requests, r)
  PROVE  Prepared'
<1> SUFFICES ASSUME candidate' # NoText
             PROVE  requests' # <<>> /\ Known(Head(requests))' = {}
                    /\ candidate' = Derived(Head(requests))'
  BY DEF Prepared
<1>1. requests # <<>> /\ Known(Head(requests)) = {} /\ candidate = Derived(Head(requests))
  BY DEF Prepared
<1>2. requests' # <<>> /\ Head(requests') = Head(requests) BY <1>1, Appended DEF Types
<1> QED BY <1>1, <1>2 DEF Known, Derived, Operation

\* What an editor hands to its queue leaves what is prepared.
LEMMA PreparedResume ==
  ASSUME Types, Prepared, NEW e \in Editors, NEW r \in Queue, Resume(e, r),
         UNCHANGED <<candidate, text, memo>>
  PROVE  Prepared'
BY ResumeCases, PreparedQueued

\* Every step leaves prepared what the head asks of the text now.
LEMMA PreparedStep == Types /\ Disciplined /\ Single /\ Prepared /\ [Next]_vars => Prepared'
<1> SUFFICES ASSUME Types, Disciplined, Single, Prepared, [Next]_vars PROVE Prepared'
  OBVIOUS
<1>1. ASSUME NEW e \in Editors, Edit(e) PROVE Prepared'
  BY <1>1, PreparedQueued DEF Edit, bridge
<1>2. ASSUME NEW e \in Editors, Effect(e) PROVE Prepared'
  BY <1>2, Records, PreparedResume DEF Effect
<1>3. ASSUME NEW e \in Editors, AttemptFails(e) PROVE Prepared'
  <2> DEFINE p == ~ResumesAutomatically(e, call[e].out)
             r == [ed[e] EXCEPT !.running = FALSE, !.failed = TRUE, !.paused = p]
  <2>1. r \in Queue
    <3>1. p \in BOOLEAN OBVIOUS
    <3> QED BY <3>1, Records
  <2>2. Resume(e, r) /\ UNCHANGED <<candidate, text, memo>> BY <1>3, Zenon DEF AttemptFails
  <2> HIDE DEF r
  <2> QED BY <2>1, <2>2, PreparedResume
<1>4. ASSUME NEW e \in Editors, PanelSaved(e) PROVE Prepared'
  BY <1>4, Records, PreparedResume DEF PanelSaved
<1>5. ASSUME NEW e \in Editors, FormSaved(e) PROVE Prepared'
  BY <1>5, PreparedQueued DEF FormSaved, bridge
<1>6. ASSUME NEW e \in Editors, FormApplied(e) PROVE Prepared'
  <2>1. call[e].gen # 0 BY <1>6 DEF FormApplied, Disciplined, Discipline
  <2> QED BY <1>6, <2>1, Records, PreparedResume DEF FormApplied
<1>7. ASSUME NEW e \in Editors, Retry(e) PROVE Prepared'
  <2>1. UNCHANGED <<candidate, text, memo>> /\ \E r \in Requests : requests' = Append(requests, r)
    BY <1>7, RetriedTypes, Zenon DEF Retry
  <2> QED BY <2>1, PreparedQueued
<1>8. ASSUME NEW e \in Editors, Reload(e) PROVE Prepared'
  BY <1>8, PreparedQueued DEF Reload, bridge
<1>9. ASSUME NEW e \in Editors, LoadArrives(e) PROVE Prepared'
  BY <1>9, PreparedQueued DEF LoadArrives, bridge
<1>10. ASSUME NEW e \in Editors, Timeout(e) PROVE Prepared'
  <2> SUFFICES ASSUME candidate' # NoText
               PROVE  requests' # <<>> /\ Known(Head(requests))' = {}
                      /\ candidate' = Derived(Head(requests))'
    BY DEF Prepared
  <2>1. UNCHANGED <<candidate, text, memo>> BY <1>10 DEF Timeout
  <2>2. requests # <<>> /\ Known(Head(requests)) = {} /\ candidate = Derived(Head(requests))
    BY <2>1 DEF Prepared
  <2>3. /\ requests' # <<>> /\ Head(requests').who = Head(requests).who
        /\ Head(requests').op = Head(requests).op /\ Head(requests').val = Head(requests).val
    BY <1>10, <2>2, TimedOut
  <2> QED BY <2>1, <2>2, <2>3 DEF Known, Derived, Operation
<1>11. CASE Toggle
  <2>1. UNCHANGED <<candidate, text, memo>> /\ \E r \in Requests : requests' = Append(requests, r)
    BY <1>11, OneShots DEF Toggle
  <2> QED BY <2>1, PreparedQueued
<1>12. CASE OnboardingReads BY <1>12, PreparedQueued DEF OnboardingReads, bridge
<1>13. CASE OnboardingSaves
  <2>1. onboarding.gen \in Nat BY <1>13 DEF OnboardingSaves, Types, Reading
  <2>2. UNCHANGED <<candidate, text, memo>> /\ \E r \in Requests : requests' = Append(requests, r)
    BY <1>13, <2>1, OneShots DEF OnboardingSaves
  <2> QED BY <2>2, PreparedQueued
<1>14. CASE Decline
  <2>1. candidate' = NoText BY <1>14, Zenon DEF Decline
  <2> QED BY <2>1 DEF Prepared
<1>15. CASE Derive
  <2>1. requests # <<>> /\ Known(Head(requests)) = {} /\ candidate' = Derived(Head(requests))
        /\ UNCHANGED <<requests, text, memo>>
    BY <1>15, Zenon DEF Derive
  <2> QED BY <2>1 DEF Prepared, Known, Derived, Operation
<1>16. CASE PrepareFails BY <1>16 DEF PrepareFails, Prepared
<1>17. CASE Commit
  <2>1. candidate' = NoText BY <1>17, Zenon DEF Commit
  <2> QED BY <2>1 DEF Prepared
<1>18. CASE Crash
  <2>1. candidate' = NoText BY <1>18, Zenon DEF Crash
  <2> QED BY <2>1 DEF Prepared
<1>19. CASE UNCHANGED vars BY <1>19, PreparedQueued DEF vars
<1> QED
  BY <1>1, <1>2, <1>3, <1>4, <1>5, <1>6, <1>7, <1>8, <1>9, <1>10, <1>11, <1>12, <1>13, <1>14, <1>15,
     <1>16, <1>17, <1>18, <1>19 DEF Next

-----------------------------------------------------------------------------
(* The invariant. *)

\* Together they are inductive.
SaveInv == Types /\ Disciplined /\ Single /\ Prepared

\* The invariant holds in every reachable state.
LEMMA SaveInvHolds == Spec => []SaveInv
<1>1. Init => SaveInv
  <2> SUFFICES ASSUME Init PROVE Single /\ Prepared
    BY TypesInit, DisciplineInit DEF SaveInv
  <2>1. DOMAIN <<>> = {} BY EmptyDomain
  <2> QED BY <2>1 DEF Init, Single, Prepared
<1>2. SaveInv /\ [Next]_vars => SaveInv'
  BY TypesStep, DisciplineStep, SingleStep, PreparedStep DEF SaveInv
<1> QED BY <1>1, <1>2, PTL DEF Spec

(* In every reachable state each variable has its type, and the draft queues their  *)
(* discipline: SerialDraftQueue runs exactly while its attempt is in flight, what it  *)
(* holds back is newer than that attempt, and a live request at the apply lock is one *)
(* its editor still waits for.                                                        *)
THEOREM TypeCorrect == Spec => []TypeOK
<1>1. SaveInv => TypeOK
  <2> SUFFICES ASSUME SaveInv PROVE TypeOK OBVIOUS
  <2>1. /\ text \in [Parts -> Shown] /\ generation \in Nat \ {0} /\ Len(memo) <= MemoLimit
        /\ candidate \in {NoText} \cup [Parts -> Shown]
        /\ candidate # NoText => requests # <<>>
    BY DEF SaveInv, Types, Prepared
  <2>2. ASSUME NEW e \in Editors
        PROVE  /\ {ed[e].draft, ed[e].snap} \subseteq Shown /\ {ed[e].queued, ed[e].attempted} \subseteq Optional
               /\ ed[e].running <=> call[e].at # "none"
               /\ ed[e].queued.set => (ed[e].running \/ ed[e].paused) /\ ed[e].queued # ed[e].attempted
               /\ call[e].at \in {"none", "sent", "done", "read"}
    <3>1. ed[e] \in Queue /\ call[e] \in Attempt /\ Discipline(e) BY DEF SaveInv, Types, Disciplined
    <3> QED BY <3>1 DEF Queue, Attempt, Discipline
  <2>3. \A i \in DOMAIN requests : requests[i].live => call[requests[i].who].at = "sent"
    BY DEF SaveInv, Single
  <2>4. candidate = NoText \/ (candidate \in [Parts -> Shown] /\ requests # <<>>) BY <2>1
  <2> QED BY <2>1, <2>2, <2>3, <2>4, Zenon DEF TypeOK
<1> QED BY <1>1, SaveInvHolds, PTL

(* Whatever the editors, the switch and the onboarding send, time out, retry or lose  *)
(* to a crash: a step that changes a part of the text is the request of that part's   *)
(* writer at the head of the apply lock, and writes its value (apply.py derives under *)
(* the lock).                                                                         *)
THEOREM OthersKeptCorrect == Spec => OthersKept
<1> DEFINE Kept == \A p \in Parts : text'[p] # text[p] =>
             requests # <<>> /\ Part(Head(requests).who) = p /\ text'[p] = Head(requests).val
<1>1. SaveInv /\ [Next]_vars => [Kept]_vars
  <2> SUFFICES ASSUME SaveInv, [Next]_vars PROVE Kept OBVIOUS
  <2>0. Types /\ Single /\ Prepared BY DEF SaveInv
  <2>1. CASE UNCHANGED text BY <2>1
  <2>2. CASE Commit
    <3>1. Committed BY <2>0, <2>2, Commits
    <3>2. text' = Derived(Head(requests)) /\ requests # <<>> /\ Head(requests) \in Requests
      BY <3>1 DEF Committed
    <3> QED BY <2>0, <3>2, DerivedText
  <2>3. CASE Crash
    <3>1. text' \in {text} \cup ({candidate} \ {NoText}) BY <2>3, Zenon DEF Crash
    <3>2. CASE text' = candidate /\ candidate # NoText
      <4>1. requests # <<>> /\ candidate = Derived(Head(requests)) BY <2>0, <3>2 DEF Prepared
      <4>2. Head(requests) \in Requests BY <2>0, <4>1, Tailed DEF Types
      <4> QED BY <2>0, <3>2, <4>1, <4>2, DerivedText
    <3> QED BY <3>1, <3>2
  <2> QED
    BY <2>1, <2>2, <2>3 DEF Next, vars, bridge, others, Edit, Effect, AttemptFails, PanelSaved, FormSaved,
       FormApplied, Retry, Reload, LoadArrives, Timeout, Toggle, OnboardingReads, OnboardingSaves,
       Decline, Derive, PrepareFails
<1> QED BY <1>1, SaveInvHolds, PTL DEF Spec, OthersKept

-----------------------------------------------------------------------------
(* The memo.                                                               *)

\* The memo has room for every operation of every writer.
EnoughMemo ==
  /\ IsFiniteSet(Writers \X (1..MaxDrains))
  /\ Cardinality(Writers \X (1..MaxDrains)) <= MemoLimit

MemoInv == Remembered /\ Unique

\* What is remembered of operations once each never fills the memo.
LEMMA Room ==
  ASSUME EnoughMemo, NEW n \in Nat, NEW m \in [1..n -> Memory],
         \A i, j \in 1..n : m[i].op = m[j].op => i = j
  PROVE  n <= MemoLimit
<1> DEFINE S == Writers \X (1..MaxDrains)
           f == [i \in 1..n |-> m[i].op]
<1>1. \A i \in 1..n : m[i].op \in S BY DEF Memory
<1>2. f \in [1..n -> S] BY <1>1
<1>3. \A i, j \in 1..n : f[i] = f[j] => i = j OBVIOUS
<1> HIDE DEF f, S
<1>4. f \in Injection(1..n, S) BY <1>2, <1>3, Zenon DEF Injection, IsInjective
<1>5. IsFiniteSet(S) BY DEF EnoughMemo, S
<1>6. Cardinality(1..n) <= Cardinality(S) BY <1>4, <1>5, FS_Injection
<1>7. Cardinality(1..n) = n
  <2>1. 0 \in Int /\ 1 \in Int /\ n \in Int OBVIOUS
  <2>2. Cardinality(1..n) = IF 1 > n THEN 0 ELSE n - 1 + 1 BY <2>1, FS_Interval
  <2> QED BY <2>2
<1>8. Cardinality(S) <= MemoLimit BY DEF EnoughMemo, S
<1>9. Cardinality(S) \in Nat /\ MemoLimit \in Nat BY <1>5, FS_CardinalityType, SettingsAssumption
<1> QED BY <1>6, <1>7, <1>8, <1>9

\* A commit remembers its operation behind all the others.
LEMMA CommitRemembers ==
  ASSUME EnoughMemo, Types, Unique, Committed
  PROVE  /\ Len(memo) \in Nat /\ DOMAIN memo = 1..Len(memo)
         /\ Len(memo') = Len(memo) + 1 /\ DOMAIN memo' = 1..Len(memo) + 1
         /\ \A i \in 1..Len(memo) : memo'[i] = memo[i]
         /\ memo'[Len(memo) + 1].op = Operation(Head(requests))
         /\ \A i \in 1..Len(memo) : memo[i].op # Operation(Head(requests))
<1> DEFINE r == Head(requests)
           all == Append(memo, [op |-> Operation(r), gen |-> generation'])
<1>1. r \in Requests /\ Known(r) = {} /\ generation' \in Nat \ {0} /\ memo' = Remember(r, generation')
  BY DEF Committed
<1> HIDE DEF r
<1>2. /\ all \in Seq(Memory) /\ DOMAIN all = 1..Len(memo) + 1 /\ DOMAIN memo = 1..Len(memo)
      /\ Len(memo) \in Nat
      /\ \A i \in 1..Len(memo) : all[i] = memo[i]
      /\ all[Len(memo) + 1].op = Operation(r)
      /\ memo' = IF Len(memo) + 1 > MemoLimit THEN Tail(all) ELSE all
  BY <1>1, Remembers
<1>3. \A i \in 1..Len(memo) : memo[i].op # Operation(r) BY <1>1, <1>2 DEF Known
<1> HIDE DEF all
<1>4. ASSUME NEW i \in 1..Len(memo) + 1, NEW j \in 1..Len(memo) + 1, all[i].op = all[j].op
      PROVE  i = j
  <2>1. i \in 1..Len(memo) \/ i = Len(memo) + 1 BY <1>2
  <2>2. j \in 1..Len(memo) \/ j = Len(memo) + 1 BY <1>2
  <2> QED BY <1>2, <1>3, <1>4, <2>1, <2>2 DEF Unique
<1>5. Len(memo) + 1 <= MemoLimit
  <2>1. Len(memo) + 1 \in Nat BY <1>2
  <2>2. all \in [1..Len(memo) + 1 -> Memory]
    <3>1. \A i \in 1..Len(memo) + 1 : all[i] \in Memory BY <1>2, LenProperties, ElementOfSeq
    <3>2. all = [i \in DOMAIN all |-> all[i]] BY <1>2, LenProperties
    <3> QED BY <1>2, <3>1, <3>2
  <2> QED BY <1>4, <2>1, <2>2, Room
<1>6. memo' = all BY <1>2, <1>5, SettingsAssumption
<1>7. Len(all) = Len(memo) + 1 BY <1>2, LenProperties
<1> QED BY <1>2, <1>3, <1>6, <1>7 DEF r

\* Nothing is forgotten and nothing remembered twice.
LEMMA MemoStep == EnoughMemo /\ SaveInv /\ MemoInv /\ [Next]_vars => MemoInv'
<1> SUFFICES ASSUME EnoughMemo, SaveInv, MemoInv, [Next]_vars PROVE MemoInv'
  OBVIOUS
<1>1. CASE UNCHANGED <<memo, done>> BY <1>1 DEF MemoInv, Remembered, Unique
<1>2. CASE Commit
  <2>1. Committed BY <1>2, Commits DEF SaveInv
  <2>2. /\ Len(memo) \in Nat /\ DOMAIN memo = 1..Len(memo) /\ DOMAIN memo' = 1..Len(memo) + 1
        /\ \A i \in 1..Len(memo) : memo'[i] = memo[i]
        /\ memo'[Len(memo) + 1].op = Operation(Head(requests))
        /\ \A i \in 1..Len(memo) : memo[i].op # Operation(Head(requests))
    BY <2>1, CommitRemembers DEF SaveInv, MemoInv
  <2>3. ASSUME NEW i \in DOMAIN memo', NEW j \in DOMAIN memo', memo'[i].op = memo'[j].op PROVE i = j
    <3>1. i \in 1..Len(memo) \/ i = Len(memo) + 1 BY <2>2
    <3>2. j \in 1..Len(memo) \/ j = Len(memo) + 1 BY <2>2
    <3> QED BY <2>2, <2>3, <3>1, <3>2 DEF MemoInv, Unique
  <2>4. ASSUME NEW op \in done' PROVE \E i \in DOMAIN memo' : memo'[i].op = op
    <3>1. op \in done \/ op = Operation(Head(requests)) BY <2>1 DEF Committed
    <3>2. CASE op \in done
      <4>1. PICK i \in DOMAIN memo : memo[i].op = op BY <3>2 DEF MemoInv, Remembered
      <4>2. i \in DOMAIN memo' /\ memo'[i].op = op BY <2>2, <4>1
      <4> QED BY <4>2
    <3>3. CASE op = Operation(Head(requests))
      <4>1. Len(memo) + 1 \in DOMAIN memo' BY <2>2
      <4> QED BY <2>2, <3>3, <4>1
    <3> QED BY <3>1, <3>2, <3>3
  <2> QED BY <2>3, <2>4 DEF MemoInv, Remembered, Unique
<1>3. CASE Crash
  <2>1. memo' = <<>> /\ done' = {} BY <1>3, Zenon DEF Crash
  <2> QED BY <2>1, EmptyDomain DEF MemoInv, Remembered, Unique
<1> QED
  BY <1>1, <1>2, <1>3 DEF Next, vars, bridge, others, Edit, Effect, AttemptFails, PanelSaved, FormSaved,
     FormApplied, Retry, Reload, LoadArrives, Timeout, Toggle, OnboardingReads, OnboardingSaves,
     Decline, Derive, PrepareFails

(* While the memo has room for all operations, one bridge process commits an          *)
(* operation id at most once, however often the save is retried or timed out: every   *)
(* committed operation is remembered, once, and Decline answers what is remembered.   *)
THEOREM AppliedOnceCorrect == EnoughMemo => (Spec => AppliedOnce)
<1> SUFFICES ASSUME EnoughMemo PROVE Spec => AppliedOnce OBVIOUS
<1> DEFINE Once == \A op \in done' : memo' # memo /\ memo'[Len(memo')].op = op => op \notin done
<1>1. Init => MemoInv
  <2>1. Init => memo = <<>> /\ done = {} BY DEF Init
  <2> QED BY <2>1, EmptyDomain DEF MemoInv, Remembered, Unique
<1>2. SaveInv /\ MemoInv /\ [Next]_vars => MemoInv' BY MemoStep
<1>3. SaveInv /\ MemoInv /\ [Next]_vars => [Once]_vars
  <2> SUFFICES ASSUME SaveInv, MemoInv, [Next]_vars PROVE Once OBVIOUS
  <2>1. CASE UNCHANGED memo BY <2>1
  <2>2. CASE Commit
    <3>1. Committed BY <2>2, Commits DEF SaveInv
    <3>2. /\ Len(memo) \in Nat /\ DOMAIN memo = 1..Len(memo)
          /\ memo'[Len(memo')].op = Operation(Head(requests))
          /\ \A i \in 1..Len(memo) : memo[i].op # Operation(Head(requests))
      BY <3>1, CommitRemembers DEF SaveInv, MemoInv
    <3>3. Operation(Head(requests)) \notin done BY <3>2 DEF MemoInv, Remembered
    <3> QED BY <3>2, <3>3
  <2>3. CASE Crash
    <3>1. done' = {} BY <2>3, Zenon DEF Crash
    <3> QED BY <3>1
  <2> QED
    BY <2>1, <2>2, <2>3 DEF Next, vars, bridge, others, Edit, Effect, AttemptFails, PanelSaved, FormSaved,
       FormApplied, Retry, Reload, LoadArrives, Timeout, Toggle, OnboardingReads, OnboardingSaves,
       Decline, Derive, PrepareFails
<1> QED BY <1>1, <1>2, <1>3, SaveInvHolds, PTL DEF Spec, AppliedOnce

-----------------------------------------------------------------------------
(* What a form knows of its tables.                                        *)

\* Current, of the state after a step.
StillCurrent(e, g, v) ==
  \/ Alone(e)' /\ v = text'["form"]
  \/ "crash" \notin left' /\ g <= generation' /\ (g = generation' => v = text'["form"])

\* FormKnows, of the state after a step.
KnowsAfter(e) ==
  /\ "crash" \in left' => Alone(e)'
  /\ load'[e] # Unread /\ ~ ed'[e].running => StillCurrent(e, load'[e].gen, load'[e].val)
  /\ ~ ed'[e].running /\ ~ ed'[e].failed =>
       /\ StillCurrent(e, ed'[e].expect, ed'[e].snap)
       /\ ed'[e].attempted.set => StillCurrent(e, ed'[e].expect, ed'[e].attempted.val)
       /\ ed'[e].dirty \/ ed'[e].draft = ed'[e].snap \/ ed'[e].attempted = Some(ed'[e].draft)
  /\ call'[e].at \in {"done", "read"} /\ call'[e].out = "ok" => StillCurrent(e, call'[e].gen, call'[e].val)
  /\ \A i \in DOMAIN requests' : requests'[i].who = e =>
       requests'[i].live /\ requests'[i].op = ed'[e].op /\ requests'[i].val = call'[e].val
  /\ \A i \in DOMAIN memo' : memo'[i].op[1] = e =>
       /\ memo'[i].op[2] <= ed'[e].op
       /\ memo'[i].op[2] = ed'[e].op =>
            /\ ed'[e].running => StillCurrent(e, memo'[i].gen, call'[e].val)
            /\ ed'[e].attempted.set => StillCurrent(e, memo'[i].gen, ed'[e].attempted.val)

\* KnowsAfter is FormKnows one step later.
LEMMA Knowing == ASSUME NEW e, KnowsAfter(e) PROVE FormKnows(e)'
BY DEF KnowsAfter, StillCurrent, FormKnows, Current

\* Nobody joins a form that writes its tables alone, and no crash comes back.
LEMMA StaysAlone ==
  ASSUME SaveInv, [Next]_vars, NEW f \in Forms
  PROVE  left' \subseteq left /\ (Alone(f) => Alone(f)')
<1> USE DEF SaveInv
<1>0. f \in Editors /\ requests \in Seq(Requests) BY DEF Editors, Types
<1>1. ASSUME left' \subseteq left, onboarding' = onboarding,
             UNCHANGED requests
             \/ \E r \in Requests : r.who # "onboarding" /\ requests' = Append(requests, r)
      PROVE  left' \subseteq left /\ (Alone(f) => Alone(f)')
  <2>1. CASE UNCHANGED requests BY <1>1, <2>1 DEF Alone
  <2>2. ASSUME NEW r \in Requests, r.who # "onboarding", requests' = Append(requests, r)
        PROVE  left' \subseteq left /\ (Alone(f) => Alone(f)')
    <3>1. /\ Len(requests) \in Nat /\ DOMAIN requests = 1..Len(requests)
          /\ DOMAIN requests' = 1..Len(requests) + 1
          /\ \A i \in 1..Len(requests) : requests'[i] = requests[i]
          /\ requests'[Len(requests) + 1] = r
      BY <1>0, <2>2, Appended
    <3>2. ASSUME NEW i \in DOMAIN requests', Alone(f) PROVE requests'[i].who # "onboarding"
      <4>1. i \in 1..Len(requests) \/ i = Len(requests) + 1 BY <3>1
      <4> QED BY <2>2, <3>1, <3>2, <4>1 DEF Alone
    <3> QED BY <1>1, <3>2 DEF Alone
  <2> QED BY <1>1, <2>1, <2>2
<1>2. ASSUME left' \subseteq left, onboarding' = onboarding, requests # <<>>, requests' = Tail(requests)
      PROVE  left' \subseteq left /\ (Alone(f) => Alone(f)')
  <2>1. /\ Len(requests) \in Nat /\ DOMAIN requests = 1..Len(requests)
        /\ DOMAIN requests' = 1..Len(requests) - 1
        /\ \A i \in 1..Len(requests) - 1 : requests'[i] = requests[i + 1]
    BY <1>0, <1>2, Tailed
  <2>2. ASSUME NEW i \in DOMAIN requests' PROVE i + 1 \in DOMAIN requests /\ requests'[i] = requests[i + 1]
    BY <2>1
  <2> QED BY <1>2, <2>2 DEF Alone
<1>3. ASSUME NEW e \in Editors, NEW r \in Queue, Resume(e, r), UNCHANGED others
      PROVE  left' \subseteq left /\ (Alone(f) => Alone(f)')
  <2>1. e # "onboarding" /\ Request(e, Drained(r)).who = e BY SettingsAssumption DEF Request
  <2> HIDE DEF Request
  <2> QED BY <1>1, <1>3, <2>1, ResumeCases DEF others
<1>4. ASSUME NEW e \in Editors, Effect(e) PROVE left' \subseteq left /\ (Alone(f) => Alone(f)')
  BY <1>3, <1>4, Records DEF Effect
<1>5. ASSUME NEW e \in Editors, AttemptFails(e) PROVE left' \subseteq left /\ (Alone(f) => Alone(f)')
  <2> DEFINE p == ~ResumesAutomatically(e, call[e].out)
             r == [ed[e] EXCEPT !.running = FALSE, !.failed = TRUE, !.paused = p]
  <2>1. r \in Queue
    <3>1. p \in BOOLEAN OBVIOUS
    <3> QED BY <3>1, Records
  <2>2. Resume(e, r) /\ UNCHANGED others BY <1>5, Zenon DEF AttemptFails
  <2> HIDE DEF r
  <2> QED BY <1>3, <2>1, <2>2
<1>6. ASSUME NEW e \in Editors, PanelSaved(e) PROVE left' \subseteq left /\ (Alone(f) => Alone(f)')
  BY <1>3, <1>6, Records DEF PanelSaved
<1>7. ASSUME NEW e \in Editors, FormApplied(e) PROVE left' \subseteq left /\ (Alone(f) => Alone(f)')
  <2>1. call[e].gen # 0 BY <1>7 DEF FormApplied, Disciplined, Discipline
  <2> QED BY <1>3, <1>7, <2>1, Records DEF FormApplied
<1>8. ASSUME NEW e \in Editors, Retry(e) PROVE left' \subseteq left /\ (Alone(f) => Alone(f)')
  <2> DEFINE r == Request(e, [ed[e] EXCEPT !.failed = FALSE, !.running = TRUE])
  <2>1. e # "onboarding" /\ r.who = e BY SettingsAssumption DEF Request
  <2>2. r \in Requests BY <1>8, RetriedTypes
  <2>3. requests' = Append(requests, r) /\ UNCHANGED others BY <1>8, Zenon DEF Retry
  <2> HIDE DEF r
  <2> QED BY <1>1, <2>1, <2>2, <2>3 DEF others
<1>9. ASSUME NEW e \in Editors, Timeout(e) PROVE left' \subseteq left /\ (Alone(f) => Alone(f)')
  <2>1. DOMAIN requests' = DOMAIN requests
        /\ \A i \in DOMAIN requests : requests'[i].who = requests[i].who
    BY <1>9, TimedOut
  <2>2. left' \subseteq left /\ onboarding' = onboarding BY <1>9 DEF Timeout
  <2> QED BY <2>1, <2>2 DEF Alone
<1>10. CASE Toggle
  <2>1. OneShot("toggle", Added, 0) \in Requests /\ OneShot("toggle", Added, 0).who = "toggle"
    BY OneShots DEF OneShot
  <2> HIDE DEF OneShot
  <2> QED BY <1>1, <1>10, <2>1 DEF Toggle
<1>11. CASE OnboardingReads \/ OnboardingSaves
  <2>1. ~ Alone(f) BY <1>11 DEF Alone, OnboardingReads, OnboardingSaves
  <2>2. left' \subseteq left BY <1>11 DEF OnboardingReads, OnboardingSaves
  <2> QED BY <2>1, <2>2
<1>12. CASE Decline
  <2>1. requests # <<>> /\ requests' = Tail(requests) BY <1>12, Declines DEF Answer
  <2>2. UNCHANGED others BY <1>12, Zenon DEF Decline
  <2> QED BY <1>2, <2>1, <2>2 DEF others
<1>13. CASE PrepareFails
  BY <1>2, <1>13 DEF PrepareFails, Prepared, Answer
<1>14. CASE Commit
  <2>1. Committed BY <1>14, Commits
  <2> QED BY <1>2, <1>14, <2>1 DEF Committed, Commit, others
<1>15. CASE Crash
  <2>1. left' = left \ {"crash"} /\ UNCHANGED onboarding /\ requests' = <<>> BY <1>15, Zenon DEF Crash
  <2> QED BY <2>1, EmptyDomain DEF Alone
<1>16. CASE \/ \E e \in Editors : Edit(e) \/ FormSaved(e) \/ Reload(e) \/ LoadArrives(e)
            \/ Derive \/ UNCHANGED vars
  BY <1>1, <1>16 DEF Edit, FormSaved, Reload, LoadArrives, Derive, vars, bridge, others
<1> QED
  BY <1>4, <1>5, <1>6, <1>7, <1>8, <1>9, <1>10, <1>11, <1>12, <1>13, <1>14, <1>15, <1>16 DEF Next

\* What was current still is.
Kept(f) ==
  /\ "crash" \in left' => Alone(f)'
  /\ \A g \in Nat, v \in Shown : Current(f, g, v) => StillCurrent(f, g, v)

\* A step that leaves the form's tables alone, or that moves the generation on, leaves
\* true what was known of them.
LEMMA StaysCurrent ==
  ASSUME SaveInv, [Next]_vars, NEW f \in Forms, "crash" \in left => Alone(f),
         Alone(f) => text'["form"] = text["form"],
         "crash" \notin left => \/ text'["form"] = text["form"] /\ generation' = generation
                                \/ generation' = generation + 1
  PROVE  Kept(f)
<1>1. left' \subseteq left /\ (Alone(f) => Alone(f)') BY StaysAlone
<1>2. generation \in Nat BY DEF SaveInv, Types
<1>3. ASSUME NEW g \in Nat, NEW v \in Shown, Current(f, g, v) PROVE StillCurrent(f, g, v)
  <2>1. CASE Alone(f) /\ v = text["form"] BY <1>1, <2>1 DEF StillCurrent
  <2>2. CASE "crash" \notin left /\ g <= generation /\ (g = generation => v = text["form"])
    <3>1. CASE text'["form"] = text["form"] /\ generation' = generation
      BY <1>1, <2>2, <3>1 DEF StillCurrent
    <3>2. CASE generation' = generation + 1
      <4>1. g <= generation' /\ g # generation' BY <1>2, <2>2, <3>2
      <4> QED BY <1>1, <2>2, <4>1 DEF StillCurrent
    <3> QED BY <2>2, <3>1, <3>2
  <2> QED BY <1>3, <2>1, <2>2 DEF Current
<1> QED BY <1>1, <1>3 DEF Kept

\* What of a form's record the proofs look at.
LEMMA Fields ==
  ASSUME Types, NEW f \in Editors
  PROVE  /\ ed[f].expect \in Nat /\ ed[f].snap \in Shown /\ ed[f].attempted.val \in Shown
         /\ ed[f].op \in Nat
         /\ call[f].gen \in Nat /\ call[f].val \in Shown
         /\ load[f] # Unread => load[f].gen \in Nat /\ load[f].val \in Shown
         /\ memo \in Seq(Memory)
         /\ \A i \in DOMAIN memo : memo[i] \in Memory /\ memo[i].gen \in Nat /\ memo[i].op[2] \in Nat
<1>1. ed[f] \in Queue /\ call[f] \in Attempt /\ load[f] \in Reading /\ memo \in Seq(Memory)
  BY DEF Types
<1>2. \A i \in DOMAIN memo : memo[i] \in Memory BY <1>1, LenProperties, ElementOfSeq
<1>3. MaxDrains \in Nat BY SettingsAssumption
<1>4. \A i \in DOMAIN memo : memo[i].gen \in Nat /\ memo[i].op[2] \in Nat BY <1>2, <1>3 DEF Memory
<1> QED BY <1>1, <1>2, <1>3, <1>4 DEF Queue, Attempt, Reading, Optional

\* A step that is not the form's own.
Bystander(f) ==
  /\ ed'[f] = ed[f] /\ call'[f] = call[f] /\ load'[f] = load[f]
  /\ \A i \in DOMAIN requests' : requests'[i].who = f =>
       \E j \in DOMAIN requests :
          /\ requests[j].who = f /\ requests[j].op = requests'[i].op
          /\ requests[j].val = requests'[i].val /\ (requests[j].live => requests'[i].live)
  /\ \A i \in DOMAIN memo' : memo'[i].op[1] = f => \E j \in DOMAIN memo : memo[j] = memo'[i]

\* Whoever else moves: the form knows what it knew.
LEMMA BystanderKnows ==
  ASSUME SaveInv, NEW f \in Forms, FormKnows(f), Kept(f), Bystander(f)
  PROVE  KnowsAfter(f)
<1> f \in Editors BY DEF Editors
<1>1. Types BY DEF SaveInv
<1>2. "crash" \in left' => Alone(f)' BY DEF Kept
<1>3. ASSUME load'[f] # Unread, ~ ed'[f].running
      PROVE  StillCurrent(f, load'[f].gen, load'[f].val)
  <2>1. load[f] # Unread /\ ~ ed[f].running /\ load'[f] = load[f] BY <1>3 DEF Bystander
  <2>2. Current(f, load[f].gen, load[f].val) BY <2>1 DEF FormKnows
  <2>3. load[f].gen \in Nat /\ load[f].val \in Shown BY <1>1, <2>1, Fields
  <2> QED BY <2>1, <2>2, <2>3 DEF Kept
<1>4. ASSUME ~ ed'[f].running, ~ ed'[f].failed
      PROVE  /\ StillCurrent(f, ed'[f].expect, ed'[f].snap)
             /\ ed'[f].attempted.set => StillCurrent(f, ed'[f].expect, ed'[f].attempted.val)
             /\ ed'[f].dirty \/ ed'[f].draft = ed'[f].snap \/ ed'[f].attempted = Some(ed'[f].draft)
  <2>1. ed'[f] = ed[f] BY DEF Bystander
  <2>2. /\ Current(f, ed[f].expect, ed[f].snap)
        /\ ed[f].attempted.set => Current(f, ed[f].expect, ed[f].attempted.val)
        /\ ed[f].dirty \/ ed[f].draft = ed[f].snap \/ ed[f].attempted = Some(ed[f].draft)
    BY <1>4, <2>1 DEF FormKnows
  <2>3. ed[f].expect \in Nat /\ ed[f].snap \in Shown /\ ed[f].attempted.val \in Shown BY <1>1, Fields
  <2> QED BY <2>1, <2>2, <2>3 DEF Kept
<1>5. ASSUME call'[f].at \in {"done", "read"}, call'[f].out = "ok"
      PROVE  StillCurrent(f, call'[f].gen, call'[f].val)
  <2>1. call'[f] = call[f] BY DEF Bystander
  <2>2. Current(f, call[f].gen, call[f].val) BY <1>5, <2>1 DEF FormKnows
  <2>3. call[f].gen \in Nat /\ call[f].val \in Shown BY <1>1, Fields
  <2> QED BY <2>1, <2>2, <2>3 DEF Kept
<1>6. ASSUME NEW i \in DOMAIN requests', requests'[i].who = f
      PROVE  requests'[i].live /\ requests'[i].op = ed'[f].op /\ requests'[i].val = call'[f].val
  BY <1>6 DEF Bystander, FormKnows
<1>7. ASSUME NEW i \in DOMAIN memo', memo'[i].op[1] = f
      PROVE  /\ memo'[i].op[2] <= ed'[f].op
             /\ memo'[i].op[2] = ed'[f].op =>
                  /\ ed'[f].running => StillCurrent(f, memo'[i].gen, call'[f].val)
                  /\ ed'[f].attempted.set => StillCurrent(f, memo'[i].gen, ed'[f].attempted.val)
  <2>1. PICK j \in DOMAIN memo : memo[j] = memo'[i] BY <1>7 DEF Bystander
  <2>2. memo[j].op[1] = f BY <1>7, <2>1
  <2>3. /\ memo[j].op[2] <= ed[f].op
        /\ memo[j].op[2] = ed[f].op =>
             /\ ed[f].running => Current(f, memo[j].gen, call[f].val)
             /\ ed[f].attempted.set => Current(f, memo[j].gen, ed[f].attempted.val)
    BY <2>2 DEF FormKnows
  <2>4. memo[j].gen \in Nat /\ call[f].val \in Shown /\ ed[f].attempted.val \in Shown BY <1>1, Fields
  <2>5. ed'[f] = ed[f] /\ call'[f] = call[f] BY DEF Bystander
  <2> QED BY <2>1, <2>3, <2>4, <2>5 DEF Kept
<1> QED BY <1>2, <1>3, <1>4, <1>5, <1>6, <1>7 DEF KnowsAfter

\* What the form hands to its queue: a record that claims no more than is known.
Claims(f, r) ==
  /\ r.op = ed[f].op /\ r.attempted = ed[f].attempted /\ (r.running => ed[f].running)
  /\ call[f].at = "sent" => r.running
  /\ load[f] # Unread /\ ~ r.running => ~ ed[f].running
  /\ ~ r.running /\ ~ r.failed /\ (r.queued.set => r.paused) =>
       /\ Current(f, r.expect, r.snap)
       /\ r.attempted.set => Current(f, r.expect, r.attempted.val)
       /\ r.dirty \/ r.draft = r.snap \/ r.attempted = Some(r.draft)

\* The form itself hands a record to its queue.
LEMMA ResumeKnows ==
  ASSUME SaveInv, NEW f \in Forms, FormKnows(f), Kept(f), NEW r \in Queue, Resume(f, r), Claims(f, r),
         UNCHANGED <<load, memo>>
  PROVE  KnowsAfter(f)
<1> f \in Editors BY DEF Editors
<1>1. Types /\ Discipline(f) /\ Single BY DEF SaveInv, Disciplined
<1>2. /\ \A i \in DOMAIN requests : requests[i].who = f =>
           requests[i].live /\ requests[i].op = ed[f].op /\ requests[i].val = call[f].val
      /\ \A i \in DOMAIN memo : memo[i].op[1] = f =>
           /\ memo[i].op[2] <= ed[f].op
           /\ memo[i].op[2] = ed[f].op =>
                /\ ed[f].running => Current(f, memo[i].gen, call[f].val)
                /\ ed[f].attempted.set => Current(f, memo[i].gen, ed[f].attempted.val)
  BY DEF FormKnows
<1>3. \A i \in DOMAIN requests : requests[i].who = f => r.running
  BY <1>1, <1>2 DEF Single, Claims
<1>4. "crash" \in left' => Alone(f)' BY DEF Kept
<1>5. r.expect \in Nat /\ r.snap \in Shown /\ r.attempted.val \in Shown
  BY DEF Queue, Optional
<1>6. CASE /\ r.queued.set /\ ~ r.running /\ ~ r.paused
           /\ MayDrain(f) /\ ed'[f] = Drained(r) /\ call'[f] = Sent(r.queued.val)
           /\ Request(f, Drained(r)) \in Requests
           /\ requests' = Append(requests, Request(f, Drained(r)))
  <2>1. Drained(r).op = ed[f].op + 1
    <3>1. ed[f].op < MaxDrains BY <1>6 DEF MayDrain
    <3>2. r.op = ed[f].op /\ ed[f].op \in Nat /\ MaxDrains \in Nat \ {0}
      BY <1>1, Fields, SettingsAssumption DEF Claims
    <3>3. r.op % MaxDrains = r.op BY <3>1, <3>2
    <3>4. Drained(r).op = (r.op % MaxDrains) + 1 BY DEF Drained, Queue
    <3> QED BY <3>2, <3>3, <3>4
  <2>2. Drained(r).running /\ Drained(r).attempted = r.queued BY DEF Drained, Queue
  <2>3. call'[f].at = "sent" /\ call'[f].val = r.queued.val BY <1>6 DEF Sent, NoCall
  <2>4. ASSUME NEW i \in DOMAIN requests', requests'[i].who = f
        PROVE  requests'[i].live /\ requests'[i].op = ed'[f].op /\ requests'[i].val = call'[f].val
    <3> DEFINE q == Request(f, Drained(r))
    <3>1. q.live /\ q.op = Drained(r).op /\ q.val = Drained(r).attempted.val BY DEF Request
    <3> HIDE DEF q
    <3>2. /\ Len(requests) \in Nat /\ DOMAIN requests = 1..Len(requests)
          /\ DOMAIN requests' = 1..Len(requests) + 1
          /\ \A k \in 1..Len(requests) : requests'[k] = requests[k]
          /\ requests'[Len(requests) + 1] = q
      BY <1>1, <1>6, Appended DEF Types, q
    <3>3. i \in 1..Len(requests) \/ i = Len(requests) + 1 BY <3>2
    <3>4. i \notin 1..Len(requests) BY <1>3, <1>6, <2>4, <3>2
    <3> QED BY <1>6, <2>2, <2>3, <3>1, <3>2, <3>3, <3>4
  <2>5. ASSUME NEW i \in DOMAIN memo', memo'[i].op[1] = f
        PROVE  memo'[i].op[2] <= ed'[f].op /\ memo'[i].op[2] # ed'[f].op
    <3>1. memo' = memo /\ i \in DOMAIN memo OBVIOUS
    <3>2. memo[i].op[2] <= ed[f].op /\ memo[i].op[2] \in Nat /\ ed[f].op \in Nat
      BY <1>1, <1>2, <2>5, <3>1, Fields
    <3>3. ed'[f].op = ed[f].op + 1 BY <1>6, <2>1
    <3> QED BY <3>1, <3>2, <3>3
  <2>6. ed'[f].running BY <1>6, <2>2
  <2> QED BY <1>4, <2>3, <2>4, <2>5, <2>6 DEF KnowsAfter
<1>7. CASE /\ ~ (r.queued.set /\ ~ r.running /\ ~ r.paused)
           /\ ed'[f] = r /\ call'[f] = (IF r.running THEN call[f] ELSE NoCall)
           /\ UNCHANGED requests
  <2>1. ASSUME load'[f] # Unread, ~ ed'[f].running
        PROVE  StillCurrent(f, load'[f].gen, load'[f].val)
    <3>1. load[f] # Unread /\ ~ ed[f].running BY <1>7, <2>1 DEF Claims
    <3>2. Current(f, load[f].gen, load[f].val) BY <3>1 DEF FormKnows
    <3> QED BY <1>1, <3>1, <3>2, Fields DEF Kept
  <2>2. ASSUME ~ ed'[f].running, ~ ed'[f].failed
        PROVE  /\ StillCurrent(f, ed'[f].expect, ed'[f].snap)
               /\ ed'[f].attempted.set => StillCurrent(f, ed'[f].expect, ed'[f].attempted.val)
               /\ ed'[f].dirty \/ ed'[f].draft = ed'[f].snap \/ ed'[f].attempted = Some(ed'[f].draft)
    BY <1>5, <1>7, <2>2 DEF Claims, Kept
  <2>3. ASSUME call'[f].at \in {"done", "read"}, call'[f].out = "ok"
        PROVE  StillCurrent(f, call'[f].gen, call'[f].val)
    <3>1. call'[f] = call[f] BY <1>7, <2>3 DEF NoCall
    <3>2. Current(f, call[f].gen, call[f].val) BY <2>3, <3>1 DEF FormKnows
    <3> QED BY <1>1, <3>1, <3>2, Fields DEF Kept
  <2>4. ASSUME NEW i \in DOMAIN requests', requests'[i].who = f
        PROVE  requests'[i].live /\ requests'[i].op = ed'[f].op /\ requests'[i].val = call'[f].val
    BY <1>2, <1>3, <1>7, <2>4 DEF Claims
  <2>5. ASSUME NEW i \in DOMAIN memo', memo'[i].op[1] = f
        PROVE  /\ memo'[i].op[2] <= ed'[f].op
               /\ memo'[i].op[2] = ed'[f].op =>
                    /\ ed'[f].running => StillCurrent(f, memo'[i].gen, call'[f].val)
                    /\ ed'[f].attempted.set => StillCurrent(f, memo'[i].gen, ed'[f].attempted.val)
    <3>1. memo' = memo /\ i \in DOMAIN memo /\ memo[i].op[1] = f BY <2>5
    <3>2. memo[i].gen \in Nat /\ call[f].val \in Shown /\ ed[f].attempted.val \in Shown
      BY <1>1, <3>1, Fields
    <3>3. ed'[f].op = ed[f].op /\ ed'[f].attempted = ed[f].attempted
          /\ (ed'[f].running => ed[f].running /\ call'[f] = call[f])
      BY <1>7 DEF Claims
    <3>4. /\ memo[i].op[2] <= ed[f].op
          /\ memo[i].op[2] = ed[f].op =>
               /\ ed[f].running => Current(f, memo[i].gen, call[f].val)
               /\ ed[f].attempted.set => Current(f, memo[i].gen, ed[f].attempted.val)
      BY <1>2, <3>1
    <3> QED BY <3>1, <3>2, <3>3, <3>4 DEF Kept
  <2> QED BY <1>4, <2>1, <2>2, <2>3, <2>4, <2>5 DEF KnowsAfter
<1> QED BY <1>1, <1>6, <1>7, ResumeCases

\* A request of somebody else is queued, or none.
LEMMA BystanderQueued ==
  ASSUME Types, NEW f \in Forms, ed'[f] = ed[f], call'[f] = call[f], load'[f] = load[f], UNCHANGED memo,
         UNCHANGED requests \/ \E r \in Requests : r.who # f /\ requests' = Append(requests, r)
  PROVE  Bystander(f)
<1>1. ASSUME NEW i \in DOMAIN requests', requests'[i].who = f
      PROVE  i \in DOMAIN requests /\ requests'[i] = requests[i]
  <2>1. CASE UNCHANGED requests BY <2>1
  <2>2. ASSUME NEW r \in Requests, r.who # f, requests' = Append(requests, r)
        PROVE  i \in DOMAIN requests /\ requests'[i] = requests[i]
    <3>1. /\ Len(requests) \in Nat /\ DOMAIN requests = 1..Len(requests)
          /\ DOMAIN requests' = 1..Len(requests) + 1
          /\ \A k \in 1..Len(requests) : requests'[k] = requests[k]
          /\ requests'[Len(requests) + 1] = r
      BY <2>2, Appended DEF Types
    <3>2. i \in 1..Len(requests) \/ i = Len(requests) + 1 BY <3>1
    <3> QED BY <1>1, <2>2, <3>1, <3>2
  <2> QED BY <2>1, <2>2
<1> QED BY <1>1 DEF Bystander

\* Another editor hands a record to its queue.
LEMMA BystanderResume ==
  ASSUME Types, NEW f \in Forms, NEW e \in Editors, e # f, NEW r \in Queue, Resume(e, r),
         UNCHANGED <<load, memo>>
  PROVE  Bystander(f)
<1>1. Request(e, Drained(r)).who # f BY DEF Request
<1>2. f \in Editors BY DEF Editors
<1> HIDE DEF Request
<1> QED BY <1>1, <1>2, ResumeCases, BystanderQueued

\* The answer to the head of the queue, which commits nothing.
LEMMA AnswerKnows ==
  ASSUME SaveInv, NEW f \in Forms, FormKnows(f), Kept(f), requests # <<>>, UNCHANGED <<ed, load, memo>>,
         NEW out \in {"ok", "failed", "invalid", "conflict", "exit"}, NEW g \in Nat, Answer(out, g),
         out = "ok" /\ Head(requests).who = f => Current(f, g, call[f].val)
  PROVE  KnowsAfter(f)
<1> f \in Editors BY DEF Editors
<1>1. Types /\ Single /\ Discipline(f) BY DEF SaveInv, Disciplined
<1>2. /\ Len(requests) \in Nat /\ DOMAIN requests = 1..Len(requests)
      /\ DOMAIN requests' = 1..Len(requests) - 1
      /\ \A i \in 1..Len(requests) - 1 : requests'[i] = requests[i + 1]
  <2>1. requests \in Seq(Requests) /\ requests' = Tail(requests) BY <1>1, AnswerTypes DEF Types
  <2> QED BY <2>1, Tailed
<1>3. ASSUME NEW i \in DOMAIN requests' PROVE i + 1 \in DOMAIN requests /\ requests'[i] = requests[i + 1]
  BY <1>2
<1>4. CASE Head(requests).live /\ Head(requests).who = f
  <2>1. call[f].at = "sent" /\ call'[f] = [call[f] EXCEPT !.at = "done", !.out = out, !.gen = g]
    BY <1>1, <1>4, AnswerTypes
  <2>2. /\ call'[f].at = "done" /\ call'[f].out = out /\ call'[f].gen = g /\ call'[f].val = call[f].val
    BY <1>1, <2>1 DEF Types, Attempt
  <2>3. ed[f].running BY <1>1, <2>1 DEF Discipline
  <2>4. out = "ok" => StillCurrent(f, g, call[f].val)
    BY <1>1, <1>4, Fields DEF Kept
  <2>5. ASSUME NEW i \in DOMAIN requests', requests'[i].who = f
        PROVE  requests'[i].live /\ requests'[i].op = ed[f].op /\ requests'[i].val = call[f].val
    BY <1>3, <2>5 DEF FormKnows
  <2>6. ASSUME NEW i \in DOMAIN memo, memo[i].op[1] = f
        PROVE  /\ memo[i].op[2] <= ed[f].op
               /\ memo[i].op[2] = ed[f].op =>
                    /\ ed[f].running => StillCurrent(f, memo[i].gen, call[f].val)
                    /\ ed[f].attempted.set => StillCurrent(f, memo[i].gen, ed[f].attempted.val)
    <3>1. memo[i].gen \in Nat /\ call[f].val \in Shown /\ ed[f].attempted.val \in Shown BY <1>1, Fields
    <3>2. /\ memo[i].op[2] <= ed[f].op
          /\ memo[i].op[2] = ed[f].op =>
               /\ ed[f].running => Current(f, memo[i].gen, call[f].val)
               /\ ed[f].attempted.set => Current(f, memo[i].gen, ed[f].attempted.val)
      BY <2>6 DEF FormKnows
    <3> QED BY <3>1, <3>2 DEF Kept
  <2>7. "crash" \in left' => Alone(f)' BY DEF Kept
  <2>8. ed' = ed /\ load' = load /\ memo' = memo OBVIOUS
  <2> QED BY <2>2, <2>3, <2>4, <2>5, <2>6, <2>7, <2>8 DEF KnowsAfter
<1>5. CASE ~ (Head(requests).live /\ Head(requests).who = f)
  <2>1. call'[f] = call[f] BY <1>1, <1>5, AnswerTypes
  <2>2. Bystander(f) BY <1>3, <2>1 DEF Bystander
  <2> QED BY <2>2, BystanderKnows
<1> QED BY <1>4, <1>5

\* What a commit adds to the memo.
LEMMA CommitMemo ==
  ASSUME Types, Committed
  PROVE  /\ \A i \in DOMAIN memo' :
              \/ \E j \in DOMAIN memo : memo[j] = memo'[i]
              \/ memo'[i] = [op |-> Operation(Head(requests)), gen |-> generation']
         /\ \A j \in DOMAIN memo : memo[j].op # Operation(Head(requests))
<1> DEFINE r == Head(requests)
           entry == [op |-> Operation(r), gen |-> generation']
           all == Append(memo, entry)
<1>1. r \in Requests /\ Known(r) = {} /\ generation' \in Nat \ {0} /\ memo' = Remember(r, generation')
  BY DEF Committed
<1> HIDE DEF r
<1>2. /\ all \in Seq(Memory) /\ DOMAIN all = 1..Len(memo) + 1 /\ DOMAIN memo = 1..Len(memo)
      /\ Len(memo) \in Nat
      /\ \A i \in 1..Len(memo) : all[i] = memo[i]
      /\ all[Len(memo) + 1] = entry
      /\ memo' = IF Len(memo) + 1 > MemoLimit THEN Tail(all) ELSE all
  BY <1>1, Remembers
<1> HIDE DEF all, entry
<1>3. ASSUME NEW i \in DOMAIN all PROVE (\E j \in DOMAIN memo : memo[j] = all[i]) \/ all[i] = entry
  <2>1. i \in 1..Len(memo) \/ i = Len(memo) + 1 BY <1>2
  <2> QED BY <1>2, <2>1
<1>4. CASE memo' = all BY <1>1, <1>3, <1>4 DEF Known, r, entry
<1>5. CASE memo' = Tail(all)
  <2>1. all # <<>> BY <1>2, EmptyDomain
  <2>2. /\ Len(all) \in Nat /\ DOMAIN all = 1..Len(all) /\ DOMAIN memo' = 1..Len(all) - 1
        /\ \A i \in 1..Len(all) - 1 : memo'[i] = all[i + 1]
    BY <1>2, <1>5, <2>1, Tailed
  <2>3. \A i \in DOMAIN memo' : i + 1 \in DOMAIN all /\ memo'[i] = all[i + 1] BY <2>2
  <2> QED BY <1>1, <1>3, <2>3 DEF Known, r, entry
<1> QED BY <1>2, <1>4, <1>5

\* A commit of the form's own request is what it will be told; one of another writer
\* of its tables moves the generation past all the form has read.
LEMMA CommitKnows ==
  ASSUME SaveInv, [Next]_vars, Commit, NEW f \in Forms, FormKnows(f)
  PROVE  KnowsAfter(f)
<1> f \in Editors BY DEF Editors
<1> DEFINE r == Head(requests)
<1>1. Types /\ Single /\ Discipline(f) /\ Committed BY Commits DEF SaveInv, Disciplined
<1>2. ed' = ed /\ load' = load BY Zenon DEF Commit
<1>3. /\ r \in Requests /\ requests # <<>> /\ requests' = Tail(requests)
      /\ text' = Derived(r) /\ Answer("ok", generation')
      /\ generation' \in Nat \ {0}
      /\ generation' = IF text' = text THEN generation ELSE generation + 1
  BY <1>1 DEF Committed
<1>4. /\ text'[Part(r.who)] = r.val
      /\ \A p \in Parts : p # Part(r.who) => text'[p] = text[p]
  BY <1>1, <1>3, DerivedText
<1>5. /\ Len(requests) \in Nat /\ DOMAIN requests = 1..Len(requests)
      /\ DOMAIN requests' = 1..Len(requests) - 1
      /\ \A i \in 1..Len(requests) - 1 : requests'[i] = requests[i + 1]
      /\ 1 \in DOMAIN requests /\ r = requests[1]
  <2>1. requests \in Seq(Requests) BY <1>1 DEF Types
  <2> QED BY <1>3, <2>1, Tailed
<1>6. ASSUME NEW i \in DOMAIN requests' PROVE i + 1 \in DOMAIN requests /\ requests'[i] = requests[i + 1]
  BY <1>5
<1>7. ASSUME NEW i \in DOMAIN requests', requests'[i].who = f
      PROVE  requests'[i].live /\ requests'[i].op = ed[f].op /\ requests'[i].val = call[f].val
  BY <1>6, <1>7 DEF FormKnows
<1>8. Operation(r) = <<r.who, r.op>> BY DEF Operation
<1> HIDE DEF r
<1>9. CASE r.who = f
  <2>1. r.live /\ r.op = ed[f].op /\ r.val = call[f].val BY <1>5, <1>9 DEF FormKnows
  <2>2. call[f].at = "sent" /\ call'[f] = [call[f] EXCEPT !.at = "done", !.out = "ok", !.gen = generation']
    BY <1>1, <1>3, <1>9, <2>1, AnswerTypes DEF r
  <2>3. call'[f].at = "done" /\ call'[f].gen = generation' /\ call'[f].val = call[f].val
    BY <1>1, <2>2 DEF Types, Attempt
  <2>4. ed[f].running BY <1>1, <2>2 DEF Discipline
  <2>5. text'["form"] = call[f].val BY <1>4, <1>9, <2>1, Words
  <2>6. "crash" \in left' => Alone(f)' BY StaysAlone DEF FormKnows
  <2>7. StillCurrent(f, generation', call[f].val) BY <1>3, <2>5, <2>6 DEF StillCurrent
  <2>8. ASSUME NEW i \in DOMAIN memo', memo'[i].op[1] = f
        PROVE  /\ memo'[i].op[2] <= ed[f].op
               /\ memo'[i].op[2] = ed[f].op =>
                    /\ StillCurrent(f, memo'[i].gen, call[f].val)
                    /\ ed[f].attempted.set => StillCurrent(f, memo'[i].gen, ed[f].attempted.val)
    <3>1. CASE \E j \in DOMAIN memo : memo[j] = memo'[i]
      <4>1. PICK j \in DOMAIN memo : memo[j] = memo'[i] BY <3>1
      <4>2. memo[j].op # <<f, ed[f].op>> BY <1>1, <1>8, <1>9, <2>1, CommitMemo DEF r
      <4>3. memo[j].op[2] <= ed[f].op BY <2>8, <4>1 DEF FormKnows
      <4>4. memo[j].op = <<memo[j].op[1], memo[j].op[2]>> BY <1>1, Fields DEF Memory
      <4>5. memo[j].op[2] # ed[f].op BY <2>8, <4>1, <4>2, <4>4
      <4> QED BY <4>1, <4>3, <4>5
    <3>2. CASE memo'[i] = [op |-> Operation(r), gen |-> generation']
      <4>1. memo'[i].op[2] = ed[f].op /\ memo'[i].gen = generation' BY <1>8, <2>1, <3>2
      <4>2. ed[f].attempted.set => ed[f].attempted.val = call[f].val BY <1>1, <2>4 DEF Discipline
      <4>3. ed[f].op \in Nat BY <1>1, Fields
      <4> QED BY <2>7, <4>1, <4>2, <4>3
    <3> QED BY <1>1, <3>1, <3>2, CommitMemo DEF r
  <2> QED BY <1>2, <1>7, <2>3, <2>4, <2>6, <2>7, <2>8 DEF KnowsAfter
<1>10. CASE r.who # f
  <2>1. Alone(f) => text'["form"] = text["form"]
    <3>1. SUFFICES ASSUME Alone(f) PROVE text'["form"] = text["form"] OBVIOUS
    <3>2. r.who # "onboarding" /\ r.who \notin Forms BY <1>5, <1>10, <3>1 DEF Alone
    <3>3. Part(r.who) # "form"
      BY <1>3, <3>2, SettingsAssumption DEF Part, Requests, Writers, Editors
    <3> QED BY <1>4, <3>3, Words
  <2>2. \/ text'["form"] = text["form"] /\ generation' = generation
        \/ generation' = generation + 1
    BY <1>3
  <2>3. Kept(f) BY <2>1, <2>2, StaysCurrent DEF FormKnows
  <2>4. call'[f] = call[f] BY <1>1, <1>3, <1>10, AnswerTypes DEF r
  <2>5. ASSUME NEW i \in DOMAIN memo', memo'[i].op[1] = f PROVE \E j \in DOMAIN memo : memo[j] = memo'[i]
    <3>1. memo'[i] # [op |-> Operation(r), gen |-> generation'] BY <1>8, <1>10, <2>5
    <3> QED BY <1>1, <3>1, CommitMemo DEF r
  <2>6. Bystander(f) BY <1>2, <1>6, <2>4, <2>5 DEF Bystander
  <2> QED BY <2>3, <2>6, BystanderKnows
<1> QED BY <1>9, <1>10

\* A form's own step that changes neither its queue nor what is asked of the bridge:
\* another draft, another reading, the read-back of a save.
LEMMA Relabelled ==
  ASSUME Types, NEW f \in Forms, FormKnows(f), Kept(f), UNCHANGED <<requests, memo>>,
         load'[f] = load[f] \/ StillCurrent(f, load'[f].gen, load'[f].val),
         ed'[f] = ed[f] \/ ed'[f].dirty,
         ed'[f].snap = ed[f].snap, ed'[f].expect = ed[f].expect, ed'[f].op = ed[f].op,
         ed'[f].running = ed[f].running, ed'[f].failed = ed[f].failed, ed'[f].attempted = ed[f].attempted,
         call'[f].at = call[f].at \/ call[f].at = "done",
         call'[f].out = call[f].out, call'[f].gen = call[f].gen, call'[f].val = call[f].val
  PROVE  KnowsAfter(f)
<1> f \in Editors BY DEF Editors
<1>1. ASSUME load'[f] # Unread, ~ ed'[f].running
      PROVE  StillCurrent(f, load'[f].gen, load'[f].val)
  <2>1. CASE load'[f] = load[f]
    <3>1. Current(f, load[f].gen, load[f].val) BY <1>1, <2>1 DEF FormKnows
    <3>2. load[f].gen \in Nat /\ load[f].val \in Shown BY <1>1, <2>1, Fields
    <3> QED BY <2>1, <3>1, <3>2 DEF Kept
  <2> QED BY <2>1
<1>2. ASSUME ~ ed'[f].running, ~ ed'[f].failed
      PROVE  /\ StillCurrent(f, ed'[f].expect, ed'[f].snap)
             /\ ed'[f].attempted.set => StillCurrent(f, ed'[f].expect, ed'[f].attempted.val)
             /\ ed'[f].dirty \/ ed'[f].draft = ed'[f].snap \/ ed'[f].attempted = Some(ed'[f].draft)
  <2>1. /\ Current(f, ed[f].expect, ed[f].snap)
        /\ ed[f].attempted.set => Current(f, ed[f].expect, ed[f].attempted.val)
        /\ ed[f].dirty \/ ed[f].draft = ed[f].snap \/ ed[f].attempted = Some(ed[f].draft)
    BY <1>2 DEF FormKnows
  <2>2. ed[f].expect \in Nat /\ ed[f].snap \in Shown /\ ed[f].attempted.val \in Shown BY Fields
  <2> QED BY <2>1, <2>2 DEF Kept
<1>3. ASSUME call'[f].at \in {"done", "read"}, call'[f].out = "ok"
      PROVE  StillCurrent(f, call'[f].gen, call'[f].val)
  <2>1. Current(f, call[f].gen, call[f].val) BY <1>3 DEF FormKnows
  <2>2. call[f].gen \in Nat /\ call[f].val \in Shown BY Fields
  <2> QED BY <2>1, <2>2 DEF Kept
<1>4. ASSUME NEW i \in DOMAIN requests, requests[i].who = f
      PROVE  requests[i].live /\ requests[i].op = ed'[f].op /\ requests[i].val = call'[f].val
  BY <1>4 DEF FormKnows
<1>5. ASSUME NEW i \in DOMAIN memo, memo[i].op[1] = f
      PROVE  /\ memo[i].op[2] <= ed'[f].op
             /\ memo[i].op[2] = ed'[f].op =>
                  /\ ed'[f].running => StillCurrent(f, memo[i].gen, call'[f].val)
                  /\ ed'[f].attempted.set => StillCurrent(f, memo[i].gen, ed'[f].attempted.val)
  <2>1. /\ memo[i].op[2] <= ed[f].op
        /\ memo[i].op[2] = ed[f].op =>
             /\ ed[f].running => Current(f, memo[i].gen, call[f].val)
             /\ ed[f].attempted.set => Current(f, memo[i].gen, ed[f].attempted.val)
    BY <1>5 DEF FormKnows
  <2>2. memo[i].gen \in Nat /\ call[f].val \in Shown /\ ed[f].attempted.val \in Shown BY Fields
  <2> QED BY <2>1, <2>2 DEF Kept
<1>6. "crash" \in left' => Alone(f)' BY DEF Kept
<1>7. requests' = requests /\ memo' = memo OBVIOUS
<1> QED BY <1>1, <1>2, <1>3, <1>4, <1>5, <1>6, <1>7 DEF KnowsAfter

\* Every step leaves true what the form knows.
LEMMA KnowsStep ==
  ASSUME SaveInv, [Next]_vars, NEW f \in Forms, FormKnows(f)
  PROVE  KnowsAfter(f)
<1> f \in Editors BY DEF Editors
<1>0. /\ Types /\ Disciplined /\ Single /\ Prepared /\ Discipline(f)
      /\ ed \in [Editors -> Queue] /\ call \in [Editors -> Attempt] /\ load \in [Editors -> Reading]
  BY DEF SaveInv, Disciplined, Types
<1>a. ASSUME UNCHANGED <<text, generation>> PROVE Kept(f)
  BY <1>a, StaysCurrent DEF FormKnows
<1>b. ASSUME NEW e \in Editors, NEW r \in Queue, Resume(e, r), e = f => Claims(f, r),
             UNCHANGED <<load, memo, text, generation>>
      PROVE  KnowsAfter(f)
  <2>1. CASE e = f BY <1>a, <1>b, <2>1, ResumeKnows
  <2>2. CASE e # f BY <1>0, <1>a, <1>b, <2>2, BystanderResume, BystanderKnows
  <2> QED BY <2>1, <2>2
<1>c. ASSUME UNCHANGED <<text, generation, memo>>, ed'[f] = ed[f], call'[f] = call[f], load'[f] = load[f],
             UNCHANGED requests \/ \E r \in Requests : r.who # f /\ requests' = Append(requests, r)
      PROVE  KnowsAfter(f)
  BY <1>0, <1>a, <1>c, BystanderQueued, BystanderKnows
<1>d. /\ \A i \in DOMAIN requests : requests[i].who = f => ed[f].running
      /\ ed[f].running <=> call[f].at # "none"
      /\ ed[f].paused => ed[f].running \/ ed[f].failed
  BY <1>0 DEF FormKnows, Single, Discipline
<1>1. ASSUME NEW e \in Editors, Edit(e) PROVE KnowsAfter(f)
  <2>1. PICK v \in Values : ed' = [ed EXCEPT ![e] = [@ EXCEPT !.draft = v, !.dirty = TRUE]]
    BY <1>0, <1>1 DEF Edit, Queue
  <2>2. UNCHANGED <<call, load, requests, text, generation, memo>> BY <1>1 DEF Edit, bridge
  <2>3. CASE e # f BY <1>c, <2>1, <2>2, <2>3
  <2>4. CASE e = f
    <3>1. /\ ed'[f].dirty /\ ed'[f].snap = ed[f].snap /\ ed'[f].expect = ed[f].expect
          /\ ed'[f].running = ed[f].running /\ ed'[f].failed = ed[f].failed
          /\ ed'[f].attempted = ed[f].attempted /\ ed'[f].op = ed[f].op
      BY <1>0, <2>1, <2>4 DEF Queue
    <3>2. Kept(f) BY <1>a, <2>2
    <3> QED BY <1>0, <2>2, <3>1, <3>2, Relabelled
  <2> QED BY <2>3, <2>4
<1>2. ASSUME NEW e \in Editors, Effect(e) PROVE KnowsAfter(f)
  <2> DEFINE r == Enqueued([ed[e] EXCEPT !.dirty = FALSE])
  <2>1. r \in Queue /\ Resume(e, r) /\ UNCHANGED <<load, memo, text, generation>>
    BY <1>0, <1>2, Records DEF Effect
  <2>2. ASSUME e = f PROVE Claims(f, r)
    <3>1. /\ r.draft = ed[f].draft /\ r.snap = ed[f].snap /\ r.expect = ed[f].expect
          /\ r.running = ed[f].running /\ r.failed = ed[f].failed /\ r.paused = ed[f].paused
          /\ r.attempted = ed[f].attempted /\ r.op = ed[f].op
          /\ r.queued = IF \/ ed[f].attempted = Some(ed[f].draft)
                           \/ ~ ed[f].running /\ ~ ed[f].failed /\ ed[f].draft = ed[f].snap
                        THEN None ELSE Some(ed[f].draft)
      BY <1>0, <2>2, Waits
    <3> HIDE DEF r
    <3>2. ASSUME ~ r.running, ~ r.failed, r.queued.set => r.paused
          PROVE  /\ Current(f, r.expect, r.snap)
                 /\ r.attempted.set => Current(f, r.expect, r.attempted.val)
                 /\ r.draft = r.snap \/ r.attempted = Some(r.draft)
      <4>1. ~ r.queued.set BY <1>d, <3>1, <3>2
      <4>2. r.draft = r.snap \/ r.attempted = Some(r.draft) BY <3>1, <4>1 DEF Some
      <4> QED BY <3>1, <3>2, <4>2 DEF FormKnows
    <3> QED BY <1>d, <3>1, <3>2 DEF Claims
  <2> HIDE DEF r
  <2> QED BY <1>b, <2>1, <2>2
<1>3. ASSUME NEW e \in Editors, AttemptFails(e) PROVE KnowsAfter(f)
  <2> DEFINE p == ~ResumesAutomatically(e, call[e].out)
             r == [ed[e] EXCEPT !.running = FALSE, !.failed = TRUE, !.paused = p]
  <2>1. r \in Queue
    <3>1. p \in BOOLEAN OBVIOUS
    <3> QED BY <1>0, <3>1, Records
  <2>2. Resume(e, r) /\ UNCHANGED <<load, memo, text, generation>> BY <1>3, Zenon DEF AttemptFails
  <2>3. call[e].at = "done" /\ load[e] = Unread BY <1>3, Zenon DEF AttemptFails
  <2>4. r.op = ed[e].op /\ r.attempted = ed[e].attempted /\ ~ r.running /\ r.failed BY <1>0 DEF Queue
  <2> HIDE DEF r
  <2> QED BY <1>b, <2>1, <2>2, <2>3, <2>4 DEF Claims
<1>4. ASSUME NEW e \in Editors, PanelSaved(e) PROVE KnowsAfter(f)
  <2>1. e # f BY <1>4, SettingsAssumption DEF PanelSaved
  <2> QED BY <1>0, <1>4, <1>b, <2>1, Records DEF PanelSaved
<1>5. ASSUME NEW e \in Editors, FormSaved(e) PROVE KnowsAfter(f)
  <2>1. call' = [call EXCEPT ![e] = [@ EXCEPT !.at = "read"]] BY <1>0, <1>5 DEF FormSaved, Attempt
  <2>2. UNCHANGED <<ed, load, requests, text, generation, memo>> BY <1>5 DEF FormSaved, bridge
  <2>3. CASE e # f BY <1>c, <2>1, <2>2, <2>3
  <2>4. CASE e = f
    <3>1. /\ call'[f].at = "read" /\ call'[f].out = call[f].out /\ call'[f].val = call[f].val
          /\ call'[f].gen = call[f].gen /\ call[f].at = "done"
      BY <1>0, <1>5, <2>1, <2>4 DEF FormSaved, Attempt
    <3>2. Kept(f) BY <1>a, <2>2
    <3> QED BY <1>0, <2>2, <3>1, <3>2, Relabelled
  <2> QED BY <2>3, <2>4
<1>6. ASSUME NEW e \in Editors, FormApplied(e) PROVE KnowsAfter(f)
  <2> DEFINE r == [ReadBack(e, ed[e]) EXCEPT !.running = FALSE, !.paused = FALSE, !.dirty = TRUE]
  <2>1. call[e].at = "read" /\ call[e].out = "ok" /\ load[e] = Unread /\ call[e].gen # 0
        /\ ed[e].running /\ (ed[e].attempted.set => ed[e].attempted.val = call[e].val)
    BY <1>0, <1>6 DEF FormApplied, Disciplined, Discipline
  <2>2. r \in Queue /\ Resume(e, r) /\ UNCHANGED <<load, memo, text, generation>>
    BY <1>0, <1>6, <2>1, Records DEF FormApplied
  <2>3. /\ r.op = ed[e].op /\ r.attempted = ed[e].attempted /\ ~ r.running /\ r.dirty
        /\ r.expect = call[e].gen /\ r.snap = text["form"]
    BY <1>0 DEF Queue, ReadBack
  <2> HIDE DEF r
  <2>4. ASSUME e = f PROVE Claims(f, r)
    <3>1. Current(f, call[f].gen, call[f].val) BY <2>1, <2>4 DEF FormKnows
    <3>2. Current(f, call[f].gen, text["form"]) BY <3>1 DEF Current
    <3> QED BY <2>1, <2>3, <2>4, <3>1, <3>2 DEF Claims
  <2> QED BY <1>b, <2>2, <2>4
<1>7. ASSUME NEW e \in Editors, Retry(e) PROVE KnowsAfter(f)
  <2> DEFINE r == [ed[e] EXCEPT !.failed = FALSE, !.running = TRUE]
             q == Request(e, r)
  <2>1. /\ ed' = [ed EXCEPT ![e] = r] /\ call' = [call EXCEPT ![e] = Sent(r.attempted.val)]
        /\ requests' = Append(requests, q) /\ ~ ed[e].running /\ ed[e].attempted.set
        /\ UNCHANGED <<load, text, generation, memo>>
    BY <1>7, Zenon DEF Retry
  <2>2. q \in Requests BY <1>0, <1>7, RetriedTypes
  <2>3. q.who = e /\ q.live /\ q.op = r.op /\ q.val = r.attempted.val BY DEF Request
  <2>4. /\ r.op = ed[e].op /\ r.attempted = ed[e].attempted /\ r.running BY <1>0 DEF Queue
  <2> HIDE DEF r, q
  <2>5. CASE e # f BY <1>0, <1>c, <2>1, <2>2, <2>3, <2>5
  <2>6. CASE e = f
    <3>1. ed'[f] = r /\ call'[f].at = "sent" /\ call'[f].val = ed[f].attempted.val
      BY <1>0, <2>1, <2>4, <2>6 DEF Sent, NoCall
    <3>2. Kept(f) BY <1>a, <2>1
    <3>3. ASSUME NEW i \in DOMAIN requests', requests'[i].who = f
          PROVE  requests'[i].live /\ requests'[i].op = ed'[f].op /\ requests'[i].val = call'[f].val
      <4>1. /\ Len(requests) \in Nat /\ DOMAIN requests = 1..Len(requests)
            /\ DOMAIN requests' = 1..Len(requests) + 1
            /\ \A k \in 1..Len(requests) : requests'[k] = requests[k]
            /\ requests'[Len(requests) + 1] = q
        BY <1>0, <2>1, <2>2, Appended DEF Types
      <4>2. i \in 1..Len(requests) \/ i = Len(requests) + 1 BY <4>1
      <4>3. i \notin 1..Len(requests) BY <1>d, <2>1, <2>6, <3>3, <4>1
      <4> QED BY <2>3, <2>4, <2>6, <3>1, <4>1, <4>2, <4>3
    <3>4. ASSUME NEW i \in DOMAIN memo, memo[i].op[1] = f
          PROVE  /\ memo[i].op[2] <= ed[f].op
                 /\ memo[i].op[2] = ed[f].op => StillCurrent(f, memo[i].gen, ed[f].attempted.val)
      <4>1. memo[i].gen \in Nat /\ ed[f].attempted.val \in Shown BY <1>0, Fields
      <4>2. /\ memo[i].op[2] <= ed[f].op
            /\ memo[i].op[2] = ed[f].op => Current(f, memo[i].gen, ed[f].attempted.val)
        BY <2>1, <2>6, <3>4 DEF FormKnows
      <4> QED BY <3>2, <4>1, <4>2 DEF Kept
    <3>5. "crash" \in left' => Alone(f)' BY <3>2 DEF Kept
    <3>6. ed'[f].running /\ ed'[f].op = ed[f].op /\ ed'[f].attempted = ed[f].attempted /\ memo' = memo
      BY <2>1, <2>4, <2>6, <3>1
    <3> QED BY <3>1, <3>3, <3>4, <3>5, <3>6 DEF KnowsAfter
  <2> QED BY <2>5, <2>6
<1>8. ASSUME NEW e \in Editors, Reload(e) PROVE KnowsAfter(f)
  <2>1. /\ load' = [load EXCEPT ![e] = [val |-> text[Part(e)], gen |-> generation]]
        /\ UNCHANGED <<ed, call, requests, text, generation, memo>>
    BY <1>8 DEF Reload, bridge
  <2>2. CASE e # f BY <1>c, <2>1, <2>2
  <2>3. CASE e = f
    <3>1. load'[f].val = text["form"] /\ load'[f].gen = generation BY <1>0, <2>1, <2>3, Words
    <3>2. Current(f, generation, text["form"]) BY <1>0 DEF FormKnows, Current, Types
    <3>3. generation \in Nat /\ text["form"] \in Shown BY <1>0, Words DEF Types
    <3>4. Kept(f) BY <1>a, <2>1
    <3>5. StillCurrent(f, load'[f].gen, load'[f].val) BY <3>1, <3>2, <3>3, <3>4 DEF Kept
    <3> QED BY <1>0, <2>1, <3>4, <3>5, Relabelled
  <2> QED BY <2>2, <2>3
<1>9. ASSUME NEW e \in Editors, LoadArrives(e) PROVE KnowsAfter(f)
  <2>1. /\ ed' = [ed EXCEPT ![e] = Reloaded(@, load[e])] /\ load' = [load EXCEPT ![e] = Unread]
        /\ UNCHANGED <<call, requests, text, generation, memo>> /\ load[e] # Unread
    BY <1>9 DEF LoadArrives, bridge
  <2>2. CASE e # f BY <1>c, <2>1, <2>2
  <2>3. CASE e = f
    <3>1. /\ ed'[f].running = ed[f].running /\ ed'[f].op = ed[f].op /\ ~ ed'[f].attempted.set
          /\ ed'[f].dirty /\ ed'[f].snap = load[f].val /\ ed'[f].expect = load[f].gen
      BY <1>0, <2>1, <2>3 DEF Reloaded, Queue, None
    <3>2. Kept(f) BY <1>a, <2>1
    <3>3. load'[f] = Unread BY <1>0, <2>1, <2>3
    <3>4. ASSUME ~ ed[f].running PROVE StillCurrent(f, load[f].gen, load[f].val)
      <4>1. Current(f, load[f].gen, load[f].val) BY <2>1, <2>3, <3>4 DEF FormKnows
      <4>2. load[f].gen \in Nat /\ load[f].val \in Shown BY <1>0, <2>1, <2>3, Fields
      <4> QED BY <3>2, <4>1, <4>2 DEF Kept
    <3>5. ASSUME call[f].at \in {"done", "read"}, call[f].out = "ok"
          PROVE  StillCurrent(f, call[f].gen, call[f].val)
      <4>1. Current(f, call[f].gen, call[f].val) BY <3>5 DEF FormKnows
      <4> QED BY <1>0, <3>2, <4>1, Fields DEF Kept
    <3>6. ASSUME NEW i \in DOMAIN memo, memo[i].op[1] = f
          PROVE  /\ memo[i].op[2] <= ed[f].op
                 /\ memo[i].op[2] = ed[f].op /\ ed[f].running => StillCurrent(f, memo[i].gen, call[f].val)
      <4>1. memo[i].gen \in Nat /\ call[f].val \in Shown BY <1>0, Fields
      <4>2. /\ memo[i].op[2] <= ed[f].op
            /\ memo[i].op[2] = ed[f].op /\ ed[f].running => Current(f, memo[i].gen, call[f].val)
        BY <3>6 DEF FormKnows
      <4> QED BY <3>2, <4>1, <4>2 DEF Kept
    <3>7. "crash" \in left' => Alone(f)' BY <3>2 DEF Kept
    <3>8. \A i \in DOMAIN requests : requests[i].who = f =>
            requests[i].live /\ requests[i].op = ed[f].op /\ requests[i].val = call[f].val
      BY DEF FormKnows
    <3>9. call' = call /\ requests' = requests /\ memo' = memo BY <2>1
    <3> QED BY <3>1, <3>3, <3>4, <3>5, <3>6, <3>7, <3>8, <3>9 DEF KnowsAfter
  <2> QED BY <2>2, <2>3
<1>10. ASSUME NEW e \in Editors, Timeout(e) PROVE KnowsAfter(f)
  <2>1. e # f BY <1>10, SettingsAssumption DEF Timeout
  <2>2. DOMAIN requests' = DOMAIN requests
        /\ \A i \in DOMAIN requests :
              /\ requests'[i].who = requests[i].who /\ requests'[i].op = requests[i].op
              /\ requests'[i].val = requests[i].val
              /\ requests'[i].live <=> requests[i].live /\ requests[i].who # e
    BY <1>0, <1>10, TimedOut
  <2>3. UNCHANGED <<ed, load, text, generation, memo>> /\ call'[f] = call[f]
    BY <1>0, <1>10, <2>1 DEF Timeout
  <2>4. Bystander(f) BY <2>1, <2>2, <2>3 DEF Bystander
  <2> QED BY <1>a, <2>3, <2>4, BystanderKnows
<1>11. CASE Toggle
  <2>1. OneShot("toggle", Added, 0) \in Requests /\ OneShot("toggle", Added, 0).who # f
    BY OneShots, SettingsAssumption DEF OneShot
  <2> HIDE DEF OneShot
  <2> QED BY <1>11, <1>c, <2>1 DEF Toggle
<1>12. CASE OnboardingReads BY <1>12, <1>c DEF OnboardingReads, bridge
<1>13. CASE OnboardingSaves
  <2>1. onboarding.gen \in Nat BY <1>0, <1>13 DEF OnboardingSaves, Types, Reading
  <2>2. OneShot("onboarding", Added, onboarding.gen) \in Requests
        /\ OneShot("onboarding", Added, onboarding.gen).who # f
    BY <2>1, OneShots, SettingsAssumption DEF OneShot
  <2> HIDE DEF OneShot
  <2> QED BY <1>13, <1>c, <2>2 DEF OnboardingSaves
<1>14. CASE Decline
  <2>1. UNCHANGED <<ed, load, text, generation, memo>> BY <1>14, Zenon DEF Decline
  <2>2. Kept(f) BY <1>a, <2>1
  <2>3. requests # <<>> BY <1>0, <1>14, Declines
  <2>4. ASSUME NEW out \in {"invalid", "conflict"}, Answer(out, 0) PROVE KnowsAfter(f)
    BY <2>1, <2>2, <2>3, <2>4, AnswerKnows
  <2>5. ASSUME NEW i \in DOMAIN memo, memo[i].op = Operation(Head(requests)), memo[i].gen \in Nat \ {0},
               Answer("ok", memo[i].gen)
        PROVE  KnowsAfter(f)
    <3>1. ASSUME Head(requests).who = f PROVE Current(f, memo[i].gen, call[f].val)
      <4>1. 1 \in DOMAIN requests /\ Head(requests) = requests[1] BY <1>0, <2>3, Tailed DEF Types
      <4>2. Head(requests).op = ed[f].op BY <3>1, <4>1 DEF FormKnows
      <4>3. memo[i].op[1] = f /\ memo[i].op[2] = ed[f].op BY <2>5, <3>1, <4>2 DEF Operation
      <4>4. ed[f].running BY <1>d, <3>1, <4>1
      <4> QED BY <4>3, <4>4 DEF FormKnows
    <3> QED BY <2>1, <2>2, <2>3, <2>5, <3>1, AnswerKnows
  <2> QED BY <1>0, <1>14, <2>4, <2>5, Declines
<1>15. CASE Derive BY <1>15, <1>c DEF Derive
<1>16. CASE PrepareFails
  <2>1. UNCHANGED <<ed, load, text, generation, memo>> /\ requests # <<>> /\ Answer("failed", 0)
    BY <1>0, <1>16 DEF PrepareFails, Prepared
  <2> QED BY <1>a, <2>1, AnswerKnows
<1>17. CASE Commit BY <1>17, CommitKnows
<1>18. CASE Crash
  <2>1. Alone(f) /\ "crash" \in left BY <1>18 DEF Crash, FormKnows
  <2>2. Alone(f)' BY <2>1, StaysAlone
  <2>3. PICK t \in {text} \cup ({candidate} \ {NoText}) :
          /\ text' = t
          /\ load' = [e \in Editors |-> IF load[e] = Unread THEN Unread
                                        ELSE [val |-> t[Part(e)], gen |-> 1]]
    BY <1>18, Zenon DEF Crash
  <2>4. /\ memo' = <<>> /\ requests' = <<>> /\ UNCHANGED ed
        /\ call' = [e \in Editors |-> IF call[e].at \in {"sent", "read"}
                                      THEN [call[e] EXCEPT !.at = "done", !.out = "exit"] ELSE call[e]]
    BY <1>18, Zenon DEF Crash
  <2>5. ASSUME load'[f] # Unread PROVE load'[f].val = text'["form"]
    BY <2>3, <2>5, Words
  <2>6. ASSUME call[f].at # "sent" PROVE text'["form"] = text["form"]
    <3>1. CASE t = text BY <2>3, <3>1
    <3>2. CASE t = candidate /\ candidate # NoText
      <4>1. requests # <<>> /\ candidate = Derived(Head(requests)) BY <1>0, <3>2 DEF Prepared
      <4>2. 1 \in DOMAIN requests /\ Head(requests) = requests[1] /\ Head(requests) \in Requests
        BY <1>0, <4>1, Tailed DEF Types
      <4>3. Head(requests).who # f BY <1>0, <2>6, <4>2 DEF FormKnows, Single
      <4>4. Head(requests).who # "onboarding" /\ Head(requests).who \notin Forms
        BY <2>1, <4>2, <4>3 DEF Alone
      <4>5. Part(Head(requests).who) # "form"
        BY <4>2, <4>4, SettingsAssumption DEF Part, Requests, Writers, Editors
      <4>6. Derived(Head(requests))["form"] = text["form"] BY <1>0, <4>2, <4>5, DerivedText, Words
      <4> QED BY <2>3, <3>2, <4>1, <4>6
    <3> QED BY <2>3, <3>1, <3>2
  <2>7. ASSUME NEW g, NEW v, Current(f, g, v), call[f].at # "sent" PROVE StillCurrent(f, g, v)
    BY <2>1, <2>2, <2>6, <2>7 DEF Current, StillCurrent
  <2>8. ASSUME call'[f].at \in {"done", "read"}, call'[f].out = "ok"
        PROVE  StillCurrent(f, call'[f].gen, call'[f].val)
    <3>1. CASE call[f].at \in {"sent", "read"}
      <4>1. call'[f] = [call[f] EXCEPT !.at = "done", !.out = "exit"] BY <2>4, <3>1, Zenon
      <4>2. call'[f].out = "exit" BY <1>0, <4>1 DEF Attempt
      <4> QED BY <2>8, <4>2
    <3>2. CASE call[f].at \notin {"sent", "read"}
      <4>1. call'[f] = call[f] BY <2>4, <3>2, Zenon
      <4>2. Current(f, call[f].gen, call[f].val) BY <2>8, <4>1 DEF FormKnows
      <4> QED BY <2>7, <3>2, <4>1, <4>2
    <3> QED BY <3>1, <3>2
  <2>9. ASSUME ~ ed[f].running, ~ ed[f].failed
        PROVE  /\ StillCurrent(f, ed[f].expect, ed[f].snap)
               /\ ed[f].attempted.set => StillCurrent(f, ed[f].expect, ed[f].attempted.val)
               /\ ed[f].dirty \/ ed[f].draft = ed[f].snap \/ ed[f].attempted = Some(ed[f].draft)
    <3>1. call[f].at # "sent" BY <1>d, <2>9
    <3> QED BY <2>7, <2>9, <3>1 DEF FormKnows
  <2>10. ASSUME load'[f] # Unread PROVE StillCurrent(f, load'[f].gen, load'[f].val)
    BY <2>2, <2>5, <2>10 DEF StillCurrent
  <2> QED BY <2>2, <2>4, <2>8, <2>9, <2>10, EmptyDomain DEF KnowsAfter
<1>19. CASE UNCHANGED vars BY <1>19, <1>c DEF vars
<1> QED
  BY <1>1, <1>2, <1>3, <1>4, <1>5, <1>6, <1>7, <1>8, <1>9, <1>10, <1>11, <1>12, <1>13, <1>14, <1>15,
     <1>16, <1>17, <1>18, <1>19 DEF Next

(* A settings form that has come to rest shows the committed text, or the generation  *)
(* it would send is behind and its next save is refused, whoever else has written its *)
(* tables meanwhile; with a crash only if the form is their one writer (Separate).    *)
THEOREM HonestCorrect == Separate => (Spec => []Honest)
<1> SUFFICES ASSUME Separate PROVE Spec => []Honest OBVIOUS
<1>1. Init => FormsKnow
  <2> SUFFICES ASSUME Init, NEW e \in Forms PROVE FormKnows(e) BY DEF FormsKnow
  <2>0. e \in Editors BY DEF Editors
  <2>1. ASSUME "crash" \in left PROVE Alone(e)
    <3>1. left \in Disturbances /\ onboarding = Unread /\ requests = <<>> BY DEF Init
    <3> QED BY <2>1, <3>1, EmptyDomain DEF Separate, Alone
  <2>2. Current(e, 1, 0)
    <3>1. generation = 1 /\ text["form"] = 0 BY Words DEF Init
    <3> QED BY <2>1, <3>1 DEF Current
  <2>3. ed[e] = Fresh(0, 1) /\ call[e] = NoCall /\ load[e] = Unread /\ requests = <<>> /\ memo = <<>>
    BY <2>0 DEF Init
  <2>4. /\ ed[e].expect = 1 /\ ed[e].snap = 0 /\ ed[e].dirty /\ ~ ed[e].attempted.set
        /\ call[e].at = "none"
    BY <2>3 DEF Fresh, NoCall, None
  <2> QED BY <2>1, <2>2, <2>3, <2>4, EmptyDomain DEF FormKnows
<1>2. SaveInv /\ FormsKnow /\ [Next]_vars => FormsKnow'
  BY KnowsStep, Knowing DEF FormsKnow
<1>3. SaveInv /\ FormsKnow => Honest
  <2> SUFFICES ASSUME SaveInv, NEW e \in Forms, FormKnows(e), Settled(e)
               PROVE  ed[e].draft = text["form"] \/ Outdated(Request(e, ed[e]))
    BY DEF FormsKnow, Honest
  <2>1. ed[e] \in Queue BY DEF SaveInv, Types, Editors
  <2>2. ed[e].draft = ed[e].snap \/ ed[e].attempted = Some(ed[e].draft) BY DEF Settled, FormKnows
  <2>3. Current(e, ed[e].expect, ed[e].draft)
    <3>1. /\ Current(e, ed[e].expect, ed[e].snap)
          /\ ed[e].attempted.set => Current(e, ed[e].expect, ed[e].attempted.val)
      BY DEF Settled, FormKnows
    <3> QED BY <2>2, <3>1 DEF Some
  <2>4. Request(e, ed[e]).expect = ed[e].expect /\ ed[e].expect # 0 BY <2>1 DEF Request, Queue
  <2> QED BY <2>3, <2>4 DEF Current, Outdated
<1> QED BY <1>1, <1>2, <1>3, SaveInvHolds, PTL DEF Spec
=============================================================================
