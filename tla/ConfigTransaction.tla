------------------------- MODULE ConfigTransaction --------------------------
(***************************************************************************)
(* The journalled commit of config.toml and roles.json                     *)
(* (desktop_bridge/config_transaction.py), its recovery at bridge start    *)
(* (main.py, serve_bridge) and the role edits that write the same manifest *)
(* (core/roles/manifest.py).  Every file operation is a step of its own    *)
(* that succeeds or raises, and the process may die between any two.  An   *)
(* atomic_save_* that raises leaves its target as it was: it writes a      *)
(* temporary file and renames it.                                          *)
(***************************************************************************)
CONSTANTS Config,     \* the texts config.toml may hold
          Roles,      \* the payloads roles.json may hold
          NoPayload   \* roles_payload=None: the commit leaves roles.json alone

ASSUME NoPayloadIsNoRoles == NoPayload \notin Roles

Pair == [config: Config, roles: Roles]

VARIABLES
  config,      \* the content of config.toml
  roles,       \* the content of roles.json
  journal,     \* .runtime-config-transaction.json; state "none": no file
  pc,          \* the next step of commit() or recover(); "idle", "down"
  request,     \* the arguments of the running commit
  reply,       \* what the last commit of this process told its caller
  accepted,    \* history: the last pair some caller was told is saved
  overlooked   \* history: a role edit was saved beside a prepared journal

filesVars == <<config, roles, journal, pc, request, reply, accepted, overlooked>>
files == <<config, roles, journal>>
history == <<accepted, overlooked>>

Recovering == {"recover_config", "recover_roles", "recover_unlink"}
Committing == {"check", "drop_stale", "prepare", "write_config",
               "write_roles", "mark_committed", "undo_config",
               "undo_roles", "undo_unlink", "unlink"}

FilesTypeOK ==
  /\ config \in Config
  /\ roles \in Roles
  /\ journal \in [state: {"none", "prepared", "committed"},
                  before: Pair]
  /\ pc \in {"idle", "down"} \cup Recovering \cup Committing
  /\ request \in [pair: Pair, withRoles: BOOLEAN]
  /\ reply \in {"quiet", "ok", "failed"}
  /\ accepted \in Pair
  /\ overlooked \in BOOLEAN

Files == [config |-> config, roles |-> roles]

(* The pair a restart would find: recover() undoes a prepared journal and  *)
(* keeps the files otherwise.                                              *)
Recovered == IF journal.state = "prepared" THEN journal.before ELSE Files

FilesInit ==
  /\ config \in Config
  /\ roles \in Roles
  /\ journal = [state |-> "none", before |-> Files]
  /\ pc = "down"
  /\ request = [pair |-> Files, withRoles |-> FALSE]
  /\ reply = "quiet"
  /\ accepted = Files
  /\ overlooked = FALSE

-----------------------------------------------------------------------------
(* commit(): the caller holds the manifest lock from here to the reply.    *)

Goto(here, there) == pc = here /\ pc' = there

(* commit() raises and its caller is told so.                              *)
Raise == pc' = "idle" /\ reply' = "failed"

CallCommit(c, payload) ==
  /\ Goto("idle", "check")
  /\ request' = [pair |-> [config |-> c,
                           roles |-> IF payload = NoPayload
                                     THEN roles ELSE payload],
                  withRoles |-> payload # NoPayload]
  /\ reply' = "quiet"
  /\ UNCHANGED <<files, history>>

(* Mutant: an unfinished journal does not refuse the next commit.          *)
CheckJournalDropsAny ==
  /\ pc = "check"
  /\ pc' = IF journal.state = "none" THEN "prepare" ELSE "drop_stale"
  /\ UNCHANGED <<files, request, reply, history>>

(* A journal left behind is dropped when its commit finished, and refuses  *)
(* every further commit when it did not.                                   *)
CheckJournal ==
  /\ pc = "check"
  /\ \/ /\ journal.state = "none"
        /\ pc' = "prepare"
        /\ UNCHANGED reply
     \/ /\ journal.state = "committed"
        /\ pc' = "drop_stale"
        /\ UNCHANGED reply
     \/ /\ journal.state = "prepared"
        /\ Raise
  /\ UNCHANGED <<files, request, history>>

DropStaleJournal ==
  /\ pc = "drop_stale"
  /\ \/ /\ journal' = [journal EXCEPT !.state = "none"]
        /\ pc' = "prepare"
        /\ UNCHANGED reply
     \/ /\ Raise
        /\ UNCHANGED journal
  /\ UNCHANGED <<config, roles, request, history>>

WritePrepared ==
  /\ pc = "prepare"
  /\ \/ /\ journal' = [state |-> "prepared", before |-> Files]
        /\ pc' = "write_config"
        /\ UNCHANGED reply
     \/ /\ Raise
        /\ UNCHANGED journal
  /\ UNCHANGED <<config, roles, request, history>>

WriteConfig ==
  /\ \/ /\ Goto("write_config", "write_roles")
        /\ config' = request.pair.config
     \/ /\ Goto("write_config", "undo_config")
        /\ UNCHANGED config
  /\ UNCHANGED <<roles, journal, request, reply, history>>

WriteRoles ==
  /\ \/ /\ Goto("write_roles", "mark_committed")
        /\ roles' = request.pair.roles
     \/ /\ request.withRoles
        /\ Goto("write_roles", "undo_config")
        /\ UNCHANGED roles
  /\ UNCHANGED <<config, journal, request, reply, history>>

(* The commit point.                                                       *)
MarkCommitted ==
  /\ \/ /\ Goto("mark_committed", "unlink")
        /\ journal' = [journal EXCEPT !.state = "committed"]
        /\ accepted' = request.pair
     \/ /\ Goto("mark_committed", "undo_config")
        /\ UNCHANGED <<journal, accepted>>
  /\ UNCHANGED <<config, roles, request, reply, overlooked>>

(* A journal that cannot be removed does not fail a committed transaction. *)
UnlinkCommitted ==
  /\ Goto("unlink", "idle")
  /\ reply' = "ok"
  /\ \/ journal' = [journal EXCEPT !.state = "none"]
     \/ UNCHANGED journal
  /\ UNCHANGED <<config, roles, request, history>>

-----------------------------------------------------------------------------
(* The except branch of commit(): an error in one restore skips the rest.  *)

(* Mutant: a failed commit puts back config.toml only.                     *)
UndoConfigAlone ==
  /\ Goto("undo_config", "undo_unlink")
  /\ config' = journal.before.config
  /\ UNCHANGED <<roles, journal, request, reply, history>>

UndoConfig ==
  /\ pc = "undo_config"
  /\ \/ /\ config' = journal.before.config
        /\ pc' = "undo_roles"
        /\ UNCHANGED reply
     \/ /\ Raise
        /\ UNCHANGED config
  /\ UNCHANGED <<roles, journal, request, history>>

UndoRoles ==
  /\ pc = "undo_roles"
  /\ \/ /\ roles' = journal.before.roles
        /\ pc' = "undo_unlink"
        /\ UNCHANGED reply
     \/ /\ Raise
        /\ UNCHANGED roles
  /\ UNCHANGED <<config, journal, request, history>>

UndoUnlink ==
  /\ pc = "undo_unlink"
  /\ \/ journal' = [journal EXCEPT !.state = "none"]
     \/ UNCHANGED journal
  /\ Raise
  /\ UNCHANGED <<config, roles, request, history>>

-----------------------------------------------------------------------------
(* Role edits take the manifest lock, so they fall between commits; they   *)
(* do not look at the journal.                                             *)
EditRoles(r) ==
  /\ pc = "idle"
  /\ roles' = r
  /\ accepted' = [accepted EXCEPT !.roles = r]
  /\ overlooked' = (overlooked \/ journal.state = "prepared")
  /\ UNCHANGED <<config, journal, pc, request, reply>>

(* The process dies, or recover() raises and the bridge does not start.    *)
Die ==
  /\ pc # "down"
  /\ pc' = "down"
  /\ reply' = "quiet"
  /\ UNCHANGED <<files, request, history>>

(* serve_bridge calls recover() before it loads anything.                  *)
Start ==
  /\ pc = "down"
  /\ pc' = CASE journal.state = "none"      -> "idle"
             [] journal.state = "prepared"  -> "recover_config"
             [] journal.state = "committed" -> "recover_unlink"
  /\ UNCHANGED <<files, request, reply, history>>

RecoverConfig ==
  /\ Goto("recover_config", "recover_roles")
  /\ config' = journal.before.config
  /\ UNCHANGED <<roles, journal, request, reply, history>>

RecoverRoles ==
  /\ Goto("recover_roles", "recover_unlink")
  /\ roles' = journal.before.roles
  /\ UNCHANGED <<config, journal, request, reply, history>>

RecoverUnlink ==
  /\ Goto("recover_unlink", "idle")
  /\ journal' = [journal EXCEPT !.state = "none"]
  /\ UNCHANGED <<config, roles, request, reply, history>>

FilesNext ==
  \/ \E c \in Config, p \in Roles \cup {NoPayload} : CallCommit(c, p)
  \/ CheckJournal \/ DropStaleJournal \/ WritePrepared
  \/ WriteConfig \/ WriteRoles \/ MarkCommitted \/ UnlinkCommitted
  \/ UndoConfig \/ UndoRoles \/ UndoUnlink
  \/ \E r \in Roles : EditRoles(r)
  \/ Die \/ Start \/ RecoverConfig \/ RecoverRoles \/ RecoverUnlink

FilesSpec == FilesInit /\ [][FilesNext]_filesVars

-----------------------------------------------------------------------------
(* A crash at any point, a failed write or a failed rollback never costs   *)
(* a pair that was reported saved: what the next start restores is the     *)
(* last accepted configuration, and the roles saved with it or since, up   *)
(* to the edits saved while an unfinished journal awaited its recovery.    *)
Recoverable ==
  /\ Recovered.config = accepted.config
  /\ overlooked \/ Recovered.roles = accepted.roles

(* recover()'s own words: it "restores the last committed files". A role   *)
(* edit saved after a rollback that failed is a committed file, and the    *)
(* snapshot of the journal takes its place.                                *)
RestoresLastCommitted ==
  (pc = "idle" /\ journal.state = "none") => Files = accepted

(* The transaction implements the one-step commit of AtomicSettings.       *)
AtomicStatus ==
  CASE pc = "idle"                  -> reply
    [] pc = "unlink"                -> "applied"
    [] pc \in Committing \ {"unlink"} -> "pending"
    [] OTHER                        -> "quiet"

Atomic == INSTANCE AtomicSettings
            WITH pair <- Recovered, wanted <- request.pair, status <- AtomicStatus
AtomicSpec == Atomic!Spec
=============================================================================
