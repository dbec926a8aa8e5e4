--------------------------- MODULE AtomicSettings ---------------------------
(***************************************************************************)
(* What the recoverable commit of desktop_bridge/config_transaction.py     *)
(* promises its callers: the configuration text and the role manifest are  *)
(* one pair, replaced as a whole or not at all.  A caller that is told     *)
(* "ok" has its pair in force, one that is told "failed" changed nothing,  *)
(* and one whose process dies learns nothing, but never finds a mixture.   *)
(***************************************************************************)
CONSTANTS Config,  \* the texts config.toml may hold
          Roles    \* the payloads roles.json may hold

Pair == [config: Config, roles: Roles]

VARIABLES pair,     \* the pair in force
          wanted,   \* the pair the running commit was asked for
          status    \* where that commit stands

vars == <<pair, wanted, status>>

Resting == {"quiet", "ok", "failed"}

Init == /\ pair \in Pair
        /\ wanted = pair
        /\ status = "quiet"

(* A caller asks for a new pair.                                           *)
Submit == /\ status \in Resting
          /\ wanted' \in Pair
          /\ status' = "pending"
          /\ UNCHANGED pair

(* The one step at which the new pair comes into force.                    *)
Apply == /\ status = "pending"
         /\ pair' = wanted
         /\ status' = "applied"
         /\ UNCHANGED wanted

Succeed == /\ status = "applied"
           /\ status' = "ok"
           /\ UNCHANGED <<pair, wanted>>

Fail == /\ status = "pending"
        /\ status' = "failed"
        /\ UNCHANGED <<pair, wanted>>

(* Roles are also edited on their own, never in the middle of a commit.    *)
EditRoles == /\ status \in Resting
             /\ \E r \in Roles : pair' = [pair EXCEPT !.roles = r]
             /\ UNCHANGED <<wanted, status>>

(* The process dies: whatever is in force stays in force.                  *)
Crash == /\ status' = "quiet"
         /\ UNCHANGED <<pair, wanted>>

Next == Submit \/ Apply \/ Succeed \/ Fail \/ EditRoles \/ Crash

Spec == Init /\ [][Next]_vars
=============================================================================
