-------------------------- MODULE ConversationLog --------------------------
(***************************************************************************)
(* What a session promises the rest of Mira: a log of messages that only   *)
(* grows at its end, or loses one whole passive turn to /undo, and a mark  *)
(* up to which the log has been written into the Markdown memory.          *)
(***************************************************************************)
EXTENDS Naturals, Sequences, SequencesExt

VARIABLES log,      \* the messages, oldest first
          mark,     \* the first `mark` messages are in the memory
          kept      \* the messages the memory has taken in so far

logVars == <<log, mark, kept>>

Init == log = <<>> /\ mark = 0 /\ kept = {}

\* A writer adds messages at the end.
Extend == /\ log' # log /\ IsPrefix(log, log')
          /\ UNCHANGED <<mark, kept>>

\* One user message and the reply right after it leave; what is before the
\* mark afterwards was before it already.
Retract == /\ \E i \in 1..Len(log) - 1 :
                 /\ log' = RemoveAt(RemoveAt(log, i + 1), i)
                 /\ mark' <= mark
                 /\ mark' <= i - 1 \/ mark <= i - 1
           /\ UNCHANGED kept

\* The memory takes in messages of the log.
Write == /\ kept' \subseteq kept \cup ToSet(log)
         /\ kept \subseteq kept'
         /\ UNCHANGED <<log, mark>>

\* The mark moves forward, over messages the memory holds only.
Advance == /\ mark' \in mark + 1..Len(log)
           /\ \A i \in 1..mark' : log[i] \in kept
           /\ UNCHANGED <<log, kept>>

Next == Extend \/ Retract \/ Write \/ Advance

LogSpec == Init /\ [][Next]_logVars
=============================================================================
