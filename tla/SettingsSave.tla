---------------------------- MODULE SettingsSave ----------------------------
(***************************************************************************)
(* A setting on its way from an input field to config.toml: the draft      *)
(* queues of the settings form and of the plugin panels in the renderer,   *)
(* the bridge client of Electron, and the backend's apply lock with its    *)
(* memo of operation ids and its check of the expected generation.         *)
(*                                                                         *)
(* The form owns every table but the plugins', sends the generation it has *)
(* read and never times out; a panel owns one plugin's table, sends no     *)
(* generation and times out.  Two more writers send one request each: the  *)
(* switch that enables a plugin and the onboarding, which reads the form's *)
(* tables and writes them back with a model added.                         *)
(***************************************************************************)
EXTENDS Naturals, Sequences, FiniteSets, SequencesExt

CONSTANTS Forms, Panels,   \* the editors: settings page, plugin panels
          Values,          \* what a table may hold; 0 at the start
          Invalid,         \* the values validation refuses
          MaxEdits, MaxLoads,  \* bounds: edits and reloads of all editors
          MaxDrains,       \* bound: operations of one editor
          MemoLimit,       \* _RESULT_HISTORY_LIMIT
          Disturbances     \* the sets of other things that happen, each once

Editors == Forms \cup Panels

ASSUME SettingsAssumption ==
    /\ Forms \cap Panels = {} /\ Editors \cap {"toggle", "onboarding"} = {}
    /\ Panels \cap {"form", "enabled"} = {}
    /\ 0 \in Values /\ Values \subseteq Nat /\ Invalid \subseteq Values \ {0}
    /\ {MaxEdits, MaxLoads, MemoLimit} \subseteq Nat /\ MaxDrains \in Nat \ {0}
    /\ Disturbances \subseteq SUBSET {"crash", "timeout", "fail", "toggle", "onboard"}

VARIABLES
    ed,          \* per editor: React state and the fields of its draft queue
    call,        \* per editor: its attempt in flight
    load,        \* per editor: the answer of a reload in flight
    requests,    \* FIFO at the apply lock; the head holds it
    candidate,   \* the text the head has derived and prepares, or NoText
    text,        \* the committed text, a value per part
    generation,  \* of this bridge process, 1 at its start
    memo,        \* remembered operations and their results, oldest first
    done,        \* history: operations this process committed
    onboarding,  \* what the onboarding has read
    spent,       \* edits and reloads so far
    left         \* disturbances that may still happen

vars == <<ed, call, load, requests, candidate, text, generation, memo, done, onboarding, spent, left>>
bridge == <<requests, candidate, text, generation, memo, done>>
others == <<onboarding, spent, left>>

None == [set |-> FALSE, val |-> 0]
Some(v) == [set |-> TRUE, val |-> v]
NoText == <<>>
Unread == [val |-> 0, gen |-> 0]     \* no reload in flight; generations start at 1
NoCall == [at |-> "none", out |-> "ok", val |-> 0, gen |-> 0]

\* The part of the text a writer owns.
Part(w) == IF w \in Panels THEN w ELSE IF w = "toggle" THEN "enabled" ELSE "form"
Parts == {"form", "enabled"} \cup Panels
Added == 1 + CHOOSE m \in Values : \A v \in Values : v <= m   \* the onboarding's value

Fresh(v, g) == [draft |-> v, snap |-> v, expect |-> g, dirty |-> TRUE,
                running |-> FALSE, failed |-> FALSE, paused |-> FALSE,
                queued |-> None, attempted |-> None, op |-> 0]

-----------------------------------------------------------------------------
(* SerialDraftQueue, on an editor's record r. *)

\* enqueue(draft, persisted) up to its call of drain().
Enqueued(r) ==
    LET same == r.attempted = Some(r.draft)
        saved == ~r.running /\ ~r.failed /\ r.draft = r.snap
    IN  [r EXCEPT !.queued = IF same \/ saved THEN None ELSE Some(r.draft)]

\* reset(), after which the page shows what the reload has read.
Reloaded(r, read) == [r EXCEPT !.failed = FALSE, !.paused = FALSE, !.queued = None,
                               !.attempted = None, !.draft = read.val, !.snap = read.val,
                               !.expect = read.gen, !.dirty = TRUE]

\* drain() of a queued draft: a new operation.
Drained(r) == [r EXCEPT !.queued = None, !.attempted = r.queued, !.op = (@ % MaxDrains) + 1,
                        !.running = TRUE, !.failed = FALSE]

\* Panels may submit for ever; the bound keeps their numbers apart as long as
\* a form is there to be disturbed by them.
MayDrain(e) == Forms = {} \/ ed[e].op < MaxDrains

Request(e, r) == [who |-> e, op |-> r.op, val |-> r.attempted.val,
                  expect |-> IF e \in Forms THEN r.expect ELSE 0, live |-> TRUE]
Sent(v) == [NoCall EXCEPT !.at = "sent", !.val = v]

\* The editor's record becomes r, whose queued draft is submitted at once if
\* nothing runs and nothing pauses the queue.
Resume(e, r) ==
    IF r.queued.set /\ ~r.running /\ ~r.paused
    THEN /\ MayDrain(e)
         /\ ed' = [ed EXCEPT ![e] = Drained(r)]
         /\ call' = [call EXCEPT ![e] = Sent(r.queued.val)]
         /\ requests' = Append(requests, Request(e, Drained(r)))
    ELSE /\ ed' = [ed EXCEPT ![e] = r]
         /\ call' = [call EXCEPT ![e] = IF r.running THEN @ ELSE NoCall]
         /\ UNCHANGED requests

-----------------------------------------------------------------------------
(* Renderer. *)

Init ==
    /\ text = [p \in Parts |-> 0] /\ generation = 1
    /\ ed = [e \in Editors |-> Fresh(0, 1)]
    /\ call = [e \in Editors |-> NoCall] /\ load = [e \in Editors |-> Unread]
    /\ requests = <<>> /\ candidate = NoText /\ memo = <<>> /\ done = {}
    /\ onboarding = Unread
    /\ spent = [edits |-> 0, loads |-> 0]
    /\ left \in Disturbances

\* The user changes a field: setDraft, and a re-render follows.
Edit(e) ==
    /\ spent.edits < MaxEdits
    /\ \E v \in Values \ {ed[e].draft} :
          ed' = [ed EXCEPT ![e].draft = v, ![e].dirty = TRUE]
    /\ spent' = [spent EXCEPT !.edits = @ + 1]
    /\ UNCHANGED <<call, load, bridge, onboarding, left>>

\* The effect of a render hands the draft to the queue.
Effect(e) ==
    /\ ed[e].dirty
    /\ Resume(e, Enqueued([ed[e] EXCEPT !.dirty = FALSE]))
    /\ UNCHANGED <<load, candidate, text, generation, memo, done, others>>

\* Failures after which the next edit is submitted by itself.
ResumesAutomatically(e, out) == out = "invalid" \/ (out = "failed" /\ e \in Forms)

AttemptFails(e) ==
    /\ call[e].at = "done" /\ call[e].out # "ok" /\ load[e] = Unread
    /\ Resume(e, [ed[e] EXCEPT !.running = FALSE, !.failed = TRUE,
                               !.paused = ~ResumesAutomatically(e, call[e].out)])
    /\ UNCHANGED <<load, candidate, text, generation, memo, done, others>>

\* A panel's onApplied shows the values it has sent, whatever was typed since.
Applied(e, r) == [r EXCEPT !.snap = call[e].val, !.draft = call[e].val]

PanelSaved(e) ==
    /\ e \in Panels /\ call[e].at = "done" /\ call[e].out = "ok" /\ load[e] = Unread
    /\ Resume(e, [Applied(e, ed[e]) EXCEPT !.running = FALSE, !.paused = FALSE, !.dirty = TRUE])
    /\ UNCHANGED <<load, candidate, text, generation, memo, done, others>>

\* A form reads the text back before it takes its save for applied.
FormSaved(e) ==
    /\ e \in Forms /\ call[e].at = "done" /\ call[e].out = "ok" /\ load[e] = Unread
    /\ call' = [call EXCEPT ![e].at = "read"]
    /\ UNCHANGED <<ed, load, bridge, others>>

\* Mutant: shows what was sent, as a panel does.
ReadBackSent(e, r) == [r EXCEPT !.snap = text["form"], !.expect = call[e].gen, !.draft = call[e].val]

\* Its onApplied keeps a draft that was edited meanwhile.
ReadBack(e, r) ==
    [r EXCEPT !.snap = text["form"], !.expect = call[e].gen,
              !.draft = IF @ = call[e].val THEN text["form"] ELSE @]

FormApplied(e) ==
    /\ call[e].at = "read"
    /\ Resume(e, [ReadBack(e, ed[e]) EXCEPT !.running = FALSE, !.paused = FALSE, !.dirty = TRUE])
    /\ UNCHANGED <<load, candidate, text, generation, memo, done, others>>

\* The two buttons of the error banner.
Retry(e) ==
    /\ ed[e].failed /\ ~ed[e].running /\ ed[e].attempted.set
    /\ LET r == [ed[e] EXCEPT !.failed = FALSE, !.running = TRUE] IN
          /\ ed' = [ed EXCEPT ![e] = r]
          /\ call' = [call EXCEPT ![e] = Sent(r.attempted.val)]
          /\ requests' = Append(requests, Request(e, r))
    /\ UNCHANGED <<load, candidate, text, generation, memo, done, others>>

Reload(e) ==
    /\ ed[e].failed /\ ~ed[e].running /\ load[e] = Unread /\ spent.loads < MaxLoads
    /\ load' = [load EXCEPT ![e] = [val |-> text[Part(e)], gen |-> generation]]
    /\ spent' = [spent EXCEPT !.loads = @ + 1]
    /\ UNCHANGED <<ed, call, bridge, onboarding, left>>

LoadArrives(e) ==
    /\ load[e] # Unread
    /\ ed' = [ed EXCEPT ![e] = Reloaded(@, load[e])]
    /\ load' = [load EXCEPT ![e] = Unread]
    /\ UNCHANGED <<call, bridge, others>>

\* A request of a panel times out in Electron; its answer will be dropped.
Timeout(e) ==
    /\ e \in Panels /\ call[e].at = "sent" /\ "timeout" \in left
    /\ call' = [call EXCEPT ![e].at = "done", ![e].out = "exit"]
    /\ requests' = [i \in DOMAIN requests |->
                      [requests[i] EXCEPT !.live = @ /\ requests[i].who # e]]
    /\ left' = left \ {"timeout"}
    /\ UNCHANGED <<ed, load, candidate, text, generation, memo, done, onboarding, spent>>

-----------------------------------------------------------------------------
(* The writers of one request. *)

OneShot(w, v, g) == [who |-> w, op |-> 1, val |-> v, expect |-> g, live |-> FALSE]

Toggle ==
    /\ "toggle" \in left
    /\ requests' = Append(requests, OneShot("toggle", Added, 0))
    /\ left' = left \ {"toggle"}
    /\ UNCHANGED <<ed, call, load, candidate, text, generation, memo, done, onboarding, spent>>

OnboardingReads ==
    /\ "onboard" \in left
    /\ onboarding' = [val |-> text["form"], gen |-> generation]
    /\ left' = left \ {"onboard"}
    /\ UNCHANGED <<ed, call, load, bridge, spent>>

OnboardingSaves ==
    /\ onboarding # Unread
    /\ requests' = Append(requests, OneShot("onboarding", Added, onboarding.gen))
    /\ onboarding' = Unread
    /\ UNCHANGED <<ed, call, load, candidate, text, generation, memo, done, spent, left>>

-----------------------------------------------------------------------------
(* RuntimeSettingsApplication.apply, under its lock. *)

Operation(r) == <<r.who, r.op>>
Known(r) == {i \in DOMAIN memo : memo[i].op = Operation(r)}

\* Mutant: a limit of one result.
RememberNewest(r, g) == <<[op |-> Operation(r), gen |-> g]>>

\* _remember: a new operation is the newest, and the oldest is dropped at the limit.
Remember(r, g) ==
    LET entry == [op |-> Operation(r), gen |-> g]
        all == IF Known(r) = {} THEN Append(memo, entry)
               ELSE [i \in DOMAIN memo |-> IF i \in Known(r) THEN entry ELSE memo[i]]
    IN  IF Len(all) > MemoLimit THEN Tail(all) ELSE all

\* Mutant: the text of a form carries the plugin tables it was loaded with.
DerivedWhole(r) == IF Part(r.who) = "form"
                   THEN [p \in Parts |-> IF p = "form" THEN r.val ELSE 0]
                   ELSE [text EXCEPT ![Part(r.who)] = r.val]

\* What the writer's callback makes of the committed text.
Derived(r) == [text EXCEPT ![Part(r.who)] = r.val]

\* Mutant: a writer behind the current generation is not refused.
OutdatedNewer(r) == r.expect > generation

Outdated(r) == r.expect # 0 /\ r.expect # generation

\* The answer reaches an editor that still waits for it.
Answer(out, g) ==
    LET r == Head(requests) IN
    /\ requests' = Tail(requests)
    /\ call' = IF r.live THEN [call EXCEPT ![r.who] = [@ EXCEPT !.at = "done", !.out = out, !.gen = g]]
               ELSE call

\* Before anything is prepared: a known operation, a refused value (by the form's own
\* validation or by that of the text), a stale form.
Decline ==
    /\ requests # <<>> /\ candidate = NoText
    /\ LET r == Head(requests) IN
          \/ \E i \in Known(r) : Answer("ok", memo[i].gen)
          \/ r.val \in Invalid /\ Known(r) = {} /\ Answer("invalid", 0)
          \/ Outdated(r) /\ Known(r) = {} /\ Answer("conflict", 0)
    /\ UNCHANGED <<ed, load, candidate, text, generation, memo, done, others>>

Derive ==
    /\ requests # <<>> /\ candidate = NoText
    /\ LET r == Head(requests) IN
          /\ Known(r) = {} /\ r.val \notin Invalid /\ ~Outdated(r)
          /\ candidate' = Derived(r)
    /\ UNCHANGED <<ed, call, load, requests, text, generation, memo, done, others>>

PrepareFails ==
    /\ candidate # NoText /\ candidate # text /\ "fail" \in left
    /\ Answer("failed", 0)
    /\ candidate' = NoText
    /\ left' = left \ {"fail"}
    /\ UNCHANGED <<ed, load, text, generation, memo, done, onboarding, spent>>

\* An unchanged configuration keeps its generation; without a form nobody
\* compares generations.
Bumped == IF candidate = text \/ Forms = {} THEN generation ELSE generation + 1

Commit ==
    /\ candidate # NoText
    /\ LET r == Head(requests) IN
          /\ text' = candidate /\ generation' = Bumped
          /\ memo' = Remember(r, Bumped)
          /\ done' = done \cup {Operation(r)}
          /\ Answer("ok", Bumped)
    /\ candidate' = NoText
    /\ UNCHANGED <<ed, load, others>>

\* The bridge process dies, before or after the files of a commit were
\* replaced.  Electron answers what is pending and starts it again; a reload
\* that failed is repeated.
Crash ==
    /\ "crash" \in left
    /\ \E t \in {text} \cup ({candidate} \ {NoText}) :
          /\ text' = t
          /\ load' = [e \in Editors |-> IF load[e] = Unread THEN Unread
                                        ELSE [val |-> t[Part(e)], gen |-> 1]]
    /\ generation' = 1 /\ memo' = <<>> /\ done' = {}
    /\ requests' = <<>> /\ candidate' = NoText
    /\ call' = [e \in Editors |-> IF call[e].at \in {"sent", "read"}
                                  THEN [call[e] EXCEPT !.at = "done", !.out = "exit"] ELSE call[e]]
    /\ left' = left \ {"crash"}
    /\ UNCHANGED <<ed, onboarding, spent>>

Next ==
    \/ \E e \in Editors :
          \/ Edit(e) \/ Effect(e) \/ AttemptFails(e) \/ PanelSaved(e) \/ FormSaved(e)
          \/ FormApplied(e) \/ Retry(e) \/ Reload(e) \/ LoadArrives(e) \/ Timeout(e)
    \/ Toggle \/ OnboardingReads \/ OnboardingSaves
    \/ Decline \/ Derive \/ PrepareFails \/ Commit \/ Crash

Spec == Init /\ [][Next]_vars

\* React runs its effects and promises settle; the bridge serves its lock, and
\* a preparation ends.  The user owes nothing.
Fairness ==
    /\ \A e \in Editors : /\ WF_vars(Effect(e)) /\ WF_vars(AttemptFails(e))
                          /\ WF_vars(PanelSaved(e)) /\ WF_vars(FormSaved(e))
                          /\ WF_vars(FormApplied(e)) /\ WF_vars(LoadArrives(e))
    /\ WF_vars(Decline) /\ WF_vars(Derive) /\ WF_vars(Commit)
FairSpec == Spec /\ Fairness

-----------------------------------------------------------------------------
(* Properties. *)

Shown == Values \cup {Added}
Optional == [set : BOOLEAN, val : Shown]

\* Every variable keeps its type, and a draft queue its discipline: it runs
\* exactly while an attempt is in flight, and a draft it holds back is newer
\* than its attempt and waits for that attempt or for the user.
TypeOK ==
    /\ text \in [Parts -> Shown] /\ generation \in Nat \ {0}
    /\ candidate = NoText \/ (candidate \in [Parts -> Shown] /\ requests # <<>>)
    /\ \A e \in Editors :
          LET r == ed[e] IN
          /\ {r.draft, r.snap} \subseteq Shown /\ {r.queued, r.attempted} \subseteq Optional
          /\ r.running <=> call[e].at # "none"
          /\ r.queued.set => (r.running \/ r.paused) /\ r.queued # r.attempted
          /\ call[e].at \in {"none", "sent", "done", "read"}
    /\ \A i \in DOMAIN requests : requests[i].live => call[requests[i].who].at = "sent"
    /\ Len(memo) <= MemoLimit

\* However often a save times out, is retried or waits behind others, one
\* process commits an operation id at most once (apply.py:157, the memo is
\* checked before anything is derived).
AppliedOnce ==
    [][\A op \in done' : memo' # memo /\ memo'[Len(memo')].op = op => op \notin done]_vars

\* A commit changes the tables of its own writer and no others, whatever was
\* committed since its editor has read them (apply.py:147, "Deriving outside
\* the lock would silently drop the other writer's changes").
OthersKept ==
    [][\A p \in Parts : text'[p] # text[p] =>
          requests # <<>> /\ Part(Head(requests).who) = p /\ text'[p] = Head(requests).val]_vars

\* A settled form is honest: it shows what is saved, or its next save will be
\* refused as outdated.
Settled(e) == ~ed[e].running /\ ~ed[e].failed /\ ~ed[e].dirty /\ load[e] = Unread
Honest == \A e \in Forms : Settled(e) => \/ ed[e].draft = text["form"]
                                         \/ Outdated(Request(e, ed[e]))

\* Whatever is edited, refused, reloaded or lost to a crash, the settings form
\* comes to rest again and again.
AtRest(e) == ~ed[e].running /\ ~ed[e].dirty
FormsRest == \A e \in Forms : []<>AtRest(e)

\* usePluginConfigController.ts:22 says that a panel "Mirrors
\* `useSettingsPageController`'s load/draft/autosave shape": it comes to rest too.
PanelsRest == \A e \in Panels : []<>AtRest(e)
=============================================================================
