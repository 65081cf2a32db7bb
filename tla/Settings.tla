------------------------------ MODULE Settings ------------------------------
(***************************************************************************)
(* The settings window over one policy file: SettingsModel and the GTK     *)
(* handlers of Ui, with the other writers of the file (an editor, and the  *)
(* --restore-previous command) and the providers that load it and report   *)
(* it (ActivePolicy).                                                      *)
(*                                                                         *)
(* A handler runs to its end on the one GTK thread; the steps it takes     *)
(* through the marker directory are the only ones others interleave with.  *)
(* replace_policy is one step here: PolicyTransaction takes it apart.      *)
(***************************************************************************)
EXTENDS PolicyRules, ActivePolicy

CONSTANTS Offered,      \* capabilities whose buttons the person uses
          Apps,         \* the application catalog the window was built with
          LimitChoices, \* limits the three spinners are set to
          EditorDocs,   \* documents the editor writes
          Budgets       \* bounds: edits, writes, provider starts, earlier crashes

ASSUME BudgetAssumption ==
    Budgets \subseteq [edits : Nat, writes : Nat, starts : Nat, crashed : Nat]

VARIABLES target,    \* the policy file: its identity and its document
          previous,  \* the document of config.toml.previous, or Absent
          window,    \* "closed", "idle", or the scan the handler is waiting in
          model,     \* SettingsModel: the snapshot and the draft
          shown,     \* what the window displays
          dialog,    \* the open confirmation dialog, or "none"
          budget     \* what is left of the chosen budget

uiVars == <<window, model, shown, dialog>>
vars == <<target, previous, window, model, shown, dialog, budget, activeVars>>

-----------------------------------------------------------------------------
\* SettingsModel

from_snapshot(snapshot) == [snapshot |-> snapshot, draft |-> DraftOf(snapshot.doc)]

original == DraftOf(model.snapshot.doc)

has_changes == model.draft.raw # original.raw

\* The exact source proposed for saving, or Absent when it cannot be rendered.
candidate_source ==
    IF ~has_changes THEN model.snapshot.doc
    ELSE IF validate_source(model.draft.document) THEN model.draft.document
    ELSE Absent

\* The review page: no changes, not renderable, or the lines that change.
unified_diff ==
    IF ~has_changes THEN [kind |-> "none"]
    ELSE IF candidate_source = Absent THEN [kind |-> "invalid"]
    ELSE [kind |-> "diff", before |-> model.snapshot.doc, after |-> candidate_source]

\* read_policy
Readable(file) == file # Absent /\ validate_source(file.doc)

Rewritten(doc) == [id |-> target.id + 1, doc |-> doc]

Spend(what) == /\ budget[what] > 0
               /\ budget' = [budget EXCEPT ![what] = @ - 1]

\* Mutant: the file is not compared with the snapshot again.
same_snapshot_skipped(expected) == TRUE

\* The file is still the one expected was read from, byte for byte.
same_snapshot(expected) == target = expected

\* replace_policy(expected, candidate), with Absent for a candidate that the
\* validator refused: it may also fail for a reason of the file system, before
\* the exchange or after it.
Replace(expected, candidate, Done, Failed) ==
    IF ~same_snapshot(expected) \/ candidate = Absent
    THEN Failed /\ UNCHANGED <<target, previous, budget>>
    ELSE IF candidate = target.doc
    THEN UNCHANGED <<target, previous, budget>> /\ Done
    ELSE \/ Failed /\ UNCHANGED <<target, previous, budget>>
         \/ /\ Spend("writes")
            /\ target' = Rewritten(candidate)
            /\ previous' = target.doc
            /\ Done \/ Failed

-----------------------------------------------------------------------------
\* The window

Closed == [controls |-> Absent, review |-> [kind |-> "none"], restorable |-> FALSE,
           active |-> [kind |-> "unavailable", who |-> {}]]

Init == /\ ActiveInit
        /\ target = Absent
        /\ previous = Absent
        /\ window = "closed"
        /\ model = Absent
        /\ shown = Closed
        /\ dialog = "none"
        /\ budget \in Budgets
        /\ budget.crashed = Cardinality({ n \in Starts : at[n] = "gone" })

\* refresh looks for markers; FinishRefresh sets the widgets, which nobody
\* reads until then.
Refresh == window' = "refresh" /\ shown' = Closed /\ BeginScan

Silent == UNCHANGED <<window, shown, scan>>

Others == UNCHANGED <<at, pid, loaded, dir, body, held>>

\* Opening creates the disabled template when there is no policy.
OpenWindow ==
    /\ window = "closed"
    /\ target' = IF target = Absent THEN [id |-> 1, doc |-> FirstRunTemplate] ELSE target
    /\ Readable(target')
    /\ model' = from_snapshot(target')
    /\ Refresh
    /\ UNCHANGED <<previous, dialog, budget>>
    /\ Others

Displayed == [controls   |-> model.draft.raw,
              review     |-> unified_diff,
              restorable |-> previous # Absent,
              active     |-> Status(model.snapshot.doc)]

FinishRefresh ==
    /\ window = "refresh"
    /\ EndScan
    /\ window' = "idle"
    /\ shown' = Displayed
    /\ UNCHANGED <<target, previous, model, dialog, budget>>
    /\ Others

\* The buttons of the main window, while no dialog is over it.
Press == window = "idle" /\ dialog = "none"

\* apply(operation): the draft changes only if the whole policy stays valid.
apply(result) ==
    /\ Spend("edits")
    /\ model' = IF result = Absent THEN model ELSE [model EXCEPT !.draft = result]
    /\ Refresh
    /\ UNCHANGED <<target, previous>>
    /\ Others

Edit(result) == Press /\ apply(result) /\ UNCHANGED dialog

EnabledSwitch == Edit(set_enabled(model.draft, ~shown.controls.enabled))

CapabilityButton(c) ==
    LET checked == shown.controls.grant # Absent
                   /\ Contains(shown.controls.grant.capabilities, c)
    IN  Edit(toggle_capability(model.draft, c, ~checked))

ScopeChoice(clients) ==
    /\ Press
    /\ clients # shown.controls.observation.clients
    /\ Edit(set_observation(model.draft, clients, model.draft.raw.observation.titles))

TitlesSwitch ==
    Edit(set_observation(model.draft, model.draft.raw.observation.clients,
                         ~shown.controls.observation.titles))

LaunchModeChoice(mode) ==
    /\ Press
    /\ mode # shown.controls.launch.mode
    /\ Edit(set_launch_mode(model.draft, mode))

UserEntriesSwitch ==
    LET launch == model.draft.raw.launch
    IN  Edit(set_launch(model.draft, launch.mode, launch.allow, launch.deny,
                        ~shown.controls.launch.user))

CatalogButton(app) ==
    LET launch == shown.controls.launch
    IN  /\ Press
        /\ launch.mode # "deny"
        /\ app.user_entry => launch.user
        /\ Edit(edit_application(model.draft, app.id, ~application_admitted(launch, app)))

edit_limits(limits) ==
    /\ Press
    /\ limits # shown.controls.limits
    /\ Edit(set_resource_limits(model.draft, limits))

-----------------------------------------------------------------------------
\* Dialogs: one at a time, modal to the window.

Ask(question) ==
    /\ Press
    /\ dialog' = question
    /\ UNCHANGED <<target, previous, model, shown, budget>>
    /\ Silent
    /\ Others

ClearGrantButton == Press /\ shown.controls.grant # Absent /\ Ask("clear_grant")

DiscardButton == shown.review.kind # "none" /\ Ask("discard")

RestoreButton == shown.restorable /\ Ask("restore")

\* confirm_save looks for running providers before it asks.
SaveButton ==
    /\ Press
    /\ shown.review.kind = "diff"
    /\ has_changes
    /\ window' = "guidance"
    /\ BeginScan
    /\ UNCHANGED <<target, previous, model, shown, dialog, budget>>
    /\ Others

FinishGuidance ==
    /\ window = "guidance"
    /\ EndScan
    /\ window' = "idle"
    /\ dialog' = "save"
    /\ UNCHANGED <<target, previous, model, shown, budget>>
    /\ Others

\* Accept(question): the action of the confirm button, then the dialog closes.
Accept(question) == window = "idle" /\ dialog = question /\ dialog' = "none"

Cancel == /\ window = "idle"
          /\ dialog # "none"
          /\ dialog' = "none"
          /\ UNCHANGED <<target, previous, model, shown, budget>>
          /\ Silent
          /\ Others

ClearGrant == Accept("clear_grant") /\ apply(clear_grant(model.draft))

Discard == /\ Accept("discard")
           /\ model' = [model EXCEPT !.draft = original]
           /\ Refresh
           /\ UNCHANGED <<target, previous, budget>>
           /\ Others

\* save_now: a saved policy is shown and its activation looked up once more;
\* a refused one keeps the draft.
save_now ==
    LET Saved == /\ model' = from_snapshot(target') /\ window' = "saved"
                 /\ shown' = Closed /\ BeginScan
        Refused == UNCHANGED model /\ Refresh
    IN  /\ Accept("save")
        /\ Replace(model.snapshot, candidate_source, Saved, Refused)
        /\ Others

FinishSaved ==
    /\ window = "saved"
    /\ Scanned
    /\ shown' = Displayed
    /\ window' = "message"
    /\ BeginScan
    /\ UNCHANGED <<target, previous, model, dialog, budget>>
    /\ Others

FinishMessage ==
    /\ window = "message"
    /\ EndScan
    /\ window' = "idle"
    /\ UNCHANGED <<target, previous, model, shown, dialog, budget>>
    /\ Others

\* restore_previous drops any draft; an error leaves everything as displayed.
restore_previous ==
    LET Restored == model' = from_snapshot(target') /\ Refresh
        Refused == UNCHANGED model /\ Silent
        recovery == IF previous # Absent /\ validate_source(previous) THEN previous ELSE Absent
    IN  /\ Accept("restore")
        /\ Replace(model.snapshot, recovery, Restored, Refused)
        /\ Others

reload_now ==
    /\ IF Readable(target)
       THEN model' = from_snapshot(target) /\ Refresh
       ELSE UNCHANGED model /\ Silent
    /\ UNCHANGED <<target, previous, budget>>
    /\ Others

\* Mutant: reload never asks.
ReloadButton_silent == Press /\ reload_now /\ UNCHANGED dialog

ReloadButton ==
    /\ Press
    /\ IF has_changes THEN Ask("reload") ELSE reload_now /\ UNCHANGED dialog

Reload == Accept("reload") /\ reload_now

Close == /\ window' = "closed"
         /\ model' = Absent
         /\ shown' = Closed
         /\ UNCHANGED <<target, previous, budget, scan>>
         /\ Others

close_request ==
    /\ Press
    /\ IF has_changes THEN Ask("close") ELSE Close /\ UNCHANGED dialog

DiscardAndClose == Accept("close") /\ Close

-----------------------------------------------------------------------------
\* The other writers of the file, and the providers that load it.

EditorWrite(doc) ==
    /\ target # Absent
    /\ Spend("writes")
    /\ target' = Rewritten(doc)
    /\ UNCHANGED <<previous, uiVars, activeVars>>

\* agent-seat-settings --restore-previous, in its own process.
RestorePrevious ==
    /\ Readable(target)
    /\ previous # Absent
    /\ validate_source(previous)
    /\ previous # target.doc
    /\ Spend("writes")
    /\ target' = Rewritten(previous)
    /\ previous' = target.doc
    /\ UNCHANGED <<uiVars, activeVars>>

\* The first run only writes the template.
FirstRun == /\ target = Absent
            /\ target' = [id |-> 1, doc |-> FirstRunTemplate]
            /\ UNCHANGED <<previous, uiVars, budget, activeVars>>

\* Config::load: a provider starts from a policy that says it is enabled.
StartProvider(n, p) ==
    /\ \/ /\ Readable(target)
          /\ Parse(target.doc).enabled
          /\ Load(n, p, target.doc)
       \/ Load(n, p, Elsewhere)
    /\ Spend("starts")
    /\ UNCHANGED <<target, previous, uiVars>>

-----------------------------------------------------------------------------
EditStep == \/ EnabledSwitch
            \/ \E c \in Offered : CapabilityButton(c)
            \/ \E clients \in ClientScope : ScopeChoice(clients)
            \/ TitlesSwitch
            \/ \E mode \in LaunchMode : LaunchModeChoice(mode)
            \/ UserEntriesSwitch
            \/ \E app \in Apps : CatalogButton(app)
            \/ \E limits \in LimitChoices : edit_limits(limits)

ButtonStep == \/ ClearGrantButton \/ DiscardButton \/ RestoreButton
              \/ SaveButton \/ ReloadButton \/ close_request

DialogStep == \/ Cancel \/ ClearGrant \/ Discard \/ save_now
              \/ restore_previous \/ Reload \/ DiscardAndClose

WindowStep == \/ OpenWindow \/ EditStep \/ ButtonStep \/ DialogStep
              \/ FinishRefresh \/ FinishGuidance \/ FinishSaved \/ FinishMessage

OtherStep == \/ \E doc \in EditorDocs : EditorWrite(doc)
             \/ RestorePrevious
             \/ FirstRun
             \/ \E n \in Starts, p \in Pids : StartProvider(n, p)
             \/ /\ (\E n \in Starts : ProviderStep(n)) \/ ReadStep
                /\ UNCHANGED <<target, previous, uiVars, budget>>

Next == WindowStep \/ OtherStep

Spec == Init /\ [][Next]_vars

-----------------------------------------------------------------------------
\* The typed draft and its document, edited side by side by every setter of
\* PolicyDraft, always say the same policy, and one the strict validator
\* takes: what is rendered and saved is what the controls were set to.
DraftIsOnePolicy ==
    model # Absent => /\ Valid(model.draft.raw)
                      /\ Parse(model.draft.document) = model.draft.raw

\* What save_now writes is the source the review page shows, over the source
\* it shows it against, whoever else wrote the file meanwhile; the displaced
\* policy is kept.
SavedIsReviewed ==
    [][dialog = "save" /\ dialog' = "none" /\ target' # target =>
          /\ shown.review = [kind |-> "diff", before |-> target.doc, after |-> target'.doc]
          /\ shown.controls = Parse(target'.doc)
          /\ previous' = target.doc]_vars

\* Unsaved changes are given up only by the confirmation that says so; in
\* particular a save that meets another writer's policy keeps the draft.
DraftIsNotLost ==
    [][model # Absent /\ has_changes /\ model' # model /\ budget'.edits = budget.edits =>
          /\ dialog \in {"save", "discard", "reload", "restore", "close"}
          /\ dialog' = "none"
          /\ dialog = "save" => model'.snapshot = target' /\ target' # target]_vars

\* While the window says that a running provider matches the saved policy and
\* its controls are unchanged, an application is checked exactly when that
\* provider permits it, and a call's capability exactly when a session that
\* asks for everything may make the call.
ShownIsEnforced ==
    window = "idle" /\ shown.active.kind = "matching" /\ shown.review.kind = "none" =>
        \A n \in shown.active.who :
            LET enforced == Parse(loaded[n])
            IN  /\ \A app \in Apps : application_admitted(shown.controls.launch, app)
                                        <=> permits(enforced.launch, app)
                /\ \A call \in Call :
                      required_capability(call) \in granted(shown.controls, Capability)
                          <=> authorized(call, granted(enforced, Capability))

=============================================================================
