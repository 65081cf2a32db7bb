----------------------------- MODULE PolicyRules -----------------------------
(***************************************************************************)
(* The policy file as the provider and the settings editor read it: what a *)
(* document means (RawConfig), which policies the strict validator takes,  *)
(* the grouped edits of PolicyDraft, and what a launch policy admits.      *)
(*                                                                         *)
(* A document is a function from the keys the file spells out to their     *)
(* values; comments and layout are left out.  The three resource limits    *)
(* are written together and are one key here.  An application is a record  *)
(* of its desktop ID and whether it is a user entry.                       *)
(***************************************************************************)
EXTENDS Integers, Sequences, SequencesExt

CONSTANTS Absent,     \* no grant, no file, or the error of a fallible call
          MyUid,      \* geteuid() of the provider and of the editor
          MAX_LISTED, \* listed IDs that still fit in MAX_CONFIG_BYTES
          MAX_APPLICATIONS  \* IDs in one list

Capability == { "observe_structure", "observe_titles", "observe_events",
                "manage_activate", "manage_close", "manage_workspace",
                "manage_state", "manage_geometry", "launch_list",
                "launch_execute", "input_pointer", "input_keyboard",
                "text_transfer", "capture_obscured" }

ClientScope == {"none", "current_workspace", "all_workspaces"}

LaunchMode == {"deny", "allow_listed", "allow_installed"}

MAX_SESSIONS == 32
MAX_REQUESTS == 4096
MIN_IO_TIMEOUT_MS == 50
MAX_IO_TIMEOUT_MS == 10000

DefaultLimits == [max_sessions |-> 4, max_requests |-> 1024, io_timeout_ms |-> 2000]

-----------------------------------------------------------------------------
\* The file

\* A key that is left out has its default; enabled has none.
Default == [ limits |-> DefaultLimits, grant |-> Absent,
             clients |-> "none", titles |-> FALSE,
             mode |-> "deny", allow |-> <<>>, deny |-> <<>>, user |-> FALSE,
             private_devices |-> FALSE ]

Get(doc, key) == IF key \in DOMAIN doc THEN doc[key] ELSE Default[key]

Put(doc, key, value) ==
    [k \in DOMAIN doc \cup {key} |-> IF k = key THEN value ELSE doc[k]]

Without(doc, key) == [k \in DOMAIN doc \ {key} |-> doc[k]]

\* What the parser makes of a document.
Parse(doc) ==
    [ enabled     |-> Get(doc, "enabled"),
      limits      |-> Get(doc, "limits"),
      grant       |-> Get(doc, "grant"),
      observation |-> [ clients |-> Get(doc, "clients"),
                        titles  |-> Get(doc, "titles") ],
      launch      |-> [ mode  |-> Get(doc, "mode"),
                        allow |-> Get(doc, "allow"),
                        deny  |-> Get(doc, "deny"),
                        user  |-> Get(doc, "user") ],
      input       |-> Get(doc, "private_devices") ]

\* The document create_first_run_config writes: the disabled template.
FirstRunTemplate ==
    [ enabled |-> FALSE,
      limits  |-> DefaultLimits,
      grant   |-> [ uid          |-> MyUid,
                    capabilities |-> << "observe_structure" >> ],
      clients |-> "current_workspace", titles |-> FALSE,
      mode    |-> "deny", allow |-> <<>>, deny |-> <<>>, user |-> FALSE,
      private_devices |-> FALSE ]

-----------------------------------------------------------------------------
\* The strict validator

LimitsValid(limits) ==
    /\ limits.max_sessions \in 1 .. MAX_SESSIONS
    /\ limits.max_requests \in 1 .. MAX_REQUESTS
    /\ limits.io_timeout_ms \in MIN_IO_TIMEOUT_MS .. MAX_IO_TIMEOUT_MS

\* The capabilities that must be granted with c.
Prerequisites(c) ==
    CASE c \in {"observe_structure", "launch_list"} -> {}
      [] c = "launch_execute" -> {"launch_list"}
      [] OTHER -> {"observe_structure"}

GrantValid(grant) ==
    /\ grant.uid = MyUid
    /\ IsInjective(grant.capabilities)
    /\ \A i \in 1 .. Len(grant.capabilities) :
          \A needed \in Prerequisites(grant.capabilities[i]) :
              Contains(grant.capabilities, needed)

\* Mutant: an ID may be in both lists.
LaunchValid_overlap(launch) ==
    /\ IsInjective(launch.allow)
    /\ IsInjective(launch.deny)

\* The IDs of the model are canonical: only duplicates and overlap are left.
LaunchValid(launch) ==
    /\ IsInjective(launch.allow)
    /\ IsInjective(launch.deny)
    /\ \A i \in 1 .. Len(launch.allow) : ~Contains(launch.deny, launch.allow[i])

Valid(raw) == /\ LimitsValid(raw.limits)
              /\ raw.grant # Absent => GrantValid(raw.grant)
              /\ LaunchValid(raw.launch)

\* A document is bounded in bytes before it is parsed; the lists of desktop
\* IDs are what makes one long.
Fits(doc) ==
    Len(Get(doc, "allow")) + Len(Get(doc, "deny")) <= MAX_LISTED

Bounded(allow, deny) == Len(allow) <= MAX_APPLICATIONS /\ Len(deny) <= MAX_APPLICATIONS

\* What the parser itself refuses: no enabled, a name that is not one of the
\* scopes or modes, or a list that is too long.  (A list of capabilities
\* without duplicates never is.)
Parses(doc) == /\ "enabled" \in DOMAIN doc
               /\ Bounded(Get(doc, "allow"), Get(doc, "deny"))
               /\ Get(doc, "clients") \in ClientScope
               /\ Get(doc, "mode") \in LaunchMode

validate_source(doc) == Fits(doc) /\ Parses(doc) /\ Valid(Parse(doc))

-----------------------------------------------------------------------------
\* PolicyDraft: a typed policy and the document it was parsed from, edited
\* side by side.  A setter answers the edited draft, or Absent for its error.

DraftOf(doc) == [raw |-> Parse(doc), document |-> doc]

replace_if_valid(candidate) == IF Valid(candidate.raw) THEN candidate ELSE Absent

set_enabled(draft, enabled) ==
    [raw |-> [draft.raw EXCEPT !.enabled = enabled],
     document |-> Put(draft.document, "enabled", enabled)]

set_resource_limits(draft, limits) ==
    replace_if_valid(
        [raw |-> [draft.raw EXCEPT !.limits = limits],
         document |-> Put(draft.document, "limits", limits)])

set_capabilities(draft, capabilities) ==
    LET grant == [uid |-> MyUid, capabilities |-> capabilities]
    IN  replace_if_valid([raw |-> [draft.raw EXCEPT !.grant = grant],
                          document |-> Put(draft.document, "grant", grant)])

clear_grant(draft) ==
    [raw |-> [draft.raw EXCEPT !.grant = Absent],
     document |-> Without(draft.document, "grant")]

\* Mutant: the document keeps its old titles.
set_observation_half(draft, clients, titles) ==
    replace_if_valid(
        [raw |-> [draft.raw EXCEPT !.observation = [clients |-> clients, titles |-> titles]],
         document |-> Put(draft.document, "clients", clients)])

set_observation(draft, clients, titles) ==
    replace_if_valid(
        [raw |-> [draft.raw EXCEPT !.observation = [clients |-> clients, titles |-> titles]],
         document |-> Put(Put(draft.document, "clients", clients), "titles", titles)])

set_launch(draft, mode, allow, deny, user) ==
    IF ~Bounded(allow, deny) THEN Absent
    ELSE replace_if_valid(
        [raw |-> [draft.raw EXCEPT !.launch = [mode |-> mode, allow |-> allow,
                                               deny |-> deny, user |-> user]],
         document |-> Put(Put(Put(Put(draft.document, "mode", mode), "allow", allow),
                              "deny", deny), "user", user)])

set_launch_mode(draft, mode) ==
    LET launch == draft.raw.launch
    IN  set_launch(draft, mode, launch.allow, launch.deny, launch.user)

capabilities_of(draft) ==
    IF draft.raw.grant = Absent THEN <<>> ELSE draft.raw.grant.capabilities

\* One capability check button of the access page.
toggle_capability(draft, capability, active) ==
    LET held == capabilities_of(draft)
    IN  set_capabilities(draft,
            IF active /\ ~Contains(held, capability) THEN Append(held, capability)
            ELSE IF ~active THEN Remove(held, capability)
            ELSE held)

\* One application check button of the catalog.
edit_application(draft, id, admitted) ==
    LET launch == draft.raw.launch
        Lists(allow, deny) == set_launch(draft, launch.mode, allow, deny, launch.user)
    IN  CASE launch.mode = "deny" -> Absent
          [] launch.mode = "allow_listed" /\ admitted ->
                IF Contains(launch.allow, id)
                THEN Lists(launch.allow, launch.deny)
                ELSE Lists(Append(launch.allow, id), Remove(launch.deny, id))
          [] launch.mode = "allow_listed" /\ ~admitted ->
                Lists(Remove(launch.allow, id), launch.deny)
          [] launch.mode = "allow_installed" /\ admitted ->
                Lists(launch.allow, Remove(launch.deny, id))
          [] launch.mode = "allow_installed" /\ ~admitted ->
                IF Contains(launch.deny, id)
                THEN Lists(launch.allow, launch.deny)
                ELSE Lists(Remove(launch.allow, id), Append(launch.deny, id))

-----------------------------------------------------------------------------
\* What a launch policy admits: as the editor shows it, and as the provider
\* decides it.

application_admitted(launch, app) ==
    /\ app.user_entry => launch.user
    /\ CASE launch.mode = "deny" -> FALSE
         [] launch.mode = "allow_listed" -> Contains(launch.allow, app.id)
         [] launch.mode = "allow_installed" -> ~Contains(launch.deny, app.id)

permits(launch, app) ==
    /\ app.user_entry => launch.user
    /\ ~Contains(launch.deny, app.id)
    /\ CASE launch.mode = "deny" -> FALSE
         [] launch.mode = "allow_listed" -> Contains(launch.allow, app.id)
         [] launch.mode = "allow_installed" -> TRUE

-----------------------------------------------------------------------------
\* What a grant lets a session of this user do.

Observing == {"desktop_snapshot", "seat_status"}
Watching  == {"events_subscribe", "events_poll"}
Targeted  == {"client_activate", "client_close", "workspace_switch", "client_workspace",
              "client_state", "client_geometry", "pointer_move", "pointer_click",
              "keyboard_type", "keyboard_write", "keyboard_key", "text_insert",
              "capture_obscured", "capture_region"}
Call == Observing \cup Watching \cup Targeted \cup {"applications_list", "application_launch"}

required_capability(call) ==
    CASE call \in Observing -> "observe_structure"
      [] call \in Watching -> "observe_events"
      [] call = "client_activate" -> "manage_activate"
      [] call = "client_close" -> "manage_close"
      [] call \in {"workspace_switch", "client_workspace"} -> "manage_workspace"
      [] call = "client_state" -> "manage_state"
      [] call = "client_geometry" -> "manage_geometry"
      [] call = "applications_list" -> "launch_list"
      [] call = "application_launch" -> "launch_execute"
      [] call \in {"pointer_move", "pointer_click"} -> "input_pointer"
      [] call \in {"keyboard_type", "keyboard_write", "keyboard_key"} -> "input_keyboard"
      [] call = "text_insert" -> "text_transfer"
      [] call \in {"capture_obscured", "capture_region"} -> "capture_obscured"

\* The capabilities a session is given of those it requests; without a grant
\* it is refused.
granted(raw, requested) ==
    IF raw.grant = Absent THEN {}
    ELSE { c \in requested : Contains(raw.grant.capabilities, c) }

\* The session's own check of a request.
authorized(call, capabilities) ==
    /\ required_capability(call) \in capabilities
    /\ call \in Targeted => "observe_structure" \in capabilities
    /\ call = "application_launch" => "launch_list" \in capabilities

=============================================================================
