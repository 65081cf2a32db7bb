--------------------------- MODULE SettingsProofs ---------------------------
(***************************************************************************)
(* The settings window, for any policies, applications, limits, starts and *)
(* budgets: first the policy draft and its rules, then the markers of      *)
(* running providers, then the window over both.                           *)
(***************************************************************************)
EXTENDS Settings, TLAPS

\* The prover of the leaves that name none, and how long it may take.
USE ZenonT(60)

(***************************************************************************)
(* PolicyRules: the two halves of a policy draft stay one policy under     *)
(* every edit, and what the editor shows as admitted is what the provider  *)
(* permits; for any documents, lists and applications.                     *)
(***************************************************************************)

\* A draft whose two halves are one policy, and one the validator takes.
OneDraft(draft) ==
    /\ draft = [raw |-> draft.raw, document |-> draft.document]
    /\ draft.raw = Parse(draft.document)
    /\ Valid(draft.raw)
    /\ draft.raw.launch.mode \in LaunchMode

\* What a fallible edit may answer.
Answer(result) == result = Absent \/ OneDraft(result)

IsRaw(r) == r = [enabled |-> r.enabled, limits |-> r.limits, grant |-> r.grant,
                 observation |-> r.observation, launch |-> r.launch, input |-> r.input]

\* The parser yields a record with exactly RawConfig's fields.
LEMMA ParseRaw == ASSUME NEW doc PROVE IsRaw(Parse(doc))
  BY DEF IsRaw, Parse

-----------------------------------------------------------------------------
\* Editing a document and parsing it is parsing it and editing the policy.

\* Reading a key after another, or the same, has been written.
LEMMA GetPut ==
    ASSUME NEW doc, NEW key, NEW value, NEW j
    PROVE  Get(Put(doc, key, value), j) = IF j = key THEN value ELSE Get(doc, j)
  BY DEF Get, Put

\* Reading a key after one has been removed.
LEMMA GetWithout ==
    ASSUME NEW doc, NEW key, NEW j
    PROVE  Get(Without(doc, key), j) = IF j = key THEN Default[j] ELSE Get(doc, j)
  BY DEF Get, Without

\* Writing `enabled` in the document changes that field of what it parses to.
LEMMA PutEnabled ==
    ASSUME NEW doc, NEW value
    PROVE  Parse(Put(doc, "enabled", value)) =
               [Parse(doc) EXCEPT !.enabled = value]
  <1> DEFINE r == Parse(doc)
             n == Parse(Put(doc, "enabled", value))
  <1>1. /\ n.limits = r.limits /\ n.grant = r.grant /\ n.observation = r.observation
        /\ n.launch = r.launch /\ n.input = r.input
    BY SMTT(60), GetPut DEF Parse
  <1>2. n.enabled = value
    BY SMTT(60), GetPut DEF Parse
  <1>3. IsRaw(r) /\ IsRaw(n)
    BY ParseRaw
  <1> HIDE DEF r, n
  <1>4. n = [r EXCEPT !.enabled = value]
    BY <1>1, <1>2, <1>3 DEF IsRaw
  <1>5. QED
    BY <1>4 DEF r, n

\* Writing the limits changes the limits.
LEMMA PutLimits ==
    ASSUME NEW doc, NEW value
    PROVE  Parse(Put(doc, "limits", value)) =
               [Parse(doc) EXCEPT !.limits = value]
  <1> DEFINE r == Parse(doc)
             n == Parse(Put(doc, "limits", value))
  <1>1. /\ n.enabled = r.enabled /\ n.grant = r.grant /\ n.observation = r.observation
        /\ n.launch = r.launch /\ n.input = r.input
    BY SMTT(60), GetPut DEF Parse
  <1>2. n.limits = value
    BY SMTT(60), GetPut DEF Parse
  <1>3. IsRaw(r) /\ IsRaw(n)
    BY ParseRaw
  <1> HIDE DEF r, n
  <1>4. n = [r EXCEPT !.limits = value]
    BY <1>1, <1>2, <1>3 DEF IsRaw
  <1>5. QED
    BY <1>4 DEF r, n

\* Writing the grant changes the grant.
LEMMA PutGrant ==
    ASSUME NEW doc, NEW value
    PROVE  Parse(Put(doc, "grant", value)) =
               [Parse(doc) EXCEPT !.grant = value]
  <1> DEFINE r == Parse(doc)
             n == Parse(Put(doc, "grant", value))
  <1>1. /\ n.enabled = r.enabled /\ n.limits = r.limits /\ n.observation = r.observation
        /\ n.launch = r.launch /\ n.input = r.input
    BY SMTT(60), GetPut DEF Parse
  <1>2. n.grant = value
    BY SMTT(60), GetPut DEF Parse
  <1>3. IsRaw(r) /\ IsRaw(n)
    BY ParseRaw
  <1> HIDE DEF r, n
  <1>4. n = [r EXCEPT !.grant = value]
    BY <1>1, <1>2, <1>3 DEF IsRaw
  <1>5. QED
    BY <1>4 DEF r, n

\* Removing the grant from the document leaves no grant.
LEMMA WithoutGrant ==
    ASSUME NEW doc
    PROVE  Parse(Without(doc, "grant")) =
               [Parse(doc) EXCEPT !.grant = Absent]
  <1> DEFINE r == Parse(doc)
             n == Parse(Without(doc, "grant"))
  <1>1. /\ n.enabled = r.enabled /\ n.limits = r.limits /\ n.observation = r.observation
        /\ n.launch = r.launch /\ n.input = r.input
    BY SMTT(60), GetWithout DEF Parse
  <1>2. n.grant = Absent
    BY GetWithout DEF Parse, Default
  <1>3. IsRaw(r) /\ IsRaw(n)
    BY ParseRaw
  <1> HIDE DEF r, n
  <1>4. n = [r EXCEPT !.grant = Absent]
    BY <1>1, <1>2, <1>3 DEF IsRaw
  <1>5. QED
    BY <1>4 DEF r, n

\* Writing both keys of the observation table changes the observation.
LEMMA PutObservation ==
    ASSUME NEW doc, NEW clients, NEW titles
    PROVE  Parse(Put(Put(doc, "clients", clients), "titles", titles)) =
               [Parse(doc) EXCEPT !.observation = [clients |-> clients, titles |-> titles]]
  <1> DEFINE r == Parse(doc)
             n == Parse(Put(Put(doc, "clients", clients), "titles", titles))
  <1>1. /\ n.enabled = r.enabled /\ n.limits = r.limits /\ n.grant = r.grant
        /\ n.launch = r.launch /\ n.input = r.input
    BY SMTT(60), GetPut DEF Parse
  <1>2. n.observation = [clients |-> clients, titles |-> titles]
    BY SMTT(60), GetPut DEF Parse
  <1>3. IsRaw(r) /\ IsRaw(n)
    BY ParseRaw
  <1> HIDE DEF r, n
  <1>4. n = [r EXCEPT !.observation = [clients |-> clients, titles |-> titles]]
    BY <1>1, <1>2, <1>3 DEF IsRaw
  <1>5. QED
    BY <1>4 DEF r, n

\* Writing the four keys of the launch table changes the launch policy.
LEMMA PutLaunch ==
    ASSUME NEW doc, NEW mode, NEW allow, NEW deny, NEW user
    PROVE  Parse(Put(Put(Put(Put(doc, "mode", mode), "allow", allow),
                         "deny", deny), "user", user)) =
               [Parse(doc) EXCEPT !.launch = [mode |-> mode, allow |-> allow,
                                              deny |-> deny, user |-> user]]
  <1> DEFINE launch == [mode |-> mode, allow |-> allow, deny |-> deny, user |-> user]
             d1 == Put(doc, "mode", mode)
             d2 == Put(d1, "allow", allow)
             d3 == Put(d2, "deny", deny)
             p == Put(d3, "user", user)
             r == Parse(doc)
             n == Parse(p)
  <1>a. \A j : Get(d1, j) = IF j = "mode" THEN mode ELSE Get(doc, j)  BY DEF Get, Put
  <1> HIDE DEF d1
  <1>b. \A j : Get(d2, j) = IF j = "allow" THEN allow ELSE Get(d1, j)  BY DEF Get, Put
  <1> HIDE DEF d2
  <1>c. \A j : Get(d3, j) = IF j = "deny" THEN deny ELSE Get(d2, j)  BY DEF Get, Put
  <1> HIDE DEF d3
  <1>d. \A j : Get(p, j) = IF j = "user" THEN user ELSE Get(d3, j)  BY DEF Get, Put
  <1> HIDE DEF p
  <1>p. \A j : j \notin {"mode", "allow", "deny", "user"} => Get(p, j) = Get(doc, j)
    BY <1>a, <1>b, <1>c, <1>d
  <1>q. Get(p, "user") = user /\ Get(p, "deny") = deny
    BY <1>c, <1>d
  <1>w. Get(p, "allow") = allow /\ Get(p, "mode") = mode
    BY <1>a, <1>b, <1>c, <1>d
  <1>1. /\ n.enabled = r.enabled /\ n.limits = r.limits /\ n.grant = r.grant
        /\ n.input = r.input /\ n.observation = r.observation
    BY <1>p DEF Parse
  <1>2. n.launch = launch
    BY <1>q, <1>w DEF Parse
  <1>3. IsRaw(r) /\ IsRaw(n)
    BY ParseRaw
  <1> HIDE DEF r, n
  <1>4. n = [r EXCEPT !.launch = launch]
    BY <1>1, <1>2, <1>3 DEF IsRaw
  <1>5. QED
    BY <1>4 DEF r, n, p, d3, d2, d1

-----------------------------------------------------------------------------
\* The setters

\* The draft of a valid file is one policy (PolicySnapshot::draft).
LEMMA SnapshotDraft ==
    ASSUME NEW doc, validate_source(doc)
    PROVE  OneDraft(DraftOf(doc))
  BY DEF OneDraft, DraftOf, validate_source, Parses, Parse

\* A valid policy and a document that parses to it are one draft.
LEMMA MakeDraft ==
    ASSUME NEW raw, NEW doc, raw = Parse(doc), Valid(raw), raw.launch.mode \in LaunchMode
    PROVE  OneDraft([raw |-> raw, document |-> doc])
  BY DEF OneDraft

\* A candidate is kept only if it is valid.
LEMMA ReplaceIfValid ==
    ASSUME NEW raw, NEW doc, raw = Parse(doc), raw.launch.mode \in LaunchMode
    PROVE  Answer(replace_if_valid([raw |-> raw, document |-> doc]))
  <1>1. CASE Valid(raw)
    BY <1>1, MakeDraft DEF Answer, replace_if_valid
  <1>2. CASE ~Valid(raw)
    BY <1>2 DEF Answer, replace_if_valid
  <1>3. QED
    BY <1>1, <1>2

\* set_enabled keeps the draft one policy.
LEMMA SetEnabled ==
    ASSUME NEW draft, OneDraft(draft), NEW enabled
    PROVE  OneDraft(set_enabled(draft, enabled))
  <1> DEFINE r == draft.raw
             n == [r EXCEPT !.enabled = enabled]
  <1>1. IsRaw(r)
    BY ParseRaw DEF OneDraft
  <1>2. n.limits = r.limits /\ n.grant = r.grant /\ n.launch = r.launch
    BY <1>1 DEF IsRaw
  <1>3. Valid(n) /\ n.launch.mode \in LaunchMode
    BY <1>2 DEF OneDraft, Valid
  <1>4. n = Parse(Put(draft.document, "enabled", enabled))
    BY PutEnabled DEF OneDraft
  <1>5. QED
    BY <1>3, <1>4, MakeDraft DEF set_enabled

\* clear_grant keeps the draft one policy.
LEMMA DropGrant ==
    ASSUME NEW draft, OneDraft(draft)
    PROVE  OneDraft(clear_grant(draft))
  <1> DEFINE r == draft.raw
             n == [r EXCEPT !.grant = Absent]
  <1>1. IsRaw(r)
    BY ParseRaw DEF OneDraft
  <1>2. n.limits = r.limits /\ n.grant = Absent /\ n.launch = r.launch
    BY <1>1 DEF IsRaw
  <1>3. Valid(n) /\ n.launch.mode \in LaunchMode
    BY <1>2 DEF OneDraft, Valid
  <1>4. n = Parse(Without(draft.document, "grant"))
    BY WithoutGrant DEF OneDraft
  <1>5. QED
    BY <1>3, <1>4, MakeDraft DEF clear_grant

\* set_resource_limits yields one policy or refuses.
LEMMA SetResourceLimits ==
    ASSUME NEW draft, OneDraft(draft), NEW limits
    PROVE  Answer(set_resource_limits(draft, limits))
  <1> DEFINE n == [draft.raw EXCEPT !.limits = limits]
  <1>1. n.launch = draft.raw.launch
    BY SMTT(60), ParseRaw DEF OneDraft, IsRaw
  <1>2. n = Parse(Put(draft.document, "limits", limits))
    BY PutLimits DEF OneDraft
  <1>3. QED
    BY <1>1, <1>2, ReplaceIfValid DEF set_resource_limits, OneDraft

\* set_capabilities yields one policy or refuses.
LEMMA SetCapabilities ==
    ASSUME NEW draft, OneDraft(draft), NEW capabilities
    PROVE  Answer(set_capabilities(draft, capabilities))
  <1> DEFINE grant == [uid |-> MyUid, capabilities |-> capabilities]
             n == [draft.raw EXCEPT !.grant = grant]
  <1>1. n.launch = draft.raw.launch
    BY SMTT(60), ParseRaw DEF OneDraft, IsRaw
  <1>2. n = Parse(Put(draft.document, "grant", grant))
    BY PutGrant DEF OneDraft
  <1>3. QED
    BY <1>1, <1>2, ReplaceIfValid DEF set_capabilities, OneDraft

\* set_observation yields one policy or refuses.
LEMMA SetObservation ==
    ASSUME NEW draft, OneDraft(draft), NEW clients, NEW titles
    PROVE  Answer(set_observation(draft, clients, titles))
  <1> DEFINE n == [draft.raw EXCEPT !.observation = [clients |-> clients, titles |-> titles]]
  <1>1. n.launch = draft.raw.launch
    BY SMTT(60), ParseRaw DEF OneDraft, IsRaw
  <1>2. n = Parse(Put(Put(draft.document, "clients", clients), "titles", titles))
    BY SMTT(60), PutObservation DEF OneDraft
  <1>3. QED
    BY <1>1, <1>2, ReplaceIfValid DEF set_observation, OneDraft

\* set_launch yields one policy or refuses.
LEMMA SetLaunch ==
    ASSUME NEW draft, OneDraft(draft), NEW mode \in LaunchMode,
           NEW allow, NEW deny, NEW user
    PROVE  Answer(set_launch(draft, mode, allow, deny, user))
  <1> DEFINE launch == [mode |-> mode, allow |-> allow, deny |-> deny, user |-> user]
             n == [draft.raw EXCEPT !.launch = launch]
  <1>1. n.launch = launch
    BY SMTT(60), ParseRaw DEF OneDraft, IsRaw
  <1>2. n = Parse(Put(Put(Put(Put(draft.document, "mode", mode), "allow", allow),
                          "deny", deny), "user", user))
    BY SMTT(60), PutLaunch DEF OneDraft
  <1>3. launch.mode \in LaunchMode
    OBVIOUS
  <1> HIDE DEF launch
  <1>4. Answer(replace_if_valid([raw |-> n, document |->
            Put(Put(Put(Put(draft.document, "mode", mode), "allow", allow),
                    "deny", deny), "user", user)]))
    BY <1>1, <1>2, <1>3, ReplaceIfValid
  <1>5. QED
    BY <1>4 DEF set_launch, launch, Answer

\* So does the handler of a capability button.
LEMMA ToggleCapability ==
    ASSUME NEW draft, OneDraft(draft), NEW capability, NEW active
    PROVE  Answer(toggle_capability(draft, capability, active))
  BY SetCapabilities DEF toggle_capability

\* So does the handler of a catalog button.
LEMMA EditApplication ==
    ASSUME NEW draft, OneDraft(draft), NEW id, NEW admitted \in BOOLEAN
    PROVE  Answer(edit_application(draft, id, admitted))
  <1> DEFINE launch == draft.raw.launch
             Lists(allow, deny) == set_launch(draft, launch.mode, allow, deny, launch.user)
  <1>1. \A allow, deny : Answer(Lists(allow, deny))
    BY SetLaunch DEF OneDraft
  <1>2. Answer(Absent)
    BY DEF Answer
  <1>3. launch.mode \in LaunchMode
    BY DEF OneDraft
  <1> HIDE DEF Lists
  <1>4. QED
    BY <1>1, <1>2, <1>3 DEF edit_application, LaunchMode, Lists

-----------------------------------------------------------------------------
\* Of a valid launch policy the editor checks exactly the applications the
\* provider permits.  The overlap rule of the validator is what makes the two
\* functions, which look at different lists, agree.
THEOREM AdmissionIsEnforced ==
    ASSUME NEW launch, LaunchValid(launch), launch.mode \in LaunchMode, NEW app
    PROVE  application_admitted(launch, app) <=> permits(launch, app)
  <1>1. Contains(launch.allow, app.id) => ~Contains(launch.deny, app.id)
    BY DEF LaunchValid, Contains
  <1>2. QED
    BY <1>1 DEF application_admitted, permits, LaunchMode

\* A session that asks for everything may make exactly the calls whose
\* capability the grant lists: the validator's prerequisites are those the
\* session checks, so that no granted capability is of no use.
THEOREM GrantIsUsable ==
    ASSUME NEW raw, Valid(raw), raw.grant # Absent, NEW call \in Call
    PROVE  authorized(call, granted(raw, Capability))
               <=> Contains(raw.grant.capabilities, required_capability(call))
  <1> DEFINE capabilities == raw.grant.capabilities
             required == required_capability(call)
  <1>1. required \in Capability
    BY DEF Call, Observing, Watching, Targeted, required_capability, Capability
  <1>2. /\ call \in Targeted => "observe_structure" \in Prerequisites(required)
        /\ call = "application_launch" => "launch_list" \in Prerequisites(required)
    BY DEF Call, Observing, Watching, Targeted, required_capability, Prerequisites
  <1>3. Contains(capabilities, required) =>
            \A needed \in Prerequisites(required) : Contains(capabilities, needed)
    BY DEF Valid, GrantValid, Contains
  <1>4. {"observe_structure", "launch_list"} \subseteq Capability
    BY DEF Capability
  <1>5. \A c \in Capability : c \in granted(raw, Capability) <=> Contains(capabilities, c)
    BY DEF granted
  <1> HIDE DEF required, capabilities
  <1>6. authorized(call, granted(raw, Capability)) <=>
            /\ Contains(capabilities, required)
            /\ call \in Targeted => Contains(capabilities, "observe_structure")
            /\ call = "application_launch" => Contains(capabilities, "launch_list")
    BY <1>1, <1>4, <1>5 DEF authorized, required
  <1>7. QED
    BY <1>2, <1>3, <1>6 DEF required, capabilities

-----------------------------------------------------------------------------
(***************************************************************************)
(* ActivePolicy: what a status of running providers may name, for any      *)
(* number of starts, pids and screens.  Stated of ActiveNext steps: the    *)
(* window's steps are steps of it, or leave the markers alone.             *)
(***************************************************************************)

\* Any step of the providers and the reader, a provider loading any source.
ActiveNext == \/ \E n \in Starts, p \in Pids : \E s : Load(n, p, s)
              \/ \E n \in Starts : ProviderStep(n)
              \/ ReadStep
              \/ (BeginScan \/ EndScan) /\ UNCHANGED <<at, pid, loaded, dir, body, held>>

Steps == {"unborn", "find", "recover", "remove", "create", "lock", "write",
          "undo", "report", "bare", "leave", "gone"}

ActiveType ==
    /\ at \in [Starts -> Steps]
    /\ pid \in [Starts -> Pids \cup {NoPid}]
    /\ DOMAIN loaded = Starts
    /\ dir \in [Pids -> Starts \cup {NoMarker}]
    /\ DOMAIN body = Starts
    /\ held \in [Starts -> {"free", "own", "recovery", "scan"}]
    /\ scan \in [at : {"idle", "next", "test", "close", "read", "failed"},
                 todo : SUBSET Pids, scanned : Nat,
                 marker : Starts \cup {NoMarker},
                 records : SUBSET Starts, dead : SUBSET Starts, up : SUBSET Starts]

\* A process of this pid has lived since the scan began.
LivesOn(m) == \E n \in Starts : /\ pid[n] = pid[m]
                                /\ n \notin scan.dead
                                /\ at[n] # "unborn"

\* The scan has reported this marker, is looking at it or has it to come.
Reached(n) == \/ scan.at = "failed"
              \/ loaded[n] = Elsewhere
              \/ n \in scan.records
              \/ pid[n] \in scan.todo
              \/ scan.at \in {"test", "read"} /\ scan.marker = n

ActiveInv ==
    /\ ActiveType
    /\ \A n \in Starts : at[n] # "unborn" => pid[n] \in Pids
    /\ \A p \in Pids : dir[p] # NoMarker => pid[dir[p]] = p /\ at[dir[p]] # "unborn"
    /\ \A m, n \in Alive : pid[m] = pid[n] => m = n
    /\ \A n \in Starts : at[n] \in {"recover", "remove"} => dir[pid[n]] # NoMarker
    /\ \A n \in Starts : held[n] = "own" => at[n] \notin {"unborn", "gone"}
    /\ \A n \in Starts : at[n] = "remove" => held[dir[pid[n]]] = "recovery"
    /\ \A n \in Starts : held[n] = "recovery" =>
           \E m \in Starts : at[m] = "remove" /\ pid[m] = pid[n] /\ dir[pid[m]] = n
    /\ \A n \in Starts : held[n] = "scan" => scan.at = "close" /\ scan.marker = n
    /\ scan.at = "close" => held[scan.marker] = "scan"
    /\ \A n \in scan.dead : at[n] = "gone"
    /\ scan.at \in {"test", "close", "read"} =>
           scan.marker \in Starts /\ at[scan.marker] # "unborn"
    /\ scan.at = "read" => LivesOn(scan.marker)
    /\ \A m \in scan.records : at[m] # "unborn" /\ LivesOn(m)
    /\ \A n \in Starts : at[n] \in {"lock", "write", "undo", "report"} => dir[pid[n]] = n
    /\ \A n \in Starts : at[n] \in {"write", "report"} => held[n] = "own"
    /\ \A n \in Starts : at[n] = "report" => body[n] = TRUE
    /\ \A n \in scan.up : at[n] \in {"report", "leave", "gone"}
    /\ \A n \in scan.up : at[n] = "report" => Reached(n)

\* The invariant holds when nothing runs and crashed starts have left their markers.
LEMMA ActiveInitInv == ActiveInit => ActiveInv
  <1> SUFFICES ASSUME ActiveInit PROVE ActiveInv
    OBVIOUS
  <1>1. PICK crashed \in {0} \cup Starts :
            /\ at = [n \in Starts |-> IF n <= crashed THEN "gone" ELSE "unborn"]
            /\ pid \in [Starts -> Pids \cup {NoPid}]
            /\ \A n \in Starts : pid[n] # NoPid <=> n <= crashed
            /\ loaded \in [Starts -> Policies \cup {Elsewhere}]
            /\ dir = [p \in Pids |-> IF \E n \in Starts : pid[n] = p
                                      THEN CHOOSE n \in Starts : pid[n] = p ELSE NoMarker]
            /\ body = [n \in Starts |-> n <= crashed]
            /\ held = [n \in Starts |-> "free"]
            /\ scan = Idle
    BY DEF ActiveInit
  <1>2. ActiveType
    BY <1>1 DEF ActiveType, Steps, Idle, Starts
  <1>3. \A p \in Pids : dir[p] # NoMarker => dir[p] \in Starts /\ pid[dir[p]] = p
    BY <1>1
  <1>4. \A n \in Starts : at[n] # "unborn" <=> pid[n] \in Pids
    BY <1>1, ActiveAssumption
  <1>5. QED
    BY SMTT(60), <1>1, <1>2, <1>3, <1>4 DEF ActiveInv, Idle, Alive

\* Every call of publish, of a stale marker's recovery, of a drop and of the scan keeps it.
LEMMA ActiveStepInv == ActiveInv /\ [ActiveNext]_activeVars => ActiveInv'
  <1> SUFFICES ASSUME ActiveInv, [ActiveNext]_activeVars PROVE ActiveInv'
    OBVIOUS
  <1> USE DEF ActiveInv, ActiveType, Steps, LivesOn, Reached, Alive, Goto
  <1>s. UNCHANGED activeVars => ActiveInv'
    BY SMTT(60) DEF activeVars
  <1>1. ASSUME NEW n \in Starts, NEW p \in Pids, NEW s, Load(n, p, s) PROVE ActiveInv'
    BY SMTT(60), <1>1 DEF Load
  <1>2. ASSUME NEW n \in Starts, Find(n) PROVE ActiveInv'
    BY SMTT(60), <1>2 DEF Find
  <1>3. ASSUME NEW n \in Starts, LockStale(n) PROVE ActiveInv'
    BY SMTT(60), <1>3 DEF LockStale
  <1>4. ASSUME NEW n \in Starts, RemoveStale(n) PROVE ActiveInv'
    BY SMTT(60), <1>4 DEF RemoveStale
  <1>5. ASSUME NEW n \in Starts, Create(n) PROVE ActiveInv'
    BY SMTT(60), <1>5 DEF Create
  <1>6. ASSUME NEW n \in Starts, Lock(n) PROVE ActiveInv'
    BY SMTT(60), <1>6 DEF Lock
  <1>7. ASSUME NEW n \in Starts, Write(n) PROVE ActiveInv'
    BY SMTT(60), <1>7 DEF Write
  <1>8. ASSUME NEW n \in Starts, Undo(n) PROVE ActiveInv'
    BY SMTT(60), <1>8 DEF Undo
  <1>9. ASSUME NEW n \in Starts, Leave(n) PROVE ActiveInv'
    BY SMTT(60), <1>9 DEF Leave
  <1>10. ASSUME NEW n \in Starts, Exit(n) \/ Crash(n) PROVE ActiveInv'
    BY SMTT(60), <1>10 DEF Exit, Crash, Released
  <1>11. ASSUME NEW p \in Pids, OpenMarker(p) PROVE ActiveInv'
    <2>1. ActiveType'
      <3>1. /\ scan'.at \in {"next", "test", "failed"}
            /\ scan'.todo = scan.todo \ {p}
            /\ scan'.scanned = scan.scanned + 1
            /\ scan'.marker = dir[p]
            /\ scan'.records = scan.records /\ scan'.dead = scan.dead /\ scan'.up = scan.up
        BY <1>11 DEF OpenMarker
      <3>2. scan' = [at |-> scan'.at, todo |-> scan'.todo, scanned |-> scan'.scanned,
                     marker |-> scan'.marker, records |-> scan'.records,
                     dead |-> scan'.dead, up |-> scan'.up]
        BY <1>11 DEF OpenMarker
      <3>3. QED
        BY SMTT(60), <1>11, <3>1, <3>2 DEF OpenMarker
    <2>2. QED
      <3>1. \A n \in scan'.up : at'[n] = "report" => Reached(n)'
        BY SMTT(60), <1>11, ActiveAssumption DEF OpenMarker
      <3>2. QED
        BY SMTT(60), <1>11, <2>1, <3>1 DEF OpenMarker
  <1>12. ASSUME TestLock PROVE ActiveInv'
    BY SMTT(60), <1>12 DEF TestLock
  <1>13. ASSUME CloseMarker PROVE ActiveInv'
    <2>1. ActiveType'
      BY <1>13 DEF CloseMarker
    <2>2. QED
      <3>1. \A n \in scan'.up : at'[n] = "report" => Reached(n)'
        BY <1>13 DEF CloseMarker
      <3>2. /\ scan'.at = "next"
            /\ scan'.dead = scan.dead /\ scan'.up = scan.up /\ scan'.records = scan.records
        BY <1>13 DEF CloseMarker
      <3>3. \A n \in Starts : /\ held'[n] # "scan"
                              /\ held[n] \in {"own", "recovery"} => held'[n] = held[n]
                              /\ held'[n] \in {"own", "recovery"} => held[n] = held'[n]
        BY SMTT(60), <1>13 DEF CloseMarker
      <3>4. QED
        BY SMTT(60), <1>13, <2>1, <3>1, <3>2, <3>3 DEF CloseMarker
  <1>14. ASSUME ReadMarker PROVE ActiveInv'
    <2>1. ActiveType'
      <3>1. /\ scan'.at \in {"next", "failed"}
            /\ scan'.todo = scan.todo
            /\ scan'.scanned = scan.scanned
            /\ scan'.marker = NoMarker
            /\ scan'.records \in SUBSET Starts
            /\ scan'.dead = scan.dead /\ scan'.up = scan.up
        BY SMTT(60), <1>14 DEF ReadMarker
      <3>2. scan' = [at |-> scan'.at, todo |-> scan'.todo, scanned |-> scan'.scanned,
                     marker |-> scan'.marker, records |-> scan'.records,
                     dead |-> scan'.dead, up |-> scan'.up]
        BY <1>14 DEF ReadMarker
      <3>3. QED
        BY <1>14, <3>1, <3>2 DEF ReadMarker
    <2>2. QED
      BY SMTT(60), <1>14, <2>1 DEF ReadMarker
  <1>15. ASSUME BeginScan \/ EndScan, UNCHANGED <<at, pid, loaded, dir, body, held>>
         PROVE  ActiveInv'
    <2>1. CASE BeginScan
      <3>1. scan' = [at |-> "next", todo |-> { p \in Pids : dir[p] # NoMarker },
                     scanned |-> 0, marker |-> NoMarker, records |-> {},
                     dead |-> { n \in Starts : at[n] = "gone" },
                     up |-> { n \in Starts : at[n] = "report" }]
        BY <2>1 DEF BeginScan, Idle
      <3>2. ActiveType'
        BY <1>15, <3>1
      <3>3. \A n \in Starts : held[n] # "scan"
        BY <2>1 DEF BeginScan, Scanned
      <3>4. /\ scan'.at = "next" /\ scan'.records = {}
            /\ scan'.dead = { n \in Starts : at[n] = "gone" }
            /\ scan'.up = { n \in Starts : at[n] = "report" }
            /\ scan'.todo = { p \in Pids : dir[p] # NoMarker }
        BY <3>1
      <3>5. QED
        BY SMTT(60), <1>15, <3>2, <3>3, <3>4, ActiveAssumption
    <2>2. CASE EndScan
      BY SMTT(60), <1>15, <2>2 DEF EndScan, Scanned, Idle
    <2>3. QED
      BY <1>15, <2>1, <2>2
  <1>16. QED
    BY <1>s, <1>1, <1>2, <1>3, <1>4, <1>5, <1>6, <1>7, <1>8, <1>9, <1>10, <1>11, <1>12,
       <1>13, <1>14, <1>15
       DEF ActiveNext, ProviderStep, ReadStep

\* The scan of active_policy_status misses no published provider.
LEMMA ActiveInvReports == ActiveInv => PublishedIsReported
  BY DEF ActiveInv, PublishedIsReported, Reached

\* The scan of active_policy_status names no process that had ended before it began.
LEMMA ActiveInvNames == ActiveInv => NamedProviderIsLive
  BY DEF ActiveInv, NamedProviderIsLive, LivesOn

-----------------------------------------------------------------------------
(***************************************************************************)
(* Settings: the window itself.                                            *)
(***************************************************************************)

ModelOk(m) == /\ m = [snapshot |-> m.snapshot, draft |-> m.draft]
              /\ validate_source(m.snapshot.doc)
              /\ OneDraft(m.draft)

\* The widgets display the draft; a matching provider loaded the snapshot.
Current ==
    /\ shown.controls = model.draft.raw
    /\ shown.review = unified_diff
    /\ shown.active.kind = "matching" =>
           \A n \in shown.active.who : /\ n \in Starts
                                       /\ at[n] # "unborn"
                                       /\ loaded[n] = model.snapshot.doc

WindowInv ==
    /\ budget \in [edits : Nat, writes : Nat, starts : Nat, crashed : Nat]
    /\ window \in {"closed", "refresh", "idle", "guidance", "saved", "message"}
    /\ window = "closed" => model = Absent
    /\ window # "closed" => ModelOk(model)
    /\ dialog # "none" => window = "idle"
    /\ window \in {"idle", "guidance", "message"} => Current
    /\ window = "guidance" \/ dialog = "save" => has_changes

Inv == ActiveInv /\ WindowInv

\* The invariant holds before the window opens.
LEMMA SettingsInit == Init => Inv
  BY ActiveInitInv, BudgetAssumption DEF Init, Inv, WindowInv

-----------------------------------------------------------------------------
\* What every step of the window comes to

\* Every control edits the draft through a setter.
LEMMA EditIsAnswer ==
    ASSUME WindowInv, EditStep
    PROVE  \E result : Answer(result) /\ Press /\ apply(result) /\ UNCHANGED dialog
  <1>p. Press
    BY DEF EditStep, EnabledSwitch, CapabilityButton, ScopeChoice, TitlesSwitch,
           LaunchModeChoice, UserEntriesSwitch, CatalogButton, edit_limits, Edit
  <1>d. OneDraft(model.draft)
    BY <1>p DEF WindowInv, ModelOk, Press
  <1>e. ASSUME NEW result, Answer(result), Edit(result)
        PROVE  \E r : Answer(r) /\ Press /\ apply(r) /\ UNCHANGED dialog
    BY <1>e DEF Edit
  <1>1. CASE EnabledSwitch
    <2> DEFINE enabled == ~shown.controls.enabled
    <2>1. Edit(set_enabled(model.draft, enabled))
      BY <1>1 DEF EnabledSwitch
    <2> HIDE DEF enabled
    <2>2. Answer(set_enabled(model.draft, enabled))
      BY <1>d, SetEnabled DEF Answer
    <2>3. QED
      BY <1>e, <2>1, <2>2
  <1>2. ASSUME NEW c \in Offered, CapabilityButton(c)
        PROVE  \E r : Answer(r) /\ Press /\ apply(r) /\ UNCHANGED dialog
    <2> DEFINE active == ~(shown.controls.grant # Absent
                           /\ Contains(shown.controls.grant.capabilities, c))
    <2>1. Edit(toggle_capability(model.draft, c, active))
      BY <1>2 DEF CapabilityButton
    <2> HIDE DEF active
    <2>2. Answer(toggle_capability(model.draft, c, active))
      BY <1>d, ToggleCapability
    <2>3. QED
      BY <1>e, <2>1, <2>2
  <1>3. ASSUME NEW clients \in ClientScope, ScopeChoice(clients)
        PROVE  \E r : Answer(r) /\ Press /\ apply(r) /\ UNCHANGED dialog
    <2>1. Edit(set_observation(model.draft, clients, model.draft.raw.observation.titles))
      BY <1>3 DEF ScopeChoice
    <2>2. QED
      BY <1>e, <1>d, <2>1, SetObservation
  <1>4. CASE TitlesSwitch
    <2> DEFINE titles == ~shown.controls.observation.titles
    <2>1. Edit(set_observation(model.draft, model.draft.raw.observation.clients, titles))
      BY <1>4 DEF TitlesSwitch
    <2> HIDE DEF titles
    <2>2. QED
      BY <1>e, <1>d, <2>1, SetObservation
  <1>5. ASSUME NEW mode \in LaunchMode, LaunchModeChoice(mode)
        PROVE  \E r : Answer(r) /\ Press /\ apply(r) /\ UNCHANGED dialog
    <2>1. Edit(set_launch_mode(model.draft, mode))
      BY <1>5 DEF LaunchModeChoice
    <2>2. Answer(set_launch_mode(model.draft, mode))
      BY <1>d, SetLaunch DEF set_launch_mode
    <2>3. QED
      BY <1>e, <2>1, <2>2
  <1>6. CASE UserEntriesSwitch
    <2> DEFINE user == ~shown.controls.launch.user
               launch == model.draft.raw.launch
    <2>1. Edit(set_launch(model.draft, launch.mode, launch.allow, launch.deny, user))
      BY <1>6 DEF UserEntriesSwitch
    <2> HIDE DEF user
    <2>2. Answer(set_launch(model.draft, launch.mode, launch.allow, launch.deny, user))
      BY <1>d, SetLaunch DEF OneDraft
    <2>3. QED
      BY <1>e, <2>1, <2>2
  <1>7. ASSUME NEW app \in Apps, CatalogButton(app)
        PROVE  \E r : Answer(r) /\ Press /\ apply(r) /\ UNCHANGED dialog
    <2> DEFINE admitted == ~application_admitted(shown.controls.launch, app)
    <2>1. Edit(edit_application(model.draft, app.id, admitted))
      BY <1>7 DEF CatalogButton
    <2>2. admitted \in BOOLEAN
      OBVIOUS
    <2> HIDE DEF admitted
    <2>3. Answer(edit_application(model.draft, app.id, admitted))
      BY <1>d, <2>2, EditApplication
    <2>4. QED
      BY <1>e, <2>1, <2>3
  <1>8. ASSUME NEW limits \in LimitChoices, edit_limits(limits)
        PROVE  \E r : Answer(r) /\ Press /\ apply(r) /\ UNCHANGED dialog
    <2>1. Edit(set_resource_limits(model.draft, limits))
      BY <1>8 DEF edit_limits
    <2>2. QED
      BY <1>e, <1>d, <2>1, SetResourceLimits
  <1>9. QED
    BY <1>1, <1>2, <1>3, <1>4, <1>5, <1>6, <1>7, <1>8 DEF EditStep

\* A step of the window looks through the markers or leaves them alone.
LEMMA NextIsActive ==
    ASSUME WindowInv, [Next]_vars
    PROVE  [ActiveNext]_activeVars
  <1> DEFINE Looks == Others /\ (BeginScan \/ EndScan \/ UNCHANGED scan)
  <1>1. Looks => [ActiveNext]_activeVars
    BY DEF ActiveNext, activeVars, Others
  <1>2. UNCHANGED vars => [ActiveNext]_activeVars
    BY DEF vars, activeVars
  <1>3. ASSUME EditStep PROVE Looks
    <2>1. PICK result : apply(result)
      BY <1>3, EditIsAnswer
    <2>2. QED
      BY <2>1 DEF apply, Refresh
  <1>4. ASSUME NEW q, Ask(q) PROVE Looks
    BY <1>4 DEF Ask, Silent
  <1>5. reload_now \/ Close => Looks
    BY DEF reload_now, Refresh, Silent, Close
  <1>6. ButtonStep => Looks
    BY <1>4, <1>5
       DEF ButtonStep, ClearGrantButton, DiscardButton, RestoreButton, SaveButton,
           ReloadButton, close_request
  <1>7. Cancel \/ ClearGrant \/ Discard \/ Reload \/ DiscardAndClose => Looks
    BY <1>5 DEF Cancel, ClearGrant, Discard, Reload, DiscardAndClose, apply, Refresh, Silent
  <1>8. save_now => Looks
    BY DEF save_now, Replace, Refresh
  <1>9. restore_previous => Looks
    BY DEF restore_previous, Replace, Refresh, Silent
  <1>10. OpenWindow \/ FinishRefresh \/ FinishGuidance \/ FinishSaved \/ FinishMessage => Looks
    BY DEF OpenWindow, Refresh, FinishRefresh, FinishGuidance, FinishSaved, FinishMessage
  <1>11. WindowStep => Looks
    BY <1>3, <1>6, <1>7, <1>8, <1>9, <1>10 DEF WindowStep, DialogStep
  <1>12. OtherStep => [ActiveNext]_activeVars
    BY DEF OtherStep, EditorWrite, RestorePrevious, FirstRun, StartProvider, ActiveNext
  <1>13. QED
    BY <1>1, <1>2, <1>11, <1>12 DEF Next

\* A process that was born stays born, with the policy it loaded.
LEMMA LoadedIsKept ==
    ASSUME ActiveInv, [ActiveNext]_activeVars
    PROVE  \A n \in Starts : at[n] # "unborn" => at'[n] # "unborn" /\ loaded'[n] = loaded[n]
  <1> USE DEF ActiveInv, ActiveType, Steps, Goto
  <1>1. ASSUME NEW n \in Starts, NEW q \in Pids, NEW s, Load(n, q, s)
        PROVE  \A m \in Starts : at[m] # "unborn" => at'[m] # "unborn" /\ loaded'[m] = loaded[m]
    BY SMTT(60), <1>1 DEF Load
  <1>2. ASSUME NEW n \in Starts, ProviderStep(n)
        PROVE  \A m \in Starts : at[m] # "unborn" => at'[m] # "unborn" /\ loaded'[m] = loaded[m]
    <2>1. UNCHANGED loaded /\ \E step \in Steps \ {"unborn"} : Goto(n, step)
      <3>1. CASE Find(n)  BY <3>1 DEF Find
      <3>2. CASE LockStale(n)  BY SMTT(60), <3>2 DEF LockStale
      <3>3. CASE RemoveStale(n)  BY <3>3 DEF RemoveStale
      <3>4. CASE Create(n)  BY <3>4 DEF Create
      <3>5. CASE Lock(n)  BY <3>5 DEF Lock
      <3>6. CASE Write(n)  BY <3>6 DEF Write
      <3>7. CASE Undo(n)  BY <3>7 DEF Undo
      <3>8. CASE Leave(n)  BY <3>8 DEF Leave
      <3>9. CASE Exit(n)  BY <3>9 DEF Exit
      <3>10. CASE Crash(n)  BY <3>10 DEF Crash
      <3> QED
        BY <1>2, <3>1, <3>2, <3>3, <3>4, <3>5, <3>6, <3>7, <3>8, <3>9, <3>10 DEF ProviderStep
    <2> QED  BY SMTT(60), <2>1
  <1>3. ReadStep => UNCHANGED <<at, loaded>>
    BY DEF ReadStep, OpenMarker, TestLock, CloseMarker, ReadMarker
  <1>4. QED
    BY <1>1, <1>2, <1>3 DEF ActiveNext, activeVars

-----------------------------------------------------------------------------
\* The invariant

\* The model of a readable file is in order (SettingsModel::from_snapshot).
LEMMA FromSnapshotOk ==
    ASSUME NEW file, validate_source(file.doc)
    PROVE  ModelOk(from_snapshot(file))
  BY SnapshotDraft DEF ModelOk, from_snapshot

\* An edited or discarded draft is in a good model.
LEMMA NewDraftOk ==
    ASSUME NEW m, ModelOk(m), NEW draft, OneDraft(draft)
    PROVE  ModelOk([m EXCEPT !.draft = draft])
  BY SMTT(60) DEF ModelOk

\* What would be saved passes the strict validator (candidate_source).
LEMMA CandidateOk ==
    ASSUME ModelOk(model), candidate_source # Absent
    PROVE  validate_source(candidate_source)
  BY DEF ModelOk, candidate_source

\* Spending leaves a budget, and a smaller one.
LEMMA BudgetStep ==
    ASSUME budget \in [edits : Nat, writes : Nat, starts : Nat, crashed : Nat],
           NEW what \in {"edits", "writes", "starts"}, Spend(what)
    PROVE  /\ budget' \in [edits : Nat, writes : Nat, starts : Nat, crashed : Nat]
           /\ what = "edits" => budget'.edits # budget.edits
  BY SMTT(60) DEF Spend

\* What the scan found is what the window displays.
LEMMA DisplayedIsCurrent ==
    ASSUME ActiveInv, UNCHANGED <<model, at, loaded>>, shown' = Displayed
    PROVE  Current'
  BY SMTT(60)
     DEF Current, Displayed, Status, ActiveInv, ActiveType, unified_diff, has_changes,
         candidate_source, original

\* What the window displays stays current while model and loaded policies stay.
LEMMA CurrentIsKept ==
    ASSUME Current, UNCHANGED <<model, shown>>,
           \A n \in Starts : at[n] # "unborn" => at'[n] # "unborn" /\ loaded'[n] = loaded[n]
    PROVE  Current'
  BY DEF Current, unified_diff, has_changes, candidate_source, original

\* Every handler of the window, every other writer and every provider keeps the invariant.
LEMMA SettingsStep == Inv /\ [Next]_vars => Inv'
  <1> SUFFICES ASSUME Inv, [Next]_vars PROVE Inv'
    OBVIOUS
  <1>a. [ActiveNext]_activeVars
    BY NextIsActive DEF Inv
  <1>b. ActiveInv'
    BY <1>a, ActiveStepInv DEF Inv
  <1>c. \A n \in Starts : at[n] # "unborn" => at'[n] # "unborn" /\ loaded'[n] = loaded[n]
    BY <1>a, LoadedIsKept DEF Inv
  <1>k. ASSUME UNCHANGED <<window, model, shown>>,
               budget' \in [edits : Nat, writes : Nat, starts : Nat, crashed : Nat],
               dialog' # "none" => window = "idle",
               dialog' = "save" => dialog = "save"
        PROVE  WindowInv'
    BY <1>c, <1>k, CurrentIsKept DEF Inv, WindowInv, ModelOk, has_changes, original
  <1>r. ASSUME window' \in {"refresh", "saved"}, ModelOk(model'), dialog' = "none",
               budget' \in [edits : Nat, writes : Nat, starts : Nat, crashed : Nat]
        PROVE  WindowInv'
    BY <1>r DEF WindowInv, ModelOk
  <1>w. ASSUME NEW what \in {"edits", "writes", "starts"}, Spend(what)
        PROVE  budget' \in [edits : Nat, writes : Nat, starts : Nat, crashed : Nat]
    BY <1>w, BudgetStep DEF Inv, WindowInv
  <1>1. UNCHANGED vars => WindowInv'
    BY <1>k DEF vars, Inv, WindowInv
  <1>2. ASSUME OtherStep PROVE WindowInv'
    <2>1. UNCHANGED uiVars
      BY <1>2 DEF OtherStep, EditorWrite, RestorePrevious, FirstRun, StartProvider
    <2>2. UNCHANGED budget \/ Spend("writes") \/ Spend("starts")
      BY <1>2 DEF OtherStep, EditorWrite, RestorePrevious, FirstRun, StartProvider
    <2>3. budget' \in [edits : Nat, writes : Nat, starts : Nat, crashed : Nat]
      BY <1>w, <2>2 DEF Inv, WindowInv
    <2>4. QED
      BY <1>k, <2>1, <2>3 DEF uiVars, Inv, WindowInv
  <1>3. ASSUME OpenWindow PROVE WindowInv'
    <2>1. ModelOk(model')
      BY <1>3, FromSnapshotOk DEF OpenWindow, Readable
    <2>2. dialog' = "none"
      BY <1>3 DEF OpenWindow, Inv, WindowInv
    <2>3. QED
      BY <1>3, <1>r, <2>1, <2>2 DEF OpenWindow, Refresh, Inv, WindowInv
  <1>e. ASSUME NEW result, Answer(result), window = "idle", apply(result), dialog' = "none"
        PROVE  WindowInv'
    <2>1. ModelOk(model)
      BY <1>e DEF Inv, WindowInv
    <2>2. ModelOk(model')
      BY <1>e, <2>1, NewDraftOk DEF apply, Answer
    <2>3. QED
      BY <1>e, <1>r, <1>w, <2>2 DEF apply, Refresh
  <1>4. ASSUME EditStep PROVE WindowInv'
    <2>1. PICK result : Answer(result) /\ Press /\ apply(result) /\ UNCHANGED dialog
      BY <1>4, EditIsAnswer DEF Inv
    <2>2. QED
      BY <1>e, <2>1 DEF Press
  <1>5. ASSUME ClearGrant PROVE WindowInv'
    <2>1. Answer(clear_grant(model.draft))
      BY <1>5, DropGrant DEF ClearGrant, Accept, Inv, WindowInv, ModelOk, Answer
    <2>2. QED
      BY <1>5, <1>e, <2>1 DEF ClearGrant, Accept
  <1>6. ASSUME NEW q, q # "save", Ask(q) PROVE WindowInv'
    BY <1>6, <1>k DEF Ask, Press, Silent, Inv, WindowInv
  <1>7. ASSUME Cancel PROVE WindowInv'
    BY <1>7, <1>k DEF Cancel, Silent, Inv, WindowInv
  <1>8. ASSUME SaveButton PROVE WindowInv'
    BY <1>8, <1>c, CurrentIsKept
       DEF SaveButton, Press, Inv, WindowInv, ModelOk, has_changes, original
  <1>9. ASSUME FinishGuidance PROVE WindowInv'
    BY <1>9, <1>c, CurrentIsKept
       DEF FinishGuidance, Inv, WindowInv, ModelOk, has_changes, original
  <1>10. ASSUME FinishMessage PROVE WindowInv'
    BY <1>10, <1>c, CurrentIsKept
       DEF FinishMessage, Inv, WindowInv, ModelOk, has_changes, original
  <1>11. ASSUME FinishRefresh \/ FinishSaved PROVE WindowInv'
    <2>1. Current'
      BY <1>11, DisplayedIsCurrent DEF FinishRefresh, FinishSaved, Others, Inv
    <2>2. dialog = "none"
      BY <1>11 DEF FinishRefresh, FinishSaved, Inv, WindowInv
    <2>3. QED
      BY <1>11, <2>1, <2>2 DEF FinishRefresh, FinishSaved, Inv, WindowInv, ModelOk
  <1>12. ASSUME Discard PROVE WindowInv'
    <2>1. ModelOk(model) /\ OneDraft(original)
      BY <1>12, SnapshotDraft DEF Discard, Accept, Inv, WindowInv, ModelOk, original
    <2>2. ModelOk(model')
      BY <1>12, <2>1, NewDraftOk DEF Discard
    <2>3. QED
      BY <1>12, <1>r, <2>2 DEF Discard, Accept, Refresh, Inv, WindowInv
  <1>13. ASSUME reload_now, window = "idle", dialog' = "none" PROVE WindowInv'
    <2>1. CASE Readable(target)
      BY <1>13, <1>r, <2>1, FromSnapshotOk DEF reload_now, Readable, Refresh, Inv, WindowInv
    <2>2. CASE ~Readable(target)
      BY <1>13, <1>k, <2>2 DEF reload_now, Silent, Inv, WindowInv
    <2>3. QED
      BY <2>1, <2>2
  <1>14. ASSUME Close, dialog' = "none" PROVE WindowInv'
    BY <1>14 DEF Close, Inv, WindowInv
  <1>15. ASSUME save_now PROVE WindowInv'
    <2>1. ModelOk(model) /\ dialog' = "none"
      BY <1>15 DEF save_now, Accept, Inv, WindowInv
    <2>2. budget' \in [edits : Nat, writes : Nat, starts : Nat, crashed : Nat]
      BY <1>15, <1>w DEF save_now, Replace, Inv, WindowInv
    <2>3. window' \in {"refresh", "saved"}
      BY <1>15 DEF save_now, Replace, Refresh
    <2>4. ModelOk(model')
      <3>1. CASE UNCHANGED model
        BY <2>1, <3>1
      <3>2. ASSUME model' # model
            PROVE  /\ candidate_source # Absent
                   /\ \E file : file.doc = candidate_source /\ model' = from_snapshot(file)
        BY <1>15, <3>2 DEF save_now, Replace, Refresh, Rewritten
      <3>3. QED
        BY <2>1, <3>1, <3>2, CandidateOk, FromSnapshotOk
    <2>5. QED
      BY <1>r, <2>1, <2>2, <2>3, <2>4
  <1>16. ASSUME restore_previous PROVE WindowInv'
    <2> DEFINE recovery == IF previous # Absent /\ validate_source(previous)
                           THEN previous ELSE Absent
    <2>1. ModelOk(model) /\ window = "idle" /\ dialog' = "none"
      BY <1>16 DEF restore_previous, Accept, Inv, WindowInv
    <2>2. budget' \in [edits : Nat, writes : Nat, starts : Nat, crashed : Nat]
      BY <1>16, <1>w DEF restore_previous, Replace, Inv, WindowInv
    <2>3. \/ UNCHANGED <<window, model, shown>>
          \/ /\ window' = "refresh"
             /\ recovery # Absent
             /\ \E file : file.doc = recovery /\ model' = from_snapshot(file)
      BY <1>16 DEF restore_previous, Replace, Refresh, Silent, Rewritten
    <2>4. QED
      BY <1>k, <1>r, <2>1, <2>2, <2>3, FromSnapshotOk
  <1>17. ButtonStep => WindowInv'
    BY <1>6, <1>8, <1>13, <1>14
       DEF ButtonStep, ClearGrantButton, DiscardButton, RestoreButton, ReloadButton,
           close_request, Press
  <1>18. Reload \/ DiscardAndClose => WindowInv'
    BY <1>13, <1>14 DEF Reload, DiscardAndClose, Accept
  <1>19. WindowStep => WindowInv'
    BY <1>3, <1>4, <1>5, <1>7, <1>9, <1>10, <1>11, <1>12, <1>15, <1>16, <1>17, <1>18
       DEF WindowStep, DialogStep
  <1>20. QED
    BY <1>b, <1>1, <1>2, <1>19 DEF Inv, Next

\* The invariant holds in every reachable state.
LEMMA InvHolds == Spec => []Inv
  BY SettingsInit, SettingsStep, PTL DEF Spec

-----------------------------------------------------------------------------
\* Whatever is edited, saved, restored or reloaded, and in whatever order, the
\* typed draft and its document stay one policy that the validator takes.
THEOREM DraftStaysOnePolicy == Spec => []DraftIsOnePolicy
  <1>1. Inv => DraftIsOnePolicy
    BY DEF Inv, WindowInv, ModelOk, OneDraft, DraftIsOnePolicy
  <1>2. QED
    BY <1>1, InvHolds, PTL

\* A status never believes the marker of a provider that was gone before it
\* began, however many providers crash and pids come back.
THEOREM StatusNamesTheLiving == Spec => []NamedProviderIsLive
  <1>1. Inv => NamedProviderIsLive
    BY ActiveInvNames DEF Inv
  <1>2. QED
    BY <1>1, InvHolds, PTL

\* A status that does not fail reports every provider that had published
\* before it began and still runs.
THEOREM StatusIsComplete == Spec => []PublishedIsReported
  <1>1. Inv => PublishedIsReported
    BY ActiveInvReports DEF Inv
  <1>2. QED
    BY <1>1, InvHolds, PTL

\* Controls that are shown as unchanged and matching say what the provider
\* enforces, for any catalog.
THEOREM ControlsSayWhatIsEnforced == Spec => []ShownIsEnforced
  <1>1. Inv => ShownIsEnforced
    <2> SUFFICES ASSUME Inv, window = "idle", shown.active.kind = "matching",
                        shown.review.kind = "none", NEW n \in shown.active.who
                 PROVE  LET enforced == Parse(loaded[n])
                        IN  /\ \A app \in Apps :
                                  application_admitted(shown.controls.launch, app)
                                      <=> permits(enforced.launch, app)
                            /\ \A call \in Call :
                                  required_capability(call) \in granted(shown.controls, Capability)
                                      <=> authorized(call, granted(enforced, Capability))
      BY DEF ShownIsEnforced
    <2>1. ModelOk(model) /\ Current
      BY DEF Inv, WindowInv
    <2>2. ~has_changes
      BY SMTT(60), <2>1 DEF Current, unified_diff
    <2>3. Parse(loaded[n]) = shown.controls
      BY <2>1, <2>2 DEF Current, has_changes, original, DraftOf
    <2>4. LaunchValid(shown.controls.launch) /\ shown.controls.launch.mode \in LaunchMode
      BY <2>1 DEF Current, ModelOk, OneDraft, Valid
    <2>5. Valid(shown.controls)
      BY <2>1 DEF Current, ModelOk, OneDraft
    <2>6. ASSUME NEW call \in Call
          PROVE  required_capability(call) \in granted(shown.controls, Capability)
                     <=> authorized(call, granted(shown.controls, Capability))
      <3>1. CASE shown.controls.grant = Absent
        BY <3>1 DEF granted, authorized
      <3>2. CASE shown.controls.grant # Absent
        <4>1. required_capability(call) \in Capability
          BY DEF Call, Observing, Watching, Targeted, required_capability, Capability
        <4>2. required_capability(call) \in granted(shown.controls, Capability) <=>
                  Contains(shown.controls.grant.capabilities, required_capability(call))
          BY <3>2, <4>1 DEF granted
        <4>3. QED
          BY <2>5, <3>2, <4>2, GrantIsUsable
      <3>3. QED
        BY <3>1, <3>2
    <2>7. QED
      BY <2>3, <2>4, <2>6, AdmissionIsEnforced
  <1>2. QED
    BY <1>1, InvHolds, PTL

\* No other writer of the file gets between the review and the save.
THEOREM SaveWritesTheReviewed == Spec => SavedIsReviewed
  <1> DEFINE A == dialog = "save" /\ dialog' = "none" /\ target' # target =>
                    /\ shown.review = [kind |-> "diff", before |-> target.doc, after |-> target'.doc]
                    /\ shown.controls = Parse(target'.doc)
                    /\ previous' = target.doc
  <1>1. Inv /\ [Next]_vars => [A]_vars
    <2> SUFFICES ASSUME Inv, Next, dialog = "save", dialog' = "none", target' # target
                 PROVE  /\ shown.review = [kind |-> "diff", before |-> target.doc,
                                            after |-> target'.doc]
                        /\ shown.controls = Parse(target'.doc)
                        /\ previous' = target.doc
      OBVIOUS
    <2>1. ModelOk(model) /\ Current /\ has_changes /\ window = "idle"
      BY DEF Inv, WindowInv
    <2>2. save_now
      <3>1. ~OtherStep
        BY DEF OtherStep, EditorWrite, RestorePrevious, FirstRun, StartProvider, uiVars
      <3>2. ~EditStep
        BY EditIsAnswer DEF Inv, Press
      <3>3. ~ButtonStep
        BY DEF ButtonStep, ClearGrantButton, DiscardButton, RestoreButton, SaveButton,
               ReloadButton, close_request, Ask, Press
      <3>4. QED
        BY <2>1, <3>1, <3>2, <3>3
           DEF Next, WindowStep, DialogStep, OpenWindow, FinishRefresh, FinishGuidance,
               FinishSaved, FinishMessage, Cancel, ClearGrant, Discard, restore_previous,
               Reload, DiscardAndClose, Accept
    <2>3. /\ target = model.snapshot
          /\ candidate_source # Absent
          /\ target'.doc = candidate_source
          /\ previous' = target.doc
      BY SMTT(60), <2>2 DEF save_now, Replace, same_snapshot, Rewritten
    <2>4. candidate_source = model.draft.document
      BY <2>1, <2>3 DEF candidate_source
    <2>5. QED
      BY <2>1, <2>3, <2>4 DEF Current, unified_diff, ModelOk, OneDraft
  <1>2. QED
    BY <1>1, InvHolds, PTL DEF Spec, SavedIsReviewed

\* A draft is given up only by the confirmation that says so, and by a save
\* only when the policy was written.
THEOREM DraftIsKept == Spec => DraftIsNotLost
  <1> DEFINE Lost == /\ model # Absent /\ has_changes
                     /\ model' # model /\ budget'.edits = budget.edits
             Confirmed == /\ dialog \in {"save", "discard", "reload", "restore", "close"}
                          /\ dialog' = "none"
                          /\ dialog = "save" => model'.snapshot = target' /\ target' # target
  <1>1. Inv /\ [Next]_vars => [Lost => Confirmed]_vars
    <2> SUFFICES ASSUME Inv, Next, Lost PROVE Confirmed
      OBVIOUS
    <2>1. ~OtherStep /\ ~OpenWindow
      BY DEF OtherStep, EditorWrite, RestorePrevious, FirstRun, StartProvider, uiVars,
             OpenWindow, Inv, WindowInv
    <2>2. \A r : ~apply(r)
      BY BudgetStep DEF apply, Inv, WindowInv
    <2>3. ~EditStep /\ ~ClearGrant
      BY <2>2, EditIsAnswer DEF ClearGrant, Inv
    <2>4. ~ButtonStep
      BY DEF ButtonStep, ClearGrantButton, DiscardButton, RestoreButton, SaveButton,
             ReloadButton, close_request, Ask
    <2>5. ~FinishRefresh /\ ~FinishGuidance /\ ~FinishSaved /\ ~FinishMessage /\ ~Cancel
      BY DEF FinishRefresh, FinishGuidance, FinishSaved, FinishMessage, Cancel
    <2>6. Discard \/ restore_previous \/ Reload \/ DiscardAndClose => Confirmed
      BY DEF Discard, restore_previous, Reload, DiscardAndClose, Accept
    <2>7. ASSUME save_now PROVE Confirmed
      <3>1. /\ dialog = "save" /\ dialog' = "none"
            /\ ModelOk(model)
        BY <2>7 DEF save_now, Accept, Inv, WindowInv
      <3>2. /\ target = model.snapshot
            /\ candidate_source # Absent
            /\ model' = from_snapshot(target')
            /\ candidate_source = target.doc \/ target' = Rewritten(candidate_source)
        BY <2>7 DEF save_now, Replace, same_snapshot, Refresh
      <3>3. candidate_source # target.doc
        BY <3>1, <3>2
           DEF candidate_source, has_changes, original, DraftOf, ModelOk, OneDraft
      <3>4. QED
        BY SMTT(60), <3>1, <3>2, <3>3 DEF from_snapshot, Rewritten
    <2>8. QED
      BY <2>1, <2>3, <2>4, <2>5, <2>6, <2>7 DEF Next, WindowStep, DialogStep
  <1>2. QED
    BY <1>1, InvHolds, PTL DEF Spec, DraftIsNotLost
=============================================================================
