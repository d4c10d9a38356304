------------------------------ MODULE Extension ------------------------------
(***************************************************************************)
(* The GNOME Shell extension (extension/extension.js): it renders what its *)
(* D-Bus client publishes under the user's preferences, and is enabled and *)
(* disabled by the shell at any moment, with requests on their way.        *)
(*                                                                         *)
(* The client's callbacks, and a change of a preference, render at once.   *)
(* Whether two copies of the extension are installed is looked up when it  *)
(* is enabled, and only then.                                              *)
(***************************************************************************)
EXTENDS DbusClient, FiniteSets

CONSTANT MaxPreferences  \* bound: preferences that differ from their defaults

ASSUME ExtensionAssumption == MaxPreferences \in Nat

VARIABLES
  preferences,  \* _settings, kept by dconf
  conflict,     \* _installationConflict
  baseState,    \* _baseState, or NotShown
  indicator     \* what the indicator displays, or Destroyed

extensionVars == <<preferences, conflict, baseState, indicator>>
allVars       == <<vars, extensionVars>>

Destroyed == [visible |-> FALSE, icon |-> "none", tile |-> FALSE, messages |-> {}, sessions |-> {}]

ExtensionInit ==
  /\ Init
  /\ preferences = DefaultPreferences /\ conflict = FALSE
  /\ baseState = NotShown /\ indicator = Destroyed

\* Mutant: the preferences are read before they change.
RenderStale ==
  indicator' = IF running' /\ baseState' # NotShown
    THEN Display(ApplyPreferences(ApplyInstallationConflict(baseState', conflict'), preferences),
                 preferences)
    ELSE indicator

\* _render
Render ==
  indicator' = IF running' /\ baseState' # NotShown
    THEN Display(ApplyPreferences(ApplyInstallationConflict(baseState', conflict'), preferences'),
                 preferences')
    ELSE indicator

\* enable(): the new client's first view, service unavailable, is rendered at once.
Enable ==
  /\ Start
  /\ conflict' \in BOOLEAN /\ UNCHANGED preferences
  /\ baseState' = shown'
  /\ Render

\* disable()
Disable ==
  /\ Stop
  /\ baseState' = NotShown /\ indicator' = Destroyed /\ conflict' = FALSE
  /\ UNCHANGED preferences

Changed(p) == {key \in DOMAIN p : p[key] # DefaultPreferences[key]}

\* The user changes a preference; an enabled extension is told.
PreferenceChanges ==
  /\ \E key \in DOMAIN preferences : preferences' = [preferences EXCEPT ![key] = ~@]
  /\ Cardinality(Changed(preferences')) <= MaxPreferences
  /\ UNCHANGED <<vars, conflict, baseState>>
  /\ Render

\* The client runs a callback: a view unlike the last one is passed on.
ClientStep ==
  /\ ClientNext
  /\ UNCHANGED <<preferences, conflict>>
  /\ baseState' = IF shown' # shown THEN shown' ELSE baseState
  /\ Render

BusStep == BusNext /\ UNCHANGED extensionVars

ExtensionRest == Rest /\ UNCHANGED extensionVars

ExtensionNext ==
  \/ Enable \/ Disable \/ PreferenceChanges \/ ClientStep \/ BusStep \/ ExtensionRest

\* The bus answers or fails every request, and the main loop runs.
ExtensionSpec ==
  /\ ExtensionInit /\ [][ExtensionNext]_allVars
  /\ WF_allVars(ClientStep)
  /\ WF_allVars((Answer \/ AnswerFails) /\ UNCHANGED extensionVars)

-----------------------------------------------------------------------------
\* The indicator tells the user that no camera is in use: by the menu, or by hiding
\* an icon that would be visible if anything else was the case.
ClaimsIdle ==
  \/ "no applications" \in indicator.messages
  \/ ~indicator.visible /\ preferences.panel /\ preferences.duringFailure

\* "Makes monitoring failures and unknown activity visible instead of claiming the
\* camera is idle": a quiet extension claims it only of a service that is there,
\* whose observer is available and which knows of no capture that the extension can
\* read, whatever has failed, restarted or been disabled before.
IdleIsTrue ==
  (running /\ Quiet /\ ClaimsIdle) =>
    /\ exported /\ Service!IsAvailable(view.availability)
    /\ Service!ActiveIds(view) \cap SafeId = {} /\ view.diagnostics = 0

\* disable() is final: whatever is still on its way, nothing is published and
\* nothing displayed until the extension is enabled again.
DisabledIsSilent == [][(~running /\ ~running') => UNCHANGED <<shown, indicator>>]_allVars

\* If the extension stays enabled, one service process stays, and requests do not
\* fail for ever, the indicator in the end displays the service's state under
\* whatever the preferences are: no change is missed and no refresh left hanging.
IndicatorFollows ==
  <>[](exported /\ running /\ ~faulted) =>
    <>[](indicator = Display(ApplyPreferences(ApplyInstallationConflict(ViewOf(view), conflict),
                                              preferences), preferences))
=============================================================================
