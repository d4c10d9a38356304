------------------------------ MODULE ViewModel ------------------------------
(***************************************************************************)
(* What the extension makes of a snapshot of the service                   *)
(* (extension/src/dbusPayload.js, sessionModel.js, preferences.js and      *)
(* indicator.js): pure functions from properties, sessions, preferences    *)
(* and the installation conflict to an icon and a menu.                    *)
(*                                                                         *)
(* An icon is named for its meaning, a line of the menu for what it says;  *)
(* titles, tooltips and the order of the lines are left out.               *)
(***************************************************************************)
CONSTANT SafeId  \* sessions that started within 2^53 ns of boot, 104 days

\* normalizeSessionTuple: a start time that is no safe integer drops the session.
NormalizeDbusSessions(reply) == {session \in reply : session.id \in SafeId}

\* createViewState: a failure of the service, of the observer, or what is known.
Failure(status) ==
  [status |-> status, sessions |-> {}, unknown |-> FALSE,
   visible |-> TRUE, icon |-> "warning", warning |-> TRUE]
ServiceUnavailable  == Failure("service-unavailable")
ObserverUnavailable == Failure("observer-unavailable")

Known(unknown, sessions) ==
  [status   |-> CASE sessions # {} -> "active"
                  [] sessions = {} /\ unknown -> "unknown-activity"
                  [] OTHER -> "inactive",
   sessions |-> sessions,
   unknown  |-> unknown,
   visible  |-> sessions # {} \/ unknown,
   icon     |-> IF sessions = {} /\ unknown THEN "warning" ELSE "camera",
   warning  |-> FALSE]

CreateViewState(properties, reply) ==
  IF properties.available THEN Known(properties.unknown, NormalizeDbusSessions(reply))
  ELSE ObserverUnavailable

\* applyInstallationConflictToViewState
ApplyInstallationConflict(state, conflict) ==
  IF conflict THEN Failure("installation-conflict") ELSE state

\* preferences.js
Preference == [tile : BOOLEAN, panel : BOOLEAN, warnings : BOOLEAN, duringFailure : BOOLEAN]
DefaultPreferences == [tile |-> FALSE, panel |-> TRUE, warnings |-> TRUE, duringFailure |-> TRUE]

MonitoringFailure(state) == state.status \in {"observer-unavailable", "service-unavailable"}

\* applyPreferencesToViewState
ApplyPreferences(state, preferences) ==
  IF MonitoringFailure(state)
    THEN [state EXCEPT !.warning = preferences.warnings,
                       !.visible = preferences.duringFailure /\ preferences.panel,
                       !.icon    = IF preferences.warnings THEN @ ELSE "information"]
    ELSE [state EXCEPT !.visible = @ /\ preferences.panel]

\* LensGuardToggle.render: what the menu says beside the sessions.
Messages(state) ==
  CASE state.status = "installation-conflict" -> {"remove a copy"}
    [] MonitoringFailure(state) -> {IF state.warning THEN "what failed" ELSE "status unavailable"}
    [] OTHER                    -> IF state.unknown THEN {"unknown activity"}
                                   ELSE IF state.sessions = {} THEN {"no applications"} ELSE {}

\* LensGuardIndicator.render
Display(state, preferences) ==
  [visible |-> state.visible, icon |-> state.icon, tile |-> preferences.tile,
   messages |-> Messages(state), sessions |-> state.sessions]
=============================================================================
