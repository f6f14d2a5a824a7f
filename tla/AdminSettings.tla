--------------------------- MODULE AdminSettings ----------------------------
(***************************************************************************)
(* The settings an administrator changes while the server runs             *)
(* (service/admin.go).  AdminService keeps them in memory and in the one   *)
(* row of server_settings; UpdateSettings assigns the memory under the     *)
(* mutex and saves the row outside it, and NewAdminService loads the row.  *)
(* Requests of several administrators run at the same time; the process    *)
(* may end and be started again between any two steps, and a statement it  *)
(* had under way then still lands or fails at the database.                *)
(***************************************************************************)
EXTENDS Integers

CONSTANTS Admins,     \* requests to /admin/settings that may be under way
          Values,     \* the settings an administrator can submit
          Defaults,   \* the settings from the environment
          Storable,   \* the values that fit the INTEGER columns of the row
          None        \* no row, or no save under way

ASSUME SettingsAssumption ==
    /\ Defaults \in Values
    /\ Storable \subseteq Values
    /\ None \notin Values

VARIABLES
    up,         \* the process runs
    settings,   \* AdminService.settings; of the last process while it is down
    row,        \* the row of server_settings, None until the first save
    saving,     \* saving[a]: what a's UpdateSettings has yet to save
    \* history variables, read by the properties only
    raced,      \* a save was under way when the settings were last assigned
    lost,       \* a save or a load failed since, or a dead process left a save
    untouched   \* nobody assigned the settings since the process started

history      == <<raced, lost, untouched>>
settingsVars == <<up, settings, row, saving, history>>

Saving == {a \in Admins : saving[a] # None}

\* Mutation variant: the row is read into a variable nobody uses.
LoadForgotten(saved) == Defaults

\* NewAdminService: the row if there is one, the defaults otherwise.
Loaded(saved) == IF saved = None THEN Defaults ELSE saved

SettingsInit == /\ up = TRUE
                /\ settings = Defaults
                /\ row = None
                /\ saving = [a \in Admins |-> None]
                /\ raced = FALSE
                /\ lost = FALSE
                /\ untouched = TRUE

\* UpdateSettings, under the mutex.
Assign(a, v) ==
    /\ up
    /\ saving[a] = None
    /\ settings' = v
    /\ saving' = [saving EXCEPT ![a] = v]
    /\ raced' = (Saving # {})
    /\ lost' = (lost /\ Saving # {})
    /\ untouched' = FALSE
    /\ UNCHANGED <<up, row>>

\* Mutation variant: a column type that takes every number.
FitsAlways(v) == TRUE

\* A number beyond INTEGER makes the whole statement fail.
Fits(v) == v \in Storable

\* settingsRepo.Save: INSERT ... ON CONFLICT (id) DO UPDATE.
SaveLands(a) ==
    /\ saving[a] # None
    /\ Fits(saving[a])
    /\ row' = saving[a]
    /\ saving' = [saving EXCEPT ![a] = None]
    /\ UNCHANGED <<up, settings, history>>

\* A WARN in the log; the administrator is told that the settings are saved.
SaveFails(a) ==
    /\ saving[a] # None
    /\ saving' = [saving EXCEPT ![a] = None]
    /\ lost' = TRUE
    /\ UNCHANGED <<up, settings, row, raced, untouched>>

\* NewAdminService; a failed load is a WARN in the log.
LoadSettings ==
    /\ \/ settings' = Loaded(row) /\ lost' = (Saving # {})
       \/ settings' = Defaults /\ lost' = TRUE
    /\ raced' = FALSE
    /\ untouched' = TRUE
    /\ UNCHANGED <<row, saving>>

Administration == \E a \in Admins : \/ \E v \in Values : Assign(a, v)
                                    \/ SaveLands(a)
                                    \/ SaveFails(a)

-----------------------------------------------------------------------------
(* Properties                                                              *)

SettingsTypeOK ==
    /\ up \in BOOLEAN
    /\ settings \in Values
    /\ row \in Storable \cup {None}
    /\ saving \in [Admins -> Values \cup {None}]
    /\ raced \in BOOLEAN /\ lost \in BOOLEAN /\ untouched \in BOOLEAN

\* UpdateSettings is documented to update the settings and to save them: when
\* every save is done and none failed, the next process will load what is in
\* force in this one.
SavedIsInForce == up /\ Saving = {} /\ ~lost => Loaded(row) = settings

\* What UpdateSettings does guarantee: if moreover no two updates overlapped,
\* a restart that can read the row keeps the settings that were in force.
RestartKeepsSettings ==
    [][~up /\ up' /\ Saving = {} /\ ~raced /\ ~lost /\ ~lost'
          => settings' = settings]_settingsVars
=============================================================================
