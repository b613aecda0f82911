----------------------------- MODULE Preferences -----------------------------
(***************************************************************************)
(* The preferences saved in the dashboard (pompey_preferences) on their    *)
(* way to the applications: the configuration job of JobScheduler pushes   *)
(* the queue limit to the download client (apply_qbit_queue), has Recyclarr*)
(* put the Anime dual-audio score into the profiles of Radarr and Sonarr   *)
(* unless its record calls them fresh (run_recyclarr, recyclarr_sync), and *)
(* records at its end what it has applied.                                 *)
(*                                                                         *)
(* The job may raise, be stopped or lose the downloader between any two of *)
(* these steps; the setup server saves whenever the stack lock is free.    *)
(***************************************************************************)
EXTENDS JobScheduler

CONSTANTS
  Choices,   \* preferences: limit of simultaneous downloads, dual audio
  Unset      \* nothing saved, recorded or synchronized yet

ASSUME PreferencesAssumption ==
  /\ \A v \in Choices : v.dual \in BOOLEAN
  /\ Unset \notin BOOLEAN /\ Unset \notin Choices

Apps == {"radarr", "sonarr"}
Limits == {v.limit : v \in Choices}

VARIABLES
  preferences,  \* state/preferences.json
  applied,      \* state/preferences-applied.json
  record,       \* state/profiles.json: the dual-audio score last synchronized
  limit,        \* the limit the download client works with
  profiles,     \* the score in each application's profiles, or no profiles
  rendered,     \* the score in Recyclarr's configuration
  unsynced,     \* applications the running Recyclarr has still to do
  stage,        \* what the running configuration does next for preferences
  clean         \* history: no configuration failed, nobody edited natively

stored == <<preferences, applied, record>>
native == <<limit, profiles>>
settings == <<stored, native, rendered, unsynced, stage, clean>>
all == <<vars, settings>>

Stages == {"push", "check", "sync", "synced", "applied"}

SettingsTypeOK ==
  /\ preferences \in Choices /\ applied \in Choices \cup {Unset}
  /\ record \in BOOLEAN \cup {Unset} /\ limit \in Limits
  /\ profiles \in [Apps -> BOOLEAN \cup {Unset}]
  /\ rendered \in BOOLEAN \cup {Unset} /\ unsynced \in SUBSET Apps
  /\ stage \in Stages /\ clean \in BOOLEAN

\* A first start, or one on an image whose profiles have not been synchronized.
SettingsInit ==
  /\ Init
  /\ preferences \in Choices /\ applied = Unset /\ record = Unset
  /\ limit \in Limits /\ profiles = [a \in Apps |-> Unset]
  /\ rendered = Unset /\ unsynced = {} /\ stage = "push" /\ clean = TRUE

-----------------------------------------------------------------------------
(* The setup server *)

\* Fault: preferences are saved while a job runs.
SaveBeside(v) ==
  /\ v # preferences /\ preferences' = v
  /\ UNCHANGED <<vars, applied, record, native, rendered, unsynced, stage, clean>>

\* Saved under the lock, which is tried once: a running job is a conflict.
Save(v) ==
  /\ lock = "free" /\ v # preferences /\ preferences' = v
  /\ UNCHANGED <<vars, applied, record, native, rendered, unsynced, stage, clean>>

-----------------------------------------------------------------------------
(* The configuration job *)

Configuring(step) == future[Config] = "running" /\ wiring = step /\ UNCHANGED vars

\* apply_qbit_queue
PushQueue ==
  /\ Configuring("downloads") /\ stage = "push" /\ stage' = "check"
  /\ limit' = preferences.limit
  /\ UNCHANGED <<stored, profiles, rendered, unsynced, clean>>

\* Fault: profiles are fresh as long as they are there.
FreshByName == record # Unset /\ \A a \in Apps : profiles[a] # Unset

\* recyclarr_is_fresh: the record agrees with the preference and the profiles
\* exist, whatever they hold.
Fresh == record = preferences.dual /\ \A a \in Apps : profiles[a] # Unset

SkipSync ==
  /\ Configuring("requests") /\ stage = "check" /\ Fresh /\ stage' = "synced"
  /\ UNCHANGED <<stored, native, rendered, unsynced, clean>>

\* recyclarr_sync renders its configuration and runs Recyclarr...
StartSync ==
  /\ Configuring("requests") /\ stage = "check" /\ ~Fresh /\ stage' = "sync"
  /\ rendered' = preferences.dual /\ unsynced' = Apps
  /\ UNCHANGED <<stored, native, clean>>

\* ...which does one application after the other.
Sync(a) ==
  /\ Configuring("requests") /\ stage = "sync" /\ a \in unsynced
  /\ unsynced' = unsynced \ {a} /\ profiles' = [profiles EXCEPT ![a] = rendered]
  /\ UNCHANGED <<stored, limit, rendered, stage, clean>>

\* Only a sync that succeeded is recorded.
RecordSync ==
  /\ Configuring("requests") /\ stage = "sync" /\ unsynced = {} /\ stage' = "synced"
  /\ record' = preferences.dual
  /\ UNCHANGED <<preferences, applied, native, rendered, unsynced, clean>>

\* pompey_preferences.applied, the last thing a configuration does.
SaveApplied ==
  /\ Configuring("finish") /\ stage = "synced" /\ stage' = "applied"
  /\ applied' = preferences
  /\ UNCHANGED <<preferences, record, native, rendered, unsynced, clean>>

\* A step of the scheduler waits for the preferences' part of the wiring; the
\* configuration's end, whichever way, is the end of what it was doing.
Beside ==
  /\ wiring = "downloads" /\ wiring' = "routing" => stage = "check"
  /\ wiring = "requests" /\ wiring' = "finish" => stage = "synced"
  /\ future[Config] = "running" /\ future'[Config] = "succeeded" => stage = "applied"
  /\ stage' = (IF wiring' = "none" THEN "push" ELSE stage)
  /\ clean' = (clean /\ future'[Config] # "raised")
  /\ UNCHANGED <<stored, native, rendered, unsynced>>

SchedulerStep == Next /\ Beside

-----------------------------------------------------------------------------
(* The operator, in the native interfaces (external) *)

NativeEdit ==
  /\ Disturb /\ clean' = FALSE
  /\ UNCHANGED <<order, future, lock, wired, wiring, blocked, online, stored, rendered,
                 unsynced, stage>>

SetLimit(n) == NativeEdit /\ n # limit /\ limit' = n /\ UNCHANGED profiles

DeleteProfile(a) ==
  /\ NativeEdit /\ profiles[a] # Unset /\ profiles' = [profiles EXCEPT ![a] = Unset]
  /\ UNCHANGED limit

-----------------------------------------------------------------------------
SettingsStep ==
  \/ PushQueue \/ SkipSync \/ StartSync \/ RecordSync \/ SaveApplied
  \/ \E a \in Apps : Sync(a)

PreferencesNext ==
  \/ SchedulerStep \/ SettingsStep
  \/ \E v \in Choices : Save(v)
  \/ \E n \in Limits : SetLimit(n)
  \/ \E a \in Apps : DeleteProfile(a)

PreferencesFairness ==
  /\ \A j \in Jobs : /\ WF_all(Reap(j) /\ Beside) /\ WF_all(BecomeDue(j) /\ Beside)
                     /\ WF_all(ThreadStep(j) /\ Beside)
  /\ WF_all(Dispatch /\ Beside) /\ WF_all(ConfigStep /\ Beside)
  /\ WF_all(OtherUnlocks /\ Beside) /\ WF_all(GuardReleases /\ Beside)
  /\ WF_all(OutagesEnd /\ DownloaderReturns /\ Beside)
  /\ WF_all(SettingsStep)

PreferencesSpec == SettingsInit /\ [][PreferencesNext]_all
FairPreferencesSpec == PreferencesSpec /\ PreferencesFairness

-----------------------------------------------------------------------------
(* Properties *)

\* "The UI distinguishes saved from applied": preferences that are not pending
\* are what the client and both applications work with, however saves and passes
\* interleave, as long as no configuration failed and nobody edited natively.
\* (After a failed pass, going back to the applied preferences is not pending
\* although the failed pass has changed the client and perhaps a profile.)
AppliedIsInEffect ==
  clean /\ applied = preferences =>
    limit = preferences.limit /\ profiles = [a \in Apps |-> preferences.dual]

\* Saved preferences get to the applications through failed passes, outages and
\* native edits: the client's limit in the end, profiles that exist in the end,
\* and a dual-audio score other than the recorded one, unless it is changed again.
SavedArrives ==
  \A v \in Choices :
    /\ <>[](preferences = v) =>
         <>[](limit = v.limit /\ \A a \in Apps : profiles[a] # Unset)
    /\ preferences = v /\ record # v.dual ~>
         preferences # v \/ profiles = [a \in Apps |-> v.dual]
=============================================================================
