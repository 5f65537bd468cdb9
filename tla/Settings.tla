------------------------------ MODULE Settings ------------------------------
(***************************************************************************)
(* The configuration, internal/manager/config: settings by their keys.     *)
(* What has been set since the start goes before what the file said then,  *)
(* and that before the defaults; what flags and the environment say goes   *)
(* before all of it.  Writing puts everything but the latter in the file.  *)
(*                                                                         *)
(* Values are strings and sets of them; a password is how often it was     *)
(* hashed and what it was at first.                                        *)
(***************************************************************************)
EXTENDS Naturals, Sequences

CONSTANTS
  Unset,       \* no value
  NoFile       \* there is no file

\* It is not what a blank setting is, nor what one is by default.
ASSUME UnsetAssumption == Unset \notin {"", "stash-go.sqlite", "scrapers", "MD5", "OSHASH"}

VARIABLES
  overrides,   \* key -> value, from flags and the environment
  changed,     \* key -> value set since the start
  config,      \* key -> value in the file when it was read
  defaults,    \* key -> default value
  disk,        \* the file: key -> value, or NoFile
  isNewSystem

settingVars == <<overrides, changed, config, defaults, disk, isNewSystem>>

----------------------------------------------------------------------------
(* Reading. *)

\* @@ of TLC, which the provers do not know.
Over(f, g) == [key \in DOMAIN f \cup DOMAIN g |-> IF key \in DOMAIN f THEN f[key] ELSE g[key]]

AllSettings == Over(changed, Over(config, defaults))
HasOverride(key) == key \in DOMAIN overrides
Main(key) == IF key \in DOMAIN AllSettings THEN AllSettings[key] ELSE Unset
Get(key) == IF HasOverride(key) THEN overrides[key] ELSE Main(key)

GetString(key) == IF Get(key) = Unset THEN "" ELSE Get(key)
GetInt(key) == IF Get(key) = Unset THEN 0 ELSE Get(key)
GetBool(key) == Get(key) = TRUE

\* Mutant: an override goes first, as elsewhere.
GetOverriddenPaths == IF Get("stash") = Unset THEN {} ELSE Get("stash")

\* The other way round: what was set goes before flags and the environment.
GetStashPaths ==
  IF Main("stash") # Unset THEN Main("stash") ELSE IF Get("stash") = Unset THEN {} ELSE Get("stash")

\* Lists that are never missing; an empty one is, when it comes from the file.
DefaultExtensions ==
  [video_extensions |-> {"mp4", "mkv"}, image_extensions |-> {"png", "jpg"}, gallery_extensions |-> {"zip", "cbz"}]
GetExtensions(key) ==
  IF Get(key) = Unset \/ (Get(key) = {} /\ key \notin DOMAIN changed) THEN DefaultExtensions[key] ELSE Get(key)

\* Strings that are never blank.
DefaultChoices ==
  [language |-> "en-US", host |-> "0.0.0.0", video_file_naming_algorithm |-> "OSHASH", preview_preset |-> "slow",
   max_transcode_size |-> "ORIGINAL", max_streaming_transcode_size |-> "ORIGINAL"]
GetChoice(key) == IF GetString(key) = "" THEN DefaultChoices[key] ELSE GetString(key)

\* Numbers that are never nought.
DefaultNumbers == [port |-> 9999]
GetNumber(key) == IF GetInt(key) = 0 THEN DefaultNumbers[key] ELSE GetInt(key)

\* What holds where nothing is set, in memory or by an override.
DefaultInterface ==
  [menu_items |-> {"scenes", "images", "movies", "markers", "galleries", "performers", "studios", "tags"},
   wall_show_title |-> TRUE, wall_playback |-> "video", show_scrubber |-> TRUE, autostart_video_on_play_selected |-> TRUE]
DefaultServer ==
  [max_session_age |-> 3600, scraper_cert_check |-> TRUE, logOut |-> TRUE, logAccess |-> TRUE,
   max_upload_size |-> 1024]
DefaultTasks == [key \in {"defaults.delete_generated"} |-> TRUE]
Fallbacks == Over(DefaultInterface, Over(DefaultServer, DefaultTasks))

LogLevels == {"Debug", "Info", "Warning", "Error", "Trace"}
GetLogLevel == IF GetString("logLevel") \in LogLevels THEN GetString("logLevel") ELSE "Info"

SlideshowDelay ==
  IF Get("image_lightbox.slideshow_delay") # Unset THEN Get("image_lightbox.slideshow_delay")
  ELSE IF Get("slideshow_delay") # Unset THEN Get("slideshow_delay") ELSE 5000

\* What a client is told that a setting is.
Strings ==
  {"database", "generated", "metadata", "cache", "scrapers_path", "scraper_user_agent", "scraper_cdp_path",
   "preview_exclude_start", "preview_exclude_end", "api_key", "username", "logFile", "python_path",
   "custom_performer_image_location", "handy_key", "dlna.server_name"}
Numbers ==
  {"parallel_tasks", "preview_segments", "preview_segment_duration", "maximum_loop_duration", "funscript_offset"}
Switches ==
  {"calculate_md5", "preview_audio", "write_image_thumbnails", "create_galleries_from_folders", "sound_on_preview",
   "noBrowser", "notifications_enabled", "autostart_video", "continue_playlist_default", "show_studio_as_text",
   "cssEnabled", "disable_dropdown_create.performer", "disable_dropdown_create.studio",
   "disable_dropdown_create.tag", "defaults.delete_file", "dlna.default_enabled"}
Setting(key) ==
  CASE key = "stash" -> GetStashPaths
    [] key = "logLevel" -> GetLogLevel
    [] key = "image_lightbox.slideshow_delay" -> SlideshowDelay
    [] key \in DOMAIN DefaultExtensions -> GetExtensions(key)
    [] key \in DOMAIN DefaultChoices -> GetChoice(key)
    [] key \in DOMAIN DefaultNumbers -> GetNumber(key)
    [] key \in DOMAIN Fallbacks -> IF Get(key) = Unset THEN Fallbacks[key] ELSE Get(key)
    [] key \in Strings -> GetString(key)
    [] key \in Numbers -> GetInt(key)
    [] key \in Switches -> GetBool(key)
    [] key = "password" -> IF Get(key) = Unset THEN <<0, "">> ELSE Get(key)
    [] key = "ui" -> IF Get(key) = Unset THEN <<>> ELSE Get(key)
    [] OTHER -> Get(key)

\* What a system must have; which of it is missing.
Mandatory == {"database", "generated"}
MissingFields == {key \in Mandatory : GetString(key) = ""}

----------------------------------------------------------------------------
(* Writing. *)

SetTo(key, value) == changed' = Over([k \in {key} |-> value], changed)

\* The file is cut off before it is written: a write that fails may leave it empty.
Outcomes == {"written", "failed", "emptied"}
Write(settings, outcome) ==
  disk' = CASE outcome = "written" -> settings [] outcome = "failed" -> disk [] outcome = "emptied" -> <<>>

----------------------------------------------------------------------------
(* The start. *)

InitialisedByEnvironment == Mandatory \subseteq DOMAIN overrides

\* The file is read, if there is one; its values are settings from then on.
ReadConfig ==
  /\ changed' = <<>> /\ defaults' = <<>>
  /\ config' = IF disk = NoFile THEN <<>> ELSE disk
  /\ isNewSystem' = (disk = NoFile /\ ~InitialisedByEnvironment)
  /\ UNCHANGED <<overrides, disk>>

\* Settings that came later than the system did.
ExistingSystemDefaults ==
  LET missing == {"noBrowser", "show_one_time_moved_notification"} \ DOMAIN config
  IN [key \in missing |-> TRUE]

SetExistingSystemDefaults(outcome) ==
  /\ changed' = Over(ExistingSystemDefaults, changed)
  /\ IF ExistingSystemDefaults = <<>> THEN UNCHANGED disk
     ELSE Write(Over(ExistingSystemDefaults, AllSettings), outcome)
  /\ UNCHANGED <<overrides, config, defaults, isNewSystem>>

\* Keys that nobody chooses.
GeneratedKeys ==
  LET blank == {key \in {"jwt_secret_key", "session_store_key"} : GetString(key) = ""}
  IN [key \in blank |-> "random"]

\* Generated files go where the metadata is, as they once did.
DefaultValues ==
  [host |-> "0.0.0.0", port |-> 9999, parallel_tasks |-> 1, preview_segment_duration |-> 1, preview_segments |-> 12,
   preview_exclude_start |-> "0", preview_exclude_end |-> "0", preview_audio |-> TRUE, sound_on_preview |-> FALSE,
   theme_color |-> "#202b33", write_image_thumbnails |-> TRUE, database |-> "stash-go.sqlite",
   generated |-> IF Main("metadata") = Unset THEN "" ELSE Main("metadata"),
   noBrowser |-> FALSE, notifications_enabled |-> TRUE, show_one_time_moved_notification |-> FALSE,
   scrapers_path |-> "scrapers", plugins_path |-> "plugins"]

InitialSettings == Over(Over(GeneratedKeys, changed), Over(config, Over(DefaultValues, defaults)))
SetInitialConfig(outcome) ==
  /\ changed' = Over(GeneratedKeys, changed)
  /\ defaults' = Over(DefaultValues, defaults)
  /\ Write(InitialSettings, outcome)
  /\ UNCHANGED <<overrides, config, isNewSystem>>

\* A library that has scenes already goes on with the hashes it always had.
ChecksumDefaults(usingMD5) ==
  [video_file_naming_algorithm |-> IF usingMD5 THEN "MD5" ELSE "OSHASH", calculate_md5 |-> usingMD5]

WithChecksumDefaults(usingMD5) == Over(changed, Over(config, Over(ChecksumDefaults(usingMD5), defaults)))
SetChecksumDefaults(usingMD5, outcome) ==
  /\ defaults' = Over(ChecksumDefaults(usingMD5), defaults)
  /\ Write(WithChecksumDefaults(usingMD5), outcome)
  /\ UNCHANGED <<overrides, changed, config, isNewSystem>>
=============================================================================
