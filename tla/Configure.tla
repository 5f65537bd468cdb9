------------------------------ MODULE Configure ------------------------------
(***************************************************************************)
(* Users' requests that change settings, resolver_mutation_configure.go.   *)
(* Each setting is checked and set by itself, in the code's order; then    *)
(* the file is written, and what was made from settings is made again.     *)
(* Nothing keeps requests apart, and what a refused one has set stays.     *)
(***************************************************************************)
EXTENDS Settings, SchemaDatabase

CONSTANTS
  Users,
  Directories,     \* that are there
  BadDirectories,  \* that cannot be made
  BadFileNames,    \* of databases, by their extensions
  BadBoxes         \* stash-boxes with a blank field

ASSUME FileNamesAssumption == "" \in BadFileNames

VARIABLES
  plan,    \* bound: what may be asked for, and how often things happen
  calls,   \* user -> the request under way, or the last
  live,    \* what was made from settings: the paths of generated files, and the scraper cache
  left,    \* history: what refused or failed requests have left: in memory only, or not in force
  requested, faults

configureVars == <<plan, calls, live, left, requested, faults>>

NoCall == [op |-> "none", input |-> <<>>, todo |-> {}, refreshScraperCache |-> FALSE, others |-> {}, answer |-> "none"]

----------------------------------------------------------------------------
(* What a request does, in its order: a step sets a setting, or is a control. *)

Controls == {"read", "write", "refresh", "scrapers"}
ConfigureGeneral ==
  <<"stash", "database", "generated", "scrapers_path", "metadata", "cache", "video_file_naming_algorithm",
    "calculate_md5", "parallel_tasks", "preview_audio", "preview_segments", "preview_segment_duration",
    "preview_exclude_start", "preview_exclude_end", "preview_preset", "max_transcode_size",
    "max_streaming_transcode_size", "write_image_thumbnails", "username", "password", "max_session_age", "logFile",
    "logOut", "logAccess", "logLevel", "exclude", "image_exclude", "video_extensions", "image_extensions",
    "gallery_extensions", "create_galleries_from_folders", "custom_performer_image_location", "scraper_user_agent",
    "scraper_cdp_path", "scraper_cert_check", "stash_boxes", "python_path", "write", "refresh", "scrapers">>
ConfigureInterface ==
  <<"menu_items", "sound_on_preview", "wall_show_title", "noBrowser", "notifications_enabled", "show_scrubber",
    "wall_playback", "maximum_loop_duration", "autostart_video", "show_studio_as_text",
    "autostart_video_on_play_selected", "continue_playlist_default", "language", "image_lightbox.slideshow_delay",
    "image_lightbox.display_mode", "image_lightbox.scale_up", "image_lightbox.reset_zoom_on_nav",
    "image_lightbox.scroll_mode", "image_lightbox.scroll_attempts_before_change", "cssEnabled",
    "disable_dropdown_create.performer", "disable_dropdown_create.studio", "disable_dropdown_create.tag", "handy_key",
    "funscript_offset", "write">>
ConfigureDlna ==
  <<"dlna.server_name", "dlna.default_whitelist", "dlna.default_enabled", "dlna.interfaces", "write">>
ConfigureScraping ==
  <<"scraper_user_agent", "scraper_cdp_path", "scraper_exclude_tag_patterns", "scraper_cert_check", "scrapers",
    "write">>
ConfigureDefaults ==
  <<"defaults.identify_task", "defaults.scan_task", "defaults.auto_tag_task", "defaults.generate_task",
    "defaults.delete_file", "defaults.delete_generated", "write">>
GenerateAPIKey == <<"api_key", "write">>
ConfigureUI == <<"ui", "write">>
ConfigureUISetting == <<"read", "ui", "write">>

Requests == {"general", "interface", "dlna", "scraping", "defaults", "api key", "ui", "ui setting"}
OrderOf(op) ==
  CASE op = "general" -> ConfigureGeneral
    [] op = "interface" -> ConfigureInterface
    [] op = "dlna" -> ConfigureDlna
    [] op = "scraping" -> ConfigureScraping
    [] op = "defaults" -> ConfigureDefaults
    [] op = "api key" -> GenerateAPIKey
    [] op = "ui" -> ConfigureUI
    [] op = "ui setting" -> ConfigureUISetting
    [] op = "none" -> <<>>

\* The settings that a request gives, and its steps, as places in the order.
SettingsIn(op, input) ==
  CASE op = "api key" -> {"api_key"} [] op = "ui setting" -> {"ui"} [] OTHER -> DOMAIN input
StepsOf(op, input) == {i \in DOMAIN OrderOf(op) : OrderOf(op)[i] \in SettingsIn(op, input) \cup Controls}

----------------------------------------------------------------------------
(* Whether a setting is set, and to what. *)

Optional == {"metadata", "cache"}
DirectoryKeys == {"generated", "scrapers_path"} \cup Optional

\* A directory is made if it is not there.
EnsureDir(path) == path # "" /\ path \notin BadDirectories

\* Mutant: no directory has to be given.
ValidateGivenDir(key, path, optional) == ~HasOverride("metadata") /\ (path = "" \/ EnsureDir(path))

\* Whatever the directory is for, it is the override of another that is looked for.
ValidateDir(key, path, optional) ==
  ~HasOverride("metadata") /\ ((optional /\ path = "") \/ EnsureDir(path))

ValidateDatabasePath(path) == ~HasOverride("database") /\ path \notin BadFileNames
ValidateStashes(paths) == paths \ GetStashPaths \subseteq Directories
ValidateStashBoxes(boxes) == boxes \cap BadBoxes = {}

\* Scenes must have the hashes that files are to be named by; some may not.
ValidateVideoFileNamingAlgorithm(hash, input, missing) ==
  /\ hash = "MD5" => (IF "calculate_md5" \in DOMAIN input THEN input.calculate_md5 ELSE Setting("calculate_md5"))
  /\ Ready /\ ~missing

Accepted(key, input, missing) ==
  CASE key = "stash" -> ValidateStashes(input.stash)
    [] key = "database" -> ValidateDatabasePath(input.database)
    [] key \in DirectoryKeys -> ValidateDir(key, input[key], key \in Optional)
    [] key = "video_file_naming_algorithm" -> ValidateVideoFileNamingAlgorithm(input[key], input, missing)
    [] key = "stash_boxes" -> ValidateStashBoxes(input.stash_boxes)
    [] OTHER -> TRUE

\* These are checked and set only if they differ from what is in force.
Compared ==
  DirectoryKeys \cup {"database", "video_file_naming_algorithm", "password", "logLevel", "dlna.default_enabled"}
Changes(key, input) == key \in Compared => input[key] # Setting(key)

\* A password is hashed; one that is sent back as it was told is a hash already.
SetPassword(password) == IF password[2] = "" THEN password ELSE [password EXCEPT ![1] = @ + 1]
NewValue(key, input) ==
  CASE key = "password" -> SetPassword(input.password)
    [] key = "api_key" -> IF input.clear \/ Setting("username") = "" THEN "" ELSE "token"
    [] OTHER -> input[key]

----------------------------------------------------------------------------
(* The steps. *)

UnderWay(u) == calls[u].answer = "pending"
Doing(u, step) ==
  UnderWay(u) /\ \E i \in calls[u].todo : OrderOf(calls[u].op)[i] = step /\ \A j \in calls[u].todo : i <= j
Advanced(u) == [calls EXCEPT ![u].todo = {i \in @ : \E j \in @ : j < i}]

Named(c, places) == {OrderOf(c.op)[i] : i \in places}
DoneKeys(c) == Named(c, StepsOf(c.op, c.input) \ c.todo) \ Controls
ToCome(c, step) == step \in Named(c, c.todo)

SetByOthers(u, keys) == IF UnderWay(u) THEN [calls[u] EXCEPT !.others = @ \cup keys] ELSE calls[u]

\* A request that goes no further leaves its settings in memory, and what is made from them as it was.
InFile(keys) == {<<"file", key>> : key \in keys}
LeftBy(c) ==
  InFile(DoneKeys(c))
  \cup (IF "generated" \in DoneKeys(c) THEN {<<"paths", "generated">>} ELSE {})
  \cup (IF c.refreshScraperCache THEN {<<"scrapers", "scrapers_path">>} ELSE {})
GoesNoFurther(u, answer) == calls' = [calls EXCEPT ![u].todo = {}, ![u].answer = answer]

\* A hash that is sent is the one that was told.
Sendable(input) == "password" \in DOMAIN input => input.password[1] = 0 \/ input.password = Setting("password")

AskFor(u) ==
  /\ ~UnderWay(u) /\ requested < plan.requests
  /\ \E op \in DOMAIN plan.inputs : \E input \in plan.inputs[op] :
       /\ Sendable(input)
       /\ calls' = [calls EXCEPT ![u] = [NoCall EXCEPT !.op = op, !.input = input, !.todo = StepsOf(op, input),
                                                       !.answer = "pending"]]
  /\ requested' = requested + 1
  /\ UNCHANGED <<settingVars, dbVars, plan, live, left, faults>>

\* One setting of the user interface is put among the others as they are now.
ReadUI(u) ==
  /\ Doing(u, "read")
  /\ calls' = [Advanced(u) EXCEPT ![u].input = [key \in {"ui"} |-> Over(@, Setting("ui"))]]
  /\ UNCHANGED <<settingVars, dbVars, plan, live, left, requested, faults>>

\* Mutant: not for a new path.
RefreshesForAgents(key) == key \in {"scraper_user_agent", "scraper_cdp_path"}

\* Scrapers are read again for a new path, and whenever these two are given.
RefreshesScrapers(key) == key \in {"scrapers_path", "scraper_user_agent", "scraper_cdp_path"}

Skip(u, key) ==
  /\ Doing(u, key) /\ key \notin Controls /\ ~Changes(key, calls[u].input)
  /\ calls' = Advanced(u)
  /\ UNCHANGED <<settingVars, dbVars, plan, live, left, requested, faults>>

Set(u, key) ==
  /\ Doing(u, key) /\ key \notin Controls /\ Changes(key, calls[u].input)
  /\ Accepted(key, calls[u].input, FALSE)
  /\ SetTo(key, NewValue(key, calls[u].input))
  /\ calls' = [w \in Users |->
                 IF w = u THEN [Advanced(u)[u] EXCEPT !.refreshScraperCache = @ \/ RefreshesScrapers(key)]
                 ELSE SetByOthers(w, {key})]
  /\ UNCHANGED <<overrides, config, defaults, disk, isNewSystem, dbVars, plan, live, left, requested, faults>>

Refuse(u, key) ==
  /\ Doing(u, key) /\ key \notin Controls /\ Changes(key, calls[u].input)
  /\ \E missing \in BOOLEAN :
       /\ missing => Ready /\ File(open).rows > 0
       /\ ~Accepted(key, calls[u].input, missing)
  /\ GoesNoFurther(u, "refused")
  /\ left' = left \cup LeftBy(calls[u])
  /\ UNCHANGED <<settingVars, dbVars, plan, live, requested, faults>>

\* Everything is written, by whomever it was set.
WriteFile(u) ==
  /\ Doing(u, "write")
  /\ Write(AllSettings, "written")
  /\ calls' = Advanced(u)
  /\ left' = {l \in left : l[1] # "file"}
  /\ UNCHANGED <<overrides, changed, config, defaults, isNewSystem, dbVars, plan, live, requested, faults>>

\* What is in memory and not in the file, after a write that failed.
Unwritten(settings, outcome) == IF outcome = "emptied" THEN InFile(DOMAIN settings) ELSE {}

WriteFails(u) ==
  /\ Doing(u, "write") /\ faults < plan.faults
  /\ \E outcome \in Outcomes \ {"written"} :
       /\ Write(AllSettings, outcome)
       /\ left' = left \cup LeftBy(calls[u]) \cup Unwritten(AllSettings, outcome)
  /\ GoesNoFurther(u, "failed")
  /\ faults' = faults + 1
  /\ UNCHANGED <<overrides, changed, config, defaults, isNewSystem, dbVars, plan, live, requested>>

RefreshConfig ==
  /\ live' = [live EXCEPT !.paths = GetString("generated")]
  /\ left' = left \ {<<"paths", "generated">>}
RefreshScraperCache ==
  /\ live' = [live EXCEPT !.scrapers = GetString("scrapers_path")]
  /\ left' = left \ {<<"scrapers", "scrapers_path">>}

Refresh(u) ==
  /\ Doing(u, "refresh") /\ RefreshConfig
  /\ calls' = Advanced(u)
  /\ UNCHANGED <<settingVars, dbVars, plan, requested, faults>>

RefreshScrapers(u) ==
  /\ Doing(u, "scrapers")
  /\ IF calls[u].refreshScraperCache THEN RefreshScraperCache ELSE UNCHANGED <<live, left>>
  /\ calls' = [Advanced(u) EXCEPT ![u].refreshScraperCache = FALSE]
  /\ UNCHANGED <<settingVars, dbVars, plan, requested, faults>>

Reply(u) ==
  /\ UnderWay(u) /\ calls[u].todo = {}
  /\ calls' = [calls EXCEPT ![u].answer = "done"]
  /\ UNCHANGED <<settingVars, dbVars, plan, live, left, requested, faults>>

ConfigureStep(u) ==
  \/ AskFor(u) \/ ReadUI(u) \/ WriteFile(u) \/ WriteFails(u) \/ Refresh(u) \/ RefreshScrapers(u) \/ Reply(u)
  \/ \E key \in SettingsIn(calls[u].op, calls[u].input) : Skip(u, key) \/ Set(u, key) \/ Refuse(u, key)

----------------------------------------------------------------------------
(***************************************************************************)
(* Settings are what the file says and what is in force, but for those of  *)
(* requests that have not come that far, and of those that were refused or *)
(* failed (ConfigureGeneral, resolver_mutation_configure.go:28-282).       *)
(***************************************************************************)
YetToWrite(key) == \E u \in Users : key \in DoneKeys(calls[u]) /\ ToCome(calls[u], "write")
YetToRefresh(key, step) == \E u \in Users : key \in DoneKeys(calls[u]) /\ ToCome(calls[u], step)
SettingsAgree ==
  /\ \A key \in DOMAIN AllSettings :
       \/ key \in DOMAIN disk /\ disk[key] = AllSettings[key]
       \/ <<"file", key>> \in left \/ YetToWrite(key)
  /\ live.paths = GetString("generated") \/ <<"paths", "generated">> \in left \/ YetToRefresh("generated", "refresh")
  /\ \/ live.scrapers = GetString("scrapers_path")
     \/ <<"scrapers", "scrapers_path">> \in left \/ YetToRefresh("scrapers_path", "scrapers")

(***************************************************************************)
(* When a request is answered without an error, each setting it gives      *)
(* reads as asked and is in the file, unless somebody else has set it      *)
(* meanwhile or it is overridden; paths of the library are read the other  *)
(* way round (GetStashPaths, config.go:465-489).  A password that is sent  *)
(* back as the hash that was told is not changed.                          *)
(***************************************************************************)
Told(key, given) == IF key = "password" /\ given[2] # "" THEN <<1, given[2]>> ELSE given
ReadsAsAsked(key, value) ==
  /\ Setting(key) = value
  /\ IF key \in DOMAIN disk THEN disk[key] = value ELSE key \notin DOMAIN AllSettings
RequestsTakeEffect ==
  [][\A u \in Users : UnderWay(u) /\ calls'[u].answer = "done" =>
       \A key \in DoneKeys(calls[u]) \cap DOMAIN calls[u].input :
         \/ key \in calls[u].others \/ <<"file", key>> \in left
         \/ HasOverride(key) /\ key # "stash"
         \/ ReadsAsAsked(key, Told(key, calls[u].input[key]))]_calls
=============================================================================
