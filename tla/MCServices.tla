----------------------------- MODULE MCServices -----------------------------
(***************************************************************************)
(* An instance of Services for TLC: one DLNA client, instants 0 to 2,      *)
(* durations of none and one; two requests for two files; three readers of *)
(* a file and a call of Cancel; two subscribers and channels of one; and   *)
(* servers, each with what there is at first and what may be asked for: two*)
(* users' requests at a time on a settled system; one request, one failed  *)
(* write and a start after it, with and without overrides; an old database,*)
(* with a failure and three starts, or with a request while it is migrated; *)
(* a new system, set up in four ways.                                      *)
(***************************************************************************)
EXTENDS Services

CONSTANTS u1, u2, a, f1, f2, k1, k2, c1, c2, l1, l2, l3, d1, s1, s2

----------------------------------------------------------------------------
Database(version, rows) == "db" :> [version |-> version, marked |-> FALSE, applied |-> version, rows |-> rows]
OldFile == [database |-> "db", generated |-> "g", stash |-> {"a"}]
NewFile ==
  [database |-> "db", metadata |-> "m", stash |-> {"a"}, password |-> <<1, "p">>, scrapers_path |-> "s",
   noBrowser |-> FALSE, show_one_time_moved_notification |-> FALSE, video_file_naming_algorithm |-> "MD5",
   calculate_md5 |-> TRUE, jwt_secret_key |-> "random", session_store_key |-> "random"]
Settled ==
  [disk |-> NewFile, dbs |-> Database(AppSchema, MaxRows), overrides |-> <<>>, inputs |-> <<>>, setups |-> {},
   requests |-> 0, faults |-> 0, starts |-> 1]

\* Two requests at a time.
Pairs ==
  [general |-> {[stash |-> {"a", "b"}], [generated |-> "g2", stash_boxes |-> {"blank"}], [scrapers_path |-> "s2"],
                [scrapers_path |-> "s2", metadata |-> "bad"], [password |-> <<0, "q">>],
                [password |-> <<1, "p">>, scraper_user_agent |-> "ua"]},
   scraping |-> {[scraper_user_agent |-> "ua", scraper_cert_check |-> FALSE]}]
  @@ ("ui" :> {[ui |-> ("k" :> 1)]}) @@ ("ui setting" :> {[j |-> 2]})

\* One, and a start after it.
Singles ==
  [general |-> {[stash |-> {"a", "b"}], [stash |-> {"x"}], [generated |-> "g2", cache |-> "c2"], [generated |-> ""],
                [cache |-> "", metadata |-> "bad"], [database |-> "db2"], [database |-> "txt"],
                [video_file_naming_algorithm |-> "OSHASH", calculate_md5 |-> FALSE],
                [calculate_md5 |-> FALSE, stash_boxes |-> {"good"}], [video_extensions |-> {}],
                [username |-> "me", password |-> <<0, "q">>]},
   interface |-> {[language |-> "de", cssEnabled |-> TRUE]},
   dlna |-> {("dlna.default_enabled" :> TRUE)},
   defaults |-> {("defaults.delete_file" :> TRUE)}]
  @@ ("api key" :> {[clear |-> FALSE], [clear |-> TRUE]})

\* One that names files as they were, while a migration goes on.
Naming == [general |-> {[video_file_naming_algorithm |-> "OSHASH", calculate_md5 |-> FALSE]}]

Environments == {<<>>, [stash |-> {"a", "e"}, cache |-> "c"], [metadata |-> "m", generated |-> "g"]}
SetupInputs ==
  {[generated |-> g, database |-> d, stash |-> {"a"}] : g \in {"g", "bad"}, d \in {"db", "nowhere"}}

MCPlans ==
  {[Settled EXCEPT !.inputs = Pairs, !.requests = 2]}
  \cup {[Settled EXCEPT !.inputs = Singles, !.requests = 1, !.faults = 1, !.starts = 2, !.overrides = e] : e \in Environments}
  \cup {[Settled EXCEPT !.disk = OldFile, !.dbs = Database(1, 1), !.faults = 1, !.starts = 3]}
  \cup {[Settled EXCEPT !.disk = OldFile, !.dbs = Database(1, 1), !.inputs = Naming, !.requests = 1]}
  \cup {[Settled EXCEPT !.disk = NoFile, !.dbs = <<>>, !.overrides = e, !.setups = SetupInputs, !.faults = 1,
                        !.starts = 2] : e \in Environments}

ASSUME PlansAreRead == \A p \in MCPlans : ReadAsGiven(p)
=============================================================================
