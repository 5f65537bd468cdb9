------------------------ MODULE ConfigurationProofs ------------------------
(***************************************************************************)
(* What is proved of settings, for any plans: of requests by any number of *)
(* users at a time, failed writes and starts.  Settings in force are those *)
(* of the file, but for what requests have still to write and what refused *)
(* ones have left; and a server starts again with the file that the one    *)
(* before it has left, unless that was cut short.                          *)
(***************************************************************************)
EXTENDS ServicesProofs

-----------------------------------------------------------------------------
(* The orders of requests. *)

\* What must still be done for a setting that has been set.
Needs(key) ==
  {"write"} \cup {step \in {"refresh"} : key = "generated"} \cup {step \in {"scrapers"} : key = "scrapers_path"}

\* Once the file is written or anything made again, no setting follows, and whatever a setting needs is there.
OrderFits(order) ==
  /\ DOMAIN order \subseteq Nat
  /\ \A i, j \in DOMAIN order : i < j /\ order[i] \in Controls \ {"read"} => order[j] \in Controls
  /\ \A i \in DOMAIN order : order[i] \notin Controls =>
       \A step \in Needs(order[i]) : \E j \in DOMAIN order : order[j] = step

LEMMA GeneralFits == OrderFits(ConfigureGeneral) /\ \A i \in DOMAIN ConfigureGeneral : ConfigureGeneral[i] # "read"
<1>1. DOMAIN ConfigureGeneral = 1..40
  BY DEF ConfigureGeneral
<1>2. ConfigureGeneral[38] = "write" /\ ConfigureGeneral[39] = "refresh" /\ ConfigureGeneral[40] = "scrapers"
  BY DEF ConfigureGeneral
<1>3. \A i \in 1..37 : ConfigureGeneral[i] \notin Controls
  BY DEF ConfigureGeneral, Controls
<1> QED
  BY <1>1, <1>2, <1>3 DEF OrderFits, Needs, Controls

LEMMA InterfaceFits ==
  OrderFits(ConfigureInterface) /\ \A i \in DOMAIN ConfigureInterface : ConfigureInterface[i] # "read"
<1>1. DOMAIN ConfigureInterface = 1..26
  BY DEF ConfigureInterface
<1>2. ConfigureInterface[26] = "write"
  BY DEF ConfigureInterface
<1>3. \A i \in 1..25 : ConfigureInterface[i] \notin Controls \cup {"generated", "scrapers_path"}
  BY DEF ConfigureInterface, Controls
<1> QED
  BY <1>1, <1>2, <1>3 DEF OrderFits, Needs, Controls

LEMMA ShortOrdersFit ==
  \A order \in {ConfigureDlna, ConfigureScraping, ConfigureDefaults, GenerateAPIKey, ConfigureUI} :
    OrderFits(order) /\ \A i \in DOMAIN order : order[i] # "read"
<1>1. OrderFits(ConfigureDlna) /\ \A i \in DOMAIN ConfigureDlna : ConfigureDlna[i] # "read"
  BY DEF ConfigureDlna, OrderFits, Needs, Controls
<1>2. OrderFits(ConfigureScraping) /\ \A i \in DOMAIN ConfigureScraping : ConfigureScraping[i] # "read"
  BY DEF ConfigureScraping, OrderFits, Needs, Controls
<1>3. OrderFits(ConfigureDefaults) /\ \A i \in DOMAIN ConfigureDefaults : ConfigureDefaults[i] # "read"
  BY DEF ConfigureDefaults, OrderFits, Needs, Controls
<1>4. OrderFits(GenerateAPIKey) /\ \A i \in DOMAIN GenerateAPIKey : GenerateAPIKey[i] # "read"
  BY DEF GenerateAPIKey, OrderFits, Needs, Controls
<1>5. OrderFits(ConfigureUI) /\ \A i \in DOMAIN ConfigureUI : ConfigureUI[i] # "read"
  BY DEF ConfigureUI, OrderFits, Needs, Controls
<1> QED
  BY <1>1, <1>2, <1>3, <1>4, <1>5

LEMMA OrdersFit ==
  ASSUME NEW op \in Requests \cup {"none"}
  PROVE  /\ OrderFits(OrderOf(op))
         /\ \A i \in DOMAIN OrderOf(op) : OrderOf(op)[i] = "read" => op = "ui setting"
<1>1. OrderFits(ConfigureUISetting)
  BY DEF ConfigureUISetting, OrderFits, Needs, Controls
<1>2. /\ OrderOf("general") = ConfigureGeneral /\ OrderOf("interface") = ConfigureInterface
      /\ OrderOf("dlna") = ConfigureDlna /\ OrderOf("scraping") = ConfigureScraping
      /\ OrderOf("defaults") = ConfigureDefaults /\ OrderOf("api key") = GenerateAPIKey
      /\ OrderOf("ui") = ConfigureUI /\ OrderOf("ui setting") = ConfigureUISetting /\ OrderOf("none") = <<>>
  BY DEF OrderOf
<1>3. CASE op \in {"dlna", "scraping", "defaults", "api key", "ui"}
  BY <1>2, <1>3, ShortOrdersFit
<1>4. CASE op \in {"general", "interface"}
  BY <1>2, <1>4, GeneralFits, InterfaceFits
<1>5. CASE op = "ui setting"
  BY <1>1, <1>2, <1>5
<1>6. CASE op = "none"
  <2>1. DOMAIN OrderOf(op) = {}
    BY <1>6 DEF OrderOf
  <2>2. OrderFits(OrderOf(op))
    BY <2>1 DEF OrderFits
  <2> QED
    BY <2>1, <2>2
<1> QED
  BY <1>3, <1>4, <1>5, <1>6 DEF Requests

-----------------------------------------------------------------------------
(* The inductive invariant. *)

CallFits(c) ==
  /\ c = [op |-> c.op, input |-> c.input, todo |-> c.todo, refreshScraperCache |-> c.refreshScraperCache,
          others |-> c.others, answer |-> c.answer]
  /\ c.op \in Requests \cup {"none"} /\ c.todo \subseteq StepsOf(c.op, c.input)
  /\ c.answer # "pending" => c.todo = {}
  /\ \A i \in c.todo : OrderOf(c.op)[i] \notin Controls => \A step \in Needs(OrderOf(c.op)[i]) : ToCome(c, step)
  /\ \A key \in Mandatory \cap DOMAIN c.input : c.input[key] # Unset
CallsFit == calls = [u \in Users |-> calls[u]] /\ \A u \in Users : CallFits(calls[u])

\* What goes on beside requests, and the plan.
StageInv ==
  /\ plan \in Plans \cup {NoPlan} /\ overrides = plan.overrides
  /\ live = [paths |-> live.paths, scrapers |-> live.scrapers]
  /\ stage = "starting" <=> task.job = "boot"
  /\ task.job \in {"setup", "migrate"} => stage = "serving"
  /\ isNewSystem => stage = "serving"
  /\ task.job # "none" => (isNewSystem <=> task.job = "setup")
  /\ task.job = "setup" => \A key \in Mandatory : Given(task.input, key)

\* From here on a start or the wizard has the file agree, and then what is made from settings.
AfterWrite == {"refresh", "scrapers", "database", "post migrate", "serve", "finalize"} \cup MigrationPart
InForce(steps) ==
  \/ stage = "serving" /\ ~isNewSystem
  \/ task.job \in {"boot", "setup"} /\ task.at \in steps

FileAgrees ==
  \A key \in DOMAIN AllSettings :
    \/ key \in DOMAIN disk /\ disk[key] = AllSettings[key]
    \/ <<"file", key>> \in left \/ YetToWrite(key)
PathsAgree ==
  live.paths = GetString("generated") \/ <<"paths", "generated">> \in left \/ YetToRefresh("generated", "refresh")

\* The scrapers' path that a request has set, and for which it has still to read them again.
ScrapersAwaited == \E u \in Users : /\ "scrapers_path" \in DoneKeys(calls[u]) /\ ToCome(calls[u], "scrapers")
                                    /\ calls[u].refreshScraperCache
ScrapersAgree ==
  \/ live.scrapers = GetString("scrapers_path") \/ <<"scrapers", "scrapers_path">> \in left \/ ScrapersAwaited

AgreeInv ==
  /\ InForce(AfterWrite) => FileAgrees
  /\ InForce(AfterWrite \ {"refresh"}) => PathsAgree
  /\ InForce(AfterWrite \ {"refresh", "scrapers"}) => ScrapersAgree

\* What a server must have, from the environment or from these settings.
Provided(f) == \A key \in Mandatory : HasOverride(key) \/ Given(f, key)

\* What a server must have is in its memory once that was checked or chosen, and so it is in the file.
StartInv ==
  /\ ~emptied /\ disk # NoFile => CanStart(disk, overrides)
  /\ task.job = "boot" /\ task.at \in {"existing", "initialize"} =>
       DOMAIN changed \cap {"database", "generated", "metadata"} = {} /\ DOMAIN defaults = {}
  /\ task.job = "boot" /\ task.at \in {"existing", "initialize"} /\ ~emptied => CanStart(config, overrides)
  /\ task.job = "boot" /\ task.at = "validate" /\ ~emptied => Provided(AllSettings)
  /\ task.job = "boot" /\ task.at \in {"validate", "initial"} =>
       "generated" \in DOMAIN defaults /\ defaults["generated"] = DefaultValues.generated
  /\ task.job = "boot" /\ task.at = "initial" => Provided(AllSettings)
  /\ task.job = "setup" /\ task.at = "settings" => HasOverride("generated") \/ Given(changed, "generated")
  /\ task.job = "setup" /\ task.at \in {"write", "initial"} => Provided(changed)
  /\ InForce(AfterWrite) => Provided(AllSettings)
  /\ stage = "failed" /\ reason = "incomplete" => emptied

ConfigInv == CallsFit /\ StageInv /\ AgreeInv /\ StartInv
-----------------------------------------------------------------------------
(* Settings, one over the other. *)

LEMMA OverGives ==
  ASSUME NEW f, NEW g
  PROVE  /\ DOMAIN Over(f, g) = DOMAIN f \cup DOMAIN g
         /\ \A k \in DOMAIN f : Over(f, g)[k] = f[k]
         /\ \A k \in DOMAIN g \ DOMAIN f : Over(f, g)[k] = g[k]
BY DEF Over

LEMMA SetGives ==
  ASSUME NEW key, NEW value, SetTo(key, value), UNCHANGED <<config, defaults, overrides>>
  PROVE  /\ DOMAIN AllSettings' = DOMAIN AllSettings \cup {key}
         /\ AllSettings'[key] = value
         /\ \A k \in DOMAIN AllSettings \ {key} : AllSettings'[k] = AllSettings[k]
         /\ \A k : k # key => Get(k)' = Get(k)
<1>1. /\ DOMAIN changed' = DOMAIN changed \cup {key} /\ changed'[key] = value
      /\ \A k \in DOMAIN changed \ {key} : changed'[k] = changed[k]
  BY DEF SetTo, Over
<1>2. /\ DOMAIN AllSettings' = DOMAIN AllSettings \cup {key} /\ AllSettings'[key] = value
      /\ \A k \in DOMAIN AllSettings \ {key} : AllSettings'[k] = AllSettings[k]
  BY <1>1 DEF AllSettings, Over
<1> QED
  BY <1>2 DEF Get, Main, HasOverride

\* Whatever is set the same, is read the same.
LEMMA SameIsRead ==
  ASSUME UNCHANGED overrides, NEW k, k \in DOMAIN AllSettings <=> k \in DOMAIN AllSettings',
         k \in DOMAIN AllSettings => AllSettings'[k] = AllSettings[k]
  PROVE  Get(k)' = Get(k) /\ GetString(k)' = GetString(k)
BY DEF Get, Main, HasOverride, GetString

LEMMA MissingIsNotProvided == ASSUME StageInv PROVE MissingFields = {} <=> Provided(AllSettings)
<1>1. \A key \in Mandatory : HasOverride(key) => Given(overrides, key)
  <2>1. CASE plan \in Plans
    BY <2>1, FileAssumption DEF StageInv, HasOverride
  <2>2. CASE plan = NoPlan
    BY <2>2 DEF StageInv, HasOverride, NoPlan
  <2> QED
    BY <2>1, <2>2 DEF StageInv
<1>2. \A key \in Mandatory : GetString(key) # "" <=> HasOverride(key) \/ Given(AllSettings, key)
  BY <1>1 DEF GetString, Get, Main, Given, HasOverride
<1> QED
  BY <1>2 DEF MissingFields, Provided

-----------------------------------------------------------------------------
(* Requests. *)

LEMMA FirstIsDone ==
  ASSUME NEW u \in Users, NEW step, CallsFit, Doing(u, step), NEW d,
         d.op = calls[u].op, StepsOf(d.op, d.input) = StepsOf(calls[u].op, calls[u].input),
         d.todo = {i \in calls[u].todo : \E j \in calls[u].todo : j < i}
  PROVE  /\ d.todo \subseteq StepsOf(d.op, d.input)
         /\ step \in DoneKeys(d) \cup Controls /\ DoneKeys(calls[u]) \subseteq DoneKeys(d)
         /\ \A s : ToCome(calls[u], s) /\ s # step => ToCome(d, s)
         /\ step \notin Controls => \A s \in Needs(step) : ToCome(d, s)
         /\ \A i \in d.todo : OrderOf(d.op)[i] \notin Controls => \A s \in Needs(OrderOf(d.op)[i]) : ToCome(d, s)
<1> DEFINE c == calls[u]
           order == OrderOf(c.op)
<1>1. CallFits(c)
  BY DEF CallsFit
<1>2. PICK i \in c.todo : order[i] = step /\ \A j \in c.todo : i <= j
  BY DEF Doing
<1>3. c.todo \subseteq DOMAIN order /\ DOMAIN order \subseteq Nat
  BY <1>1, OrdersFit DEF CallFits, StepsOf, OrderFits
<1>4. d.todo = c.todo \ {i}
  BY <1>2, <1>3
<1>5. \A s : ToCome(c, s) /\ s # step => ToCome(d, s)
  BY <1>2, <1>4 DEF ToCome, Named
<1>6. d.todo \subseteq StepsOf(d.op, d.input) /\ i \in StepsOf(d.op, d.input)
  BY <1>1, <1>2, <1>4 DEF CallFits
<1>7. step \in DoneKeys(d) \cup Controls /\ DoneKeys(c) \subseteq DoneKeys(d)
  BY <1>2, <1>4, <1>6 DEF DoneKeys, Named
<1>8. \A k : Needs(k) \subseteq Controls \ {"read"}
  BY DEF Needs, Controls
<1>9. step \notin Controls => \A s \in Needs(step) : ToCome(d, s)
  BY <1>1, <1>2, <1>5, <1>8 DEF CallFits
<1>10. ASSUME NEW j \in d.todo, order[j] \notin Controls, NEW s \in Needs(order[j])
       PROVE  ToCome(d, s)
  <2>1. ToCome(c, s)
    BY <1>1, <1>4, <1>10 DEF CallFits
  <2>2. i < j /\ i \in DOMAIN order /\ j \in DOMAIN order
    BY <1>2, <1>3, <1>4
  <2>3. OrderFits(order)
    BY <1>1, OrdersFit DEF CallFits
  <2>4. step \notin Controls \ {"read"}
    BY <1>2, <1>10, <2>2, <2>3 DEF OrderFits
  <2>5. s # step
    BY <1>8, <2>4
  <2> QED
    BY <1>5, <2>1, <2>5
<1> QED
  BY <1>5, <1>6, <1>7, <1>9, <1>10

Rest(todo) == {i \in todo : \E j \in todo : j < i}

\* A request moves on by a step; of the others, no more than what was set meanwhile is noted.
Moves(u, step) ==
  /\ Doing(u, step)
  /\ calls' = [w \in Users |-> calls'[w]]
  /\ \A w \in Users \ {u} : calls'[w] = [calls[w] EXCEPT !.others = calls'[w].others]
  /\ calls'[u] = [op |-> calls[u].op, input |-> calls'[u].input, todo |-> Rest(calls[u].todo),
                  refreshScraperCache |-> calls'[u].refreshScraperCache,
                  others |-> calls[u].others, answer |-> calls[u].answer]
  /\ StepsOf(calls[u].op, calls'[u].input) = StepsOf(calls[u].op, calls[u].input)
  /\ \A key \in Mandatory \cap DOMAIN calls'[u].input : calls'[u].input[key] # Unset

\* A request of which no more is noted than what was set meanwhile.
LEMMA OnlyNoted ==
  ASSUME NEW w \in Users, CallFits(calls[w]), calls'[w] = [calls[w] EXCEPT !.others = calls'[w].others]
  PROVE  /\ CallFits(calls'[w]) /\ DoneKeys(calls'[w]) = DoneKeys(calls[w])
         /\ \A s : ToCome(calls'[w], s) <=> ToCome(calls[w], s)
         /\ calls'[w].refreshScraperCache = calls[w].refreshScraperCache /\ calls'[w].answer = calls[w].answer
         /\ calls'[w].op = calls[w].op /\ calls'[w].input = calls[w].input
<1> DEFINE d == calls'[w]
<1>1. /\ d = [op |-> calls[w].op, input |-> calls[w].input, todo |-> calls[w].todo,
              refreshScraperCache |-> calls[w].refreshScraperCache, others |-> d.others, answer |-> calls[w].answer]
      /\ d.op = calls[w].op /\ d.input = calls[w].input /\ d.todo = calls[w].todo
      /\ d.refreshScraperCache = calls[w].refreshScraperCache /\ d.answer = calls[w].answer
  BY DEF CallFits
<1>2. DoneKeys(d) = DoneKeys(calls[w]) /\ \A s : ToCome(d, s) <=> ToCome(calls[w], s)
  BY <1>1 DEF DoneKeys, ToCome, Named
<1> QED
  BY <1>1, <1>2 DEF CallFits

LEMMA MovesOn ==
  ASSUME CallsFit, NEW u \in Users, NEW step, Moves(u, step)
  PROVE  /\ CallsFit'
         /\ step \notin Controls => step \in DoneKeys(calls'[u]) /\ \A s \in Needs(step) : ToCome(calls'[u], s)
         /\ \A key : YetToWrite(key) /\ step # "write" => YetToWrite(key)'
         /\ \A key, s : YetToRefresh(key, s) /\ step # s => YetToRefresh(key, s)'
         /\ ScrapersAwaited /\ step # "scrapers" /\ (calls[u].refreshScraperCache => calls'[u].refreshScraperCache)
              => ScrapersAwaited'
         /\ ScrapersAwaited /\ ~calls[u].refreshScraperCache => ScrapersAwaited'
<1> DEFINE c(w) == calls[w]
           d(w) == calls'[w]
<1>1. /\ CallFits(calls[u]) /\ calls[u].answer = "pending"
      /\ calls[u] = [op |-> calls[u].op, input |-> calls[u].input, todo |-> calls[u].todo,
                     refreshScraperCache |-> calls[u].refreshScraperCache,
                     others |-> calls[u].others, answer |-> calls[u].answer]
  BY DEF CallsFit, CallFits, Moves, Doing, UnderWay
<1>2. /\ d(u) = [op |-> calls[u].op, input |-> d(u).input, todo |-> d(u).todo,
                 refreshScraperCache |-> d(u).refreshScraperCache, others |-> calls[u].others, answer |-> calls[u].answer]
      /\ d(u).todo = {i \in calls[u].todo : \E j \in calls[u].todo : j < i}
      /\ d(u).op = calls[u].op /\ d(u).answer = "pending"
  BY <1>1 DEF Moves, Rest
<1>3. /\ d(u).todo \subseteq StepsOf(d(u).op, d(u).input)
      /\ step \in DoneKeys(d(u)) \cup Controls /\ DoneKeys(calls[u]) \subseteq DoneKeys(d(u))
      /\ \A s : ToCome(calls[u], s) /\ s # step => ToCome(d(u), s)
      /\ step \notin Controls => \A s \in Needs(step) : ToCome(d(u), s)
      /\ \A i \in d(u).todo : OrderOf(d(u).op)[i] \notin Controls => \A s \in Needs(OrderOf(d(u).op)[i]) : ToCome(d(u), s)
  <2>1. StepsOf(d(u).op, d(u).input) = StepsOf(calls[u].op, calls[u].input) /\ Doing(u, step)
    BY <1>2 DEF Moves
  <2> QED
    BY <1>2, <2>1, FirstIsDone
<1>4. CallFits(d(u))
  <2>1. calls[u].op \in Requests \cup {"none"}
    BY <1>1 DEF CallFits
  <2>2. d(u).op \in Requests \cup {"none"} /\ \A key \in Mandatory \cap DOMAIN d(u).input : d(u).input[key] # Unset
    BY <1>2, <2>1 DEF Moves
  <2>3. d(u) = [op |-> d(u).op, input |-> d(u).input, todo |-> d(u).todo,
                refreshScraperCache |-> d(u).refreshScraperCache, others |-> d(u).others, answer |-> d(u).answer]
    BY <1>2
  <2> QED
    BY <1>2, <1>3, <2>2, <2>3 DEF CallFits
<1>5. ASSUME NEW w \in Users \ {u}
      PROVE  /\ CallFits(d(w)) /\ DoneKeys(d(w)) = DoneKeys(calls[w])
             /\ \A s : ToCome(d(w), s) <=> ToCome(calls[w], s)
             /\ d(w).refreshScraperCache = calls[w].refreshScraperCache
  BY OnlyNoted DEF CallsFit, Moves
<1>6. CallsFit'
  BY <1>4, <1>5 DEF CallsFit, Moves
<1>7. \A w \in Users : /\ DoneKeys(calls[w]) \subseteq DoneKeys(d(w))
                       /\ \A s : ToCome(calls[w], s) /\ s # step => ToCome(d(w), s)
                       /\ w # u => \A s : ToCome(calls[w], s) => ToCome(d(w), s)
  BY <1>3, <1>5
<1>8. /\ \A key : YetToWrite(key) /\ step # "write" => YetToWrite(key)'
      /\ \A key, s : YetToRefresh(key, s) /\ step # s => YetToRefresh(key, s)'
  BY <1>7 DEF YetToWrite, YetToRefresh
<1>9. /\ ScrapersAwaited /\ step # "scrapers" /\ (calls[u].refreshScraperCache => calls'[u].refreshScraperCache)
           => ScrapersAwaited'
      /\ ScrapersAwaited /\ ~calls[u].refreshScraperCache => ScrapersAwaited'
  BY <1>5, <1>7 DEF ScrapersAwaited
<1> QED
  BY <1>3, <1>6, <1>8, <1>9

Agrees == FileAgrees /\ PathsAgree /\ ScrapersAgree

\* Settings, the file and what was made from settings stay as they were.
LEMMA NothingIsSet ==
  ASSUME CallsFit, Agrees, NEW u \in Users, NEW step, Moves(u, step), step \notin {"write", "refresh", "scrapers"},
         UNCHANGED <<settingVars, live, left>>, calls[u].refreshScraperCache => calls'[u].refreshScraperCache
  PROVE  CallsFit' /\ Agrees'
<1>1. \A key : GetString(key)' = GetString(key)
  BY SameIsRead DEF settingVars, AllSettings
<1>2. CallsFit' /\ FileAgrees'
  BY MovesOn DEF Agrees, FileAgrees, settingVars, AllSettings
<1>3. PathsAgree'
  BY <1>1, MovesOn DEF Agrees, PathsAgree
<1>4. ScrapersAgree'
  BY <1>1, MovesOn DEF Agrees, ScrapersAgree
<1> QED
  BY <1>2, <1>3, <1>4 DEF Agrees

LEMMA AdvancedMoves ==
  ASSUME CallsFit, NEW u \in Users, NEW step, Doing(u, step), calls' = Advanced(u)
  PROVE  /\ Moves(u, step) /\ calls'[u].refreshScraperCache = calls[u].refreshScraperCache
         /\ calls'[u].input = calls[u].input /\ \A w \in Users \ {u} : calls'[w] = calls[w]
<1>1. /\ calls = [w \in Users |-> calls[w]]
      /\ \A w \in Users : CallFits(calls[w])
  BY DEF CallsFit
<1>2. /\ calls' = [w \in Users |-> calls'[w]]
      /\ \A w \in Users \ {u} : calls'[w] = calls[w]
      /\ calls'[u] = [calls[u] EXCEPT !.todo = {i \in @ : \E j \in @ : j < i}]
  BY <1>1 DEF Advanced
<1>3. calls'[u].input = calls[u].input /\ calls'[u].refreshScraperCache = calls[u].refreshScraperCache
  BY <1>1, <1>2 DEF CallFits
<1>4. \A w \in Users \ {u} : calls'[w] = [calls[w] EXCEPT !.others = calls'[w].others]
  BY <1>1, <1>2 DEF CallFits
<1>5. calls'[u] = [op |-> calls[u].op, input |-> calls'[u].input, todo |-> Rest(calls[u].todo),
                   refreshScraperCache |-> calls'[u].refreshScraperCache,
                   others |-> calls[u].others, answer |-> calls[u].answer]
  BY <1>1, <1>2, <1>3 DEF CallFits, Rest
<1> QED
  BY <1>1, <1>2, <1>3, <1>4, <1>5 DEF Moves, CallFits

LEMMA SkipAgrees ==
  ASSUME CallsFit, Agrees, NEW u \in Users, NEW key, Skip(u, key)
  PROVE  CallsFit' /\ Agrees'
<1>1. Moves(u, key) /\ calls'[u].refreshScraperCache = calls[u].refreshScraperCache
  BY AdvancedMoves DEF Skip
<1> QED
  BY <1>1, NothingIsSet DEF Skip, Controls

LEMMA ReadUIAgrees ==
  ASSUME CallsFit, Agrees, NEW u \in Users, ReadUI(u)
  PROVE  CallsFit' /\ Agrees'
<1>1. CallFits(calls[u]) /\ calls = [w \in Users |-> calls[w]] /\ \A w \in Users : CallFits(calls[w])
  BY DEF CallsFit
<1>2. calls[u].op = "ui setting"
  <2>1. PICK i \in calls[u].todo : OrderOf(calls[u].op)[i] = "read"
    BY DEF ReadUI, Doing
  <2> QED
    BY <1>1, <2>1, OrdersFit DEF CallFits, StepsOf
<1>3. /\ calls' = [w \in Users |-> calls'[w]]
      /\ \A w \in Users \ {u} : calls'[w] = calls[w]
      /\ calls'[u] = [Advanced(u)[u] EXCEPT !.input = [key \in {"ui"} |-> Over(@, Setting("ui"))]]
      /\ Advanced(u)[u] = [calls[u] EXCEPT !.todo = {i \in @ : \E j \in @ : j < i}]
  BY <1>1 DEF ReadUI, Advanced
<1>4. /\ DOMAIN calls'[u].input = {"ui"}
      /\ calls'[u].refreshScraperCache = calls[u].refreshScraperCache
      /\ calls'[u] = [op |-> calls[u].op, input |-> calls'[u].input, todo |-> Rest(calls[u].todo),
                      refreshScraperCache |-> calls'[u].refreshScraperCache,
                      others |-> calls[u].others, answer |-> calls[u].answer]
  <2>1. calls[u] = [op |-> calls[u].op, input |-> calls[u].input, todo |-> calls[u].todo,
                    refreshScraperCache |-> calls[u].refreshScraperCache,
                    others |-> calls[u].others, answer |-> calls[u].answer]
    BY <1>1 DEF CallFits
  <2>2. Advanced(u)[u] = [op |-> calls[u].op, input |-> calls[u].input, todo |-> Rest(calls[u].todo),
                          refreshScraperCache |-> calls[u].refreshScraperCache,
                          others |-> calls[u].others, answer |-> calls[u].answer]
    BY <1>3, <2>1 DEF Rest
  <2> DEFINE given == [key \in {"ui"} |-> Over(calls[u].input, Setting("ui"))]
  <2>3. calls'[u] = [Advanced(u)[u] EXCEPT !.input = given]
    BY <1>3, <2>2
  <2>4. DOMAIN given = {"ui"}
    OBVIOUS
  <2> HIDE DEF given
  <2> QED
    BY <2>2, <2>3, <2>4
<1>5. StepsOf(calls[u].op, calls'[u].input) = StepsOf(calls[u].op, calls[u].input)
  BY <1>2 DEF StepsOf, SettingsIn
<1>6. \A w \in Users \ {u} : calls'[w] = [calls[w] EXCEPT !.others = calls'[w].others]
  BY <1>1, <1>3 DEF CallFits
<1>7. Mandatory \cap DOMAIN calls'[u].input = {}
  BY <1>4 DEF Mandatory
<1>8. Moves(u, "read")
  BY <1>3, <1>4, <1>5, <1>6, <1>7 DEF Moves, ReadUI
<1> QED
  BY <1>4, <1>8, NothingIsSet DEF ReadUI

LEMMA SetMoves ==
  ASSUME CallsFit, NEW u \in Users, NEW key, Set(u, key)
  PROVE  /\ Moves(u, key)
         /\ calls'[u].refreshScraperCache = (calls[u].refreshScraperCache \/ RefreshesScrapers(key))
         /\ calls'[u].input = calls[u].input /\ \A w \in Users \ {u} : calls'[w] = SetByOthers(w, {key})
<1>1. calls = [w \in Users |-> calls[w]] /\ \A w \in Users : CallFits(calls[w])
  BY DEF CallsFit
<1>2. Advanced(u)[u] = [calls[u] EXCEPT !.todo = {i \in @ : \E j \in @ : j < i}]
  BY <1>1 DEF Advanced
<1>3. /\ calls' = [w \in Users |-> calls'[w]]
      /\ calls'[u] = [Advanced(u)[u] EXCEPT !.refreshScraperCache = @ \/ RefreshesScrapers(key)]
      /\ \A w \in Users \ {u} : calls'[w] = IF UnderWay(w) THEN [calls[w] EXCEPT !.others = @ \cup {key}] ELSE calls[w]
  BY DEF Set, SetByOthers
<1>4. \A w \in Users \ {u} : calls'[w] = [calls[w] EXCEPT !.others = calls'[w].others]
  BY <1>1, <1>3 DEF CallFits
<1>5. /\ calls'[u].input = calls[u].input
      /\ calls'[u].refreshScraperCache = (calls[u].refreshScraperCache \/ RefreshesScrapers(key))
      /\ calls'[u] = [op |-> calls[u].op, input |-> calls'[u].input, todo |-> Rest(calls[u].todo),
                      refreshScraperCache |-> calls'[u].refreshScraperCache,
                      others |-> calls[u].others, answer |-> calls[u].answer]
  <2>1. calls[u] = [op |-> calls[u].op, input |-> calls[u].input, todo |-> calls[u].todo,
                    refreshScraperCache |-> calls[u].refreshScraperCache,
                    others |-> calls[u].others, answer |-> calls[u].answer]
    BY <1>1 DEF CallFits
  <2>2. Advanced(u)[u] = [op |-> calls[u].op, input |-> calls[u].input, todo |-> Rest(calls[u].todo),
                          refreshScraperCache |-> calls[u].refreshScraperCache,
                          others |-> calls[u].others, answer |-> calls[u].answer]
    BY <1>2, <2>1 DEF Rest
  <2> DEFINE flag == calls[u].refreshScraperCache \/ RefreshesScrapers(key)
  <2>3. calls'[u] = [Advanced(u)[u] EXCEPT !.refreshScraperCache = flag]
    BY <1>3, <2>2
  <2> HIDE DEF flag
  <2>4. /\ calls'[u].input = calls[u].input /\ calls'[u].refreshScraperCache = flag
        /\ calls'[u] = [op |-> calls[u].op, input |-> calls'[u].input, todo |-> Rest(calls[u].todo),
                        refreshScraperCache |-> calls'[u].refreshScraperCache,
                        others |-> calls[u].others, answer |-> calls[u].answer]
    BY <2>2, <2>3
  <2> QED
    BY <2>4 DEF flag
<1>6. /\ Doing(u, key) /\ calls' = [w \in Users |-> calls'[w]] /\ \A w \in Users \ {u} : calls'[w] = SetByOthers(w, {key})
      /\ StepsOf(calls[u].op, calls'[u].input) = StepsOf(calls[u].op, calls[u].input)
      /\ \A k \in Mandatory \cap DOMAIN calls'[u].input : calls'[u].input[k] # Unset
  BY <1>1, <1>3, <1>5 DEF Set, CallFits
<1> QED
  BY <1>4, <1>5, <1>6 DEF Moves

LEMMA SetAgrees ==
  ASSUME CallsFit, Agrees, NEW u \in Users, NEW key, Set(u, key)
  PROVE  CallsFit' /\ Agrees'
<1>1. key \notin Controls /\ UNCHANGED <<overrides, config, defaults, disk, live, left>>
  BY DEF Set
<1>2. Moves(u, key) /\ (calls[u].refreshScraperCache \/ RefreshesScrapers(key) => calls'[u].refreshScraperCache)
  BY SetMoves
<1>3. key \in DoneKeys(calls'[u]) /\ \A s \in Needs(key) : ToCome(calls'[u], s)
  BY <1>1, <1>2, MovesOn
<1>4. /\ DOMAIN AllSettings' = DOMAIN AllSettings \cup {key}
      /\ \A k \in DOMAIN AllSettings \ {key} : AllSettings'[k] = AllSettings[k]
      /\ \A k : k # key => GetString(k)' = GetString(k)
  BY <1>1, SetGives DEF Set, GetString
<1>5. key \notin {"write", "refresh", "scrapers"}
  BY <1>1 DEF Controls
<1>6. FileAgrees'
  <2>1. YetToWrite(key)'
    BY <1>3 DEF YetToWrite, Needs
  <2>2. ASSUME NEW k \in DOMAIN AllSettings', k # key
        PROVE  (k \in DOMAIN disk' /\ disk'[k] = AllSettings'[k]) \/ <<"file", k>> \in left' \/ YetToWrite(k)'
    BY <1>1, <1>2, <1>4, <1>5, <2>2, MovesOn DEF Agrees, FileAgrees
  <2> QED
    BY <2>1, <2>2 DEF FileAgrees
<1>7. PathsAgree'
  <2>1. CASE key = "generated"
    BY <1>3, <2>1 DEF PathsAgree, YetToRefresh, Needs
  <2>2. CASE key # "generated"
    BY <1>1, <1>2, <1>4, <1>5, <2>2, MovesOn DEF Agrees, PathsAgree
  <2> QED
    BY <2>1, <2>2
<1>8. ScrapersAgree'
  <2>1. CASE key = "scrapers_path"
    BY <1>2, <1>3, <2>1 DEF ScrapersAgree, ScrapersAwaited, Needs, RefreshesScrapers
  <2>2. CASE key # "scrapers_path"
    BY <1>1, <1>2, <1>4, <1>5, <2>2, MovesOn DEF Agrees, ScrapersAgree
  <2> QED
    BY <2>1, <2>2
<1> QED
  BY <1>2, <1>6, <1>7, <1>8, MovesOn DEF Agrees

\* A request that is over is not waited for; others go on as they were.
LEMMA OtherCallsGoOn ==
  ASSUME NEW u \in Users, \A w \in Users \ {u} : calls'[w] = calls[w]
  PROVE  /\ \A key : YetToWrite(key) =>
              YetToWrite(key)' \/ (key \in DoneKeys(calls[u]) /\ ToCome(calls[u], "write"))
         /\ \A key, step : YetToRefresh(key, step) =>
              YetToRefresh(key, step)' \/ (key \in DoneKeys(calls[u]) /\ ToCome(calls[u], step))
         /\ ScrapersAwaited =>
              ScrapersAwaited' \/ (calls[u].refreshScraperCache /\ ToCome(calls[u], "scrapers"))
BY DEF YetToWrite, YetToRefresh, ScrapersAwaited, DoneKeys, ToCome, Named

LEMMA NothingToCome == ASSUME NEW c, c.todo = {} PROVE \A step : ~ToCome(c, step)
BY DEF ToCome, Named

LEMMA EndsFit ==
  ASSUME CallsFit, NEW u \in Users, NEW answer, answer # "pending", GoesNoFurther(u, answer)
  PROVE  CallsFit' /\ \A w \in Users \ {u} : calls'[w] = calls[w]
<1>1. calls = [w \in Users |-> calls[w]] /\ \A w \in Users : CallFits(calls[w])
  BY DEF CallsFit
<1>2. /\ calls' = [w \in Users |-> calls'[w]] /\ \A w \in Users \ {u} : calls'[w] = calls[w]
      /\ calls'[u] = [calls[u] EXCEPT !.todo = {}, !.answer = answer]
  BY <1>1 DEF GoesNoFurther
<1>3. calls'[u] = [op |-> calls[u].op, input |-> calls[u].input, todo |-> {},
                   refreshScraperCache |-> calls[u].refreshScraperCache, others |-> calls[u].others, answer |-> answer]
  BY <1>1, <1>2 DEF CallFits
<1>4. CallFits(calls'[u])
  BY <1>1, <1>3 DEF CallFits
<1> QED
  BY <1>1, <1>2, <1>4 DEF CallsFit

\* What a request has set is left as it is, and so it is noted.
LEMMA LeftBehindAgrees ==
  ASSUME CallsFit, Agrees, NEW u \in Users, NEW answer, answer # "pending", GoesNoFurther(u, answer),
         UNCHANGED <<overrides, changed, config, defaults, live>>, left \cup LeftBy(calls[u]) \subseteq left',
         disk' = disk \/ InFile(DOMAIN AllSettings) \subseteq left'
  PROVE  CallsFit' /\ Agrees'
<1>1. CallsFit' /\ \A w \in Users \ {u} : calls'[w] = calls[w]
  BY EndsFit
<1>2. AllSettings' = AllSettings /\ \A key : GetString(key)' = GetString(key)
  BY DEF AllSettings, GetString, Get, Main, HasOverride
<1>3. FileAgrees'
  <2> SUFFICES ASSUME NEW key \in DOMAIN AllSettings
               PROVE  (key \in DOMAIN disk' /\ disk'[key] = AllSettings[key]) \/ <<"file", key>> \in left' \/ YetToWrite(key)'
    BY <1>2 DEF FileAgrees
  <2>1. CASE disk' = disk
    <3>1. CASE YetToWrite(key)
      <4>1. key \in DoneKeys(calls[u]) => <<"file", key>> \in left'
        BY DEF LeftBy, InFile
      <4> QED
        BY <1>1, <3>1, <4>1, OtherCallsGoOn
    <3> QED
      BY <2>1, <3>1 DEF Agrees, FileAgrees
  <2>2. CASE InFile(DOMAIN AllSettings) \subseteq left'
    BY <2>2 DEF InFile
  <2> QED
    BY <2>1, <2>2
<1>4. PathsAgree'
  <2>1. "generated" \in DoneKeys(calls[u]) => <<"paths", "generated">> \in left'
    BY DEF LeftBy
  <2> QED
    BY <1>1, <1>2, <2>1, OtherCallsGoOn DEF Agrees, PathsAgree
<1>5. ScrapersAgree'
  <2>1. calls[u].refreshScraperCache => <<"scrapers", "scrapers_path">> \in left'
    BY DEF LeftBy
  <2> QED
    BY <1>1, <1>2, <2>1, OtherCallsGoOn DEF Agrees, ScrapersAgree
<1> QED
  BY <1>1, <1>3, <1>4, <1>5 DEF Agrees

LEMMA RefuseAgrees ==
  ASSUME CallsFit, Agrees, NEW u \in Users, NEW key, Refuse(u, key)
  PROVE  CallsFit' /\ Agrees'
BY LeftBehindAgrees DEF Refuse, settingVars

LEMMA WriteFailsAgrees ==
  ASSUME CallsFit, Agrees, NEW u \in Users, WriteFails(u)
  PROVE  CallsFit' /\ Agrees'
<1>1. PICK outcome \in Outcomes \ {"written"} :
        Write(AllSettings, outcome) /\ left' = left \cup LeftBy(calls[u]) \cup Unwritten(AllSettings, outcome)
  BY DEF WriteFails
<1>2. disk' = disk \/ InFile(DOMAIN AllSettings) \subseteq left'
  BY <1>1 DEF Write, Outcomes, Unwritten
<1>3. left \cup LeftBy(calls[u]) \subseteq left'
  BY <1>1
<1> QED
  BY <1>2, <1>3, LeftBehindAgrees DEF WriteFails

LEMMA AskForAgrees ==
  ASSUME CallsFit, Agrees, StageInv, NEW u \in Users, AskFor(u)
  PROVE  CallsFit' /\ Agrees'
<1>1. calls = [w \in Users |-> calls[w]] /\ \A w \in Users : CallFits(calls[w])
  BY DEF CallsFit
<1>2. PICK op \in DOMAIN plan.inputs : \E input \in plan.inputs[op] :
        calls' = [calls EXCEPT ![u] = [NoCall EXCEPT !.op = op, !.input = input, !.todo = StepsOf(op, input),
                                                     !.answer = "pending"]]
  BY DEF AskFor
<1>3. PICK input \in plan.inputs[op] :
        calls' = [calls EXCEPT ![u] = [NoCall EXCEPT !.op = op, !.input = input, !.todo = StepsOf(op, input),
                                                     !.answer = "pending"]]
  BY <1>2
<1>4. /\ calls' = [w \in Users |-> calls'[w]] /\ \A w \in Users \ {u} : calls'[w] = calls[w]
      /\ calls'[u] = [op |-> op, input |-> input, todo |-> StepsOf(op, input), refreshScraperCache |-> FALSE,
                      others |-> {}, answer |-> "pending"]
  BY <1>1, <1>3 DEF NoCall
<1>5. plan \in Plans
  BY <1>2 DEF StageInv, NoPlan
<1>6. op \in Requests /\ \A key \in Mandatory \cap DOMAIN input : input[key] # Unset
  BY <1>5, FileAssumption
<1>7. CallFits(calls'[u])
  <2>1. ASSUME NEW i \in StepsOf(op, input), OrderOf(op)[i] \notin Controls, NEW step \in Needs(OrderOf(op)[i])
        PROVE  step \in Named(calls'[u], StepsOf(op, input))
    <3>1. PICK j \in DOMAIN OrderOf(op) : OrderOf(op)[j] = step
      BY <1>6, <2>1, OrdersFit DEF OrderFits, StepsOf
    <3>2. step \in Controls
      BY DEF Needs, Controls
    <3> QED
      BY <1>4, <3>1, <3>2 DEF Named, StepsOf
  <2> DEFINE d == calls'[u]
  <2>2. /\ d.op = op /\ d.input = input /\ d.todo = StepsOf(op, input) /\ d.answer = "pending"
        /\ d = [op |-> d.op, input |-> d.input, todo |-> d.todo, refreshScraperCache |-> d.refreshScraperCache,
                others |-> d.others, answer |-> d.answer]
    BY <1>4
  <2> HIDE DEF d
  <2>3. \A i \in StepsOf(op, input) : OrderOf(op)[i] \notin Controls =>
          \A step \in Needs(OrderOf(op)[i]) : step \in Named(d, StepsOf(op, input))
    BY <2>1 DEF d
  <2>4. CallFits(d)
    BY <1>6, <2>2, <2>3 DEF CallFits, ToCome
  <2> QED
    BY <2>4 DEF d
<1>8. CallsFit'
  BY <1>1, <1>4, <1>7 DEF CallsFit
<1>9. \A step : ~ToCome(calls[u], step)
  BY <1>1, NothingToCome DEF AskFor, UnderWay, CallFits
<1>10. AllSettings' = AllSettings /\ \A key : GetString(key)' = GetString(key)
  BY DEF AskFor, settingVars, AllSettings, GetString, Get, Main, HasOverride
<1>11. UNCHANGED <<disk, live, left>>
  BY DEF AskFor, settingVars
<1>12. FileAgrees'
  BY <1>4, <1>9, <1>10, <1>11, OtherCallsGoOn DEF Agrees, FileAgrees
<1>13. PathsAgree' /\ ScrapersAgree'
  BY <1>4, <1>9, <1>10, <1>11, OtherCallsGoOn DEF Agrees, PathsAgree, ScrapersAgree
<1> QED
  BY <1>8, <1>12, <1>13 DEF Agrees

LEMMA ReplyAgrees ==
  ASSUME CallsFit, Agrees, NEW u \in Users, Reply(u)
  PROVE  CallsFit' /\ Agrees'
<1>1. calls = [w \in Users |-> calls[w]] /\ \A w \in Users : CallFits(calls[w])
  BY DEF CallsFit
<1>2. calls[u].todo = {} /\ calls' = [calls EXCEPT ![u].answer = "done"]
  BY DEF Reply
<1>3. [calls[u] EXCEPT !.todo = {}, !.answer = "done"] = [calls[u] EXCEPT !.answer = "done"]
  BY <1>1, <1>2 DEF CallFits
<1>4. GoesNoFurther(u, "done")
  <2>1. [calls EXCEPT ![u].todo = {}, ![u].answer = "done"]
        = [w \in Users |-> IF w = u THEN [calls[u] EXCEPT !.todo = {}, !.answer = "done"] ELSE calls[w]]
    BY <1>1
  <2>2. [calls EXCEPT ![u].answer = "done"]
        = [w \in Users |-> IF w = u THEN [calls[u] EXCEPT !.answer = "done"] ELSE calls[w]]
    BY <1>1
  <2> QED
    BY <1>2, <1>3, <2>1, <2>2 DEF GoesNoFurther
<1>5. CallsFit' /\ \A w \in Users \ {u} : calls'[w] = calls[w]
  BY <1>4, EndsFit
<1>6. \A step : ~ToCome(calls[u], step)
  BY <1>2, NothingToCome
<1>7. AllSettings' = AllSettings /\ UNCHANGED <<disk, live, left>> /\ \A key : GetString(key)' = GetString(key)
  BY DEF Reply, settingVars, AllSettings, GetString, Get, Main, HasOverride
<1>8. FileAgrees'
  BY <1>5, <1>6, <1>7, OtherCallsGoOn DEF Agrees, FileAgrees
<1>9. PathsAgree' /\ ScrapersAgree'
  BY <1>5, <1>6, <1>7, OtherCallsGoOn DEF Agrees, PathsAgree, ScrapersAgree
<1> QED
  BY <1>5, <1>8, <1>9 DEF Agrees

LEMMA WriteFileAgrees ==
  ASSUME CallsFit, Agrees, NEW u \in Users, WriteFile(u)
  PROVE  CallsFit' /\ Agrees'
<1>1. Moves(u, "write") /\ calls'[u].refreshScraperCache = calls[u].refreshScraperCache
  BY AdvancedMoves DEF WriteFile
<1>2. AllSettings' = AllSettings /\ disk' = AllSettings /\ \A key : GetString(key)' = GetString(key)
  BY DEF WriteFile, Write, AllSettings, GetString, Get, Main, HasOverride
<1>3. /\ live' = live
      /\ <<"paths", "generated">> \in left => <<"paths", "generated">> \in left'
      /\ <<"scrapers", "scrapers_path">> \in left => <<"scrapers", "scrapers_path">> \in left'
  BY DEF WriteFile
<1>4. FileAgrees'
  BY <1>2 DEF FileAgrees
<1>5. PathsAgree'
  BY <1>1, <1>2, <1>3, MovesOn DEF Agrees, PathsAgree
<1>6. ScrapersAgree'
  BY <1>1, <1>2, <1>3, MovesOn DEF Agrees, ScrapersAgree
<1> QED
  BY <1>1, <1>4, <1>5, <1>6, MovesOn DEF Agrees

LEMMA RefreshAgrees ==
  ASSUME CallsFit, Agrees, StageInv, NEW u \in Users, Refresh(u)
  PROVE  CallsFit' /\ Agrees'
<1>1. Moves(u, "refresh") /\ calls'[u].refreshScraperCache = calls[u].refreshScraperCache
  BY AdvancedMoves DEF Refresh
<1>2. AllSettings' = AllSettings /\ disk' = disk /\ \A key : GetString(key)' = GetString(key)
  BY DEF Refresh, settingVars, AllSettings, GetString, Get, Main, HasOverride
<1>3. /\ live'.paths = GetString("generated") /\ live'.scrapers = live.scrapers
      /\ \A key : <<"file", key>> \in left => <<"file", key>> \in left'
      /\ <<"scrapers", "scrapers_path">> \in left => <<"scrapers", "scrapers_path">> \in left'
  BY DEF Refresh, RefreshConfig, StageInv
<1>4. FileAgrees'
  <2>1. \A key : YetToWrite(key) => YetToWrite(key)'
    BY <1>1, MovesOn
  <2>2. \A key \in DOMAIN AllSettings :
          (key \in DOMAIN disk /\ disk[key] = AllSettings[key]) \/ <<"file", key>> \in left \/ YetToWrite(key)
    BY DEF Agrees, FileAgrees
  <2> QED
    BY <1>2, <1>3, <2>1, <2>2 DEF FileAgrees
<1>5. PathsAgree'
  BY <1>2, <1>3 DEF PathsAgree
<1>6. ScrapersAgree'
  BY <1>1, <1>2, <1>3, MovesOn DEF Agrees, ScrapersAgree
<1> QED
  BY <1>1, <1>4, <1>5, <1>6, MovesOn DEF Agrees

LEMMA RefreshScrapersMoves ==
  ASSUME CallsFit, NEW u \in Users, RefreshScrapers(u)
  PROVE  /\ Moves(u, "scrapers") /\ calls'[u].input = calls[u].input
         /\ \A w \in Users \ {u} : calls'[w] = calls[w]
<1>1. calls = [w \in Users |-> calls[w]] /\ \A w \in Users : CallFits(calls[w])
  BY DEF CallsFit
<1>2. Advanced(u)[u] = [calls[u] EXCEPT !.todo = {i \in @ : \E j \in @ : j < i}]
  BY <1>1 DEF Advanced
<1>3. /\ calls' = [w \in Users |-> calls'[w]] /\ \A w \in Users \ {u} : calls'[w] = calls[w]
      /\ calls'[u] = [Advanced(u)[u] EXCEPT !.refreshScraperCache = FALSE]
  BY <1>1 DEF RefreshScrapers, Advanced
<1>4. \A w \in Users \ {u} : calls'[w] = [calls[w] EXCEPT !.others = calls'[w].others]
  BY <1>1, <1>3 DEF CallFits
<1>5. Advanced(u)[u] = [op |-> calls[u].op, input |-> calls[u].input, todo |-> Rest(calls[u].todo),
                        refreshScraperCache |-> calls[u].refreshScraperCache,
                        others |-> calls[u].others, answer |-> calls[u].answer]
  BY <1>1, <1>2 DEF Rest, CallFits
<1>6. /\ calls'[u].input = calls[u].input /\ calls'[u].refreshScraperCache = FALSE
      /\ calls'[u] = [op |-> calls[u].op, input |-> calls'[u].input, todo |-> Rest(calls[u].todo),
                      refreshScraperCache |-> calls'[u].refreshScraperCache,
                      others |-> calls[u].others, answer |-> calls[u].answer]
  <2> DEFINE flag == FALSE
  <2>1. calls'[u] = [Advanced(u)[u] EXCEPT !.refreshScraperCache = flag]
    BY <1>3
  <2> HIDE DEF flag
  <2>2. /\ calls'[u].input = calls[u].input /\ calls'[u].refreshScraperCache = flag
        /\ calls'[u] = [op |-> calls[u].op, input |-> calls'[u].input, todo |-> Rest(calls[u].todo),
                        refreshScraperCache |-> calls'[u].refreshScraperCache,
                        others |-> calls[u].others, answer |-> calls[u].answer]
    BY <1>5, <2>1
  <2> QED
    BY <2>2 DEF flag
<1>7. /\ StepsOf(calls[u].op, calls'[u].input) = StepsOf(calls[u].op, calls[u].input)
      /\ \A key \in Mandatory \cap DOMAIN calls'[u].input : calls'[u].input[key] # Unset
  BY <1>1, <1>6 DEF CallFits
<1>8. Doing(u, "scrapers")
  BY DEF RefreshScrapers
<1> QED
  BY <1>3, <1>4, <1>6, <1>7, <1>8 DEF Moves

LEMMA RefreshScrapersAgrees ==
  ASSUME CallsFit, Agrees, StageInv, NEW u \in Users, RefreshScrapers(u)
  PROVE  CallsFit' /\ Agrees'
<1>1. Moves(u, "scrapers")
  BY RefreshScrapersMoves
<1>2. AllSettings' = AllSettings /\ disk' = disk /\ \A key : GetString(key)' = GetString(key)
  BY DEF RefreshScrapers, settingVars, AllSettings, GetString, Get, Main, HasOverride
<1>3. /\ \A key : <<"file", key>> \in left => <<"file", key>> \in left'
      /\ <<"paths", "generated">> \in left => <<"paths", "generated">> \in left'
      /\ live'.paths = live.paths
  BY DEF RefreshScrapers, RefreshScraperCache, StageInv
<1>4. FileAgrees'
  <2>1. \A key : YetToWrite(key) => YetToWrite(key)'
    BY <1>1, MovesOn
  <2>2. \A key \in DOMAIN AllSettings :
          (key \in DOMAIN disk /\ disk[key] = AllSettings[key]) \/ <<"file", key>> \in left \/ YetToWrite(key)
    BY DEF Agrees, FileAgrees
  <2> QED
    BY <1>2, <1>3, <2>1, <2>2 DEF FileAgrees
<1>5. PathsAgree'
  BY <1>1, <1>2, <1>3, MovesOn DEF Agrees, PathsAgree
<1>6. ScrapersAgree'
  <2>1. CASE calls[u].refreshScraperCache
    BY <1>2, <2>1 DEF RefreshScrapers, RefreshScraperCache, StageInv, ScrapersAgree
  <2>2. CASE ~calls[u].refreshScraperCache
    BY <1>1, <1>2, <2>2, MovesOn DEF RefreshScrapers, Agrees, ScrapersAgree
  <2> QED
    BY <2>1, <2>2
<1> QED
  BY <1>1, <1>4, <1>5, <1>6, MovesOn DEF Agrees

LEMMA ConfigureAgrees ==
  ASSUME CallsFit, Agrees, StageInv, NEW u \in Users, ConfigureStep(u)
  PROVE  CallsFit' /\ Agrees'
BY SkipAgrees, SetAgrees, RefuseAgrees, ReadUIAgrees, AskForAgrees, WriteFileAgrees, WriteFailsAgrees,
   RefreshAgrees, RefreshScrapersAgrees, ReplyAgrees DEF ConfigureStep

-----------------------------------------------------------------------------
(* What a server must have, under requests. *)

LEMMA ProvidedCanStart == ASSUME NEW f, Provided(f) PROVE CanStart(f, overrides)
BY DEF Provided, CanStart, HasOverride

\* A database is not set to nothing, nor is the directory of generated files.
LEMMA SetIsProvided ==
  ASSUME CallsFit, Provided(AllSettings), NEW u \in Users, NEW key, Set(u, key)
  PROVE  Provided(AllSettings)'
<1>1. UNCHANGED <<overrides, config, defaults>>
  BY DEF Set
<1> DEFINE input == calls[u].input
<1>2. key \in Mandatory => NewValue(key, input) = input[key]
  BY DEF NewValue, Mandatory
<1>3. /\ DOMAIN AllSettings' = DOMAIN AllSettings \cup {key} /\ AllSettings'[key] = NewValue(key, input)
      /\ \A k \in DOMAIN AllSettings \ {key} : AllSettings'[k] = AllSettings[k]
  BY <1>1, SetGives DEF Set
<1>4. key \in Mandatory => input[key] # ""
  BY FileNamesAssumption DEF Set, Accepted, ValidateDatabasePath, ValidateDir, EnsureDir, DirectoryKeys, Optional, Mandatory
<1>5. key \in Mandatory => key \in DOMAIN input
  <2>1. PICK i \in calls[u].todo : OrderOf(calls[u].op)[i] = key /\ key \notin Controls
    BY DEF Set, Doing
  <2>2. calls[u].todo \subseteq StepsOf(calls[u].op, calls[u].input)
    BY DEF CallsFit, CallFits
  <2>3. key \in SettingsIn(calls[u].op, calls[u].input)
    BY <2>1, <2>2 DEF StepsOf
  <2> QED
    BY <2>3 DEF SettingsIn, Mandatory
<1>6. key \in Mandatory => input[key] # Unset
  BY <1>5 DEF CallsFit, CallFits
<1> QED
  BY <1>1, <1>2, <1>3, <1>4, <1>6 DEF Provided, Given, HasOverride

LEMMA UsersConfigureKeepsConfig == ASSUME ConfigInv, UsersConfigure PROVE ConfigInv'
<1>1. PICK u \in Users : ConfigureStep(u)
  BY DEF UsersConfigure
<1>2. stage = "serving" /\ ~isNewSystem /\ UNCHANGED <<stage, task, reason, starts>>
  BY DEF UsersConfigure
<1>3. UNCHANGED <<overrides, config, defaults, isNewSystem, plan>>
  BY <1>1 DEF ConfigureStep, AskFor, ReadUI, WriteFile, WriteFails, Refresh, RefreshScrapers, Reply, Skip, Set, Refuse,
              settingVars
<1>4. InForce(AfterWrite) /\ InForce(AfterWrite \ {"refresh"}) /\ InForce(AfterWrite \ {"refresh", "scrapers"})
  BY <1>2 DEF InForce
<1>5. CallsFit' /\ Agrees'
  BY <1>1, <1>4, ConfigureAgrees DEF ConfigInv, AgreeInv, Agrees
<1>6. StageInv'
  BY <1>1, <1>2, <1>3 DEF ConfigInv, StageInv, ConfigureStep, AskFor, ReadUI, WriteFile, WriteFails, Refresh,
                          RefreshScrapers, Reply, Skip, Set, Refuse, RefreshConfig, RefreshScraperCache, Given
<1>7. task.job \notin {"boot", "setup"}
  BY <1>2 DEF ConfigInv, StageInv
<1>8. Provided(AllSettings)'
  <2>1. Provided(AllSettings)
    BY <1>4 DEF ConfigInv, StartInv
  <2>2. CASE \E key : Set(u, key)
    BY <2>1, <2>2, SetIsProvided DEF ConfigInv
  <2>3. CASE changed' = changed
    BY <1>3, <2>1, <2>3 DEF Provided, AllSettings, Given, HasOverride
  <2> QED
    BY <1>1, <2>2, <2>3 DEF ConfigureStep, AskFor, ReadUI, WriteFile, WriteFails, Refresh, RefreshScrapers, Reply,
                            Skip, Refuse, settingVars
<1>9. disk' = disk \/ disk' = <<>> \/ disk' = AllSettings
  BY <1>1 DEF ConfigureStep, AskFor, ReadUI, WriteFile, WriteFails, Refresh, RefreshScrapers, Reply, Skip, Set,
              Refuse, settingVars, Write, Outcomes
<1>10. ~emptied' /\ disk' # NoFile => CanStart(disk', overrides')
  <2>1. CASE disk' = disk
    BY <1>3, <2>1 DEF UsersConfigure, ConfigInv, StartInv
  <2>2. CASE disk' # disk
    <3>1. disk' = AllSettings \/ emptied'
      BY <1>9, <2>2 DEF UsersConfigure
    <3> QED
      BY <1>3, <1>4, <3>1, ProvidedCanStart DEF ConfigInv, StartInv
  <2> QED
    BY <2>1, <2>2
<1> QED
  BY <1>2, <1>5, <1>6, <1>7, <1>8, <1>10 DEF ConfigInv, AgreeInv, Agrees, StartInv

-----------------------------------------------------------------------------
(* The steps of a start, of the wizard and of a migration. *)

LEMMA StageGoesOn ==
  ASSUME StageInv, TaskFits(task), task.job # "none", UNCHANGED <<plan, overrides, isNewSystem>>,
         live' = [paths |-> live'.paths, scrapers |-> live'.scrapers],
         \/ Proceed /\ UNCHANGED stage
         \/ \E step : GoesTo(step) /\ UNCHANGED stage
         \/ \E why : GivesUp(why)
  PROVE  StageInv'
<1>1. CASE \E step : GoesTo(step) /\ UNCHANGED stage
  <2>1. PICK step : GoesTo(step) /\ UNCHANGED stage
    BY <1>1
  <2>2. task'.job = task.job /\ task'.input = task.input
    BY <2>1, GoesToGives
  <2> QED
    BY <2>1, <2>2 DEF StageInv, Given
<1>2. CASE \E why : GivesUp(why)
  <2>1. PICK why : GivesUp(why)
    BY <1>2
  <2>2. CASE task' = NoTask
    BY <2>1, <2>2, NoTaskFits DEF StageInv, GivesUp
  <2>3. CASE task.job = "migrate" /\ task' = [job |-> task.job, at |-> "restore", input |-> task.input]
    BY <2>1, <2>3 DEF StageInv, GivesUp
  <2> QED
    BY <2>1, <2>2, <2>3, GivesUpGives
<1> QED
  BY <1>1, <1>2 DEF Proceed

\* The three parts of AgreeInv are of these steps.
Agreed == {AfterWrite, AfterWrite \ {"refresh"}, AfterWrite \ {"refresh", "scrapers"}}

\* What of StartInv is about steps, is about these.
Checked == {"existing", "initialize", "validate", "initial", "settings", "write"}

LEMMA NothingConfigured ==
  ASSUME ConfigInv, StageInv', UNCHANGED <<overrides, changed, config, defaults, disk, calls, live, left, emptied>>,
         task'.at \notin Checked,
         \A steps \in Agreed : InForce(steps)' => InForce(steps),
         stage' = "failed" /\ reason' = "incomplete" => emptied
  PROVE  ConfigInv'
<1>1. CallsFit'
  BY DEF ConfigInv, CallsFit
<1>2. UNCHANGED AllSettings /\ \A key : GetString(key)' = GetString(key)
  BY DEF AllSettings, GetString, Get, Main, HasOverride
<1>3. /\ InForce(AfterWrite)' => InForce(AfterWrite)
      /\ InForce(AfterWrite \ {"refresh"})' => InForce(AfterWrite \ {"refresh"})
      /\ InForce(AfterWrite \ {"refresh", "scrapers"})' => InForce(AfterWrite \ {"refresh", "scrapers"})
  BY DEF Agreed
<1>4. FileAgrees => FileAgrees'
  BY <1>2 DEF FileAgrees, YetToWrite
<1>5. (PathsAgree => PathsAgree') /\ (ScrapersAgree => ScrapersAgree')
  BY <1>2 DEF PathsAgree, ScrapersAgree, YetToRefresh, ScrapersAwaited
<1>6. AgreeInv'
  BY <1>3, <1>4, <1>5 DEF ConfigInv, AgreeInv
<1>7. Provided(AllSettings) => Provided(AllSettings)'
  BY <1>2 DEF Provided, HasOverride, Given
<1>8. StartInv'
  BY <1>3, <1>7 DEF ConfigInv, StartInv, Checked
<1> QED
  BY <1>1, <1>6, <1>8 DEF ConfigInv

LEMMA NothingAtAll ==
  ASSUME ConfigInv, UNCHANGED <<settingVars, calls, live, left, emptied, plan, stage, task, reason>>
  PROVE  ConfigInv'
<1>1. CallsFit' /\ StageInv'
  BY DEF ConfigInv, CallsFit, StageInv, settingVars, Given
<1>2. AgreeInv'
  BY DEF ConfigInv, AgreeInv, settingVars, InForce, FileAgrees, PathsAgree, ScrapersAgree, YetToWrite, YetToRefresh,
         ScrapersAwaited, AllSettings, GetString, Get, Main, HasOverride
<1>3. StartInv'
  <2>1. AllSettings' = AllSettings /\ DefaultValues' = DefaultValues
    BY DEF settingVars, AllSettings, DefaultValues, Main
  <2>2. Provided(AllSettings)' <=> Provided(AllSettings)
    BY <2>1 DEF Provided, Given, HasOverride, settingVars
  <2>3. Provided(changed)' <=> Provided(changed)
    BY DEF Provided, Given, HasOverride, settingVars
  <2>4. InForce(AfterWrite)' <=> InForce(AfterWrite)
    BY DEF InForce, settingVars
  <2> QED
    BY <2>1, <2>2, <2>3, <2>4 DEF ConfigInv, StartInv, settingVars, Given, HasOverride
<1> QED
  BY <1>1, <1>2, <1>3 DEF ConfigInv

LEMMA NotInForce ==
  ASSUME stage' # "serving" \/ isNewSystem', task'.at \notin AfterWrite
  PROVE  AgreeInv' /\ ~InForce(AfterWrite)'
BY DEF InForce, AgreeInv

LEMMA InitializeConfigures == ASSUME ConfigInv, DataInv, Initialize PROVE ConfigInv'
<1>1. UNCHANGED <<overrides, disk, calls, live, left, plan, reason, emptied>> /\ changed' = <<>> /\ defaults' = <<>>
  BY DEF Initialize, ReadConfig, configureVars
<1>2. /\ config' = (IF disk = NoFile THEN <<>> ELSE disk)
      /\ isNewSystem' = (disk = NoFile /\ ~InitialisedByEnvironment)
  BY DEF Initialize, ReadConfig
<1>3. CallsFit'
  BY <1>1 DEF ConfigInv, CallsFit
<1>4. /\ isNewSystem' => stage' = "serving" /\ task' = NoTask
      /\ ~isNewSystem' => stage' = "starting" /\ task' = [job |-> "boot", at |-> "existing", input |-> <<>>]
  BY <1>2 DEF Initialize, NoTask
<1>5. StageInv'
  <2>1. isNewSystem' \in BOOLEAN
    BY <1>2
  <2> QED
    BY <1>1, <1>4, <2>1, NoTaskFits DEF ConfigInv, StageInv
<1>6. (stage' # "serving" \/ isNewSystem') /\ task'.at \notin AfterWrite
  <2>1. CASE isNewSystem'
    BY <1>4, <2>1, NoTaskFits DEF AfterWrite, MigrationPart
  <2>2. CASE ~isNewSystem'
    <3>1. stage' = "starting" /\ task'.at = "existing"
      BY <1>4, <2>2
    <3> QED
      BY <3>1 DEF AfterWrite, MigrationPart
  <2> QED
    BY <2>1, <2>2
<1>7. AgreeInv' /\ ~InForce(AfterWrite)'
  BY <1>6, NotInForce
<1>8. ~isNewSystem' /\ ~emptied => CanStart(config', overrides)
  <2>1. CASE disk = NoFile
    BY <1>2, <2>1 DEF CanStart, InitialisedByEnvironment
  <2>2. CASE disk # NoFile
    BY <1>2, <2>2 DEF ConfigInv, StartInv
  <2> QED
    BY <2>1, <2>2
<1>9. DOMAIN changed' = {} /\ DOMAIN defaults' = {}
  BY <1>1
<1>10. StartInv'
  <2>1. CASE isNewSystem'
    BY <1>1, <1>4, <1>7, <2>1, NoTaskFits DEF ConfigInv, StartInv
  <2>2. CASE ~isNewSystem'
    BY <1>1, <1>4, <1>7, <1>8, <1>9, <2>2 DEF ConfigInv, StartInv
  <2> QED
    BY <2>1, <2>2
<1> QED
  BY <1>3, <1>5, <1>7, <1>10 DEF ConfigInv

\* Whether a server starts with a file shows in these settings of it.
LEMMA SameToStart ==
  ASSUME NEW f, NEW g, NEW environment,
         \A key \in {"database", "generated", "metadata"} :
           (key \in DOMAIN f <=> key \in DOMAIN g) /\ (key \in DOMAIN f => g[key] = f[key])
  PROVE  CanStart(f, environment) => CanStart(g, environment)
BY DEF CanStart, Given, Mandatory

\* What a failed write may leave.
LEMMA SavedGives ==
  ASSUME NEW settings, NEW outcome \in Outcomes, Write(settings, outcome), Saved(settings, outcome)
  PROVE  /\ \A key \in DOMAIN settings :
              (key \in DOMAIN disk' /\ disk'[key] = settings[key]) \/ <<"file", key>> \in left'
         /\ <<"paths", "generated">> \in left => <<"paths", "generated">> \in left'
         /\ <<"scrapers", "scrapers_path">> \in left => <<"scrapers", "scrapers_path">> \in left'
         /\ ~emptied' => disk' = settings \/ (disk' = disk /\ ~emptied)
         /\ ~emptied' /\ task.at \in {"existing", "initialize"} => ~emptied
<1>1. CASE outcome = "written"
  BY <1>1 DEF Write, Saved, Restored
<1>2. CASE outcome # "written"
  <2>1. left' = left \cup InFile({key \in DOMAIN settings :
                                   outcome = "emptied" \/ disk = NoFile
                                   \/ key \notin DOMAIN disk \/ disk[key] # settings[key]})
    BY <1>2 DEF Saved
  <2>2. outcome = "failed" => disk' = disk
    BY DEF Write
  <2>3. outcome = "emptied" \/ outcome = "failed"
    BY <1>2 DEF Outcomes
  <2>4. \A key \in DOMAIN settings :
          (key \in DOMAIN disk' /\ disk'[key] = settings[key]) \/ <<"file", key>> \in left'
    BY <2>1, <2>2, <2>3 DEF InFile
  <2>5. emptied' <=> (outcome = "emptied" \/ emptied)
    BY <1>2 DEF Saved, Restored
  <2> QED
    BY <2>1, <2>2, <2>3, <2>4, <2>5
<1> QED
  BY <1>1, <1>2

LEMMA ExistingDefaultsConfigure == ASSUME ConfigInv, DataInv, SetsExistingDefaults PROVE ConfigInv'
<1>1. task.at = "existing" /\ task.job = "boot" /\ stage = "starting" /\ TaskFits(task)
  BY DEF SetsExistingDefaults, Upcoming, DataInv, ServerInv, TaskFits, BootPart, SetupPart, MigrationPart,
         ConfigInv, StageInv
<1>2. PICK outcome \in Outcomes :
        /\ outcome # "written" => ExistingSystemDefaults # <<>>
        /\ SetExistingSystemDefaults(outcome) /\ Saved(Over(ExistingSystemDefaults, AllSettings), outcome)
        /\ IF outcome = "written" THEN Proceed /\ UNCHANGED <<stage, reason>> ELSE GivesUp("configuration")
  BY DEF SetsExistingDefaults
<1>3. UNCHANGED <<plan, calls, live, overrides, config, defaults, isNewSystem>>
  BY <1>2 DEF SetsExistingDefaults, SetExistingSystemDefaults
<1>4. CallsFit'
  BY <1>3 DEF ConfigInv, CallsFit
<1>5. StageInv'
  <2>1. (Proceed /\ UNCHANGED stage) \/ GivesUp("configuration")
    BY <1>2
  <2> QED
    BY <1>1, <1>3, <2>1, StageGoesOn DEF ConfigInv, StageInv
<1>6. \/ task' = [job |-> "boot", at |-> "initialize", input |-> task.input] /\ stage' = stage
      \/ task' = NoTask /\ stage' = "failed" /\ reason' = "configuration"
  BY <1>1, <1>2, TaskOrder, GoesToGives DEF Proceed, GivesUp
<1>7. stage' # "serving" /\ task'.at \notin AfterWrite
  <2>1. stage' # "serving"
    BY <1>1, <1>6
  <2>2. task'.at \in {"initialize", "none"}
    BY <1>6, NoTaskFits
  <2> QED
    BY <2>1, <2>2 DEF AfterWrite, MigrationPart
<1>8. AgreeInv' /\ ~InForce(AfterWrite)'
  BY <1>7, NotInForce
<1>9. DOMAIN changed \cap {"database", "generated", "metadata"} = {} /\ DOMAIN defaults = {}
  BY <1>1 DEF ConfigInv, StartInv
<1>10. DOMAIN changed' \cap {"database", "generated", "metadata"} = {}
  BY <1>2, <1>9 DEF SetExistingSystemDefaults, ExistingSystemDefaults, Over
<1>11. ~emptied' => ~emptied /\ (disk' = disk \/ disk' = Over(ExistingSystemDefaults, AllSettings))
  <2>1. ~emptied' => ~emptied
    BY <1>1, <1>2 DEF Saved, Restored
  <2>2. CASE ExistingSystemDefaults = <<>>
    BY <1>2, <2>1, <2>2 DEF SetExistingSystemDefaults
  <2>3. CASE ExistingSystemDefaults # <<>>
    <3>1. Write(Over(ExistingSystemDefaults, AllSettings), outcome)
      BY <1>2, <2>3 DEF SetExistingSystemDefaults
    <3> QED
      BY <1>2, <2>1, <3>1, SavedGives
  <2> QED
    BY <2>2, <2>3
<1>12. ~emptied => CanStart(config, overrides)
  BY <1>1 DEF ConfigInv, StartInv
<1>13. CanStart(config, overrides) => CanStart(Over(ExistingSystemDefaults, AllSettings), overrides)
  <2> DEFINE all == Over(ExistingSystemDefaults, AllSettings)
  <2>1. \A key \in {"database", "generated", "metadata"} :
          (key \in DOMAIN config <=> key \in DOMAIN all) /\ (key \in DOMAIN config => all[key] = config[key])
    BY <1>9 DEF AllSettings, ExistingSystemDefaults, Over
  <2> QED
    BY <2>1, SameToStart
<1>14. ~emptied' /\ disk' # NoFile => CanStart(disk', overrides')
  BY <1>3, <1>11, <1>12, <1>13 DEF ConfigInv, StartInv
<1>15. StartInv'
  BY <1>1, <1>3, <1>6, <1>8, <1>9, <1>10, <1>11, <1>12, <1>14, NoTaskFits DEF StartInv
<1> QED
  BY <1>4, <1>5, <1>8, <1>15 DEF ConfigInv

\* The settings of a new system, set over those that there are.
LEMMA InitialGives ==
  ASSUME NEW outcome, SetInitialConfig(outcome)
  PROVE  /\ AllSettings' = InitialSettings
         /\ "generated" \in DOMAIN defaults' /\ defaults'["generated"] = DefaultValues.generated
         /\ DefaultValues'.generated = DefaultValues.generated
         /\ \A key \in DOMAIN changed : key \notin {"jwt_secret_key", "session_store_key"} =>
              key \in DOMAIN InitialSettings /\ InitialSettings[key] = changed[key]
         /\ \A key \in DOMAIN config \ DOMAIN changed : key \notin {"jwt_secret_key", "session_store_key"} =>
              key \in DOMAIN InitialSettings /\ InitialSettings[key] = config[key]
         /\ \A key \in DOMAIN DefaultValues \ (DOMAIN changed \cup DOMAIN config) :
              key \in DOMAIN InitialSettings /\ InitialSettings[key] = DefaultValues[key]
<1>1. changed' = Over(GeneratedKeys, changed) /\ defaults' = Over(DefaultValues, defaults) /\ config' = config
  BY DEF SetInitialConfig
<1>2. AllSettings' = InitialSettings
  BY <1>1 DEF AllSettings, InitialSettings
<1>3. DOMAIN GeneratedKeys \subseteq {"jwt_secret_key", "session_store_key"}
  BY DEF GeneratedKeys
<1>4. "generated" \in DOMAIN DefaultValues /\ "metadata" \notin DOMAIN DefaultValues
  BY DEF DefaultValues
<1>5. "generated" \in DOMAIN defaults' /\ defaults'["generated"] = DefaultValues.generated
  BY <1>1, <1>4 DEF Over
<1>6. \A key \in DOMAIN DefaultValues : key \notin {"jwt_secret_key", "session_store_key"}
  BY DEF DefaultValues
<1>7. /\ "metadata" \in DOMAIN AllSettings' <=> "metadata" \in DOMAIN AllSettings
      /\ "metadata" \in DOMAIN AllSettings => AllSettings'["metadata"] = AllSettings["metadata"]
  BY <1>1, <1>3, <1>4 DEF AllSettings, Over
<1>8. DefaultValues'.generated = DefaultValues.generated
  <2>1. DefaultValues.generated =
          IF "metadata" \notin DOMAIN AllSettings \/ AllSettings["metadata"] = Unset THEN "" ELSE AllSettings["metadata"]
    BY DEF DefaultValues, Main
  <2>2. DefaultValues'.generated =
          IF "metadata" \notin DOMAIN AllSettings' \/ AllSettings'["metadata"] = Unset THEN ""
          ELSE AllSettings'["metadata"]
    BY DEF DefaultValues, Main
  <2> QED
    BY <1>7, <2>1, <2>2
<1>9. /\ \A key \in DOMAIN changed : key \notin {"jwt_secret_key", "session_store_key"} =>
           key \in DOMAIN InitialSettings /\ InitialSettings[key] = changed[key]
      /\ \A key \in DOMAIN config \ DOMAIN changed : key \notin {"jwt_secret_key", "session_store_key"} =>
           key \in DOMAIN InitialSettings /\ InitialSettings[key] = config[key]
  BY <1>3 DEF InitialSettings, Over
<1>10. \A key \in DOMAIN DefaultValues \ (DOMAIN changed \cup DOMAIN config) :
         key \in DOMAIN InitialSettings /\ InitialSettings[key] = DefaultValues[key]
  BY <1>3, <1>6 DEF InitialSettings, Over
<1> QED
  BY <1>2, <1>5, <1>8, <1>9, <1>10

LEMMA DefaultsGive ==
  /\ Mandatory \subseteq DOMAIN DefaultValues
  /\ DefaultValues["database"] \notin {"", Unset}
  /\ DefaultValues["generated"] = IF Main("metadata") = Unset THEN "" ELSE Main("metadata")
<1>1. "database" \in DOMAIN DefaultValues /\ "generated" \in DOMAIN DefaultValues
  BY DEF DefaultValues
<1>2. DefaultValues["database"] = "stash-go.sqlite"
  BY DEF DefaultValues
<1>3. DefaultValues["generated"] = IF Main("metadata") = Unset THEN "" ELSE Main("metadata")
  BY DEF DefaultValues
<1> QED
  BY <1>1, <1>2, <1>3, UnsetAssumption DEF Mandatory

LEMMA InitialIsProvided ==
  ASSUME NEW outcome, SetInitialConfig(outcome),
         \/ Provided(changed)
         \/ /\ DOMAIN changed \cap {"database", "generated", "metadata"} = {} /\ DOMAIN defaults = {}
            /\ CanStart(config, overrides)
         \/ /\ Provided(AllSettings)
            /\ "generated" \in DOMAIN defaults /\ defaults["generated"] = DefaultValues.generated
  PROVE  Provided(InitialSettings)
<1>1. \A key \in Mandatory \cap DOMAIN changed : key \in DOMAIN InitialSettings /\ InitialSettings[key] = changed[key]
  BY InitialGives DEF Mandatory
<1>2. \A key \in Mandatory : key \in DOMAIN config /\ key \notin DOMAIN changed =>
        key \in DOMAIN InitialSettings /\ InitialSettings[key] = config[key]
  BY InitialGives DEF Mandatory
<1>3. Mandatory \subseteq DOMAIN DefaultValues
  BY DefaultsGive
<1>4. \A key \in Mandatory : key \notin DOMAIN config /\ key \notin DOMAIN changed =>
        key \in DOMAIN InitialSettings /\ InitialSettings[key] = DefaultValues[key]
  BY <1>3, InitialGives
<1>5. DefaultValues["database"] \notin {"", Unset}
  BY DefaultsGive
<1> SUFFICES ASSUME NEW key \in Mandatory, ~HasOverride(key) PROVE Given(InitialSettings, key)
  BY DEF Provided
<1>6. CASE Provided(changed)
  BY <1>1, <1>6 DEF Provided, Given
<1>7. CASE /\ DOMAIN changed \cap {"database", "generated", "metadata"} = {} /\ DOMAIN defaults = {}
           /\ CanStart(config, overrides)
  <2>1. key \notin DOMAIN changed
    BY <1>7 DEF Mandatory
  <2>2. CASE key \in DOMAIN config
    BY <1>2, <1>7, <2>1, <2>2 DEF CanStart, Given, HasOverride
  <2>3. CASE key \notin DOMAIN config /\ key = "database"
    BY <1>4, <1>5, <2>1, <2>3 DEF Given
  <2>4. CASE key \notin DOMAIN config /\ key = "generated"
    <3>1. Given(config, "metadata")
      BY <1>7, <2>4 DEF CanStart, HasOverride, Given
    <3>2. Main("metadata") = config["metadata"] /\ config["metadata"] \notin {"", Unset}
      BY <1>7, <3>1 DEF Main, AllSettings, Over, Given
    <3>3. DefaultValues["generated"] = IF Main("metadata") = Unset THEN "" ELSE Main("metadata")
      BY DefaultsGive
    <3>4. DefaultValues["generated"] \notin {"", Unset}
      BY <3>2, <3>3
    <3> QED
      BY <1>4, <2>1, <2>4, <3>4 DEF Given
  <2> QED
    BY <2>2, <2>3, <2>4 DEF Mandatory
<1>8. CASE /\ Provided(AllSettings)
           /\ "generated" \in DOMAIN defaults /\ defaults["generated"] = DefaultValues.generated
  <2>1. key \in DOMAIN AllSettings /\ AllSettings[key] \notin {"", Unset}
    BY <1>8 DEF Provided, Given
  <2>2. CASE key \in DOMAIN changed
    BY <1>1, <2>1, <2>2 DEF AllSettings, Over, Given
  <2>3. CASE key \notin DOMAIN changed /\ key \in DOMAIN config
    BY <1>2, <2>1, <2>3 DEF AllSettings, Over, Given
  <2>4. CASE key \notin DOMAIN changed \cup DOMAIN config /\ key = "database"
    BY <1>4, <1>5, <2>4 DEF Given
  <2>5. CASE key \notin DOMAIN changed \cup DOMAIN config /\ key = "generated"
    <3>1. AllSettings[key] = DefaultValues.generated
      BY <1>8, <2>5 DEF AllSettings, Over
    <3> QED
      BY <1>4, <2>1, <2>5, <3>1 DEF Given
  <2> QED
    BY <2>2, <2>3, <2>4, <2>5 DEF Mandatory
<1> QED
  BY <1>6, <1>7, <1>8

LEMMA FirstInitialConfigures == ASSUME ConfigInv, DataInv, SetsInitialConfig("initialize") PROVE ConfigInv'
<1>1. task.at = "initialize" /\ task.job = "boot" /\ stage = "starting" /\ TaskFits(task)
  BY DEF SetsInitialConfig, Upcoming, DataInv, ServerInv, TaskFits, BootPart, SetupPart, MigrationPart,
         ConfigInv, StageInv
<1>2. PICK outcome \in Outcomes :
        /\ SetInitialConfig(outcome) /\ Saved(InitialSettings, outcome)
        /\ IF outcome = "written" THEN Proceed /\ UNCHANGED <<stage, reason>> ELSE GivesUp("configuration")
  BY DEF SetsInitialConfig
<1>3. UNCHANGED <<plan, calls, live, overrides, config, isNewSystem>> /\ Write(InitialSettings, outcome)
  BY <1>2 DEF SetsInitialConfig, SetInitialConfig
<1>4. CallsFit'
  BY <1>3 DEF ConfigInv, CallsFit
<1>5. StageInv'
  <2>1. (Proceed /\ UNCHANGED stage) \/ GivesUp("configuration")
    BY <1>2
  <2> QED
    BY <1>1, <1>3, <2>1, StageGoesOn DEF ConfigInv, StageInv
<1>6. \/ task' = [job |-> "boot", at |-> "validate", input |-> task.input] /\ stage' = stage
      \/ task' = NoTask /\ stage' = "failed" /\ reason' = "configuration"
  BY <1>1, <1>2, TaskOrder, GoesToGives DEF Proceed, GivesUp
<1>7. stage' # "serving" /\ task'.at \in {"validate", "none"}
  BY <1>1, <1>6, NoTaskFits
<1>8. AgreeInv' /\ ~InForce(AfterWrite)'
  BY <1>7, NotInForce DEF AfterWrite, MigrationPart
<1>9. ~emptied => Provided(InitialSettings)
  <2>1. /\ DOMAIN changed \cap {"database", "generated", "metadata"} = {} /\ DOMAIN defaults = {}
        /\ ~emptied => CanStart(config, overrides)
    BY <1>1 DEF ConfigInv, StartInv
  <2> QED
    BY <1>2, <2>1, InitialIsProvided
<1>10. AllSettings' = InitialSettings /\ "generated" \in DOMAIN defaults' /\ defaults'["generated"] = DefaultValues'.generated
  BY <1>2, InitialGives
<1>11. ~emptied' => ~emptied /\ (disk' = InitialSettings \/ disk' = disk)
  BY <1>1, <1>2, <1>3, SavedGives
<1>12. ~emptied' => Provided(AllSettings)'
  BY <1>3, <1>9, <1>10, <1>11 DEF Provided, HasOverride, Given
<1>13. ~emptied' /\ disk' # NoFile => CanStart(disk', overrides')
  <2>1. ~emptied' => CanStart(InitialSettings, overrides)
    BY <1>9, <1>11, ProvidedCanStart
  <2> QED
    BY <1>3, <1>11, <2>1 DEF ConfigInv, StartInv
<1>14. StartInv'
  BY <1>1, <1>6, <1>8, <1>10, <1>12, <1>13, NoTaskFits DEF StartInv
<1> QED
  BY <1>4, <1>5, <1>8, <1>14 DEF ConfigInv

LEMMA ValidateConfigures == ASSUME ConfigInv, DataInv, Validate PROVE ConfigInv'
<1>1. task.at = "validate" /\ task.job = "boot" /\ stage = "starting" /\ TaskFits(task)
  BY DEF Validate, Upcoming, DataInv, ServerInv, TaskFits, BootPart, SetupPart, MigrationPart, ConfigInv, StageInv
<1>2. UNCHANGED <<overrides, changed, config, defaults, disk, isNewSystem, plan, calls, live, left, emptied>>
  BY DEF Validate, settingVars, configureVars
<1>3. CallsFit'
  BY <1>2 DEF ConfigInv, CallsFit
<1>4. StageInv'
  <2>1. (Proceed /\ UNCHANGED stage) \/ GivesUp("incomplete")
    BY DEF Validate
  <2> QED
    BY <1>1, <1>2, <2>1, StageGoesOn DEF ConfigInv, StageInv
<1>5. \/ /\ task' = [job |-> "boot", at |-> "initial", input |-> task.input] /\ stage' = stage
         /\ Provided(AllSettings)
      \/ task' = NoTask /\ stage' = "failed" /\ ~Provided(AllSettings)
  BY <1>1, TaskOrder, GoesToGives, MissingIsNotProvided DEF Validate, Proceed, GivesUp, ConfigInv
<1>6. stage' # "serving" /\ task'.at \in {"initial", "none"}
  BY <1>1, <1>5, NoTaskFits
<1>7. AgreeInv' /\ ~InForce(AfterWrite)'
  BY <1>6, NotInForce DEF AfterWrite, MigrationPart
<1>8. UNCHANGED AllSettings /\ (Provided(AllSettings)' <=> Provided(AllSettings))
  BY <1>2 DEF AllSettings, Provided, HasOverride, Given
<1>9. "generated" \in DOMAIN defaults' /\ defaults'["generated"] = DefaultValues'.generated
  <2>1. DefaultValues' = DefaultValues
    BY <1>8 DEF DefaultValues, Main
  <2> QED
    BY <1>1, <1>2, <2>1 DEF ConfigInv, StartInv
<1>10. ~Provided(AllSettings) => emptied'
  BY <1>1, <1>2 DEF ConfigInv, StartInv
<1>11. ~emptied' /\ disk' # NoFile => CanStart(disk', overrides')
  BY <1>2 DEF ConfigInv, StartInv
<1>12. StartInv'
  BY <1>1, <1>5, <1>7, <1>8, <1>9, <1>10, <1>11, NoTaskFits DEF StartInv
<1> QED
  BY <1>3, <1>4, <1>7, <1>12 DEF ConfigInv

LEMMA SecondInitialConfigures == ASSUME ConfigInv, DataInv, SetsInitialConfig("initial") PROVE ConfigInv'
<1>1. task.at = "initial" /\ task.job \in {"boot", "setup"} /\ TaskFits(task)
  BY DEF SetsInitialConfig, Upcoming, DataInv, ServerInv, TaskFits, BootPart, SetupPart, MigrationPart
<1>2. PICK outcome \in Outcomes :
        SetInitialConfig(outcome) /\ Saved(InitialSettings, outcome) /\ Proceed /\ UNCHANGED <<stage, reason>>
  BY DEF SetsInitialConfig
<1>3. UNCHANGED <<plan, calls, live, overrides, config, isNewSystem>> /\ Write(InitialSettings, outcome)
  BY <1>2 DEF SetsInitialConfig, SetInitialConfig
<1>4. CallsFit'
  BY <1>3 DEF ConfigInv, CallsFit
<1>5. StageInv'
  BY <1>1, <1>2, <1>3, StageGoesOn DEF ConfigInv, StageInv
<1>6. task' = [job |-> task.job, at |-> "refresh", input |-> task.input] /\ UNCHANGED <<stage, reason>>
  BY <1>1, <1>2, TaskOrder, GoesToGives DEF Proceed
<1>7. stage # "serving" \/ isNewSystem
  BY <1>1 DEF ConfigInv, StageInv
<1>8. AllSettings' = InitialSettings
  BY <1>2, InitialGives
<1>9. FileAgrees'
  BY <1>2, <1>3, <1>8, SavedGives DEF FileAgrees
<1>10. ~InForce(AfterWrite \ {"refresh"})' /\ ~InForce(AfterWrite \ {"refresh", "scrapers"})'
  BY <1>3, <1>6, <1>7 DEF InForce
<1>11. Provided(InitialSettings)
  <2>1. CASE task.job = "boot"
    BY <1>1, <1>2, <2>1, InitialIsProvided DEF ConfigInv, StartInv
  <2>2. CASE task.job = "setup"
    BY <1>1, <1>2, <2>2, InitialIsProvided DEF ConfigInv, StartInv
  <2> QED
    BY <1>1, <2>1, <2>2
<1>12. Provided(AllSettings)'
  BY <1>3, <1>8, <1>11 DEF Provided, HasOverride, Given
<1>13. ~emptied' /\ disk' # NoFile => CanStart(disk', overrides')
  <2>1. ~emptied' => disk' = InitialSettings \/ (disk' = disk /\ ~emptied)
    BY <1>2, <1>3, SavedGives
  <2> QED
    BY <1>3, <1>11, <2>1, ProvidedCanStart DEF ConfigInv, StartInv
<1>14. StartInv'
  <2>1. stage' # "failed"
    BY <1>1, <1>6 DEF ConfigInv, StageInv
  <2> QED
    BY <1>6, <1>12, <1>13, <2>1 DEF StartInv
<1> QED
  BY <1>4, <1>5, <1>9, <1>10, <1>14 DEF ConfigInv, AgreeInv

LEMMA MakesAnewConfigures == ASSUME ConfigInv, DataInv, MakesAnew PROVE ConfigInv'
<1>1. task.at \in {"refresh", "scrapers"} /\ task.job \in {"boot", "setup"} /\ TaskFits(task)
  BY DEF MakesAnew, Upcoming, DataInv, ServerInv, TaskFits, BootPart, SetupPart, MigrationPart
<1>2. Proceed /\ UNCHANGED <<settingVars, plan, calls, emptied, stage, reason>>
  BY DEF MakesAnew, StepsOnly
<1>3. CallsFit'
  BY <1>2 DEF ConfigInv, CallsFit
<1>4. live' = [paths |-> live'.paths, scrapers |-> live'.scrapers]
  BY DEF MakesAnew, RefreshConfig, RefreshScraperCache, ConfigInv, StageInv
<1>5. StageInv'
  BY <1>1, <1>2, <1>4, StageGoesOn DEF ConfigInv, settingVars
<1>6. task' = [job |-> task.job, at |-> Following(task.at), input |-> task.input]
  BY <1>1, <1>2, GoesToGives DEF Proceed
<1>7. stage # "serving" \/ isNewSystem
  BY <1>1 DEF ConfigInv, StageInv
<1>8. UNCHANGED <<AllSettings, disk>> /\ \A key : GetString(key)' = GetString(key)
  BY <1>2 DEF settingVars, AllSettings, GetString, Get, Main, HasOverride
<1>9. InForce(AfterWrite) /\ FileAgrees /\ Provided(AllSettings)
  BY <1>1 DEF InForce, AfterWrite, ConfigInv, AgreeInv, StartInv
<1>10. FileAgrees'
  <2>1. \A key : <<"file", key>> \in left => <<"file", key>> \in left'
    BY DEF MakesAnew, RefreshConfig, RefreshScraperCache
  <2>2. \A key : YetToWrite(key)' <=> YetToWrite(key)
    BY <1>2 DEF YetToWrite
  <2> QED
    BY <1>8, <1>9, <2>1, <2>2 DEF FileAgrees
<1>11. Provided(AllSettings)'
  BY <1>2, <1>8, <1>9 DEF Provided, HasOverride, Given, settingVars
<1>12. StartInv'
  <2>1. task'.at \notin Checked
    BY <1>1, <1>6, TaskOrder DEF Checked
  <2>2. stage' # "failed"
    BY <1>1, <1>2 DEF ConfigInv, StageInv
  <2>3. ~emptied' /\ disk' # NoFile => CanStart(disk', overrides')
    BY <1>2 DEF settingVars, ConfigInv, StartInv
  <2> QED
    BY <1>11, <2>1, <2>2, <2>3 DEF StartInv, Checked
<1>13. CASE task.at = "refresh"
  <2>1. task'.at = "scrapers" /\ PathsAgree'
    BY <1>6, <1>8, <1>13, TaskOrder DEF MakesAnew, Upcoming, RefreshConfig, PathsAgree, ConfigInv, StageInv
  <2>2. ~InForce(AfterWrite \ {"refresh", "scrapers"})'
    BY <1>2, <1>7, <2>1 DEF InForce, settingVars
  <2> QED
    BY <1>3, <1>5, <1>10, <1>12, <2>1, <2>2 DEF ConfigInv, AgreeInv
<1>14. CASE task.at = "scrapers"
  <2>1. InForce(AfterWrite \ {"refresh"}) /\ RefreshScraperCache
    BY <1>1, <1>14 DEF InForce, AfterWrite, MakesAnew, Upcoming
  <2>2. PathsAgree
    BY <2>1 DEF ConfigInv, AgreeInv
  <2>3. PathsAgree'
    BY <1>2, <1>8, <2>1, <2>2 DEF PathsAgree, YetToRefresh, RefreshScraperCache, ConfigInv, StageInv
  <2>4. ScrapersAgree'
    BY <1>8, <2>1 DEF ScrapersAgree, RefreshScraperCache, ConfigInv, StageInv
  <2> QED
    BY <1>3, <1>5, <1>10, <1>12, <2>3, <2>4 DEF ConfigInv, AgreeInv
<1> QED
  BY <1>1, <1>13, <1>14

\* The steps of the wizard up to its first write.
LEMMA WizardConfigures == ASSUME ConfigInv, DataInv, TouchConfig \/ MakeGenerated \/ SetUpSettings PROVE ConfigInv'
<1>1. task.at \in {"location", "generated", "settings"} /\ task.job = "setup" /\ TaskFits(task)
  BY DEF TouchConfig, MakeGenerated, SetUpSettings, Upcoming, DataInv, ServerInv, TaskFits, BootPart, SetupPart,
         MigrationPart
<1>2. /\ (Proceed /\ UNCHANGED <<stage, reason>>) \/ (GivesUp("directory") /\ UNCHANGED changed)
      /\ UNCHANGED <<overrides, config, defaults, isNewSystem, plan, calls, live, left>>
  BY DEF TouchConfig, MakeGenerated, SetUpSettings, StepsOnly, configureVars
<1>3. stage = "serving" /\ isNewSystem /\ \A key \in Mandatory : Given(task.input, key)
  BY <1>1 DEF ConfigInv, StageInv
<1>4. CallsFit'
  BY <1>2 DEF ConfigInv, CallsFit
<1>5. StageInv'
  BY <1>1, <1>2, StageGoesOn DEF ConfigInv, StageInv
<1>6. \/ task'.at = "none" /\ task'.job = "none"
      \/ /\ task'.job = "setup"
         /\ \/ task.at = "location" /\ task'.at = "generated"
            \/ task.at = "generated" /\ task'.at = "settings"
            \/ task.at = "settings" /\ task'.at = "write"
  <2>1. CASE GivesUp("directory")
    BY <1>1, <2>1, GivesUpGives, NoTaskFits
  <2>2. CASE Proceed
    <3>1. task' = [job |-> task.job, at |-> Following(task.at), input |-> task.input]
      BY <1>1, <2>2, GoesToGives DEF Proceed
    <3>2. task'.job = "setup" /\ task'.at = Following(task.at)
      BY <1>1, <3>1
    <3> QED
      BY <1>1, <3>2, TaskOrder
  <2> QED
    BY <1>2, <2>1, <2>2
<1>7. task'.at \in {"none", "generated", "settings", "write"} /\ task'.job # "boot" /\ stage' = "serving"
  <2>1. task'.at \in {"none", "generated", "settings", "write"} /\ task'.job # "boot"
    BY <1>6
  <2> QED
    BY <1>1, <1>2, <1>3, <2>1 DEF GivesUp
<1>8. AgreeInv' /\ ~InForce(AfterWrite)'
  BY <1>2, <1>3, <1>7, NotInForce DEF AfterWrite, MigrationPart
<1>9. ~emptied' /\ disk' # NoFile => CanStart(disk', overrides')
  <2>1. ~emptied' => ~emptied /\ disk' = disk
    BY DEF TouchConfig, MakeGenerated, SetUpSettings
  <2> QED
    BY <1>2, <2>1 DEF ConfigInv, StartInv
<1>10. task'.at = "settings" => HasOverride("generated")' \/ Given(changed', "generated")
  <2> SUFFICES ASSUME task'.at = "settings", ~HasOverride("generated") PROVE Given(changed', "generated")
    BY <1>2 DEF HasOverride
  <2>1. task.at = "generated"
    BY <1>6
  <2>2. SetTo("generated", task.input.generated)
    <3>1. MakeGenerated
      BY <2>1 DEF TouchConfig, SetUpSettings, Upcoming
    <3>2. ~GivesUp("directory")
      BY <1>1, GivesUpGives, NoTaskFits
    <3> QED
      BY <3>1, <3>2 DEF MakeGenerated
  <2>3. task.input["generated"] \notin {"", Unset}
    BY <1>3 DEF Given, Mandatory
  <2> QED
    BY <2>2, <2>3 DEF SetTo, Over, Given
<1>11. task'.at = "write" => Provided(changed)'
  <2> SUFFICES ASSUME task'.at = "write" PROVE Provided(changed)'
    OBVIOUS
  <2>1. task.at = "settings"
    BY <1>6
  <2> DEFINE chosen == IF HasOverride("database") THEN {"stash"} ELSE {"stash", "database"}
  <2>2. changed' = Over([key \in chosen |-> task.input[key]], changed)
    BY <2>1 DEF SetUpSettings, TouchConfig, MakeGenerated, Upcoming
  <2>3. HasOverride("generated") \/ Given(changed, "generated")
    BY <1>1, <2>1 DEF ConfigInv, StartInv
  <2>4. HasOverride("generated") \/ Given(changed', "generated")
    BY <2>2, <2>3 DEF Given, Over
  <2>5. HasOverride("database") \/ Given(changed', "database")
    BY <1>3, <2>2 DEF Given, Over, Mandatory
  <2> QED
    BY <1>2, <2>4, <2>5 DEF Provided, HasOverride, Given, Mandatory
<1>12. StartInv'
  BY <1>7, <1>8, <1>9, <1>10, <1>11 DEF StartInv
<1> QED
  BY <1>4, <1>5, <1>8, <1>12 DEF ConfigInv

LEMMA WriteSetUpConfigures == ASSUME ConfigInv, DataInv, WriteSetUp PROVE ConfigInv'
<1>1. task.at = "write" /\ task.job = "setup" /\ TaskFits(task)
  BY DEF WriteSetUp, Upcoming, DataInv, ServerInv, TaskFits, BootPart, SetupPart, MigrationPart
<1>2. PICK outcome \in Outcomes :
        /\ Write(AllSettings, outcome) /\ Saved(AllSettings, outcome)
        /\ IF outcome = "written" THEN Proceed /\ UNCHANGED <<stage, reason>> ELSE GivesUp("configuration")
  BY DEF WriteSetUp
<1>3. UNCHANGED <<overrides, changed, config, defaults, isNewSystem, plan, calls, live>>
  BY DEF WriteSetUp
<1>4. stage = "serving" /\ isNewSystem
  BY <1>1 DEF ConfigInv, StageInv
<1>5. CallsFit'
  BY <1>3 DEF ConfigInv, CallsFit
<1>6. StageInv'
  <2>1. (Proceed /\ UNCHANGED stage) \/ GivesUp("configuration")
    BY <1>2
  <2> QED
    BY <1>1, <1>3, <2>1, StageGoesOn DEF ConfigInv, StageInv
<1>7. /\ task' = NoTask \/ task' = [job |-> "setup", at |-> "initial", input |-> task.input]
      /\ stage' = "serving"
  BY <1>1, <1>2, <1>4, TaskOrder, GoesToGives DEF Proceed, GivesUp
<1>8. task'.at \in {"none", "initial"} /\ task'.job # "boot"
  BY <1>7, NoTaskFits
<1>9. AgreeInv' /\ ~InForce(AfterWrite)'
  BY <1>3, <1>4, <1>8, NotInForce DEF AfterWrite, MigrationPart
<1>10. Provided(changed)
  BY <1>1 DEF ConfigInv, StartInv
<1>11. Provided(AllSettings)
  BY <1>10 DEF Provided, Given, AllSettings, Over
<1>12. ~emptied' /\ disk' # NoFile => CanStart(disk', overrides')
  <2>1. ~emptied' => disk' = AllSettings \/ (disk' = disk /\ ~emptied)
    BY <1>2, SavedGives
  <2> QED
    BY <1>3, <1>11, <2>1, ProvidedCanStart DEF ConfigInv, StartInv
<1>13. Provided(changed)'
  BY <1>3, <1>10 DEF Provided, Given, HasOverride
<1>14. StartInv'
  BY <1>7, <1>8, <1>9, <1>12, <1>13 DEF StartInv
<1> QED
  BY <1>5, <1>6, <1>9, <1>14 DEF ConfigInv

\* What a start or the wizard does after its settings are written, and all that migrations do.
LEMMA WrittenGoesOn ==
  ASSUME ConfigInv, TaskFits(task), task.at \notin Checked \cup {"refresh", "scrapers", "location", "generated"},
         task.job # "none", UNCHANGED isNewSystem,
         \/ Proceed /\ UNCHANGED stage
         \/ \E step : GoesTo(step) /\ UNCHANGED stage
         \/ \E why : GivesUp(why)
  PROVE  \A steps \in Agreed : InForce(steps)' => InForce(steps)
<1>1. stage' = stage \/ stage' = "failed"
  BY GivesUpGives
<1>2. task.job \in {"boot", "setup"} => \A steps \in Agreed : InForce(steps)
  <2>1. ASSUME task.job \in {"boot", "setup"} PROVE task.at \in AfterWrite \ {"refresh", "scrapers"}
    BY <2>1 DEF TaskFits, AfterWrite, BootPart, SetupPart, MigrationPart, Checked
  <2> QED
    BY <2>1 DEF InForce, Agreed
<1>3. CASE task.job \in {"boot", "setup"}
  BY <1>2, <1>3
<1>4. CASE task.job \notin {"boot", "setup"}
  <2>1. stage = "serving" /\ ~isNewSystem
    BY <1>4 DEF ConfigInv, StageInv, TaskFits
  <2> QED
    BY <2>1 DEF InForce
<1> QED
  BY <1>3, <1>4

\* Defaults that are set anew change no other setting.
LEMMA OverLast ==
  ASSUME NEW f, NEW g, NEW h, NEW new, NEW key, key \notin DOMAIN new
  PROVE  /\ key \in DOMAIN Over(f, Over(g, Over(new, h))) <=> key \in DOMAIN Over(f, Over(g, h))
         /\ key \in DOMAIN Over(f, Over(g, h)) => Over(f, Over(g, Over(new, h)))[key] = Over(f, Over(g, h))[key]
BY DEF Over

\* After a migration, what it has set is noted.
LEMMA PostMigrateNotes ==
  ASSUME ConfigInv, PostMigrate
  PROVE  /\ \A w \in Users : calls'[w] = [calls[w] EXCEPT !.others = calls'[w].others]
         /\ CallsFit' /\ \A key : /\ YetToWrite(key) => YetToWrite(key)'
                                  /\ \A s : YetToRefresh(key, s) => YetToRefresh(key, s)'
                                  /\ ScrapersAwaited => ScrapersAwaited'
<1>1. calls = [w \in Users |-> calls[w]] /\ \A w \in Users : CallFits(calls[w])
  BY DEF ConfigInv, CallsFit
<1>2. /\ calls' = [w \in Users |-> calls'[w]]
      /\ \A w \in Users : calls'[w] = [calls[w] EXCEPT !.others = calls'[w].others]
  <2>1. CASE Ready
    <3>1. PICK outcome \in Outcomes :
            calls' = [w \in Users |-> SetByOthers(w, DOMAIN ChecksumDefaults(File(open).rows # 0))]
      BY <2>1 DEF PostMigrate
    <3>2. ASSUME NEW w \in Users PROVE calls'[w] = [calls[w] EXCEPT !.others = calls'[w].others]
      <4> DEFINE keys == DOMAIN ChecksumDefaults(File(open).rows # 0)
      <4>1. calls'[w] = SetByOthers(w, keys)
        BY <3>1
      <4> HIDE DEF keys
      <4> QED
        BY <1>1, <4>1 DEF SetByOthers, CallFits
    <3> QED
      BY <3>1, <3>2
  <2>2. CASE ~Ready
    <3>1. calls' = calls
      BY <2>2 DEF PostMigrate
    <3> QED
      BY <1>1, <3>1 DEF CallFits
  <2> QED
    BY <2>1, <2>2
<1>3. ASSUME NEW w \in Users
      PROVE  /\ CallFits(calls'[w]) /\ DoneKeys(calls'[w]) = DoneKeys(calls[w])
             /\ \A s : ToCome(calls'[w], s) <=> ToCome(calls[w], s)
             /\ calls'[w].refreshScraperCache = calls[w].refreshScraperCache
  BY <1>1, <1>2, OnlyNoted
<1> QED
  BY <1>2, <1>3 DEF CallsFit, YetToWrite, YetToRefresh, ScrapersAwaited

LEMMA PostMigrateConfigures == ASSUME ConfigInv, DataInv, PostMigrate PROVE ConfigInv'
<1>1. task.at = "post migrate" /\ task.job \in {"boot", "setup", "migrate"} /\ TaskFits(task)
  BY DEF PostMigrate, Upcoming, DataInv, ServerInv, TaskFits, BootPart, SetupPart, MigrationPart
<1>2. Proceed /\ UNCHANGED <<stage, reason, plan, live>>
  BY DEF PostMigrate, StepsOnly
<1>3. UNCHANGED <<overrides, changed, config, isNewSystem>>
  BY DEF PostMigrate, SetChecksumDefaults, settingVars
<1>4. CallsFit' /\ \A key : /\ YetToWrite(key) => YetToWrite(key)'
                            /\ \A s : YetToRefresh(key, s) => YetToRefresh(key, s)'
                            /\ ScrapersAwaited => ScrapersAwaited'
  BY PostMigrateNotes
<1>5. StageInv'
  BY <1>1, <1>2, <1>3, StageGoesOn DEF ConfigInv, StageInv
<1>6. task' = [job |-> task.job, at |-> LastSteps[task.job], input |-> task.input]
  BY <1>1, <1>2, TaskOrder, GoesToGives DEF Proceed
<1>7. task'.at \in {"serve", "finalize", "remove backup"}
  <2>1. LastSteps["boot"] = "serve" /\ LastSteps["setup"] = "finalize" /\ LastSteps["migrate"] = "remove backup"
    BY DEF LastSteps
  <2>2. task'.at = LastSteps[task.job]
    BY <1>6
  <2> QED
    BY <1>1, <2>1, <2>2
<1>8. \A steps \in Agreed : InForce(steps)
  <2>1. CASE task.job \in {"boot", "setup"}
    BY <1>1, <2>1 DEF InForce, Agreed, AfterWrite
  <2>2. CASE task.job = "migrate"
    BY <2>2 DEF InForce, ConfigInv, StageInv
  <2> QED
    BY <1>1, <2>1, <2>2
<1>9. Agrees /\ Provided(AllSettings)
  <2>1. /\ InForce(AfterWrite) /\ InForce(AfterWrite \ {"refresh"})
        /\ InForce(AfterWrite \ {"refresh", "scrapers"})
    BY <1>8 DEF Agreed
  <2> QED
    BY <2>1 DEF ConfigInv, AgreeInv, StartInv, Agrees
<1>10. /\ FileAgrees'
       /\ <<"paths", "generated">> \in left => <<"paths", "generated">> \in left'
       /\ <<"scrapers", "scrapers_path">> \in left => <<"scrapers", "scrapers_path">> \in left'
       /\ \A key \in {"generated", "scrapers_path", "database"} :
            /\ key \in DOMAIN AllSettings' <=> key \in DOMAIN AllSettings
            /\ key \in DOMAIN AllSettings => AllSettings'[key] = AllSettings[key]
       /\ ~emptied' => disk' = AllSettings' \/ (disk' = disk /\ ~emptied)
  <2>1. CASE Ready
    <3>1. PICK outcome \in Outcomes :
            /\ SetChecksumDefaults(File(open).rows # 0, outcome)
            /\ Saved(WithChecksumDefaults(File(open).rows # 0), outcome)
      BY <2>1 DEF PostMigrate
    <3> DEFINE all == WithChecksumDefaults(File(open).rows # 0)
               checksums == ChecksumDefaults(File(open).rows # 0)
    <3>2. DOMAIN checksums = {"video_file_naming_algorithm", "calculate_md5"}
      BY DEF ChecksumDefaults
    <3>3. AllSettings' = all /\ Write(all, outcome)
      BY <3>1 DEF SetChecksumDefaults, AllSettings, WithChecksumDefaults
    <3>4. AllSettings' = Over(changed, Over(config, Over(checksums, defaults)))
      BY <3>3 DEF WithChecksumDefaults
    <3> HIDE DEF checksums
    <3>5. \A key \in {"generated", "scrapers_path", "database"} :
            /\ key \in DOMAIN AllSettings' <=> key \in DOMAIN AllSettings
            /\ key \in DOMAIN AllSettings => AllSettings'[key] = AllSettings[key]
      <4>1. \A key \in {"generated", "scrapers_path", "database"} : key \notin DOMAIN checksums
        BY <3>2
      <4>2. AllSettings = Over(changed, Over(config, defaults))
        BY DEF AllSettings
      <4> QED
        BY <3>4, <4>1, <4>2, OverLast
    <3> HIDE DEF all
    <3>6. FileAgrees'
      BY <3>1, <3>3, SavedGives DEF FileAgrees, all
    <3> QED
      BY <3>1, <3>3, <3>5, <3>6, SavedGives DEF all
  <2>2. CASE ~Ready
    <3>1. UNCHANGED <<settingVars, left, emptied, AllSettings>>
      BY <2>2 DEF PostMigrate, settingVars, AllSettings
    <3>2. FileAgrees'
      BY <1>4, <1>9, <3>1 DEF Agrees, FileAgrees, settingVars
    <3> QED
      BY <3>1, <3>2 DEF settingVars
  <2> QED
    BY <2>1, <2>2
<1>11. GetString("generated")' = GetString("generated") /\ GetString("scrapers_path")' = GetString("scrapers_path")
  BY <1>3, <1>10 DEF GetString, Get, Main, HasOverride
<1>12. PathsAgree' /\ ScrapersAgree'
  BY <1>2, <1>4, <1>9, <1>10, <1>11 DEF Agrees, PathsAgree, ScrapersAgree
<1>13. Provided(AllSettings)'
  BY <1>3, <1>9, <1>10 DEF Provided, Given, HasOverride, Mandatory
<1>14. Provided(AllSettings') /\ (disk' = AllSettings' => CanStart(disk', overrides))
  BY <1>3, <1>13, ProvidedCanStart DEF Provided, HasOverride
<1>15. ~emptied' /\ disk' # NoFile => CanStart(disk', overrides')
  BY <1>3, <1>10, <1>14 DEF ConfigInv, StartInv
<1>16. stage' # "failed"
  BY <1>1, <1>2 DEF ConfigInv, StageInv
<1>17. StartInv'
  BY <1>7, <1>13, <1>15, <1>16 DEF StartInv
<1> QED
  BY <1>4, <1>5, <1>10, <1>12, <1>17 DEF ConfigInv, AgreeInv

\* Steps that leave settings alone, and what was made from them.
Untouched == UNCHANGED <<overrides, changed, config, defaults, disk, plan, calls, live, left, emptied>>

LEMMA MigrationsConfigure ==
  ASSUME ConfigInv, DataInv,
         OpensDatabase \/ Migrates \/ MigrationFails \/ BacksUp \/ RunMigrations \/ Restores \/ RemovesBackup
  PROVE  ConfigInv'
<1>1. Untouched /\ UNCHANGED isNewSystem
  BY DEF Untouched, OpensDatabase, Migrates, MigrationFails, BacksUp, RunMigrations, Restores, RemovesBackup,
         settingVars, configureVars
<1>2. TaskFits(task)
  BY DEF DataInv, ServerInv
<1>3. /\ task.at \in {"database", "backup", "migrations", "restore", "remove backup"} \cup MigrationPart
      /\ task.job # "none"
  BY <1>2 DEF OpensDatabase, Migrates, MigrationFails, BacksUp, RunMigrations, Restores, RemovesBackup, Upcoming,
              MigrationPart, TaskFits
<1>4. CASE Restores \/ RemovesBackup
  <2>1. task' = NoTask /\ UNCHANGED <<stage, reason>>
    BY <1>4 DEF Restores, RemovesBackup, StepsOnly
  <2>2. task.job = "migrate"
    BY <1>2, <1>4 DEF Restores, RemovesBackup, Upcoming, TaskFits, BootPart, SetupPart, MigrationPart
  <2>3. stage = "serving" /\ ~isNewSystem
    BY <2>2 DEF ConfigInv, StageInv
  <2>4. StageInv'
    BY <1>1, <2>1, <2>3, NoTaskFits DEF ConfigInv, StageInv, Untouched
  <2>5. \A steps \in Agreed : InForce(steps)
    BY <2>3 DEF InForce
  <2>6. task'.at \notin Checked /\ stage' # "failed"
    BY <2>1, <2>3, NoTaskFits DEF Checked
  <2> QED
    BY <1>1, <2>4, <2>5, <2>6, NothingConfigured DEF Untouched
<1>5. CASE OpensDatabase \/ Migrates \/ MigrationFails \/ BacksUp \/ RunMigrations
  <2>1. \/ Proceed /\ UNCHANGED <<stage, reason>> /\ task.at \in {"database", "mark", "run", "reopen", "backup"}
        \/ \E step \in {"reopen", "mark"} : GoesTo(step) /\ UNCHANGED <<stage, reason>>
        \/ \E why \in {"database", "migration", "backup"} : GivesUp(why)
    BY <1>5 DEF OpensDatabase, Migrates, MigrationFails, BacksUp, RunMigrations, NextMigration, StepsOnly, Upcoming
  <2>2. StageInv'
    <3>1. \/ Proceed /\ UNCHANGED stage
          \/ \E step : GoesTo(step) /\ UNCHANGED stage
          \/ \E why : GivesUp(why)
      BY <2>1
    <3> QED
      BY <1>1, <1>2, <1>3, <3>1, StageGoesOn DEF ConfigInv, StageInv, Untouched
  <2>3. \A steps \in Agreed : InForce(steps)' => InForce(steps)
    <3>1. \/ Proceed /\ UNCHANGED stage
          \/ \E step : GoesTo(step) /\ UNCHANGED stage
          \/ \E why : GivesUp(why)
      BY <2>1
    <3>2. task.at \notin Checked \cup {"refresh", "scrapers", "location", "generated"}
      BY <1>3 DEF Checked, MigrationPart
    <3> QED
      BY <1>1, <1>2, <1>3, <3>1, <3>2, WrittenGoesOn
  <2>4. task'.at \notin Checked
    <3>1. CASE Proceed /\ task.at \in {"database", "mark", "run", "reopen", "backup"}
      <4>1. task'.at = Following(task.at)
        BY <1>2, <3>1, GoesToGives DEF Proceed
      <4> QED
        BY <3>1, <4>1, TaskOrder DEF Checked
    <3>2. CASE \E step \in {"reopen", "mark"} : GoesTo(step)
      BY <1>2, <3>2, GoesToGives DEF Checked
    <3>3. CASE \E why \in {"database", "migration", "backup"} : GivesUp(why)
      <4>1. task'.at \in {"none", "restore"}
        BY <1>2, <3>3, GivesUpGives, NoTaskFits
      <4> QED
        BY <4>1 DEF Checked
    <3> QED
      BY <2>1, <3>1, <3>2, <3>3
  <2>5. stage' = "failed" /\ reason' = "incomplete" => emptied
    BY <2>1 DEF GivesUp, ConfigInv, StartInv
  <2> QED
    BY <1>1, <2>2, <2>3, <2>4, <2>5, NothingConfigured DEF Untouched
<1> QED
  BY <1>4, <1>5

\* What a user asks for, and where a start or the wizard ends.
LEMMA TasksConfigure == ASSUME ConfigInv, DataInv, Setup \/ Migrate \/ Serves \/ FinalizeSetup PROVE ConfigInv'
<1>1. Untouched
  BY DEF Untouched, Setup, Migrate, Serves, FinalizeSetup, settingVars, configureVars
<1>2. TaskFits(task)
  BY DEF DataInv, ServerInv
<1>3. CASE Setup
  <2>1. PICK input \in plan.setups : task' = [job |-> "setup", at |-> "location", input |-> input]
    BY <1>3 DEF Setup
  <2>2. stage' = stage /\ stage = "serving" /\ isNewSystem /\ UNCHANGED <<isNewSystem, reason>>
    BY <1>3 DEF Setup, StepsOnly, settingVars
  <2>3. plan \in Plans
    BY <2>1 DEF ConfigInv, StageInv, NoPlan
  <2>4. \A key \in Mandatory : Given(input, key)
    BY <2>3, FileAssumption
  <2>5. task'.at = "location" /\ task'.job = "setup" /\ task'.input = input
    BY <2>1
  <2>6. StageInv'
    BY <1>1, <2>2, <2>3, <2>4, <2>5 DEF ConfigInv, StageInv, Untouched, Given
  <2>7. \A steps \in Agreed : ~InForce(steps)'
    BY <2>2, <2>5 DEF InForce, Agreed, AfterWrite, MigrationPart
  <2>8. task'.at \notin Checked /\ stage' # "failed"
    BY <2>2, <2>5 DEF Checked
  <2> QED
    BY <1>1, <2>6, <2>7, <2>8, NothingConfigured DEF Untouched
<1>4. CASE Migrate
  <2>1. task'.job = "migrate" /\ task'.at = "backup"
    BY <1>4 DEF Migrate
  <2>2. stage' = stage /\ stage = "serving" /\ ~isNewSystem /\ UNCHANGED <<isNewSystem, reason>>
    BY <1>4 DEF Migrate, StepsOnly, settingVars
  <2>3. StageInv'
    BY <1>1, <2>1, <2>2 DEF ConfigInv, StageInv, Untouched
  <2>4. \A steps \in Agreed : InForce(steps)
    BY <2>2 DEF InForce
  <2>5. task'.at \notin Checked /\ stage' # "failed"
    BY <2>1, <2>2 DEF Checked
  <2> QED
    BY <1>1, <2>3, <2>4, <2>5, NothingConfigured DEF Untouched
<1>5. CASE Serves \/ FinalizeSetup
  <2>1. task' = NoTask /\ task.at \in {"serve", "finalize"} /\ stage' = "serving" /\ ~isNewSystem'
    <3>1. CASE Serves
      <4>1. task.job = "boot"
        BY <1>2, <3>1 DEF Serves, Upcoming, TaskFits, SetupPart, MigrationPart
      <4>2. ~isNewSystem
        BY <4>1 DEF ConfigInv, StageInv
      <4>3. isNewSystem' = isNewSystem
        BY <3>1 DEF Serves, settingVars
      <4> QED
        BY <3>1, <4>2, <4>3 DEF Serves, Upcoming
    <3>2. CASE FinalizeSetup
      <4>1. task.job = "setup"
        BY <1>2, <3>2 DEF FinalizeSetup, Upcoming, TaskFits, BootPart, MigrationPart
      <4>2. stage = "serving"
        BY <4>1 DEF ConfigInv, StageInv
      <4> QED
        BY <3>2, <4>2 DEF FinalizeSetup, Upcoming, StepsOnly
    <3> QED
      BY <1>5, <3>1, <3>2
  <2>2. task.job \in {"boot", "setup"}
    BY <1>2, <2>1 DEF TaskFits, MigrationPart
  <2>3. \A steps \in Agreed : InForce(steps)
    BY <2>1, <2>2 DEF InForce, Agreed, AfterWrite
  <2>4. StageInv'
    BY <1>1, <2>1, NoTaskFits DEF ConfigInv, StageInv, Untouched
  <2>5. task'.at \notin Checked /\ stage' # "failed"
    BY <2>1, NoTaskFits DEF Checked
  <2> QED
    BY <1>1, <2>3, <2>4, <2>5, NothingConfigured DEF Untouched
<1> QED
  BY <1>3, <1>4, <1>5

LEMMA NoCallFits == CallFits(NoCall)
<1>1. DOMAIN NoCall.input = {} /\ NoCall.todo = {} /\ NoCall.op = "none"
  BY DEF NoCall
<1> QED
  BY <1>1 DEF NoCall, CallFits

LEMMA GoesDownConfigures == ASSUME ConfigInv, GoesDown PROVE ConfigInv'
<1>1. UNCHANGED <<overrides, plan>> /\ stage' = "down" /\ task' = NoTask /\ reason' = "none" /\ ~isNewSystem'
  BY DEF GoesDown
<1>2. CallsFit'
  <2>1. calls' = [u \in Users |-> NoCall]
    BY DEF GoesDown
  <2> QED
    BY <2>1, NoCallFits DEF CallsFit
<1>3. StageInv'
  <2>1. live' = [paths |-> live'.paths, scrapers |-> live'.scrapers]
    BY DEF GoesDown
  <2> QED
    BY <1>1, <2>1, NoTaskFits DEF ConfigInv, StageInv
<1>4. task'.at = "none" /\ task'.job = "none"
  BY <1>1, NoTaskFits
<1>5. AgreeInv' /\ ~InForce(AfterWrite)'
  BY <1>1, <1>4, NotInForce DEF AfterWrite, MigrationPart
<1>6. ~emptied' => ~emptied /\ disk' = disk
  BY DEF GoesDown
<1>7. StartInv'
  BY <1>1, <1>4, <1>5, <1>6 DEF ConfigInv, StartInv
<1> QED
  BY <1>2, <1>3, <1>5, <1>7 DEF ConfigInv

LEMMA ConfigInitial == ASSUME NEW plans, plans = Plans \/ plans = {NoPlan}, StartupFrom(plans) PROVE ConfigInv
<1>1. plan \in plans /\ overrides = plan.overrides /\ disk = plan.disk /\ ~isNewSystem
  BY DEF StartupFrom
<1>2. stage = "down" /\ task = NoTask /\ reason = "none"
  BY DEF StartupFrom
<1>3. CallsFit
  <2>1. calls = [u \in Users |-> NoCall]
    BY DEF StartupFrom
  <2> QED
    BY <2>1, NoCallFits DEF CallsFit
<1>4. StageInv
  <2>1. live = [paths |-> live.paths, scrapers |-> live.scrapers]
    BY DEF StartupFrom
  <2> QED
    BY <1>1, <1>2, <2>1, NoTaskFits DEF StageInv
<1>5. task.at = "none" /\ task.job = "none"
  BY <1>2, NoTaskFits
<1>6. AgreeInv /\ ~InForce(AfterWrite)
  BY <1>2, <1>5 DEF InForce, AgreeInv
<1>7. disk # NoFile => CanStart(disk, overrides)
  <2>1. CASE plan \in Plans
    BY <1>1, <2>1, FileAssumption
  <2>2. CASE plan = NoPlan
    BY <1>1, <2>2 DEF NoPlan
  <2> QED
    BY <1>1, <2>1, <2>2
<1>8. StartInv
  BY <1>2, <1>5, <1>6, <1>7 DEF StartInv
<1> QED
  BY <1>3, <1>4, <1>6, <1>8 DEF ConfigInv

LEMMA ConfigStep == ASSUME ConfigInv, DataInv, [StartupNext]_serverVars PROVE ConfigInv'
<1>1. CASE UNCHANGED serverVars \/ LibraryGrows
  <2>1. UNCHANGED <<settingVars, calls, live, left, emptied, plan, stage, task, reason>>
    BY <1>1 DEF serverVars, LibraryGrows, configureVars, startupVars
  <2> QED
    BY <2>1, NothingAtAll
<1>2. CASE StartupNext
  BY <1>1, <1>2, InitializeConfigures, ExistingDefaultsConfigure, FirstInitialConfigures, SecondInitialConfigures,
     ValidateConfigures, MakesAnewConfigures, WizardConfigures, WriteSetUpConfigures, PostMigrateConfigures,
     MigrationsConfigure, TasksConfigure, UsersConfigureKeepsConfig, GoesDownConfigures
  DEF StartupNext
<1> QED
  BY <1>1, <1>2

LEMMA ConfigInvGives == ConfigInv => SettingsKept /\ StartsAgain
<1> SUFFICES ASSUME ConfigInv PROVE SettingsKept /\ StartsAgain
  OBVIOUS
<1>1. StartsAgain
  BY DEF ConfigInv, StartInv, StartsAgain
<1>2. ASSUME stage = "serving", ~isNewSystem PROVE SettingsAgree
  <2>1. /\ InForce(AfterWrite) /\ InForce(AfterWrite \ {"refresh"})
        /\ InForce(AfterWrite \ {"refresh", "scrapers"})
    BY <1>2 DEF InForce
  <2>2. FileAgrees /\ PathsAgree /\ ScrapersAgree
    BY <2>1 DEF ConfigInv, AgreeInv
  <2>3. ScrapersAwaited => YetToRefresh("scrapers_path", "scrapers")
    BY DEF ScrapersAwaited, YetToRefresh
  <2> QED
    BY <2>2, <2>3 DEF SettingsAgree, FileAgrees, PathsAgree, ScrapersAgree
<1> QED
  BY <1>1, <1>2 DEF SettingsKept

LEMMA ConfigInvariant == SpecServices => [](ConfigInv /\ DataInv)
<1>1. InitServices => ConfigInv /\ DataInv
  BY ConfigInitial, DataInitial DEF InitServices
<1>2. ConfigInv /\ DataInv /\ [NextServices]_allVars => (ConfigInv /\ DataInv)'
  <2>1. [NextServices]_allVars => [StartupNext]_serverVars
    BY DEF NextServices, allVars
  <2> QED
    BY <2>1, ConfigStep, DataStep
<1> QED
  BY <1>1, <1>2, PTL DEF SpecServices

(***************************************************************************)
(* While the server serves, settings are what the file says and what is in *)
(* force, but for those that requests have still to write and those that   *)
(* refused ones have left: for any number of users, whatever they ask for, *)
(* in any order of their steps (resolver_mutation_configure.go:28-282).    *)
(***************************************************************************)
THEOREM SettingsAreKept == SpecServices => []SettingsKept
BY ConfigInvariant, ConfigInvGives, PTL

(***************************************************************************)
(* A server finds what it must have in the file that the one before it has *)
(* left, whatever users set and whenever it went down, unless that file    *)
(* was cut short and nothing whole was written since (Validate, config.go: *)
(* 1218-1241; setInitialConfig, config.go:1337-1358).                      *)
(***************************************************************************)
THEOREM ServersStartAgain == SpecServices => []StartsAgain
BY ConfigInvariant, ConfigInvGives, PTL
-----------------------------------------------------------------------------
(* That requests take effect, where what they say is read as it is set. *)

ReadPlans == Unset # [x \in DOMAIN Unset |-> Unset[x]] /\ \A p \in Plans : ReadAsGiven(p)

\* Values of settings that are compared with what a request gives: they are read as they are.
ValueFits(key, value) ==
  /\ value # Unset
  /\ key = "logLevel" => value \in LogLevels
  /\ key = "video_file_naming_algorithm" => value # ""
  /\ key = "dlna.default_enabled" => value \in BOOLEAN
  /\ key = "password" => value[2] = "" \/ value[1] # 0
Fitting(f) == \A key \in DOMAIN f \cap Compared : ValueFits(key, f[key])
LayersFit == Fitting(AllSettings) /\ (disk # NoFile => Fitting(disk))

\* Requests are only under way when nothing but a migration is.
Serving == stage = "serving" /\ ~isNewSystem
Quiet == \A u \in Users : UnderWay(u) => Serving

\* No setting is in the file only, once that was read or written.
Located ==
  \/ Serving
  \/ task.job = "boot" /\ task.at # "existing"
  \/ task.job = "setup" /\ task.at # "location"
FileKnown ==
  /\ stage \in {"starting", "serving"} /\ (disk # NoFile \/ Located) => DOMAIN disk \subseteq DOMAIN AllSettings
  /\ task.job = "boot" /\ task.at = "existing" /\ disk = NoFile => config = <<>>

\* A setting that a request has come to has the value it gives, and the file does once it is written.
Effective(u, key) ==
  \/ key \in calls[u].others \/ (HasOverride(key) /\ key # "stash")
  \/ (key \in DOMAIN changed /\ changed[key] = Told(key, calls[u].input[key]))
  \/ /\ key \in Compared /\ Setting(key) = Told(key, calls[u].input[key])
     /\ key \in DOMAIN AllSettings => AllSettings[key] = Told(key, calls[u].input[key])
FiledNow(key) == key \in DOMAIN AllSettings => key \in DOMAIN disk /\ disk[key] = AllSettings[key]
Filed(u, key) == ToCome(calls[u], "write") \/ key \in calls[u].others \/ <<"file", key>> \in left \/ FiledNow(key)
KeyTakes(u, key) == key \in DoneKeys(calls[u]) \cap DOMAIN calls[u].input => Effective(u, key) /\ Filed(u, key)

\* A hash that was sent is the one in force until the password is come to.
HashTakes(u) ==
  ToCome(calls[u], "password") /\ "password" \in DOMAIN calls[u].input /\ calls[u].input["password"][1] # 0 =>
    "password" \in calls[u].others \/ Setting("password") = calls[u].input["password"]
Takes(u) ==
  /\ \A key \in DOMAIN calls[u].input : ReadsBack(key, calls[u].input[key])
  /\ ToCome(calls[u], "read") => DoneKeys(calls[u]) = {}
  /\ \A key : KeyTakes(u, key)
  /\ HashTakes(u)
RequestsTake == \A u \in Users : UnderWay(u) => Takes(u)

TakeInv == LayersFit /\ Quiet /\ FileKnown /\ RequestsTake

LEMMA FallbackKeys ==
  DOMAIN Fallbacks =
    {"menu_items", "wall_show_title", "wall_playback", "show_scrubber", "autostart_video_on_play_selected",
     "max_session_age", "scraper_cert_check", "logOut", "logAccess", "max_upload_size", "defaults.delete_generated"}
<1>1. /\ DOMAIN DefaultInterface = {"menu_items", "wall_show_title", "wall_playback", "show_scrubber",
                                    "autostart_video_on_play_selected"}
      /\ DOMAIN DefaultServer = {"max_session_age", "scraper_cert_check", "logOut", "logAccess", "max_upload_size"}
      /\ DOMAIN DefaultTasks = {"defaults.delete_generated"}
  BY DEF DefaultInterface, DefaultServer, DefaultTasks
<1>2. DOMAIN Fallbacks = DOMAIN DefaultInterface \cup (DOMAIN DefaultServer \cup DOMAIN DefaultTasks)
  BY DEF Fallbacks, Over
<1> QED
  BY <1>1, <1>2

\* No setting is read in two ways.
Alone == {"stash", "logLevel", "image_lightbox.slideshow_delay", "password", "ui"}
LEMMA WaysToRead ==
  /\ Setting("stash") = GetStashPaths /\ Setting("logLevel") = GetLogLevel
  /\ Setting("image_lightbox.slideshow_delay") = SlideshowDelay
  /\ Setting("password") = IF Get("password") = Unset THEN <<0, "">> ELSE Get("password")
  /\ Setting("ui") = IF Get("ui") = Unset THEN <<>> ELSE Get("ui")
  /\ \A key \in DOMAIN DefaultExtensions : Setting(key) = GetExtensions(key)
  /\ \A key \in DOMAIN DefaultChoices : Setting(key) = GetChoice(key)
  /\ \A key \in DOMAIN DefaultNumbers : Setting(key) = GetNumber(key)
  /\ \A key \in DOMAIN Fallbacks : Setting(key) = IF Get(key) = Unset THEN Fallbacks[key] ELSE Get(key)
  /\ \A key \in Strings : Setting(key) = GetString(key)
  /\ \A key \in Numbers : Setting(key) = GetInt(key)
  /\ \A key \in Switches : Setting(key) = GetBool(key)
  /\ \A key : key \notin Alone \cup DOMAIN DefaultExtensions \cup DOMAIN DefaultChoices \cup DOMAIN DefaultNumbers
                        \cup DOMAIN Fallbacks \cup Strings \cup Numbers \cup Switches => Setting(key) = Get(key)
<1> DEFINE numbers == DOMAIN DefaultNumbers
           fallbacks == DOMAIN Fallbacks
           plain == Strings \cup Numbers \cup Switches
<1>1. Alone \cap (DOMAIN DefaultExtensions \cup DOMAIN DefaultChoices \cup numbers \cup fallbacks \cup plain) = {}
  BY FallbackKeys DEF Alone, DefaultExtensions, DefaultChoices, DefaultNumbers, Strings, Numbers, Switches
<1>2. DOMAIN DefaultExtensions \cap (DOMAIN DefaultChoices \cup numbers \cup fallbacks \cup plain) = {}
  BY FallbackKeys DEF DefaultExtensions, DefaultChoices, DefaultNumbers, Strings, Numbers, Switches
<1>3. DOMAIN DefaultChoices \cap (numbers \cup fallbacks \cup plain) = {}
  BY FallbackKeys DEF DefaultChoices, DefaultNumbers, Strings, Numbers, Switches
<1>4. numbers \cap (fallbacks \cup plain) = {}
  BY FallbackKeys DEF DefaultNumbers, Strings, Numbers, Switches
<1>5. fallbacks \cap plain = {}
  BY FallbackKeys DEF Strings, Numbers, Switches
<1>6. Strings \cap (Numbers \cup Switches) = {} /\ Numbers \cap Switches = {}
  BY DEF Strings, Numbers, Switches
<1>7. ASSUME NEW key \in DOMAIN DefaultExtensions PROVE Setting(key) = GetExtensions(key)
  BY <1>1, <1>2, <1>7 DEF Setting, Alone
<1>8. ASSUME NEW key \in DOMAIN DefaultChoices PROVE Setting(key) = GetChoice(key)
  BY <1>1, <1>2, <1>3, <1>8 DEF Setting, Alone
<1>9. ASSUME NEW key \in numbers PROVE Setting(key) = GetNumber(key)
  BY <1>1, <1>2, <1>3, <1>4, <1>9 DEF Setting, Alone
<1>10. ASSUME NEW key \in fallbacks PROVE Setting(key) = IF Get(key) = Unset THEN Fallbacks[key] ELSE Get(key)
  BY <1>1, <1>2, <1>3, <1>4, <1>5, <1>10 DEF Setting, Alone
<1>11. /\ \A key \in Strings : Setting(key) = GetString(key)
       /\ \A key \in Numbers : Setting(key) = GetInt(key)
       /\ \A key \in Switches : Setting(key) = GetBool(key)
  BY <1>1, <1>2, <1>3, <1>4, <1>5, <1>6 DEF Setting, Alone
<1>12. /\ Setting("stash") = GetStashPaths /\ Setting("logLevel") = GetLogLevel
       /\ Setting("image_lightbox.slideshow_delay") = SlideshowDelay
       /\ Setting("password") = IF Get("password") = Unset THEN <<0, "">> ELSE Get("password")
       /\ Setting("ui") = IF Get("ui") = Unset THEN <<>> ELSE Get("ui")
  BY <1>1 DEF Setting, Alone
<1> QED
  BY <1>7, <1>8, <1>9, <1>10, <1>11, <1>12 DEF Setting, Alone

ReadPlainly == {"database", "generated", "scrapers_path", "metadata", "cache"}
ComparedRead ==
  /\ \A key \in ReadPlainly : Setting(key) = GetString(key)
  /\ Setting("video_file_naming_algorithm") = GetChoice("video_file_naming_algorithm")
  /\ Setting("dlna.default_enabled") = GetBool("dlna.default_enabled")
  /\ Setting("logLevel") = GetLogLevel
  /\ Setting("password") = IF Get("password") = Unset THEN <<0, "">> ELSE Get("password")
LEMMA ComparedAre ==
  /\ Compared = ReadPlainly \cup {"video_file_naming_algorithm", "password", "logLevel", "dlna.default_enabled"}
  /\ ComparedRead
<1>1. Compared = ReadPlainly \cup {"video_file_naming_algorithm", "password", "logLevel", "dlna.default_enabled"}
  BY DEF Compared, DirectoryKeys, Optional, ReadPlainly
<1>2. /\ ReadPlainly \subseteq Strings /\ "dlna.default_enabled" \in Switches
      /\ "video_file_naming_algorithm" \in DOMAIN DefaultChoices
  BY DEF ReadPlainly, Strings, Switches, DefaultChoices
<1> QED
  BY <1>1, <1>2, WaysToRead DEF ComparedRead

LEMMA ComparedStayRead == ComparedRead'
BY ComparedAre, PTL

LEMMA ComparedIsRead ==
  ASSUME NEW key \in Compared, Get(key)' = Get(key)
  PROVE  Setting(key)' = Setting(key)
BY ComparedAre, ComparedStayRead DEF ComparedRead, GetLogLevel, GetString, GetBool, GetChoice

LEMMA FittingIsRead ==
  ASSUME NEW key \in Compared, ~HasOverride(key), key \in DOMAIN AllSettings, ValueFits(key, AllSettings[key])
  PROVE  Setting(key) = AllSettings[key]
<1>1. Get(key) = AllSettings[key] /\ Get(key) # Unset
  BY DEF Get, Main, ValueFits
<1>2. CASE key = "dlna.default_enabled"
  BY <1>1, <1>2, ComparedAre DEF ComparedRead, GetBool, ValueFits
<1>3. CASE key # "dlna.default_enabled"
  BY <1>1, <1>3, ComparedAre DEF ComparedRead, GetLogLevel, GetString, GetChoice, ValueFits
<1> QED
  BY <1>2, <1>3

LEMMA PairIsSet == ASSUME ReadPlans, NEW a1, NEW b1 PROVE <<a1, b1>> # Unset
<1>1. <<a1, b1>> = [x \in DOMAIN <<a1, b1>> |-> <<a1, b1>>[x]]
  OBVIOUS
<1> QED
  BY <1>1 DEF ReadPlans

\* What has been set to what a request gives, or to the hash of that.
LEMMA GivenIsRead ==
  ASSUME ReadPlans, NEW key, NEW value, ReadsBack(key, value), key \in DOMAIN changed,
         changed[key] = Told(key, value), HasOverride(key) => key = "stash"
  PROVE  Setting(key) = Told(key, value)
<1> DEFINE told == Told(key, value)
<1>1. told # Unset
  BY PairIsSet DEF Told, ReadsBack
<1>2. key # "password" => told = value
  BY DEF Told
<1>3. Main(key) = told
  BY DEF Main, AllSettings, Over
<1>4. key # "stash" => Get(key) = told
  BY <1>3 DEF Get
<1> SUFFICES Setting(key) = told
  OBVIOUS
<1> HIDE DEF told
<1>5. CASE key = "stash"
  BY <1>1, <1>3, <1>5, WaysToRead DEF GetStashPaths
<1>6. CASE key = "password" \/ key = "ui"
  <2>1. Get(key) = told
    BY <1>4, <1>6
  <2>2. CASE key = "password"
    BY <1>1, <2>1, <2>2, WaysToRead
  <2>3. CASE key = "ui"
    BY <1>1, <2>1, <2>3, WaysToRead
  <2> QED
    BY <1>6, <2>2, <2>3
<1>7. CASE key = "logLevel"
  BY <1>1, <1>2, <1>4, <1>7, WaysToRead DEF GetLogLevel, GetString, ReadsBack
<1>8. CASE key = "image_lightbox.slideshow_delay"
  <2>1. Get("image_lightbox.slideshow_delay") = told
    BY <1>4, <1>8
  <2>2. Setting("image_lightbox.slideshow_delay") = SlideshowDelay
    BY WaysToRead
  <2> QED
    BY <1>1, <1>8, <2>1, <2>2 DEF SlideshowDelay
<1>9. CASE key \in DOMAIN DefaultExtensions
  <2>1. key # "stash"
    BY <1>9 DEF DefaultExtensions
  <2> QED
    BY <1>1, <1>4, <1>9, <2>1, WaysToRead DEF GetExtensions
<1>10. CASE key \in DOMAIN DefaultChoices
  <2>1. told # "" /\ key # "stash"
    BY <1>2, <1>10 DEF ReadsBack, DefaultChoices
  <2> QED
    BY <1>1, <1>4, <1>10, <2>1, WaysToRead DEF GetChoice, GetString
<1>11. CASE key \in DOMAIN DefaultNumbers
  <2>1. key = "port"
    BY <1>11 DEF DefaultNumbers
  <2>2. told # 0
    BY <1>2, <1>11, <2>1 DEF ReadsBack
  <2> QED
    BY <1>1, <1>4, <1>11, <2>1, <2>2, WaysToRead DEF GetNumber, GetInt
<1>12. CASE key \in Switches
  <2>1. told \in BOOLEAN /\ key # "stash"
    BY <1>2, <1>12 DEF ReadsBack, Switches
  <2>2. GetBool(key) = (told = TRUE)
    BY <1>4, <2>1 DEF GetBool
  <2> QED
    BY <1>12, <2>1, <2>2, WaysToRead
<1>13. CASE key \in Strings \cup Numbers
  <2>1. key # "stash"
    BY <1>13 DEF Strings, Numbers
  <2> QED
    BY <1>1, <1>4, <1>13, <2>1, WaysToRead DEF GetString, GetInt
<1>14. CASE key \notin Alone \cup DOMAIN DefaultExtensions \cup DOMAIN DefaultChoices \cup DOMAIN DefaultNumbers
                       \cup Strings \cup Numbers \cup Switches
  BY <1>1, <1>4, <1>14, WaysToRead DEF Alone
<1> QED
  BY <1>5, <1>6, <1>7, <1>8, <1>9, <1>10, <1>11, <1>12, <1>13, <1>14 DEF Alone

-----------------------------------------------------------------------------
(* What a request has come to goes on to hold. *)

\* What a step does to a setting that it does not set.
SettingStays(key) ==
  /\ key \in DOMAIN AllSettings <=> key \in DOMAIN AllSettings'
  /\ key \in DOMAIN AllSettings => AllSettings'[key] = AllSettings[key]
  /\ key \in DOMAIN changed => key \in DOMAIN changed' /\ changed'[key] = changed[key]
FileStays(key) ==
  \/ FiledNow(key)' \/ <<"file", key>> \in left'
  \/ disk' = disk /\ (<<"file", key>> \in left => <<"file", key>> \in left')

LEMMA NothingSet == ASSUME UNCHANGED <<changed, config, defaults>> PROVE \A key : SettingStays(key)
BY DEF SettingStays, AllSettings

LEMMA KeyGoesOn ==
  ASSUME NEW u \in Users, NEW key, KeyTakes(u, key), UNCHANGED overrides,
         calls'[u].input = calls[u].input, calls[u].others \subseteq calls'[u].others,
         key \in DoneKeys(calls'[u]) => key \in DoneKeys(calls[u]),
         ToCome(calls[u], "write") => ToCome(calls'[u], "write") \/ FiledNow(key)',
         key \in calls'[u].others \/ (SettingStays(key) /\ FileStays(key))
  PROVE  KeyTakes(u, key)'
<1> SUFFICES ASSUME key \in DoneKeys(calls'[u]) \cap DOMAIN calls'[u].input PROVE Effective(u, key)' /\ Filed(u, key)'
  BY DEF KeyTakes
<1>1. Effective(u, key) /\ Filed(u, key)
  BY DEF KeyTakes
<1>2. CASE key \in calls'[u].others
  BY <1>2 DEF Effective, Filed
<1>3. CASE key \notin calls'[u].others
  <2>1. SettingStays(key) /\ FileStays(key) /\ key \notin calls[u].others
    BY <1>3
  <2>2. Get(key)' = Get(key)
    BY <2>1, SameIsRead DEF SettingStays
  <2>3. key \in Compared => Setting(key)' = Setting(key)
    BY <2>2, ComparedIsRead
  <2>4. Effective(u, key)'
    BY <1>1, <2>1, <2>3 DEF Effective, SettingStays, HasOverride
  <2>5. Filed(u, key)'
    <3>1. FiledNow(key) /\ disk' = disk => FiledNow(key)'
      BY <2>1 DEF FiledNow, SettingStays
    <3> QED
      BY <1>1, <2>1, <3>1 DEF Filed, FileStays
  <2> QED
    BY <2>4, <2>5
<1> QED
  BY <1>2, <1>3

LEMMA HashGoesOn ==
  ASSUME NEW u \in Users, HashTakes(u), UNCHANGED overrides,
         calls'[u].input = calls[u].input, calls[u].others \subseteq calls'[u].others,
         ToCome(calls'[u], "password") => ToCome(calls[u], "password"),
         "password" \in calls'[u].others \/ SettingStays("password")
  PROVE  HashTakes(u)'
<1>1. SettingStays("password") => Setting("password")' = Setting("password")
  <2>1. SettingStays("password") => Get("password")' = Get("password")
    BY SameIsRead DEF SettingStays
  <2> QED
    BY <2>1, ComparedIsRead, ComparedAre
<1> QED
  BY <1>1 DEF HashTakes

\* A request that does not move.
LEMMA OtherTakes ==
  ASSUME NEW u \in Users, CallFits(calls[u]), Takes(u), UNCHANGED overrides,
         calls'[u] = [calls[u] EXCEPT !.others = calls'[u].others], calls[u].others \subseteq calls'[u].others,
         \A key : key \in calls'[u].others \/ (SettingStays(key) /\ FileStays(key))
  PROVE  Takes(u)'
<1>1. /\ DoneKeys(calls'[u]) = DoneKeys(calls[u]) /\ calls'[u].input = calls[u].input
      /\ \A s : ToCome(calls'[u], s) <=> ToCome(calls[u], s)
  BY OnlyNoted
<1>2. ASSUME NEW key PROVE KeyTakes(u, key)'
  <2>1. KeyTakes(u, key)
    BY DEF Takes
  <2> QED
    BY <1>1, <2>1, KeyGoesOn
<1>3. HashTakes(u)'
  <2>1. HashTakes(u)
    BY DEF Takes
  <2> QED
    BY <1>1, <2>1, HashGoesOn
<1>4. \A key \in DOMAIN calls'[u].input : ReadsBack(key, calls'[u].input[key])
  BY <1>1 DEF Takes
<1>5. ToCome(calls'[u], "read") => DoneKeys(calls'[u]) = {}
  BY <1>1 DEF Takes
<1> QED
  BY <1>2, <1>3, <1>4, <1>5 DEF Takes

\* A step of a request: the others stay as they were, or have it noted.
LEMMA AllTake ==
  ASSUME CallsFit, RequestsTake, NEW u \in Users, UNCHANGED overrides, UnderWay(u)' => Takes(u)',
         \A w \in Users \ {u} :
           /\ \/ calls'[w] = calls[w]
              \/ calls'[w] = [calls[w] EXCEPT !.others = calls'[w].others] /\ calls[w].others \subseteq calls'[w].others
           /\ UnderWay(w) => \A key : key \in calls'[w].others \/ (SettingStays(key) /\ FileStays(key))
  PROVE  RequestsTake'
<1> SUFFICES ASSUME NEW w \in Users \ {u}, UnderWay(w)' PROVE Takes(w)'
  BY DEF RequestsTake
<1>1. CallFits(calls[w])
  BY DEF CallsFit
<1>2. calls'[w] = [calls[w] EXCEPT !.others = calls'[w].others] /\ calls[w].others \subseteq calls'[w].others
  BY <1>1 DEF CallFits
<1>3. UnderWay(w)
  BY <1>1, <1>2, OnlyNoted DEF UnderWay
<1> QED
  BY <1>1, <1>2, <1>3, OtherTakes DEF RequestsTake

\* A step is done, and no other is; what is read, is read first.
LEMMA OnlyFirstIsDone ==
  ASSUME NEW u \in Users, NEW step, CallsFit, Doing(u, step), NEW d,
         d.op = calls[u].op, StepsOf(d.op, d.input) = StepsOf(calls[u].op, calls[u].input),
         d.todo = Rest(calls[u].todo)
  PROVE  /\ \A key \in DoneKeys(d) : key \in DoneKeys(calls[u]) \/ (key = step /\ step \notin Controls)
         /\ \A s : ToCome(d, s) => ToCome(calls[u], s)
         /\ ~ToCome(d, "read") /\ (ToCome(calls[u], "read") => step = "read") /\ ToCome(calls[u], step)
<1> DEFINE c == calls[u]
           order == OrderOf(c.op)
<1>1. CallFits(c)
  BY DEF CallsFit
<1>2. PICK i \in c.todo : order[i] = step /\ \A j \in c.todo : i <= j
  BY DEF Doing
<1>3. c.todo \subseteq DOMAIN order /\ DOMAIN order \subseteq Nat /\ c.op \in Requests \cup {"none"}
  BY <1>1, OrdersFit DEF CallFits, StepsOf, OrderFits
<1>4. d.todo = c.todo \ {i}
  BY <1>2, <1>3 DEF Rest
<1>5. \A key \in DoneKeys(d) : key \in DoneKeys(c) \/ (key = step /\ step \notin Controls)
  BY <1>2, <1>4 DEF DoneKeys, Named
<1>6. (\A s : ToCome(d, s) => ToCome(c, s)) /\ ToCome(c, step)
  BY <1>2, <1>4 DEF ToCome, Named
<1>7. \A j \in c.todo : order[j] = "read" => j = i
  <2> SUFFICES ASSUME NEW j \in c.todo, order[j] = "read" PROVE j = i
    OBVIOUS
  <2>1. c.op = "ui setting"
    BY <1>3, OrdersFit
  <2>2. order = <<"read", "ui", "write">>
    BY <2>1 DEF OrderOf, ConfigureUISetting
  <2>3. j = 1 /\ i \in 1..3
    BY <1>2, <1>3, <2>2
  <2> QED
    BY <1>2, <2>3
<1>8. ~ToCome(d, "read") /\ (ToCome(c, "read") => step = "read")
  BY <1>2, <1>4, <1>7 DEF ToCome, Named
<1> QED
  BY <1>5, <1>6, <1>8

LEMMA OwnTakes ==
  ASSUME CallsFit, NEW u \in Users, NEW step, Moves(u, step), Takes(u), UNCHANGED overrides,
         calls'[u].input = calls[u].input,
         \A key : key = step \/ (SettingStays(key) /\ FileStays(key)),
         step \in Controls => SettingStays(step) /\ FileStays(step),
         step \notin Controls => KeyTakes(u, step)',
         step = "write" => \A key : FiledNow(key)',
         SettingStays("password") \/ HashTakes(u)'
  PROVE  Takes(u)'
<1> DEFINE d == calls'[u]
<1>1. /\ Doing(u, step) /\ d.op = calls[u].op /\ StepsOf(d.op, d.input) = StepsOf(calls[u].op, calls[u].input)
      /\ d.todo = Rest(calls[u].todo) /\ d.others = calls[u].others
  BY DEF Moves
<1>2. /\ \A key \in DoneKeys(d) : key \in DoneKeys(calls[u]) \/ (key = step /\ step \notin Controls)
      /\ \A s : ToCome(d, s) => ToCome(calls[u], s)
      /\ ~ToCome(d, "read")
  <2> HIDE DEF d
  <2> QED
    BY <1>1, OnlyFirstIsDone
<1>3. \A s : ToCome(calls[u], s) /\ s # step => ToCome(d, s)
  <2> HIDE DEF d
  <2>1. d.todo = {i \in calls[u].todo : \E j \in calls[u].todo : j < i}
    BY <1>1 DEF Rest
  <2> QED
    BY <1>1, <2>1, FirstIsDone
<1>4. ASSUME NEW key PROVE KeyTakes(u, key)'
  <2>1. KeyTakes(u, key)
    BY DEF Takes
  <2>2. CASE key = step /\ step \notin Controls
    BY <2>2
  <2>3. CASE ~(key = step /\ step \notin Controls)
    <3>1. SettingStays(key) /\ FileStays(key)
      BY <2>3
    <3>2. key \in DoneKeys(d) => key \in DoneKeys(calls[u])
      BY <1>2, <2>3
    <3>3. ToCome(calls[u], "write") => ToCome(d, "write") \/ FiledNow(key)'
      BY <1>3
    <3> QED
      BY <1>1, <2>1, <3>1, <3>2, <3>3, KeyGoesOn
  <2> QED
    BY <2>2, <2>3
<1>5. HashTakes(u)'
  <2>1. HashTakes(u)
    BY DEF Takes
  <2> QED
    BY <1>1, <1>2, <2>1, HashGoesOn
<1>6. \A key \in DOMAIN d.input : ReadsBack(key, d.input[key])
  BY DEF Takes
<1> QED
  BY <1>2, <1>4, <1>5, <1>6 DEF Takes

-----------------------------------------------------------------------------
(* The steps of a request, one by one. *)

LEMMA PairParts == ASSUME NEW a1, NEW b1, NEW pair, pair = <<a1, b1>> PROVE pair[1] = a1 /\ pair[2] = b1
OBVIOUS
LEMMA HashedOnce == ASSUME NEW pair, pair = <<1, pair[2]>> PROVE pair[1] # 0
BY PairParts
LEMMA HashedPair == ASSUME NEW b1 PROVE [<<0, b1>> EXCEPT ![1] = @ + 1] = <<1, b1>>
OBVIOUS
LEMMA NextHash ==
  ASSUME NEW a1 \in Nat, NEW b1, NEW pair, pair = <<a1, b1>> PROVE [pair EXCEPT ![1] = @ + 1] = <<a1 + 1, b1>>
OBVIOUS

\* What is in force is told as it is: a password that is not new as the hash that was told.
LEMMA InForceIsTold ==
  ASSUME LayersFit, NEW key \in Compared, ~HasOverride(key), NEW value, ReadsBack(key, value), value = Setting(key)
  PROVE  Told(key, value) = value /\ (key \in DOMAIN AllSettings => AllSettings[key] = value)
<1>1. key \in DOMAIN AllSettings => ValueFits(key, AllSettings[key]) /\ AllSettings[key] = value
  BY FittingIsRead DEF LayersFit, Fitting
<1>2. CASE key # "password"
  BY <1>1, <1>2 DEF Told
<1>3. CASE key = "password"
  <2>1. value = <<value[1], value[2]>> /\ value[1] \in {0, 1}
    BY <1>3 DEF ReadsBack
  <2>2. CASE key \in DOMAIN AllSettings
    <3>1. value[2] = "" \/ value[1] = 1
      BY <1>1, <1>3, <2>1, <2>2 DEF ValueFits
    <3> QED
      BY <1>1, <1>3, <2>1, <3>1 DEF Told
  <2>3. CASE key \notin DOMAIN AllSettings
    <3>1. Setting("password") = <<0, "">>
      BY <1>3, <2>3, ComparedAre DEF ComparedRead, Get, Main
    <3>2. value = <<0, "">>
      BY <1>3, <3>1
    <3>3. value[2] = ""
      BY <3>2, PairParts
    <3> QED
      BY <2>3, <3>3 DEF Told
  <2> QED
    BY <2>2, <2>3
<1> QED
  BY <1>2, <1>3

LEMMA SkipTakes ==
  ASSUME CallsFit, LayersFit, RequestsTake, NEW u \in Users, NEW key, Skip(u, key)
  PROVE  RequestsTake'
<1>1. /\ Doing(u, key) /\ key \notin Controls /\ key \in Compared /\ calls[u].input[key] = Setting(key)
      /\ UNCHANGED <<overrides, changed, config, defaults, disk, left>>
  BY DEF Skip, Changes, settingVars
<1>2. Moves(u, key) /\ calls'[u].input = calls[u].input /\ \A w \in Users \ {u} : calls'[w] = calls[w]
  BY AdvancedMoves DEF Skip
<1>3. \A k : SettingStays(k) /\ FileStays(k)
  BY <1>1, NothingSet DEF FileStays
<1>4. Takes(u)
  BY <1>1 DEF RequestsTake, Doing
<1>5. KeyTakes(u, key)'
  <2> SUFFICES ASSUME key \in DOMAIN calls[u].input PROVE Effective(u, key)' /\ Filed(u, key)'
    BY <1>2 DEF KeyTakes
  <2>1. ToCome(calls'[u], "write")
    BY <1>1, <1>2, MovesOn DEF Needs
  <2>2. ReadsBack(key, calls[u].input[key])
    BY <1>4 DEF Takes
  <2>3. CASE HasOverride(key)
    <3>1. key # "stash"
      BY <1>1, ComparedAre DEF ReadPlainly
    <3> QED
      BY <1>1, <2>1, <2>3, <3>1 DEF Effective, Filed, HasOverride
  <2>4. CASE ~HasOverride(key)
    <3> DEFINE value == calls[u].input[key]
    <3>1. Told(key, value) = value /\ (key \in DOMAIN AllSettings => AllSettings[key] = value)
      BY <1>1, <2>2, <2>4, InForceIsTold
    <3>2. Setting(key)' = Setting(key)
      BY <1>1, <1>3, SameIsRead, ComparedIsRead DEF SettingStays
    <3>3. UNCHANGED AllSettings
      BY <1>1 DEF AllSettings
    <3>4. Effective(u, key)'
      BY <1>1, <1>2, <3>1, <3>2, <3>3 DEF Effective
    <3> QED
      BY <2>1, <3>4 DEF Filed
  <2> QED
    BY <2>3, <2>4
<1>6. Takes(u)'
  <2>1. key # "write"
    BY <1>1 DEF Controls
  <2> QED
    BY <1>1, <1>2, <1>3, <1>4, <1>5, <2>1, OwnTakes
<1> QED
  BY <1>1, <1>2, <1>3, <1>6, AllTake

\* A step that sets nothing: it may write the file, or go no further.
LEMMA ControlTakes ==
  ASSUME CallsFit, RequestsTake, NEW u \in Users, NEW step \in Controls,
         Moves(u, step), calls'[u].input = calls[u].input, \A w \in Users \ {u} : calls'[w] = calls[w],
         UNCHANGED <<overrides, changed, config, defaults>>,
         \A key : FileStays(key), step = "write" => \A key : FiledNow(key)'
  PROVE  RequestsTake'
<1>1. \A key : SettingStays(key)
  BY NothingSet
<1>2. Takes(u)
  BY DEF RequestsTake, Moves, Doing
<1>3. Takes(u)'
  BY <1>1, <1>2, OwnTakes
<1> QED
  BY <1>1, <1>3, AllTake

LEMMA ControlsTake ==
  ASSUME CallsFit, RequestsTake, NEW u \in Users, WriteFile(u) \/ Refresh(u) \/ RefreshScrapers(u)
  PROVE  RequestsTake'
<1>1. UNCHANGED <<overrides, changed, config, defaults>>
  BY DEF WriteFile, Refresh, RefreshScrapers, settingVars
<1>2. CASE WriteFile(u)
  <2>1. disk' = AllSettings' /\ calls' = Advanced(u) /\ Doing(u, "write")
    BY <1>2 DEF WriteFile, Write, AllSettings
  <2>2. \A key : FiledNow(key)'
    BY <2>1 DEF FiledNow
  <2>3. \A key : FileStays(key)
    BY <2>2 DEF FileStays
  <2>4. /\ Moves(u, "write") /\ calls'[u].input = calls[u].input /\ \A w \in Users \ {u} : calls'[w] = calls[w]
    BY <2>1, AdvancedMoves
  <2> QED
    BY <1>1, <2>2, <2>3, <2>4, ControlTakes DEF Controls
<1>3. CASE Refresh(u)
  <2>1. disk' = disk /\ calls' = Advanced(u) /\ Doing(u, "refresh") /\ left' = left \ {<<"paths", "generated">>}
    BY <1>3 DEF Refresh, RefreshConfig, settingVars
  <2>2. \A key : FileStays(key)
    BY <2>1 DEF FileStays
  <2>3. /\ Moves(u, "refresh") /\ calls'[u].input = calls[u].input /\ \A w \in Users \ {u} : calls'[w] = calls[w]
    BY <2>1, AdvancedMoves
  <2> QED
    BY <1>1, <2>2, <2>3, ControlTakes DEF Controls
<1>4. CASE RefreshScrapers(u)
  <2>1. /\ disk' = disk /\ Doing(u, "scrapers")
        /\ left' = left \/ left' = left \ {<<"scrapers", "scrapers_path">>}
    BY <1>4 DEF RefreshScrapers, RefreshScraperCache, settingVars
  <2>2. \A key : FileStays(key)
    BY <2>1 DEF FileStays
  <2>3. /\ Moves(u, "scrapers") /\ calls'[u].input = calls[u].input /\ \A w \in Users \ {u} : calls'[w] = calls[w]
    BY <1>4, RefreshScrapersMoves
  <2> QED
    BY <1>1, <2>2, <2>3, ControlTakes DEF Controls
<1> QED
  BY <1>2, <1>3, <1>4

LEMMA SetTakes ==
  ASSUME CallsFit, ReadPlans, RequestsTake, NEW u \in Users, NEW key, Set(u, key)
  PROVE  RequestsTake'
<1> DEFINE input == calls[u].input
<1>1. /\ Doing(u, key) /\ key \notin Controls /\ Changes(key, input) /\ SetTo(key, NewValue(key, input))
      /\ UNCHANGED <<overrides, config, defaults, disk, left>>
  BY DEF Set
<1>2. /\ Moves(u, key) /\ calls'[u].input = input /\ \A w \in Users \ {u} : calls'[w] = SetByOthers(w, {key})
      /\ calls'[u].others = calls[u].others
  <2>1. Moves(u, key) => calls'[u].others = calls[u].others
    BY DEF Moves
  <2> QED
    BY <2>1, SetMoves
<1>3. key \in DOMAIN changed' /\ changed'[key] = NewValue(key, input) /\ \A k : FileStays(k)
  BY <1>1 DEF SetTo, Over, FileStays
<1>4. \A k : k # key => SettingStays(k)
  <2>1. \A k \in DOMAIN changed \ {key} : k \in DOMAIN changed' /\ changed'[k] = changed[k]
    BY <1>1 DEF SetTo, Over
  <2>2. /\ DOMAIN AllSettings' = DOMAIN AllSettings \cup {key}
        /\ \A k \in DOMAIN AllSettings \ {key} : AllSettings'[k] = AllSettings[k]
    BY <1>1, SetGives
  <2> QED
    BY <2>1, <2>2 DEF SettingStays
<1>5. Takes(u)
  BY <1>1 DEF RequestsTake, Doing
<1>6. ToCome(calls'[u], "write") /\ ToCome(calls[u], key)
  <2>1. ToCome(calls'[u], "write")
    BY <1>1, <1>2, MovesOn DEF Needs
  <2> QED
    BY <1>1, <2>1 DEF Doing, ToCome, Named
<1>7. key = "password" /\ "password" \in DOMAIN input /\ input["password"][1] # 0 => "password" \in calls[u].others
  <2> SUFFICES ASSUME key = "password", "password" \in DOMAIN input, input["password"][1] # 0
               PROVE  "password" \in calls[u].others
    OBVIOUS
  <2>1. "password" \in calls[u].others \/ Setting("password") = input["password"]
    BY <1>5, <1>6 DEF Takes, HashTakes
  <2>2. input["password"] # Setting("password")
    BY <1>1, ComparedAre DEF Changes
  <2> QED
    BY <2>1, <2>2
<1>8. KeyTakes(u, key)'
  <2> SUFFICES ASSUME key \in DOMAIN input PROVE Effective(u, key)' /\ Filed(u, key)'
    BY <1>2 DEF KeyTakes
  <2>1. ReadsBack(key, input[key])
    BY <1>5 DEF Takes
  <2>2. CASE key # "password"
    <3>1. NewValue(key, input) = input[key] /\ Told(key, input[key]) = input[key]
      BY <2>1, <2>2 DEF NewValue, Told, ReadsBack
    <3> QED
      BY <1>2, <1>3, <1>6, <3>1 DEF Effective, Filed
  <2>3. CASE key = "password"
    <3>1. CASE input["password"][1] # 0
      BY <1>2, <1>6, <1>7, <2>3, <3>1 DEF Effective, Filed
    <3>2. CASE input["password"][1] = 0
      <4> DEFINE given == input["password"]
      <4>1. given = <<given[1], given[2]>> /\ given[1] = 0
        BY <2>1, <2>3, <3>2 DEF ReadsBack
      <4>2. NewValue("password", input) = SetPassword(given)
        BY DEF NewValue
      <4> HIDE DEF given
      <4>3. SetPassword(given) = Told("password", given)
        <5>1. given = <<0, given[2]>>
          BY <4>1
        <5>2. [given EXCEPT ![1] = @ + 1] = <<1, given[2]>>
          BY <5>1, HashedPair
        <5> QED
          BY <5>2 DEF SetPassword, Told
      <4> QED
        BY <1>2, <1>3, <1>6, <2>3, <4>2, <4>3 DEF Effective, Filed, given
    <3> QED
      BY <3>1, <3>2
  <2> QED
    BY <2>2, <2>3
<1>9. SettingStays("password") \/ HashTakes(u)'
  <2>1. CASE key # "password"
    BY <1>4, <2>1
  <2>2. CASE key = "password"
    BY <1>2, <1>7, <2>2 DEF HashTakes
  <2> QED
    BY <2>1, <2>2
<1>10. Takes(u)'
  <2>1. key # "write"
    BY <1>1 DEF Controls
  <2> QED
    BY <1>1, <1>2, <1>3, <1>4, <1>5, <1>8, <1>9, <2>1, OwnTakes
<1>11. ASSUME NEW w \in Users \ {u}
       PROVE  /\ \/ calls'[w] = calls[w]
                 \/ /\ calls'[w] = [calls[w] EXCEPT !.others = calls'[w].others]
                    /\ calls[w].others \subseteq calls'[w].others
              /\ UnderWay(w) => \A k : k \in calls'[w].others \/ (SettingStays(k) /\ FileStays(k))
  <2>1. CallFits(calls[w]) /\ calls'[w] = [calls[w] EXCEPT !.others = calls'[w].others]
    BY <1>2 DEF CallsFit, Moves
  <2>2. calls'[w] = IF UnderWay(w) THEN [calls[w] EXCEPT !.others = @ \cup {key}] ELSE calls[w]
    BY <1>2 DEF SetByOthers
  <2>3. UnderWay(w) => calls'[w].others = calls[w].others \cup {key}
    BY <2>1, <2>2 DEF CallFits
  <2> QED
    BY <1>3, <1>4, <2>1, <2>2, <2>3
<1> QED
  BY <1>1, <1>10, <1>11, AllTake

\* A request that ends, whatever it leaves.
LEMMA EndTakes ==
  ASSUME CallsFit, RequestsTake, NEW u \in Users, (\E key : Refuse(u, key)) \/ WriteFails(u) \/ Reply(u)
  PROVE  RequestsTake'
<1>1. /\ UNCHANGED <<overrides, changed, config, defaults>>
      /\ \E todo : \E answer \in {"refused", "failed", "done"} :
           calls' = [calls EXCEPT ![u].todo = todo, ![u].answer = answer]
  <2>1. CASE \E key : Refuse(u, key)
    BY <2>1 DEF Refuse, GoesNoFurther, settingVars
  <2>2. CASE WriteFails(u)
    BY <2>2 DEF WriteFails, GoesNoFurther
  <2>3. CASE Reply(u)
    <3>1. calls' = [calls EXCEPT ![u].answer = "done"] /\ UNCHANGED settingVars
      BY <2>3 DEF Reply
    <3>2. calls = [w \in Users |-> calls[w]] /\ CallFits(calls[u])
      BY DEF CallsFit
    <3>3. calls' = [calls EXCEPT ![u].todo = calls[u].todo, ![u].answer = "done"]
      BY <3>1, <3>2 DEF CallFits
    <3> QED
      BY <3>1, <3>3 DEF settingVars
  <2> QED
    BY <2>1, <2>2, <2>3
<1>2. calls'[u].answer # "pending" /\ \A w \in Users \ {u} : calls'[w] = calls[w]
  <2>1. calls = [w \in Users |-> calls[w]] /\ CallFits(calls[u])
    BY DEF CallsFit
  <2> QED
    BY <1>1, <2>1 DEF CallFits
<1>3. \A key : SettingStays(key)
  BY <1>1, NothingSet
<1>4. \A key : FileStays(key)
  <2>1. CASE disk' = disk /\ left \subseteq left'
    BY <2>1 DEF FileStays
  <2>2. CASE WriteFails(u)
    <3>1. PICK outcome \in Outcomes \ {"written"} :
            /\ Write(AllSettings, outcome)
            /\ left' = left \cup LeftBy(calls[u]) \cup Unwritten(AllSettings, outcome)
      BY <2>2 DEF WriteFails
    <3>2. CASE outcome = "failed"
      BY <2>1, <3>1, <3>2 DEF Write
    <3>3. CASE outcome = "emptied"
      <4>1. \A key \in DOMAIN AllSettings : <<"file", key>> \in left'
        BY <3>1, <3>3 DEF Unwritten, InFile
      <4>2. DOMAIN AllSettings' = DOMAIN AllSettings
        BY <1>1 DEF AllSettings
      <4> QED
        BY <4>1, <4>2 DEF FileStays, FiledNow
    <3> QED
      BY <3>1, <3>2, <3>3 DEF Outcomes
  <2> QED
    BY <2>1, <2>2 DEF Refuse, Reply, settingVars
<1> QED
  BY <1>1, <1>2, <1>3, <1>4, AllTake DEF UnderWay

LEMMA AskForTakes ==
  ASSUME CallsFit, StageInv, ReadPlans, RequestsTake, NEW u \in Users, AskFor(u)
  PROVE  RequestsTake'
<1>1. UNCHANGED <<settingVars, left>>
  BY DEF AskFor
<1>2. PICK op \in DOMAIN plan.inputs : \E input \in plan.inputs[op] :
        /\ Sendable(input)
        /\ calls' = [calls EXCEPT ![u] = [NoCall EXCEPT !.op = op, !.input = input, !.todo = StepsOf(op, input),
                                                        !.answer = "pending"]]
  BY DEF AskFor
<1>3. PICK input \in plan.inputs[op] :
        /\ Sendable(input)
        /\ calls' = [calls EXCEPT ![u] = [NoCall EXCEPT !.op = op, !.input = input, !.todo = StepsOf(op, input),
                                                        !.answer = "pending"]]
  BY <1>2
<1>4. /\ calls'[u].op = op /\ calls'[u].input = input /\ calls'[u].todo = StepsOf(op, input)
      /\ \A w \in Users \ {u} : calls'[w] = calls[w]
  <2>1. calls = [w \in Users |-> calls[w]]
    BY DEF CallsFit
  <2>2. /\ calls'[u] = [NoCall EXCEPT !.op = op, !.input = input, !.todo = StepsOf(op, input), !.answer = "pending"]
        /\ \A w \in Users \ {u} : calls'[w] = calls[w]
    BY <1>3, <2>1
  <2> QED
    BY <2>2 DEF NoCall
<1>5. \A key \in DOMAIN input : ReadsBack(key, input[key])
  <2>1. CASE plan \in Plans
    BY <1>2, <1>3, <2>1 DEF ReadPlans, ReadAsGiven
  <2>2. CASE plan = NoPlan
    <3>1. DOMAIN plan.inputs = {}
      BY <2>2 DEF NoPlan
    <3> QED
      BY <1>2, <3>1
  <2> QED
    BY <2>1, <2>2 DEF StageInv
<1>6. DoneKeys(calls'[u]) = {}
  BY <1>4 DEF DoneKeys, Named
<1>7. Setting("password")' = Setting("password")
  <2>1. Get("password")' = Get("password")
    BY <1>1, SameIsRead DEF settingVars, AllSettings
  <2> QED
    BY <2>1, ComparedAre, ComparedIsRead
<1>8. HashTakes(u)'
  <2> SUFFICES ASSUME "password" \in DOMAIN input, input["password"][1] # 0 PROVE Setting("password") = input["password"]
    BY <1>4, <1>7 DEF HashTakes
  <2> QED
    BY <1>3 DEF Sendable
<1>9. Takes(u)'
  <2>1. \A key : KeyTakes(u, key)'
    BY <1>6 DEF KeyTakes
  <2>2. \A key \in DOMAIN calls'[u].input : ReadsBack(key, calls'[u].input[key])
    BY <1>4, <1>5
  <2> QED
    BY <1>6, <1>8, <2>1, <2>2 DEF Takes
<1>10. \A key : SettingStays(key) /\ FileStays(key)
  <2>1. \A key : SettingStays(key)
    BY <1>1, NothingSet DEF settingVars
  <2>2. \A key : FileStays(key)
    BY <1>1 DEF FileStays, settingVars
  <2> QED
    BY <2>1, <2>2
<1>11. UNCHANGED overrides
  BY <1>1 DEF settingVars
<1> QED
  BY <1>4, <1>9, <1>10, <1>11, AllTake

\* The setting of the user interface that is given is put among what others have set by now.
LEMMA ReadUITakes ==
  ASSUME CallsFit, ReadPlans, RequestsTake, NEW u \in Users, ReadUI(u)
  PROVE  RequestsTake'
<1>1. UNCHANGED <<settingVars, left>> /\ Doing(u, "read")
  BY DEF ReadUI
<1>2. calls = [w \in Users |-> calls[w]] /\ \A w \in Users : CallFits(calls[w])
  BY DEF CallsFit
<1>3. calls[u].op = "ui setting"
  <2>1. PICK i \in calls[u].todo : OrderOf(calls[u].op)[i] = "read"
    BY <1>1 DEF Doing
  <2> QED
    BY <1>2, <2>1, OrdersFit DEF CallFits, StepsOf
<1>4. PICK given :
        /\ DOMAIN given = {"ui"} /\ given["ui"] # Unset
        /\ calls'[u].input = given /\ calls'[u].todo = Rest(calls[u].todo) /\ calls'[u].op = calls[u].op
        /\ \A w \in Users \ {u} : calls'[w] = calls[w]
  <2> DEFINE given == [key \in {"ui"} |-> Over(calls[u].input, Setting("ui"))]
  <2>1. /\ Advanced(u)[u] = [calls[u] EXCEPT !.todo = {i \in @ : \E j \in @ : j < i}]
        /\ \A w \in Users \ {u} : Advanced(u)[w] = calls[w]
        /\ Advanced(u) = [w \in Users |-> Advanced(u)[w]]
    BY <1>2 DEF Advanced
  <2>2. Advanced(u)[u] = [op |-> calls[u].op, input |-> calls[u].input, todo |-> Rest(calls[u].todo),
                          refreshScraperCache |-> calls[u].refreshScraperCache,
                          others |-> calls[u].others, answer |-> calls[u].answer]
    BY <1>2, <2>1 DEF Rest, CallFits
  <2>3. /\ calls'[u] = [Advanced(u)[u] EXCEPT !.input = given]
        /\ \A w \in Users \ {u} : calls'[w] = calls[w]
    BY <2>1, <2>2 DEF ReadUI
  <2>4. given["ui"] = Over(calls[u].input, Setting("ui")) /\ DOMAIN given = {"ui"}
    OBVIOUS
  <2>5. Over(calls[u].input, Setting("ui")) # Unset
    <3> DEFINE all == Over(calls[u].input, Setting("ui"))
    <3>1. all = [x \in DOMAIN all |-> all[x]]
      BY DEF Over
    <3> HIDE DEF all
    <3>2. all # Unset
      BY <3>1 DEF ReadPlans
    <3> QED
      BY <3>2 DEF all
  <2> HIDE DEF given
  <2>6. calls'[u].input = given /\ calls'[u].todo = Rest(calls[u].todo) /\ calls'[u].op = calls[u].op
    BY <2>2, <2>3
  <2> QED
    BY <2>3, <2>4, <2>5, <2>6
<1>5. \A key \in DOMAIN calls'[u].input : ReadsBack(key, calls'[u].input[key])
  BY <1>4 DEF ReadsBack, DefaultChoices, DefaultNumbers, Switches
<1>6. Takes(u)
  BY <1>1 DEF RequestsTake, Doing
<1>7. DoneKeys(calls'[u]) = {} /\ ~ToCome(calls'[u], "read")
  <2> DEFINE d == calls'[u]
  <2>1. d.op = calls[u].op /\ d.todo = Rest(calls[u].todo) /\ StepsOf(d.op, d.input) = StepsOf(calls[u].op, calls[u].input)
    BY <1>3, <1>4 DEF StepsOf, SettingsIn
  <2> HIDE DEF d
  <2>2. /\ \A key \in DoneKeys(d) : key \in DoneKeys(calls[u]) \/ "read" \notin Controls
        /\ ~ToCome(d, "read") /\ ToCome(calls[u], "read")
    BY <1>1, <2>1, OnlyFirstIsDone
  <2>3. DoneKeys(d) = {}
    BY <1>6, <2>2 DEF Takes, Controls
  <2> QED
    BY <2>2, <2>3 DEF d
<1>8. Takes(u)'
  <2>1. (\A key : KeyTakes(u, key)') /\ HashTakes(u)'
    BY <1>4, <1>7 DEF KeyTakes, HashTakes
  <2> QED
    BY <1>5, <1>7, <2>1 DEF Takes
<1>9. (\A key : SettingStays(key)) /\ (\A key : FileStays(key)) /\ UNCHANGED overrides
  <2>1. \A key : SettingStays(key)
    BY <1>1, NothingSet DEF settingVars
  <2> QED
    BY <1>1, <2>1 DEF FileStays, settingVars
<1> QED
  BY <1>4, <1>8, <1>9, AllTake

LEMMA RequestStepTakes ==
  ASSUME CallsFit, StageInv, ReadPlans, LayersFit, RequestsTake, NEW u \in Users, ConfigureStep(u)
  PROVE  RequestsTake'
BY SkipTakes, SetTakes, EndTakes, ControlsTake, AskForTakes, ReadUITakes DEF ConfigureStep

-----------------------------------------------------------------------------
(* Settings that fit, and the file that is known, under requests. *)

LEMMA SetFits ==
  ASSUME CallsFit, ReadPlans, Fitting(AllSettings), RequestsTake, NEW u \in Users, NEW key, Set(u, key)
  PROVE  Fitting(AllSettings)' /\ DOMAIN AllSettings \subseteq DOMAIN AllSettings'
<1> DEFINE input == calls[u].input
           value == NewValue(key, input)
<1>1. /\ DOMAIN AllSettings' = DOMAIN AllSettings \cup {key} /\ AllSettings'[key] = value
      /\ \A k \in DOMAIN AllSettings \ {key} : AllSettings'[k] = AllSettings[k]
  BY SetGives DEF Set
<1>2. key \in Compared => key \in DOMAIN input
  <2> SUFFICES ASSUME key \in Compared PROVE key \in DOMAIN input
    OBVIOUS
  <2>1. PICK i \in calls[u].todo : OrderOf(calls[u].op)[i] = key /\ key \notin Controls
    BY DEF Set, Doing
  <2>2. calls[u].todo \subseteq StepsOf(calls[u].op, calls[u].input)
    BY DEF CallsFit, CallFits
  <2>3. key \in SettingsIn(calls[u].op, calls[u].input)
    BY <2>1, <2>2 DEF StepsOf
  <2>4. key \notin {"api_key", "ui"}
    BY ComparedAre DEF ReadPlainly
  <2> QED
    BY <2>3, <2>4 DEF SettingsIn
<1>3. key \in Compared => ReadsBack(key, input[key])
  BY <1>2 DEF Set, Doing, RequestsTake, Takes
<1>4. key \in Compared => ValueFits(key, value)
  <2>1. CASE key \in Compared /\ key # "password"
    <3>1. value = input[key]
      BY <1>3, <2>1 DEF NewValue, ReadsBack
    <3>2. "video_file_naming_algorithm" \in DOMAIN DefaultChoices /\ "dlna.default_enabled" \in Switches
      BY DEF DefaultChoices, Switches
    <3> QED
      BY <1>3, <2>1, <3>1, <3>2 DEF ValueFits, ReadsBack
  <2>2. CASE key = "password"
    <3> DEFINE given == input["password"]
    <3>1. given = <<given[1], given[2]>> /\ given[1] \in {0, 1} /\ given # Unset
      BY <1>3, <2>2, ComparedAre DEF ReadsBack
    <3>2. value = SetPassword(given)
      BY <2>2 DEF NewValue
    <3> HIDE DEF given
    <3>3. CASE given[2] = ""
      BY <2>2, <3>1, <3>2, <3>3 DEF SetPassword, ValueFits
    <3>4. CASE given[2] # ""
      <4>1. value = [given EXCEPT ![1] = @ + 1]
        BY <3>2, <3>4 DEF SetPassword
      <4>2. value = <<given[1] + 1, given[2]>>
        BY <3>1, <4>1, NextHash
      <4>3. value # Unset /\ value[1] = given[1] + 1
        BY <4>2, PairIsSet, PairParts
      <4>4. value[1] # 0
        BY <3>1, <4>3
      <4> HIDE DEF value
      <4> QED
        BY <2>2, <4>3, <4>4 DEF ValueFits
    <3> QED
      BY <3>3, <3>4
  <2> QED
    BY <2>1, <2>2
<1> HIDE DEF value
<1> QED
  BY <1>1, <1>4 DEF Fitting

\* What is in the file fits if it is what was there, what is in force, or nothing.
LEMMA LayersStayFit ==
  ASSUME LayersFit, Fitting(AllSettings)',
         disk' = disk \/ disk' = <<>> \/ disk' = AllSettings \/ disk' = AllSettings'
  PROVE  LayersFit'
<1>1. CASE disk' = disk
  BY <1>1 DEF LayersFit, Fitting
<1>2. CASE disk' = <<>>
  BY <1>2 DEF LayersFit, Fitting
<1>3. CASE disk' = AllSettings \/ disk' = AllSettings'
  BY <1>3 DEF LayersFit, Fitting
<1> QED
  BY <1>1, <1>2, <1>3

LEMMA UsersConfigureTakes == ASSUME ConfigInv, ReadPlans, TakeInv, UsersConfigure PROVE TakeInv'
<1>1. PICK u \in Users : ConfigureStep(u)
  BY DEF UsersConfigure
<1>2. Serving /\ UNCHANGED <<stage, task, config, defaults, isNewSystem>>
  BY <1>1 DEF UsersConfigure, Serving, ConfigureStep, AskFor, ReadUI, WriteFile, WriteFails, Refresh, RefreshScrapers,
              Reply, Skip, Set, Refuse, settingVars
<1>3. RequestsTake'
  BY <1>1, RequestStepTakes DEF ConfigInv, TakeInv
<1>4. Fitting(AllSettings)' /\ DOMAIN AllSettings \subseteq DOMAIN AllSettings'
  <2>1. CASE \E key : Set(u, key)
    BY <2>1, SetFits DEF ConfigInv, TakeInv, LayersFit
  <2>2. CASE changed' = changed
    <3>1. AllSettings' = AllSettings
      BY <1>2, <2>2 DEF AllSettings
    <3> QED
      BY <3>1 DEF TakeInv, LayersFit, Fitting
  <2> QED
    BY <1>1, <2>1, <2>2 DEF ConfigureStep, AskFor, ReadUI, WriteFile, WriteFails, Refresh, RefreshScrapers, Reply,
                            Skip, Refuse, settingVars
<1>5. disk' = disk \/ disk' = <<>> \/ disk' = AllSettings
  BY <1>1 DEF ConfigureStep, AskFor, ReadUI, WriteFile, WriteFails, Refresh, RefreshScrapers, Reply, Skip, Set,
              Refuse, settingVars, Write, Outcomes
<1>6. LayersFit'
  BY <1>4, <1>5, LayersStayFit DEF TakeInv
<1>7. Quiet'
  BY <1>2 DEF Quiet, Serving
<1>8. FileKnown'
  <2>1. DOMAIN disk \subseteq DOMAIN AllSettings
    BY <1>2 DEF TakeInv, FileKnown, Located, Serving
  <2>2. DOMAIN disk' \subseteq DOMAIN AllSettings'
    BY <1>4, <1>5, <2>1
  <2>3. task'.job # "boot"
    BY <1>2 DEF ConfigInv, StageInv, Serving
  <2> QED
    BY <2>2, <2>3 DEF FileKnown
<1> QED
  BY <1>3, <1>6, <1>7, <1>8 DEF TakeInv

-----------------------------------------------------------------------------
(* Every other step leaves requests alone, or there is none. *)

\* A step in which no setting is set or written.
LEMMA SettingsStayTaken ==
  ASSUME CallsFit, TakeInv, UNCHANGED <<overrides, changed, config, defaults, disk, calls>>,
         ~Serving \/ (Serving' /\ UNCHANGED left), FileKnown'
  PROVE  TakeInv'
<1>1. AllSettings' = AllSettings
  BY DEF AllSettings
<1>2. LayersFit'
  BY <1>1 DEF TakeInv, LayersFit, Fitting
<1>3. CASE ~Serving
  <2>1. \A u \in Users : ~UnderWay(u)'
    BY <1>3 DEF TakeInv, Quiet, UnderWay
  <2> QED
    BY <1>2, <2>1 DEF TakeInv, Quiet, RequestsTake
<1>4. CASE Serving' /\ UNCHANGED left
  <2>1. \A key : SettingStays(key) /\ FileStays(key)
    BY <1>4, NothingSet DEF FileStays
  <2>2. ASSUME NEW u \in Users, UnderWay(u)' PROVE Takes(u)'
    <3>1. CallFits(calls[u]) /\ Takes(u)
      BY <2>2 DEF CallsFit, TakeInv, RequestsTake, UnderWay
    <3>2. calls'[u] = [calls[u] EXCEPT !.others = calls'[u].others] /\ calls[u].others \subseteq calls'[u].others
      BY <3>1 DEF CallFits
    <3> QED
      BY <2>1, <3>1, <3>2, OtherTakes
  <2> QED
    BY <1>2, <1>4, <2>2 DEF TakeInv, Quiet, RequestsTake
<1> QED
  BY <1>3, <1>4

\* A step of a start or of the wizard, beside which there are no requests.
LEMMA QuietTakes ==
  ASSUME TakeInv, ~Serving, UNCHANGED calls \/ (\A u \in Users : ~UnderWay(u)'), LayersFit', FileKnown'
  PROVE  TakeInv'
<1>1. \A u \in Users : ~UnderWay(u)'
  BY DEF TakeInv, Quiet, UnderWay
<1> QED
  BY <1>1 DEF TakeInv, Quiet, RequestsTake

Steps ==
  {"existing", "initialize", "validate", "initial", "refresh", "scrapers", "database", "location", "generated",
   "settings", "write", "reopen", "backup", "mark", "run", "post migrate"}
LEMMA NeverFirstAgain ==
  ASSUME TaskFits(task), task.job # "none",
         \/ Proceed /\ task.at \in Steps
         \/ \E step : step # "existing" /\ GoesTo(step)
         \/ \E why : GivesUp(why)
         \/ task' = NoTask
  PROVE  task'.at # "existing"
<1>1. CASE Proceed /\ task.at \in Steps
  <2>1. task'.at = Following(task.at)
    BY <1>1, GoesToGives DEF Proceed
  <2>2. CASE task.at # "post migrate"
    BY <1>1, <2>1, <2>2, TaskOrder DEF Steps
  <2>3. CASE task.at = "post migrate"
    <3>1. LastSteps["boot"] = "serve" /\ LastSteps["setup"] = "finalize" /\ LastSteps["migrate"] = "remove backup"
      BY DEF LastSteps
    <3>2. task.job \in {"boot", "setup", "migrate"}
      BY DEF TaskFits
    <3>3. task'.at = LastSteps[task.job]
      BY <2>1, <2>3, TaskOrder
    <3> QED
      BY <3>1, <3>2, <3>3
  <2> QED
    BY <2>2, <2>3
<1>2. CASE \E step : step # "existing" /\ GoesTo(step)
  BY <1>2, GoesToGives
<1>3. CASE \E why : GivesUp(why)
  BY <1>3, GivesUpGives, NoTaskFits
<1>4. CASE task' = NoTask
  BY <1>4, NoTaskFits
<1> QED
  BY <1>1, <1>2, <1>3, <1>4

\* Once it is located, the file goes on to be known.
LEMMA FileIsKnown ==
  ASSUME StageInv, TaskFits(task), FileKnown, task.job # "none",
         ~(task.job = "boot" /\ task.at = "existing"), ~(task.job = "setup" /\ task.at = "location")
  PROVE  DOMAIN disk \subseteq DOMAIN AllSettings
<1>1. Located
  BY DEF Located, Serving, StageInv, TaskFits
<1>2. stage \in {"starting", "serving"}
  BY DEF StageInv, TaskFits
<1> QED
  BY <1>1, <1>2 DEF FileKnown

LEMMA KnownIsKnown ==
  ASSUME DOMAIN disk' \subseteq DOMAIN AllSettings', task'.at # "existing" \/ task'.job # "boot"
  PROVE  FileKnown'
BY DEF FileKnown

\* A task goes on, and only the server itself stands before the reading of the file.
LEMMA TaskIsKnown ==
  ASSUME DataInv, StageInv, FileKnown, task.job # "none", DOMAIN AllSettings \subseteq DOMAIN AllSettings',
         task.at \notin {"existing", "location"}, disk' = disk \/ disk' = <<>> \/ disk' = AllSettings',
         \/ Proceed /\ task.at \in Steps
         \/ \E step : step # "existing" /\ GoesTo(step)
         \/ \E why : GivesUp(why)
         \/ task' = NoTask
  PROVE  FileKnown'
<1>1. TaskFits(task)
  BY DEF DataInv, ServerInv
<1>2. DOMAIN disk \subseteq DOMAIN AllSettings
  BY <1>1, FileIsKnown
<1>3. DOMAIN disk' \subseteq DOMAIN AllSettings'
  BY <1>2
<1>4. task'.at # "existing"
  BY <1>1, NeverFirstAgain
<1> QED
  BY <1>3, <1>4, KnownIsKnown

LEMMA InitializeTakes == ASSUME ConfigInv, TakeInv, Initialize PROVE TakeInv'
<1>1. /\ UNCHANGED <<disk, calls>> /\ changed' = <<>> /\ defaults' = <<>> /\ stage = "down"
      /\ config' = (IF disk = NoFile THEN <<>> ELSE disk)
      /\ isNewSystem' = (disk = NoFile /\ ~InitialisedByEnvironment)
  BY DEF Initialize, ReadConfig, configureVars
<1>2. /\ isNewSystem' => stage' = "serving" /\ task' = NoTask
      /\ ~isNewSystem' => stage' = "starting" /\ task' = [job |-> "boot", at |-> "existing", input |-> <<>>]
  BY <1>1 DEF Initialize, NoTask
<1>3. /\ DOMAIN AllSettings' = DOMAIN config'
      /\ \A key \in DOMAIN config' : AllSettings'[key] = config'[key]
  BY <1>1 DEF AllSettings, Over
<1>4. LayersFit'
  <2>1. CASE disk = NoFile
    BY <1>1, <1>3, <2>1 DEF LayersFit, Fitting
  <2>2. CASE disk # NoFile
    BY <1>1, <1>3, <2>2 DEF TakeInv, LayersFit, Fitting
  <2> QED
    BY <2>1, <2>2
<1>5. FileKnown'
  <2>1. disk' # NoFile => DOMAIN disk' \subseteq DOMAIN AllSettings'
    BY <1>1, <1>3
  <2>2. CASE isNewSystem'
    BY <1>1, <1>2, <2>1, <2>2, NoTaskFits DEF FileKnown, Located, Serving
  <2>3. CASE ~isNewSystem'
    BY <1>1, <1>2, <2>1, <2>3 DEF FileKnown, Located, Serving
  <2> QED
    BY <2>2, <2>3
<1> QED
  BY <1>1, <1>4, <1>5, QuietTakes DEF Serving

LEMMA OverTwice == ASSUME NEW f, NEW g, NEW h PROVE Over(f, Over(g, h)) = Over(Over(f, g), h)
BY DEF Over

LEMMA OverKeeps ==
  ASSUME NEW f, NEW g, Fitting(g), \A key \in DOMAIN f \cap Compared : ValueFits(key, f[key])
  PROVE  Fitting(Over(f, g)) /\ DOMAIN g \subseteq DOMAIN Over(f, g)
BY DEF Fitting, Over

LEMMA ExistingDefaultsTake == ASSUME ConfigInv, DataInv, TakeInv, SetsExistingDefaults PROVE TakeInv'
<1>1. task.at = "existing" /\ task.job = "boot" /\ stage = "starting" /\ TaskFits(task)
  BY DEF SetsExistingDefaults, Upcoming, DataInv, ServerInv, TaskFits, BootPart, SetupPart, MigrationPart,
         ConfigInv, StageInv
<1>2. PICK outcome \in Outcomes :
        /\ outcome # "written" => ExistingSystemDefaults # <<>>
        /\ SetExistingSystemDefaults(outcome)
        /\ IF outcome = "written" THEN Proceed /\ UNCHANGED <<stage, reason>> ELSE GivesUp("configuration")
  BY DEF SetsExistingDefaults
<1> DEFINE new == ExistingSystemDefaults
<1>3. UNCHANGED <<calls, config, defaults>> /\ changed' = Over(new, changed)
  BY <1>2 DEF SetsExistingDefaults, SetExistingSystemDefaults
<1>4. AllSettings' = Over(new, AllSettings)
  BY <1>3, OverTwice DEF AllSettings
<1>5. DOMAIN new = {"noBrowser", "show_one_time_moved_notification"} \ DOMAIN config
  BY DEF ExistingSystemDefaults
<1>6. new = <<>> => config # <<>>
  BY <1>5
<1>7. IF new = <<>> THEN disk' = disk ELSE Write(Over(new, AllSettings), outcome)
  BY <1>2 DEF SetExistingSystemDefaults
<1> HIDE DEF new
<1>8. disk' = disk \/ disk' = <<>> \/ disk' = AllSettings'
  BY <1>4, <1>7 DEF Write, Outcomes
<1>9. Fitting(AllSettings') /\ DOMAIN AllSettings \subseteq DOMAIN AllSettings'
  BY <1>4, <1>5, OverKeeps, ComparedAre DEF TakeInv, LayersFit, ReadPlainly
<1>10. LayersFit'
  BY <1>8, <1>9, LayersStayFit DEF TakeInv, Fitting
<1>11. FileKnown'
  <2>1. CASE outcome = "written"
    <3>1. task'.at = "initialize"
      <4>1. GoesTo(Following(task.at))
        BY <1>2, <2>1 DEF Proceed
      <4>2. GoesTo("initialize")
        BY <1>1, <4>1, TaskOrder
      <4> QED
        BY <1>1, <4>2, GoesToGives
    <3>2. DOMAIN disk' \subseteq DOMAIN AllSettings'
      <4>1. CASE new = <<>>
        BY <1>1, <1>6, <1>7, <1>9, <4>1 DEF TakeInv, FileKnown
      <4>2. CASE new # <<>>
        BY <1>4, <1>7, <2>1, <4>2 DEF Write
      <4> QED
        BY <4>1, <4>2
    <3> QED
      BY <3>1, <3>2, KnownIsKnown
  <2>2. CASE outcome # "written"
    <3>1. stage' = "failed" /\ task' = NoTask
      BY <1>1, <1>2, <2>2 DEF GivesUp
    <3> QED
      BY <3>1, NoTaskFits DEF FileKnown
  <2> QED
    BY <2>1, <2>2
<1> QED
  BY <1>1, <1>3, <1>10, <1>11, QuietTakes DEF Serving

LEMMA InitialFits ==
  ASSUME Fitting(AllSettings), NEW outcome, SetInitialConfig(outcome)
  PROVE  /\ AllSettings' = InitialSettings /\ Fitting(AllSettings')
         /\ DOMAIN AllSettings \subseteq DOMAIN AllSettings'
<1>1. AllSettings' = InitialSettings
  BY InitialGives
<1> DEFINE new == GeneratedKeys
           deflt == DefaultValues
<1>2. DOMAIN new \cap Compared = {}
  BY ComparedAre DEF GeneratedKeys, ReadPlainly
<1>3. ASSUME NEW key \in DOMAIN deflt \cap Compared PROVE key \in {"database", "generated", "scrapers_path"}
  BY <1>3, ComparedAre DEF DefaultValues, ReadPlainly
<1>4. deflt["database"] # Unset /\ deflt["generated"] # Unset /\ deflt["scrapers_path"] # Unset
  <2>1. deflt["scrapers_path"] = "scrapers"
    BY DEF DefaultValues
  <2> QED
    BY <2>1, DefaultsGive, UnsetAssumption
<1>5. \A key \in DOMAIN deflt \cap Compared : ValueFits(key, deflt[key])
  BY <1>3, <1>4 DEF ValueFits
<1>6. AllSettings' = Over(Over(new, changed), Over(config, Over(deflt, defaults)))
  BY <1>1 DEF InitialSettings
<1>7. AllSettings = Over(changed, Over(config, defaults))
  BY DEF AllSettings
<1> HIDE DEF new, deflt
<1>8. DOMAIN AllSettings \subseteq DOMAIN AllSettings'
  BY <1>6, <1>7 DEF Over
<1>9. ASSUME NEW key \in DOMAIN AllSettings' \cap Compared PROVE ValueFits(key, AllSettings'[key])
  <2>1. key \notin DOMAIN new
    BY <1>2
  <2>2. CASE key \in DOMAIN changed \cup DOMAIN config
    <3>1. key \in DOMAIN AllSettings /\ AllSettings'[key] = AllSettings[key]
      BY <1>6, <1>7, <2>1, <2>2 DEF Over
    <3> QED
      BY <3>1 DEF Fitting
  <2>3. CASE key \notin DOMAIN changed \cup DOMAIN config /\ key \in DOMAIN deflt
    <3>1. AllSettings'[key] = deflt[key]
      BY <1>6, <2>1, <2>3 DEF Over
    <3> QED
      BY <1>5, <2>3, <3>1
  <2>4. CASE key \notin DOMAIN changed \cup DOMAIN config \cup DOMAIN deflt
    <3>1. key \in DOMAIN AllSettings /\ AllSettings'[key] = AllSettings[key]
      BY <1>6, <1>7, <2>1, <2>4 DEF Over
    <3> QED
      BY <3>1 DEF Fitting
  <2> QED
    BY <2>2, <2>3, <2>4
<1> QED
  BY <1>1, <1>8, <1>9 DEF Fitting

LEMMA InitialTakes ==
  ASSUME ConfigInv, DataInv, TakeInv, NEW step \in {"initialize", "initial"}, SetsInitialConfig(step)
  PROVE  TakeInv'
<1>1. task.at = step /\ task.job \in {"boot", "setup"} /\ TaskFits(task)
  BY DEF SetsInitialConfig, Upcoming, DataInv, ServerInv, TaskFits, BootPart, SetupPart, MigrationPart
<1>2. ~Serving
  BY <1>1 DEF ConfigInv, StageInv, Serving
<1>3. PICK outcome \in Outcomes :
        /\ SetInitialConfig(outcome)
        /\ IF outcome = "written" \/ step = "initial" THEN Proceed /\ UNCHANGED <<stage, reason>>
           ELSE GivesUp("configuration")
  BY DEF SetsInitialConfig
<1>4. UNCHANGED calls /\ Write(InitialSettings, outcome)
  BY <1>3 DEF SetsInitialConfig, SetInitialConfig
<1>5. AllSettings' = InitialSettings /\ Fitting(AllSettings') /\ DOMAIN AllSettings \subseteq DOMAIN AllSettings'
  BY <1>3, InitialFits DEF TakeInv, LayersFit
<1>6. disk' = disk \/ disk' = <<>> \/ disk' = AllSettings'
  BY <1>4, <1>5 DEF Write, Outcomes
<1>7. LayersFit'
  BY <1>5, <1>6, LayersStayFit DEF TakeInv, Fitting
<1>8. Proceed \/ (\E why : GivesUp(why))
  BY <1>3
<1>9. FileKnown'
  BY <1>1, <1>5, <1>6, <1>8, TaskIsKnown DEF ConfigInv, TakeInv, Steps
<1> QED
  BY <1>2, <1>4, <1>7, <1>9, QuietTakes

-----------------------------------------------------------------------------
(* Steps of a task that set nothing, those of the wizard, and the last. *)

LEMMA TasksTake ==
  ASSUME ConfigInv, DataInv, TakeInv,
         \/ Validate \/ MakesAnew \/ OpensDatabase \/ Migrates \/ MigrationFails \/ BacksUp \/ RunMigrations
         \/ Restores \/ RemovesBackup \/ Serves \/ FinalizeSetup
  PROVE  TakeInv'
<1>1. UNCHANGED <<overrides, changed, config, defaults, disk, calls>>
  BY DEF Validate, MakesAnew, OpensDatabase, Migrates, MigrationFails, BacksUp, RunMigrations, Restores, RemovesBackup,
         Serves, FinalizeSetup, settingVars, configureVars
<1>2. /\ task.job # "none" /\ task.at \notin {"existing", "location"}
      /\ task.at \in Steps \cup {"clean", "migrations", "restore", "remove backup", "serve", "finalize"}
  <2>1. task.at \in (Steps \ {"existing", "location"})
                     \cup {"clean", "migrations", "restore", "remove backup", "serve", "finalize"}
    BY DEF Validate, MakesAnew, OpensDatabase, Migrates, MigrationFails, BacksUp, RunMigrations, Restores,
           RemovesBackup, Serves, FinalizeSetup, Upcoming, Steps
  <2>2. task.job = "none" => task.at = "none"
    BY DEF DataInv, ServerInv, TaskFits
  <2> QED
    BY <2>1, <2>2 DEF Steps
<1>3. \/ Proceed /\ task.at \in Steps
      \/ \E step : step # "existing" /\ GoesTo(step)
      \/ \E why : GivesUp(why)
      \/ task' = NoTask
  <2>1. ASSUME NEW file, NextMigration(file) PROVE \E step : step # "existing" /\ GoesTo(step)
    BY <2>1 DEF NextMigration
  <2>2. CASE Validate \/ MakesAnew \/ MigrationFails \/ BacksUp \/ Restores \/ RemovesBackup \/ Serves \/ FinalizeSetup
    BY <2>2 DEF Validate, MakesAnew, MigrationFails, BacksUp, Restores, RemovesBackup, Serves, FinalizeSetup, Upcoming,
                Steps
  <2>3. CASE OpensDatabase \/ Migrates \/ RunMigrations
    BY <2>1, <2>3 DEF OpensDatabase, Migrates, RunMigrations, Upcoming, Steps
  <2> QED
    BY <2>2, <2>3
<1>4. AllSettings' = AllSettings
  BY <1>1 DEF AllSettings
<1>5. FileKnown'
  BY <1>1, <1>2, <1>3, <1>4, TaskIsKnown DEF ConfigInv, TakeInv
<1>6. ~Serving \/ (Serving' /\ UNCHANGED left)
  <2>1. ASSUME Serving PROVE task.job \notin {"boot", "setup"} /\ task.job = "migrate"
    BY <1>2, <2>1 DEF ConfigInv, StageInv, Serving, DataInv, ServerInv, TaskFits
  <2>2. CASE task.job = "migrate"
    <3>1. task.at \in MigrationPart \cup {"backup", "migrations", "restore", "post migrate", "remove backup"}
      BY <2>2 DEF DataInv, ServerInv, TaskFits
    <3>2. UNCHANGED <<stage, isNewSystem, left>>
      BY <2>2, <3>1 DEF Validate, MakesAnew, OpensDatabase, Migrates, MigrationFails, BacksUp, RunMigrations, Restores,
                        RemovesBackup, Serves, FinalizeSetup, Upcoming, GivesUp, StepsOnly, MigrationPart, settingVars,
                        configureVars
    <3> QED
      BY <3>2 DEF Serving
  <2> QED
    BY <2>1, <2>2
<1> QED
  BY <1>1, <1>5, <1>6, SettingsStayTaken DEF ConfigInv

LEMMA AskedTake == ASSUME ConfigInv, TakeInv, Setup \/ Migrate PROVE TakeInv'
<1>1. /\ UNCHANGED <<overrides, changed, config, defaults, disk, calls, left, stage, isNewSystem>>
      /\ stage = "serving" /\ (isNewSystem \/ Serving)
  BY DEF Setup, Migrate, StepsOnly, settingVars, configureVars, Serving
<1>2. AllSettings' = AllSettings
  BY <1>1 DEF AllSettings
<1>3. FileKnown'
  <2>1. CASE Setup
    <3>1. task'.job = "setup" /\ task'.at = "location" /\ isNewSystem
      BY <2>1 DEF Setup
    <3> QED
      BY <1>1, <1>2, <3>1 DEF TakeInv, FileKnown, Located, Serving
  <2>2. CASE Migrate
    <3>1. task'.job = "migrate" /\ Serving
      BY <2>2 DEF Migrate, Serving
    <3> QED
      BY <1>1, <1>2, <3>1 DEF TakeInv, FileKnown, Located, Serving
  <2> QED
    BY <2>1, <2>2
<1> QED
  BY <1>1, <1>3, SettingsStayTaken DEF ConfigInv, Serving

LEMMA NothingIsTaken ==
  ASSUME ConfigInv, TakeInv, UNCHANGED <<settingVars, calls, left, stage, task>>
  PROVE  TakeInv'
<1>1. AllSettings' = AllSettings
  BY DEF AllSettings, settingVars
<1>2. FileKnown'
  BY <1>1 DEF TakeInv, FileKnown, Located, Serving, settingVars
<1>3. UNCHANGED <<overrides, changed, config, defaults, disk, calls>> /\ (~Serving \/ (Serving' /\ UNCHANGED left))
  BY DEF settingVars, Serving
<1> QED
  BY <1>2, <1>3, SettingsStayTaken DEF ConfigInv

LEMMA WizardTakes ==
  ASSUME ConfigInv, DataInv, TakeInv, TouchConfig \/ MakeGenerated \/ SetUpSettings \/ WriteSetUp
  PROVE  TakeInv'
<1>1. /\ task.at \in {"location", "generated", "settings", "write"} /\ TaskFits(task)
      /\ UNCHANGED <<calls, config, defaults>>
  BY DEF TouchConfig, MakeGenerated, SetUpSettings, WriteSetUp, Upcoming, configureVars, DataInv, ServerInv
<1>2. task.job = "setup"
  BY <1>1 DEF TaskFits, BootPart, MigrationPart
<1>3. ~Serving /\ stage = "serving" /\ \A key \in Mandatory : task.input[key] # Unset
  BY <1>2 DEF ConfigInv, StageInv, Serving, Given
<1>4. \/ changed' = changed
      \/ \E f : /\ changed' = Over(f, changed) /\ \A key \in DOMAIN f \cap Compared : ValueFits(key, f[key])
  <2>1. CASE MakeGenerated
    <3> DEFINE f == [key \in {"generated"} |-> task.input.generated]
    <3>1. changed' = changed \/ changed' = Over(f, changed)
      BY <2>1 DEF MakeGenerated, SetTo
    <3>2. \A key \in DOMAIN f \cap Compared : ValueFits(key, f[key])
      BY <1>3 DEF ValueFits, Mandatory
    <3> HIDE DEF f
    <3> QED
      BY <3>1, <3>2
  <2>2. CASE SetUpSettings
    <3> DEFINE chosen == IF HasOverride("database") THEN {"stash"} ELSE {"stash", "database"}
               f == [key \in chosen |-> task.input[key]]
    <3>1. changed' = Over(f, changed)
      BY <2>2 DEF SetUpSettings
    <3>2. DOMAIN f \cap Compared \subseteq {"database"}
      BY ComparedAre DEF ReadPlainly
    <3>3. \A key \in DOMAIN f \cap Compared : ValueFits(key, f[key])
      BY <1>3, <3>2 DEF ValueFits, Mandatory
    <3> HIDE DEF f
    <3> QED
      BY <3>1, <3>3
  <2> QED
    BY <2>1, <2>2 DEF TouchConfig, MakeGenerated, SetUpSettings, WriteSetUp
<1>5. Fitting(AllSettings') /\ DOMAIN AllSettings \subseteq DOMAIN AllSettings'
  <2>1. CASE changed' = changed
    <3>1. AllSettings' = AllSettings
      BY <1>1, <2>1 DEF AllSettings
    <3> QED
      BY <3>1 DEF TakeInv, LayersFit
  <2>2. CASE changed' # changed
    <3>1. PICK f : changed' = Over(f, changed) /\ \A key \in DOMAIN f \cap Compared : ValueFits(key, f[key])
      BY <1>4, <2>2
    <3>2. AllSettings' = Over(f, AllSettings)
      BY <1>1, <3>1, OverTwice DEF AllSettings
    <3> QED
      BY <3>1, <3>2, OverKeeps DEF TakeInv, LayersFit
  <2> QED
    BY <2>1, <2>2
<1>6. disk' = disk \/ disk' = <<>> \/ disk' = AllSettings'
  <2>1. CASE WriteSetUp
    <3>1. changed' = changed /\ (disk' = disk \/ disk' = <<>> \/ disk' = AllSettings)
      BY <2>1 DEF WriteSetUp, Write, Outcomes
    <3> QED
      BY <1>1, <3>1 DEF AllSettings
  <2> QED
    BY <2>1 DEF TouchConfig, MakeGenerated, SetUpSettings
<1>7. LayersFit'
  BY <1>5, <1>6, LayersStayFit DEF TakeInv, Fitting
<1>8. Proceed \/ \E why : GivesUp(why)
  BY DEF TouchConfig, MakeGenerated, SetUpSettings, WriteSetUp
<1>9. FileKnown'
  <2>1. CASE task.at = "location"
    <3>1. TouchConfig /\ Proceed /\ UNCHANGED stage /\ disk' = IF disk = NoFile THEN <<>> ELSE disk
      BY <2>1 DEF TouchConfig, MakeGenerated, SetUpSettings, WriteSetUp, Upcoming, StepsOnly
    <3>2. GoesTo("generated")
      BY <2>1, <3>1, TaskOrder DEF Proceed
    <3>3. task'.at = "generated"
      BY <1>1, <3>2, GoesToGives
    <3>4. DOMAIN disk' \subseteq DOMAIN AllSettings'
      BY <1>3, <1>5, <3>1 DEF TakeInv, FileKnown
    <3> QED
      BY <3>3, <3>4, KnownIsKnown
  <2>2. CASE task.at # "location"
    <3>1. task.at \in Steps /\ task.at # "existing"
      BY <1>1 DEF Steps
    <3> QED
      BY <1>2, <1>5, <1>6, <1>8, <2>2, <3>1, TaskIsKnown DEF ConfigInv, TakeInv
  <2> QED
    BY <2>1, <2>2
<1> QED
  BY <1>1, <1>3, <1>7, <1>9, QuietTakes

LEMMA GoesDownTakes == ASSUME TakeInv, GoesDown PROVE TakeInv'
<1>1. /\ changed' = <<>> /\ config' = <<>> /\ defaults' = <<>> /\ stage' = "down" /\ task' = NoTask
      /\ disk' = disk \/ disk' = <<>>
      /\ calls' = [u \in Users |-> NoCall]
  BY DEF GoesDown
<1>2. \A u \in Users : ~UnderWay(u)'
  BY <1>1 DEF UnderWay, NoCall
<1>3. DOMAIN AllSettings' = {}
  BY <1>1 DEF AllSettings, Over
<1>4. LayersFit'
  BY <1>1, <1>3, LayersStayFit DEF TakeInv, Fitting
<1>5. FileKnown'
  BY <1>1, NoTaskFits DEF FileKnown
<1> QED
  BY <1>2, <1>4, <1>5 DEF TakeInv, Quiet, RequestsTake

\* A migration that is done sets what was never chosen, and whoever has a request under way is told.
LEMMA PostMigrateTakes == ASSUME ConfigInv, DataInv, TakeInv, PostMigrate PROVE TakeInv'
<1>1. task.at = "post migrate" /\ task.job \in {"boot", "setup", "migrate"}
  BY DEF PostMigrate, Upcoming, DataInv, ServerInv, TaskFits, BootPart, SetupPart, MigrationPart
<1>2. Proceed /\ UNCHANGED <<stage, overrides, changed, config, isNewSystem>>
  BY DEF PostMigrate, StepsOnly, SetChecksumDefaults, settingVars
<1>3. CASE ~Ready
  <2>1. UNCHANGED <<settingVars, calls, left>>
    BY <1>3 DEF PostMigrate
  <2>2. AllSettings' = AllSettings
    BY <2>1 DEF AllSettings, settingVars
  <2>3. FileKnown'
    BY <1>1, <1>2, <2>1, <2>2, TaskIsKnown DEF ConfigInv, TakeInv, Steps, settingVars
  <2>4. UNCHANGED <<overrides, changed, config, defaults, disk, calls>> /\ (~Serving \/ (Serving' /\ UNCHANGED left))
    BY <1>2, <2>1 DEF settingVars, Serving
  <2> QED
    BY <2>3, <2>4, SettingsStayTaken DEF ConfigInv
<1>4. CASE Ready
  <2> DEFINE checksums == ChecksumDefaults(File(open).rows # 0)
             all == WithChecksumDefaults(File(open).rows # 0)
             keys == DOMAIN checksums
  <2>1. PICK outcome \in Outcomes :
          /\ SetChecksumDefaults(File(open).rows # 0, outcome)
          /\ Saved(all, outcome)
          /\ calls' = [u \in Users |-> SetByOthers(u, keys)]
    BY <1>4 DEF PostMigrate
  <2>2. /\ keys = {"video_file_naming_algorithm", "calculate_md5"}
        /\ checksums["video_file_naming_algorithm"] \in {"MD5", "OSHASH"}
    BY DEF ChecksumDefaults
  <2>3. AllSettings' = all /\ Write(all, outcome)
    BY <2>1 DEF SetChecksumDefaults, AllSettings, WithChecksumDefaults
  <2>4. AllSettings' = Over(changed, Over(config, Over(checksums, defaults)))
    BY <2>3 DEF WithChecksumDefaults
  <2>5. AllSettings = Over(changed, Over(config, defaults))
    BY DEF AllSettings
  <2> HIDE DEF checksums, all
  <2>6. DOMAIN AllSettings \subseteq DOMAIN AllSettings'
    BY <2>4, <2>5 DEF Over
  <2>7. Fitting(AllSettings')
    <3> SUFFICES ASSUME NEW key \in DOMAIN AllSettings' \cap Compared PROVE ValueFits(key, AllSettings'[key])
      BY DEF Fitting
    <3>1. CASE key \in DOMAIN AllSettings /\ AllSettings'[key] = AllSettings[key]
      BY <3>1 DEF TakeInv, LayersFit, Fitting
    <3>2. CASE ~(key \in DOMAIN AllSettings /\ AllSettings'[key] = AllSettings[key])
      <4>1. key \in keys /\ AllSettings'[key] = checksums[key]
        BY <2>4, <2>5, <3>2 DEF Over
      <4>2. key = "video_file_naming_algorithm"
        BY <2>2, <4>1, ComparedAre DEF ReadPlainly
      <4>3. AllSettings'[key] \in {"MD5", "OSHASH"} /\ AllSettings'[key] # Unset
        BY <2>2, <4>1, <4>2, UnsetAssumption
      <4> QED
        BY <4>2, <4>3 DEF ValueFits
    <3> QED
      BY <3>1, <3>2
  <2>8. disk' = disk \/ disk' = <<>> \/ disk' = AllSettings'
    BY <2>3 DEF Write, Outcomes
  <2>9. LayersFit'
    BY <2>7, <2>8, LayersStayFit DEF TakeInv, Fitting
  <2>10. FileKnown'
    BY <1>1, <1>2, <2>6, <2>8, TaskIsKnown DEF ConfigInv, TakeInv, Steps
  <2>11. \A key : key \in keys \/ (SettingStays(key) /\ FileStays(key))
    <3> SUFFICES ASSUME NEW key, key \notin keys PROVE SettingStays(key) /\ FileStays(key)
      OBVIOUS
    <3>1. SettingStays(key)
      BY <1>2, <2>4, <2>5, OverLast DEF SettingStays
    <3>2. key \in DOMAIN AllSettings' =>
            (key \in DOMAIN disk' /\ disk'[key] = AllSettings'[key]) \/ <<"file", key>> \in left'
      BY <2>1, <2>3, SavedGives
    <3>3. FileStays(key)
      BY <3>2 DEF FileStays, FiledNow
    <3> QED
      BY <3>1, <3>3
  <2>12. ASSUME NEW u \in Users, UnderWay(u)'
         PROVE  UnderWay(u) /\ Takes(u)'
    <3>1. CallFits(calls[u]) /\ calls'[u] = SetByOthers(u, keys)
      BY <2>1 DEF ConfigInv, CallsFit
    <3>2. UnderWay(u)
      BY <2>12, <3>1 DEF UnderWay, SetByOthers
    <3>3. /\ calls'[u] = [calls[u] EXCEPT !.others = calls'[u].others]
          /\ calls'[u].others = calls[u].others \cup keys
      BY <3>1, <3>2 DEF SetByOthers, CallFits
    <3>4. \A key : key \in calls'[u].others \/ (SettingStays(key) /\ FileStays(key))
      BY <2>11, <3>3
    <3>5. Takes(u) /\ calls[u].others \subseteq calls'[u].others
      BY <3>2, <3>3 DEF TakeInv, RequestsTake
    <3> QED
      BY <1>2, <3>1, <3>2, <3>3, <3>4, <3>5, OtherTakes
  <2>13. Quiet' /\ RequestsTake'
    BY <1>2, <2>12 DEF TakeInv, Quiet, Serving, RequestsTake
  <2> QED
    BY <2>9, <2>10, <2>13 DEF TakeInv
<1> QED
  BY <1>3, <1>4

LEMMA TakeInitial == ASSUME ReadPlans, InitServices PROVE TakeInv
<1>1. PICK plans : (plans = Plans \/ plans = {NoPlan}) /\ StartupFrom(plans)
  BY DEF InitServices
<1>2. /\ plan \in plans /\ disk = plan.disk /\ changed = <<>> /\ config = <<>> /\ defaults = <<>>
      /\ stage = "down" /\ task = NoTask /\ calls = [u \in Users |-> NoCall]
  BY <1>1 DEF StartupFrom
<1>3. \A u \in Users : ~UnderWay(u)
  BY <1>2 DEF UnderWay, NoCall
<1>4. DOMAIN AllSettings = {}
  BY <1>2 DEF AllSettings, Over
<1>5. disk # NoFile => Fitting(disk)
  <2> SUFFICES ASSUME disk # NoFile, NEW key \in DOMAIN disk \cap Compared PROVE ValueFits(key, disk[key])
    BY DEF Fitting
  <2>1. plan \in Plans
    BY <1>1, <1>2 DEF NoPlan
  <2>2. ReadsBack(key, disk[key]) /\ (key = "password" => Told(key, disk[key]) = disk[key])
    BY <1>2, <2>1 DEF ReadPlans, ReadAsGiven
  <2>3. "video_file_naming_algorithm" \in DOMAIN DefaultChoices /\ "dlna.default_enabled" \in Switches
    BY DEF DefaultChoices, Switches
  <2>4. key = "password" => disk[key][2] = "" \/ disk[key][1] # 0
    <3> SUFFICES ASSUME key = "password", disk[key][2] # "" PROVE disk[key][1] # 0
      OBVIOUS
    <3> DEFINE pair == disk["password"]
    <3>1. pair = <<1, pair[2]>>
      BY <2>2 DEF Told
    <3> HIDE DEF pair
    <3>2. pair[1] # 0
      BY <3>1, HashedOnce
    <3> QED
      BY <3>2 DEF pair
  <2> QED
    BY <2>2, <2>3, <2>4 DEF ValueFits, ReadsBack
<1>6. LayersFit
  BY <1>4, <1>5 DEF LayersFit, Fitting
<1>7. FileKnown
  BY <1>2, NoTaskFits DEF FileKnown
<1> QED
  BY <1>3, <1>6, <1>7 DEF TakeInv, Quiet, RequestsTake

LEMMA TakeStep == ASSUME ConfigInv, DataInv, ReadPlans, TakeInv, [StartupNext]_serverVars PROVE TakeInv'
<1>1. CASE UNCHANGED serverVars \/ LibraryGrows
  <2>1. UNCHANGED <<settingVars, calls, left, stage, task>>
    BY <1>1 DEF serverVars, LibraryGrows, configureVars, startupVars
  <2> QED
    BY <2>1, NothingIsTaken
<1>2. CASE SetsInitialConfig("initialize") \/ SetsInitialConfig("initial")
  BY <1>2, InitialTakes
<1>3. CASE StartupNext
  BY <1>1, <1>2, <1>3, InitializeTakes, ExistingDefaultsTake, TasksTake, AskedTake, WizardTakes, PostMigrateTakes,
     UsersConfigureTakes, GoesDownTakes
  DEF StartupNext
<1> QED
  BY <1>1, <1>3

LEMMA TakeInvariant == ASSUME ReadPlans PROVE SpecServices => [](ConfigInv /\ DataInv /\ TakeInv)
<1>1. InitServices => TakeInv
  BY TakeInitial
<1>2. ConfigInv /\ DataInv /\ TakeInv /\ [NextServices]_allVars => TakeInv'
  <2>1. [NextServices]_allVars => [StartupNext]_serverVars
    BY DEF NextServices, allVars
  <2> QED
    BY <2>1, TakeStep
<1> QED
  BY <1>1, <1>2, ConfigInvariant, PTL DEF SpecServices

\* Only the request itself answers that it is done, when nothing of it is left to do.
LEMMA OnlyItselfIsDone ==
  ASSUME CallsFit, ConfigInv, [StartupNext]_serverVars, NEW u \in Users, UnderWay(u), calls'[u].answer = "done"
  PROVE  calls[u].todo = {}
<1>1. CallFits(calls[u]) /\ calls[u].answer = "pending" /\ calls = [w \in Users |-> calls[w]]
  BY DEF CallsFit, UnderWay
<1>2. CASE UNCHANGED calls
  BY <1>1, <1>2
<1>3. CASE PostMigrate
  <2>1. calls'[u] = [calls[u] EXCEPT !.others = calls'[u].others]
    BY <1>3, PostMigrateNotes
  <2>2. calls'[u].answer = calls[u].answer
    BY <1>1, <2>1 DEF CallFits
  <2> QED
    BY <1>1, <2>2
<1>4. CASE GoesDown
  BY <1>4 DEF GoesDown, NoCall
<1>5. CASE UsersConfigure
  <2>1. PICK w \in Users : ConfigureStep(w)
    BY <1>5 DEF UsersConfigure
  <2>2. CASE w = u /\ ~Reply(u)
    <3>1. ~AskFor(u)
      BY DEF AskFor
    <3>2. CASE ReadUI(u) \/ RefreshScrapers(u)
      BY <1>1, <3>2 DEF ReadUI, RefreshScrapers, Advanced, CallFits
    <3>3. CASE WriteFile(u) \/ Refresh(u) \/ \E key : Skip(u, key)
      BY <1>1, <3>3 DEF WriteFile, Refresh, Skip, Advanced, CallFits
    <3>4. CASE \E key : Set(u, key)
      BY <1>1, <3>4 DEF Set, Advanced, CallFits
    <3>5. CASE WriteFails(u) \/ \E key : Refuse(u, key)
      BY <1>1, <3>5 DEF WriteFails, Refuse, GoesNoFurther, CallFits
    <3> QED
      BY <2>1, <2>2, <3>1, <3>2, <3>3, <3>4, <3>5 DEF ConfigureStep
  <2>3. CASE w = u /\ Reply(u)
    BY <2>3 DEF Reply
  <2>4. CASE w # u
    <3>1. CASE \E key : Set(w, key)
      <4>1. PICK key : calls'[u] = SetByOthers(u, {key})
        BY <2>4, <3>1 DEF Set
      <4> QED
        BY <1>1, <4>1 DEF SetByOthers, CallFits
    <3>2. CASE ~\E key : Set(w, key)
      <4>1. calls'[u] = calls[u]
        BY <1>1, <2>1, <2>4, <3>2 DEF ConfigureStep, AskFor, ReadUI, WriteFile, WriteFails, Refresh, RefreshScrapers,
                                     Reply, Skip, Refuse, Advanced, GoesNoFurther
      <4> QED
        BY <1>1, <4>1
    <3> QED
      BY <3>1, <3>2
  <2> QED
    BY <2>2, <2>3, <2>4
<1>6. CASE /\ StartupNext /\ ~PostMigrate /\ ~GoesDown /\ ~UsersConfigure
  <2>1. UNCHANGED calls
    BY <1>6 DEF StartupNext, Initialize, SetsExistingDefaults, SetsInitialConfig, Validate, MakesAnew, OpensDatabase,
                Migrates, MigrationFails, Serves, Setup, TouchConfig, MakeGenerated, SetUpSettings, WriteSetUp,
                FinalizeSetup, Migrate, BacksUp, RunMigrations, Restores, RemovesBackup, LibraryGrows, configureVars
  <2> QED
    BY <1>2, <2>1
<1> QED
  BY <1>2, <1>3, <1>4, <1>5, <1>6 DEF serverVars, configureVars

LEMMA DoneIsInEffect ==
  ASSUME ReadPlans, ConfigInv, TakeInv, NEW u \in Users, UnderWay(u), calls[u].todo = {},
         NEW key \in DoneKeys(calls[u]) \cap DOMAIN calls[u].input
  PROVE  \/ key \in calls[u].others \/ <<"file", key>> \in left
         \/ HasOverride(key) /\ key # "stash"
         \/ ReadsAsAsked(key, Told(key, calls[u].input[key]))
<1> DEFINE value == calls[u].input[key]
           told == Told(key, value)
<1> SUFFICES ASSUME key \notin calls[u].others, <<"file", key>> \notin left, HasOverride(key) => key = "stash"
             PROVE  ReadsAsAsked(key, told)
  OBVIOUS
<1>1. Takes(u) /\ Serving
  BY DEF TakeInv, RequestsTake, Quiet
<1>2. ReadsBack(key, value) /\ Effective(u, key) /\ Filed(u, key)
  BY <1>1 DEF Takes, KeyTakes
<1>3. FiledNow(key)
  BY <1>2 DEF Filed, ToCome, Named
<1>4. DOMAIN disk \subseteq DOMAIN AllSettings
  BY <1>1 DEF TakeInv, FileKnown, Located, Serving
<1>5. Setting(key) = told /\ (key \in DOMAIN AllSettings => AllSettings[key] = told)
  <2>1. CASE key \in DOMAIN changed /\ changed[key] = told
    <3>1. Setting(key) = told
      BY <1>2, <2>1, GivenIsRead
    <3>2. AllSettings[key] = told
      BY <2>1 DEF AllSettings, Over
    <3> QED
      BY <3>1, <3>2
  <2>2. CASE ~(key \in DOMAIN changed /\ changed[key] = told)
    BY <1>2, <2>2 DEF Effective
  <2> QED
    BY <2>1, <2>2
<1> HIDE DEF told
<1> QED
  BY <1>3, <1>4, <1>5 DEF ReadsAsAsked, FiledNow

(***************************************************************************)
(* When a request is answered without an error, each setting it has set is *)
(* in force as it was given and is so in the file, unless somebody else    *)
(* has set it meanwhile, flags or the environment say otherwise, or a      *)
(* write has failed: for any number of users and of requests, in any order *)
(* of their steps, beside starts, migrations and failures                  *)
(* (ConfigureGeneral, resolver_mutation_configure.go:28-282).  Plans may   *)
(* be any whose settings are read as they are given: blanks for what is    *)
(* never blank, and hashes that nobody was told, are not.                  *)
(***************************************************************************)
THEOREM RequestsAreTaken == ASSUME ReadPlans PROVE SpecServices => RequestsTakeEffect
<1>1. ASSUME ConfigInv, TakeInv, [StartupNext]_serverVars
      PROVE  [\A u \in Users : UnderWay(u) /\ calls'[u].answer = "done" =>
                \A key \in DoneKeys(calls[u]) \cap DOMAIN calls[u].input :
                  \/ key \in calls[u].others \/ <<"file", key>> \in left
                  \/ HasOverride(key) /\ key # "stash"
                  \/ ReadsAsAsked(key, Told(key, calls[u].input[key]))]_calls
  BY <1>1, OnlyItselfIsDone, DoneIsInEffect DEF ConfigInv
<1>2. [NextServices]_allVars => [StartupNext]_serverVars
  BY DEF NextServices, allVars
<1> QED
  BY <1>1, <1>2, TakeInvariant, PTL DEF SpecServices, RequestsTakeEffect
=============================================================================
