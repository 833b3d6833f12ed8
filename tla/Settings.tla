------------------------------ MODULE Settings ------------------------------
(***************************************************************************)
(* internal/proxy/settings.go and its users in cmd/gateway/main.go: the    *)
(* configuration an administrator changes while the gateway runs.  Each    *)
(* setting lives in memory, is saved in the settings table of PostgreSQL,  *)
(* and, for a webhook, is pushed to the notifier.  A setter changes the    *)
(* memory under a lock and saves after releasing it, so the saves of two   *)
(* concurrent requests may reach the table in either order.  At any moment *)
(* the process may stop; the next start loads the table, and may run a     *)
(* version of the program that knows other detection families.             *)
(*                                                                         *)
(* One webhook stands for the two destinations, and the language model's   *)
(* address for its switch, its address and its name: they are read, set    *)
(* and saved in the same way.                                              *)
(***************************************************************************)
EXTENDS Integers, Sequences, FiniteSets

CONSTANTS Writer,      \* API requests that may run at once
          IP, Family, URL, ApiKey,
          ConfigMode, ConfigThreshold, ConfigURL, ConfigLLM,
                       \* file and environment
          Body,        \* request bodies: sequences of [key, val]
          SaveMayFail, \* whether PostgreSQL may refuse a save (ignored)
          Missed,      \* sets of keys whose reads may all fail at a start
          Versions,    \* the sets of families that versions know
          MaxRequests  \* bound of the model

Mode == {"block", "detect"}   \* those SetMode lets in
NoURL == "none"        \* the empty string
Absent == <<>>         \* no row for the key; a row with the value v is <<v>>
NoKey == "none"
LLMKey == {"llm_base_url", "llm_api_key"}
Key == {"mode", "threshold", "disabled_categories", "blocklist", "webhook"} \cup LLMKey

LLMSettings == [base_url : URL \cup {NoURL}, api_key : ApiKey \cup {NoKey}]
NoLLM == [base_url |-> NoURL, api_key |-> NoKey]

ASSUME SettingsAssumption ==
  /\ ConfigThreshold \in Nat \ {0}
  /\ ConfigURL \in URL \cup {NoURL} /\ ConfigLLM \in LLMSettings
  /\ SaveMayFail \in BOOLEAN
  /\ MaxRequests \in Nat
  /\ Missed \subseteq SUBSET Key /\ {} \in Missed
  /\ Versions \subseteq SUBSET Family /\ Versions /= {}

\* The file and the environment may name any mode: only an empty one is replaced.
KnownMode == Mode \cup {ConfigMode}

\* The fields of the bodies: the JSON decoder lets no other types in.  A mode may
\* be any string, an address to ban too, and families any names.
Change == UNION {{body[i] : i \in DOMAIN body} : body \in Body}
Field == {"mode", "threshold", "disabled_categories", "blocklist", "webhook", "llm"}

Optional(S) == {Absent} \cup {<<v>> : v \in S}

ASSUME BodyAssumption ==
  /\ Body \subseteq Seq(Change) \ {<<>>}
  /\ \A f \in Change :
       /\ f.key \in Field
       /\ f.key = "threshold" => f.val \in Int
       /\ f.key = "webhook" => f.val \in URL \cup {NoURL}
       /\ f.key = "llm" => /\ f.val.base_url \in Optional(URL \cup {NoURL})
                           /\ f.val.api_key \in Optional(ApiKey \cup {NoKey})

VARIABLES
  known,                            \* detector.Categories of this version
  mode, threshold, enabled, blocklist, webhook, llm,   \* Settings, in memory
  notif, enr,                       \* the notifier's copy of the webhook, and
                                    \* the enricher's of the language model
  db,                               \* the settings table
  pc, todo, out, cfg,               \* a writer: its step, what it has left to
                                    \* apply and to save, and the language
                                    \* model's settings it has read
  requests,                         \* counts them, up to the bound
  held, unsaved, crossed, offByHand \* history: values memory has held since
                                    \* the start, keys it holds otherwise than
                                    \* the table because of an error, keys set
                                    \* by requests that overlapped, families
                                    \* ever switched off by hand

memory == <<mode, threshold, enabled, blocklist, webhook, llm>>
copies == <<notif, enr>>
history == <<held, unsaved, crossed, offByHand>>
vars == <<known, memory, copies, db, pc, todo, out, cfg, requests, history>>

Update(f, g) == [x \in DOMAIN f \cup DOMAIN g |-> IF x \in DOMAIN g THEN g[x] ELSE f[x]]

-----------------------------------------------------------------------------
(* NewSettings and load: the defaults, then what the table t holds.  (A     *)
(* saved mode or threshold is a valid one: the setters see to that.)        *)

Or(t, k, default) == IF t[k] = Absent THEN default ELSE t[k][1]

\* The rows that hold the language model's settings.
RowsOf(l) == [llm_base_url |-> l.base_url, llm_api_key |-> l.api_key]

LoadedEnabled(t, cats) ==
  Update([c \in cats |-> TRUE],
         [c \in Or(t, "disabled_categories", {}) |-> FALSE])

LoadedLLM(t) ==
  [base_url |-> Or(t, "llm_base_url", NoURL), api_key |-> Or(t, "llm_api_key", NoKey)]

LLMConfigured(l) == l.base_url /= NoURL \/ l.api_key /= NoKey

\* main: the environment's language model, if it names one and none is saved.
Seeds(l) == ~LLMConfigured(l) /\ LLMConfigured(ConfigLLM)
Seeded(l) == IF Seeds(l) THEN ConfigLLM ELSE l

\* The table after that, where the saves of some keys may have failed.
SeededTable(t, l, failed) ==
  IF Seeds(l) THEN Update(t, [k \in LLMKey \ failed |-> <<RowsOf(ConfigLLM)[k]>>]) ELSE t

\* SetConfig of the enricher, which an incomplete configuration switches off.
Effective(l) == IF l.base_url = NoURL \/ l.api_key = NoKey THEN NoLLM ELSE l

Load(t, cats) ==
  /\ mode' = Or(t, "mode", ConfigMode)
  /\ threshold' = Or(t, "threshold", ConfigThreshold)
  /\ enabled' = LoadedEnabled(t, cats)
  /\ blocklist' = Or(t, "blocklist", {})
  /\ webhook' = Or(t, "webhook", NoURL)
  /\ llm' = Seeded(LoadedLLM(t))

\* main: the saved webhook has priority, the environment's is the fallback.
InitialWebhook(saved) == IF saved = NoURL THEN ConfigURL ELSE saved

\* What each key of the table is about.
InMemory ==
  [mode |-> mode, threshold |-> threshold, blocklist |-> blocklist,
   webhook |-> webhook, disabled_categories |-> {c \in known : ~enabled[c]},
   llm_base_url |-> llm.base_url, llm_api_key |-> llm.api_key]

\* What load finds for each key in a table t, where the version knows cats.
FoundIn(t, cats) ==
  [mode |-> Or(t, "mode", ConfigMode),
   threshold |-> Or(t, "threshold", ConfigThreshold),
   blocklist |-> Or(t, "blocklist", {}),
   webhook |-> Or(t, "webhook", NoURL),
   disabled_categories |-> cats \cap Or(t, "disabled_categories", {}),
   llm_base_url |-> LoadedLLM(t).base_url, llm_api_key |-> LoadedLLM(t).api_key]

\* What a start of this version would find.
InTable == FoundIn(db, known)

\* The rows of the language model whose saves fail at a start.
Failures(l) == IF SaveMayFail /\ Seeds(l) THEN SUBSET LLMKey ELSE {{}}

Init ==
  /\ known \in Versions
  /\ llm = Seeded(NoLLM) /\ enr = Effective(llm)
  /\ \E failed \in Failures(NoLLM) :
       /\ db = SeededTable([k \in Key |-> Absent], NoLLM, failed)
       /\ unsaved = failed
  /\ mode = ConfigMode /\ threshold = ConfigThreshold
  /\ enabled = LoadedEnabled(db, known)
  /\ blocklist = {} /\ webhook = NoURL
  /\ notif = InitialWebhook(NoURL)
  /\ pc = [w \in Writer |-> "idle"]
  /\ todo = [w \in Writer |-> <<>>]
  /\ out = [w \in Writer |-> <<>>]
  /\ cfg = [w \in Writer |-> NoLLM]
  /\ held = LET now == InMemory IN [k \in Key |-> {now[k]}]
  /\ requests = 0
  /\ crossed = {} /\ offByHand = {}

\* The process ends, taking the requests in flight with it, and starts again.
\* A row that cannot be read is taken for a row that is not there.
Restart ==
  /\ known' \in Versions
  /\ \E missed \in Missed :
     LET seen == [k \in Key |-> IF k \in missed THEN Absent ELSE db[k]] IN
     \E failed \in Failures(LoadedLLM(seen)) :
       /\ Load(seen, known')
       /\ db' = SeededTable(db, LoadedLLM(seen), failed)
       /\ unsaved' = missed \cup failed
  /\ notif' = InitialWebhook(webhook') /\ enr' = Effective(llm')
  /\ pc' = [w \in Writer |-> "idle"]
  /\ todo' = [w \in Writer |-> <<>>]
  /\ out' = [w \in Writer |-> <<>>]
  /\ cfg' = [w \in Writer |-> NoLLM]
  /\ held' = LET now == InMemory' IN
             [k \in Key |-> {now[k]} \cup {db[k][i] : i \in DOMAIN db[k]}]
  /\ crossed' = {}
  /\ UNCHANGED <<requests, offByHand>>

-----------------------------------------------------------------------------
(* POST /_sentinel/settings and /_sentinel/blocklist.                      *)

Start(w) ==
  /\ pc[w] = "idle"
  /\ requests < MaxRequests
  /\ requests' = requests + 1
  /\ \E body \in Body : todo' = [todo EXCEPT ![w] = body]
  /\ pc' = [pc EXCEPT ![w] = "set"]
  /\ UNCHANGED <<known, memory, copies, db, out, cfg, history>>

\* The handler goes on to the next field of the body, or returns.
NextField(w) ==
  /\ todo' = [todo EXCEPT ![w] = Tail(@)]
  /\ pc' = [pc EXCEPT ![w] = IF Len(todo[w]) > 1 THEN "set" ELSE "idle"]

\* A request has set the key and not yet saved it, or pushed it.
Busy(k) ==
  \E w \in Writer : /\ pc[w] \in {"save", "reread", "push"}
                    /\ k \in IF todo[w][1].key = "llm" THEN LLMKey ELSE {todo[w][1].key}

\* Under the lock: rows is what the setter will save, in the order of the saves.
SavingAll(w, rows) ==
  LET keys == {rows[i].key : i \in DOMAIN rows}
      now == InMemory' IN
  /\ UNCHANGED <<known, copies, db, todo, requests, unsaved>>
  /\ pc' = [pc EXCEPT ![w] = "save"]
  /\ out' = [out EXCEPT ![w] = rows]
  /\ cfg' = [cfg EXCEPT ![w] = NoLLM]
  /\ held' = [k \in Key |-> IF k \in keys THEN held[k] \cup {now[k]} ELSE held[k]]
  /\ crossed' = (crossed \ keys) \cup {k \in keys : Busy(k)}

Row(k, v) == [key |-> k, val |-> v]
Saving(w, k, v) == UNCHANGED llm /\ SavingAll(w, <<Row(k, v)>>)

SetMode(w) ==
  LET m == todo[w][1].val IN
  /\ m \in Mode
  /\ mode' = m
  /\ UNCHANGED <<threshold, enabled, blocklist, webhook, offByHand>>
  /\ Saving(w, "mode", m)

\* Another mode, and the empty address, are ignored.
Refuse(w) ==
  /\ \/ todo[w][1].key = "mode" /\ todo[w][1].val \notin Mode
     \/ todo[w][1].key = "blocklist" /\ todo[w][1].val.ip \notin IP
  /\ NextField(w)
  /\ UNCHANGED <<known, memory, copies, db, out, cfg, requests, history>>

\* Mutant: what is saved is the value before it is clamped.
SetThresholdSavesRaw(w) ==
  LET n == todo[w][1].val IN
  /\ threshold' = IF n < 1 THEN 1 ELSE n
  /\ UNCHANGED <<mode, enabled, blocklist, webhook, offByHand>>
  /\ Saving(w, "threshold", n)

SetThreshold(w) ==
  LET n == todo[w][1].val IN
  /\ threshold' = IF n < 1 THEN 1 ELSE n
  /\ UNCHANGED <<mode, enabled, blocklist, webhook, offByHand>>
  /\ Saving(w, "threshold", threshold')

\* Mutant: the families to keep are saved under the name of the others.
SetCategoriesSavesKept(w) ==
  LET cats == todo[w][1].val IN
  /\ enabled' = [c \in known |-> c \in cats]
  /\ offByHand' = offByHand \cup (known \ cats)
  /\ UNCHANGED <<mode, threshold, blocklist, webhook>>
  /\ Saving(w, "disabled_categories", cats)

\* Mutant: an opt-in model, in which a family that is not listed is off.
SetCategoriesOptIn(w) ==
  LET cats == todo[w][1].val IN
  /\ enabled' = [c \in known |-> c \in cats]
  /\ offByHand' = offByHand \cup (known \ cats)
  /\ UNCHANGED <<mode, threshold, blocklist, webhook>>
  /\ Saving(w, "disabled_categories", Family \ cats)

\* The body lists the families to keep; what is saved is the families this
\* version knows that are not in the list.
SetCategories(w) ==
  LET cats == todo[w][1].val IN
  /\ enabled' = [c \in known |-> c \in cats]
  /\ offByHand' = offByHand \cup (known \ cats)
  /\ UNCHANGED <<mode, threshold, blocklist, webhook>>
  /\ Saving(w, "disabled_categories", known \ cats)

\* setBlock: the whole list is saved, as it stands when the lock is released.
SetBlock(w) ==
  LET change == todo[w][1].val IN
  /\ change.ip \in IP
  /\ blocklist' = IF change.on THEN blocklist \cup {change.ip}
                               ELSE blocklist \ {change.ip}
  /\ UNCHANGED <<mode, threshold, enabled, webhook, offByHand>>
  /\ Saving(w, "blocklist", blocklist')

SetWebhook(w) ==
  /\ webhook' = todo[w][1].val
  /\ UNCHANGED <<mode, threshold, enabled, blocklist, offByHand>>
  /\ Saving(w, "webhook", webhook')

\* The handler completes the fields of the body with those of the settings.
\* Without a key in the body it asks for none: SetLLM keeps the one it has.
ReadLLM(w) ==
  LET body == todo[w][1].val IN
  /\ cfg' = [cfg EXCEPT ![w] =
       [base_url |-> Or(body, "base_url", llm.base_url),
        api_key |-> Or(body, "api_key", NoKey)]]
  /\ pc' = [pc EXCEPT ![w] = "llm"]
  /\ UNCHANGED <<known, memory, copies, db, todo, out, requests, history>>

\* Mutant: the key that is saved is the body's, empty or not.
SetLLMSavesBody(w) ==
  /\ pc[w] = "llm"
  /\ llm' = [cfg[w] EXCEPT !.api_key = IF @ = NoKey THEN llm.api_key ELSE @]
  /\ UNCHANGED <<mode, threshold, enabled, blocklist, webhook, offByHand>>
  /\ SavingAll(w, <<Row("llm_base_url", llm'.base_url),
                    Row("llm_api_key", cfg[w].api_key)>>)

SetLLM(w) ==
  /\ pc[w] = "llm"
  /\ llm' = [cfg[w] EXCEPT !.api_key = IF @ = NoKey THEN llm.api_key ELSE @]
  /\ UNCHANGED <<mode, threshold, enabled, blocklist, webhook, offByHand>>
  /\ SavingAll(w, <<Row("llm_base_url", llm'.base_url),
                    Row("llm_api_key", llm'.api_key)>>)

AtField(w, k) == pc[w] = "set" /\ todo[w][1].key = k

Apply(w) ==
  \/ AtField(w, "mode") /\ SetMode(w)
  \/ AtField(w, "threshold") /\ SetThreshold(w)
  \/ AtField(w, "disabled_categories") /\ SetCategories(w)
  \/ AtField(w, "blocklist") /\ SetBlock(w)
  \/ AtField(w, "webhook") /\ SetWebhook(w)
  \/ AtField(w, "llm") /\ ReadLLM(w)
  \/ SetLLM(w)
  \/ pc[w] = "set" /\ Refuse(w)

\* Mutant: the notifier is not told of the new webhook.
AfterSaveNoPush(w) == NextField(w)

\* After the last save a webhook is pushed, and so is a language model, which
\* is read again first.
AfterSave(w) ==
  CASE todo[w][1].key = "webhook" -> pc' = [pc EXCEPT ![w] = "push"] /\ UNCHANGED todo
    [] todo[w][1].key = "llm" -> pc' = [pc EXCEPT ![w] = "reread"] /\ UNCHANGED todo
    [] OTHER -> NextField(w)

\* SaveSetting, after the lock is released, once for each row.
Saved(w) ==
  /\ out' = [out EXCEPT ![w] = Tail(@)]
  /\ IF Len(out[w]) > 1 THEN UNCHANGED <<pc, todo>> ELSE AfterSave(w)
  /\ UNCHANGED <<known, memory, copies, cfg, requests, held, crossed, offByHand>>

Save(w) ==
  /\ pc[w] = "save"
  /\ db' = [db EXCEPT ![out[w][1].key] = <<out[w][1].val>>]
  /\ unsaved' = unsaved \ {out[w][1].key}
  /\ Saved(w)

\* The error is ignored.
SaveFails(w) ==
  /\ SaveMayFail
  /\ pc[w] = "save"
  /\ unsaved' = unsaved \cup {out[w][1].key}
  /\ UNCHANGED db
  /\ Saved(w)

\* Mutant: the enricher is given the body's key, empty or not.
RereadNot(w) ==
  /\ pc[w] = "reread"
  /\ cfg' = [cfg EXCEPT ![w] = [llm EXCEPT !.api_key = Or(todo[w][1].val, "api_key", NoKey)]]
  /\ pc' = [pc EXCEPT ![w] = "push"]
  /\ UNCHANGED <<known, memory, copies, db, todo, out, requests, history>>

Reread(w) ==
  /\ pc[w] = "reread"
  /\ cfg' = [cfg EXCEPT ![w] = llm]
  /\ pc' = [pc EXCEPT ![w] = "push"]
  /\ UNCHANGED <<known, memory, copies, db, todo, out, requests, history>>

\* SetWebhook of the notifier, SetConfig of the enricher.
Push(w) ==
  /\ pc[w] = "push"
  /\ IF todo[w][1].key = "webhook"
       THEN notif' = todo[w][1].val /\ UNCHANGED enr
       ELSE enr' = Effective(cfg[w]) /\ UNCHANGED notif
  /\ cfg' = [cfg EXCEPT ![w] = NoLLM]
  /\ NextField(w)
  /\ UNCHANGED <<known, memory, db, out, requests, history>>

-----------------------------------------------------------------------------
Next ==
  \/ \E w \in Writer : Start(w) \/ Apply(w) \/ Save(w) \/ SaveFails(w)
                     \/ Reread(w) \/ Push(w)
  \/ Restart

Spec == Init /\ [][Next]_vars

\* What GET /_sentinel/settings calls enabled_categories: the keys of the map.
SnapshotEnabled == DOMAIN enabled

-----------------------------------------------------------------------------
(* Properties.                                                             *)

\* Every variable has its type; the map of families covers those this version
\* knows, so a read of Enabled never misses one.
TypeOK ==
  /\ known \in Versions /\ requests \in 0 .. MaxRequests
  /\ mode \in KnownMode /\ threshold \in Nat \ {0}
  /\ known \subseteq DOMAIN enabled /\ DOMAIN enabled \subseteq Family
  /\ \A c \in DOMAIN enabled : enabled[c] \in BOOLEAN
  /\ blocklist \subseteq IP
  /\ webhook \in URL \cup {NoURL} /\ notif \in URL \cup {NoURL}
  /\ llm \in LLMSettings /\ enr \in LLMSettings /\ cfg \in [Writer -> LLMSettings]
  /\ DOMAIN db = Key /\ DOMAIN held = Key
  /\ pc \in [Writer -> {"idle", "set", "llm", "save", "reread", "push"}]
  /\ \A w \in Writer : pc[w] = "idle" <=> todo[w] = <<>>
  /\ unsaved \subseteq Key /\ crossed \subseteq Key /\ offByHand \subseteq Family

\* Settings: "L'état est [...] persisté en base (survit au redémarrage)": once
\* the requests that set a key are over, and no save or load of it failed, a
\* restart comes back with what memory holds, whatever requests overlapped.
SurvivesRestart ==
  \A k \in Key \ unsaved : ~Busy(k) => InTable[k] = InMemory[k]

\* The same for the keys whose last setter ran alone: an overlap does no lasting
\* harm, and an overlap on one key none to another.
SurvivesUnlessCrossed ==
  LET saved == InTable  inForce == InMemory IN
  \A k \in Key \ (unsaved \cup crossed) : ~Busy(k) => saved[k] = inForce[k]

\* A restart never brings back a value that was in force at no time: what is in
\* the table, and so what a start loads, is what memory has held, or was there
\* when this process started, even when requests overlap, saves are refused and
\* rows cannot be read.
SavedWasInForce ==
  \A k \in Key : \A i \in DOMAIN db[k] : db[k][i] \in held[k]

\* load: "toute nouvelle famille de détection ajoutée par la suite est active
\* d'office": a family no administrator ever switched off is on in every
\* version that knows it, whatever the table holds and whatever happened to
\* the saves.
NeverSwitchedOffIsOn == \A c \in known \ offByHand : enabled[c]

\* Once the requests that set the webhook are over, unless two of them
\* overlapped, alerts go where the settings say, or, when they say nothing,
\* nowhere or where the environment says.
AlertsFollowSettings ==
  "webhook" \notin crossed /\ ~Busy("webhook") =>
    notif \in {webhook, InitialWebhook(webhook)}

\* The same for the language model: "on reconfigure l'enricher à chaud": analyses
\* are asked of the one the settings name, from the answer to the request on and
\* after a restart, or of none if they are incomplete.
AnalysesFollowSettings ==
  (\A k \in LLMKey : k \notin crossed /\ ~Busy(k)) => enr = Effective(llm)

\* SetLLM keeps the key it has "pour ne pas l'effacer par inadvertance": a saved
\* key is replaced by an empty one only by a process that could not read it or
\* save it, or one that had none in memory and serves two requests about it at
\* once (the one that kept the empty key may save it last).
KeyNeverErased ==
  [][LoadedLLM(db).api_key /= NoKey =>
       \/ LoadedLLM(db)'.api_key /= NoKey
       \/ "llm_api_key" \in unsaved \cup unsaved'
       \/ "llm_api_key" \in crossed /\ NoKey \in held["llm_api_key"]]_vars

\* Snapshot: "renvoie l'état complet pour l'API"; the families it calls enabled
\* are those that Enabled says are.
SnapshotTellsEnabled == SnapshotEnabled = {c \in DOMAIN enabled : enabled[c]}

=============================================================================
