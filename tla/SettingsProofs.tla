--------------------------- MODULE SettingsProofs ---------------------------
(***************************************************************************)
(* Proofs about Settings for every number of requests at once and of       *)
(* restarts, every body, every version, every refused save and lost read.  *)
(***************************************************************************)
EXTENDS Settings, SequenceTheorems, TLAPS

-----------------------------------------------------------------------------
(* Types.                                                                  *)

\* What the row of a key may hold.
Values(k) ==
  CASE k = "mode" -> Mode
    [] k = "threshold" -> Nat \ {0}
    [] k = "disabled_categories" -> SUBSET Family
    [] k = "blocklist" -> SUBSET IP
    [] k \in {"webhook", "llm_base_url"} -> URL \cup {NoURL}
    [] OTHER -> ApiKey \cup {NoKey}

Rows == {r \in [key : Key, val : UNION {Values(k) : k \in Key}] : r.val \in Values(r.key)}

\* The rows that the field of a body is saved in.
KeysOf(field) == IF field.key = "llm" THEN LLMKey ELSE {field.key}

Step == {"idle", "set", "llm", "save", "reread", "push"}

MemoryOK ==
  /\ known \in Versions /\ mode \in KnownMode /\ threshold \in Nat \ {0}
  /\ known \subseteq DOMAIN enabled /\ DOMAIN enabled \subseteq Family
  /\ \A c \in DOMAIN enabled : enabled[c] \in BOOLEAN
  /\ blocklist \subseteq IP /\ webhook \in URL \cup {NoURL} /\ llm \in LLMSettings

TableOK ==
  /\ DOMAIN db = Key
  /\ \A k \in Key : db[k] \in Optional(Values(k))

RestOK ==
  /\ notif \in URL \cup {NoURL} /\ enr \in LLMSettings
  /\ DOMAIN held = Key /\ requests \in 0 .. MaxRequests
  /\ unsaved \subseteq Key /\ crossed \subseteq Key /\ offByHand \subseteq Family

WritersOK ==
  /\ pc \in [Writer -> Step] /\ todo \in [Writer -> Seq(Change)]
  /\ out \in [Writer -> Seq(Rows)] /\ cfg \in [Writer -> LLMSettings]

\* Where a writer is in its request: the field it applies, the rows it has left to
\* save, which are the field's.
StepsOK ==
  \A w \in Writer :
    /\ pc[w] = "idle" <=> todo[w] = <<>>
    /\ pc[w] \in {"llm", "reread"} => todo[w][1].key = "llm"
    /\ pc[w] = "push" => todo[w][1].key \in {"webhook", "llm"}
    /\ pc[w] = "save" => /\ out[w] /= <<>>
                         /\ \A i \in DOMAIN out[w] : out[w][i].key \in KeysOf(todo[w][1])

Types == MemoryOK /\ TableOK /\ RestOK /\ WritersOK /\ StepsOK


\* Sequences of rows and of fields, one element at a time.
LEMMA TailFacts ==
  \A S : \A s \in Seq(S) : s /= <<>> =>
    /\ s[1] \in S /\ 1 \in DOMAIN s /\ Tail(s) \in Seq(S)
    /\ Len(s) > 1 <=> Tail(s) /= <<>>
    /\ Len(s) > 1 => Tail(s)[1] \in S
    /\ DOMAIN Tail(s) = 1 .. Len(s) - 1
    /\ \A i \in DOMAIN Tail(s) : i + 1 \in DOMAIN s /\ Tail(s)[i] = s[i + 1]
<1> SUFFICES ASSUME NEW S, NEW s \in Seq(S), s /= <<>>
             PROVE  /\ s[1] \in S /\ 1 \in DOMAIN s /\ Tail(s) \in Seq(S)
                    /\ Len(s) > 1 <=> Tail(s) /= <<>>
                    /\ Len(s) > 1 => Tail(s)[1] \in S
                    /\ DOMAIN Tail(s) = 1 .. Len(s) - 1
                    /\ \A i \in DOMAIN Tail(s) : i + 1 \in DOMAIN s /\ Tail(s)[i] = s[i + 1]
  OBVIOUS
<1>1. Len(s) \in Nat /\ DOMAIN s = 1 .. Len(s) /\ Len(s) > 0
  BY EmptySeq
<1>2. /\ Tail(s) \in Seq(S) /\ Len(Tail(s)) = Len(s) - 1
      /\ DOMAIN Tail(s) = 1 .. Len(s) - 1
  BY <1>1, HeadTailProperties
<1>3. \A i \in 1 .. Len(s) - 1 : Tail(s)[i] = s[i + 1] /\ i + 1 \in DOMAIN s
  BY <1>1, <1>2, HeadTailProperties
<1>4. \A i \in DOMAIN s : s[i] \in S
  BY <1>1
<1>5. \A t \in Seq(S) : Len(t) = Len(s) - 1 => (Len(s) > 1 <=> t /= <<>>)
  BY <1>1, EmptySeq
<1> QED
  <2>1. Len(s) > 1 <=> Tail(s) /= <<>>
    BY <1>2, <1>5, Zenon
  <2> QED
    BY <1>1, <1>2, <1>3, <1>4, <2>1

LEMMA ShortFacts ==
  ASSUME NEW S, NEW a \in S, NEW b \in S
  PROVE  /\ <<a>> \in Seq(S) \ {<<>>} /\ DOMAIN <<a>> = {1} /\ <<a>>[1] = a
         /\ <<a, b>> \in Seq(S) \ {<<>>} /\ DOMAIN <<a, b>> = {1, 2}
         /\ <<a, b>>[1] = a /\ <<a, b>>[2] = b
OBVIOUS

LEMMA OrFacts ==
  \A t, k, d : /\ t[k] = Absent => Or(t, k, d) = d
              /\ \A v : t[k] = <<v>> => Or(t, k, d) = v /\ t[k] /= Absent
<1>1. \A v : <<v>> /= Absent
  BY DEF Absent
<1> QED
  BY <1>1 DEF Or, Optional

LEMMA OrType ==
  ASSUME NEW t, NEW k, NEW S, NEW d \in S, t[k] \in Optional(S)
  PROVE  Or(t, k, d) \in S
BY OrFacts DEF Optional

LEMMA SeededFacts ==
  \A l \in LLMSettings :
    /\ Seeded(l) \in LLMSettings /\ Effective(l) \in LLMSettings
    /\ NoLLM \in LLMSettings /\ NoLLM.base_url = NoURL /\ NoLLM.api_key = NoKey
BY SettingsAssumption DEF Seeded, Effective, LLMSettings, NoLLM

\* A start saves what it holds, or leaves the rows as they were.
LEMMA SeededTableFacts ==
  ASSUME NEW t, DOMAIN t = Key, \A k \in Key : t[k] \in Optional(Values(k)),
         NEW l \in LLMSettings, NEW failed \in SUBSET LLMKey
  PROVE  /\ DOMAIN SeededTable(t, l, failed) = Key
         /\ \A k \in Key :
              /\ SeededTable(t, l, failed)[k] \in Optional(Values(k))
              /\ k \notin LLMKey \/ k \in failed \/ ~Seeds(l) =>
                   SeededTable(t, l, failed)[k] = t[k]
              /\ k \in LLMKey \ failed /\ Seeds(l) =>
                   SeededTable(t, l, failed)[k] = <<RowsOf(Seeded(l))[k]>>
<1>1. CASE ~Seeds(l)
  BY <1>1 DEF SeededTable
<1>2. CASE Seeds(l)
  <2> DEFINE g == [k \in LLMKey \ failed |-> <<RowsOf(ConfigLLM)[k]>>]
  <2>1. SeededTable(t, l, failed) = Update(t, g) /\ Seeded(l) = ConfigLLM
    BY <1>2 DEF SeededTable, Seeded
  <2>2. LLMKey \subseteq Key /\ DOMAIN g = LLMKey \ failed
    BY DEF Key
  <2>3. \A k \in LLMKey : RowsOf(ConfigLLM)[k] \in Values(k)
    BY SettingsAssumption DEF RowsOf, LLMSettings, Values, LLMKey
  <2> QED
    BY <1>2, <2>1, <2>2, <2>3 DEF Update, Optional
<1> QED
  BY <1>1, <1>2

LEMMA EnabledFacts ==
  \A cats, t : /\ DOMAIN LoadedEnabled(t, cats) = cats \cup Or(t, "disabled_categories", {})
              /\ \A c \in DOMAIN LoadedEnabled(t, cats) :
                   LoadedEnabled(t, cats)[c] =
                     IF c \in Or(t, "disabled_categories", {}) THEN FALSE ELSE TRUE
BY DEF LoadedEnabled, Update

LEMMA InitTypes == Init => Types
<1> SUFFICES ASSUME Init PROVE Types
  OBVIOUS
<1> DEFINE t == [k \in Key |-> Absent]
<1>1. NoLLM \in LLMSettings
  BY SeededFacts, SettingsAssumption
<1>2. \A k \in Key : t[k] \in Optional(Values(k))
  BY DEF Optional
<1>3. PICK failed \in SUBSET LLMKey : db = SeededTable(t, NoLLM, failed) /\ unsaved = failed
  BY DEF Init, Failures
<1>4. /\ DOMAIN db = Key
      /\ \A k \in Key : db[k] \in Optional(Values(k))
      /\ Or(db, "disabled_categories", {}) = {}
  BY <1>1, <1>2, <1>3, SeededTableFacts, OrFacts DEF Key, LLMKey
<1>5. MemoryOK /\ TableOK
  <2>1. llm \in LLMSettings
    BY <1>1, SeededFacts DEF Init
  <2>2. /\ DOMAIN enabled = known
        /\ \A c \in DOMAIN enabled : enabled[c] \in BOOLEAN
    <3>1. enabled = LoadedEnabled(db, known)
      BY DEF Init
    <3>2. DOMAIN enabled = known
      BY <1>4, <3>1, EnabledFacts
    <3>3. \A c \in DOMAIN enabled : enabled[c] = TRUE
      BY <1>4, <3>1, EnabledFacts
    <3> QED
      BY <3>2, <3>3
  <2>3. /\ known \in Versions /\ known \subseteq Family /\ blocklist = {}
        /\ mode \in KnownMode /\ threshold \in Nat \ {0} /\ webhook = NoURL
    BY SettingsAssumption DEF Init, KnownMode
  <2> QED
    BY <1>4, <2>1, <2>2, <2>3 DEF MemoryOK, TableOK
<1>8. RestOK
  <2>1. enr \in LLMSettings
    BY <1>1, SeededFacts DEF Init
  <2>2. /\ DOMAIN held = Key /\ unsaved \subseteq Key /\ crossed = {} /\ offByHand = {}
        /\ requests \in 0 .. MaxRequests
    BY <1>3, SettingsAssumption DEF Init, Key
  <2>3. notif \in URL \cup {NoURL}
    BY SettingsAssumption DEF Init, InitialWebhook
  <2> QED
    BY <2>1, <2>2, <2>3 DEF RestOK
<1>6. WritersOK
  BY <1>1 DEF Init, WritersOK, Step
<1>7. StepsOK
  BY DEF Init, StepsOK
<1> QED
  BY <1>5, <1>6, <1>7, <1>8 DEF Types

-----------------------------------------------------------------------------
(* What the steps have in common.                                          *)

\* The rows are those of the keys, and hold what memory holds of them.
Tells(rows, keys, now) ==
  /\ \A i \in DOMAIN rows : rows[i].key \in keys /\ rows[i].val = now[rows[i].key]
  /\ \A k \in keys : \E i \in DOMAIN rows : rows[i].key = k

\* Under its lock a setter prepares the rows that it will save.
Prepares(w, keys) ==
  /\ UNCHANGED <<known, copies, db, todo, requests, unsaved>>
  /\ pc' = [pc EXCEPT ![w] = "save"]
  /\ \E rows \in Seq(Rows) \ {<<>>} :
       out' = [out EXCEPT ![w] = rows] /\ Tells(rows, keys, InMemory')
  /\ cfg' = [cfg EXCEPT ![w] = NoLLM]
  /\ held' = [k \in Key |-> IF k \in keys THEN held[k] \cup {InMemory'[k]} ELSE held[k]]
  /\ crossed' = (crossed \ keys) \cup {k \in keys : Busy(k)}

\* A setter's step: it changes the keys of the field in memory and no other.
Sets(w) ==
  LET keys == KeysOf(todo[w][1]) IN
  /\ pc[w] \in {"set", "llm"} /\ keys \subseteq Key
  /\ Prepares(w, keys)
  /\ \A k \in Key \ keys : InMemory'[k] = InMemory[k]
  /\ keys /= LLMKey => llm' = llm
  /\ llm'.api_key = NoKey => llm.api_key = NoKey
  /\ todo[w][1].key = "webhook" => webhook' = todo[w][1].val
  /\ offByHand \subseteq offByHand' /\ offByHand' \subseteq Family
  /\ \/ "disabled_categories" \notin keys /\ UNCHANGED <<enabled, offByHand>>
     \/ \A c \in known : ~enabled'[c] => c \in offByHand'

LEMMA SavingFacts ==
  ASSUME NEW w \in Writer, NEW keys \in SUBSET Key, NEW rows \in Seq(Rows) \ {<<>>},
         Tells(rows, keys, InMemory'), SavingAll(w, rows)
  PROVE  Prepares(w, keys)
<1>1. {rows[i].key : i \in DOMAIN rows} = keys
  BY DEF Tells
<1> QED
  BY <1>1 DEF SavingAll, Prepares

\* One row, the new value of the field's key.
LEMMA SavingOne ==
  ASSUME NEW w \in Writer, NEW k \in Key, NEW v \in Values(k), Saving(w, k, v),
         InMemory'[k] = v
  PROVE  Prepares(w, {k})
<1>1. Row(k, v) \in Rows
  BY DEF Row, Rows
<1>2. PICK rows \in Seq(Rows) \ {<<>>} :
        rows = <<Row(k, v)>> /\ DOMAIN rows = {1} /\ rows[1] = Row(k, v)
  <2>1. \E rows : rows = <<Row(k, v)>>
    OBVIOUS
  <2> QED
    BY <1>1, <2>1, ShortFacts
<1>3. Tells(rows, {k}, InMemory')
  BY <1>2 DEF Tells, Row
<1>4. SavingAll(w, rows)
  BY <1>2 DEF Saving
<1> QED
  BY <1>3, <1>4, SavingFacts

LEMMA FieldFacts ==
  ASSUME Types, NEW w \in Writer, pc[w] /= "idle"
  PROVE  /\ todo[w] \in Seq(Change) \ {<<>>}
         /\ todo[w][1] \in Change /\ todo[w][1].key \in Field
<1>1. todo[w] \in Seq(Change) \ {<<>>}
  BY DEF Types, WritersOK, StepsOK
<1> QED
  BY <1>1, TailFacts, BodyAssumption

\* Every setter's step is one, and keeps the types of memory.
LEMMA SetMemory ==
  ASSUME Types, NEW w \in Writer,
         \/ AtField(w, "mode") /\ SetMode(w)
         \/ AtField(w, "threshold") /\ SetThreshold(w)
         \/ AtField(w, "disabled_categories") /\ SetCategories(w)
         \/ AtField(w, "blocklist") /\ SetBlock(w)
         \/ AtField(w, "webhook") /\ SetWebhook(w)
  PROVE  Sets(w) /\ MemoryOK'
<1> USE DEF Types
<1>1. /\ todo[w][1] \in Change /\ pc[w] = "set"
  BY FieldFacts DEF AtField
<1>2. known \subseteq Family /\ offByHand \subseteq Family /\ llm' = llm /\ known' = known
  BY SettingsAssumption DEF MemoryOK, RestOK, SetMode, SetThreshold, SetCategories, SetBlock,
     SetWebhook, Saving, SavingAll
<1>3. CASE AtField(w, "mode") /\ SetMode(w)
  <2>1. /\ mode' \in Mode /\ Saving(w, "mode", mode')
        /\ UNCHANGED <<known, threshold, enabled, blocklist, webhook, llm, offByHand>>
    BY <1>2, <1>3 DEF SetMode
  <2>2. /\ InMemory'["mode"] = mode'
        /\ \A k \in Key \ {"mode"} : InMemory'[k] = InMemory[k]
    BY <2>1 DEF InMemory, Key, LLMKey
  <2>3. KeysOf(todo[w][1]) = {"mode"} /\ todo[w][1].key = "mode" /\ "mode" \in Key
    BY <1>3 DEF AtField, KeysOf, Key
  <2>4. mode' \in Values("mode")
    BY <2>1 DEF Values
  <2>9. Prepares(w, {"mode"})
    BY <2>1, <2>2, <2>3, <2>4, SavingOne
  <2>5. MemoryOK'
    BY <2>1 DEF MemoryOK, KnownMode
  <2> QED
    BY <1>1, <1>2, <2>1, <2>2, <2>3, <2>4, <2>5, <2>9 DEF Sets, LLMKey
<1>4. CASE AtField(w, "threshold") /\ SetThreshold(w)
  <2>1. /\ threshold' \in Nat \ {0} /\ Saving(w, "threshold", threshold')
        /\ UNCHANGED <<known, mode, enabled, blocklist, webhook, llm, offByHand>>
    BY <1>1, <1>2, <1>4, BodyAssumption DEF AtField, SetThreshold
  <2>2. /\ InMemory'["threshold"] = threshold'
        /\ \A k \in Key \ {"threshold"} : InMemory'[k] = InMemory[k]
    BY <2>1 DEF InMemory, Key, LLMKey
  <2>3. KeysOf(todo[w][1]) = {"threshold"} /\ todo[w][1].key = "threshold" /\ "threshold" \in Key
    BY <1>4 DEF AtField, KeysOf, Key
  <2>4. threshold' \in Values("threshold")
    BY <2>1 DEF Values
  <2>9. Prepares(w, {"threshold"})
    BY <2>1, <2>2, <2>3, <2>4, SavingOne
  <2>5. MemoryOK'
    BY <2>1 DEF MemoryOK
  <2> QED
    BY <1>1, <1>2, <2>1, <2>2, <2>3, <2>4, <2>5, <2>9 DEF Sets, LLMKey
<1>5. CASE AtField(w, "disabled_categories") /\ SetCategories(w)
  <2> DEFINE cats == todo[w][1].val
  <2>1. /\ enabled' = [c \in known |-> c \in cats]
        /\ offByHand' = offByHand \cup (known \ cats)
        /\ Saving(w, "disabled_categories", known \ cats)
        /\ UNCHANGED <<known, mode, threshold, blocklist, webhook, llm>>
    BY <1>2, <1>5 DEF SetCategories
  <2>0. {c \in known' : ~enabled'[c]} = known \ cats
    BY <2>1, Zenon
  <2>2. /\ InMemory'["disabled_categories"] = known \ cats
        /\ \A k \in Key \ {"disabled_categories"} : InMemory'[k] = InMemory[k]
    BY <2>0, <2>1 DEF InMemory, Key, LLMKey
  <2>3. /\ KeysOf(todo[w][1]) = {"disabled_categories"} /\ "disabled_categories" \in Key
        /\ todo[w][1].key = "disabled_categories"
    BY <1>5 DEF AtField, KeysOf, Key
  <2>4. known \ cats \in Values("disabled_categories")
    BY <1>2 DEF Values
  <2>9. Prepares(w, {"disabled_categories"})
    BY <2>1, <2>2, <2>3, <2>4, SavingOne
  <2>5. MemoryOK'
    BY <1>2, <2>1 DEF MemoryOK
  <2>6. \A c \in known : ~enabled'[c] => c \in offByHand'
    BY <2>1
  <2>7. offByHand \subseteq offByHand' /\ offByHand' \subseteq Family
    BY <1>2, <2>1
  <2> QED
    BY <1>1, <1>2, <2>1, <2>2, <2>3, <2>4, <2>5, <2>6, <2>7, <2>9 DEF Sets, LLMKey
<1>6. CASE AtField(w, "blocklist") /\ SetBlock(w)
  <2>1. /\ blocklist' \subseteq IP /\ Saving(w, "blocklist", blocklist')
        /\ UNCHANGED <<known, mode, threshold, enabled, webhook, llm, offByHand>>
    BY <1>2, <1>6 DEF SetBlock, MemoryOK
  <2>2. /\ InMemory'["blocklist"] = blocklist'
        /\ \A k \in Key \ {"blocklist"} : InMemory'[k] = InMemory[k]
    BY <2>1 DEF InMemory, Key, LLMKey
  <2>3. KeysOf(todo[w][1]) = {"blocklist"} /\ todo[w][1].key = "blocklist" /\ "blocklist" \in Key
    BY <1>6 DEF AtField, KeysOf, Key
  <2>4. blocklist' \in Values("blocklist")
    BY <2>1 DEF Values
  <2>9. Prepares(w, {"blocklist"})
    BY <2>1, <2>2, <2>3, <2>4, SavingOne
  <2>5. MemoryOK'
    BY <2>1 DEF MemoryOK
  <2> QED
    BY <1>1, <1>2, <2>1, <2>2, <2>3, <2>4, <2>5, <2>9 DEF Sets, LLMKey
<1>7. CASE AtField(w, "webhook") /\ SetWebhook(w)
  <2>1. /\ webhook' = todo[w][1].val /\ webhook' \in URL \cup {NoURL}
        /\ Saving(w, "webhook", webhook')
        /\ UNCHANGED <<known, mode, threshold, enabled, blocklist, llm, offByHand>>
    BY <1>1, <1>2, <1>7, BodyAssumption DEF AtField, SetWebhook
  <2>2. /\ InMemory'["webhook"] = webhook'
        /\ \A k \in Key \ {"webhook"} : InMemory'[k] = InMemory[k]
    BY <2>1 DEF InMemory, Key, LLMKey
  <2>3. KeysOf(todo[w][1]) = {"webhook"} /\ todo[w][1].key = "webhook" /\ "webhook" \in Key
    BY <1>7 DEF AtField, KeysOf, Key
  <2>4. webhook' \in Values("webhook")
    BY <2>1 DEF Values
  <2>9. Prepares(w, {"webhook"})
    BY <2>1, <2>2, <2>3, <2>4, SavingOne
  <2>5. MemoryOK'
    BY <2>1 DEF MemoryOK
  <2> QED
    BY <1>1, <1>2, <2>1, <2>2, <2>3, <2>4, <2>5, <2>9 DEF Sets, LLMKey
<1> QED
  BY <1>3, <1>4, <1>5, <1>6, <1>7

LEMMA SetLanguageModel ==
  ASSUME Types, NEW w \in Writer, SetLLM(w)
  PROVE  Sets(w) /\ MemoryOK'
<1> DEFINE rows == <<Row("llm_base_url", llm'.base_url), Row("llm_api_key", llm'.api_key)>>
<1>1. /\ pc[w] = "llm"
      /\ llm' = [cfg[w] EXCEPT !.api_key = IF @ = NoKey THEN llm.api_key ELSE @]
      /\ UNCHANGED <<mode, threshold, enabled, blocklist, webhook, offByHand>>
      /\ SavingAll(w, rows)
  BY DEF SetLLM
<1>2. llm \in LLMSettings /\ cfg[w] \in LLMSettings /\ known' = known
  BY <1>1 DEF Types, MemoryOK, WritersOK, SavingAll
<1>3. llm' \in LLMSettings /\ (llm'.api_key = NoKey => llm.api_key = NoKey)
  BY <1>1, <1>2 DEF LLMSettings
<1>4. /\ InMemory'["llm_base_url"] = llm'.base_url
      /\ InMemory'["llm_api_key"] = llm'.api_key
      /\ \A k \in Key \ LLMKey : InMemory'[k] = InMemory[k]
  BY <1>1, <1>2 DEF InMemory, Key, LLMKey
<1>5. /\ Row("llm_base_url", llm'.base_url) \in Rows
      /\ Row("llm_api_key", llm'.api_key) \in Rows
  <2>1. /\ llm'.base_url \in Values("llm_base_url")
        /\ llm'.api_key \in Values("llm_api_key")
        /\ {"llm_base_url", "llm_api_key"} \subseteq Key
    BY <1>3 DEF LLMSettings, Values, Key, LLMKey
  <2> QED
    BY <2>1 DEF Rows, Row
<1>6. PICK r \in Seq(Rows) \ {<<>>} :
        /\ r = rows /\ DOMAIN r = {1, 2}
        /\ r[1] = Row("llm_base_url", llm'.base_url)
        /\ r[2] = Row("llm_api_key", llm'.api_key)
  <2>1. \E r : r = rows
    OBVIOUS
  <2> QED
    BY <1>5, <2>1, ShortFacts
<1>7. Tells(r, LLMKey, InMemory')
  BY <1>4, <1>6 DEF LLMKey, Tells, Row
<1>8. /\ KeysOf(todo[w][1]) = LLMKey /\ todo[w][1].key = "llm"
      /\ LLMKey \subseteq Key /\ "disabled_categories" \notin LLMKey
      /\ offByHand \subseteq Family
  BY <1>1 DEF Types, RestOK, StepsOK, KeysOf, LLMKey, Key
<1>9. MemoryOK'
  BY <1>1, <1>2, <1>3 DEF Types, MemoryOK
<1>10. Prepares(w, LLMKey)
  BY <1>1, <1>6, <1>7, <1>8, SavingFacts
<1> QED
  BY <1>1, <1>3, <1>4, <1>8, <1>9, <1>10 DEF Sets

-----------------------------------------------------------------------------
(* Type correctness.                                                       *)

BusyAt(w, k) == pc[w] \in {"save", "reread", "push"} /\ k \in KeysOf(todo[w][1])

\* The step of one writer leaves the others where they are.
Others(w) ==
  \A v \in Writer \ {w} :
    pc'[v] = pc[v] /\ todo'[v] = todo[v] /\ out'[v] = out[v] /\ cfg'[v] = cfg[v]

LEMMA NextFieldFacts ==
  ASSUME Types, NEW w \in Writer, pc[w] /= "idle", NextField(w)
  PROVE  /\ pc' \in [Writer -> Step] /\ todo' \in [Writer -> Seq(Change)]
         /\ pc'[w] \in {"set", "idle"} /\ (pc'[w] = "idle" <=> todo'[w] = <<>>)
         /\ \A v \in Writer \ {w} : pc'[v] = pc[v] /\ todo'[v] = todo[v]
<1>1. todo[w] \in Seq(Change) \ {<<>>}
  BY FieldFacts
<1>2. PICK t \in Seq(Change) : t = Tail(todo[w]) /\ (Len(todo[w]) > 1 <=> t /= <<>>)
  BY <1>1, TailFacts
<1>3. /\ todo' = [todo EXCEPT ![w] = t]
      /\ pc' = [pc EXCEPT ![w] = IF t /= <<>> THEN "set" ELSE "idle"]
  BY <1>2 DEF NextField
<1> QED
  BY <1>2, <1>3 DEF Types, WritersOK, Step

\* A step that saves nothing and sets nothing.
Moves(w) ==
  /\ UNCHANGED <<known, memory, db, out, held, unsaved, crossed, offByHand>>
  /\ Others(w)
  /\ pc[w] /= "save" /\ pc'[w] /= "save"
  /\ \A k \in Key : BusyAt(w, k)' => BusyAt(w, k)

\* A step that saves the next row, or fails to.
SavesRow(w) ==
  /\ UNCHANGED <<known, memory, copies, held, crossed, offByHand, cfg>>
  /\ Others(w)
  /\ pc[w] = "save" /\ out[w] \in Seq(Rows) \ {<<>>} /\ out'[w] = Tail(out[w])
  /\ pc'[w] = "save" <=> out'[w] /= <<>>
  /\ \A k \in Key : BusyAt(w, k)' => BusyAt(w, k)
  /\ pc'[w] = "push" => todo'[w][1].key = "webhook"
  /\ pc'[w] \in {"save", "reread", "push"} => todo'[w] = todo[w]
  /\ todo[w][1].key \in {"webhook", "llm"} => pc'[w] \in {"save", "reread", "push"}
  /\ \/ Save(w) \/ SaveFails(w)

LEMMA StepTypes ==
  ASSUME WritersOK', Types, NEW w \in Writer, Others(w),
         pc'[w] = "idle" <=> todo'[w] = <<>>,
         pc'[w] \in {"llm", "reread"} => todo'[w][1].key = "llm",
         pc'[w] = "push" => todo'[w][1].key \in {"webhook", "llm"},
         pc'[w] = "save" => /\ out'[w] /= <<>>
                            /\ \A i \in DOMAIN out'[w] :
                                 out'[w][i].key \in KeysOf(todo'[w][1])
  PROVE  StepsOK'
BY DEF Types, StepsOK, Others

LEMMA MovesTypes ==
  ASSUME Types, NEW w \in Writer,
         \/ Start(w) \/ (AtField(w, "llm") /\ ReadLLM(w))
         \/ (pc[w] = "set" /\ Refuse(w)) \/ Reread(w) \/ Push(w)
  PROVE  Types' /\ Moves(w)
<1> USE DEF Types
<1>0. ASSUME UNCHANGED <<known, memory, db, held, unsaved, crossed, offByHand>>
      PROVE  MemoryOK' /\ TableOK'
  BY <1>0 DEF memory, MemoryOK, TableOK
<1>1. CASE Start(w)
  <2>1. PICK body \in Body : todo' = [todo EXCEPT ![w] = body]
    BY <1>1 DEF Start
  <2>2. body \in Seq(Change) /\ body /= <<>>
    BY BodyAssumption
  <2>3. /\ pc[w] = "idle" /\ pc' = [pc EXCEPT ![w] = "set"]
        /\ UNCHANGED <<known, memory, copies, db, out, cfg, history>>
        /\ requests < MaxRequests /\ requests' = requests + 1
    BY <1>1 DEF Start
  <2>4. WritersOK' /\ Others(w) /\ pc'[w] = "set" /\ todo'[w] = body
    BY <2>1, <2>2, <2>3 DEF WritersOK, Others, Step
  <2>5. StepsOK'
    BY <2>2, <2>4, StepTypes
  <2>6. RestOK'
    BY <2>3, SettingsAssumption DEF RestOK, copies, history
  <2> QED
    BY <1>0, <2>3, <2>4, <2>5, <2>6 DEF Moves, BusyAt, history
<1>2. CASE AtField(w, "llm") /\ ReadLLM(w)
  <2>1. /\ cfg' = [cfg EXCEPT ![w] =
             [base_url |-> Or(todo[w][1].val, "base_url", llm.base_url),
              api_key |-> Or(todo[w][1].val, "api_key", NoKey)]]
        /\ pc' = [pc EXCEPT ![w] = "llm"] /\ pc[w] = "set" /\ todo[w][1].key = "llm"
        /\ UNCHANGED <<known, memory, copies, db, todo, out, requests, history>>
    BY <1>2 DEF ReadLLM, AtField
  <2>2. cfg'[w] \in LLMSettings
    <3>1. todo[w][1] \in Change
      BY <2>1, FieldFacts
    <3>2. /\ todo[w][1].val.base_url \in Optional(URL \cup {NoURL})
          /\ todo[w][1].val.api_key \in Optional(ApiKey \cup {NoKey})
      BY <2>1, <3>1, BodyAssumption
    <3>3. llm.base_url \in URL \cup {NoURL}
      BY DEF MemoryOK, LLMSettings
    <3>4. /\ Or(todo[w][1].val, "base_url", llm.base_url) \in URL \cup {NoURL}
          /\ Or(todo[w][1].val, "api_key", NoKey) \in ApiKey \cup {NoKey}
      BY <3>2, <3>3 DEF Or, Optional, Absent
    <3> QED
      BY <2>1, <3>4 DEF WritersOK, LLMSettings
  <2>4. WritersOK' /\ Others(w) /\ pc'[w] = "llm" /\ todo' = todo
    BY <2>1, <2>2 DEF WritersOK, Others, Step
  <2>5. StepsOK'
    BY <2>1, <2>4, StepTypes DEF StepsOK
  <2>6. RestOK'
    BY <2>1 DEF RestOK, copies, history
  <2> QED
    BY <1>0, <2>1, <2>4, <2>5, <2>6 DEF Moves, BusyAt, history
<1>3. CASE pc[w] = "set" /\ Refuse(w)
  <2>1. /\ NextField(w)
        /\ UNCHANGED <<known, memory, copies, db, out, cfg, requests, history>>
    BY <1>3 DEF Refuse
  <2>2. WritersOK' /\ Others(w)
    BY <1>3, <2>1, NextFieldFacts DEF WritersOK, Others
  <2>3. /\ pc'[w] \in {"set", "idle"} /\ (pc'[w] = "idle" <=> todo'[w] = <<>>)
    BY <1>3, <2>1, NextFieldFacts
  <2>4. StepsOK'
    BY <2>2, <2>3, StepTypes
  <2>5. RestOK'
    BY <2>1 DEF RestOK, copies, history
  <2> QED
    BY <1>0, <1>3, <2>1, <2>2, <2>3, <2>4, <2>5 DEF Moves, BusyAt, history
<1>4. CASE Reread(w)
  <2>1. /\ pc[w] = "reread" /\ cfg' = [cfg EXCEPT ![w] = llm]
        /\ pc' = [pc EXCEPT ![w] = "push"]
        /\ UNCHANGED <<known, memory, copies, db, todo, out, requests, history>>
    BY <1>4 DEF Reread
  <2>2. WritersOK' /\ Others(w) /\ pc'[w] = "push"
    BY <2>1 DEF WritersOK, Others, Step, MemoryOK
  <2>3. StepsOK'
    BY <2>1, <2>2, StepTypes DEF StepsOK
  <2>4. RestOK'
    BY <2>1 DEF RestOK, copies, history
  <2> QED
    BY <1>0, <2>1, <2>2, <2>3, <2>4 DEF Moves, BusyAt, history
<1>5. CASE Push(w)
  <2>1. /\ pc[w] = "push" /\ NextField(w) /\ cfg' = [cfg EXCEPT ![w] = NoLLM]
        /\ UNCHANGED <<known, memory, db, out, requests, history>>
    BY <1>5 DEF Push
  <2>2. WritersOK' /\ Others(w)
    BY <2>1, NextFieldFacts, SeededFacts, SettingsAssumption DEF WritersOK, Others
  <2>3. /\ pc'[w] \in {"set", "idle"} /\ (pc'[w] = "idle" <=> todo'[w] = <<>>)
    BY <2>1, NextFieldFacts
  <2>4. StepsOK'
    BY <2>2, <2>3, StepTypes
  <2>5. notif' \in URL \cup {NoURL} /\ enr' \in LLMSettings
    <3>1. todo[w][1] \in Change /\ cfg[w] \in LLMSettings
      BY <2>1, FieldFacts DEF WritersOK
    <3> QED
      BY <1>5, <3>1, BodyAssumption, SeededFacts DEF Push, RestOK
  <2>6. RestOK'
    BY <2>1, <2>5 DEF RestOK, history
  <2> QED
    BY <1>0, <2>1, <2>2, <2>3, <2>4, <2>6 DEF Moves, BusyAt, history
<1> QED
  BY <1>1, <1>2, <1>3, <1>4, <1>5

LEMMA SetsTypes ==
  ASSUME Types, NEW w \in Writer, Sets(w), MemoryOK'
  PROVE  Types' /\ Others(w)
<1> USE DEF Types
<1> DEFINE keys == KeysOf(todo[w][1])
<1>1. /\ pc[w] \in {"set", "llm"} /\ keys \subseteq Key /\ Prepares(w, keys)
      /\ offByHand' \subseteq Family
  BY DEF Sets
<1>2. PICK rows \in Seq(Rows) \ {<<>>} :
        /\ out' = [out EXCEPT ![w] = rows]
        /\ \A i \in DOMAIN rows : rows[i].key \in keys
  BY <1>1 DEF Prepares, Tells
<1>3. /\ pc' = [pc EXCEPT ![w] = "save"] /\ todo' = todo
      /\ cfg' = [cfg EXCEPT ![w] = NoLLM]
      /\ UNCHANGED <<copies, db, requests, unsaved>>
      /\ DOMAIN held' = Key /\ crossed' \subseteq Key
  BY <1>1 DEF Prepares, RestOK
<1>4. WritersOK' /\ Others(w)
  BY <1>2, <1>3, SeededFacts, SettingsAssumption DEF WritersOK, Others, Step
<1>5. StepsOK'
  <2>1. /\ pc'[w] = "save" /\ todo'[w] = todo[w] /\ out'[w] = rows
        /\ pc[w] /= "idle"
    BY <1>1, <1>2, <1>3 DEF WritersOK
  <2> QED
    BY <1>2, <1>4, <2>1, StepTypes DEF StepsOK
<1>6. TableOK' /\ RestOK'
  BY <1>1, <1>3 DEF TableOK, RestOK, copies
<1> QED
  BY <1>4, <1>5, <1>6

LEMMA SavesTypes ==
  ASSUME Types, NEW w \in Writer, Save(w) \/ SaveFails(w)
  PROVE  Types' /\ SavesRow(w)
<1> USE DEF Types
<1>1. /\ pc[w] = "save" /\ out[w] \in Seq(Rows) \ {<<>>} /\ out[w][1] \in Rows
      /\ \A i \in DOMAIN out[w] : out[w][i].key \in KeysOf(todo[w][1])
      /\ Saved(w)
  BY TailFacts DEF Save, SaveFails, WritersOK, StepsOK
<1>2. PICK rest \in Seq(Rows) :
        /\ rest = Tail(out[w]) /\ (Len(out[w]) > 1 <=> rest /= <<>>)
        /\ \A i \in DOMAIN rest : rest[i].key \in KeysOf(todo[w][1])
  <2>1. PICK s, rest : s \in Seq(Rows) \ {<<>>} /\ s = out[w] /\ rest = Tail(s)
    BY <1>1
  <2>2. /\ rest \in Seq(Rows) /\ (Len(s) > 1 <=> rest /= <<>>)
        /\ \A i \in DOMAIN rest : i + 1 \in DOMAIN s /\ rest[i] = s[i + 1]
    BY <2>1, TailFacts
  <2> QED
    BY <1>1, <2>1, <2>2
<1>3. /\ out' = [out EXCEPT ![w] = rest]
      /\ rest /= <<>> => UNCHANGED <<pc, todo>>
      /\ rest = <<>> => AfterSave(w)
      /\ UNCHANGED <<known, memory, copies, cfg, requests, held, crossed, offByHand>>
  BY <1>1, <1>2 DEF Saved
<1>4. out' \in [Writer -> Seq(Rows)] /\ out'[w] = rest
  BY <1>3 DEF WritersOK
<1>5. /\ WritersOK' /\ Others(w)
      /\ \/ rest /= <<>> /\ pc'[w] = "save" /\ todo'[w] = todo[w]
         \/ /\ rest = <<>> /\ pc'[w] = "push" /\ todo'[w] = todo[w]
            /\ todo[w][1].key = "webhook"
         \/ /\ rest = <<>> /\ pc'[w] = "reread" /\ todo'[w] = todo[w]
            /\ todo[w][1].key = "llm"
         \/ /\ rest = <<>> /\ pc'[w] \in {"set", "idle"}
            /\ pc'[w] = "idle" <=> todo'[w] = <<>>
            /\ todo[w][1].key \notin {"webhook", "llm"}
  <2>1. CASE rest /= <<>>
    BY <1>1, <1>3, <1>4, <2>1 DEF WritersOK, Others
  <2>2. CASE rest = <<>> /\ todo[w][1].key = "webhook"
    BY <1>1, <1>3, <1>4, <2>2 DEF AfterSave, WritersOK, Others, Step
  <2>3. CASE rest = <<>> /\ todo[w][1].key = "llm"
    BY <1>1, <1>3, <1>4, <2>3 DEF AfterSave, WritersOK, Others, Step
  <2>4. CASE rest = <<>> /\ todo[w][1].key \notin {"webhook", "llm"}
    <3>1. NextField(w)
      BY <1>3, <2>4 DEF AfterSave
    <3> QED
      BY <1>1, <1>3, <1>4, <2>4, <3>1, NextFieldFacts DEF WritersOK, Others
  <2> QED
    BY <2>1, <2>2, <2>3, <2>4
<1>6. StepsOK'
  BY <1>1, <1>2, <1>4, <1>5, StepTypes DEF StepsOK
<1>7. /\ \A k \in Key : BusyAt(w, k)' => BusyAt(w, k)
      /\ pc'[w] = "push" => todo'[w][1].key = "webhook"
      /\ pc'[w] \in {"save", "reread", "push"} => todo'[w] = todo[w]
      /\ todo[w][1].key \in {"webhook", "llm"} => pc'[w] \in {"save", "reread", "push"}
      /\ pc'[w] = "save" <=> out'[w] /= <<>>
  BY <1>1, <1>4, <1>5 DEF BusyAt
<1>8. MemoryOK' /\ TableOK' /\ RestOK'
  <2>1. /\ out[w][1].key \in Key /\ out[w][1].val \in Values(out[w][1].key)
    BY <1>1 DEF Rows
  <2>2. TableOK' /\ unsaved' \subseteq Key
    BY <2>1 DEF Save, SaveFails, TableOK, RestOK, Optional
  <2> QED
    BY <1>3, <2>2 DEF MemoryOK, RestOK, memory, copies
<1> QED
  BY <1>1, <1>2, <1>3, <1>4, <1>5, <1>6, <1>7, <1>8 DEF SavesRow

\* What a start loads has its type, whatever rows could not be read.
LEMMA RestartFacts ==
  ASSUME Types, Restart
  PROVE  \E missed, failed, seen :
           /\ missed \in Missed /\ failed \in SUBSET LLMKey
           /\ seen = [k \in Key |-> IF k \in missed THEN Absent ELSE db[k]]
           /\ \A k \in Key : seen[k] \in Optional(Values(k))
           /\ LoadedLLM(seen) \in LLMSettings
           /\ Load(seen, known')
           /\ db' = SeededTable(db, LoadedLLM(seen), failed)
           /\ unsaved' = missed \cup failed
<1>1. PICK missed \in Missed :
        LET seen == [k \in Key |-> IF k \in missed THEN Absent ELSE db[k]] IN
        \E failed \in Failures(LoadedLLM(seen)) :
          /\ Load(seen, known')
          /\ db' = SeededTable(db, LoadedLLM(seen), failed)
          /\ unsaved' = missed \cup failed
  BY DEF Restart
<1>2. PICK seen : seen = [k \in Key |-> IF k \in missed THEN Absent ELSE db[k]]
  OBVIOUS
<1>3. PICK failed \in Failures(LoadedLLM(seen)) :
        /\ Load(seen, known')
        /\ db' = SeededTable(db, LoadedLLM(seen), failed)
        /\ unsaved' = missed \cup failed
  BY <1>1, <1>2
<1>4. failed \in SUBSET LLMKey
  BY <1>3 DEF Failures
<1>5. \A k \in Key : seen[k] \in Optional(Values(k))
  BY <1>2 DEF Types, TableOK, Optional
<1>6. LoadedLLM(seen) \in LLMSettings
  <2>1. /\ seen["llm_base_url"] \in Optional(URL \cup {NoURL})
        /\ seen["llm_api_key"] \in Optional(ApiKey \cup {NoKey})
    BY <1>5 DEF Key, LLMKey, Values
  <2> QED
    BY <2>1, OrType DEF LoadedLLM, LLMSettings
<1> QED
  BY <1>2, <1>3, <1>4, <1>5, <1>6

LEMMA RestartTypes == ASSUME Types, Restart PROVE Types'
<1> USE DEF Types
<1>1. PICK missed, failed, seen :
        /\ missed \in Missed /\ failed \in SUBSET LLMKey
        /\ \A k \in Key : seen[k] \in Optional(Values(k))
        /\ LoadedLLM(seen) \in LLMSettings
        /\ Load(seen, known')
        /\ db' = SeededTable(db, LoadedLLM(seen), failed)
        /\ unsaved' = missed \cup failed
  BY RestartFacts
<1>2. TableOK'
  BY <1>1, SeededTableFacts DEF TableOK
<1>3. known' \in Versions /\ known' \subseteq Family
  BY SettingsAssumption DEF Restart
<1>4. MemoryOK'
  <2>1. /\ mode' \in KnownMode /\ threshold' \in Nat \ {0}
        /\ blocklist' \in SUBSET IP /\ webhook' \in URL \cup {NoURL}
        /\ Or(seen, "disabled_categories", {}) \in SUBSET Family
    <3>1. /\ seen["mode"] \in Optional(Mode) /\ seen["threshold"] \in Optional(Nat \ {0})
          /\ seen["blocklist"] \in Optional(SUBSET IP)
          /\ seen["webhook"] \in Optional(URL \cup {NoURL})
          /\ seen["disabled_categories"] \in Optional(SUBSET Family)
      BY <1>1 DEF Key, Values
    <3>2. Or(seen, "mode", ConfigMode) \in KnownMode
      BY <3>1 DEF Or, Optional, Absent, KnownMode
    <3>3. Or(seen, "threshold", ConfigThreshold) \in Nat \ {0}
      BY <3>1, SettingsAssumption, OrType
    <3>4. Or(seen, "blocklist", {}) \in SUBSET IP
      BY <3>1, OrType
    <3>5. Or(seen, "webhook", NoURL) \in URL \cup {NoURL}
      BY <3>1, OrType
    <3>6. Or(seen, "disabled_categories", {}) \in SUBSET Family
      BY <3>1, OrType
    <3> QED
      BY <1>1, <3>2, <3>3, <3>4, <3>5, <3>6 DEF Load
  <2>2. llm' \in LLMSettings
    BY <1>1, SeededFacts DEF Load
  <2>3. /\ known' \subseteq DOMAIN enabled' /\ DOMAIN enabled' \subseteq Family
        /\ \A c \in DOMAIN enabled' : enabled'[c] \in BOOLEAN
    <3>1. enabled' = LoadedEnabled(seen, known')
      BY <1>1 DEF Load
    <3>2. /\ DOMAIN enabled' = known' \cup Or(seen, "disabled_categories", {})
          /\ \A c \in DOMAIN enabled' : enabled'[c] = TRUE \/ enabled'[c] = FALSE
      BY <3>1, EnabledFacts
    <3> QED
      BY <1>3, <2>1, <3>2
  <2> QED
    BY <1>3, <2>1, <2>2, <2>3 DEF MemoryOK
<1>5. RestOK'
  <2>1. /\ DOMAIN held' = Key /\ crossed' = {} /\ UNCHANGED <<requests, offByHand>>
        /\ notif' = InitialWebhook(webhook') /\ enr' = Effective(llm')
    BY DEF Restart
  <2>2. unsaved' \subseteq Key
    BY <1>1, SettingsAssumption DEF Key
  <2> QED
    BY <1>4, <2>1, <2>2, SeededFacts, SettingsAssumption DEF RestOK, MemoryOK, InitialWebhook
<1>6. WritersOK' /\ StepsOK'
  <2>1. /\ pc' = [w \in Writer |-> "idle"] /\ todo' = [w \in Writer |-> <<>>]
        /\ out' = [w \in Writer |-> <<>>] /\ cfg' = [w \in Writer |-> NoLLM]
        /\ NoLLM \in LLMSettings
    BY SeededFacts, SettingsAssumption DEF Restart
  <2> QED
    BY <2>1 DEF WritersOK, StepsOK, Step
<1> QED
  BY <1>2, <1>4, <1>5, <1>6

\* Reads the language model's settings for a field; and turns to another field.
Reads(w) == pc[w] = "set" /\ pc'[w] = "llm"
Turns(w) == pc[w] \in {"idle", "set"} /\ UNCHANGED copies

\* The steps of the program, by what they have in common.
LEMMA StepCases ==
  ASSUME Types, Next
  PROVE  /\ Types'
         /\ \/ Restart
            \/ \E w \in Writer : Moves(w) /\ UNCHANGED <<copies, todo>>
                                /\ (Reread(w) \/ Reads(w))
            \/ \E w \in Writer : Moves(w) /\ (Push(w) \/ Turns(w))
                                /\ pc'[w] \in {"set", "idle"}
            \/ \E w \in Writer : Sets(w) /\ Others(w)
            \/ \E w \in Writer : SavesRow(w)
<1>1. ASSUME Restart PROVE Types'
  BY <1>1, RestartTypes
<1>2. ASSUME NEW w \in Writer, Start(w) \/ (pc[w] = "set" /\ Refuse(w)) \/ Push(w)
      PROVE  /\ Types' /\ Moves(w) /\ (Push(w) \/ Turns(w))
             /\ pc'[w] \in {"set", "idle"}
  <2>1. Types' /\ Moves(w)
    BY <1>2, MovesTypes
  <2>2. Push(w) \/ Turns(w)
    BY <1>2 DEF Start, Refuse, Turns
  <2>3. pc'[w] \in {"set", "idle"}
    <3>1. CASE Start(w)
      BY <3>1 DEF Start, Types, WritersOK
    <3>2. CASE pc[w] = "set" /\ Refuse(w)
      BY <3>2, NextFieldFacts DEF Refuse
    <3>3. CASE Push(w)
      BY <3>3, NextFieldFacts DEF Push
    <3> QED
      BY <1>2, <3>1, <3>2, <3>3
  <2> QED
    BY <2>1, <2>2, <2>3
<1>3. ASSUME NEW w \in Writer, (AtField(w, "llm") /\ ReadLLM(w)) \/ Reread(w)
      PROVE  /\ Types' /\ Moves(w) /\ UNCHANGED <<copies, todo>>
             /\ (Reread(w) \/ Reads(w))
  <2>1. Types' /\ Moves(w)
    BY <1>3, MovesTypes
  <2>2. UNCHANGED <<copies, todo>>
    BY <1>3 DEF ReadLLM, Reread
  <2>3. AtField(w, "llm") /\ ReadLLM(w) => Reads(w)
    BY DEF AtField, ReadLLM, Reads, Types, WritersOK
  <2> QED
    BY <1>3, <2>1, <2>2, <2>3
<1>4. ASSUME NEW w \in Writer,
             \/ AtField(w, "mode") /\ SetMode(w)
             \/ AtField(w, "threshold") /\ SetThreshold(w)
             \/ AtField(w, "disabled_categories") /\ SetCategories(w)
             \/ AtField(w, "blocklist") /\ SetBlock(w)
             \/ AtField(w, "webhook") /\ SetWebhook(w)
             \/ SetLLM(w)
      PROVE  Types' /\ Sets(w) /\ Others(w)
  <2>1. Sets(w) /\ MemoryOK'
    BY <1>4, SetMemory, SetLanguageModel
  <2> QED
    BY <2>1, SetsTypes
<1>5. ASSUME NEW w \in Writer, Save(w) \/ SaveFails(w)
      PROVE  Types' /\ SavesRow(w)
  BY <1>5, SavesTypes
<1> QED
  BY <1>1, <1>2, <1>3, <1>4, <1>5 DEF Next, Apply

LEMMA TypesHold == Spec => []Types
<1>1. Types /\ UNCHANGED vars => Types'
  BY DEF vars, memory, copies, history, Types, MemoryOK, TableOK, RestOK, WritersOK, StepsOK
<1>2. Types /\ [Next]_vars => Types'
  BY <1>1, StepCases
<1> QED
  BY InitTypes, <1>2, PTL DEF Spec

\* TypeOK: every variable keeps its type, and the map of families covers those
\* that this version knows.
THEOREM TypeCorrect == Spec => []TypeOK
<1>1. Types => TypeOK
  BY DEF Types, MemoryOK, TableOK, RestOK, WritersOK, StepsOK, Step, TypeOK
<1> QED
  BY <1>1, TypesHold, PTL

-----------------------------------------------------------------------------
(* The inductive invariants.                                               *)

\* The rows of the key k that are about to be saved.
RowsToSave(k, p, o) ==
  {r \in UNION {{o[w][i] : i \in DOMAIN o[w]} : w \in {v \in Writer : p[v] = "save"}} :
     r.key = k}

Pending(k) == RowsToSave(k, pc, out)

\* A row that is about to be saved holds what memory has held.
SavedInv ==
  /\ SavedWasInForce
  /\ \A k \in Key : \A r \in Pending(k) : r.val \in held[k]

\* A row, in the table or about to be, switches off no family but those that an
\* administrator has.
OffInv ==
  /\ db.disabled_categories \in Optional(SUBSET offByHand)
  /\ \A r \in Pending("disabled_categories") : r.val \subseteq offByHand
  /\ NeverSwitchedOffIsOn

\* A key that no two requests have set at once: one request at most is about to
\* save it, it saves what memory holds, and when it has, the table agrees.
AloneInv ==
  \A k \in Key \ crossed :
    /\ \A w, v \in Writer : BusyAt(w, k) /\ BusyAt(v, k) => w = v
    /\ \A r \in Pending(k) : r.val = InMemory[k]
    /\ k \notin unsaved /\ Pending(k) = {} => InTable[k] = InMemory[k]

\* The request that is about to push a webhook pushes the one of the settings.
AlertsInv ==
  /\ "webhook" \notin crossed =>
       \A w \in Writer : BusyAt(w, "webhook") => todo[w][1].val = webhook
  /\ AlertsFollowSettings

\* The same for the language model, once it has been read again.
AnalysesInv ==
  /\ LLMKey \cap crossed = {} =>
       \A w \in Writer : pc[w] = "push" /\ todo[w][1].key = "llm" => cfg[w] = llm
  /\ AnalysesFollowSettings

\* As long as memory has no key there is none to save, and none in the table but
\* one that could not be read.
KeyInv ==
  llm.api_key = NoKey =>
    /\ \A r \in Pending("llm_api_key") : r.val = NoKey
    /\ "llm_api_key" \notin unsaved => LoadedLLM(db).api_key = NoKey

-----------------------------------------------------------------------------
(* What the steps do to the rows that are about to be saved.               *)

LEMMA RowsFacts ==
  \A k, p, o, r :
    r \in RowsToSave(k, p, o) <=>
      r.key = k /\ \E w \in Writer : p[w] = "save" /\ \E i \in DOMAIN o[w] : r = o[w][i]
BY DEF RowsToSave

LEMMA BusyFacts ==
  ASSUME NEW k \in Key, NEW w \in Writer, BusyAt(w, k)
  PROVE  Busy(k)
BY DEF Busy, BusyAt, KeysOf

LEMMA QuietFacts ==
  ASSUME Types, NEW k \in Key, ~Busy(k)
  PROVE  Pending(k) = {} /\ \A w \in Writer : ~BusyAt(w, k)
<1>1. \A w \in Writer : ~BusyAt(w, k)
  BY BusyFacts
<1>2. ASSUME NEW r \in Pending(k) PROVE FALSE
  <2>1. PICK w \in Writer : pc[w] = "save" /\ r.key = k /\ \E i \in DOMAIN out[w] : r = out[w][i]
    BY <1>2, RowsFacts DEF Pending
  <2>2. k \in KeysOf(todo[w][1])
    BY <2>1 DEF Types, StepsOK
  <2> QED
    BY <1>1, <2>1, <2>2 DEF BusyAt
<1> QED
  BY <1>1, <1>2

LEMMA MovesRows ==
  ASSUME Types, NEW w \in Writer, Moves(w)
  PROVE  /\ \A k : Pending(k)' = Pending(k)
         /\ \A k \in Key, v \in Writer : BusyAt(v, k)' => BusyAt(v, k)
<1>1. \A k, r : r \in RowsToSave(k, pc', out') <=> r \in RowsToSave(k, pc, out)
  BY RowsFacts DEF Moves, Others
<1>2. \A k : Pending(k)' = Pending(k)
  BY <1>1 DEF Pending
<1> QED
  BY <1>2 DEF Moves, Others, BusyAt

LEMMA SavesRows ==
  ASSUME Types, NEW w \in Writer, SavesRow(w)
  PROVE  \E r \in Rows :
           /\ r.key \in Key /\ r.val \in Values(r.key) /\ r \in Pending(r.key)
           /\ \A k : Pending(k)' \subseteq Pending(k) /\ Pending(k) \subseteq Pending(k)' \cup {r}
           /\ \A k \in Key, v \in Writer : BusyAt(v, k)' => BusyAt(v, k)
           /\ \/ /\ db' = [db EXCEPT ![r.key] = <<r.val>>]
                 /\ unsaved' = unsaved \ {r.key}
              \/ db' = db /\ unsaved' = unsaved \cup {r.key}
<1>1. PICK s, rest : s \in Seq(Rows) \ {<<>>} /\ s = out[w] /\ rest = Tail(s)
  BY DEF SavesRow
<1>2. /\ s[1] \in Rows /\ 1 \in DOMAIN s /\ rest \in Seq(Rows)
      /\ DOMAIN rest = 1 .. Len(s) - 1 /\ DOMAIN s = 1 .. Len(s)
      /\ \A i \in DOMAIN rest : i + 1 \in DOMAIN s /\ rest[i] = s[i + 1]
  BY <1>1, TailFacts
<1>3. pc[w] = "save" /\ out'[w] = rest /\ (pc'[w] = "save" <=> rest /= <<>>) /\ Others(w)
  BY <1>1 DEF SavesRow
<1>4. \A i \in DOMAIN s : s[i] = s[1] \/ \E j \in DOMAIN rest : s[i] = rest[j]
  <2> TAKE i \in DOMAIN s
  <2>1. CASE i = 1
    BY <2>1
  <2>2. CASE i /= 1
    <3>1. i - 1 \in DOMAIN rest /\ i - 1 + 1 = i
      BY <1>2, <2>2
    <3> QED
      BY <1>2, <3>1
  <2> QED
    BY <2>1, <2>2
<1>5. \A k, r : r \in RowsToSave(k, pc', out') => r \in RowsToSave(k, pc, out)
  <2> SUFFICES ASSUME NEW k, NEW r, r \in RowsToSave(k, pc', out')
               PROVE  r \in RowsToSave(k, pc, out)
    OBVIOUS
  <2>1. PICK v \in Writer : /\ r.key = k /\ pc'[v] = "save"
                          /\ \E i \in DOMAIN out'[v] : r = out'[v][i]
    BY RowsFacts
  <2>2. CASE v /= w
    BY <1>3, <2>1, <2>2, RowsFacts DEF Others
  <2>3. CASE v = w
    <3>1. PICK i \in DOMAIN rest : r = rest[i]
      BY <1>3, <2>1, <2>3
    <3>2. i + 1 \in DOMAIN out[w] /\ r = out[w][i + 1]
      BY <1>1, <1>2, <3>1
    <3>3. \E j \in DOMAIN out[w] : r = out[w][j]
      BY <3>2
    <3> QED
      BY <1>3, <2>1, <3>3, RowsFacts
  <2> QED
    BY <2>2, <2>3
<1>6. \A k, r : r \in RowsToSave(k, pc, out) => r = s[1] \/ r \in RowsToSave(k, pc', out')
  <2> SUFFICES ASSUME NEW k, NEW r, r \in RowsToSave(k, pc, out), r /= s[1]
               PROVE  r \in RowsToSave(k, pc', out')
    OBVIOUS
  <2>1. PICK v \in Writer : /\ r.key = k /\ pc[v] = "save"
                          /\ \E i \in DOMAIN out[v] : r = out[v][i]
    BY RowsFacts
  <2>2. CASE v /= w
    BY <1>3, <2>1, <2>2, RowsFacts DEF Others
  <2>3. CASE v = w
    <3>1. PICK j \in DOMAIN rest : r = rest[j]
      BY <1>1, <1>4, <2>1, <2>3
    <3>2. rest /= <<>>
      BY <3>1
    <3> QED
      BY <1>3, <2>1, <3>1, <3>2, RowsFacts
  <2> QED
    BY <2>2, <2>3
<1>7. s[1].key \in Key /\ s[1].val \in Values(s[1].key) /\ s[1] \in Pending(s[1].key)
  BY <1>1, <1>2, <1>3, RowsFacts DEF Rows, Pending
<1>8. \/ /\ db' = [db EXCEPT ![s[1].key] = <<s[1].val>>]
         /\ unsaved' = unsaved \ {s[1].key}
      \/ db' = db /\ unsaved' = unsaved \cup {s[1].key}
  BY <1>1 DEF SavesRow, Save, SaveFails
<1>9. \A k \in Key, v \in Writer : BusyAt(v, k)' => BusyAt(v, k)
  BY DEF SavesRow, Others, BusyAt
<1> QED
  BY <1>2, <1>5, <1>6, <1>7, <1>8, <1>9 DEF Pending

LEMMA SetsRows ==
  ASSUME Types, NEW w \in Writer, Sets(w), Others(w)
  PROVE  LET keys == KeysOf(todo[w][1]) IN
         /\ \A k \in keys : /\ Pending(k)' /= {}
                            /\ \A r \in Pending(k)' : r \in Pending(k) \/ r.val = InMemory'[k]
         /\ \A k \in Key \ keys : Pending(k)' = Pending(k)
         /\ \A k \in Key : /\ ~BusyAt(w, k) /\ (BusyAt(w, k)' <=> k \in keys)
                           /\ \A v \in Writer \ {w} : BusyAt(v, k)' <=> BusyAt(v, k)
<1> DEFINE keys == KeysOf(todo[w][1])
<1>1. PICK rows \in Seq(Rows) \ {<<>>} :
        out' = [out EXCEPT ![w] = rows] /\ Tells(rows, keys, InMemory')
  BY DEF Sets, Prepares
<1>2. /\ out'[w] = rows /\ pc'[w] = "save" /\ todo' = todo
      /\ pc[w] \in {"set", "llm"}
  BY <1>1 DEF Sets, Prepares, Types, WritersOK
<1>3. \A k \in keys : \E r : r \in RowsToSave(k, pc', out')
  <2> TAKE k \in keys
  <2>1. PICK i \in DOMAIN rows : rows[i].key = k
    BY <1>1 DEF Tells
  <2>2. rows[i] \in RowsToSave(k, pc', out')
    BY <1>2, <2>1, RowsFacts
  <2> QED
    BY <2>2
<1>4. \A k : \A r \in RowsToSave(k, pc', out') :
        \/ r \in RowsToSave(k, pc, out)
        \/ k \in keys /\ r.val = InMemory'[k]
  <2> SUFFICES ASSUME NEW k, NEW r \in RowsToSave(k, pc', out')
               PROVE  \/ r \in RowsToSave(k, pc, out)
                      \/ k \in keys /\ r.val = InMemory'[k]
    OBVIOUS
  <2>1. PICK v \in Writer : /\ r.key = k /\ pc'[v] = "save"
                          /\ \E i \in DOMAIN out'[v] : r = out'[v][i]
    BY RowsFacts
  <2>2. CASE v /= w
    BY <2>1, <2>2, RowsFacts DEF Others
  <2>3. CASE v = w
    BY <1>1, <1>2, <2>1, <2>3 DEF Tells
  <2> QED
    BY <2>2, <2>3
<1>5. \A k, r : r \in RowsToSave(k, pc, out) => r \in RowsToSave(k, pc', out')
  BY <1>2, RowsFacts DEF Others
<1>6. \A k \in Key : /\ ~BusyAt(w, k) /\ (BusyAt(w, k)' <=> k \in keys)
                    /\ \A v \in Writer \ {w} : BusyAt(v, k)' <=> BusyAt(v, k)
  BY <1>2 DEF Others, BusyAt
<1>7. \A k \in Key \ keys : Pending(k)' = Pending(k)
  BY <1>4, <1>5 DEF Pending
<1>8. \A k \in keys : /\ Pending(k)' /= {}
                     /\ \A r \in Pending(k)' : r \in Pending(k) \/ r.val = InMemory'[k]
  BY <1>3, <1>4 DEF Pending
<1> QED
  BY <1>6, <1>7, <1>8

LEMMA RestartRows ==
  ASSUME Restart
  PROVE  /\ \A k : Pending(k)' = {}
         /\ \A k \in Key, w \in Writer : ~BusyAt(w, k)'
<1>1. \A w \in Writer : pc'[w] = "idle"
  BY DEF Restart
<1>2. \A k, r : r \notin RowsToSave(k, pc', out')
  BY <1>1, RowsFacts
<1> QED
  BY <1>1, <1>2 DEF Pending, BusyAt

-----------------------------------------------------------------------------
(* What a start loads is what memory has held.                             *)

LEMMA RowFacts ==
  /\ DOMAIN Absent = {}
  /\ \A v : DOMAIN <<v>> = {1} /\ <<v>>[1] = v /\ <<v>> /= Absent
BY DEF Absent

\* What a start does to each key: the row is as it was, or holds the language
\* model of the environment, which is what memory holds.
LEMMA RestartTable ==
  ASSUME Types, Restart
  PROVE  /\ \A k \in Key \ LLMKey : db'[k] = db[k]
         /\ \A k \in Key : db'[k] = db[k] \/ db'[k] = <<InMemory'[k]>>
         /\ \A k \in Key \ unsaved' : InTable'[k] = InMemory'[k]
         /\ \A c \in known' : ~enabled'[c] =>
              \E S : db["disabled_categories"] = <<S>> /\ c \in S
<1>1. PICK missed, failed, seen :
        /\ missed \in Missed /\ failed \in SUBSET LLMKey
        /\ seen = [k \in Key |-> IF k \in missed THEN Absent ELSE db[k]]
        /\ \A k \in Key : seen[k] \in Optional(Values(k))
        /\ LoadedLLM(seen) \in LLMSettings
        /\ Load(seen, known')
        /\ db' = SeededTable(db, LoadedLLM(seen), failed)
        /\ unsaved' = missed \cup failed
  BY RestartFacts
<1>2. \A k \in Key :
        /\ k \notin LLMKey \/ k \in failed \/ ~Seeds(LoadedLLM(seen)) => db'[k] = db[k]
        /\ k \in LLMKey \ failed /\ Seeds(LoadedLLM(seen)) =>
             db'[k] = <<RowsOf(Seeded(LoadedLLM(seen)))[k]>>
  BY <1>1, SeededTableFacts DEF Types, TableOK
<1>3. llm' = Seeded(LoadedLLM(seen)) /\ enabled' = LoadedEnabled(seen, known')
  BY <1>1 DEF Load
<1>4. \A k \in LLMKey : InMemory'[k] = RowsOf(llm')[k]
  BY DEF InMemory, LLMKey, RowsOf
<1>5. \A k \in Key \ LLMKey : db'[k] = db[k]
  BY <1>2
<1>6. \A k \in Key : db'[k] = db[k] \/ db'[k] = <<InMemory'[k]>>
  BY <1>2, <1>3, <1>4
<1>7. /\ enabled' = LoadedEnabled(seen, known')
      /\ \A c \in known' : ~enabled'[c] <=> c \in Or(seen, "disabled_categories", {})
  BY <1>3, EnabledFacts
<1>8. \A c \in known' : ~enabled'[c] =>
        \E S : db["disabled_categories"] = <<S>> /\ c \in S
  <2> SUFFICES ASSUME NEW c \in known', c \in Or(seen, "disabled_categories", {})
               PROVE  \E S : db["disabled_categories"] = <<S>> /\ c \in S
    BY <1>7
  <2>1. "disabled_categories" \in Key
    BY DEF Key
  <2>2. seen["disabled_categories"] /= Absent
    BY OrFacts
  <2>3. seen["disabled_categories"] = db["disabled_categories"]
    BY <1>1, <2>1, <2>2
  <2>4. PICK S : seen["disabled_categories"] = <<S>>
    BY <1>1, <2>1, <2>2 DEF Optional
  <2> QED
    BY <2>3, <2>4, OrFacts
<1>9. ASSUME NEW k \in Key \ unsaved' PROVE InTable'[k] = InMemory'[k]
  <2>1. seen[k] = db[k] /\ k \notin failed
    BY <1>1, <1>9
  <2>2. \A d : db'[k] = db[k] => Or(db', k, d) = Or(seen, k, d)
    BY <2>1 DEF Or
  <2>3. CASE k \in {"mode", "threshold", "blocklist", "webhook"}
    <3>1. db'[k] = db[k]
      BY <1>5, <2>3 DEF LLMKey
    <3> QED
      BY <1>1, <2>2, <2>3, <3>1 DEF InTable, FoundIn, InMemory, Load
  <2>4. CASE k = "disabled_categories"
    <3>1. Or(db', k, {}) = Or(seen, k, {})
      BY <1>5, <2>2, <2>4 DEF LLMKey
    <3>2. {c \in known' : ~enabled'[c]} = known' \cap Or(seen, k, {})
      BY <1>7, <2>4
    <3> QED
      BY <2>4, <3>1, <3>2 DEF InTable, FoundIn, InMemory
  <2>5. CASE k \in LLMKey /\ Seeds(LoadedLLM(seen))
    <3>1. db'[k] = <<InMemory'[k]>>
      BY <1>2, <1>3, <1>4, <2>1, <2>5
    <3>2. \A d : Or(db', k, d) = InMemory'[k]
      BY <3>1, OrFacts
    <3> QED
      BY <2>5, <3>2 DEF InTable, FoundIn, LoadedLLM, LLMKey
  <2>6. CASE k \in LLMKey /\ ~Seeds(LoadedLLM(seen))
    <3>1. db'[k] = db[k]
      BY <1>2, <2>6
    <3>2. llm' = LoadedLLM(seen)
      BY <1>3, <2>6 DEF Seeded
    <3> QED
      BY <2>2, <2>6, <3>1, <3>2 DEF InTable, FoundIn, InMemory, LoadedLLM, LLMKey
  <2> QED
    BY <2>3, <2>4, <2>5, <2>6 DEF Key
<1> QED
  BY <1>5, <1>6, <1>8, <1>9

LEMMA SavedNext == Types /\ SavedInv /\ [Next]_vars => SavedInv'
<1> SUFFICES ASSUME Types, SavedInv, [Next]_vars PROVE SavedInv'
  OBVIOUS
<1> USE DEF SavedInv, SavedWasInForce
<1>0. DOMAIN held = Key /\ DOMAIN db = Key
  BY DEF Types, RestOK, TableOK
<1>1. CASE UNCHANGED vars
  BY <1>1 DEF vars, history, Pending
<1>2. ASSUME NEW w \in Writer, Moves(w) PROVE SavedInv'
  BY <1>2, MovesRows DEF Moves
<1>3. ASSUME NEW w \in Writer, SavesRow(w) PROVE SavedInv'
  <2>1. PICK r \in Rows :
          /\ r.key \in Key /\ r \in Pending(r.key)
          /\ \A k : Pending(k)' \subseteq Pending(k)
          /\ db' = [db EXCEPT ![r.key] = <<r.val>>] \/ db' = db
    BY <1>3, SavesRows
  <2>2. held' = held /\ r.val \in held[r.key]
    BY <1>3, <2>1 DEF SavesRow
  <2>3. \A k \in Key : db'[k] = db[k] \/ (k = r.key /\ db'[k] = <<r.val>>)
    <3>1. CASE db' = [db EXCEPT ![r.key] = <<r.val>>]
      BY <1>0, <3>1
    <3>2. CASE db' = db
      BY <3>2
    <3> QED
      BY <2>1, <3>1, <3>2
  <2>4. ASSUME NEW k \in Key, NEW i \in DOMAIN db'[k] PROVE db'[k][i] \in held'[k]
    <3>1. CASE db'[k] = db[k]
      BY <2>2, <2>4, <3>1
    <3>2. CASE k = r.key /\ db'[k] = <<r.val>>
      BY <2>2, <2>4, <3>2, RowFacts
    <3> QED
      BY <2>3, <3>1, <3>2
  <2> QED
    BY <2>1, <2>2, <2>4
<1>4. ASSUME NEW w \in Writer, Sets(w), Others(w) PROVE SavedInv'
  <2> DEFINE keys == KeysOf(todo[w][1])
  <2>1. /\ db' = db
        /\ held' = [k \in Key |-> IF k \in keys THEN held[k] \cup {InMemory'[k]} ELSE held[k]]
    BY <1>4 DEF Sets, Prepares
  <2>2. /\ \A k \in keys : \A r \in Pending(k)' : r \in Pending(k) \/ r.val = InMemory'[k]
        /\ \A k \in Key \ keys : Pending(k)' = Pending(k)
    BY <1>4, SetsRows
  <2> HIDE DEF keys
  <2>3. \A k \in Key : held[k] \subseteq held'[k] /\ (k \in keys => InMemory'[k] \in held'[k])
    BY <2>1
  <2> QED
    BY <2>1, <2>2, <2>3
<1>5. CASE Restart
  <2>1. held' = [k \in Key |-> {InMemory'[k]} \cup {db[k][i] : i \in DOMAIN db[k]}]
    BY <1>5 DEF Restart
  <2>2. \A k \in Key : db'[k] = db[k] \/ db'[k] = <<InMemory'[k]>>
    BY <1>5, RestartTable
  <2>3. ASSUME NEW k \in Key, NEW i \in DOMAIN db'[k] PROVE db'[k][i] \in held'[k]
    <3>1. CASE db'[k] = db[k]
      BY <2>1, <2>3, <3>1
    <3>2. CASE db'[k] = <<InMemory'[k]>>
      BY <2>1, <2>3, <3>2, RowFacts
    <3> QED
      BY <2>2, <3>1, <3>2
  <2> QED
    BY <1>5, <2>3, RestartRows
<1> QED
  BY <1>1, <1>2, <1>3, <1>4, <1>5, StepCases

\* What the environment's language model leaves in an empty table is in memory.
LEMMA InitTable ==
  ASSUME Init
  PROVE  /\ \A k \in Key : db[k] = Absent \/ db[k] = <<InMemory[k]>>
         /\ \A k \in Key \ LLMKey : db[k] = Absent
         /\ \A k \in Key \ unsaved : InTable[k] = InMemory[k]
         /\ \A c \in known : enabled[c]
         /\ \A k : Pending(k) = {}
         /\ \A w \in Writer : pc[w] = "idle"
<1> DEFINE t == [k \in Key |-> Absent]
<1>1. NoLLM \in LLMSettings /\ \A k \in Key : t[k] \in Optional(Values(k))
  BY SeededFacts, SettingsAssumption DEF Optional
<1>2. PICK failed \in SUBSET LLMKey : db = SeededTable(t, NoLLM, failed) /\ unsaved = failed
  BY DEF Init, Failures
<1>3. \A k \in Key :
        /\ k \notin LLMKey \/ k \in failed \/ ~Seeds(NoLLM) => db[k] = Absent
        /\ k \in LLMKey \ failed /\ Seeds(NoLLM) => db[k] = <<RowsOf(Seeded(NoLLM))[k]>>
  BY <1>1, <1>2, SeededTableFacts
<1>4. llm = Seeded(NoLLM) /\ \A k \in LLMKey : InMemory[k] = RowsOf(llm)[k]
  BY DEF Init, InMemory, LLMKey, RowsOf
<1>5. /\ \A k \in Key : db[k] = Absent \/ db[k] = <<InMemory[k]>>
      /\ \A k \in Key \ LLMKey : db[k] = Absent
  BY <1>3, <1>4
<1>6. \A c \in known : enabled[c]
  <2>1. db["disabled_categories"] = Absent
    BY <1>5 DEF Key, LLMKey
  <2>2. Or(db, "disabled_categories", {}) = {} /\ enabled = LoadedEnabled(db, known)
    BY <2>1, OrFacts DEF Init
  <2>3. \A c \in known : enabled[c] = TRUE
    BY <2>2, EnabledFacts
  <2> QED
    BY <2>3
<1>7. ASSUME NEW k \in Key \ unsaved PROVE InTable[k] = InMemory[k]
  <2>1. db[k] = Absent => \A d : Or(db, k, d) = d
    BY OrFacts
  <2>2. CASE k \in {"mode", "threshold", "blocklist", "webhook"}
    <3>1. db[k] = Absent
      BY <1>5, <2>2 DEF LLMKey
    <3>2. /\ mode = ConfigMode /\ threshold = ConfigThreshold
          /\ blocklist = {} /\ webhook = NoURL
      BY DEF Init
    <3> QED
      BY <2>1, <2>2, <3>1, <3>2 DEF InTable, FoundIn, InMemory
  <2>3. CASE k = "disabled_categories"
    <3>1. {c \in known : ~enabled[c]} = {} /\ Or(db, k, {}) = {}
      BY <1>5, <1>6, <2>1, <2>3 DEF LLMKey
    <3> QED
      BY <2>3, <3>1 DEF InTable, FoundIn, InMemory
  <2>4. CASE k \in LLMKey /\ Seeds(NoLLM)
    <3>1. db[k] = <<InMemory[k]>>
      BY <1>2, <1>3, <1>4, <1>7, <2>4
    <3>2. \A d : Or(db, k, d) = InMemory[k]
      BY <3>1, OrFacts
    <3> QED
      BY <2>4, <3>2 DEF InTable, FoundIn, LoadedLLM, LLMKey
  <2>5. CASE k \in LLMKey /\ ~Seeds(NoLLM)
    <3>1. db[k] = Absent /\ llm = NoLLM
      BY <1>3, <1>4, <2>5 DEF Seeded
    <3> QED
      BY <2>1, <2>5, <3>1, SeededFacts, <1>1 DEF InTable, FoundIn, InMemory, LoadedLLM, LLMKey
  <2> QED
    BY <2>2, <2>3, <2>4, <2>5 DEF Key
<1>8. \A w \in Writer : pc[w] = "idle"
  BY DEF Init
<1>9. \A k : Pending(k) = {}
  BY <1>8, RowsFacts DEF Pending
<1> QED
  BY <1>5, <1>6, <1>7, <1>8, <1>9

LEMMA SavedHolds == Spec => []SavedInv
<1>1. Init => SavedInv
  <2> SUFFICES ASSUME Init PROVE SavedInv
    OBVIOUS
  <2>1. held = [k \in Key |-> {InMemory[k]}]
    BY DEF Init
  <2>2. ASSUME NEW k \in Key, NEW i \in DOMAIN db[k] PROVE db[k][i] \in held[k]
    BY <2>1, <2>2, InitTable, RowFacts
  <2> QED
    BY <2>2, InitTable DEF SavedInv, SavedWasInForce
<1> QED
  BY <1>1, TypesHold, SavedNext, PTL DEF Spec

\* SavedWasInForce: a restart never brings back a value that was in force at no
\* time, whatever requests overlap, saves are refused and rows cannot be read.
THEOREM SavedInForce == Spec => []SavedWasInForce
<1>1. SavedInv => SavedWasInForce
  BY DEF SavedInv
<1> QED
  BY <1>1, SavedHolds, PTL

-----------------------------------------------------------------------------
(* The families.                                                           *)

LEMMA OffNext == Types /\ OffInv /\ [Next]_vars => OffInv'
<1> SUFFICES ASSUME Types, OffInv, [Next]_vars PROVE OffInv'
  OBVIOUS
<1> USE DEF OffInv, NeverSwitchedOffIsOn
<1> DEFINE off == "disabled_categories"
<1>0. DOMAIN db = Key /\ off \in Key \ LLMKey
  BY DEF Types, TableOK, Key, LLMKey
<1>1. CASE UNCHANGED vars
  BY <1>1 DEF vars, memory, history, Pending
<1>2. ASSUME NEW w \in Writer, Moves(w) PROVE OffInv'
  BY <1>2, MovesRows DEF Moves, memory
<1>3. ASSUME NEW w \in Writer, SavesRow(w) PROVE OffInv'
  <2>1. PICK r \in Rows :
          /\ r \in Pending(r.key) /\ Pending(off)' \subseteq Pending(off)
          /\ db' = [db EXCEPT ![r.key] = <<r.val>>] \/ db' = db
    BY <1>3, SavesRows
  <2>2. UNCHANGED <<known, enabled, offByHand>>
    BY <1>3 DEF SavesRow, memory
  <2>3. db'[off] = db[off] \/ (off = r.key /\ db'[off] = <<r.val>>)
    BY <1>0, <2>1
  <2>4. db'[off] \in Optional(SUBSET offByHand)
    BY <2>1, <2>3 DEF Optional
  <2> QED
    BY <2>1, <2>2, <2>4
<1>4. ASSUME NEW w \in Writer, Sets(w), Others(w) PROVE OffInv'
  <2> DEFINE keys == KeysOf(todo[w][1])
  <2>1. /\ db' = db /\ known' = known /\ offByHand \subseteq offByHand'
        /\ \/ off \notin keys /\ UNCHANGED <<enabled, offByHand>>
           \/ \A c \in known : ~enabled'[c] => c \in offByHand'
    BY <1>4 DEF Sets, Prepares
  <2>2. /\ off \in keys =>
             \A r \in Pending(off)' : r \in Pending(off) \/ r.val = InMemory'[off]
        /\ off \notin keys => Pending(off)' = Pending(off)
    BY <1>0, <1>4, SetsRows
  <2>3. \A c \in known' \ offByHand' : enabled'[c]
    BY <2>1
  <2>4. InMemory'[off] \subseteq offByHand'
    BY <2>3 DEF InMemory
  <2>5. \A r \in Pending(off)' : r.val \subseteq offByHand'
    BY <2>1, <2>2, <2>4
  <2>6. db'[off] \in Optional(SUBSET offByHand')
    BY <2>1 DEF Optional
  <2> QED
    BY <2>3, <2>5, <2>6
<1>5. CASE Restart
  <2>1. db'[off] = db[off] /\ offByHand' = offByHand
    BY <1>0, <1>5, RestartTable DEF Restart
  <2>2. ASSUME NEW c \in known', ~enabled'[c] PROVE c \in offByHand
    <3>1. PICK S : db[off] = <<S>> /\ c \in S
      BY <1>5, <2>2, RestartTable
    <3>2. S \in SUBSET offByHand
      BY <3>1, RowFacts DEF Optional
    <3> QED
      BY <3>1, <3>2
  <2> QED
    BY <1>5, <2>1, <2>2, RestartRows
<1> QED
  BY <1>1, <1>2, <1>3, <1>4, <1>5, StepCases

\* NeverSwitchedOffIsOn: a family that no administrator ever switched off is on in
\* every version that knows it.
THEOREM FamiliesStayOn == Spec => []NeverSwitchedOffIsOn
<1>1. Init => OffInv
  <2> SUFFICES ASSUME Init PROVE OffInv
    OBVIOUS
  <2>1. db["disabled_categories"] = Absent
    BY InitTable DEF Key, LLMKey
  <2> QED
    BY <2>1, InitTable DEF OffInv, NeverSwitchedOffIsOn, Optional
<1>2. OffInv => NeverSwitchedOffIsOn
  BY DEF OffInv
<1> QED
  BY <1>1, <1>2, TypesHold, OffNext, PTL DEF Spec

-----------------------------------------------------------------------------
(* What survives a restart, and the copies.                                *)

LEMMA FoundSame ==
  ASSUME NEW k \in Key, NEW t, NEW u, NEW cats, t[k] = u[k]
  PROVE  FoundIn(t, cats)[k] = FoundIn(u, cats)[k]
<1>1. \A d : Or(t, k, d) = Or(u, k, d)
  BY DEF Or
<1> QED
  BY <1>1 DEF FoundIn, LoadedLLM, LLMKey, Key

LEMMA FoundRow ==
  ASSUME NEW k \in Key, NEW t, NEW cats, NEW v, t[k] = <<v>>
  PROVE  FoundIn(t, cats)[k] = IF k = "disabled_categories" THEN cats \cap v ELSE v
<1>1. \A d : Or(t, k, d) = v
  BY OrFacts
<1>2. CASE k \in {"mode", "threshold", "blocklist", "webhook"}
  BY <1>1, <1>2 DEF FoundIn
<1>3. CASE k = "disabled_categories"
  BY <1>1, <1>3 DEF FoundIn
<1>4. CASE k \in LLMKey
  BY <1>1, <1>4 DEF FoundIn, LoadedLLM, LLMKey
<1> QED
  BY <1>2, <1>3, <1>4 DEF Key

LEMMA AloneNext == Types /\ AloneInv /\ [Next]_vars => AloneInv'
<1> SUFFICES ASSUME Types, AloneInv, [Next]_vars PROVE AloneInv'
  OBVIOUS
<1> USE DEF AloneInv
<1>0. DOMAIN db = Key /\ InMemory["disabled_categories"] \subseteq known
  BY DEF Types, TableOK, InMemory
<1>1. CASE UNCHANGED vars
  BY <1>1 DEF vars, memory, history, Pending, BusyAt, InMemory, InTable
<1>2. ASSUME NEW w \in Writer, Moves(w) PROVE AloneInv'
  <2>1. /\ InMemory' = InMemory /\ InTable' = InTable
        /\ UNCHANGED <<unsaved, crossed>>
    BY <1>2 DEF Moves, memory, InMemory, InTable
  <2> QED
    BY <1>2, <2>1, MovesRows
<1>3. ASSUME NEW w \in Writer, SavesRow(w) PROVE AloneInv'
  <2>1. PICK r \in Rows :
          /\ r.key \in Key /\ r \in Pending(r.key)
          /\ \A k : Pending(k)' \subseteq Pending(k) /\ Pending(k) \subseteq Pending(k)' \cup {r}
          /\ \A k \in Key, v \in Writer : BusyAt(v, k)' => BusyAt(v, k)
          /\ \/ /\ db' = [db EXCEPT ![r.key] = <<r.val>>]
                /\ unsaved' = unsaved \ {r.key}
             \/ db' = db /\ unsaved' = unsaved \cup {r.key}
    BY <1>3, SavesRows
  <2>2. InMemory' = InMemory /\ UNCHANGED <<known, crossed>>
    BY <1>3 DEF SavesRow, memory, InMemory
  <2>3. ASSUME NEW k \in Key \ crossed', k \notin unsaved', Pending(k)' = {}
        PROVE  InTable'[k] = InMemory'[k]
    <3>1. CASE k /= r.key
      <4>1. \A q \in Pending(k) : q.key = k
        BY RowsFacts DEF Pending
      <4>2. Pending(k) = {} /\ k \notin unsaved
        BY <2>1, <2>3, <3>1, <4>1
      <4>3. db'[k] = db[k]
        BY <1>0, <2>1, <3>1
      <4>4. InTable'[k] = InTable[k]
        BY <2>2, <4>3, FoundSame DEF InTable
      <4> QED
        BY <2>2, <2>3, <4>2, <4>4
    <3>2. CASE k = r.key
      <4>1. db'[k] = <<r.val>> /\ r.val = InMemory[k]
        BY <1>0, <2>1, <2>2, <2>3, <3>2
      <4>2. FoundIn(db', known')[k] =
              IF k = "disabled_categories" THEN known' \cap r.val ELSE r.val
        <5>1. k \in Key
          BY <2>3
        <5>2. PICK t, cats, v : t = db' /\ cats = known' /\ v = r.val
          OBVIOUS
        <5>3. t[k] = <<v>>
          BY <4>1, <5>2
        <5>4. FoundIn(t, cats)[k] = IF k = "disabled_categories" THEN cats \cap v ELSE v
          BY <5>1, <5>3, FoundRow
        <5> QED
          BY <5>2, <5>4
      <4>3. k = "disabled_categories" => known' \cap r.val = r.val
        BY <1>0, <2>2, <4>1
      <4>4. FoundIn(db', known')[k] = InMemory[k]
        BY <4>1, <4>2, <4>3
      <4> QED
        BY <2>2, <4>4 DEF InTable
    <3> QED
      BY <3>1, <3>2
  <2> QED
    BY <2>1, <2>2, <2>3
<1>4. ASSUME NEW w \in Writer, Sets(w), Others(w) PROVE AloneInv'
  <2> DEFINE keys == KeysOf(todo[w][1])
  <2>1. /\ db' = db /\ known' = known /\ unsaved' = unsaved /\ keys \subseteq Key
        /\ crossed' = (crossed \ keys) \cup {k \in keys : Busy(k)}
        /\ \A k \in Key \ keys : InMemory'[k] = InMemory[k]
    BY <1>4 DEF Sets, Prepares
  <2>2. /\ \A k \in keys : /\ Pending(k)' /= {}
                           /\ \A r \in Pending(k)' : r \in Pending(k) \/ r.val = InMemory'[k]
        /\ \A k \in Key \ keys : Pending(k)' = Pending(k)
        /\ \A k \in Key : /\ ~BusyAt(w, k) /\ (BusyAt(w, k)' <=> k \in keys)
                          /\ \A v \in Writer \ {w} : BusyAt(v, k)' <=> BusyAt(v, k)
    BY <1>4, SetsRows
  <2>3. InTable' = InTable
    BY <2>1 DEF InTable
  <2> HIDE DEF keys
  <2>4. ASSUME NEW k \in Key \ crossed', k \in keys
        PROVE  /\ \A u, v \in Writer : BusyAt(u, k)' /\ BusyAt(v, k)' => u = v
               /\ \A r \in Pending(k)' : r.val = InMemory'[k]
    <3>1. ~Busy(k)
      BY <2>1, <2>4
    <3>2. k \in Key
      BY <2>4
    <3>3. Pending(k) = {} /\ \A v \in Writer : ~BusyAt(v, k)
      BY <3>1, <3>2, QuietFacts
    <3> QED
      BY <2>2, <2>4, <3>3
  <2>5. ASSUME NEW k \in Key \ crossed', k \notin keys
        PROVE  /\ \A u, v \in Writer : BusyAt(u, k)' /\ BusyAt(v, k)' => u = v
               /\ \A r \in Pending(k)' : r.val = InMemory'[k]
               /\ k \notin unsaved' /\ Pending(k)' = {} => InTable'[k] = InMemory'[k]
    <3>1. k \in Key \ crossed
      BY <2>1, <2>5
    <3>2. \A v \in Writer : BusyAt(v, k)' <=> BusyAt(v, k)
      BY <2>2, <2>5
    <3>3. \A u, v \in Writer : BusyAt(u, k) /\ BusyAt(v, k) => u = v
      BY <3>1
    <3> QED
      BY <2>1, <2>2, <2>3, <2>5, <3>1, <3>2, <3>3
  <2> QED
    BY <2>2, <2>4, <2>5
<1>5. CASE Restart
  BY <1>5, RestartRows, RestartTable
<1> QED
  BY <1>1, <1>2, <1>3, <1>4, <1>5, StepCases

LEMMA InitAlone == Init => AloneInv
BY InitTable DEF AloneInv, BusyAt

LEMMA AloneHolds == Spec => []AloneInv
BY InitAlone, TypesHold, AloneNext, PTL DEF Spec

\* SurvivesUnlessCrossed: once the requests that set a key are over, unless two of
\* them overlapped or an error came between, a restart comes back with what memory
\* holds.
THEOREM UncrossedSurvives == Spec => []SurvivesUnlessCrossed
<1>1. Types /\ AloneInv => SurvivesUnlessCrossed
  <2> SUFFICES ASSUME Types, AloneInv, NEW k \in Key \ (unsaved \cup crossed), ~Busy(k)
               PROVE  InTable[k] = InMemory[k]
    BY DEF SurvivesUnlessCrossed
  <2>1. Pending(k) = {}
    BY QuietFacts
  <2> QED
    BY <2>1 DEF AloneInv
<1> QED
  BY <1>1, TypesHold, AloneHolds, PTL

-----------------------------------------------------------------------------
(* The copies.                                                             *)

LEMMA FieldKeys ==
  ASSUME Types, NEW w \in Writer
  PROVE  /\ BusyAt(w, "webhook") => todo[w][1].key = "webhook"
         /\ \A k \in LLMKey : BusyAt(w, k) => todo[w][1].key = "llm"
<1>1. ASSUME pc[w] /= "idle" PROVE todo[w][1].key \in Field
  BY <1>1, FieldFacts, BodyAssumption
<1> QED
  BY <1>1 DEF BusyAt, KeysOf, Field, LLMKey

\* The steps that leave a copied setting, its copy and its requests as they are.
Steady(w) ==
  \/ Moves(w) /\ UNCHANGED <<copies, todo>> /\ (Reread(w) \/ Reads(w))
  \/ Moves(w) /\ Turns(w) /\ pc'[w] \in {"set", "idle"}
  \/ SavesRow(w)

LEMMA SteadyFacts ==
  ASSUME Types, NEW w \in Writer, Steady(w), NEW k \in {"webhook"} \cup LLMKey
  PROVE  /\ UNCHANGED <<webhook, llm, notif, enr, crossed>>
         /\ Busy(k) => Busy(k)'
         /\ \A v \in Writer : BusyAt(v, k)' => BusyAt(v, k) /\ todo'[v] = todo[v]
<1>1. UNCHANGED <<webhook, llm, notif, enr, crossed>> /\ Others(w)
  BY DEF Steady, Moves, SavesRow, Turns, memory, copies
<1>2. /\ BusyAt(w, k)' <=> BusyAt(w, k)
      /\ BusyAt(w, k)' => todo'[w] = todo[w]
  <2>1. CASE Moves(w) /\ UNCHANGED <<copies, todo>> /\ (Reread(w) \/ Reads(w))
    BY <2>1 DEF Reread, Reads, BusyAt, Types, WritersOK
  <2>2. CASE Moves(w) /\ Turns(w) /\ pc'[w] \in {"set", "idle"}
    BY <2>2 DEF Turns, BusyAt
  <2>3. CASE SavesRow(w)
    BY <2>3, FieldKeys DEF SavesRow, BusyAt, Key
  <2> QED
    BY <2>1, <2>2, <2>3 DEF Steady
<1>3. \A v \in Writer : BusyAt(v, k)' => BusyAt(v, k) /\ todo'[v] = todo[v]
  BY <1>1, <1>2 DEF Others, BusyAt
<1>4. Busy(k) => Busy(k)'
  BY <1>1, <1>2 DEF Busy, BusyAt, KeysOf, Others
<1> QED
  BY <1>1, <1>3, <1>4

LEMMA AlertsNext == Types /\ AlertsInv /\ [Next]_vars => AlertsInv'
<1> SUFFICES ASSUME Types, AlertsInv, [Next]_vars PROVE AlertsInv'
  OBVIOUS
<1> USE DEF AlertsInv, AlertsFollowSettings
<1>1. CASE UNCHANGED vars
  BY <1>1 DEF vars, memory, copies, history, Busy, BusyAt, InitialWebhook
<1>2. ASSUME NEW w \in Writer, Steady(w) PROVE AlertsInv'
  <2>1. /\ UNCHANGED <<webhook, notif, crossed>> /\ (Busy("webhook") => Busy("webhook")')
        /\ \A v \in Writer :
             BusyAt(v, "webhook")' => BusyAt(v, "webhook") /\ todo'[v] = todo[v]
    BY <1>2, SteadyFacts
  <2> QED
    BY <2>1 DEF InitialWebhook
<1>3. ASSUME NEW w \in Writer, Moves(w), Push(w), pc'[w] \in {"set", "idle"}
      PROVE  AlertsInv'
  <2>1. /\ UNCHANGED <<webhook, crossed>> /\ Others(w) /\ pc[w] = "push"
        /\ \A v \in Writer :
             BusyAt(v, "webhook")' => BusyAt(v, "webhook") /\ todo'[v] = todo[v]
    BY <1>3 DEF Moves, Push, memory, Others, BusyAt
  <2>2. CASE todo[w][1].key = "webhook"
    <3>1. BusyAt(w, "webhook") /\ notif' = todo[w][1].val
      BY <1>3, <2>1, <2>2 DEF BusyAt, KeysOf, Push
    <3> QED
      BY <2>1, <3>1
  <2>3. CASE todo[w][1].key /= "webhook"
    <3>1. notif' = notif /\ ~BusyAt(w, "webhook")
      BY <1>3, <2>3, FieldKeys DEF Push
    <3>2. Busy("webhook") => Busy("webhook")'
      <4>1. Busy("webhook") => \E v \in Writer : BusyAt(v, "webhook")
        BY DEF Busy, BusyAt, KeysOf
      <4>2. (\E v \in Writer : BusyAt(v, "webhook")') => Busy("webhook")'
        BY DEF Busy, BusyAt, KeysOf
      <4> QED
        BY <2>1, <3>1, <4>1, <4>2 DEF Others, BusyAt
    <3> QED
      BY <2>1, <3>1, <3>2 DEF InitialWebhook
  <2> QED
    BY <2>2, <2>3
<1>4. ASSUME NEW w \in Writer, Sets(w), Others(w) PROVE AlertsInv'
  <2> DEFINE keys == KeysOf(todo[w][1])
  <2>1. /\ keys \subseteq Key /\ notif' = notif
        /\ crossed' = (crossed \ keys) \cup {k \in keys : Busy(k)}
        /\ \A k \in Key \ keys : InMemory'[k] = InMemory[k]
        /\ todo[w][1].key = "webhook" => webhook' = todo[w][1].val
        /\ todo' = todo
    BY <1>4 DEF Sets, Prepares, copies
  <2>2. \A k \in Key : /\ ~BusyAt(w, k) /\ (BusyAt(w, k)' <=> k \in keys)
                      /\ \A v \in Writer \ {w} : BusyAt(v, k)' <=> BusyAt(v, k)
    BY <1>4, SetsRows
  <2>3. "webhook" \in Key
    BY DEF Key
  <2>4. CASE "webhook" \in keys
    <3>1. todo[w][1].key = "webhook" /\ Busy("webhook")'
      <4>1. BusyAt(w, "webhook")'
        BY <2>2, <2>3, <2>4
      <4> QED
        BY <2>4, <4>1 DEF KeysOf, LLMKey, Busy, BusyAt
    <3>2. "webhook" \notin crossed' => \A v \in Writer : ~BusyAt(v, "webhook")
      BY <2>1, <2>3, <2>4, QuietFacts
    <3>3. \A v \in Writer : BusyAt(v, "webhook")' => v = w \/ "webhook" \in crossed'
      BY <2>2, <2>3, <3>2
    <3> QED
      BY <2>1, <3>1, <3>3
  <2>5. CASE "webhook" \notin keys
    <3>1. webhook' = webhook /\ ("webhook" \in crossed' <=> "webhook" \in crossed)
      <4>1. InMemory'["webhook"] = InMemory["webhook"]
        BY <2>1, <2>3, <2>5
      <4>2. webhook' = webhook
        BY <4>1 DEF InMemory
      <4>3. "webhook" \in crossed' <=> "webhook" \in crossed
        BY <2>1, <2>5
      <4> QED
        BY <4>2, <4>3
    <3>2. \A v \in Writer : BusyAt(v, "webhook")' <=> BusyAt(v, "webhook")
      BY <2>2, <2>3, <2>5
    <3>3. Busy("webhook") => Busy("webhook")'
      <4>1. Busy("webhook") => \E v \in Writer : BusyAt(v, "webhook")
        BY DEF Busy, BusyAt, KeysOf
      <4>2. (\E v \in Writer : BusyAt(v, "webhook")') => Busy("webhook")'
        BY DEF Busy, BusyAt, KeysOf
      <4> QED
        BY <3>2, <4>1, <4>2
    <3> QED
      BY <2>1, <3>1, <3>2, <3>3 DEF InitialWebhook
  <2> QED
    BY <2>4, <2>5
<1>5. CASE Restart
  <2>1. notif' = InitialWebhook(webhook')
    BY <1>5 DEF Restart
  <2>2. \A v \in Writer : ~BusyAt(v, "webhook")'
    BY <1>5, RestartRows DEF Key
  <2> QED
    BY <2>1, <2>2 DEF InitialWebhook
<1> QED
  BY <1>1, <1>2, <1>3, <1>4, <1>5, StepCases DEF Steady

\* AlertsFollowSettings: once the requests that set the webhook are over, unless two
\* of them overlapped, the notifier posts where the settings say.
THEOREM AlertsFollow == Spec => []AlertsFollowSettings
<1>1. Init => AlertsInv
  <2> SUFFICES ASSUME Init PROVE AlertsInv
    OBVIOUS
  <2>1. notif = InitialWebhook(webhook) /\ \A w \in Writer : pc[w] = "idle"
    BY InitTable DEF Init
  <2> QED
    BY <2>1 DEF AlertsInv, AlertsFollowSettings, BusyAt
<1>2. AlertsInv => AlertsFollowSettings
  BY DEF AlertsInv
<1> QED
  BY <1>1, <1>2, TypesHold, AlertsNext, PTL DEF Spec

LEMMA AnalysesNext == Types /\ AnalysesInv /\ [Next]_vars => AnalysesInv'
<1> SUFFICES ASSUME Types, AnalysesInv, [Next]_vars PROVE AnalysesInv'
  OBVIOUS
<1> USE DEF AnalysesInv, AnalysesFollowSettings
<1>0. LLMKey \subseteq Key /\ LLMKey /= {}
  BY DEF Key, LLMKey
<1>1. CASE UNCHANGED vars
  BY <1>1 DEF vars, memory, copies, history, Busy
<1>2. ASSUME NEW w \in Writer, Steady(w) PROVE AnalysesInv'
  <2>1. /\ UNCHANGED <<llm, enr, crossed>>
        /\ \A k \in LLMKey : Busy(k) => Busy(k)'
    BY <1>0, <1>2, SteadyFacts
  <2>2. /\ \A v \in Writer \ {w} : pc'[v] = pc[v] /\ todo'[v] = todo[v] /\ cfg'[v] = cfg[v]
        /\ pc'[w] = "push" /\ todo'[w][1].key = "llm" => cfg'[w] = llm
    <3>1. CASE Moves(w) /\ Reread(w)
      BY <3>1 DEF Moves, Others, Reread, Types, WritersOK
    <3>2. CASE Moves(w) /\ (Reads(w) \/ pc'[w] \in {"set", "idle"})
      BY <3>2 DEF Moves, Others, Reads
    <3>3. CASE SavesRow(w)
      BY <3>3 DEF SavesRow, Others
    <3> QED
      BY <1>2, <3>1, <3>2, <3>3 DEF Steady
  <2>3. LLMKey \cap crossed = {} => 
          \A v \in Writer : pc'[v] = "push" /\ todo'[v][1].key = "llm" => cfg'[v] = llm
    BY <2>2
  <2> QED
    BY <2>1, <2>3
<1>3. ASSUME NEW w \in Writer, Moves(w), Push(w), pc'[w] \in {"set", "idle"}
      PROVE  AnalysesInv'
  <2>1. /\ UNCHANGED <<llm, crossed>> /\ Others(w) /\ pc[w] = "push"
    BY <1>3 DEF Moves, Push, memory
  <2>2. LLMKey \cap crossed = {} =>
          \A v \in Writer : pc'[v] = "push" /\ todo'[v][1].key = "llm" => cfg'[v] = llm
    BY <1>3, <2>1 DEF Others
  <2>3. CASE todo[w][1].key = "llm"
    <3>1. LLMKey \cap crossed = {} => enr' = Effective(llm)
      BY <1>3, <2>1, <2>3 DEF Push
    <3> QED
      BY <2>1, <2>2, <3>1
  <2>4. CASE todo[w][1].key /= "llm"
    <3>1. enr' = enr
      BY <1>3, <2>1, <2>4 DEF Push, Types, StepsOK
    <3>2. \A k \in LLMKey : Busy(k) => Busy(k)'
      <4>1. \A k \in LLMKey : ~BusyAt(w, k)
        BY <2>4, FieldKeys
      <4> QED
        BY <2>1, <4>1 DEF Others, Busy, BusyAt, KeysOf
    <3> QED
      BY <2>1, <2>2, <3>1, <3>2
  <2> QED
    BY <2>3, <2>4
<1>4. ASSUME NEW w \in Writer, Sets(w), Others(w) PROVE AnalysesInv'
  <2> DEFINE keys == KeysOf(todo[w][1])
  <2>1. /\ pc[w] \in {"set", "llm"} /\ keys \subseteq Key /\ enr' = enr
        /\ crossed' = (crossed \ keys) \cup {k \in keys : Busy(k)}
        /\ keys /= LLMKey => llm' = llm
        /\ todo' = todo /\ pc'[w] = "save"
    BY <1>4 DEF Sets, Prepares, copies, Types, WritersOK
  <2>2. CASE keys = LLMKey
    <3>1. LLMKey \cap crossed' = {} => \A v \in Writer : pc[v] = "push" => todo[v][1].key /= "llm"
      <4> SUFFICES ASSUME NEW v \in Writer, pc[v] = "push", todo[v][1].key = "llm"
                   PROVE  LLMKey \cap crossed' /= {}
        OBVIOUS
      <4>1. \A k \in LLMKey : Busy(k)
        BY DEF Busy
      <4> QED
        BY <1>0, <2>1, <2>2, <4>1
    <3>2. \A k \in LLMKey : Busy(k)'
      BY <2>1, <2>2 DEF Busy, KeysOf
    <3> QED
      BY <1>0, <1>4, <2>1, <3>1, <3>2 DEF Others
  <2>3. CASE keys /= LLMKey
    <3>1. LLMKey \cap keys = {}
      <4>1. todo[w][1].key \in Field
        BY <2>1, FieldFacts, BodyAssumption
      <4> QED
        BY <2>3, <4>1 DEF KeysOf, Field, LLMKey
    <3>2. LLMKey \cap crossed' = LLMKey \cap crossed
      BY <2>1, <3>1
    <3>3. \A k \in LLMKey : Busy(k) => Busy(k)'
      <4>1. \A k \in LLMKey : ~BusyAt(w, k)
        BY <2>1 DEF BusyAt
      <4> QED
        BY <1>4, <4>1 DEF Others, Busy, BusyAt, KeysOf
    <3>4. \A v \in Writer : pc'[v] = "push" => /\ pc[v] = "push" /\ cfg'[v] = cfg[v]
                                             /\ todo'[v] = todo[v]
      BY <1>4, <2>1 DEF Others
    <3>5. \A k \in LLMKey : k \in crossed' <=> k \in crossed
      BY <3>2
    <3> QED
      BY <2>1, <2>3, <3>2, <3>3, <3>4, <3>5
  <2> QED
    BY <2>2, <2>3
<1>5. CASE Restart
  <2>1. enr' = Effective(llm') /\ \A v \in Writer : pc'[v] = "idle"
    BY <1>5 DEF Restart
  <2> QED
    BY <2>1
<1> QED
  BY <1>1, <1>2, <1>3, <1>4, <1>5, StepCases DEF Steady

\* AnalysesFollowSettings: the same for the language model and the enricher.
THEOREM AnalysesFollow == Spec => []AnalysesFollowSettings
<1>1. Init => AnalysesInv
  BY DEF Init, AnalysesInv, AnalysesFollowSettings
<1>2. AnalysesInv => AnalysesFollowSettings
  BY DEF AnalysesInv
<1> QED
  BY <1>1, <1>2, TypesHold, AnalysesNext, PTL DEF Spec

-----------------------------------------------------------------------------
(* The language model's key.                                               *)

LEMMA KeyNext == Types /\ KeyInv /\ [Next]_vars => KeyInv'
<1> SUFFICES ASSUME Types, KeyInv, [Next]_vars PROVE KeyInv'
  OBVIOUS
<1> DEFINE key == "llm_api_key"
<1>0. key \in Key /\ \A t : LoadedLLM(t).api_key = Or(t, key, NoKey)
  BY DEF Key, LLMKey, LoadedLLM
<1>1. CASE UNCHANGED vars
  BY <1>1 DEF vars, memory, history, KeyInv, Pending
<1>2. ASSUME NEW w \in Writer, Moves(w) PROVE KeyInv'
  BY <1>2, MovesRows DEF Moves, memory, KeyInv
<1>3. ASSUME NEW w \in Writer, SavesRow(w) PROVE KeyInv'
  <2>1. PICK r \in Rows :
          /\ r \in Pending(r.key)
          /\ \A k : Pending(k)' \subseteq Pending(k)
          /\ \/ /\ db' = [db EXCEPT ![r.key] = <<r.val>>]
                /\ unsaved' = unsaved \ {r.key}
             \/ db' = db /\ unsaved' = unsaved \cup {r.key}
    BY <1>3, SavesRows
  <2>2. llm' = llm /\ DOMAIN db = Key
    BY <1>3 DEF SavesRow, memory, Types, TableOK
  <2>3. \/ db'[key] = db[key] /\ (key \notin unsaved' => key \notin unsaved)
        \/ r.key = key /\ db'[key] = <<r.val>>
    BY <1>0, <2>1, <2>2
  <2>4. LoadedLLM(db)'.api_key = Or(db', key, NoKey)
    BY DEF LoadedLLM
  <2>5. CASE db'[key] = db[key] /\ (key \notin unsaved' => key \notin unsaved)
    <3>1. LoadedLLM(db)'.api_key = LoadedLLM(db).api_key
      BY <1>0, <2>4, <2>5 DEF Or
    <3> QED
      BY <2>1, <2>2, <2>5, <3>1 DEF KeyInv
  <2>6. CASE r.key = key /\ db'[key] = <<r.val>>
    <3>1. LoadedLLM(db)'.api_key = r.val
      BY <2>4, <2>6, OrFacts
    <3> QED
      BY <2>1, <2>2, <2>6, <3>1 DEF KeyInv
  <2> QED
    BY <2>3, <2>5, <2>6
<1>4. ASSUME NEW w \in Writer, Sets(w), Others(w) PROVE KeyInv'
  <2>1. /\ db' = db /\ unsaved' = unsaved
        /\ llm'.api_key = NoKey => llm.api_key = NoKey
    BY <1>4 DEF Sets, Prepares
  <2>2. InMemory'[key] = llm'.api_key
    BY DEF InMemory
  <2>3. \A r \in Pending(key)' : r \in Pending(key) \/ r.val = llm'.api_key
    <3>1. \/ Pending(key)' = Pending(key)
          \/ \A r \in Pending(key)' : r \in Pending(key) \/ r.val = InMemory'[key]
      BY <1>0, <1>4, SetsRows
    <3> QED
      BY <2>2, <3>1
  <2> QED
    BY <2>1, <2>3 DEF KeyInv
<1>5. CASE Restart
  <2>1. Pending(key)' = {} /\ (key \notin unsaved' => InTable'[key] = InMemory'[key])
    BY <1>0, <1>5, RestartRows, RestartTable
  <2>2. InTable'[key] = LoadedLLM(db)'.api_key /\ InMemory'[key] = llm'.api_key
    BY DEF InTable, FoundIn, InMemory
  <2> QED
    BY <2>1, <2>2 DEF KeyInv
<1> QED
  BY <1>1, <1>2, <1>3, <1>4, <1>5, StepCases

\* KeyNeverErased: a saved key is replaced by an empty one only by a process that
\* could not read it, or save it, or that had none and served two requests about
\* it at once.
THEOREM KeyKept == Spec => KeyNeverErased
<1> DEFINE key == "llm_api_key"
<1>0. key \in Key
  BY DEF Key, LLMKey
<1>1. Init => KeyInv
  <2> SUFFICES ASSUME Init PROVE KeyInv
    OBVIOUS
  <2>1. Pending(key) = {} /\ (key \notin unsaved => InTable[key] = InMemory[key])
    BY <1>0, InitTable
  <2>2. InTable[key] = LoadedLLM(db).api_key /\ InMemory[key] = llm.api_key
    BY DEF InTable, FoundIn, InMemory
  <2> QED
    BY <2>1, <2>2 DEF KeyInv
<1>2. Types /\ KeyInv /\ AloneInv /\ SavedInv /\ [Next]_vars =>
        [LoadedLLM(db).api_key /= NoKey =>
           \/ LoadedLLM(db)'.api_key /= NoKey
           \/ key \in unsaved \cup unsaved'
           \/ key \in crossed /\ NoKey \in held[key]]_vars
  <2> SUFFICES ASSUME Types, KeyInv, AloneInv, SavedInv, [Next]_vars,
                      LoadedLLM(db).api_key /= NoKey, LoadedLLM(db)'.api_key = NoKey,
                      key \notin unsaved \cup unsaved',
                      key \notin crossed \/ NoKey \notin held[key]
               PROVE  FALSE
    OBVIOUS
  <2>1. /\ LoadedLLM(db).api_key = Or(db, key, NoKey)
        /\ LoadedLLM(db)'.api_key = Or(db', key, NoKey)
    BY DEF LoadedLLM
  <2>2. db'[key] /= db[key]
    BY <2>1 DEF Or
  <2>3. ASSUME NEW w \in Writer, SavesRow(w) PROVE FALSE
    <3>1. PICK r \in Rows : r \in Pending(r.key) /\ db' = [db EXCEPT ![r.key] = <<r.val>>]
      BY <2>2, <2>3, SavesRows
    <3>2. r.key = key /\ db'[key] = <<r.val>>
      BY <1>0, <2>2, <3>1 DEF Types, TableOK
    <3>3. r.val = NoKey
      BY <2>1, <3>2, OrFacts
    <3>4. key \notin crossed
      BY <1>0, <3>1, <3>2, <3>3 DEF SavedInv
    <3>5. llm.api_key = NoKey
      BY <1>0, <3>1, <3>2, <3>3, <3>4 DEF AloneInv, InMemory
    <3> QED
      BY <3>5 DEF KeyInv
  <2>4. CASE Restart
    <3>1. PICK missed, failed, seen :
            /\ missed \in Missed /\ failed \in SUBSET LLMKey
            /\ seen = [k \in Key |-> IF k \in missed THEN Absent ELSE db[k]]
            /\ db' = SeededTable(db, LoadedLLM(seen), failed)
            /\ unsaved' = missed \cup failed
      BY <2>4, RestartFacts
    <3>2. Seeds(LoadedLLM(seen))
      BY <2>2, <3>1 DEF SeededTable
    <3>3. LoadedLLM(seen).api_key = NoKey
      BY <3>2 DEF Seeds, LLMConfigured
    <3>4. seen[key] = db[key]
      BY <1>0, <3>1
    <3> QED
      BY <2>1, <3>3, <3>4 DEF LoadedLLM, Or
  <2>5. ASSUME NEW w \in Writer, Moves(w) \/ Sets(w) PROVE FALSE
    BY <2>2, <2>5 DEF Moves, Sets, Prepares
  <2> QED
    BY <2>2, <2>3, <2>4, <2>5, StepCases DEF vars
<1> QED
  BY <1>1, <1>2, TypesHold, AloneHolds, SavedHolds, KeyNext, PTL DEF Spec, KeyNeverErased
=============================================================================
