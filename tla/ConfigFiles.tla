---------------------------- MODULE ConfigFiles ----------------------------
(* The configuration: a template file without credentials, a local file    *)
(* that holds them, and a cache keyed by the template's modification time. *)
(* The endpoints run in a thread pool: a save loads the configuration      *)
(* outside every lock, merges what was sent into it and writes two files.  *)
EXTENDS Naturals

CONSTANTS
  Savers,      \* the worker threads that serve the configuration endpoints
  Settings,    \* values of the public settings
  BadSettings, \* those _validate_config refuses
  ApiKeys,        \* credentials
  Blank,       \* the empty credential
  Masked,      \* a credential as GET /api/config shows it
  NotSent,        \* a field the request does not carry
  EnvKey,      \* SCHOLAR_CLOUD_API_KEY, or Blank
  NoConfig,
  MaxTemplates \* bound: times the template is replaced

ASSUME ConfigAssumption ==
  /\ BadSettings \subseteq Settings /\ Settings \ BadSettings # {}
  /\ EnvKey \in ApiKeys \cup {Blank}
  /\ Blank \notin ApiKeys /\ Masked \notin ApiKeys \cup {Blank}
  /\ NotSent \notin Settings \cup ApiKeys \cup {Blank, Masked}
  /\ MaxTemplates \in Nat \ {0}

VARIABLES
  template,  \* default.yaml: a configuration and its modification time
  localKey,  \* the credential in default.local.yaml
  cached,    \* _config_cache, or NoConfig
  cachedAt,  \* _config_cache_mtime
  saver,     \* thread -> where it is, what it was sent, what it has loaded
  lastSaved  \* the configuration of the last save, while the files show it

configVars == <<template, localKey, cached, cachedAt, saver, lastSaved>>

Config == [setting : Settings, key : ApiKeys \cup {Blank}]
Sent == [setting : Settings \cup {NotSent}, key : ApiKeys \cup {Blank, Masked, NotSent}]
Reading == [setting |-> NotSent, key |-> NotSent]
Free == [at |-> "idle", sent |-> Reading, config |-> NoConfig, mtime |-> 0]

ConfigInit ==
  /\ template = [config |-> [setting |-> CHOOSE s \in Settings \ BadSettings : TRUE,
                             key |-> Blank], mtime |-> 1]
  /\ localKey = Blank
  /\ cached = NoConfig /\ cachedAt = 0
  /\ saver = [s \in Savers |-> Free]
  /\ lastSaved = template.config

(* default.local.yaml without its empty strings, then the environment.     *)
Overridden(config) ==
  [config EXCEPT !.key = CASE EnvKey # Blank -> EnvKey
                           [] EnvKey = Blank /\ localKey # Blank -> localKey
                           [] OTHER -> config.key]

Writers == {s \in Savers : saver[s].at \in {"replaced", "stored"}}

(***************************************************************************)
(* Loading                                                                 *)
(***************************************************************************)
StartLoad(s, kind, sent) ==
  /\ saver[s].at = "idle"
  /\ saver' = [saver EXCEPT ![s] = [at |-> "looking", kind |-> kind, sent |-> sent,
                                    config |-> NoConfig, mtime |-> template.mtime]]
  /\ UNCHANGED <<template, localKey, cached, cachedAt, lastSaved>>

CacheFits(s) == cached # NoConfig /\ cachedAt = saver[s].mtime

Hit(s) ==
  /\ saver[s].at = "looking" /\ CacheFits(s)
  /\ saver' = [saver EXCEPT ![s].at = "copied", ![s].config = cached,
                            ![s].mtime = 0]
  /\ UNCHANGED <<template, localKey, cached, cachedAt, lastSaved>>

ReadTemplate(s) ==
  /\ saver[s].at = "looking" /\ ~CacheFits(s)
  /\ saver' = [saver EXCEPT ![s] =
       IF template.config.setting \in BadSettings THEN Free
       ELSE [@ EXCEPT !.at = "read", !.config = template.config]]
  /\ UNCHANGED <<template, localKey, cached, cachedAt, lastSaved>>

StatAfterwards(s) == template.mtime

(* The time of the file as it was before it was read goes with the cache.  *)
CacheTime(s) == saver[s].mtime

FillCache(s) ==
  /\ saver[s].at = "read"
  /\ cached' = saver[s].config
  /\ cachedAt' = CacheTime(s)
  /\ saver' = [saver EXCEPT ![s].at = "filled", ![s].mtime = 0]
  /\ UNCHANGED <<template, localKey, lastSaved>>

CopyCache(s) ==
  /\ saver[s].at = "filled"
  /\ saver' = [saver EXCEPT ![s].at = "copied", ![s].config = cached]
  /\ UNCHANGED <<template, localKey, cached, cachedAt, lastSaved>>

MaskTaken(loaded, sent) == IF sent = NotSent THEN loaded ELSE sent

(* A masked credential means the one that is stored.                       *)
SentKey(loaded, sent) == IF sent \in {NotSent, Masked} THEN loaded ELSE sent

MergedWith(loaded, sent) ==
  [setting |-> IF sent.setting = NotSent THEN loaded.setting ELSE sent.setting,
   key |-> SentKey(loaded.key, sent.key)]

EndLoad(s) ==
  /\ saver[s].at = "copied"
  /\ saver' = [saver EXCEPT ![s] =
       IF saver[s].kind = "get" THEN Free
       ELSE [@ EXCEPT !.at = "merged", !.sent = Reading,
                      !.config = MergedWith(Overridden(saver[s].config), saver[s].sent)]]
  /\ UNCHANGED <<template, localKey, cached, cachedAt, lastSaved>>

(***************************************************************************)
(* Saving, under _save_config_lock                                         *)
(***************************************************************************)
WriteFreely(s) == TRUE

MayWrite(s) == Writers = {}

ReplaceTemplate(s) ==
  /\ saver[s].at = "merged" /\ MayWrite(s)
  /\ template.mtime < MaxTemplates
  /\ template' = [config |-> [saver[s].config EXCEPT !.key = Blank],
                  mtime |-> template.mtime + 1]
  /\ saver' = [saver EXCEPT ![s].at = "replaced"]
  /\ UNCHANGED <<localKey, cached, cachedAt, lastSaved>>

ReplaceFails(s) ==
  /\ saver[s].at = "merged" /\ MayWrite(s)
  /\ saver' = [saver EXCEPT ![s] = Free]
  /\ UNCHANGED <<template, localKey, cached, cachedAt, lastSaved>>

ClearNothing(key) == IF key = Blank THEN localKey ELSE key

(* A credential is set in the local file, an empty one is taken out of it. *)
StoredKey(key) == key

StoreKey(s) ==
  /\ saver[s].at = "replaced"
  /\ localKey' = StoredKey(saver[s].config.key)
  /\ saver' = [saver EXCEPT ![s].at = "stored"]
  /\ UNCHANGED <<template, cached, cachedAt, lastSaved>>

(* The save ends in an error with the new template and the old local file. *)
StoreFails(s) ==
  /\ saver[s].at = "replaced"
  /\ saver' = [saver EXCEPT ![s] = Free]
  /\ lastSaved' = NoConfig
  /\ UNCHANGED <<template, localKey, cached, cachedAt>>

Remember(s) ==
  /\ saver[s].at = "stored"
  /\ cached' = saver[s].config
  /\ cachedAt' = template.mtime
  /\ lastSaved' = saver[s].config
  /\ saver' = [saver EXCEPT ![s] = Free]
  /\ UNCHANGED <<template, localKey>>

Restart ==
  /\ cached # NoConfig \/ \E s \in Savers : saver[s].at # "idle"
  /\ saver' = [s \in Savers |-> Free]
  /\ cached' = NoConfig /\ cachedAt' = 0
  /\ lastSaved' = IF Writers = {} THEN lastSaved ELSE NoConfig
  /\ UNCHANGED <<template, localKey>>

ConfigNext ==
  \/ \E s \in Savers :
       \/ StartLoad(s, "get", Reading)
       \/ \E sent \in Sent : StartLoad(s, "put", sent)
       \/ Hit(s) \/ ReadTemplate(s) \/ FillCache(s) \/ CopyCache(s) \/ EndLoad(s)
       \/ ReplaceTemplate(s) \/ ReplaceFails(s)
       \/ StoreKey(s) \/ StoreFails(s) \/ Remember(s)
  \/ Restart

ConfigSpec == ConfigInit /\ [][ConfigNext]_configVars

(***************************************************************************)
(* Properties                                                              *)
(***************************************************************************)
(* The files and the cache hold configurations, and no file or cache ever  *)
(* holds the masked form of a credential that GET /api/config sent out.    *)
ConfigTypeOK ==
  /\ template \in [config : Config, mtime : 1 .. MaxTemplates]
  /\ localKey \in ApiKeys \cup {Blank}
  /\ cached \in Config \cup {NoConfig}
  /\ cachedAt \in 0 .. MaxTemplates
  /\ lastSaved \in Config \cup {NoConfig}
  /\ \A s \in Savers : saver[s].config \in Config \cup {NoConfig}

(* While no save is between its two files, a load served from the cache    *)
(* (_load_config) gives what the two files say, whichever loads and saves  *)
(* overlapped before; and the files say what the last save wrote, whole:   *)
(* never the settings of one request with the credential of another.       *)
ConfigIsWhole ==
  Writers = {} =>
    /\ cached # NoConfig /\ cachedAt = template.mtime
         => Overridden(cached) = Overridden(template.config)
    /\ lastSaved # NoConfig =>
         Overridden(template.config) =
           [lastSaved EXCEPT !.key = IF EnvKey = Blank THEN @ ELSE EnvKey]

=============================================================================
