------------------------- MODULE PluginSessionProofs -------------------------
(***************************************************************************)
(* What the runs of the program and their plugins make of the credential   *)
(* item and of the token files, for any number of runs and handlers.       *)
(***************************************************************************)
EXTENDS PluginSession, TLAPS

RunPcs == {"idle", "fetch", "write", "start", "init", "work", "sync", "kill",
           "done", "fatal", "aborted"}
RunStates == [pc : RunPcs, creds : Items \cup {None}, path : Files \cup {None}]

MaybeToken == Tokens \cup {None}
PlugPcs == {"none", "load", "select", "shutdown", "exchange", "save",
            "folder", "ready", "failed", "killed"}
PlugStates ==
    [pc : PlugPcs, path : Files \cup {None}, opts : MaybeToken, latest : MaybeToken,
     current : MaybeToken, last : MaybeToken]

AuthStates ==
    [listener : {"none", "open", "failed", "closed"},
     callback : [Callbacks -> {"none", "code", "error", "done"}],
     pasted : {"none", "code", "taken"},
     code : {"none", "code", "error"}]

HeldStates == [token : MaybeToken, saving : BOOLEAN]

TypeInv ==
    /\ config \in Configs
    /\ vault \in Items \cup {None}
    /\ file \in [Files -> Tokens \cup {None, Torn}]
    /\ issued \in 0 .. MaxTokens
    /\ run \in [Runs -> RunStates]
    /\ plug \in [Runs -> PlugStates]
    /\ auth \in [Runs -> AuthStates]
    /\ held \in [Runs -> [Handlers -> HeldStates]]
    /\ edits \in [number : Nat, during : BOOLEAN]

(* A run starts its plugin once, and works only with one that is ready; a  *)
(* plugin knows its tokens from the moment it has one, and a killed one has *)
(* at most a file half written.                                             *)
Paired(r) ==
    /\ run[r].pc \in {"idle", "fetch", "write", "start"} => plug[r] = NoPlugin
    /\ Calls(r) => plug[r].pc = "ready"
    /\ run[r].pc = "sync" => run[r].creds # None /\ run[r].creds.token # None
    /\ plug[r].pc \in {"none", "killed"} => plug[r].last = None
    /\ plug[r].pc = "none" => \A h \in Handlers : held[r][h] = Released
    /\ plug[r].pc \in {"save", "folder", "ready"} =>
          plug[r].latest # None /\ plug[r].current # None
    /\ \A h \in Handlers : held[r][h].saving => held[r][h].token # None

PairedInv == TypeInv /\ \A r \in Runs : Paired(r)

LEMMA SomeToken ==
    /\ \A t \in Tokens : t # None /\ t # Torn
    /\ 1 \in Tokens
    /\ \A n \in 0 .. MaxTokens : n < MaxTokens => n + 1 \in Tokens /\ n + 1 \in 0 .. MaxTokens
  BY BoundsAssumption, DistinctAssumption DEF Tokens

(* The records, as the steps change them. *)
LEMMA InitialStates ==
    /\ NoItem \in Items
    /\ [pc |-> "idle", creds |-> None, path |-> None] \in RunStates
    /\ NoPlugin \in PlugStates
    /\ NoAuth \in AuthStates
    /\ Released \in HeldStates
<1>1. NoItem \in Items
  BY DEF NoItem, Items
<1>2. [pc |-> "idle", creds |-> None, path |-> None] \in RunStates
  BY DEF RunStates, RunPcs
<1>3. NoPlugin \in PlugStates
  BY DEF NoPlugin, PlugStates, PlugPcs, MaybeToken
<1>4. NoAuth \in AuthStates
  BY DEF NoAuth, AuthStates
<1>5. Released \in HeldStates
  BY DEF Released, HeldStates, MaybeToken
<1> QED
  BY <1>1, <1>2, <1>3, <1>4, <1>5

LEMMA RunTypes ==
    ASSUME NEW s \in RunStates, NEW l \in RunPcs
    PROVE  /\ [s EXCEPT !.pc = l] \in RunStates
           /\ \A creds \in Items \cup {None}, path \in Files \cup {None} :
                 [pc |-> l, creds |-> creds, path |-> path] \in RunStates
  BY DEF RunStates

LEMMA PlugTypes ==
    ASSUME NEW s \in PlugStates, NEW l \in PlugPcs, NEW t \in MaybeToken
    PROVE  /\ [s EXCEPT !.pc = l] \in PlugStates
           /\ [s EXCEPT !.pc = l, !.latest = t, !.current = t] \in PlugStates
           /\ [s EXCEPT !.current = t] \in PlugStates
           /\ [s EXCEPT !.last = t, !.latest = t] \in PlugStates
           /\ \A path \in Files \cup {None} :
                 [s EXCEPT !.pc = l, !.opts = t, !.path = path] \in PlugStates
  BY DEF PlugStates

LEMMA AuthTypes ==
    ASSUME NEW b \in AuthStates
    PROVE  /\ \A x \in {"open", "failed", "closed"} : [b EXCEPT !.listener = x] \in AuthStates
           /\ \A x \in {"code", "taken"} : [b EXCEPT !.pasted = x] \in AuthStates
           /\ \A x \in {"code", "error"} : [b EXCEPT !.code = x] \in AuthStates
           /\ \A c \in Callbacks, x \in {"code", "error", "done"} :
                 [b EXCEPT !.callback[c] = x] \in AuthStates
           /\ \A x \in {"none", "code", "error"} :
                 [b EXCEPT !.listener = "closed", !.code = x] \in AuthStates
           /\ \A c \in Callbacks, x \in {"code", "error"} :
                 [b EXCEPT !.callback[c] = "done", !.code = x] \in AuthStates
           /\ [b EXCEPT !.pasted = "taken", !.code = "code"] \in AuthStates
           /\ Closing(b) \in AuthStates
           /\ b.code \in {"none", "code", "error"}
  BY DEF AuthStates, Closing

LEMMA TypeInit == Init => TypeInv
<1> SUFFICES ASSUME Init
             PROVE  TypeInv
  OBVIOUS
<1>1. vault \in Items \cup {None} /\ issued \in 0 .. MaxTokens
  <2>1. 0 \in 0 .. MaxEdits /\ {0, 1} \subseteq 0 .. MaxTokens /\ 1 \in Tokens
    BY BoundsAssumption, SomeToken
  <2>2. [NoItem EXCEPT !.rest = TRUE] \in Items
    BY InitialStates DEF Items
  <2>3. \A t \in Tokens \cup {None}, c \in BOOLEAN :
            [token |-> t, client |-> c, text |-> 0, rest |-> TRUE] \in Items
    BY <2>1 DEF Items
  <2> QED
    BY <2>1, <2>2, <2>3 DEF Init
<1>2. config \in Configs
  BY DEF Init
<1>3. held \in [Runs -> [Handlers -> HeldStates]] /\ edits \in [number : Nat, during : BOOLEAN]
  BY InitialStates DEF Init
<1> QED
  BY <1>1, <1>2, <1>3, InitialStates DEF Init, TypeInv

(* What the main program gives to the plugin. *)
LEMMA StringsType ==
    ASSUME NEW i \in Items
    PROVE  /\ Strings(i) \in Items
           /\ Strings(i).token = i.token /\ Strings(i).text = i.text
  BY DEF Strings, Items

LEMMA CredsTypes ==
    ASSUME TypeInv
    PROVE  /\ Creds \in Items \cup {None}
           /\ TokenPath \in Files \cup {None}
           /\ \A creds \in Items \cup {None} : OptsToken(creds) \in MaybeToken
           /\ \A r \in Runs : /\ OptsToken(run[r].creds) \in MaybeToken
                              /\ PluginPath(r) \in Files \cup {None}
<1>1. \A creds \in Items : creds.token \in MaybeToken
  BY DEF Items, MaybeToken
<1>2. \A r \in Runs : run[r].creds \in Items \cup {None} /\ run[r].path \in Files \cup {None}
  BY DEF TypeInv, RunStates
<1> QED
  BY <1>1, <1>2, InitialStates, StringsType
     DEF TypeInv, Configs, Files, Creds, TokenPath, OptsToken, PluginPath, MaybeToken

(* What is given back is the item as it was read, with the token. *)
LEMMA UpdatedType ==
    ASSUME TypeInv, NEW r \in Runs, run[r].creds # None
    PROVE  /\ Updated(r) \in Items /\ Updated(r).text = run[r].creds.text
           /\ Updated(r).token = plug[r].latest
<1>1. run[r].creds \in Items /\ plug[r].latest \in MaybeToken
  BY DEF TypeInv, RunStates, PlugStates
<1> QED
  BY <1>1 DEF Updated, Items, MaybeToken

LEMMA TypeMain ==
    ASSUME TypeInv, NEW r \in Runs, Begin(r) \/ Main(r)
    PROVE  TypeInv'
<1>0. run[r] \in RunStates /\ plug[r] \in PlugStates /\ held[r] \in [Handlers -> HeldStates]
  BY DEF TypeInv
<1>1. run' \in [Runs -> RunStates]
  <2>1. ASSUME NEW l \in RunPcs, RunGoes(r, l) \/ RunEnds(r, l)
        PROVE  run' \in [Runs -> RunStates]
    <3>1. /\ [run[r] EXCEPT !.pc = l] \in RunStates
          /\ [pc |-> l, creds |-> None, path |-> None] \in RunStates
      BY <1>0, RunTypes
    <3> QED
      BY <2>1, <3>1 DEF RunGoes, RunEnds, TypeInv
  <2>2. CASE GetCredentials(r)
    <3>1. PICK creds \in Items \cup {None}, path \in Files \cup {None} :
              creds = Creds /\ path = TokenPath
      BY CredsTypes
    <3>2. /\ [pc |-> "write", creds |-> creds, path |-> path] \in RunStates
          /\ [pc |-> "start", creds |-> creds, path |-> path] \in RunStates
      BY DEF RunStates, RunPcs
    <3>3. CASE RunEnds(r, "fatal")
      BY <2>1, <3>3 DEF RunPcs
    <3> QED
      BY <2>2, <3>1, <3>2, <3>3 DEF GetCredentials, TypeInv
  <2>3. CASE GetUpdatedConfig(r)
    <3>1. Changed(r) => [run[r] EXCEPT !.pc = "sync", !.creds = Updated(r)] \in RunStates
      BY <1>0, UpdatedType DEF Changed, RunStates, RunPcs
    <3>2. \/ Changed(r) /\ run' = [run EXCEPT ![r] = [run[r] EXCEPT !.pc = "sync", !.creds = Updated(r)]]
          \/ RunGoes(r, "kill")
      BY <2>3 DEF GetUpdatedConfig
    <3> QED
      BY <2>1, <3>1, <3>2 DEF TypeInv, RunPcs
  <2> QED
    BY <2>1, <2>2, <2>3
       DEF Begin, Main, Fatal, WriteToken, StartPlugin, InitReturns, SetCredentials, Kill,
           RunPcs, TypeInv
<1>2. plug' \in [Runs -> PlugStates]
  <2>1. CASE StartPlugin(r)
    BY <2>1, CredsTypes, InitialStates, PlugTypes DEF StartPlugin, PlugPcs, TypeInv
  <2>2. CASE Kill(r)
    <3>1. [NoPlugin EXCEPT !.pc = "killed", !.path = plug[r].path] \in PlugStates
      BY <1>0, InitialStates DEF PlugStates, PlugPcs
    <3> QED
      BY <2>2, <3>1 DEF Kill, TypeInv
  <2> QED
    BY <2>1, <2>2
       DEF Begin, Main, Fatal, GetCredentials, WriteToken, InitReturns, GetUpdatedConfig,
           SetCredentials, TypeInv
<1>3. file' \in [Files -> Tokens \cup {None, Torn}]
  <2>1. CASE WriteToken(r)
    BY <2>1, CredsTypes DEF WriteToken, MaybeToken, TypeInv
  <2> QED
    BY <2>1 DEF Begin, Main, Fatal, GetCredentials, StartPlugin, InitReturns, GetUpdatedConfig,
                SetCredentials, Kill, TypeInv
<1>4. vault' \in Items \cup {None}
  <2>1. CASE SetCredentials(r)
    BY <1>0, <2>1 DEF SetCredentials, RunStates, TypeInv
  <2> QED
    BY <2>1 DEF Begin, Main, Fatal, GetCredentials, StartPlugin, InitReturns, WriteToken,
                GetUpdatedConfig, Kill, TypeInv
<1>5. held' \in [Runs -> [Handlers -> HeldStates]]
  <2>1. CASE Kill(r)
    BY <1>0, <2>1, InitialStates DEF Kill, TypeInv
  <2> QED
    BY <2>1 DEF Begin, Main, Fatal, GetCredentials, StartPlugin, InitReturns, WriteToken,
                GetUpdatedConfig, SetCredentials, TypeInv
<1>6. UNCHANGED <<config, issued, auth, edits>>
  BY DEF Begin, Main, Fatal, GetCredentials, StartPlugin, InitReturns, WriteToken,
         GetUpdatedConfig, SetCredentials, Kill
<1> QED
  BY <1>1, <1>2, <1>3, <1>4, <1>5, <1>6 DEF TypeInv

LEMMA TypePlugin ==
    ASSUME TypeInv, NEW r \in Runs, Plugin(r)
    PROVE  TypeInv'
<1>0. plug[r] \in PlugStates /\ auth[r] \in AuthStates /\ plug[r].latest \in MaybeToken
  BY DEF TypeInv, PlugStates
<1>1. plug' \in [Runs -> PlugStates]
  <2>1. ASSUME NEW l \in PlugPcs, PlugGoes(r, l)
        PROVE  plug' \in [Runs -> PlugStates]
    BY <1>0, <2>1, PlugTypes DEF PlugGoes, TypeInv
  <2>2. ASSUME NEW l \in PlugPcs, NEW t \in MaybeToken, Adopt(r, t, l)
        PROVE  plug' \in [Runs -> PlugStates]
    BY <1>0, <2>2, PlugTypes DEF Adopt, TypeInv
  <2>3. CASE LoadToken(r)
    <3>1. Loaded(plug[r].opts, plug[r].path) \in MaybeToken
      BY <1>0 DEF Loaded, PlugStates, MaybeToken, TypeInv
    <3> QED
      BY <2>1, <2>2, <2>3, <3>1 DEF LoadToken, PlugPcs
  <2>4. CASE Exchange(r)
    <3>1. issued < MaxTokens => issued + 1 \in MaybeToken
      BY SomeToken DEF TypeInv, MaybeToken
    <3> QED
      BY <2>1, <2>2, <2>4, <3>1 DEF Exchange, PlugPcs
  <2> QED
    BY <2>1, <2>3, <2>4
       DEF Plugin, SaveToken, ResolveFolder, Listen, Select, Shutdown, PlugPcs, TypeInv
<1>2. auth' \in [Runs -> AuthStates]
  <2>1. CASE Listen(r)
    BY <1>0, <2>1, AuthTypes DEF Listen, TypeInv
  <2>2. CASE Select(r)
    <3>1. ASSUME NEW b \in AuthStates, auth' = [auth EXCEPT ![r] = Closing(b)]
          PROVE  auth' \in [Runs -> AuthStates]
      BY <3>1, AuthTypes DEF TypeInv
    <3> QED
      BY <1>0, <2>2, <3>1, AuthTypes DEF Select
  <2>3. CASE Shutdown(r)
    BY <1>0, <2>3, InitialStates, AuthTypes DEF Shutdown, TypeInv
  <2> QED
    BY <2>1, <2>2, <2>3 DEF Plugin, LoadToken, SaveToken, ResolveFolder, Exchange, TypeInv
<1>3. file' \in [Files -> Tokens \cup {None, Torn}]
  BY <1>0
     DEF Plugin, LoadToken, SaveToken, ResolveFolder, Listen, Select, Shutdown, Exchange,
         MaybeToken, TypeInv
<1>4. issued' \in 0 .. MaxTokens
  BY SomeToken
     DEF Plugin, LoadToken, SaveToken, ResolveFolder, Listen, Select, Shutdown, Exchange, TypeInv
<1>5. UNCHANGED <<config, vault, run, held, edits>>
  BY DEF Plugin, LoadToken, SaveToken, ResolveFolder, Listen, Select, Shutdown, Exchange
<1> QED
  BY <1>1, <1>2, <1>3, <1>4, <1>5 DEF TypeInv

LEMMA TypeOthers ==
    ASSUME TypeInv,
           NEW r \in Runs, Paste(r) \/ (\E c \in Callbacks : Callback(r, c))
    PROVE  TypeInv'
<1>1. auth[r] \in AuthStates
  BY DEF TypeInv
<1>2. ASSUME NEW b \in AuthStates, auth' = [auth EXCEPT ![r] = b]
      PROVE  auth' \in [Runs -> AuthStates]
  BY <1>2 DEF TypeInv
<1>3. CASE Paste(r)
  <2>1. [auth[r] EXCEPT !.pasted = "code"] \in AuthStates
    BY <1>1, AuthTypes
  <2>2. auth' \in [Runs -> AuthStates]
    BY <1>2, <1>3, <2>1 DEF Paste
  <2> QED
    BY <1>3, <2>2 DEF Paste, TypeInv
<1>4. ASSUME NEW c \in Callbacks, Callback(r, c)
      PROVE  TypeInv'
  <2>1. PICK kind \in {"code", "error"} : auth' = [auth EXCEPT ![r].callback[c] = kind]
    BY <1>4 DEF Callback
  <2>2. [auth[r] EXCEPT !.callback[c] = kind] \in AuthStates
    BY <1>1 DEF AuthStates
  <2>3. auth' \in [Runs -> AuthStates]
    BY <1>2, <2>1, <2>2
  <2> QED
    BY <1>4, <2>3 DEF Callback, TypeInv
<1> QED
  BY <1>3, <1>4

LEMMA TypeHandler ==
    ASSUME TypeInv, NEW r \in Runs, NEW h \in Handlers, Paired(r),
           TakeToken(r, h) \/ NoteToken(r, h) \/ KeepToken(r, h)
    PROVE  TypeInv'
<1>0. /\ plug[r] \in PlugStates /\ held[r] \in [Handlers -> HeldStates]
      /\ held[r][h].token \in MaybeToken /\ plug[r].current \in MaybeToken
  BY DEF TypeInv, PlugStates, HeldStates
<1>1. ASSUME NEW s \in HeldStates, held' = [held EXCEPT ![r][h] = s]
      PROVE  held' \in [Runs -> [Handlers -> HeldStates]]
  BY <1>0, <1>1 DEF TypeInv
<1>2. CASE TakeToken(r, h)
  <2>1. PICK t \in {plug[r].current} \cup (IF issued < MaxTokens THEN {issued + 1} ELSE {}) :
            /\ held' = [held EXCEPT ![r][h].token = t]
            /\ plug' = [plug EXCEPT ![r].current = t]
            /\ issued' = IF t > issued THEN t ELSE issued
    BY <1>2 DEF TakeToken
  <2>2. t \in MaybeToken
    BY <1>0, <2>1, SomeToken DEF TypeInv, MaybeToken
  <2>3. [held[r][h] EXCEPT !.token = t] \in HeldStates
    BY <1>0, <2>2 DEF HeldStates
  <2>4. held' \in [Runs -> [Handlers -> HeldStates]]
    BY <1>0, <2>1, <2>3 DEF TypeInv
  <2>5. plug' \in [Runs -> PlugStates]
    BY <1>0, <2>1, <2>2, PlugTypes DEF PlugPcs, TypeInv
  <2>6. issued' \in 0 .. MaxTokens
    <3>1. t \in Tokens
      BY <1>0, <1>2, <2>1, SomeToken DEF TakeToken, Paired, MaybeToken, TypeInv
    <3> QED
      BY <2>1, <3>1 DEF Tokens, TypeInv
  <2> QED
    BY <1>2, <2>4, <2>5, <2>6 DEF TakeToken, TypeInv
<1>3. CASE NoteToken(r, h)
  <2>1. plug' \in [Runs -> PlugStates]
    <3>1. [plug[r] EXCEPT !.last = held[r][h].token, !.latest = held[r][h].token] \in PlugStates
      BY <1>0 DEF PlugStates
    <3> QED
      BY <1>3, <3>1 DEF NoteToken, TypeInv
  <2>2. [held[r][h] EXCEPT !.saving = TRUE] \in HeldStates
    BY <1>0 DEF HeldStates
  <2>3. held' \in [Runs -> [Handlers -> HeldStates]]
    BY <1>0, <1>1, <1>3, <2>2, InitialStates DEF NoteToken, TypeInv
  <2>4. file' \in [Files -> Tokens \cup {None, Torn}]
    BY <1>3 DEF NoteToken, TypeInv
  <2> QED
    BY <1>3, <2>1, <2>3, <2>4 DEF NoteToken, TypeInv
<1>4. CASE KeepToken(r, h)
  <2>1. file' \in [Files -> Tokens \cup {None, Torn}]
    BY <1>0, <1>4 DEF KeepToken, MaybeToken, TypeInv
  <2> QED
    BY <1>1, <1>4, <2>1, InitialStates DEF KeepToken, TypeInv
<1> QED
  BY <1>2, <1>3, <1>4

LEMMA TypeEdit == ASSUME TypeInv, EditItem PROVE TypeInv'
<1>1. vault \in Items
  BY DEF EditItem, TypeInv
<1>2. [vault EXCEPT !.text = vault.text + 1] \in Items
  BY <1>1, BoundsAssumption DEF EditItem, Items
<1>3. edits' \in [number : Nat, during : BOOLEAN]
  BY DEF EditItem, TypeInv
<1> QED
  BY <1>2, <1>3 DEF EditItem, TypeInv

LEMMA TypeStep == PairedInv /\ [Next]_vars => TypeInv'
<1> SUFFICES ASSUME PairedInv, [Next]_vars
             PROVE  TypeInv'
  OBVIOUS
<1> USE DEF PairedInv
<1>1. CASE UNCHANGED vars
  BY <1>1 DEF TypeInv, vars
<1> QED
  BY <1>1, TypeMain, TypePlugin, TypeOthers, TypeHandler, TypeEdit DEF Next, Handler

LEMMA ReleasedIdle == ~Released.saving /\ Released.token = None
  BY DEF Released

LEMMA PairedInit == Init => PairedInv
  BY TypeInit, InitialStates DEF Init, NoPlugin, Released, Calls, Paired, PairedInv

(* The steps of other runs leave a run, its plugin and its handlers alone. *)
LEMMA OthersApart ==
    ASSUME TypeInv, [Next]_vars, NEW r \in Runs
    PROVE  \/ run'[r] = run[r] /\ plug'[r] = plug[r] /\ held'[r] = held[r]
           \/ Begin(r) \/ Main(r) \/ Plugin(r)
           \/ \E h \in Handlers : TakeToken(r, h) \/ NoteToken(r, h) \/ KeepToken(r, h)
<1> USE DEF TypeInv
<1>1. ASSUME NEW q \in Runs \ {r}, Begin(q) \/ Main(q)
      PROVE  run'[r] = run[r] /\ plug'[r] = plug[r] /\ held'[r] = held[r]
  BY <1>1 DEF Begin, Main, Fatal, GetCredentials, WriteToken, StartPlugin, InitReturns,
              GetUpdatedConfig, SetCredentials, Kill, RunGoes, RunEnds
<1>2. ASSUME NEW q \in Runs \ {r}, Plugin(q)
      PROVE  run'[r] = run[r] /\ plug'[r] = plug[r] /\ held'[r] = held[r]
  BY <1>2 DEF Plugin, LoadToken, SaveToken, ResolveFolder, Listen, Select, Shutdown, Exchange,
              Adopt, PlugGoes
<1>3. ASSUME NEW q \in Runs \ {r}, NEW h \in Handlers,
             TakeToken(q, h) \/ NoteToken(q, h) \/ KeepToken(q, h)
      PROVE  run'[r] = run[r] /\ plug'[r] = plug[r] /\ held'[r] = held[r]
  BY <1>3 DEF TakeToken, NoteToken, KeepToken
<1>4. ASSUME NEW q \in Runs, Paste(q) \/ \E c \in Callbacks : Callback(q, c)
      PROVE  run' = run /\ plug' = plug /\ held' = held
  BY <1>4 DEF Paste, Callback
<1> QED
  BY <1>1, <1>2, <1>3, <1>4 DEF Next, Handler, EditItem, vars

LEMMA PairedStep == PairedInv /\ [Next]_vars => PairedInv'
<1> SUFFICES ASSUME PairedInv, [Next]_vars, NEW r \in Runs
             PROVE  Paired(r)'
  BY TypeStep DEF PairedInv
<1>0. Paired(r) /\ run[r] \in RunStates /\ plug[r] \in PlugStates
      /\ held[r] \in [Handlers -> HeldStates]
  BY DEF PairedInv, TypeInv
<1>1. CASE run'[r] = run[r] /\ plug'[r] = plug[r] /\ held'[r] = held[r]
  BY <1>0, <1>1 DEF Calls, Paired
<1> USE DEF PairedInv, TypeInv
<1>2. CASE Begin(r) \/ Main(r)
  <2>1. CASE /\ plug'[r] = plug[r] /\ held'[r] = held[r]
             /\ run'[r].pc = "fatal" \/ (run'[r].pc \in {"kill", "aborted"} /\ Calls(r))
    BY <1>0, <2>1 DEF Paired, Calls
  <2>2. CASE Begin(r) \/ WriteToken(r)
    <3>1. /\ plug'[r] = plug[r] /\ held'[r] = held[r]
          /\ run[r].pc \in {"idle", "fetch", "write", "start"}
          /\ run'[r].pc \in {"fetch", "write", "start"}
      BY <1>0, <2>2 DEF Begin, WriteToken, RunGoes, RunStates
    <3> QED
      BY <1>0, <3>1 DEF Paired, Calls
  <2>3. CASE GetCredentials(r)
    <3>1. /\ plug'[r] = plug[r] /\ held'[r] = held[r]
          /\ run[r].pc \in {"idle", "fetch", "write", "start"}
          /\ run'[r].pc \in {"write", "start", "fatal"}
      BY <1>0, <2>3 DEF GetCredentials, RunEnds, RunStates
    <3> QED
      BY <1>0, <3>1 DEF Paired, Calls
  <2>4. CASE StartPlugin(r)
    <3>1. /\ plug'[r].pc = "load" /\ held'[r] = held[r] /\ run'[r].pc = "init"
      BY <1>0, <2>4 DEF StartPlugin, RunGoes, RunStates, NoPlugin
    <3> QED
      BY <1>0, <3>1 DEF Paired, Calls
  <2>5. CASE InitReturns(r)
    <3>1. /\ plug'[r] = plug[r] /\ plug[r].pc = "ready" /\ held'[r] = held[r]
          /\ run'[r].pc = "work"
      BY <1>0, <2>5 DEF InitReturns, RunGoes, RunStates
    <3> QED
      BY <1>0, <3>1 DEF Paired
  <2>6. CASE Kill(r)
    <3>1. /\ plug'[r].pc = "killed" /\ plug'[r].last = None /\ run'[r].pc = "done"
          /\ \A h \in Handlers : held'[r][h] = held[r][h] \/ held'[r][h] = Released
      BY <1>0, <2>6 DEF Kill, RunEnds, NoPlugin
    <3> QED
      BY <1>0, <3>1, ReleasedIdle DEF Paired, Calls
  <2>7. CASE Fatal(r)
    BY <1>0, <2>1, <2>7 DEF Fatal, RunEnds
  <2>8. CASE GetUpdatedConfig(r)
    <3>1. plug'[r] = plug[r] /\ held'[r] = held[r] /\ Calls(r) /\ plug[r].pc = "ready"
      BY <1>0, <2>8 DEF GetUpdatedConfig, Calls, Paired
    <3>2. CASE Changed(r) /\ run' = [run EXCEPT ![r].pc = "sync", ![r].creds = Updated(r)]
      <4>1. /\ run'[r].pc = "sync" /\ run'[r].creds = Updated(r) /\ run[r].creds # None
        BY <1>0, <3>2 DEF RunStates, Changed
      <4>2. Updated(r) # None /\ Updated(r).token # None
        BY <1>0, <3>1, <4>1, UpdatedType, ItemsAssumption DEF Paired
      <4> QED
        BY <1>0, <3>1, <4>1, <4>2 DEF Paired
    <3>3. CASE RunGoes(r, "kill")
      BY <1>0, <2>1, <3>1, <3>3 DEF RunGoes, RunStates
    <3> QED
      BY <2>8, <3>2, <3>3 DEF GetUpdatedConfig
  <2>9. CASE SetCredentials(r)
    BY <1>0, <2>1, <2>9 DEF SetCredentials, RunGoes, RunStates, Calls
  <2> QED
    BY <1>2, <2>2, <2>3, <2>4, <2>5, <2>6, <2>7, <2>8, <2>9 DEF Main
<1>3. CASE Plugin(r)
  <2>0. run'[r] = run[r] /\ held'[r] = held[r]
    BY <1>3 DEF Plugin, LoadToken, SaveToken, ResolveFolder, Listen, Select, Shutdown, Exchange
  <2>1. ASSUME NEW l \in {"select", "shutdown", "exchange", "failed"}, PlugGoes(r, l)
        PROVE  plug'[r].pc = l
    BY <1>0, <2>1 DEF PlugGoes, PlugStates
  <2>2. ASSUME NEW l \in PlugPcs, NEW t \in Tokens, Adopt(r, t, l)
        PROVE  plug'[r].pc = l /\ plug'[r].latest # None /\ plug'[r].current # None
    BY <1>0, <2>2, SomeToken DEF Adopt, PlugStates
  <2>3. CASE LoadToken(r)
    <3>1. Loaded(plug[r].opts, plug[r].path) \in Tokens \cup {None}
      BY <1>0 DEF Loaded, PlugStates, MaybeToken
    <3>2. \/ plug'[r].pc = "select"
          \/ plug'[r].pc = "folder" /\ plug'[r].latest # None /\ plug'[r].current # None
      BY <2>1, <2>2, <2>3, <3>1 DEF LoadToken, PlugPcs
    <3> QED
      BY <1>0, <2>0, <2>3, <3>2 DEF LoadToken, Calls, Paired, NoPlugin
  <2>4. CASE SaveToken(r) \/ ResolveFolder(r)
    <3>1. /\ plug[r].pc \in {"save", "folder"}
          /\ plug'[r] = plug[r]
             \/ /\ plug'[r].pc \in {"folder", "ready", "failed"}
                /\ plug'[r].latest = plug[r].latest /\ plug'[r].current = plug[r].current
      BY <1>0, <2>4 DEF SaveToken, ResolveFolder, PlugGoes, PlugStates
    <3> QED
      BY <1>0, <2>0, <3>1 DEF Calls, Paired, NoPlugin
  <2>5. CASE Listen(r)
    BY <1>0, <2>0, <2>5 DEF Listen, Calls, Paired
  <2>6. CASE Select(r) \/ Shutdown(r)
    <3>1. plug[r].pc \in {"select", "shutdown"} /\ plug'[r].pc \in {"shutdown", "exchange", "failed"}
      BY <2>1, <2>6 DEF Select, Shutdown
    <3> QED
      BY <1>0, <2>0, <3>1 DEF Calls, Paired, NoPlugin
  <2>7. CASE Exchange(r)
    <3>1. issued < MaxTokens => issued + 1 \in Tokens
      BY SomeToken
    <3>2. \/ plug'[r].pc = "failed"
          \/ plug'[r].pc = "save" /\ plug'[r].latest # None /\ plug'[r].current # None
      BY <2>1, <2>2, <2>7, <3>1 DEF Exchange, PlugPcs
    <3> QED
      BY <1>0, <2>0, <2>7, <3>2 DEF Exchange, Calls, Paired, NoPlugin
  <2> QED
    BY <1>3, <2>3, <2>4, <2>5, <2>6, <2>7 DEF Plugin
<1>4. ASSUME NEW h \in Handlers, TakeToken(r, h) \/ NoteToken(r, h) \/ KeepToken(r, h)
      PROVE  Paired(r)'
  <2>0. held[r][h] \in HeldStates
    BY <1>0
  <2>1. CASE TakeToken(r, h)
    <3>1. PICK t : /\ held' = [held EXCEPT ![r][h].token = t]
                   /\ plug' = [plug EXCEPT ![r].current = t]
                   /\ t = plug[r].current \/ t \in Tokens
      BY <2>1, SomeToken DEF TakeToken
    <3>2. plug[r].pc \in {"folder", "ready"} /\ plug[r].current # None
      BY <1>0, <2>1 DEF TakeToken, Paired
    <3>3. t # None
      BY <3>1, <3>2, SomeToken
    <3>4. /\ plug'[r].pc = plug[r].pc /\ plug'[r].latest = plug[r].latest /\ plug'[r].current = t
          /\ run'[r] = run[r]
          /\ held'[r][h].token = t /\ \A k \in Handlers \ {h} : held'[r][k] = held[r][k]
      BY <1>0, <2>0, <2>1, <3>1 DEF TakeToken, PlugStates, HeldStates
    <3> QED
      BY <1>0, <3>2, <3>3, <3>4 DEF Calls, Paired, NoPlugin
  <2>2. CASE NoteToken(r, h)
    <3>1. /\ run'[r] = run[r] /\ held[r][h].token # None
          /\ plug[r].pc \notin {"none", "killed"} /\ plug'[r].pc = plug[r].pc
          /\ plug'[r].latest \in {plug[r].latest, held[r][h].token}
          /\ plug'[r].current = plug[r].current
      <4>1. CASE plug' = [plug EXCEPT ![r] = [plug[r] EXCEPT !.last = held[r][h].token,
                                                             !.latest = held[r][h].token]]
        BY <1>0, <2>2, <4>1 DEF NoteToken, PlugStates
      <4>2. CASE plug' = plug
        BY <2>2, <4>2 DEF NoteToken
      <4> QED
        BY <2>2, <4>1, <4>2 DEF NoteToken
    <3>2. /\ \A k \in Handlers \ {h} : held'[r][k] = held[r][k]
          /\ held'[r][h] = Released \/ held'[r][h].token = held[r][h].token
      BY <1>0, <2>0, <2>2 DEF NoteToken, HeldStates
    <3> QED
      BY <1>0, <3>1, <3>2, ReleasedIdle DEF Calls, Paired, NoPlugin
  <2>3. CASE KeepToken(r, h)
    <3>1. /\ run' = run /\ plug' = plug
          /\ \A k \in Handlers : held'[r][k] = held[r][k] \/ held'[r][k] = Released
      BY <1>0, <2>3 DEF KeepToken
    <3>2. \A k \in Handlers : held'[r][k].saving => held'[r][k].token # None
      BY <1>0, <3>1, ReleasedIdle DEF Paired
    <3> QED
      BY <1>0, <3>1, <3>2 DEF Calls, Paired
  <2> QED
    BY <1>4, <2>1, <2>2, <2>3
<1> QED
  BY <1>1, <1>2, <1>3, <1>4, OthersApart DEF PairedInv

(***************************************************************************)
(* Type correctness of runs, plugins, authorizations and handlers.         *)
(***************************************************************************)
THEOREM TypeCorrect == Spec => []TypeOK
<1>1. TypeInv => TypeOK
  BY DEF TypeInv, TypeOK, RunStates, RunPcs, PlugStates, PlugPcs, AuthStates, HeldStates,
         MaybeToken
<1> QED
  BY <1>1, PairedInit, PairedStep, PTL DEF Spec, PairedInv

-----------------------------------------------------------------------------
(* The steps of one run, the token files and the item, sorted by effect. *)

LEMMA RunSteps ==
    ASSUME PairedInv, [Next]_vars, NEW r \in Runs
    PROVE  \/ run'[r] = run[r]
           \/ /\ run'[r].creds = run[r].creds /\ run'[r].path = run[r].path
              /\ \/ run[r].pc = "idle" /\ run'[r].pc = "fetch"
                 \/ run[r].pc = "write" /\ run'[r].pc = "start"
                 \/ run[r].pc = "start" /\ run'[r].pc = "init"
                 \/ run[r].pc = "init" /\ run'[r].pc = "work"
                 \/ run[r].pc \in {"work", "sync"} /\ run'[r].pc = "kill"
           \/ /\ run[r].pc = "work" /\ run'[r].pc = "sync" /\ run'[r].path = run[r].path
              /\ run[r].creds # None /\ run'[r].creds = Updated(r)
           \/ /\ run[r].pc = "fetch" /\ plug'[r] = plug[r]
              /\ run'[r].pc = IF TokenPath # None /\ OptsToken(Creds) # None
                              THEN "write" ELSE "start"
              /\ run'[r].creds = Creds /\ run'[r].path = TokenPath
           \/ /\ run'[r].pc \in {"done", "fatal", "aborted"}
              /\ run'[r].creds = None /\ run'[r].path = None
<1> USE DEF PairedInv, TypeInv
<1>0. run[r] \in RunStates
  OBVIOUS
<1>1. CASE Begin(r) \/ Fatal(r) \/ Kill(r)
  BY <1>0, <1>1 DEF Begin, Fatal, Kill, RunGoes, RunEnds, RunStates
<1>2. CASE GetCredentials(r)
  BY <1>0, <1>2 DEF GetCredentials, RunEnds
<1>3. CASE WriteToken(r) \/ StartPlugin(r) \/ InitReturns(r)
  BY <1>0, <1>3 DEF WriteToken, StartPlugin, InitReturns, RunGoes, RunStates
<1>4. CASE Plugin(r)
  BY <1>4 DEF Plugin, LoadToken, SaveToken, ResolveFolder, Listen, Select, Shutdown, Exchange
<1>5. ASSUME NEW h \in Handlers, TakeToken(r, h) \/ NoteToken(r, h) \/ KeepToken(r, h)
      PROVE  run' = run
  BY <1>5 DEF TakeToken, NoteToken, KeepToken
<1>6. CASE GetUpdatedConfig(r)
  BY <1>0, <1>6 DEF GetUpdatedConfig, Changed, RunGoes, RunStates
<1>7. CASE SetCredentials(r)
  BY <1>0, <1>7 DEF SetCredentials, RunGoes, RunStates
<1> QED
  BY <1>1, <1>2, <1>3, <1>4, <1>5, <1>6, <1>7, OthersApart DEF Main

LEMMA ItemSteps ==
    ASSUME PairedInv, [Next]_vars
    PROVE  \/ vault' = vault /\ edits' = edits
           \/ EditItem
           \/ \E r \in Runs : /\ run[r].pc = "sync" /\ vault' = run[r].creds
                              /\ edits' = edits
<1>1. ASSUME NEW r \in Runs, Begin(r) \/ Main(r)
      PROVE  \/ vault' = vault /\ edits' = edits
             \/ run[r].pc = "sync" /\ vault' = run[r].creds /\ edits' = edits
  BY <1>1 DEF Begin, Main, Fatal, GetCredentials, WriteToken, StartPlugin, InitReturns,
              GetUpdatedConfig, SetCredentials, Kill
<1>2. ASSUME NEW r \in Runs, Plugin(r)
      PROVE  vault' = vault /\ edits' = edits
  BY <1>2 DEF Plugin, LoadToken, SaveToken, ResolveFolder, Listen, Select, Shutdown, Exchange
<1>3. ASSUME NEW r \in Runs, NEW h \in Handlers,
             TakeToken(r, h) \/ NoteToken(r, h) \/ KeepToken(r, h)
      PROVE  vault' = vault /\ edits' = edits
  BY <1>3 DEF TakeToken, NoteToken, KeepToken
<1>4. ASSUME NEW r \in Runs, Paste(r) \/ \E c \in Callbacks : Callback(r, c)
      PROVE  vault' = vault /\ edits' = edits
  BY <1>4 DEF Paste, Callback
<1> QED
  BY <1>1, <1>2, <1>3, <1>4 DEF Next, Handler, vars

-----------------------------------------------------------------------------
(* What a run has read of the item is as new as the item, as long as edits  *)
(* come only between runs; and an item without an edit is as at first.      *)
AsNew(text) == text = edits.number \/ (text = None /\ edits.number = 0)

EditsInv ==
    /\ PairedInv
    /\ vault = None => edits.number = 0
    /\ \A r \in Runs : run[r].pc \in {"idle", "fetch"} => run[r].creds = None
    /\ ~edits.during =>
          /\ vault # None => AsNew(vault.text)
          /\ \A r \in Runs : Active(r) /\ run[r].creds # None => AsNew(run[r].creds.text)

LEMMA EditsInit == Init => EditsInv
<1> SUFFICES ASSUME Init
             PROVE  EditsInv
  OBVIOUS
<1>1. edits.number = 0 /\ \A r \in Runs : run[r].pc = "idle" /\ run[r].creds = None
  BY DEF Init
<1>2. vault # None => vault.text = None \/ vault.text = 0
  <2>1. [NoItem EXCEPT !.rest = TRUE].text = None
    BY DEF NoItem
  <2>2. CASE vault = [NoItem EXCEPT !.rest = TRUE]
    BY <2>1, <2>2
  <2>3. ASSUME NEW t, NEW c, vault = [token |-> t, client |-> c, text |-> 0, rest |-> TRUE]
        PROVE  vault.text = 0
    BY <2>3
  <2> QED
    BY <2>2, <2>3 DEF Init
<1> QED
  BY <1>1, <1>2, PairedInit DEF EditsInv, AsNew

LEMMA EditsStep == EditsInv /\ [Next]_vars => EditsInv'
<1> SUFFICES ASSUME EditsInv, [Next]_vars
             PROVE  EditsInv'
  OBVIOUS
<1> USE DEF EditsInv
<1>1. PairedInv'
  BY PairedStep
<1>2. edits \in [number : Nat, during : BOOLEAN]
  BY DEF PairedInv, TypeInv
<1>3. \A r \in Runs : run'[r].pc \in {"idle", "fetch"} => run'[r].creds = None
  <2> SUFFICES ASSUME NEW r \in Runs, run'[r].pc \in {"idle", "fetch"}
               PROVE  run'[r].creds = None
    OBVIOUS
  <2>1. run[r] \in RunStates
    BY DEF PairedInv, TypeInv
  <2> QED
    BY <2>1, RunSteps DEF RunStates
<1>4. ASSUME NEW r \in Runs, Active(r)', run'[r].creds # None
      PROVE  \/ /\ Active(r) /\ run[r].creds # None
                /\ run'[r].creds.text = run[r].creds.text
             \/ run'[r].creds = Creds
  <2>1. run[r] \in RunStates
    BY DEF PairedInv, TypeInv
  <2>2. run[r].creds # None => Updated(r).text = run[r].creds.text
    BY UpdatedType DEF PairedInv
  <2> QED
    BY <1>4, <2>1, <2>2, RunSteps DEF RunStates, Active
<1>9. ~edits.during /\ Creds # None => AsNew(Creds.text)
  BY StringsType DEF Creds, AsNew, NoItem, PairedInv, TypeInv
<1>5. ASSUME edits' = edits, ~edits.during, vault' = vault,
             NEW r \in Runs, Active(r)', run'[r].creds # None
      PROVE  AsNew(run[r].creds.text)'
  BY <1>4, <1>5, <1>9 DEF AsNew
<1>6. CASE vault' = vault /\ edits' = edits
  BY <1>1, <1>3, <1>5, <1>6 DEF AsNew
<1>7. CASE EditItem
  <2>1. /\ vault # None /\ vault.text \in 0 .. MaxEdits - 1 /\ run' = run
        /\ vault' = [vault EXCEPT !.text = vault.text + 1]
        /\ edits'.number = edits.number + 1
        /\ edits'.during = (edits.during \/ \E r \in Runs : Active(r))
    BY <1>7 DEF EditItem
  <2>2. vault \in Items
    BY <2>1 DEF PairedInv, TypeInv
  <2>3. vault' \in Items /\ vault'.text = vault.text + 1
    BY <2>1, <2>2, BoundsAssumption DEF Items
  <2>4. vault' # None
    BY <2>3, ItemsAssumption
  <2>5. ~edits'.during => AsNew(vault.text)'
    <3>1. vault.text # None
      BY <2>1, DistinctAssumption, BoundsAssumption
    <3> QED
      BY <1>2, <2>1, <2>3, <3>1 DEF AsNew
  <2>6. ~edits'.during => \A r \in Runs : ~Active(r)'
    BY <2>1 DEF Active
  <2> QED
    BY <1>1, <1>3, <2>4, <2>5, <2>6
<1>8. ASSUME NEW q \in Runs, run[q].pc = "sync", vault' = run[q].creds, edits' = edits
      PROVE  EditsInv'
  <2>1. vault' # None /\ vault'.text = run[q].creds.text
    BY <1>8 DEF PairedInv, Paired
  <2>2. ~edits.during => AsNew(vault'.text)
    BY <1>8, <2>1 DEF Active
  <2>3. ASSUME ~edits.during, NEW r \in Runs, Active(r)', run'[r].creds # None
        PROVE  AsNew(run[r].creds.text)'
    BY <1>4, <1>8, <1>9, <2>3 DEF AsNew
  <2> QED
    BY <1>1, <1>3, <1>8, <2>1, <2>2, <2>3 DEF AsNew
<1> QED
  BY <1>6, <1>7, <1>8, ItemSteps

(***************************************************************************)
(* However many runs overlap, fail or refresh tokens, giving a token back  *)
(* loses no string that was edited while no run was active.                *)
(***************************************************************************)
THEOREM EditsAlwaysKept == Spec => []EditsKept
<1>1. EditsInv => EditsKept
  BY DEF EditsInv, EditsKept, AsNew, PairedInv, TypeInv
<1> QED
  BY <1>1, EditsInit, EditsStep, PTL DEF Spec

-----------------------------------------------------------------------------
(* As long as no token is given back, the token files are what remembers:   *)
(* every plugin has the file that a later run would fall back to.           *)
HasToken == vault # None /\ vault.token # None
RunFallsBack(r) ==
    /\ run[r].pc # "write"
    /\ run[r].pc \notin {"sync", "kill"} => OptsToken(run[r].creds) = None
    /\ run[r].pc \in {"start", "init", "work"} => run[r].path = TokenPath
    /\ plug[r].pc # "none" => plug[r].opts = None /\ plug[r].path = FallBack
    /\ config.writable /\ (plug[r].last # None \/ plug[r].pc \in {"ready", "killed"}) =>
          file[FallBack] # None

(* A file is left torn only by somebody who will write it, or was killed. *)
FileRemembers ==
    /\ \A r \in Runs : RunFallsBack(r)
    /\ file[FallBack] = Torn => config.writable /\ \E r \in Runs : Writing(r)

RememberInv ==
    /\ PairedInv
    /\ config.cred = "none" => vault = None /\ \A r \in Runs : run[r].creds = None
    /\ ~HasToken => FileRemembers

LEMMA FallBackFile == ASSUME TypeInv PROVE FallBack \in Files /\ FallBack # None
<1>1. "default" \in Files /\ TokenPath \in Files \cup {None}
  BY CredsTypes DEF Files
<1> QED
  BY <1>1, ItemsAssumption DEF FallBack

LEMMA ConfigKept == ASSUME [Next]_vars PROVE config' = config
<1>1. ASSUME NEW r \in Runs, Begin(r) \/ Main(r)
      PROVE  config' = config
  BY <1>1 DEF Begin, Main, Fatal, GetCredentials, WriteToken, StartPlugin, InitReturns,
              GetUpdatedConfig, SetCredentials, Kill
<1>2. ASSUME NEW r \in Runs, Plugin(r)
      PROVE  config' = config
  BY <1>2 DEF Plugin, LoadToken, SaveToken, ResolveFolder, Listen, Select, Shutdown, Exchange
<1>3. ASSUME NEW r \in Runs, NEW h \in Handlers,
             TakeToken(r, h) \/ NoteToken(r, h) \/ KeepToken(r, h)
      PROVE  config' = config
  BY <1>3 DEF TakeToken, NoteToken, KeepToken
<1>4. ASSUME NEW r \in Runs, Paste(r) \/ \E c \in Callbacks : Callback(r, c)
      PROVE  config' = config
  BY <1>4 DEF Paste, Callback
<1> QED
  BY <1>1, <1>2, <1>3, <1>4 DEF Next, Handler, EditItem, vars

(* An item that has a token keeps one. *)
LEMMA TokenStays ==
    ASSUME PairedInv, [Next]_vars, HasToken
    PROVE  HasToken'
<1>1. CASE EditItem
  <2>1. vault \in Items /\ vault' = [vault EXCEPT !.text = vault.text + 1]
    BY <1>1 DEF EditItem, PairedInv, TypeInv
  <2>2. vault'.token = vault.token /\ vault' \in Items
    BY <1>1, <2>1, BoundsAssumption DEF Items, EditItem
  <2> QED
    BY <2>2, ItemsAssumption DEF HasToken
<1>2. ASSUME NEW r \in Runs, run[r].pc = "sync", vault' = run[r].creds
      PROVE  HasToken'
  BY <1>2 DEF HasToken, PairedInv, Paired
<1> QED
  BY <1>1, <1>2, ItemSteps DEF HasToken

LEMMA NoTokenRead == ASSUME TypeInv, ~HasToken PROVE OptsToken(Creds) = None
  BY StringsType DEF HasToken, Creds, OptsToken, NoItem, TypeInv

LEMMA PlugSteps ==
    ASSUME PairedInv, [Next]_vars, NEW r \in Runs
    PROVE  \/ plug'[r] = plug[r]
           \/ StartPlugin(r)
           \/ /\ plug'[r].pc = "killed" /\ plug[r].pc = "ready"
              /\ plug'[r].last = None /\ plug'[r].opts = None /\ plug'[r].path = plug[r].path
           \/ /\ plug[r].pc \notin {"none", "killed"} /\ plug'[r].pc # "killed"
              /\ plug'[r].opts = plug[r].opts /\ plug'[r].path = plug[r].path
              /\ \/ plug'[r].last = plug[r].last
                 \/ Saves(r) => file' = [file EXCEPT ![plug[r].path] = Torn]
              /\ plug'[r].pc = "ready" => plug[r].pc = "ready" \/ plug[r].last # None
<1> USE DEF PairedInv, TypeInv
<1>0. plug[r] \in PlugStates
  OBVIOUS
<1>1. CASE Begin(r) \/ Main(r)
  <2>1. CASE Kill(r)
    BY <2>1 DEF Kill, NoPlugin, Paired, Calls
  <2> QED
    BY <1>1, <2>1
       DEF Begin, Main, Fatal, GetCredentials, WriteToken, InitReturns, GetUpdatedConfig,
           SetCredentials
<1>2. ASSUME NEW l \in PlugPcs, PlugGoes(r, l)
      PROVE  /\ plug'[r].pc = l /\ plug'[r].last = plug[r].last
             /\ plug'[r].opts = plug[r].opts /\ plug'[r].path = plug[r].path
  BY <1>0, <1>2 DEF PlugGoes, PlugStates
<1>3. ASSUME NEW l \in PlugPcs, NEW t, Adopt(r, t, l)
      PROVE  /\ plug'[r].pc = l /\ plug'[r].last = plug[r].last
             /\ plug'[r].opts = plug[r].opts /\ plug'[r].path = plug[r].path
  BY <1>0, <1>3 DEF Adopt, PlugStates
<1>4. CASE LoadToken(r)
  BY <1>2, <1>3, <1>4 DEF LoadToken, PlugPcs
<1>5. CASE SaveToken(r) \/ ResolveFolder(r) \/ Listen(r)
  BY <1>2, <1>5 DEF SaveToken, ResolveFolder, Listen, PlugPcs
<1>6. CASE Select(r) \/ Shutdown(r)
  BY <1>2, <1>6 DEF Select, Shutdown, PlugPcs
<1>7. CASE Exchange(r)
  BY <1>2, <1>3, <1>7 DEF Exchange, PlugPcs
<1>8. ASSUME NEW h \in Handlers, TakeToken(r, h) \/ NoteToken(r, h) \/ KeepToken(r, h)
      PROVE  \/ plug'[r] = plug[r]
             \/ /\ plug[r].pc \notin {"none", "killed"} /\ plug'[r].pc = plug[r].pc
                /\ plug'[r].opts = plug[r].opts /\ plug'[r].path = plug[r].path
                /\ \/ plug'[r].last = plug[r].last
                   \/ Saves(r) => file' = [file EXCEPT ![plug[r].path] = Torn]
  <2>1. CASE TakeToken(r, h)
    <3>1. PICK t : plug' = [plug EXCEPT ![r].current = t]
      BY <2>1 DEF TakeToken
    <3>2. plug[r].pc \notin {"none", "killed"}
      BY <2>1 DEF TakeToken, Paired
    <3> QED
      BY <1>0, <3>1, <3>2 DEF PlugStates
  <2>2. CASE NoteToken(r, h)
    <3>1. CASE plug[r].last = held[r][h].token
      BY <2>2, <3>1 DEF NoteToken
    <3>2. CASE plug[r].last # held[r][h].token
      <4>1. /\ plug' = [plug EXCEPT ![r] = [plug[r] EXCEPT !.last = held[r][h].token,
                                                          !.latest = held[r][h].token]]
            /\ Saves(r) => file' = [file EXCEPT ![plug[r].path] = Torn]
            /\ plug[r].pc \notin {"none", "killed"}
        BY <2>2, <3>2 DEF NoteToken
      <4> QED
        BY <1>0, <4>1 DEF PlugStates
    <3> QED
      BY <3>1, <3>2
  <2>3. CASE KeepToken(r, h)
    BY <2>3 DEF KeepToken
  <2> QED
    BY <1>8, <2>1, <2>2, <2>3
<1> QED
  BY <1>1, <1>4, <1>5, <1>6, <1>7, <1>8, OthersApart DEF Plugin

(* Who writes the token file, and what. *)
LEMMA FileSteps ==
    ASSUME RememberInv, ~HasToken, [Next]_vars
    PROVE  \/ file' = file
           \/ file'[FallBack] \in Tokens
           \/ file'[FallBack] = Torn /\ config.writable /\ \E r \in Runs : Writing(r)'
<1> USE DEF RememberInv, PairedInv, TypeInv
<1>0. FallBack \in Files
  BY FallBackFile
<1>1. ASSUME NEW r \in Runs, plug[r].pc \notin {"none", "killed"}
      PROVE  plug[r].path = FallBack
  BY <1>1 DEF FileRemembers, RunFallsBack
<1>2. ASSUME NEW r \in Runs, Begin(r) \/ Main(r)
      PROVE  file' = file
  <2>1. ~WriteToken(r)
    BY DEF WriteToken, FileRemembers, RunFallsBack
  <2> QED
    BY <1>2, <2>1 DEF Begin, Main, Fatal, GetCredentials, StartPlugin, InitReturns,
                      GetUpdatedConfig, SetCredentials, Kill
<1>3. ASSUME NEW r \in Runs, SaveToken(r)
      PROVE  \/ file' = file
             \/ file'[FallBack] \in Tokens
             \/ file'[FallBack] = Torn /\ config.writable /\ Writing(r)'
  <2>1. plug[r].path = FallBack /\ plug[r].latest \in Tokens /\ plug[r].pc = "save"
    BY <1>1, <1>3 DEF SaveToken, Paired, PlugStates, MaybeToken
  <2>2. \/ Saves(r) /\ file' = [file EXCEPT ![FallBack] = Torn] /\ plug' = plug
        \/ file' = [file EXCEPT ![FallBack] = plug[r].latest]
        \/ file' = file
    BY <1>3, <2>1 DEF SaveToken
  <2> QED
    BY <1>0, <2>1, <2>2 DEF Saves, Writing
<1>4. ASSUME NEW r \in Runs, Plugin(r)
      PROVE  file' = file \/ SaveToken(r)
  BY <1>4 DEF Plugin, LoadToken, ResolveFolder, Listen, Select, Shutdown, Exchange
<1>5. ASSUME NEW r \in Runs, NEW h \in Handlers, NoteToken(r, h)
      PROVE  \/ file' = file
             \/ file'[FallBack] = Torn /\ config.writable /\ Writing(r)'
  <2>1. plug[r].path = FallBack
    BY <1>1, <1>5 DEF NoteToken
  <2>2. CASE file' = [file EXCEPT ![plug[r].path] = Torn] /\ Saves(r)
             /\ held' = [held EXCEPT ![r][h].saving = TRUE]
    <3>1. held'[r][h].saving
      BY <2>2 DEF HeldStates
    <3> QED
      BY <1>0, <2>1, <2>2, <3>1 DEF Writing, Saves
  <2> QED
    BY <1>5, <2>2 DEF NoteToken
<1>6. ASSUME NEW r \in Runs, NEW h \in Handlers, KeepToken(r, h)
      PROVE  file'[FallBack] \in Tokens
  <2>1. held[r][h].saving /\ held[r][h].token \in Tokens
    BY <1>6 DEF KeepToken, Paired, HeldStates, MaybeToken
  <2>2. plug[r].pc \notin {"none", "killed"}
    BY <1>6, <2>1, ReleasedIdle DEF KeepToken, Paired
  <2> QED
    BY <1>0, <1>1, <1>6, <2>1, <2>2 DEF KeepToken
<1>7. ASSUME NEW r \in Runs, NEW h \in Handlers, TakeToken(r, h)
      PROVE  file' = file
  BY <1>7 DEF TakeToken
<1>8. ASSUME NEW r \in Runs, Paste(r) \/ \E c \in Callbacks : Callback(r, c)
      PROVE  file' = file
  BY <1>8 DEF Paste, Callback
<1> QED
  BY <1>2, <1>3, <1>4, <1>5, <1>6, <1>7, <1>8 DEF Next, Handler, EditItem, vars

(* Whoever is about to write the file goes on to, has, or was killed. *)
LEMMA WritingStays ==
    ASSUME RememberInv, ~HasToken, config.writable, [Next]_vars, NEW r \in Runs, Writing(r)
    PROVE  Writing(r)' \/ file'[FallBack] \in Tokens
<1> USE DEF RememberInv, PairedInv, TypeInv
<1>0. FallBack \in Files /\ FallBack # None
  BY FallBackFile
<1>1. plug[r].pc # "none"
  BY ReleasedIdle DEF Writing, Paired
<1>2. Saves(r) /\ plug[r].path = FallBack
  BY <1>0, <1>1 DEF Saves, FileRemembers, RunFallsBack
<1>3. CASE plug'[r] = plug[r] /\ held'[r] = held[r]
  BY <1>3 DEF Writing
<1>4. CASE Begin(r) \/ Main(r)
  <2>1. ~StartPlugin(r)
    BY <1>1 DEF StartPlugin, Paired, NoPlugin
  <2>2. CASE Kill(r)
    <3>1. \A h \in Handlers : held[r][h].saving => held'[r][h].saving
      BY <2>2 DEF Kill
    <3>2. plug[r].pc = "ready"
      BY <2>2 DEF Kill, Paired, Calls
    <3> QED
      BY <3>1, <3>2 DEF Writing
  <2> QED
    BY <1>3, <1>4, <2>1, <2>2
       DEF Begin, Main, Fatal, GetCredentials, WriteToken, InitReturns, GetUpdatedConfig,
           SetCredentials
<1>5. CASE Plugin(r)
  <2>1. CASE SaveToken(r)
    <3>1. \/ plug' = plug /\ held' = held
          \/ file' = [file EXCEPT ![FallBack] = plug[r].latest] /\ plug[r].pc = "save"
      BY <1>2, <2>1 DEF SaveToken
    <3>2. plug[r].pc = "save" => plug[r].latest \in Tokens
      BY DEF Paired, PlugStates, MaybeToken
    <3> QED
      BY <1>0, <1>3, <3>1, <3>2
  <2>2. CASE ~SaveToken(r)
    <3>1. held'[r] = held[r] /\ (plug[r].pc = "save" => plug'[r] = plug[r])
      BY <1>5, <2>2 DEF Plugin, LoadToken, ResolveFolder, Listen, Select, Shutdown, Exchange
    <3> QED
      BY <3>1 DEF Writing
  <2> QED
    BY <2>1, <2>2
<1>6. ASSUME NEW h \in Handlers, KeepToken(r, h)
      PROVE  file'[FallBack] \in Tokens
  <2>1. held[r][h].token \in Tokens
    BY <1>6 DEF KeepToken, Paired, HeldStates, MaybeToken
  <2> QED
    BY <1>0, <1>2, <1>6, <2>1 DEF KeepToken
<1>7. ASSUME NEW h \in Handlers, TakeToken(r, h) \/ NoteToken(r, h)
      PROVE  Writing(r)'
  <2>0. plug[r] \in PlugStates /\ held[r] \in [Handlers -> HeldStates]
    OBVIOUS
  <2>1. plug'[r].pc = plug[r].pc
    <3>1. CASE TakeToken(r, h)
      <4>1. PICK t : plug' = [plug EXCEPT ![r].current = t]
        BY <3>1 DEF TakeToken
      <4> QED
        BY <2>0, <4>1 DEF PlugStates
    <3>2. CASE NoteToken(r, h)
      <4>1. \/ plug' = plug
            \/ plug' = [plug EXCEPT ![r] = [plug[r] EXCEPT
                           !.last = held[r][h].token, !.latest = held[r][h].token]]
        BY <3>2 DEF NoteToken
      <4>2. [plug[r] EXCEPT !.last = held[r][h].token, !.latest = held[r][h].token].pc =
                plug[r].pc
        BY <2>0 DEF PlugStates
      <4> QED
        BY <2>0, <4>1, <4>2
    <3> QED
      BY <1>7, <3>1, <3>2
  <2>2. ASSUME NEW k \in Handlers, held[r][k].saving
        PROVE  TakeToken(r, h) /\ held'[r][k].saving
    <3>1. TakeToken(r, h) /\ k # h
      BY <1>7, <2>2 DEF TakeToken, NoteToken, Paired
    <3>2. PICK t : held' = [held EXCEPT ![r][h].token = t]
      BY <3>1 DEF TakeToken
    <3>3. held'[r][k] = held[r][k]
      BY <2>0, <3>1, <3>2
    <3> QED
      BY <2>2, <3>1, <3>3
  <2> QED
    BY <2>1, <2>2 DEF Writing
<1> QED
  BY <1>3, <1>4, <1>5, <1>6, <1>7, OthersApart

LEMMA RunFallsBackStep ==
    ASSUME RememberInv, [Next]_vars, ~HasToken', NEW r \in Runs
    PROVE  RunFallsBack(r)'
<1> USE DEF RememberInv
<1>0. ~HasToken /\ OptsToken(Creds) = None /\ RunFallsBack(r)
  BY TokenStays, NoTokenRead DEF FileRemembers, PairedInv
<1>1. TokenPath' = TokenPath /\ FallBack' = FallBack /\ config' = config
  BY ConfigKept DEF TokenPath, FallBack
<1>2. \A creds : OptsToken(creds)' = OptsToken(creds)
  BY DEF OptsToken
<1>3. /\ run'[r].pc # "write"
      /\ run'[r].pc \notin {"sync", "kill"} => OptsToken(run'[r].creds) = None
      /\ run'[r].pc \in {"start", "init", "work"} => run'[r].path = TokenPath
  BY <1>0, RunSteps DEF RunFallsBack, OptsToken
<1>4. plug'[r].pc # "none" => plug'[r].opts = None /\ plug'[r].path = FallBack
  <2>1. CASE StartPlugin(r)
    <3>1. plug'[r].opts = OptsToken(run[r].creds) /\ plug'[r].path = PluginPath(r)
      BY <2>1 DEF StartPlugin, NoPlugin, PairedInv, TypeInv
    <3>2. run[r].path = TokenPath /\ OptsToken(run[r].creds) = None
      BY <1>0, <2>1 DEF StartPlugin, RunFallsBack
    <3> QED
      BY <1>0, <3>1, <3>2 DEF RunFallsBack, PluginPath, FallBack
  <2> QED
    BY <1>0, <2>1, PlugSteps DEF RunFallsBack
<1>5. config.writable /\ (plug'[r].last # None \/ plug'[r].pc \in {"ready", "killed"}) =>
          file'[FallBack] # None
  <2> SUFFICES ASSUME config.writable, plug'[r].last # None \/ plug'[r].pc \in {"ready", "killed"}
               PROVE  file'[FallBack] # None
    OBVIOUS
  <2>1. FallBack \in Files /\ FallBack # None
    BY FallBackFile DEF PairedInv
  <2>2. file[FallBack] # None => file'[FallBack] # None
    <3>1. \/ file' = file \/ file'[FallBack] \in Tokens \/ file'[FallBack] = Torn
      BY <1>0, FileSteps
    <3>2. None \notin Tokens
      BY DistinctAssumption DEF Tokens
    <3> QED
      BY <3>1, <3>2, DistinctAssumption
  <2>3. ~StartPlugin(r)
    <3> SUFFICES ASSUME StartPlugin(r)
                 PROVE  FALSE
      OBVIOUS
    <3>1. plug'[r] = [NoPlugin EXCEPT
              !.pc = "load", !.opts = OptsToken(run[r].creds), !.path = PluginPath(r)]
      BY DEF StartPlugin, PairedInv, TypeInv
    <3> QED
      BY <3>1 DEF NoPlugin
  <2>4. CASE plug[r].last # None \/ plug[r].pc \in {"ready", "killed"}
    BY <1>0, <2>2, <2>4 DEF RunFallsBack
  <2>5. CASE plug[r].pc \notin {"none", "killed"} /\ (Saves(r) => file' = [file EXCEPT ![plug[r].path] = Torn])
    <3>1. plug[r].path = FallBack /\ Saves(r)
      BY <1>0, <2>1, <2>5 DEF RunFallsBack, Saves
    <3> QED
      BY <2>1, <2>5, <3>1, DistinctAssumption DEF PairedInv, TypeInv
  <2> QED
    BY <2>3, <2>4, <2>5, PlugSteps
<1> QED
  BY <1>1, <1>2, <1>3, <1>4, <1>5 DEF RunFallsBack

LEMMA RememberStep == RememberInv /\ [Next]_vars => RememberInv'
<1> SUFFICES ASSUME RememberInv, [Next]_vars
             PROVE  RememberInv'
  OBVIOUS
<1> USE DEF RememberInv
<1>1. PairedInv' /\ config' = config
  BY PairedStep, ConfigKept
<1>2. (config.cred = "none" => vault = None /\ \A r \in Runs : run[r].creds = None)'
  <2> SUFFICES ASSUME config.cred = "none"
               PROVE  vault' = None /\ \A r \in Runs : run'[r].creds = None
    BY <1>1
  <2>1. vault' = None
    BY ItemSteps DEF EditItem
  <2>2. Creds = None
    BY DEF Creds
  <2> QED
    BY <2>1, <2>2, RunSteps
<1>3. ASSUME ~HasToken'
      PROVE  FileRemembers'
  <2>1. ~HasToken /\ FallBack' = FallBack
    BY <1>1, <1>3, TokenStays DEF FallBack, TokenPath
  <2>2. \A r \in Runs : RunFallsBack(r)'
    BY <1>3, RunFallsBackStep
  <2>3. file'[FallBack] = Torn => config.writable /\ \E r \in Runs : Writing(r)'
    BY <2>1, FileSteps, WritingStays, SomeToken DEF FileRemembers
  <2> QED
    BY <1>1, <2>1, <2>2, <2>3 DEF FileRemembers
<1> QED
  BY <1>1, <1>2, <1>3

LEMMA RememberInit == Init => RememberInv
<1> SUFFICES ASSUME Init
             PROVE  RememberInv
  OBVIOUS
<1>1. PairedInv
  BY PairedInit
<1>2. FallBack \in Files
  BY <1>1, FallBackFile DEF PairedInv
<1>3. FileRemembers
  BY <1>2, DistinctAssumption
     DEF Init, FileRemembers, RunFallsBack, NoPlugin, OptsToken
<1> QED
  BY <1>1, <1>3 DEF Init, RememberInv

(***************************************************************************)
(* A token that a plugin had is found again by the next run with the same  *)
(* options, in the item or in the file, whatever was cut short; unless no  *)
(* item has one and a plugin was killed while it wrote the file.           *)
(***************************************************************************)
THEOREM AlwaysRemembered == Spec => []Remembered
<1>1. RememberInv => Remembered
  <2> SUFFICES ASSUME RememberInv, Settled, config.writable
               PROVE  \/ Loaded(OptsToken(Creds), IF OptsToken(Creds) = None
                                                  THEN FallBack ELSE TokenPath) # None
                      \/ OptsToken(Creds) = None /\ CutShort
    BY DEF Remembered
  <2>1. CASE HasToken
    <3>1. OptsToken(Creds) # None
      <4>1. vault \in Items /\ vault # None /\ vault.token # None /\ config.cred # "none"
        BY <2>1 DEF HasToken, RememberInv, PairedInv, TypeInv
      <4>2. Strings(vault) \in Items /\ Strings(vault).token = vault.token
        BY <4>1, StringsType
      <4>3. Strings(vault) # NoItem /\ Strings(vault) # None
        BY <4>1, <4>2, ItemsAssumption DEF NoItem
      <4>4. Creds = Strings(vault)
        BY <4>1, <4>3 DEF Creds
      <4> QED
        BY <4>1, <4>2, <4>3, <4>4 DEF OptsToken
    <3> QED
      BY <3>1 DEF Loaded
  <2>2. CASE ~HasToken
    <3>1. FileRemembers /\ OptsToken(Creds) = None
      BY <2>2, NoTokenRead DEF RememberInv, PairedInv
    <3>2. FallBack # None
      BY FallBackFile DEF RememberInv, PairedInv
    <3>3. file[FallBack] # None
      BY <3>1 DEF Settled, FileRemembers, RunFallsBack
    <3>4. CASE file[FallBack] # Torn
      BY <3>1, <3>2, <3>3, <3>4 DEF Loaded
    <3>5. CASE file[FallBack] = Torn
      <4>1. PICK r \in Runs : Writing(r)
        BY <3>1, <3>5 DEF FileRemembers
      <4>2. plug[r].pc = "killed" /\ plug[r].path = FallBack
        BY <3>1, <4>1 DEF Settled, FileRemembers, RunFallsBack
      <4> QED
        BY <3>1, <3>5, <4>1, <4>2 DEF CutShort
    <3> QED
      BY <3>4, <3>5
  <2> QED
    BY <2>1, <2>2
<1> QED
  BY <1>1, RememberInit, RememberStep, PTL DEF Spec

=============================================================================
