---------------------------- MODULE PluginSession ----------------------------
(***************************************************************************)
(* A run of the program and its Google Drive plugin, from initPlugin to    *)
(* the function it returns: the credentials are fetched, the plugin is     *)
(* started and finds or asks for a token, tokens are refreshed while the   *)
(* commands work, and the newest is given back to the credential plugin.   *)
(* Several runs share the credential item, the token file and the port of  *)
(* the browser callback.  A run that log.Fatalf ends kills no plugin; one  *)
(* that returns kills its plugin, although the handlers of calls that were *)
(* given up on may still be at work.                                       *)
(*                                                                         *)
(* Tokens are numbered in the order Google issues them.  A definition with *)
(* an underscore in its name is a wrong version of the one before the      *)
(* underscore.                                                             *)
(***************************************************************************)
EXTENDS Naturals, FiniteSets

CONSTANTS
    Runs,       \* runs of the program, each with a plugin process of its own
    Handlers,   \* calls that use the token at a time
    Callbacks,  \* requests that a browser may make to one plugin
    MaxTokens,  \* bound: tokens issued
    MaxEdits,   \* bound: edits of the credential item
    Faults,     \* failures that may happen: a subset of FaultKinds
    None, Torn

FaultKinds == {"fatal", "credentials", "sync", "folder"}

ASSUME FaultsAssumption == Faults \subseteq FaultKinds
ASSUME BoundsAssumption == MaxTokens \in Nat \ {0} /\ MaxEdits \in Nat
ASSUME DistinctAssumption == None \notin Nat /\ Torn \notin Nat /\ None # Torn

VARIABLES
    config, \* how the program is called: credential plugin, token_path,
            \* and whether a token file can be written
    vault,  \* the credential item
    file,   \* the token files
    issued, \* the newest token
    run,    \* of each run: where it is, originalCreds, what it passes to Init
    plug,   \* of each plugin process: where it is, and its tokens
    auth,   \* of each plugin process: getInteractiveToken
    held,   \* of each handler: the token it is about to save
    edits   \* history: the edits of the item, and whether one came during a run

vars == <<config, vault, file, issued, run, plug, auth, held, edits>>

Tokens == 1 .. MaxTokens
Files == {"default", "given"}
Configs ==
    [cred : {"none", "keychain", "bitwarden"}, path : {"given", None}, writable : BOOLEAN]

(* An item has a token, and the client id and secret that the plugin uses    *)
(* (client); of what else the user keeps in it, there are values that are   *)
(* JSON strings (text, numbered by the edits) and others (rest).            *)
Items == [token : Tokens \cup {None}, client : BOOLEAN,
          text : 0 .. MaxEdits \cup {None}, rest : BOOLEAN]

(* No item is told from an item, and no path from a path. *)
ASSUME ItemsAssumption == None \notin Items /\ None \notin Files

NoItem == [token |-> None, client |-> FALSE, text |-> None, rest |-> FALSE]
NoPlugin == [pc |-> "none", opts |-> None, path |-> None,
             latest |-> None, current |-> None, last |-> None]
NoAuth == [listener |-> "none", callback |-> [c \in Callbacks |-> "none"],
           pasted |-> "none", code |-> "none"]

Released == [token |-> None, saving |-> FALSE] \* a handler that has no token

TypeOK ==
    /\ config \in Configs
    /\ vault \in Items \cup {None}
    /\ file \in [Files -> Tokens \cup {None, Torn}]
    /\ issued \in 0 .. MaxTokens
    /\ \A r \in Runs :
          /\ run[r].pc \in {"idle", "fetch", "write", "start", "init", "work", "sync",
                        "kill", "done", "fatal", "aborted"}
          /\ run[r].creds \in Items \cup {None}
          /\ run[r].path \in Files \cup {None}
          /\ plug[r].pc \in {"none", "load", "select", "shutdown", "exchange", "save",
                             "folder", "ready", "failed", "killed"}
          /\ plug[r].path \in Files \cup {None}
          /\ {plug[r].opts, plug[r].latest, plug[r].current, plug[r].last} \subseteq Tokens \cup {None}
          /\ auth[r].listener \in {"none", "open", "failed", "closed"}
          /\ auth[r].callback \in [Callbacks -> {"none", "code", "error", "done"}]
          /\ auth[r].pasted \in {"none", "code", "taken"}
          /\ auth[r].code \in {"none", "code", "error"}
    /\ held \in [Runs -> [Handlers -> [token : Tokens \cup {None}, saving : BOOLEAN]]]

Init ==
    /\ config \in Configs
    /\ \/ config.cred = "none" /\ vault = None /\ issued = 0
       \/ config.cred # "none" /\ vault \in {None, [NoItem EXCEPT !.rest = TRUE]} /\ issued = 0
       \/ /\ config.cred # "none"
          /\ vault = [token |-> None, client |-> TRUE, text |-> 0, rest |-> TRUE]
          /\ issued = 0
       \/ /\ config.cred # "none"
          /\ \E c \in BOOLEAN : vault = [token |-> 1, client |-> c, text |-> 0, rest |-> TRUE]
          /\ issued = 1
    /\ file = [f \in Files |-> None]
    /\ run = [r \in Runs |-> [pc |-> "idle", creds |-> None, path |-> None]]
    /\ plug = [r \in Runs |-> NoPlugin]
    /\ auth = [r \in Runs |-> NoAuth]
    /\ held = [r \in Runs |-> [h \in Handlers |-> Released]]
    /\ edits = [number |-> 0, during |-> FALSE]

RunGoes(r, l) == run' = [run EXCEPT ![r].pc = l]
RunEnds(r, l) == run' = [run EXCEPT ![r] = [pc |-> l, creds |-> None, path |-> None]]
PlugGoes(r, l) == plug' = [plug EXCEPT ![r].pc = l]

(* The commands work with the plugin, or it is prepared or cleaned up.      *)
Active(r) == run[r].pc \notin {"idle", "done", "fatal", "aborted"}

(* Handlers may be at work, of calls that run or that nobody waits for.     *)
Calls(r) == run[r].pc \in {"work", "sync", "kill", "aborted"}

-----------------------------------------------------------------------------
(* initPlugin *)

(* log.Fatalf, or the user interrupts the program: nothing is cleaned up,   *)
(* and the plugin, which ignores interrupts, goes on.                       *)
Fatal(r) ==
    /\ \/ run[r].pc = "init"  \* after its deadline, or its error
       \/ run[r].pc \in {"write", "start", "work", "sync", "kill"} /\ "fatal" \in Faults
    /\ RunEnds(r, IF Calls(r) THEN "aborted" ELSE "fatal")
    /\ UNCHANGED <<config, vault, file, issued, plug, auth, held, edits>>

Begin(r) ==
    /\ run[r].pc = "idle"
    /\ RunGoes(r, "fetch")
    /\ UNCHANGED <<config, vault, file, issued, plug, auth, held, edits>>

(* GetCredentials of the plugins: values that are no strings are dropped. *)
Strings(item) == [item EXCEPT !.rest = FALSE]

(* A missing item is as good as an empty one, but an empty map arrives as   *)
(* nil from gRPC.                                                           *)
Creds ==
    IF config.cred = "none" THEN None
    ELSE IF vault = None THEN NoItem
    ELSE IF Strings(vault) = NoItem THEN None
    ELSE Strings(vault)

(* The token that the item gives to the options. *)
OptsToken(creds) == IF creds = None THEN None ELSE creds.token

(* Only without a credential plugin is there always a token file. *)
TokenPath ==
    IF config.path # None THEN config.path
    ELSE IF config.cred = "none" THEN "default"
    ELSE None

GetCredentials(r) ==
    /\ run[r].pc = "fetch"
    /\ \/ run' = [run EXCEPT ![r] =
             [pc |-> IF TokenPath # None /\ OptsToken(Creds) # None
                     THEN "write" ELSE "start",
              creds |-> Creds, path |-> TokenPath]]
       \/ "credentials" \in Faults /\ config.cred # "none" /\ RunEnds(r, "fatal")
    /\ UNCHANGED <<config, vault, file, issued, plug, auth, held, edits>>

(* The token of the item goes to the file: truncated, then written; an      *)
(* error is lost.                                                           *)
WriteToken(r) ==
    LET f == run[r].path IN
    /\ run[r].pc = "write"
    /\ \/ /\ config.writable /\ file[f] # Torn
          /\ file' = [file EXCEPT ![f] = Torn]
          /\ UNCHANGED run
       \/ /\ IF config.writable
             THEN file' = [file EXCEPT ![f] = OptsToken(run[r].creds)]
             ELSE UNCHANGED file
          /\ RunGoes(r, "start")
    /\ UNCHANGED <<config, vault, issued, plug, auth, held, edits>>

(* Without a token and a path, the plugin has no file. *)
PluginPath_AsGiven(r) == run[r].path

PluginPath(r) ==
    IF run[r].path = None /\ OptsToken(run[r].creds) = None THEN "default" ELSE run[r].path

StartPlugin(r) ==
    /\ run[r].pc = "start"
    /\ RunGoes(r, "init")
    /\ plug' = [plug EXCEPT ![r] = [NoPlugin EXCEPT
          !.pc = "load", !.opts = OptsToken(run[r].creds), !.path = PluginPath(r)]]
    /\ UNCHANGED <<config, vault, file, issued, auth, held, edits>>

InitReturns(r) ==
    /\ run[r].pc = "init"
    /\ plug[r].pc = "ready"
    /\ RunGoes(r, "work")
    /\ UNCHANGED <<config, vault, file, issued, plug, auth, held, edits>>

-----------------------------------------------------------------------------
(* GDProvider.Init, loadToken, saveToken *)

(* The newest token the plugin knows; what it refreshes; what it last saved. *)
Adopt(r, t, l) ==
    plug' = [plug EXCEPT ![r] = [@ EXCEPT !.pc = l, !.latest = t, !.current = t]]

(* The error of reading the file is lost. *)
Loaded_Unchecked(optsToken, path) ==
    IF optsToken # None THEN optsToken ELSE IF path = None THEN None ELSE file[path]

(* What a run would load: the token of the options goes before the file.    *)
Loaded(optsToken, path) ==
    IF optsToken # None THEN optsToken
    ELSE IF path = None \/ file[path] = Torn THEN None
    ELSE file[path]

LoadToken(r) ==
    /\ plug[r].pc = "load"
    /\ LET t == Loaded(plug[r].opts, plug[r].path) IN
       IF t # None THEN Adopt(r, t, "folder") ELSE PlugGoes(r, "select")
    /\ UNCHANGED <<config, vault, file, issued, run, auth, held, edits>>

Saves(r) == plug[r].path # None /\ config.writable

(* The file is truncated, then written; an error is only logged. *)
SaveToken(r) ==
    LET f == plug[r].path IN
    /\ plug[r].pc = "save"
    /\ \/ /\ Saves(r) /\ file[f] # Torn
          /\ file' = [file EXCEPT ![f] = Torn]
          /\ UNCHANGED plug
       \/ /\ IF Saves(r) THEN file' = [file EXCEPT ![f] = plug[r].latest] ELSE UNCHANGED file
          /\ PlugGoes(r, "folder")
    /\ UNCHANGED <<config, vault, issued, run, auth, held, edits>>

(* The requests for the folder have taken a token. *)
ResolveFolder(r) ==
    /\ plug[r].pc = "folder"
    /\ \A h \in Handlers : held[r][h] = Released
    /\ \/ plug[r].last # None /\ PlugGoes(r, "ready")
       \/ "folder" \in Faults /\ PlugGoes(r, "failed")
    /\ UNCHANGED <<config, vault, file, issued, run, auth, held, edits>>

-----------------------------------------------------------------------------
(* getInteractiveToken *)

(* The goroutine of the server: one process at a time has the port, and an  *)
(* error waits in errChan.                                                  *)
Listen(r) ==
    /\ plug[r].pc \in {"select", "shutdown"}
    /\ auth[r].listener = "none"
    /\ auth' = [auth EXCEPT ![r].listener =
          IF plug[r].pc # "select" THEN "closed"
          ELSE IF \E q \in Runs : auth[q].listener = "open" THEN "failed"
          ELSE "open"]
    /\ UNCHANGED <<config, vault, file, issued, run, plug, held, edits>>

(* The browser is sent to the callback, with a code or without; the handler *)
(* blocks until somebody receives.                                          *)
Callback(r, c) ==
    /\ auth[r].listener = "open"
    /\ auth[r].callback[c] = "none"
    /\ \E kind \in {"code", "error"} : auth' = [auth EXCEPT ![r].callback[c] = kind]
    /\ UNCHANGED <<config, vault, file, issued, run, plug, held, edits>>

(* The fallback reader: what the user types, or nothing where there is no   *)
(* terminal.                                                                *)
Paste(r) ==
    /\ plug[r].pc = "select"
    /\ auth[r].pasted = "none"
    /\ auth' = [auth EXCEPT ![r].pasted = "code"]
    /\ UNCHANGED <<config, vault, file, issued, run, plug, held, edits>>

(* The listener stays open until the handlers have ended. *)
Closing_Late(a) == a

(* Shutdown closes the listener before it waits. *)
Closing(a) == [a EXCEPT !.listener = IF @ = "open" THEN "closed" ELSE @]

(* select: a code, an error, or the end of five minutes. *)
Select(r) ==
    LET a == auth[r] IN
    /\ plug[r].pc = "select"
    /\ \/ \E c \in Callbacks :
             /\ a.callback[c] \in {"code", "error"}
             /\ auth' = [auth EXCEPT ![r] = Closing([a EXCEPT
                   !.callback[c] = "done",
                   !.code = a.callback[c]])]
       \/ /\ a.pasted = "code"
          /\ auth' = [auth EXCEPT ![r] = Closing([a EXCEPT !.pasted = "taken", !.code = "code"])]
       \/ /\ a.listener = "failed"
          /\ auth' = [auth EXCEPT ![r] = Closing([a EXCEPT !.listener = "closed", !.code = "error"])]
       \/ auth' = [auth EXCEPT ![r] = Closing([a EXCEPT !.code = "error"])]
    /\ PlugGoes(r, "shutdown")
    /\ UNCHANGED <<config, vault, file, issued, run, held, edits>>

(* Shutdown waits for the handlers that are still running. *)
Shutdown(r) ==
    /\ plug[r].pc = "shutdown"
    /\ \A c \in Callbacks : auth[r].callback[c] \in {"none", "done"}
    /\ auth' = [auth EXCEPT ![r] = [NoAuth EXCEPT !.listener = "closed", !.code = auth[r].code]]
    /\ PlugGoes(r, IF auth[r].code = "error" THEN "failed" ELSE "exchange")
    /\ UNCHANGED <<config, vault, file, issued, run, held, edits>>

(* Google refuses a code that is wrong or empty. *)
Exchange(r) ==
    /\ plug[r].pc = "exchange"
    /\ \/ /\ issued < MaxTokens
          /\ issued' = issued + 1
          /\ Adopt(r, issued + 1, "save")
       \/ PlugGoes(r, "failed") /\ UNCHANGED issued
    /\ UNCHANGED <<config, vault, file, run, auth, held, edits>>

-----------------------------------------------------------------------------
(* savingTokenSource.Token, in a handler *)

(* The token source gives the token it has, or a new one when that has      *)
(* expired.                                                                 *)
TakeToken(r, h) ==
    /\ plug[r].pc = "folder" \/ (Calls(r) /\ plug[r].pc = "ready")
    /\ held[r][h].token = None
    /\ \E t \in {plug[r].current} \cup (IF issued < MaxTokens THEN {issued + 1} ELSE {}) :
          /\ held' = [held EXCEPT ![r][h].token = t]
          /\ plug' = [plug EXCEPT ![r].current = t]
          /\ issued' = IF t > issued THEN t ELSE issued
    /\ UNCHANGED <<config, vault, file, run, auth, edits>>

(* Under the mutex, a token that differs from the last one is the latest... *)
NoteToken(r, h) ==
    LET t == held[r][h].token IN
    /\ plug[r].pc \notin {"none", "killed"}
    /\ t # None
    /\ \A k \in Handlers : ~held[r][k].saving
    /\ IF plug[r].last = t
       THEN held' = [held EXCEPT ![r][h] = Released] /\ UNCHANGED <<plug, file>>
       ELSE /\ plug' = [plug EXCEPT ![r] = [@ EXCEPT !.last = t, !.latest = t]]
            /\ IF ~Saves(r)
               THEN held' = [held EXCEPT ![r][h] = Released] /\ UNCHANGED file
               ELSE /\ held' = [held EXCEPT ![r][h].saving = TRUE]
                    /\ file' = [file EXCEPT ![plug[r].path] = Torn]
    /\ UNCHANGED <<config, vault, issued, run, auth, edits>>

(* ... and is written to the file. *)
KeepToken(r, h) ==
    /\ plug[r].pc # "killed"
    /\ held[r][h].saving
    /\ file' = [file EXCEPT ![plug[r].path] = held[r][h].token]
    /\ held' = [held EXCEPT ![r][h] = Released]
    /\ UNCHANGED <<config, vault, issued, run, plug, auth, edits>>

-----------------------------------------------------------------------------
(* The function that initPlugin returns *)

(* Only what the plugin knows is given back. *)
Updated_TokenOnly(r) == [NoItem EXCEPT !.token = plug[r].latest, !.client = TRUE]

(* originalCreds, with GetUpdatedConfig over them. *)
Updated(r) == [run[r].creds EXCEPT !.token = plug[r].latest, !.client = TRUE]

(* originalCreds is not nil, and GetUpdatedConfig differs from it.          *)
Changed(r) ==
    run[r].creds # None /\ (run[r].creds.token # plug[r].latest \/ ~run[r].creds.client)

(* The command has returned; an error of the call is lost. *)
GetUpdatedConfig(r) ==
    /\ run[r].pc = "work"
    /\ \/ Changed(r) /\ run' = [run EXCEPT ![r].pc = "sync", ![r].creds = Updated(r)]
       \/ (~Changed(r) \/ "sync" \in Faults) /\ RunGoes(r, "kill")
    /\ UNCHANGED <<config, vault, file, issued, plug, auth, held, edits>>

(* Keychain replaces the item, Bitwarden refuses to be updated, and an      *)
(* error is only logged.                                                    *)
SetCredentials(r) ==
    /\ run[r].pc = "sync"
    /\ \/ config.cred = "keychain" /\ vault' = run[r].creds
       \/ (config.cred = "bitwarden" \/ "sync" \in Faults) /\ UNCHANGED vault
    /\ RunGoes(r, "kill")
    /\ UNCHANGED <<config, file, issued, plug, auth, held, edits>>

(* Nobody waits for the handlers: a file that one of them is writing stays  *)
(* as it is (its saving remains as a history of that).                      *)
Kill(r) ==
    /\ run[r].pc = "kill"
    /\ RunEnds(r, "done")
    /\ plug' = [plug EXCEPT ![r] = [NoPlugin EXCEPT !.pc = "killed", !.path = plug[r].path]]
    /\ held' = [held EXCEPT ![r] =
          [h \in Handlers |-> IF held[r][h].saving THEN held[r][h] ELSE Released]]
    /\ UNCHANGED <<config, vault, file, issued, auth, edits>>

(* The user changes the item, not its token. *)
EditItem ==
    /\ config.cred # "none"
    /\ vault # None /\ vault # NoItem
    /\ vault.text \in 0 .. MaxEdits - 1
    /\ vault' = [vault EXCEPT !.text = @ + 1]
    /\ edits' = [number |-> edits.number + 1,
                 during |-> edits.during \/ \E r \in Runs : Active(r)]
    /\ UNCHANGED <<config, file, issued, run, plug, auth, held>>

-----------------------------------------------------------------------------
Main(r) ==
    \/ Fatal(r) \/ GetCredentials(r) \/ WriteToken(r) \/ StartPlugin(r)
    \/ InitReturns(r) \/ GetUpdatedConfig(r) \/ SetCredentials(r) \/ Kill(r)

Plugin(r) ==
    \/ LoadToken(r) \/ SaveToken(r) \/ ResolveFolder(r)
    \/ Listen(r) \/ Select(r) \/ Shutdown(r) \/ Exchange(r)

Handler(r) == \E h \in Handlers : NoteToken(r, h) \/ KeepToken(r, h)

Next ==
    \/ \E r \in Runs :
          \/ Begin(r) \/ Main(r) \/ Plugin(r) \/ Handler(r) \/ Paste(r)
          \/ \E c \in Callbacks : Callback(r, c)
          \/ \E h \in Handlers : TakeToken(r, h)
    \/ EditItem

Spec == Init /\ [][Next]_vars

(* The authorization has a timeout, and requests to Google end.  Nothing    *)
(* makes the user answer, or a browser call.                                *)
FairSpec == Spec /\ \A r \in Runs : WF_vars(Plugin(r))

-----------------------------------------------------------------------------
(***************************************************************************)
(* Once a plugin had a token, a later run with the same options finds one  *)
(* without asking the user: in the item, or in the file that it falls back *)
(* to (if that can be written), whether runs are cut short by log.Fatalf   *)
(* or the user, the item is refused by Bitwarden, or the command gave up   *)
(* and the authorization went on.  Only one thing loses the token: the     *)
(* item has none, and a plugin was killed between the truncation of the    *)
(* file and the write.                                                     *)
(***************************************************************************)
Writing(r) == plug[r].pc = "save" \/ \E h \in Handlers : held[r][h].saving

Settled ==
    /\ \E r \in Runs : plug[r].pc \in {"ready", "killed"}
    /\ \A r \in Runs : run[r].pc # "write" /\ (Writing(r) => plug[r].pc = "killed")

FallBack == IF TokenPath # None THEN TokenPath ELSE "default"

CutShort ==
    /\ file[FallBack] = Torn
    /\ \E r \in Runs : plug[r].pc = "killed" /\ plug[r].path = FallBack /\ Writing(r)

Remembered ==
    Settled /\ config.writable =>
        \/ Loaded(OptsToken(Creds), IF OptsToken(Creds) = None THEN FallBack ELSE TokenPath) # None
        \/ OptsToken(Creds) = None /\ CutShort

(***************************************************************************)
(* Giving the token back keeps the strings that the user has in the item,  *)
(* unless the user changed them in the middle of a run.  Other values it   *)
(* erases.                                                                 *)
(***************************************************************************)
EditsKept == edits.number > 0 /\ ~edits.during => vault.text = edits.number

(***************************************************************************)
(* The port of the callback, which every run needs for its authorization,  *)
(* is given back, also by a plugin whose command has given up on it.       *)
(***************************************************************************)
PortFreed == \A r \in Runs : auth[r].listener = "open" ~> auth[r].listener # "open"

(***************************************************************************)
(* "authorization timed out after 5 minutes": an authorization ends, with  *)
(* a token or with an error.                                               *)
(***************************************************************************)
AuthorizationEnds ==
    \A r \in Runs : plug[r].pc = "select" ~> plug[r].pc \in {"save", "folder", "failed"}

=============================================================================
