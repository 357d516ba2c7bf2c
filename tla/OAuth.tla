-------------------------------- MODULE OAuth --------------------------------
(***************************************************************************)
(* The authorization server (internal/oauth): the signing key of access    *)
(* tokens, registered clients, authorization codes and refresh tokens, and *)
(* the three files that carry the key, the clients and the refresh tokens  *)
(* from one process to the next (buildOAuthServer in server/runtime.go).   *)
(*                                                                         *)
(* Processes share one home directory and one address: a process loads the *)
(* files first and takes the address last.  Refresh tokens are numbered in *)
(* the order they are issued, which is the order they expire in, and so    *)
(* are codes.  Passwords, PKCE and redirect URIs are one bit: a code is    *)
(* presented by the right party or not.                                    *)
(***************************************************************************)
EXTENDS Integers, FiniteSets

CONSTANTS
  Starts,             \* processes; each may start again after it ended
  Preregistered,      \* the client of the configuration
  Dynamic,            \* clients that register themselves
  MaxClients,         \* MaxRegisteredClients
  MaxPendingCodes,    \* of one process
  MaxRefreshTokens,   \* of one process
  MaxKeys, MaxCodes, MaxTokens,   \* bounds: keys made, codes and tokens issued
  MaxOAuthFaults,     \* bound: file operations that fail
  MaxOAuthStops       \* bound: processes that end

ASSUME OAuthConstants ==
  /\ Preregistered \notin Dynamic
  /\ {MaxClients, MaxPendingCodes, MaxRefreshTokens} \subseteq Nat \ {0}
  /\ {MaxKeys, MaxCodes, MaxTokens, MaxOAuthFaults, MaxOAuthStops} \subseteq Nat

VARIABLES
  keyFile,       \* oauth-token-secret: the key, 0 while it is empty, NoFile
  clientsFile,   \* oauth-clients.json
  grantsFile,    \* oauth-refresh-grants.json
  server,        \* memory of each process
  registered,    \* clients that were told they are registered
  held,          \* refresh tokens a client has received and not used
  codeUses,      \* times each code was exchanged
  rotations,     \* times each token was exchanged
  keys, codes, tokens,          \* made or issued so far
  expiredCodes, expiredTokens,  \* the first so many are past their lifetime
  withdrawn,     \* a key was removed again after it could be read
  torn,          \* a save failed after the file was replaced
  overlap,       \* a process saved a file another one had loaded
  oauthFaults, oauthStops

filesVars == <<keyFile, clientsFile, grantsFile>>
clientVars == <<registered, held, codeUses, rotations>>
countVars == <<keys, codes, tokens, expiredCodes, expiredTokens>>
troubleVars == <<withdrawn, torn, overlap, oauthFaults, oauthStops>>
oauthVars == <<filesVars, server, clientVars, countVars, troubleVars>>

NoFile == -1
Clients == Dynamic \cup {Preregistered}
StartSteps == {"down", "reading", "creating", "writing", "waiting", "clients", "grants",
               "pruning", "preregistering", "binding", "serving"}
Idle == [step |-> "down", key |-> NoFile, clients |-> {}, grants |-> {}, codes |-> {}, owed |-> {}]

OAuthTypeOK ==
  /\ keyFile \in NoFile..MaxKeys /\ clientsFile \subseteq Clients /\ grantsFile \subseteq 1..MaxTokens
  /\ server \in [Starts -> [step : StartSteps, key : NoFile..MaxKeys, clients : SUBSET Clients,
                            grants : SUBSET (1..MaxTokens), codes : SUBSET (1..MaxCodes),
                            owed : SUBSET (1..MaxCodes)]]
  /\ \A s \in Starts : Cardinality(server[s].grants) <= MaxRefreshTokens
  /\ registered \subseteq Dynamic /\ held \subseteq 1..MaxTokens
  /\ codeUses \in [1..MaxCodes -> Nat] /\ rotations \in [1..MaxTokens -> Nat]
  /\ keys \in 0..MaxKeys /\ codes \in 0..MaxCodes /\ tokens \in 0..MaxTokens
  /\ expiredCodes \in 0..codes /\ expiredTokens \in 0..tokens
  /\ {withdrawn, torn, overlap} \subseteq BOOLEAN
  /\ oauthFaults \in 0..MaxOAuthFaults /\ oauthStops \in 0..MaxOAuthStops

OAuthInit ==
  /\ keyFile = NoFile /\ clientsFile = {} /\ grantsFile = {}
  /\ server = [s \in Starts |-> Idle]
  /\ registered = {} /\ held = {}
  /\ codeUses = [c \in 1..MaxCodes |-> 0] /\ rotations = [t \in 1..MaxTokens |-> 0]
  /\ keys = 0 /\ codes = 0 /\ tokens = 0 /\ expiredCodes = 0 /\ expiredTokens = 0
  /\ withdrawn = FALSE /\ torn = FALSE /\ overlap = FALSE
  /\ oauthFaults = 0 /\ oauthStops = 0

-----------------------------------------------------------------------------
\* Helpers

At(s, step) == server[s].step = step
Serving(s) == At(s, "serving")
GoesTo(s, step) == server' = [server EXCEPT ![s].step = step]
Ends(s) == server' = [server EXCEPT ![s] = Idle]

\* Processes that have loaded the clients, or the refresh tokens.
HasClients(s) == server[s].step \in {"grants", "pruning", "preregistering", "binding", "serving"}
HasGrants(s) == server[s].step \in {"pruning", "preregistering", "binding", "serving"}

FileFails ==
  /\ oauthFaults < MaxOAuthFaults /\ oauthFaults' = oauthFaults + 1

\* saveRefreshLocked of process s: a temporary file, a rename, and a chmod that
\* may fail when the file is already replaced.
SavesGrants(s, grants) ==
  /\ grantsFile' = grants
  /\ overlap' = (overlap \/ \E o \in Starts \ {s} : HasGrants(o))
  /\ UNCHANGED <<torn, oauthFaults>>
SaveOfGrantsFails(s, grants) ==
  /\ FileFails
  /\ \/ UNCHANGED <<grantsFile, torn, overlap>>
     \/ /\ grantsFile' = grants /\ torn' = TRUE
        /\ overlap' = (overlap \/ \E o \in Starts \ {s} : HasGrants(o))

\* Registry.saveLocked: the rename is its last step.
SavesClients(s, clients) ==
  /\ clientsFile' = clients
  /\ overlap' = (overlap \/ \E o \in Starts \ {s} : HasClients(o))

Unexpired(grants) == {t \in grants : t > expiredTokens}

-----------------------------------------------------------------------------
\* buildOAuthServer: the key, the clients, the refresh tokens, the configured client

Start(s) ==
  /\ At(s, "down") /\ GoesTo(s, "reading")
  /\ UNCHANGED <<filesVars, clientVars, countVars, troubleVars>>

\* LoadOrCreateTokenSecret: an empty file is an error, an absent one is made
ReadKey(s) ==
  /\ At(s, "reading")
  /\ CASE keyFile = NoFile -> GoesTo(s, "creating")
       [] keyFile = 0 -> Ends(s)
       [] OTHER -> server' = [server EXCEPT ![s].step = "clients", ![s].key = keyFile]
  /\ UNCHANGED <<filesVars, clientVars, countVars, troubleVars>>

\* os.OpenFile with O_EXCL
CreateKey(s) ==
  /\ At(s, "creating")
  /\ IF keyFile = NoFile THEN keyFile' = 0 /\ GoesTo(s, "writing") ELSE GoesTo(s, "waiting") /\ UNCHANGED keyFile
  /\ UNCHANGED <<clientsFile, grantsFile, clientVars, countVars, troubleVars>>

\* Write, Sync, Close and Chmod: when one fails the file is removed, and from
\* the write on another process may have read it.
WriteKey(s) ==
  /\ At(s, "writing") /\ keys < MaxKeys
  /\ \/ /\ keyFile = 0 /\ keys' = keys + 1 /\ keyFile' = keys + 1
        /\ server' = [server EXCEPT ![s].step = "clients", ![s].key = keys + 1]
        /\ UNCHANGED <<withdrawn, oauthFaults>>
     \/ /\ keyFile = 0 /\ FileFails /\ keyFile' = NoFile /\ Ends(s) /\ UNCHANGED <<keys, withdrawn>>
     \/ /\ keyFile = 0 /\ FileFails /\ keys' = keys + 1 /\ keyFile' = keys + 1
        /\ GoesTo(s, "writing") /\ UNCHANGED withdrawn
     \/ /\ keyFile > 0 /\ keyFile' = NoFile /\ withdrawn' = TRUE /\ Ends(s)
        /\ UNCHANGED <<keys, oauthFaults>>
  /\ UNCHANGED <<clientsFile, grantsFile, clientVars, codes, tokens, expiredCodes, expiredTokens, torn, overlap, oauthStops>>

\* waitForTokenSecret: two seconds
WaitForKey(s) ==
  /\ At(s, "waiting")
  /\ \/ keyFile > 0 /\ server' = [server EXCEPT ![s].step = "clients", ![s].key = keyFile]
     \/ keyFile <= 0 /\ Ends(s)
  /\ UNCHANGED <<filesVars, clientVars, countVars, troubleVars>>

LoadClients(s) ==
  /\ At(s, "clients")
  /\ server' = [server EXCEPT ![s].step = "grants", ![s].clients = clientsFile]
  /\ UNCHANGED <<filesVars, clientVars, countVars, troubleVars>>

\* loadRefreshLocked: what has expired is left out, and the file then saved
LoadGrants(s) ==
  /\ At(s, "grants")
  /\ server' = [server EXCEPT ![s].grants = Unexpired(grantsFile),
                  ![s].step = IF Unexpired(grantsFile) = grantsFile THEN "preregistering" ELSE "pruning"]
  /\ UNCHANGED <<filesVars, clientVars, countVars, troubleVars>>

SavePruned(s) ==
  /\ At(s, "pruning")
  /\ \/ SavesGrants(s, server[s].grants) /\ GoesTo(s, "preregistering")
     \/ SaveOfGrantsFails(s, server[s].grants) /\ Ends(s)
  /\ UNCHANGED <<keyFile, clientsFile, clientVars, countVars, withdrawn, oauthStops>>

AddPreregistered(s) ==
  LET clients == server[s].clients \cup {Preregistered} IN
  /\ At(s, "preregistering")
  /\ \/ /\ SavesClients(s, clients) /\ UNCHANGED oauthFaults
        /\ server' = [server EXCEPT ![s].step = "binding", ![s].clients = clients]
     \/ FileFails /\ Ends(s) /\ UNCHANGED <<clientsFile, overlap>>
  /\ UNCHANGED <<keyFile, grantsFile, clientVars, countVars, withdrawn, torn, oauthStops>>

\* ListenAndServe, the last step of the start; the address may be taken
Bind(s) ==
  /\ At(s, "binding")
  /\ IF \E o \in Starts : Serving(o) THEN Ends(s) ELSE GoesTo(s, "serving")
  /\ UNCHANGED <<filesVars, clientVars, countVars, troubleVars>>

\* The process ends, at any step: its memory and its codes are gone.
Stop(s) ==
  /\ ~At(s, "down") /\ oauthStops < MaxOAuthStops
  /\ Ends(s) /\ oauthStops' = oauthStops + 1
  /\ UNCHANGED <<filesVars, clientVars, countVars, withdrawn, torn, overlap, oauthFaults>>

-----------------------------------------------------------------------------
\* Requests

\* Registry.Register: saved before it is answered, and taken back when that fails
Register(s, c) ==
  /\ Serving(s) /\ c \notin server[s].clients /\ Cardinality(server[s].clients) < MaxClients
  /\ \/ /\ SavesClients(s, server[s].clients \cup {c}) /\ UNCHANGED oauthFaults
        /\ server' = [server EXCEPT ![s].clients = @ \cup {c}]
        /\ registered' = registered \cup {c}
     \/ FileFails /\ UNCHANGED <<server, clientsFile, overlap, registered>>
  /\ UNCHANGED <<keyFile, grantsFile, held, codeUses, rotations, countVars, withdrawn, torn, oauthStops>>

\* Server.IssueCode, after the password was checked
IssueCode(s) ==
  LET pending == {c \in server[s].codes : c > expiredCodes} IN
  /\ Serving(s) /\ codes < MaxCodes
  /\ Cardinality(pending) < MaxPendingCodes
  /\ codes' = codes + 1
  /\ server' = [server EXCEPT ![s].codes = pending \cup {codes + 1}]
  /\ UNCHANGED <<filesVars, clientVars, keys, tokens, expiredCodes, expiredTokens, troubleVars>>

\* the code is deleted when the token has been made
ExchangeCodeKept(s, c, right) ==
  /\ Serving(s) /\ c \in server[s].codes
  /\ IF right /\ c > expiredCodes
     THEN codeUses' = [codeUses EXCEPT ![c] = @ + 1] /\ server' = [server EXCEPT ![s].owed = @ \cup {c}]
     ELSE server' = [server EXCEPT ![s].codes = @ \ {c}] /\ UNCHANGED codeUses
  /\ UNCHANGED <<filesVars, registered, held, rotations, countVars, troubleVars>>

\* Server.ExchangeCode: the code is deleted first, whoever presents it
ExchangeCode(s, c, right) ==
  /\ Serving(s) /\ c \in server[s].codes
  /\ IF right /\ c > expiredCodes
     THEN /\ codeUses' = [codeUses EXCEPT ![c] = @ + 1]
          /\ server' = [server EXCEPT ![s].codes = @ \ {c}, ![s].owed = @ \cup {c}]
     ELSE server' = [server EXCEPT ![s].codes = @ \ {c}] /\ UNCHANGED codeUses
  /\ UNCHANGED <<filesVars, registered, held, rotations, countVars, troubleVars>>

\* nothing goes when the table is full
KeptAll(grants) == Unexpired(grants)

\* What IssueRefreshToken keeps of the tokens before it adds one: the unexpired
\* ones, without the oldest when they are at the limit.
Kept(grants) ==
  LET live == Unexpired(grants) IN
  IF Cardinality(live) >= MaxRefreshTokens THEN {t \in live : \E o \in live : o < t} ELSE live

\* The token of a code that was exchanged; a failed save puts the tokens of
\* before back, and the code is gone.  The answer may be lost.
IssueRefreshToken(s, c) ==
  LET next == Kept(server[s].grants) \cup {tokens + 1} IN
  /\ Serving(s) /\ c \in server[s].owed /\ tokens < MaxTokens
  /\ tokens' = tokens + 1
  /\ \/ /\ SavesGrants(s, next) /\ held' \in {held, held \cup {tokens + 1}}
        /\ server' = [server EXCEPT ![s].owed = @ \ {c}, ![s].grants = next]
     \/ /\ SaveOfGrantsFails(s, next) /\ UNCHANGED held
        /\ server' = [server EXCEPT ![s].owed = @ \ {c}]
  /\ UNCHANGED <<keyFile, clientsFile, registered, codeUses, rotations, keys, codes, expiredCodes, expiredTokens, withdrawn, oauthStops>>

\* Server.ExchangeRefreshToken: one critical section; nothing is pruned here
ExchangeRefreshToken(s, t) ==
  LET next == (server[s].grants \ {t}) \cup {tokens + 1} IN
  /\ Serving(s) /\ t \in Unexpired(server[s].grants) /\ tokens < MaxTokens
  /\ tokens' = tokens + 1
  /\ \/ /\ SavesGrants(s, next) /\ rotations' = [rotations EXCEPT ![t] = @ + 1]
        /\ held' \in {held \ {t}, (held \ {t}) \cup {tokens + 1}}
        /\ server' = [server EXCEPT ![s].grants = next]
     \/ SaveOfGrantsFails(s, next) /\ UNCHANGED <<held, rotations, server>>
  /\ UNCHANGED <<keyFile, clientsFile, registered, codeUses, keys, codes, expiredCodes, expiredTokens, withdrawn, oauthStops>>

CodeExpires ==
  /\ expiredCodes < codes /\ expiredCodes' = expiredCodes + 1
  /\ UNCHANGED <<filesVars, server, clientVars, keys, codes, tokens, expiredTokens, troubleVars>>

TokenExpires ==
  /\ expiredTokens < tokens /\ expiredTokens' = expiredTokens + 1
  /\ UNCHANGED <<filesVars, server, clientVars, keys, codes, tokens, expiredCodes, troubleVars>>

OAuthNext ==
  \/ \E s \in Starts :
       \/ Start(s) \/ ReadKey(s) \/ CreateKey(s) \/ WriteKey(s) \/ WaitForKey(s)
       \/ LoadClients(s) \/ LoadGrants(s) \/ SavePruned(s) \/ AddPreregistered(s) \/ Bind(s) \/ Stop(s)
       \/ \E c \in Dynamic : Register(s, c)
       \/ IssueCode(s)
       \/ \E c \in 1..MaxCodes : (\E right \in BOOLEAN : ExchangeCode(s, c, right)) \/ IssueRefreshToken(s, c)
       \/ \E t \in 1..MaxTokens : ExchangeRefreshToken(s, t)
  \/ CodeExpires \/ TokenExpires

OAuthSpec == OAuthInit /\ [][OAuthNext]_oauthVars

-----------------------------------------------------------------------------
\* Properties

\* An authorization code is exchanged once, and a refresh token once, in
\* whichever process and after whichever failed save, unless two processes
\* that share the files saved over each other.
UsedOnce ==
  /\ \A c \in 1..MaxCodes : codeUses[c] <= 1
  /\ ~overlap => \A t \in 1..MaxTokens : rotations[t] <= 1

\* A client that received a refresh token can use it with the process that
\* serves, through restarts and failed saves, until it expires or so many
\* newer ones were issued that it is the one to go.  A save that failed after
\* it replaced the file is the exception: the process kept what it rolled back.
TokensKept ==
  ~overlap /\ ~torn =>
    \A s \in Starts : Serving(s) =>
      \A t \in Unexpired(held) : tokens - t < MaxRefreshTokens => t \in server[s].grants

\* What a client was told is registered, the process that serves knows, and
\* every process signs with the key of the file.
ClientsAndKeyKept ==
  \A s \in Starts : Serving(s) =>
    /\ ~overlap => registered \subseteq server[s].clients
    /\ ~withdrawn => server[s].key = keyFile

\* What a client of the authorization server may rely on.
CredentialsHold == UsedOnce /\ TokensKept /\ ClientsAndKeyKept

\* What the comment on buildOAuthServer claims without exception.
RestartKeepsCredentials ==
  \A s \in Starts : Serving(s) => Unexpired(held) \subseteq server[s].grants /\ registered \subseteq server[s].clients
==============================================================================
