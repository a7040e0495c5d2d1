-------------------------------- MODULE Config --------------------------------
(***************************************************************************)
(* What a gateway is configured with: parseFlags, config.Load and the      *)
(* checks main makes of the result before anything is started.             *)
(*                                                                         *)
(* A layer is a function from the fields to their values; a field a layer  *)
(* does not set has the value Unset.  A launch is one way to start the     *)
(* gateway: it has a layer of flags and a layer of environment variables.  *)
(***************************************************************************)
EXTENDS Naturals, Sequences, FiniteSetsExt

CONSTANTS
    Launches,   \* the launches considered
    Flags,      \* the flags of each launch
    Env,        \* its environment
    Disk        \* from paths to [ok, layer]: what os.ReadFile and toml make of them

Unset == ""
Malformed == "malformed"  \* an environment variable strconv.Atoi refuses

IntFields == {"ConfirmationDepth", "InvoiceTTLMinutes"}

Fields == IntFields \cup
    {"ConfigFile", "WalletGRPCAddress", "PostgresDSN", "HTTPListenAddr",
     "WebhookCallbackURL", "WebhookHMACSecret", "AdminAuthToken"}

NoLayer == [f \in Fields |-> Unset]

\* What has a default has it from here.
Default ==
    [NoLayer EXCEPT !["WalletGRPCAddress"] = "127.0.0.1:18143",
                    !["HTTPListenAddr"] = ":8090",
                    !["ConfirmationDepth"] = "3",
                    !["InvoiceTTLMinutes"] = "30"]

\* The fields parseFlags registers a flag for; it leaves the others unset.
FlagFields ==
    {"ConfigFile", "WalletGRPCAddress", "HTTPListenAddr", "WebhookCallbackURL",
     "AdminAuthToken"}

ASSUME LaunchAssumption ==
    \A l \in Launches : \A f \in Fields \ FlagFields : Flags[l][f] = Unset

\* The first value that is set.
firstNonEmpty(vals) ==
    LET set == {k \in DOMAIN vals : vals[k] # Unset}
    IN IF set = {} THEN Unset ELSE vals[Min(set)]

configPath(l) == firstNonEmpty(<<Flags[l]["ConfigFile"], Env[l]["ConfigFile"]>>)

\* No path, no file: there is no default path.
fileLayer(l) == IF configPath(l) = Unset THEN NoLayer ELSE Disk[configPath(l)].layer

fileFails(l) == configPath(l) # Unset /\ ~Disk[configPath(l)].ok

\* Mutant: the file outranks the environment.
resolve_FileFirst(l, f) ==
    firstNonEmpty(<<Flags[l][f], fileLayer(l)[f], Env[l][f], Default[f]>>)

\* firstNonEmpty for the strings, firstNonZeroIntWithEnv for the numbers: a 0
\* that is set is a value like any other.
resolve(l, f) ==
    firstNonEmpty(<<Flags[l][f], Env[l][f], fileLayer(l)[f], Default[f]>>)

\* Load's result, when it has one.
Load == [l \in Launches |-> [f \in Fields |-> resolve(l, f)]]

LoadFails ==
    {l \in Launches : \/ fileFails(l)
                      \/ Load[l]["PostgresDSN"] = Unset
                      \/ \E f \in IntFields : Env[l][f] = Malformed}

\* A callback URL without a secret is fatal; every other combination starts.
checkWebhookConfig(cfg) ==
    ~(cfg["WebhookCallbackURL"] # Unset /\ cfg["WebhookHMACSecret"] = Unset)

Refused == LoadFails \cup {l \in Launches : ~checkWebhookConfig(Load[l])}

----------------------------------------------------------------------------
(* The admin routes                                                        *)

\* What a request is worth is the token after "Bearer " in its Authorization
\* header, Unset without one.  An empty expected token matches nothing.
validBearerToken(expected, bearer) == expected # Unset /\ bearer = expected

\* registerAdminRoutes and requireAuth: not registered, refused or served.
adminAnswer(cfg, bearer) ==
    IF cfg["AdminAuthToken"] = Unset THEN "404"
    ELSE IF validBearerToken(cfg["AdminAuthToken"], bearer) THEN "served" ELSE "401"
=============================================================================
