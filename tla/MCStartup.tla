------------------------------- MODULE MCStartup -------------------------------
(***************************************************************************)
(* The launches an operator may try: two accepted ones, which come to one  *)
(* address by different layers, and one for every reason to be refused.    *)
(***************************************************************************)
EXTENDS Startup, TLC

Set(layer) == layer @@ NoLayer

MCDisk ==
    ("taripay.toml" :> [ok |-> TRUE, layer |-> Set(
          ("PostgresDSN" :> "file-dsn") @@ ("HTTPListenAddr" :> ":9999")
          @@ ("WebhookHMACSecret" :> "file-key") @@ ("InvoiceTTLMinutes" :> "0"))])
    @@ ("broken.toml" :> [ok |-> FALSE, layer |-> NoLayer])

\* "bare": the database, the rest by default.  "layered": each layer sets what
\* another one sets too.  Then no database, a file that does not parse, a number
\* that is none, and a callback URL without a secret.
MCFlags ==
    ("bare" :> NoLayer)
    @@ ("layered" :> Set(("ConfigFile" :> "taripay.toml") @@ ("WebhookCallbackURL" :> "flag-url")))
    @@ ("no-dsn" :> NoLayer)
    @@ ("bad-file" :> Set("ConfigFile" :> "broken.toml"))
    @@ ("bad-number" :> NoLayer)
    @@ ("no-secret" :> Set("WebhookCallbackURL" :> "flag-url"))

MCEnv ==
    ("bare" :> Set("PostgresDSN" :> "env-dsn"))
    @@ ("layered" :> Set(("HTTPListenAddr" :> ":8090") @@ ("WebhookCallbackURL" :> "env-url")
                         @@ ("AdminAuthToken" :> "env-token") @@ ("ConfirmationDepth" :> "5")))
    @@ ("no-dsn" :> Set("AdminAuthToken" :> "env-token"))
    @@ ("bad-file" :> Set("PostgresDSN" :> "env-dsn"))
    @@ ("bad-number" :> Set(("PostgresDSN" :> "env-dsn") @@ ("InvoiceTTLMinutes" :> Malformed)))
    @@ ("no-secret" :> Set("PostgresDSN" :> "env-dsn"))
=============================================================================
