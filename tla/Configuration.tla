--------------------------- MODULE Configuration ---------------------------
(***************************************************************************)
(* The settings the program starts with (internal/config/config.go), as    *)
(* far as they decide whether it starts and who may see the dashboard: the *)
(* defaults, over them the file, over both the environment.                *)
(*                                                                         *)
(* A file is a function on the fields it has, the environment one on the   *)
(* variables that are there.  An origin is a URL with a scheme and a host. *)
(***************************************************************************)
EXTENDS GoMaps

CONSTANTS
  Address,    \* what the dashboard may be bound to
  Loopback,   \* those of them that only this host can reach
  LocalHost,  \* 127.0.0.1
  Token,      \* passwords that may be configured
  NoToken,    \* the empty string
  URL,
  Origin      \* those that parse and have a scheme and a host

ASSUME ConfigurationAssumption ==
  /\ LocalHost \in Loopback /\ Loopback \subseteq Address
  /\ NoToken \notin Token /\ Origin \subseteq URL

CONSTANTS
  Default,    \* the origins of openai, anthropic and gemini
  Null        \* the YAML value

defaults ==
  [ port |-> 8081, bind |-> LocalHost, token |-> NoToken, log_level |-> "info",
    vault |-> "memory", providers |-> Default ]

\* A file that still has target_url is refused, like one that does not parse.
Loads(file) == "target_url" \notin DOMAIN file

\* Decoding into the defaults: a field that is absent keeps its default, the
\* providers of the file are added to those known, and null removes them all.
Overlaid(file) ==
  [ Overlay(file, defaults) EXCEPT !.providers =
      IF "providers" \notin DOMAIN file THEN defaults.providers
      ELSE IF file.providers = Null THEN EmptyMap
      ELSE Overlay(file.providers, defaults.providers) ]

\* os.Getenv: an empty variable is as good as none (docker-compose.yml and the Makefile
\* pass an empty password on).
IsSet(var, env) == var \in DOMAIN env /\ env[var] # NoToken

Load(file, env) ==
  LET cfg == Overlaid(file)
      set(var, other) == IF IsSet(var, env) THEN env[var] ELSE other
  IN [ cfg EXCEPT
         !.bind = set("SHINEL_ADMIN_BIND", @),
         !.token = set("SHINEL_ADMIN_TOKEN", @),
         !.providers = IF IsSet("SHINEL_TARGET_URL", env)
                       THEN Put(@, "openai", env.SHINEL_TARGET_URL) ELSE @ ]

\* Mutant of SlogLevel: an unknown level is taken for the strictest.
SlogLevelStrict(cfg) ==
  IF cfg.log_level \in {"debug", "info", "warn"} THEN cfg.log_level ELSE "error"

SlogLevel(cfg) ==
  CASE cfg.log_level = "debug" -> "debug"
    [] cfg.log_level \in {"warn", "warning"} -> "warn"
    [] cfg.log_level = "error" -> "error"
    [] OTHER -> "info"

\* proxy.New and vault.New: without a provider, with one that is no origin, or with a
\* vault nobody knows, the program does not start.
parseProviders(cfg) ==
  \A name \in DOMAIN cfg.providers : cfg.providers[name] \in Origin

Buildable(cfg) ==
  /\ cfg.vault \in {"memory", "redis"}
  /\ parseProviders(cfg) /\ DOMAIN cfg.providers # {}
=============================================================================
