---------------------------- MODULE MC_Dashboard ----------------------------
(***************************************************************************)
(* Files and environments as in the repository (bare binary, compose), and *)
(* some with which the program does not start; visitors of every kind.     *)
(***************************************************************************)
EXTENDS Dashboard, TLC

MCAddress == {"127.0.0.1", "0.0.0.0"}
MCLoopback == {"127.0.0.1"}
MCURL == {"api.openai.com", "echo", "bad"}
MCOrigin == MCURL \ {"bad"}
MCDefault == [openai |-> "api.openai.com"]
MCToken == {"pinned", "changed"}
MCRandom == <<"random1", "random2">>
MCMaskCounts == <<2, 0, 1>>

NoFields == << >>
Bound == [SHINEL_ADMIN_BIND |-> "0.0.0.0"]
Compose(token) == Bound @@ [SHINEL_ADMIN_TOKEN |-> token]

Failing ==
  [ file : { [target_url |-> "echo"], [vault |-> "disk"], [providers |-> Null],
             [providers |-> [gemini |-> "bad"]] },
    env : {NoFields} ]

MCSettings ==
  [file : {NoFields}, env : {NoFields}]
  \union [file : {[token |-> "pinned"]}, env : {[SHINEL_ADMIN_TOKEN |-> NoToken]}]
  \union [file : {NoFields}, env : {Compose("pinned"), Compose("changed")}]
  \union [file : {[log_level |-> "verbose"]}, env : {Bound}]
  \union [file : {[providers |-> Null, port |-> 0]}, env : {[SHINEL_TARGET_URL |-> "echo"]}]
  \union Failing

\* A generated password, and a log that keeps to warnings.
QuietSettings == [file : {[log_level |-> "warn"]}, env : {Bound}]

MCVisitors == [local : BOOLEAN, knows : {{}, {"pinned"}}, readsLog : BOOLEAN]
=============================================================================
