--------------------------- MODULE ProviderGates ---------------------------
(***************************************************************************)
(* Which assessment provider the environment selects: its parsing          *)
(* (server/evidence/ai-config.ts), the capability shown to participants    *)
(* and the selection for a request (development-provider.ts), and what the *)
(* adapter and the authorization file check again later.                   *)
(*                                                                         *)
(* Three readers of one environment: capability compares its strings,      *)
(* parsing turns them into values or throws, and the adapter reads the     *)
(* values.  A variable that is absent reads as "false".                    *)
(***************************************************************************)

Flag == {"true", "false", "other"}
Browser == {"OPENAI_UI_DISABLED", "OPENAI_CREDENTIAL_NOT_DEVELOPMENT",
            "OPENAI_DATA_NOT_SYNTHETIC", "OPENAI_AUTHORIZATION_ABSENT"}

\* The four kill switches are read alike, so one stands for them; closed is
\* the checks of Browser the environment fails.
Env ==
  [node : {"development", "test", "production"}, provider : {"none", "openai", "other"},
   enabled : Flag, openAi : Flag, model : Flag, kill : Flag, key : BOOLEAN,
   allowlist : {"none", "sole", "several"},   \* the models allowed with the model chosen
   numbers : BOOLEAN,                         \* limits and versions are well formed
   closed : SUBSET Browser]

\* parseAiProviderConfig; when it does not throw, a flag is "true" or "false".
Flags(env) == {env.enabled, env.openAi, env.model, env.kill}
Consistent(env) ==
  "true" \in {env.enabled, env.openAi, env.model} =>
    env.provider = "openai" /\ {env.enabled, env.openAi, env.model} = {"true"}
Parses(env) ==
  /\ "other" \notin Flags(env) /\ env.provider # "other" /\ env.numbers
  /\ Consistent(env)
  /\ env.enabled = "true" => env.key /\ env.allowlist # "none"
  /\ ~(env.node = "production" /\ env.enabled = "true")

\* AiProviderConfig, of an environment that parses.
Config(env) ==
  [environment |-> env.node, enabled |-> env.enabled = "true", provider |-> env.provider,
   openAi |-> env.openAi = "true", model |-> env.model = "true",
   kill |-> env.kill = "true", named |-> env.allowlist # "none"]

\* assertOpenAiEnabled, on every evaluation.
OpenAiEnabled(config) ==
  config.enabled /\ config.provider = "openai" /\ config.openAi /\ config.model /\ ~config.kill

\* buildSmokeAuthorizationSnapshot, before the authorization file is touched.
SnapshotAllowed(config) ==
  config.environment = "development" /\ config.named /\ OpenAiEnabled(config)

\* developmentProviderCapability: what blocks the model; synthetic is whether
\* the requirements are standard and the evidence synthetic.
Blocked(env, synthetic) ==
  IF env.provider # "openai" THEN {"OPENAI_NOT_SELECTED"} ELSE
  env.closed \cup UNION {
    IF env.node # "development" THEN {"OPENAI_NOT_DEVELOPMENT"} ELSE {},
    IF {env.enabled, env.openAi, env.model} # {"true"} THEN {"OPENAI_FLAGS_DISABLED"} ELSE {},
    IF env.kill = "true" THEN {"OPENAI_KILL_SWITCH"} ELSE {},
    IF env.key THEN {} ELSE {"OPENAI_KEY_ABSENT"},
    IF env.allowlist # "sole" THEN {"OPENAI_MODEL_NOT_SOLE_ALLOWLISTED"} ELSE {},
    IF synthetic THEN {} ELSE {"OPENAI_DATA_NOT_SYNTHETIC"},
    IF Parses(env) THEN {} ELSE {"OPENAI_CONFIGURATION_INVALID"}}

BudgetState(env, synthetic) ==
  IF Blocked(env, synthetic) \in {{}, {"OPENAI_NOT_SELECTED"}} THEN "available"
  ELSE IF "OPENAI_KILL_SWITCH" \in Blocked(env, synthetic) THEN "paused" ELSE "unavailable"

\* select: the deterministic adapter unless nothing blocks the model.
Selects(env, synthetic) == IF Blocked(env, synthetic) = {} THEN "openai" ELSE "deterministic"
-----------------------------------------------------------------------------
\* The three readers agree: a model that is selected is of an environment that
\* parses, enabled and not killed, and no later gate refuses it; so a request
\* that selects the model never fails for its configuration.
SelectedIsEnabled(env, synthetic) ==
  Selects(env, synthetic) = "openai" =>
    /\ Parses(env) /\ synthetic
    /\ OpenAiEnabled(Config(env)) /\ SnapshotAllowed(Config(env))

\* A kill switch, written in any way that is not "false", leaves the
\* deterministic adapter, and is said to participants when it is "true".
KillSwitchHolds(env, synthetic) ==
  env.kill # "false" =>
    /\ Selects(env, synthetic) = "deterministic"
    /\ env.kill = "true" /\ env.provider = "openai" => BudgetState(env, synthetic) = "paused"
=============================================================================
