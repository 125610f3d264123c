-------------------------------- MODULE Config --------------------------------
(***************************************************************************)
(* config.Load: from the environment of a run to its Config. The variables   *)
(* are those that steer run(); the others that are parsed, numbers and flags *)
(* the models have as constants, differ only in whether they parse.          *)
(***************************************************************************)
EXTENDS Logging

CONSTANTS
    Empty, Garbage,   \* a variable that is not set, and one that does not parse
    DefaultTimeout,   \* of UNORDERED_TIMEOUT, 2 minutes
    MaxTimeout        \* the chain's, 5 minutes

ASSUME ConfigAssumption ==
    /\ {Empty, Garbage} \cap (Int \union BOOLEAN) = {}
    /\ DefaultTimeout \in Int /\ MaxTimeout \in Nat

Required == {"GRPC_ENDPOINT", "CHAIN_ID", "ORACLE_ADDRESS", "PRIVATE_KEY_HEX"}

Optional(S) == S \union {Empty, Garbage}

Environments ==
    [UNORDERED : Optional(BOOLEAN), UNORDERED_TIMEOUT : Optional(Int),
     FORCE_UPDATE : Optional(BOOLEAN), DRY_RUN : Optional(BOOLEAN),
     numbers : {Empty, Garbage},       \* all the others that are parsed
     required : SUBSET Required,       \* those that are set
     SLACK_WEBHOOK_URL : BOOLEAN,      \* set or not
     SLACK_LOG_LEVEL : {"debug", "info", "warn", "warning", "error", "", "loud"}]

Configs ==
    [ok : BOOLEAN, unordered : BOOLEAN, timeout : Int, force : BOOLEAN, dryRun : BOOLEAN,
     slack : BOOLEAN, slackLevel : Int]

\* getBool, getDuration and the like: the default also for what does not parse.
get(value, default) == IF value \in {Empty, Garbage} THEN default ELSE value

\* A default will do for what does not parse.
ErrorsAreLost(env) == FALSE

\* What the error tracker has collected.
HasError(env) ==
    Garbage \in {env.UNORDERED, env.UNORDERED_TIMEOUT, env.FORCE_UPDATE, env.DRY_RUN,
                 env.numbers}

\* The config comes with the error, if there is one, and is not ok then.
Load(env) ==
    LET unordered == get(env.UNORDERED, TRUE)
        timeout == get(env.UNORDERED_TIMEOUT, DefaultTimeout)
    IN  [ok |-> /\ ~HasError(env)
                /\ env.required = Required
                /\ unordered => timeout <= MaxTimeout,
         unordered |-> unordered,
         timeout |-> timeout,
         force |-> get(env.FORCE_UPDATE, FALSE),
         dryRun |-> get(env.DRY_RUN, FALSE),
         slack |-> env.SLACK_WEBHOOK_URL,
         slackLevel |-> parseLevel(env.SLACK_LOG_LEVEL)]

=============================================================================
