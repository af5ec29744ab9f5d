--------------------------- MODULE Configuration ----------------------------
(***************************************************************************)
(* How the configuration of the service comes about and is accepted        *)
(* (internal/config/config.go) and what the constructors of the parts ask  *)
(* of it afterwards.  A setting is reduced to the question the rules ask:  *)
(* enabled or present, or not.  Formats, sizes and durations, which every  *)
(* rule only bounds, are one setting, "wellFormed"; a value that Validate  *)
(* takes as it is and a constructor parses is one that parses, or not.     *)
(***************************************************************************)
CONSTANTS
    BaseLayers,     \* contents of the configuration file to try
    ProfileLayers,  \* contents of the file of a profile to try
    EnvLayers,      \* settings of the environment to try
    None            \* not given

Profiles == {"development", "production"}

(* The log level, the trusted proxies, the zone and the schedule of the    *)
(* job, the base URLs of HTTP upstreams and the two URLs of the database.  *)
ParsedLate ==
    {"logLevel", "trustedProxies", "timezone", "sampleSpec", "baseURL", "dsn", "migrationURL"}

Settings ==
    ParsedLate \cup
    {"wellFormed", "grpc", "grpcTLS", "reflection", "database", "autoUp", "redis",
     "rateLimit", "swagger", "swaggerAuth", "jwks", "authz", "authzUpstream",
     "applicationUpstream", "credentials", "clientTLS", "idempotency", "eventBus"}

(* A layer gives a profile and some of the settings.                       *)
LayerAssumption ==
    \A l \in BaseLayers \cup ProfileLayers \cup EnvLayers :
        /\ l.env \in Profiles \cup {None}
        /\ DOMAIN l.values \subseteq Settings
        /\ \A s \in DOMAIN l.values : l.values[s] \in BOOLEAN

VARIABLES
    flag,     \* the profile of the command line, or None
    base,     \* the configuration file
    envVars,  \* the environment
    file,     \* the file of the profile, or None where there is none
    profile,  \* the profile LoadWithProfile has settled on
    cfg,      \* the settings in force
    step

vars == <<flag, base, envVars, file, profile, cfg, step>>

(* setDefaults                                                             *)
Defaults ==
    [s \in Settings |->
        s \in ParsedLate \cup {"wellFormed", "grpc", "reflection", "swagger"}]

NoFile == [env |-> None, values |-> [s \in {} |-> TRUE]]

Init ==
    /\ flag \in Profiles \cup {None}
    /\ base \in BaseLayers
    /\ envVars \in EnvLayers
    /\ file = NoFile
    /\ profile = None
    /\ cfg = Defaults
    /\ step = "start"
-----------------------------------------------------------------------------
(* LoadWithProfile                                                         *)

FirstOf(a, b) == IF a # None THEN a ELSE b

(* The flag, then the environment, then the file, then the default.  A file*)
(* that cannot be read or parsed, and a malformed profile, end the start.  *)
ReadConfig ==
    /\ step = "start"
    /\ profile' = FirstOf(flag, FirstOf(envVars.env, FirstOf(base.env, "development")))
    /\ step' \in {"read", "rejected"}
    /\ UNCHANGED <<flag, base, envVars, file, cfg>>

(* A layer over what is below it.                                          *)
Over(layer, below) ==
    [s \in Settings |-> IF s \in DOMAIN layer.values THEN layer.values[s] ELSE below[s]]

(* The environment overrides both files, the file of the profile the other.*)
MergeProfile(l) ==
    /\ step = "read"
    /\ file' = l
    /\ cfg' = Over(envVars, Over(l, Over(base, Defaults)))
    /\ step' \in {"merged", "rejected"}
    /\ UNCHANGED <<flag, base, envVars, profile>>

(* Faulty: the flag picks the file, and the rules look at app.env.         *)
ValidatedProfileLayered ==
    FirstOf(envVars.env, FirstOf(file.env, FirstOf(base.env, "development")))

(* v.Set("app.env", profile) stands above every layer.                     *)
ValidatedProfile == profile

Production == ValidatedProfile = "production"

(* Faulty: credentials are sent over what the upstream offers.             *)
ValidPolicyPlaintext == TRUE

(* validateClientPolicy                                                    *)
ValidPolicy == cfg["credentials"] => cfg["clientTLS"]

(* Faulty: the limiter finds out by itself that it has no backend.         *)
ValidBackendsIdempotency ==
    /\ cfg["autoUp"] => cfg["database"]
    /\ cfg["idempotency"] => cfg["redis"]

ValidBackends ==
    /\ cfg["autoUp"] => cfg["database"]
    /\ cfg["rateLimit"] \/ cfg["idempotency"] => cfg["redis"]

ValidUpstreams ==
    /\ cfg["authz"] => cfg["authzUpstream"]
    /\ cfg["database"] => cfg["applicationUpstream"]

ValidInProduction ==
    /\ cfg["grpc"] => cfg["grpcTLS"]
    /\ ~cfg["reflection"]
    /\ cfg["swagger"] => cfg["swaggerAuth"]
    /\ cfg["jwks"]
    /\ cfg["authz"]

(* Validate                                                                *)
Valid ==
    /\ cfg["wellFormed"]
    /\ ValidBackends /\ ValidUpstreams /\ ValidPolicy
    /\ Production => ValidInProduction

(* main exits with the first rule that does not hold.                      *)
Validate ==
    /\ step = "merged"
    /\ step' = IF Valid THEN "accepted" ELSE "rejected"
    /\ UNCHANGED <<flag, base, envVars, file, profile, cfg>>
-----------------------------------------------------------------------------
(* what the constructors and start hooks refuse                            *)

(* NewHTTPClient and Dial send no credentials without TLS.                 *)
ClientsRefuse == cfg["credentials"] /\ ~cfg["clientTLS"]

(* newApplicationVerifier                                                  *)
VerifierRefuses == cfg["database"] /\ ~cfg["applicationUpstream"]

(* A nil client is passed on silently; the request that needs it fails.    *)
BackendMissing ==
    \/ (cfg["rateLimit"] \/ cfg["idempotency"]) /\ ~cfg["redis"]
    \/ cfg["authz"] /\ ~cfg["authzUpstream"]

(* ruleEventRuntime.start: a rule that is not one of Validate.             *)
StoreMissing == cfg["eventBus"] /\ ~cfg["database"]

(* What a constructor has to parse; a scheduler that is not enabled parses *)
(* its zone and schedule all the same.                                     *)
Parsed ==
    ParsedLate \ ((IF cfg["database"] THEN {} ELSE {"dsn"})
                  \cup (IF cfg["autoUp"] THEN {} ELSE {"migrationURL"}))

ParsersRefuse == \E s \in Parsed : ~cfg[s]

(* Files and servers that a constructor misses are in module AppLifecycle. *)
Build ==
    /\ step = "accepted"
    /\ step' = IF ClientsRefuse \/ VerifierRefuses \/ ParsersRefuse THEN "refused"
               ELSE IF StoreMissing THEN "storeMissing" ELSE "serving"
    /\ UNCHANGED <<flag, base, envVars, file, profile, cfg>>

Next ==
    \/ ReadConfig
    \/ \E l \in ProfileLayers \cup {NoFile} : MergeProfile(l)
    \/ Validate
    \/ Build

Spec == Init /\ [][Next]_vars
-----------------------------------------------------------------------------
(* properties                                                              *)

(* The type invariant.                                                     *)
ConfigTypeOK ==
    /\ flag \in Profiles \cup {None}
    /\ profile \in (IF step = "start" THEN {None} ELSE Profiles)
    /\ base \in BaseLayers /\ envVars \in EnvLayers
    /\ file \in ProfileLayers \cup {NoFile}
    /\ cfg \in [Settings -> BOOLEAN]
    /\ step \in {"start", "read", "merged", "accepted", "rejected", "refused",
                 "storeMissing", "serving"}

(* A process told to run in production, by flag, environment or file, is   *)
(* guarded as production demands, whatever a file of lower rank says of    *)
(* app.env: the profile that picks the file is the one Validate judges.    *)
ProductionIsGuarded ==
    step = "serving"
        /\ FirstOf(flag, FirstOf(envVars.env, FirstOf(base.env, "development"))) = "production"
        => /\ cfg["authz"] /\ cfg["authzUpstream"] /\ cfg["jwks"]
           /\ ~cfg["reflection"] /\ (cfg["grpc"] => cfg["grpcTLS"])
           /\ (cfg["credentials"] => cfg["clientTLS"])

(* A constructor refuses what Validate has accepted only for a value that  *)
(* Validate leaves to it to parse, never by a rule that both of them have. *)
RefusedByParsersOnly ==
    step = "refused" => ParsersRefuse /\ ~ClientsRefuse /\ ~VerifierRefuses

(* A service that takes requests has the backend of every guard that is    *)
(* enabled: the nil client a constructor passes on is never used.          *)
GuardsHaveBackends == step = "serving" => ~BackendMissing

(* The rules of Validate and those the constructors enforce, which are     *)
(* written down twice, fit each other, and they hold where it matters.     *)
ServingIsGuarded == ProductionIsGuarded /\ RefusedByParsersOnly /\ GuardsHaveBackends
=============================================================================
