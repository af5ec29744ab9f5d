----------------------------- MODULE MCProcess ------------------------------
(***************************************************************************)
(* ServiceProcess with each behaviour moving one of the parts, "part",     *)
(* while the others stay in one of their initial states.  Three replicas   *)
(* want the job: one that lost the lock, one that took it and one that may.*)
(***************************************************************************)
EXTENDS ServiceProcess

VARIABLE part

(* The files of config/ and each of them with one setting turned over; the *)
(* environment overrides one setting.                                      *)
Shipped(on, off) == [s \in on \cup off |-> s \in on]

(* The settings that only constructors parse.                              *)
Late == {"logLevel", "trustedProxies", "timezone", "sampleSpec", "baseURL", "dsn", "migrationURL"}

(* config.yaml with the upstreams it lists.                                *)
BaseShipped ==
    Shipped(Late \cup
            {"wellFormed", "grpc", "reflection", "swagger", "authzUpstream", "applicationUpstream"},
            {"grpcTLS", "database", "autoUp", "redis", "rateLimit", "swaggerAuth", "jwks",
             "authz", "credentials", "clientTLS", "idempotency", "eventBus"})

(* config-production.yaml                                                  *)
ProductionShipped ==
    Shipped({"swaggerAuth", "grpcTLS", "database", "redis", "autoUp", "rateLimit", "idempotency",
             "authz", "authzUpstream", "applicationUpstream", "clientTLS"},
            {"swagger", "reflection"})

OneTurned(values) ==
    {values} \cup {[values EXCEPT ![s] = ~@] : s \in DOMAIN values}

Layers(envs, values) == {[env |-> e, values |-> v] : e \in envs, v \in values}

MCBaseLayers ==
    Layers({"development", "production"}, {BaseShipped})
    \cup Layers({"development"}, OneTurned(BaseShipped))

MCProfileLayers ==
    Layers({None}, OneTurned(ProductionShipped)) \cup Layers({"development"}, {ProductionShipped})

MCEnvLayers ==
    Layers({"production", None},
           {[s \in {} |-> TRUE]}
           \cup {[s \in {t, "jwks"} |-> TRUE] : t \in DOMAIN BaseShipped \ Late})

MCInit ==
    /\ part \in {"job", "ready", "app", "migration", "config"}
    /\ Init /\ (part # "job" => ~locker)
    /\ Ready!Init /\ (part # "ready" => enabled = {})
    /\ App!Init /\ (part # "app" => options = {})
    /\ Migrating!Init /\ (part # "migration" => ~creates)
    /\ Config!Init
    /\ part # "config" => flag = None /\ base.values = BaseShipped
                          /\ base.env = "development" /\ envVars = Config!NoFile

MCNext ==
    \/ /\ part = "job" /\ Next
       /\ UNCHANGED <<part, readyVars, appVars, migrationVars, configVars>>
    \/ /\ part = "ready" /\ Ready!Next
       /\ UNCHANGED <<part, vars, appVars, migrationVars, configVars>>
    \/ /\ part = "app" /\ App!Next
       /\ UNCHANGED <<part, vars, readyVars, migrationVars, configVars>>
    \/ /\ part = "migration" /\ Migrating!Next
       /\ UNCHANGED <<part, vars, readyVars, appVars, configVars>>
    \/ /\ part = "config" /\ Config!Next
       /\ UNCHANGED <<part, vars, readyVars, appVars, migrationVars>>

allVars == <<part, vars, readyVars, appVars, migrationVars, configVars>>

(* The fairness of each part, while it is the one that moves.              *)
MCSpec ==
    /\ MCInit /\ [][MCNext]_allVars
    /\ \A p \in Replicas :
          WF_vars(part = "job" /\ Run(p)) /\ WF_vars(part = "job" /\ Stopped(p))
    /\ \A i \in Probes : WF_readyVars(part = "ready" /\ Ready!Serve(i))
    /\ WF_appVars(part = "app" /\ (App!StopBegins \/ App!StopEnds \/ App!Exit))
    /\ WF_appVars(part = "app" /\ App!TimesOut)
    /\ \A p \in Processes : SF_migrationVars(part = "migration" /\ Migrating!Work(p))
=============================================================================
