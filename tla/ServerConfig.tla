---------------------------- MODULE ServerConfig ----------------------------
(***************************************************************************)
(* The command line of `hairpin serve`: what parseServeFlags makes of it   *)
(* and what Config.Validate refuses (cmd/hairpin/serve.go,                 *)
(* internal/config).  An address is "" (not given), "host:port" or "bad"   *)
(* (no port, or one out of range); a sample ratio is "below" 0, "in" range, *)
(* "above" 1 or "nan", which no comparison holds of.                       *)
(*                                                                         *)
(* A definition directly above another one with the same parameters is a   *)
(* faulty variant of it: PROJECT.json names the property that tells the    *)
(* two apart.                                                              *)
(***************************************************************************)
EXTENDS Integers

CONSTANT MaxInt32       \* 2^31 - 1 in the code

Runtimes  == {"runc", "gvisor", "kata-qemu", "kata-fc", "kata-clh"}
Exporters == {"", "none", "otlp", "stdout"}
Protocols == {"", "grpc", "http/protobuf"}

\* The flags, before and after parseServeFlags.
Config ==
    [listen : STRING, advertise : STRING, redis : STRING, redisDB : Int, billet : STRING,
     launcher : STRING, defaultProfile : STRING, namespace : STRING, image : STRING,
     jobTTL : Int, slack : Int, sandboxNamespace : STRING, sandboxRuntime : STRING,
     harnessTelemetry : STRING, exporter : STRING, protocol : STRING, ratio : STRING,
     interval : Int, keyPath : STRING, issuer : STRING, audience : STRING, ttl : Int]

NoConfig == [parsed |-> FALSE]

validateHostPort(addr) == addr # "bad"

\* Options.Enabled and Options.Validate of internal/telemetry.
TelemetryEnabled(c)  == c.exporter \notin {"", "none"}
TelemetryValid(c) ==
    /\ c.exporter \in Exporters
    /\ c.protocol \in Protocols
    /\ c.ratio \notin {"below", "above"}
    /\ c.interval >= 0

LauncherValid(c) ==
    \/ c.launcher = "kubernetes" /\ c.namespace # "" /\ c.image # ""
    \/ c.launcher = "none"

\* Mutant: the lifetime of the tokens is not looked at.
TokenNoTTL(c) ==
    IF c.keyPath = "" THEN c.issuer = "" /\ c.audience = "" ELSE c.issuer # "" /\ c.audience # ""
TokenValid(c) ==
    IF c.keyPath = "" THEN c.issuer = "" /\ c.audience = ""
                      ELSE c.issuer # "" /\ c.audience # "" /\ c.ttl > 0

Validate(c) ==
    /\ c.listen # "" /\ c.advertise # ""
    /\ validateHostPort(c.billet) /\ validateHostPort(c.harnessTelemetry)
    /\ c.redisDB >= 0 /\ c.jobTTL >= 0 /\ c.slack >= 0
    /\ TelemetryValid(c)
    /\ c.sandboxRuntime \in Runtimes \cup {""}
    /\ LauncherValid(c)
    /\ TokenValid(c)

\* The default for -advertise: a Service in the namespace, on the port of -listen.
defaultAdvertiseAddr(namespace, listen) ==
    IF listen = "host:port" THEN "host:port" ELSE ""

Advertised(f) ==
    IF f.advertise = "" /\ f.namespace # ""
    THEN defaultAdvertiseAddr(f.namespace, f.listen) ELSE f.advertise

\* DetectNamespace: the namespace of the Pod, "" off-cluster, is -namespace's default.
WithNamespace(f, detected) ==
    [f EXCEPT !.namespace = IF @ = "default" THEN detected ELSE @]

\* Validate fills in the sandbox namespace too.
Normalised(f) ==
    [f EXCEPT !.advertise = Advertised(f),
              !.sandboxNamespace = IF @ = "" THEN f.namespace ELSE @]

parseServeFlags(flags, detected) ==
    LET f == WithNamespace(flags, detected)
        c == Normalised(f)
    IN IF f.jobTTL \in 0..MaxInt32 /\ Validate(c) THEN c ELSE NoConfig

-----------------------------------------------------------------------------
(* What the parts built from a configuration insist on themselves *)

\* tokenissuer.New, given a P-256 key.
IssuerArgsOK(c) == c.issuer # "" /\ c.audience # "" /\ c.ttl > 0

\* service.NewProfiles: a default is only looked up when templates were loaded.
ProfilesOK(names, def) == names = {} \/ def = "" \/ def \in names
DefaultProfile(names, def) == IF names = {} THEN "" ELSE def

=============================================================================
