------------------------------ MODULE MCServer ------------------------------
(* Model checking of Server. *)
EXTENDS Server, TLC

\* A command line that serves, with nothing optional.
Plain == [listen |-> "host:port", advertise |-> "", redis |-> "", redisDB |-> 0, billet |-> "",
          launcher |-> "none", defaultProfile |-> "", namespace |-> "default", image |-> "image",
          jobTTL |-> 0, slack |-> 0, sandboxNamespace |-> "", sandboxRuntime |-> "",
          harnessTelemetry |-> "", exporter |-> "none", protocol |-> "grpc", ratio |-> "in",
          interval |-> 0, keyPath |-> "", issuer |-> "", audience |-> "", ttl |-> 1]

Full == [Plain EXCEPT !.redis = "host:port", !.advertise = "host:port", !.launcher = "kubernetes",
                      !.billet = "host:port", !.defaultProfile = "default", !.exporter = "otlp",
                      !.keyPath = "key", !.issuer = "iss", !.audience = "aud"]

\* One flag at a time set to another value.
Changes == {<<"listen", "">>, <<"listen", "bad">>, <<"redisDB", -1>>, <<"billet", "bad">>,
            <<"launcher", "docker">>, <<"namespace", "">>, <<"image", "">>,
            <<"jobTTL", -1>>, <<"jobTTL", MaxInt32 + 1>>, <<"slack", -1>>,
            <<"sandboxRuntime", "crun">>, <<"sandboxRuntime", "runc">>,
            <<"exporter", "zipkin">>, <<"protocol", "http">>, <<"ratio", "above">>, <<"ratio", "nan">>,
            <<"interval", -1>>, <<"keyPath", "">>, <<"issuer", "">>, <<"audience", "">>, <<"ttl", 0>>}

MCFlags == {Plain, Full} \cup
    {[f EXCEPT ![c[1]] = c[2]] : f \in {Plain, Full}, c \in Changes}

=============================================================================
