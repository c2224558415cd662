------------------------------- MODULE MCNet -------------------------------
(***************************************************************************)
(* Net on a subnet with the gateway and one more station, a web host that is *)
(* asked for by name, the model service, and a proxy that answers for it.     *)
(***************************************************************************)
EXTENDS Net, TLC

MCHosts == {"web", "www", "llm", "near", "gw"}
MCAddr == "web" :> "ipweb" @@ "www" :> "ipwww" @@ "llm" :> "ipllm" @@ "near" :> "ipnear" @@ "gw" :> "ipgw"
MCLocal == {"ipnear", "ipgw"}
MCServers == <<"ipdns">>
MCOwner ==
    "ipweb" :> "web" @@ "ipwww" :> "www" @@ "ipllm" :> "llm" @@ "ipnear" :> "near" @@ "ipgw" :> "gw"
    @@ "ipdns" :> "dns" @@ "fake" :> "llm"
MCLiterals == {"near", "gw"}

Fetch(host, port) == <<"agent_http_fetch", host, port>>
Ingest(host) == <<"fleet_ingest_net", host, 80>>
Remote == <<"remote_connect", "gw", 80>>
Ask == <<"agent_llm_query", "llm", 443>>

Usual == [present |-> TRUE, steady |-> TRUE, x86 |-> FALSE, key |-> TRUE, dhcp |-> {"near"}]
Slow == [Usual EXCEPT !.steady = FALSE]

\* A DHCP server of either kind, the station of x86 and a device that is slow at
\* times before the shortest calls, the usual site before the others; every call
\* without a device, and a query without a key.
MCPlans ==
    [calls : {<<Ingest("near"), Remote>>}, site : {[Slow EXCEPT !.x86 = TRUE, !.dhcp = {"near", "far"}]}]
    \cup [calls : {<<Ask>>, <<Fetch("near", 0), Ingest("near")>>, <<Remote, Fetch("near", 80)>>}, site : {Slow}]
    \cup [calls : {<<Fetch("web", 80), Fetch("www", 80)>>, <<Ingest("near"), Ingest("near")>>,
                   <<Fetch("near", 443), <<"fleet_ingest_net", "near", 0>>>>}, site : {Usual}]
    \cup [calls : {<<Ask, Fetch("web", 80), Ingest("near"), Remote>>}, site : {[Usual EXCEPT !.present = FALSE]}]
    \cup [calls : {<<Ask>>}, site : {[Usual EXCEPT !.key = FALSE]}]
=============================================================================
