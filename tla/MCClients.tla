------------------------------ MODULE MCClients -----------------------------
(***************************************************************************)
(* Small instances of HttpClient, Http2Client and ResolverCache.  The      *)
(* three do not touch each other's variables (connect uses the cache only  *)
(* for its endpoints): a behaviour runs the one that part names, and the   *)
(* others rest, so that their states add up instead of multiplying.        *)
(***************************************************************************)
EXTENDS HttpClient, Http2Client, ResolverCache

VARIABLE part

vars == <<part, httpVars, http2Vars, resolverVars>>

ClientsInit ==
  /\ part \in {"http", "http2", "dns"}
  /\ HttpInit /\ Http2Init /\ ResolverInit

HttpPart  == part = "http"  /\ HttpNext     /\ UNCHANGED <<part, http2Vars, resolverVars>>
Http2Part == part = "http2" /\ Http2Next    /\ UNCHANGED <<part, httpVars, resolverVars>>
DnsPart   == part = "dns"   /\ ResolverNext /\ UNCHANGED <<part, httpVars, http2Vars>>

ClientsNext == HttpPart \/ Http2Part \/ DnsPart

ClientsSpec ==
  /\ ClientsInit /\ [][ClientsNext]_vars
  /\ (part = "http" => HttpFairness) /\ (part = "http2" => Http2Fairness)

\* The calls of http_client with a deadline, or on a connection that was closed, and
\* those of http2_client end.
ClientCallsEnd ==
  DeadlinesEndCalls /\ DeadlinesLostBetween /\ ClosedConnectionsEndCalls /\ CallsEnd

=============================================================================
