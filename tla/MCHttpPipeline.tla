--------------------------- MODULE MCHttpPipeline ---------------------------
(* Small instances of HttpPipeline.                                        *)
EXTENDS HttpPipeline

\* Every option on, and every option off.
MCConfigs == {[cors |-> on, rateLimit |-> on, authz |-> on] : on \in BOOLEAN}
=============================================================================
