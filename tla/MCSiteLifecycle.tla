--------------------------- MODULE MCSiteLifecycle ---------------------------
EXTENDS SiteLifecycle

CONSTANTS wp, shop

\* The addresses of the rows there are at the start are alike, and a Shopify
\* site needs none and has no site on a panel; a
\* site with a panel of its own is on both.
MCInit ==
    /\ Init
    /\ \A d \in Domains \ Shopify : row[d].ip \in {"", "old"}
    /\ \A d \in Shopify : row[d].ip = "old" /\ d \notin preferred /\ <<"default", d>> \notin panel
    /\ \A d \in preferred : {<<"own", d>>, <<"default", d>>} \subseteq panel

\* Two jobs are for the WordPress site both; one for two sites has no other
\* next to it.
Alone(j) == job[j] = "absent" /\ Len(task'[j].todo) = 1 => Site(j)' = wp \/ wp \notin Domains

Within == \A j \in Runs : Alone(j)

MCSpec == MCInit /\ [][Next]_vars

MCFairSpec == MCSpec /\ \A j \in Runs : WF_vars(JobStep(j))
=============================================================================
