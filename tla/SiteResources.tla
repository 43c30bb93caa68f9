--------------------------- MODULE SiteResources ----------------------------
(***************************************************************************)
(* The pools, the registrations and the deletion of a site, which takes    *)
(* the site's accounts, its registration and its proxy along.  They share  *)
(* the site's row, which assignments save whole and the proxies' handlers  *)
(* by the column.                                                          *)
(***************************************************************************)
EXTENDS GmailRegistration, ProxyPool

vars == <<site, asking, account, registering, proxy>>

TypeOK ==
    /\ site \in [Sites -> [deleted : BOOLEAN, proxy : Proxies \cup {NoProxy}, env : BOOLEAN, byHand : BOOLEAN]]
    /\ account \in [Accounts -> AccountRows] /\ reg \in [Sites -> RegRows] /\ proxy \in [Proxies -> ProxyRows]
    /\ outlook \in [Outlooks -> [deleted : BOOLEAN, ok : BOOLEAN]]
    /\ Len(number) <= MaxNumbers /\ \A n \in DOMAIN number : number[n] \in {"open", "used", "close"}
    /\ \A r \in Requests : Free(r) \/ req[r].op \in mix
    /\ started \in 0..MaxRequests /\ raced \in BOOLEAN

Init == RequestsInit /\ ProxyInit /\ AccountInit /\ RegistrationInit

-----------------------------------------------------------------------------
(* delete_site: the row goes to the recycle bin first, then what belongs   *)
(* to the site, each part in a try block of its own.                       *)

DeleteSite(r) ==
    \E s \in Sites :
        /\ Begin(r, "delete_site", "gmails", <<s>>, Nothing, Nothing)
        /\ site' = [site EXCEPT ![s].deleted = TRUE]
        /\ UNCHANGED <<account, registering, proxy>>

ReadGmails(r) ==
    /\ Has(r, "delete_site", "gmails") /\ UNCHANGED <<site, account, registering, proxy>>
    /\ Becomes(r, [req[r] EXCEPT !.at = "gmail", !.arg = {a \in Accounts : account[a].site = Here(r)}])

RemoveGmail(r) ==
    /\ Has(r, "delete_site", "gmail") /\ UNCHANGED <<site, registering, proxy>>
    /\ IF req[r].arg = {} THEN Goto(r, "registration") /\ UNCHANGED account
       ELSE \E a \in req[r].arg :
              account' = [account EXCEPT ![a].deleted = TRUE] /\ Becomes(r, [req[r] EXCEPT !.arg = @ \ {a}])

\* soft_delete_by_domain: the Outlook account stays as it is.
ReadRegistration(r) ==
    /\ Has(r, "delete_site", "registration") /\ UNCHANGED <<site, account, registering, proxy>>
    /\ Goto(r, IF Live(Here(r)) THEN "remove" ELSE "proxy")

RemoveRegistration(r) ==
    /\ Has(r, "delete_site", "remove") /\ Goto(r, "proxy") /\ UNCHANGED <<site, account, outlook, number, proxy>>
    /\ reg' = [reg EXCEPT ![Here(r)].deleted = TRUE]

\* soft_delete_by_site: the deleted row of the site goes on naming the proxy.
ReadProxyOfSite(r) ==
    /\ Has(r, "delete_site", "proxy") /\ UNCHANGED <<site, account, registering, proxy>>
    /\ LET p == site[Here(r)].proxy
       IN IF p = NoProxy \/ p \notin Listed({p}) THEN Done(r)
          ELSE Becomes(r, [req[r] EXCEPT !.at = "delete", !.arg = p])

DeleteProxyOfSite(r) ==
    /\ Has(r, "delete_site", "delete") /\ Done(r) /\ UNCHANGED <<site, account, registering>>
    /\ proxy' = [proxy EXCEPT ![req[r].arg].deleted = TRUE]

\* The recycle bin gives back one row, and nothing that went with it.
RestoreRow(r) ==
    /\ \/ \E s \in Sites : site[s].deleted /\ Begin(r, "recycle", "site", <<s>>, Nothing, Nothing)
       \/ \E p \in Proxies : proxy[p].deleted /\ Begin(r, "recycle", "proxy", <<p>>, Nothing, Nothing)
       \/ \E a \in Accounts : account[a].deleted /\ Begin(r, "recycle", "gmail", <<a>>, Nothing, Nothing)
    /\ UNCHANGED <<site, account, registering, proxy>>

SiteRestored(r) ==
    /\ Has(r, "recycle", "site") /\ Done(r) /\ UNCHANGED <<account, registering, proxy>>
    /\ site' = [site EXCEPT ![Here(r)].deleted = FALSE]

ProxyRestored(r) ==
    /\ Has(r, "recycle", "proxy") /\ Done(r) /\ UNCHANGED <<site, account, registering>>
    /\ proxy' = [proxy EXCEPT ![Here(r)].deleted = FALSE]

AccountRestored(r) ==
    /\ Has(r, "recycle", "gmail") /\ Done(r) /\ UNCHANGED <<site, registering, proxy>>
    /\ account' = [account EXCEPT ![Here(r)].deleted = FALSE]

DeletionNext(r) ==
    \/ DeleteSite(r) \/ ReadGmails(r) \/ RemoveGmail(r) \/ ReadRegistration(r) \/ RemoveRegistration(r)
    \/ ReadProxyOfSite(r) \/ DeleteProxyOfSite(r)
    \/ RestoreRow(r) \/ SiteRestored(r) \/ ProxyRestored(r) \/ AccountRestored(r)

Next ==
    \E r \in Requests :
        \/ ProxyNext(r) /\ UNCHANGED <<account, registering>>
        \/ AccountNext(r) /\ UNCHANGED <<registering, proxy>>
        \/ RegistrationNext(r) /\ UNCHANGED proxy
        \/ DeletionNext(r)
        \/ BreakOff(r) /\ UNCHANGED <<account, registering, proxy>>

Spec == Init /\ [][Next]_vars

-----------------------------------------------------------------------------
\* Two sites have one proxy only if an update of one's row named it, or requests
\* overlapped or broke off: no sequence of deletions, restorations, checks and
\* assignments, in which sites of a batch hand their own proxies on and others
\* have theirs by hand, does it (hubstudio_proxy.py:187).  (While a batch is
\* saved, two of its sites may share one.)
ProxiesApart ==
    ~raced /\ (\A r \in Requests : Free(r)) =>
        \A s, t \in Sites :
            s # t /\ site[s].proxy # NoProxy /\ site[s].proxy = site[t].proxy => site[s].byHand \/ site[t].byHand
=============================================================================
