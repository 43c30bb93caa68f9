------------------------------ MODULE DomainDns ------------------------------
(***************************************************************************)
(* The DNS of the sites' domains: _run_dns_sync of                         *)
(* controllers/site_pipeline.py, and the clients it calls                  *)
(* (cloudflare_service.py, dynadot_service.py).                            *)
(*                                                                         *)
(* Each run is one thread of the pool and makes its calls one by one; two  *)
(* runs of one domain are not kept apart.  A call may fail, or its answer  *)
(* may be lost: Cloudflare's calls are then repeated, Dynadot's are not.   *)
(*                                                                         *)
(* External: Cloudflare refuses a zone that exists, a record like another, *)
(* and a CNAME next to a record of its name; a search by a name that is    *)
(* not complete finds nothing.                                             *)
(***************************************************************************)
EXTENDS Naturals, Sequences

CONSTANTS
    Domains, Shopify,   \* the domains, and those of the Shopify platform
    Addresses,          \* server addresses, and what was in the DNS before
    Runs,               \* the jobs whose threads run
    MaxFaults           \* bound: failed calls and lost answers

ASSUME DnsAssumption == Shopify \subseteq Domains /\ MaxFaults \in Nat

VARIABLES
    zone,               \* each domain's zone: status and records
    registrar,          \* whose name servers the registrar has
    run,                \* the threads
    faults              \* how many faults there were

dnsVars == <<zone, registrar, run, faults>>

Kinds    == <<"root", "www", "mx1", "mx2", "spf">>
AllKinds == {Kinds[i] : i \in 1..5}
Slots    == {"root", "www", "mx", "txt"}
Contents == Addresses \cup {"shopify", "mx1", "mx2", "spf", "other"}

Slot(k)       == CASE k \in {"mx1", "mx2"} -> "mx" [] k = "spf" -> "txt" [] OTHER -> k
Want(d, k, a) == IF k \notin {"root", "www"} THEN k ELSE IF d \in Shopify THEN "shopify" ELSE a

\* The CNAME of a Shopify site is searched by the name 'www'.
Alias(d, k) == d \in Shopify /\ k = "www"
Search(d, k) == IF Alias(d, k) THEN <<>> ELSE zone[d].rec[Slot(k)]

\* delete_records_by_type and the searches see what the registrar's former
\* DNS had, when the zone was made from it (jump_start).
Scanned(a) == [st |-> "pending", aaaa |-> TRUE,
               rec |-> [s \in Slots |-> CASE s = "root" -> <<a>> [] s = "txt" -> <<"other">> [] OTHER -> <<>>]]
NoZone     == [st |-> "absent", aaaa |-> FALSE, rec |-> [s \in Slots |-> <<>>]]

NoRun == [at |-> "idle", zone |-> "none", n |-> 1, put |-> 0, oks |-> {}, ns |-> "none"]

DnsTypeOK ==
    /\ \A d \in Domains :
        /\ zone[d].st \in {"absent", "pending", "invalid", "active"} /\ zone[d].aaaa \in BOOLEAN
        /\ \A s \in Slots : zone[d].rec[s] \in Seq(Contents)
    /\ registrar \in [Domains -> {"parked", "zone", "default"}]
    /\ \A r \in Runs :
        /\ run[r].at \in {"idle", "zone", "create", "aaaa", "search", "write", "ns", "done", "raised"}
        /\ run[r].zone \in {"none", "pending", "invalid", "active"}
        /\ run[r].n \in 1..6 /\ run[r].oks \subseteq AllKinds /\ run[r].ns \in {"none", "ok", "failed"}
    /\ faults \in 0..MaxFaults

DnsInit ==
    /\ zone = [d \in Domains |-> NoZone] /\ registrar = [d \in Domains |-> "parked"]
    /\ run = [r \in Runs |-> NoRun] /\ faults = 0

Fault == faults < MaxFaults /\ faults' = faults + 1

\* What only a fault brings about, unless there is a reason.
Unless(reason) == (reason /\ UNCHANGED faults) \/ Fault

Start == [NoRun EXCEPT !.at = "zone"]

At(r, at) == run[r].at = at
Turn(r, new) == run' = [run EXCEPT ![r] = new]
Goes(r, at) == Turn(r, [run[r] EXCEPT !.at = at])

-----------------------------------------------------------------------------
(* The zone.                                                               *)

GetZone(r, d) ==
    /\ At(r, "zone") /\ zone[d].st # "absent"
    /\ Turn(r, [run[r] EXCEPT !.at = "aaaa", !.zone = zone[d].st])
    /\ UNCHANGED <<zone, registrar, faults>>

\* No zone, or no answer: the zone is created.
GetNoZone(r, d) ==
    /\ At(r, "zone") /\ Goes(r, "create")
    /\ Unless(zone[d].st = "absent")
    /\ UNCHANGED <<zone, registrar>>

CreateZone(r, d) ==
    /\ At(r, "create") /\ zone[d].st = "absent"
    /\ \E a \in Addresses : zone' = [zone EXCEPT ![d] = Scanned(a)]
    /\ \/ Turn(r, [run[r] EXCEPT !.at = "aaaa", !.zone = "pending"]) /\ UNCHANGED faults
       \/ Goes(r, "done") /\ Fault
    /\ UNCHANGED registrar

CreateRefused(r, d) ==
    /\ At(r, "create") /\ Goes(r, "done")
    /\ Unless(zone[d].st # "absent")
    /\ UNCHANGED <<zone, registrar>>

-----------------------------------------------------------------------------
(* The records.                                                            *)

\* delete_records_by_type: what fails is only not counted.
DeleteIPv6(r, d) ==
    /\ At(r, "aaaa") /\ Goes(r, "search")
    /\ \/ zone' = [zone EXCEPT ![d].aaaa = FALSE] /\ UNCHANGED faults
       \/ Fault /\ UNCHANGED zone
    /\ UNCHANGED registrar

Kind(r) == Kinds[run[r].n]

\* The record at hand is settled, and the next one's turn comes.
Settled(r, ok) ==
    Turn(r, [run[r] EXCEPT !.at = IF run[r].n = 5 THEN "ns" ELSE "search", !.put = 0,
                           !.n = @ + 1, !.oks = IF ok THEN @ \cup {Kind(r)} ELSE @])

\* An address is compared with the first record found, a mail server and a
\* text with all of them.
InPlace(k, want, found) ==
    IF k \in {"root", "www"} THEN found # <<>> /\ found[1] = want
    ELSE \E i \in DOMAIN found : found[i] = want

\* What is to be written over: the first record found, none for a mail server.
Over(k, found) == IF found = <<>> \/ Slot(k) = "mx" THEN 0 ELSE 1

SearchRecord(r, d, a) ==
    LET k == Kind(r)  found == Search(d, k) IN
    /\ At(r, "search")
    /\ \/ Settled(r, FALSE) /\ Fault
       \/ InPlace(k, Want(d, k, a), found) /\ Settled(r, TRUE) /\ UNCHANGED faults
       \/ /\ ~InPlace(k, Want(d, k, a), found)
          /\ Turn(r, [run[r] EXCEPT !.at = "write", !.put = Over(k, found)]) /\ UNCHANGED faults
    /\ UNCHANGED <<zone, registrar>>

Refused(d, k, put, want) ==
    LET have == zone[d].rec[Slot(k)] IN
    \/ Alias(d, k) /\ have # <<>>
    \/ \E i \in DOMAIN have \ {put} : have[i] = want

Written(d, k, put, want) ==
    LET have == zone[d].rec[Slot(k)] IN
    zone' = [zone EXCEPT ![d].rec[Slot(k)] = IF put = 0 THEN Append(have, want) ELSE [have EXCEPT ![put] = want]]

\* PUT or POST; when the answer of a POST is lost, the repeated one is refused.
WriteRecord(r, d, a) ==
    LET k == Kind(r)  want == Want(d, k, a)  put == run[r].put IN
    /\ At(r, "write")
    /\ \/ Refused(d, k, put, want) /\ Settled(r, FALSE) /\ UNCHANGED <<zone, faults>>
       \/ Settled(r, FALSE) /\ Fault /\ UNCHANGED zone
       \/ /\ ~Refused(d, k, put, want) /\ Written(d, k, put, want)
          /\ \/ Settled(r, TRUE) /\ UNCHANGED faults
             \/ Settled(r, put # 0) /\ Fault
    /\ UNCHANGED registrar

-----------------------------------------------------------------------------
(* The name servers.                                                       *)

\* set_nameserver, with the registrar's answer; a lost one reads as a failure.
SetNameServers(d, whose, ok) ==
    \/ ok /\ registrar' = [registrar EXCEPT ![d] = whose] /\ UNCHANGED faults
    \/ ~ok /\ Fault /\ registrar' \in {registrar, [registrar EXCEPT ![d] = whose]}

NameServers(r, d) ==
    /\ At(r, "ns") /\ run[r].zone \in {"pending", "invalid"}
    /\ \E ok \in BOOLEAN :
        /\ SetNameServers(d, "zone", ok)
        /\ Turn(r, [run[r] EXCEPT !.at = "done", !.ns = IF ok THEN "ok" ELSE "failed"])
    /\ UNCHANGED zone

NameServersKept(r) ==
    /\ At(r, "ns") /\ run[r].zone = "active" /\ Goes(r, "done")
    /\ UNCHANGED <<zone, registrar, faults>>

\* An answer that is no JSON raises through the thread.
Raises(r) ==
    /\ run[r].at \notin {"idle", "done", "raised"} /\ Fault /\ Goes(r, "raised")
    /\ UNCHANGED <<zone, registrar>>

RunStep(r, d, a) ==
    \/ GetZone(r, d) \/ GetNoZone(r, d) \/ CreateZone(r, d) \/ CreateRefused(r, d)
    \/ DeleteIPv6(r, d) \/ SearchRecord(r, d, a) \/ WriteRecord(r, d, a)
    \/ NameServers(r, d) \/ NameServersKept(r) \/ Raises(r)

\* Cloudflare finds its name servers at the registrar, or finds others.
Checks(d) ==
    /\ zone[d].st # "absent"
    /\ zone' = [zone EXCEPT ![d].st = IF registrar[d] = "zone" THEN "active"
                                       ELSE IF @ = "active" THEN "invalid" ELSE @]
    /\ UNCHANGED <<registrar, run, faults>>

\* check_dns_ready_for_ssl, which a provisioning asks before it begins.
ReadyForSsl(d, a) ==
    zone[d].st = "active" /\ \E i \in DOMAIN zone[d].rec["root"] : zone[d].rec["root"][i] = a
=============================================================================
