------------------------------ MODULE FangyuConf ------------------------------
(***************************************************************************)
(* The Nginx configuration of a site as the three copies of the migration  *)
(* code see it: app/services/gateway_defense/nginx_lua.py (the service),   *)
(* and NginxConfigGenerator and FangyuTemplateMigrator of                  *)
(* nginx_template_migrator.py (the script and its template mode).          *)
(*                                                                         *)
(* A configuration is a sequence of lines, and of a line the model keeps   *)
(* what the code looks for.  "vars" is the group of set $fangyu_ and       *)
(* set $fy_ lines, "hide" the two proxy lines that go with the access      *)
(* directive, and a body_filter_by_lua_block is one line, as the code      *)
(* skips it by its braces.  The own... lines are the site owner's.         *)
(***************************************************************************)
EXTENDS Naturals, Sequences, FiniteSets

FangyuLines == {"include", "vars", "resolver", "access", "hide", "filter"}
OwnLines    == {"own", "ownRealIp", "ownFilter", "ownResolver"}
Lines       == FangyuLines \cup OwnLines \cup {"server", "location", "name", "end"}

Occurrences(s, kinds) == Cardinality({i \in DOMAIN s : s[i] \in kinds})
Has(s, kinds)   == Occurrences(s, kinds) > 0

(* ------------------------- blocks and insertion ------------------------ *)

\* Brace depth over the lines i..j.
Depth(s, i, j) == Cardinality({k \in i..j : s[k] \in {"server", "location"}})
                    - Cardinality({k \in i..j : s[k] = "end"})

Least(S) == IF S = {} THEN 0 ELSE CHOOSE x \in S : \A y \in S : x <= y

\* First and last line of the first block that opens with l; <<0, 0>> is "not found".
Block(s, l, from, to) ==
    LET start == Least({i \in from..to : s[i] = l})
        end   == Least({j \in start..to : start > 0 /\ Depth(s, start, j) <= 0})
    IN  IF start = 0 \/ end = 0 THEN <<0, 0>> ELSE <<start, end>>

ServerBlock(s) == Block(s, "server", 1, Len(s))

\* location / is looked for strictly inside the server block.
RootLocation(s) ==
    LET b == ServerBlock(s)
    IN  IF b[1] = 0 THEN <<0, 0>> ELSE Block(s, "location", b[1] + 1, b[2] - 1)

\* The lines l after position i.
Insert(s, i, l) == SubSeq(s, 1, i) \o l \o SubSeq(s, i + 1, Len(s))

InjectVariables(s, block) ==
    LET b == ServerBlock(s)
        n == Least({i \in b[1]..b[2] : i > 0 /\ s[i] = "name"})
    IN  IF b[1] = 0 \/ n = 0 THEN s ELSE Insert(s, n, block)

InjectAccess(s) ==
    LET r == RootLocation(s)
    IN  IF r[1] = 0 THEN s ELSE Insert(s, r[1], <<"access", "hide">>)

InjectBodyFilter(s) ==
    LET r == RootLocation(s)
    IN  IF r[1] = 0 THEN s ELSE Insert(s, r[2] - 1, <<"filter">>)

(* --------------------------- the service's copy ------------------------ *)

HasFangyu(s) == Has(s, {"vars", "include", "access"})

\* What a removal takes for Fangyu's: every real-ip line and body filter too.
Removed == {"vars", "ownRealIp", "include", "access", "hide", "filter", "ownFilter"}

\* What is left of the first i lines once those of the kinds are dropped.
Kept(s, kinds) ==
    LET f[i \in 0..Len(s)] ==
          IF i = 0 THEN <<>> ELSE IF s[i] \in kinds THEN f[i - 1] ELSE Append(f[i - 1], s[i])
    IN  f

Without(s, kinds) == Kept(s, kinds)[Len(s)]

\* Mutants: the body filter is forgotten; the removal does not look first.
RemoveOldButFilter(s) == IF HasFangyu(s) THEN Without(s, Removed \ {"filter"}) ELSE s
RemoveOldAlways(s)    == Without(s, Removed)

RemoveOld(s) == IF HasFangyu(s) THEN Without(s, Removed) ELSE s

ServiceBlock == <<"include", "resolver", "vars">>

Deployed(s) == InjectBodyFilter(InjectAccess(InjectVariables(RemoveOld(s), ServiceBlock)))

\* The text search before the write: it does not ask where a directive stands
\* or whose it is.
ValidLogic(s) ==
    /\ Has(s, {"vars"}) /\ Has(s, {"access"}) /\ Has(s, {"include"})
    /\ Has(s, {"filter", "ownFilter"})
    /\ Has(s, {"resolver", "ownResolver"})

(* --------------------- the script's and the template's ------------------ *)

\* Mutant: the script asks what the service asks.
ScriptHasFangyuOnly(s) == HasFangyu(s)

ScriptHasFangyu(s) == Has(s, {"vars", "access", "filter", "ownFilter", "ownRealIp"})

ScriptRemoveOld(s) == IF ScriptHasFangyu(s) THEN Without(s, Removed) ELSE s

ScriptBlock == <<"include", "vars">>

ScriptDeployed(s) == InjectBodyFilter(InjectAccess(InjectVariables(ScriptRemoveOld(s), ScriptBlock)))

ScriptValidLogic(s) ==
    /\ Has(s, {"vars"}) /\ Has(s, {"access"})
    /\ Has(s, {"filter", "ownFilter"})

TemplateBlock == <<"include", "vars">>

\* migrate_config removes without looking first and leaves the include.
TemplateRemoveOld(s) == Without(s, Removed \ {"include"})

Migrated(s) == InjectBodyFilter(InjectAccess(InjectVariables(TemplateRemoveOld(s), TemplateBlock)))

(* --------------------------- the server's view ------------------------- *)

\* nginx -t: none of these directives may stand twice in its block, and an
\* included file must exist.
Accepts(s, realIpThere) ==
    /\ Occurrences(s, {"include"}) <= 1
    /\ Occurrences(s, {"access"}) <= 1
    /\ Occurrences(s, {"filter", "ownFilter"}) <= 1
    /\ Occurrences(s, {"resolver", "ownResolver"}) <= 1
    /\ Has(s, {"include"}) => realIpThere

\* Every part of the defence once, the directives inside location /.
Whole(s) ==
    LET r == RootLocation(s)
    IN  /\ \A l \in {"include", "vars", "access", "filter"} : Occurrences(s, {l}) = 1
        /\ \A i \in DOMAIN s : s[i] \in {"access", "filter"} => i \in r[1]..r[2]

Clean(s) == ~Has(s, {"include", "vars", "access", "filter"})

Own(s) == Without(s, Lines \ OwnLines)

(* --------------------------- starting points --------------------------- *)

Plain       == <<"server", "name", "location", "own", "end", "end">>
OwnDefences == <<"server", "name", "ownRealIp", "location", "own", "ownFilter", "end", "end">>
OwnDns      == <<"server", "name", "ownResolver", "location", "own", "end", "end">>
NoLocation  == <<"server", "name", "own", "end">>
NoName      == <<"server", "location", "own", "end", "end">>
Redirecting == <<"server", "name", "own", "end", "server", "name", "location", "own", "end", "end">>

SampleConfs == {Plain, OwnDefences, OwnDns, NoLocation, NoName, Redirecting}
=============================================================================
