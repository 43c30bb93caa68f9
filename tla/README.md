# Verification of the site-pipeline back end

TLA+ models of the concurrent core of this repository: the FastAPI back end under
`src/app`, and the HubStudio agent (`src/app/agent/hubstudio_agent.py`), a client
of it on another machine. TLC checks the models on small instances; TLAPS proves
the main invariants for every value of the constants. `PROJECT.json` is the index:
it maps each definition to the lines it models and lists the runs, mutants,
findings, hazards and theorems.

## The program

One or more worker processes (two in the shipped deployment,
`src/deploy/entrypoint.sh`) each run an asyncio event loop over one MySQL database.
Four facts decide how the program behaves and how it is modelled:

- **Every `await` is an interleaving point.** No handler opens a transaction. Two
  statements are conditional updates (the claim and the report of a HubStudio job);
  all others are read, then change, then `save()`.
- **`save()` writes the whole row.** A task that holds a row across an await and
  saves it puts every other column back to what it read.
- **Blocking work runs in a thread pool under `asyncio.wait_for`.** The time-out ends
  the await, never the thread.
- **Background tasks live in memory.** A crash loses them and leaves their rows. A
  worker that starts fails the rows whose heartbeat is over two minutes old
  (`recover_stale_jobs`), including those of live tasks on other workers: a step of a
  task may last five minutes and writes no heartbeat meanwhile.

### Inventory

| Component | State | Operations | Interacts with | Hard part | Correct when |
|---|---|---|---|---|---|
| HubStudio orchestration (`services/hubstudio_service.py`) | `HubStudioJob`, `OperationJob`, hub columns of `Site` | dispatch, claim, report, cancel, retry, execute now | agents over HTTP, task centre, sites | competing claims, repeated and late reports, three tables brought up to date in separate statements | one claim and one outcome per queueing; nothing forgotten |
| HubStudio agent (`agent/hubstudio_agent.py`) | job in hand | poll, execute, report with resends | the service | lost answers, crash with a job in hand | reports what it claimed |
| Gateway defence runner (`services/tasks/gateway_defense.py`, `runner.py`) | `OperationJob`, gateway columns of `Site`, a semaphore | execute, auto-provision, deploy, fail safely | gateway admin API, pool threads, task centre | duplicate submissions, time-outs, failures of the failure handler | one deployment and one gateway site per site; every row settled |
| Site provisioning (`services/tasks/provision.py`, `controllers/site_pipeline.py`) | `OperationJob`, `Site`, a semaphore | check, create site, build, complete, delete, restore | 1Panel through pool threads | stale row held for minutes, the panel's site replaced in a thread that outlives its task | one run per site; row agrees with the panel |
| 1Panel client (`services/onepanel/*`) | none here | search, delete, create, wait, restore | external panel | resends of a POST, slow answers | – |
| Site controller (`controllers/site_pipeline.py`, `services/cloudflare*`, `providers/dynadot_service.py`) | `Site`, its relations, jobs | create, DNS, name servers, redirects, delete, restore, batches | Cloudflare, the registrar, panels | jobs of one site overlap, each with the row its request read; blocking calls in the event loop | a row that says resolved can be relied on; every job settles |
| Build of a site (`tasks/provision.py`, `services/onepanel/*`) | files, database, certificate on the panel | certificate, restore, inject, rebuild, replace domain, fetch keys, remove scripts | 1Panel through pool threads | stages in parallel, repeated calls, a directory another app of the domain owns | a finished site works; the helper scripts go |
| Nginx defence (`gateway_defense/nginx_lua.py`, `nginx_template_migrator.py`) | configuration, `nginx.conf`, files, the site's row | deploy, undeploy, check, migrate by hand | 1Panel | three copies of the editing code rewrite one configuration whole | the configuration is whole or untouched |
| Worker defence (`gateway_defense/cloudflare_worker.py`, `cloudflare_worker_deployer.py`) | routes, Workers, the site's row | deploy, undeploy, deploy by hand | Cloudflare | list, delete and add are three calls | deployed means the route leads to the site's Worker |
| Product import (`services/woo_import_service.py`, `importers/*`) | `ShopifyProduct`, jobs, a shared client | select, assign, import | WooCommerce, Shopify | two imports select the same rows; a POST that only seems to fail | what a row says of an import is so |
| Shopify collection (`services/shopify_collect_service.py`, `import_service.py`) | product and source rows, jobs | collect, refresh, import a file | shops | check, then insert; the source's row saved whole | every row counted once; every job settles |
| Resource pools (`controllers/gmail_account.py`, `outlook_account.py`, `hubstudio_proxy.py`) | assignments | find free, assign, check, release | sites | check, then save; rows in the recycle bin | without overlap no two sites share a proxy |
| Gmail registration (`controllers/gmail_registration.py`) | registration rows | number, code, confirm, bind | SMSMan, Outlook pool | minutes of waiting between read and save | code and identity are of the row's own number and account |
| Start-up (`core/init_app.py`) | advisory lock, version mark, seed rows | recover stale rows, synchronise, mark | every task system, the screens | several processes and two versions start together | one synchronises; nobody is given more than their role |
| Task centre (`api/v1/operation_jobs`, `controllers/operation_job.py`, `services/operation_job_service.py`) | `OperationJob` | cancel, claim, report, list | every task system | unconditional updates | an outcome is not overwritten |
| Departments, rate limit, provider configuration | closure table, windows, cache | update | requests | derived data kept in step | derived data agrees with its source |
| Cron jobs (`cron/*`) | `Site` | refresh, check | sites | stale rows saved after HTTP | no update is lost |
| Users, roles, menus, audit log, front end, utilities | independent rows | CRUD | – | none | – |

`PROJECT.json` lists every component with its status and every hazard with the
line where it bites.

## Modules

| Module | Models |
|---|---|
| `JobLedger` | abstract: a job is queued, taken and closed once per queueing |
| `HubJobs` | the orchestration service with its agents |
| `GatewayTasks` | the gateway defence task runner |
| `Provision` | the provisioning of sites and their deletion |
| `FangyuConf`, `FangyuInstall` | editing a site's Nginx configuration; the installers' calls |
| `WorkerRoutes` | the Cloudflare Worker's deployment |
| `Defences` | a site with one or the other defence (composes the three above) |
| `ProductImport`, `ShopifyCollect` | imports to sites and stores; the collection of products |
| `Catalogue` | both over the one product table |
| `SiteBuild` | the stages of a provisioning that `Provision` takes as one |
| `DomainDns`, `SiteLifecycle` | a domain's zone and registrar; the jobs of the site controller on them |
| `StartUp` | what a process does before it serves |
| `ResourceRequests` | what requests to the pools share |
| `ProxyPool`, `AccountPool`, `GmailRegistration` | the pools and the registrations |
| `SiteResources` | the three with the deletion and restoration of sites |
| `MC…` | symmetry sets and the restrictions of TLC's runs |
| `…_proofs` | the theorems (`GatewayDefence_proofs`: of `GatewayTasks` and of `Defences`) |

**HubJobs.** A handler is a process: `hpc[h]` names the statement it stands before
and `local[h]` holds what it has read. `ClaimRead`, `ClaimCas` and `ClaimReply` are
`claim_next_pending_job`; the chain `ReportRead … ReportReply` is
`report_job_result` with `_sync_site_from_job` and `_sync_operation_job`, a step for
each statement. `CancelRead/Save`, `RetryRead … RetryOpSave`, `DispatchRead … DispatchOp`
and `ExecSave`, `ExecRun` and `ExecUnavailable` (the server cannot import its executor and the
job stays running) are the operators' calls. `UpdateRead/Save` (`/site/update`) and
`AssignRead/Save` (`batch_assign_env_to_sites`) write a site's ids by hand; an update that changes none stands for the
whole-row saves of a site that other parts of the program make. An id
that no job gave is represented by the site it was entered for. An agent is a process with
`apc[a]` and `work[a]`; `Timeout` and `ConnectionLost` let it resend a report while the
handler of the first one still works. `AgentCrash`, `HandlerError` and
`ServerRestart` are faults. Payloads, heartbeats, the provider filter of a claim
and the raw create endpoint are left out. History variables count what happened to
a job (`queued`, `outcomes`, `wins`) and which jobs lost their executor to a fault
or never had one (`orphaned`). Of `_execute_job_sync` the second report that follows a failed one
is abstracted into its single outcome. A retry leaves
`execute_now` as FALSE, as its endpoint does. Two more writers of the ids are left out for want
of callers: `HubStudioJobController.report_job` (`controllers/site_pipeline.py:339`) and
`OperationJobService._sync_site_status` (`operation_job_service.py:228`), whose queue no worker
polls.

**GatewayTasks.** A submission is a process whose `pc` walks through
the request (`Submit … Create`) and the background task (`SemGet … Complete`). `status`
is the `OperationJob` row, `gid` the `gateway_site_id` column, `remote` the number of
sites the gateway made for a site, `installs` the pool threads at work, `sem` the
module's lazily created semaphore, which is tested and assigned on two sides of an
await. `Fail…` and `Force…` are the layers of `_safe_fail`.

**Provision.** The same kind of process, with the `Site` row it holds
(`copy`), the pool thread of its creation (`thread`, `found`), the panel (`panel`: the
id of a domain's site; `made`: how many it ever had) and the background deletion
(`deleter`, `target`). Of the row the model keeps the status, the panel id and the
deletion mark; `Save` writes all of it. The ten stages between the creation of the
site and the last save change none of these and are one stage (`Build`, `BuildFails`)
with the saves a rebuild makes (`Renamed`).

**SiteBuild.** `stage` is the awaited step of `_run_impl` from `apply_ssl` on; `busy` are the
pool threads at work, which a time-out (`TimesOut`) leaves running; the four threads
of `asyncio.gather` run together. `disk` keeps of a directory what a later step needs
(which `wp-config`, whose content, which scripts), `db` the domain in the texts and the
WooCommerce keys. `restore_files` is a chain of its own (`Unpack … PutConfigBack`), in
the two modes of the setting.

**FangyuConf, FangyuInstall, WorkerRoutes, Defences.** A configuration is a sequence of the
kinds of lines the code looks for, and each of the three copies of the editing code is an
operator on it. Deployment, removal and the hand-run script are runs, whose calls to the
panel are the steps: read `nginx.conf`, upload, read the configuration, write it, test,
reload, save the row. `places` says what the panel's `nginx.conf` has for the lines it needs
(an http block, an include of `mime.types`, or neither): without its place a line is not
added, and the upload is reported as done all the same. `WorkerRoutes` does the same for the
calls to Cloudflare. `Defences` chooses by the site's platform, as `_run_impl` does.

**ProductImport, ShopifyCollect, Catalogue.** A task has its selection, the copies it
works on and the call it is in. `rows` is the table of products, `shop` how many
copies of a product a store has. Requests, refusals, retries and the second look for a
SKU are steps; the limiter is what its requests come to. `batch_random_assign` assigns site after site
(`NextSite`) and then creates a job that says running (`CollectNow` is the collection a
request waits for). A collector has the listing
it walks and the row it is about to insert.

**DomainDns, SiteLifecycle.** Of a zone the model keeps its state and the contents of
the five records; `row` the columns the jobs write, all of them with each save. A DNS
job is a thread (calls one by one) and a coroutine that saves what the thread brings.
Creation and deletion work through their batch.

**StartUp.** A process walks from the schema to its configuration rows; `lock` and `mark`
are the two rows of the database, `menus`, `apis`, `menusOf` and `apisOf` what is
synchronised under the lock, `item` and `config` what every process completes without it.
Roles are created one by one, and each of a role's grants (its menus, their APIs, the
agent's APIs) is a step, so that a process may die between any two. Processes die, raise,
outlive their lock and belong to two versions.

**ResourceRequests, ProxyPool, AccountPool, GmailRegistration, SiteResources.** A request is a
record: the operation, the statement it stands before, the items left, the row it
has read. Of a row the columns that tell owners apart. A behaviour has the operations
of one of eleven mixes, which together have every operation and the pairs that write the
same row. `/site/update` (`EditSite`, `SaveEditedSite`) gives a site any proxy, whoever has it;
`byHand` are the sites whose proxy came that way.

What is outside `src/` is assumed as the code relies on it: a panel has at most one
site per domain and keeps the configuration it is given; the gateway makes one site
per successful call; WooCommerce refuses a second product with a SKU, a Shopify store
takes it; Cloudflare has one route per pattern, refuses a record like another one and
a CNAME beside a record of its name; a number of SMSMan is known by the request that
bought it. Any call to them may fail, also after its effect.

`disturbed` (GatewayTasks, Provision) is a history variable of the sites on which
the code itself gives up the agreement a property speaks of. A site is added when

- a row is settled by somebody else while it is running: a reclaim after 30 minutes,
  the task centre's cancel, `recover_stale_jobs` of this or another worker. None of
  these reaches the task, which goes on while the next one is let in;
- a crash or a failed statement leaves between two steps what only the task knew
  (the id of a gateway site just created; a panel's site just deleted);
- GatewayTasks: the site is saved after its job was completed
  (`gateway_defense.py:278`) over an id another task wrote;
- Provision: the site is deleted, or a thread whose task has timed out goes on to
  delete what it found on the panel.

## What TLC checks

| Run | Shows |
|---|---|
| `hub_claims` | two agents, three requests in flight, a retry, a cancel and a fault: `ClaimExclusive`, `OutcomeOncePerQueueing`, `RunningHasOwner`, `SettledUntilRetried`; the service implements `JobLedger` |
| `hub_live` | two jobs of two types on one site, a third for another account, the server's own executor, and a retry or a site edited by hand: `OpSuccessBacked` (no more successes in the task centre than were reported), `SiteIdsBacked` (environment and account ids come from jobs of the site that succeeded, or were entered for it by hand); every queued job is taken and every taken job settled, one excepted whose executor the server cannot import |
| `gateway` | two submissions, one permit, three disturbances (reclaim, cancel, faults): `ExclusiveDeploy`, `GatewaySiteRecorded`, `RunningHasTask`, `AcceptedSettles` |
| `provision` | two provisionings and one disturbance (reclaim, cancel, deletion or fault): `ExclusiveProvision`, `RunningHasTask`, `CreatedIsOnPanel`, `SuccessMeansCreated`, and `AcceptedSettles` although a pool thread may never end |
| `site_build` | one build, three faults, both modes, with or without an older app: `BuiltSiteWorks` (a finished build has its files, its `wp-config`, its database (unless the rewriting left texts out, which is only logged), its key and its scripts), `BuildSettles` (it ends, and the helper scripts go) |
| `defences` | two runs on one Nginx site, three on one Cloudflare zone, each call failing or answered too late, with every layout of `nginx.conf`: `FangyuWhole`, `ReferencedFilesExist`, `OwnLinesKept`, `DeployedIsDefended` (the configuration is whole and `nginx.conf` has the lines it has places for), `CopiesAgree` |
| `catalogue` | two tasks of imports and collections over two products, a WooCommerce site and a Shopify store, a fault, an edit: `SuccessIsOnShop`, `CountedOnce`, `JobsSettle` (the jobs of a batch's random assignment excepted, which nothing completes) |
| `catalogue_twice` (finding) | two imports, no fault: a Shopify store gets a product twice (`OncePerSite`) |
| `lifecycle` | two jobs at one site or one at two, a fault, an edit: `ResolvedIsReady` (records, name servers and the provisioning's DNS check agree with the row), `JobsSettle` |
| `start_up` | three starts of two processes in two versions, a fault or an edit: `OneSynchronises`, `LeastPrivilege` (the user's APIs and the agent's, of which there are more than the agent needs) |
| `start_up_mark` (finding) | the mark names a version nobody has synchronised (`MarkedIsSynchronised`) |
| `resources` | three requests, two of them at a time, of eleven mixes of operations: `CodeOfItsNumber`, `IdentityOfItsOutlook`, `ProxiesApart` (of the sites whose proxy no update named) |

Every property of a passing run has a mutant: a plausible bug in a mapped
definition under which TLC finds the property violated.

**Bounds.** Each counter that could grow is bounded by a constant in a guard
(`MaxJobs`, `MaxRetries`, `MaxFaults`, `MaxEvents` …), named as a bound in its module.
The races are between two actors about one row, so two tasks (or agents, processes,
requests) on one site show each of them. Three handlers let a resend, the report it
repeats and an operator meet. One to three faults at any point cover a failure and a
failure of what handles it. Symmetry is used in runs without liveness only.

Some MC modules restrict the bounded instance further (`Within`, an `ACTION_CONSTRAINT` of
the run). They cut only what users, submissions, other processes and faults do, none of
which is under fairness, or one of several alike; each names what it leaves out:

- `MCHubJobs`: a retry and an edit count as a job each, and there is one or the other; the third
  job gives a site another account when nothing else is under way; a site is edited once a job
  was dispatched, in one column; the server's own executor has the first job, of a behaviour
  without a retry; idle handlers are alike;
- `MCGatewayTasks`, `MCProvision`: reclaims, cancels and faults count together (three, one),
  and a provisioning is disturbed only while something is under way;
- `MCSiteLifecycle`: an address is set before a job and not in every combination; a job
  for two sites has no other beside it;
- `MCStartUp`: an older version does not start after a newer one, users edit while
  a process is about to save and where there is no fault, and the tables that no lock guards are not read in the
  middle of another's synchronisation;
- `MCCatalogue`: a batch of random assignments is for all sites over all products, and only its own
  saves fail while it goes on;
- `MCSiteResources`: the eleven mixes; all pairs of all operations were too many;
- `Catalogue`: tasks are numbered in the order in which they start; users edit while something runs.

The `TypeOK` of Defences, Catalogue, SiteBuild and SiteLifecycle states the shape of
their variables; the runs spend their time on the other properties, and the invariants of
the proofs contain what types they need. The theorems name that of HubJobs, GatewayTasks,
Provision, StartUp and SiteResources, and the runs check these; `DefencesTypeOK` is proved only.

**Deadlock.** Runs say `CHECK_DEADLOCK FALSE` where everything that was asked for ends and
nothing more happens. The HubJobs runs check deadlock, since agents poll for ever.

**Fairness.** `WF` of a handler's, request's, task's or job's next step: the event loop
resumes what can run. A task's step includes its time-out, which `wait_for` guarantees, and
in SiteBuild, Catalogue and SiteLifecycle the answers of calls, whose clients have
time-outs of their own. `WF` of an agent's loop. No fairness is assumed of Provision's and
GatewayTasks' pool threads, the background deletion, users, submissions or faults.
StartUp and the pools promise nothing that must eventually happen.

### Known divergences

The two findings, and what else the models showed the code to do against its own words.
Those with a configuration can be seen with
`tlc -config <cfg> <module>`; each checks one property and ends in a counterexample.

| Configuration | Property | The code says | It does |
|---|---|---|---|
| `HubJobsCancel` | `CancelOnlyOpen` | only open jobs can be cancelled (`hubstudio_service.py:335`) | a cancel overwrites a result that came after it read the row |
| `HubJobsRetry` | `RetriedOpSettles` | a retry resets the `OperationJob` (`:301`) | it stays pending for ever |
| `GatewayLimit` | `PermitsLimited` | a limit of deployments | tasks that start together create a semaphore each |
| `ProvisionDeleted` | `DeletedStays` | a deleted site is in the recycle bin | the whole-row save brings it back |
| `ProvisionExists` | `CreatedNotDowngraded` | a completely built site is not touched | with conflict cleaning off, an older copy marks it as merely existing |
| `DefencesRedeploy` | `RedeployAccepted` | removal prepares an idempotent deployment (`nginx_lua.py:259`) | the second deployment doubles the resolver; `nginx -t` fails and nothing is rolled back |
| `SiteBuild`, with this as its invariant | `LateCertificateFallsBack` | a late certificate means http (`ssl_manager.py:80`) | the provisioning fails |
| `SiteBuildOlder` | `MuPluginInstalled` | the plugin is injected after the rebuild (`provision.py:336`) | it goes to the directory of an older app of the domain |
| `LifecycleAgain` | `FaultlessRunResolves` | `add_or_update` is idempotent (`site_pipeline.py:281`) | the second DNS job of a Shopify site fails at its CNAME |
| `LifecycleDelete` | `NotFoundIsAbsent` | "found on none of the providers" (`site_pipeline.py:729`) | also when a provider could not be asked |
| `StartUpEdits` | `EditsKept` | what exists is not overwritten (`init_app.py:1135`) | a whole-row save puts a user's value back |

Without a property, as the code promises nothing or the model abstracts from it:

- *Stale rows.* Every handler that saves a row it read before a wait may undo another's
  write: DNS, redirect and synchronisation jobs, `/assign` of accounts, `update_proxy`
  (which can write `testing` back), a registration deleted meanwhile, `source.save()`.
- *By hand.* `/site/update` writes any environment, account or proxy id to a site, without the check
  behind "每条代理只能分配一个站点" (`hubstudio_proxy.py:95`).
- *Check, then write.* Overlapping batches give two sites one proxy or one account; file
  imports of proxies have no unique index; two imports select one product.
- *Verdicts.* A redirect job succeeds though its rules failed, a DNS job though some records did;
  manual imports report success whatever the result; `/assign` answers 400 after saving;
  `confirm_sms` completes a registration without a code. A build goes on and says created though
  rows or tables kept the old domain (`provision.py:277`). An `nginx.conf` without an http block
  or an include of `mime.types` is uploaded without the lines and reported as completed, and
  the row says deployed (`nginx_lua.py:604`).
- *No verdict.* The job of `batch_random_assign` is created as running when its work is done, and
  never completed (`shopify_collect.py:218`). A job the server takes without being able to import its
  executor stays running (`hubstudio_service.py:190`).
- *Lost answers.* `get_phone` may buy twice; a POST to Cloudflare or a panel is repeated;
  a timed-out POST to WooCommerce that raises `ExternalAPIError` is not looked up by SKU.
- *Recycle bin.* A restored site does not get its accounts and proxy back; a restored
  registration may share its Outlook account with the one it went to meanwhile; a
  deleted proxy is still handed out by `batch_assign_sites`.
- *Copies of code.* The script uploads under the domain, while its configuration names the
  first server name; the template mode leaves the include line of an older defence.
- *Start.* A process that dies between a role and its grants leaves the role without
  menus, one between the menus and their APIs leaves menus that no later start gives their APIs
  (`init_app.py:835`); an administrator never gets the APIs added to a menu there is already.

## What is proved

For any number of agents, requests, tasks, processes, sites, products, jobs, permits and
faults:

| Module | Theorem | Property |
|---|---|---|
| `HubJobs_proofs` | `TypeCorrect`, `ClaimsAreExclusive` | `TypeOK`, `ClaimExclusive` |
| | `ServiceImplementsLedger`, `OutcomesAreSingle`, `SettledStays` (`~ExecuteNow`) | `ImplementsLedger`, `OutcomeOncePerQueueing`, `SettledUntilRetried` |
| | `RunningIsOwned`, `SiteIdsAreBacked`, `OpSuccessesAreBacked` | `RunningHasOwner`, `SiteIdsBacked`, `OpSuccessBacked` |
| `GatewayDefence_proofs` | `TypeCorrect`, `RunningRowsHaveTasks`, `DeploymentsAreExclusive`, `GatewaySitesAreRecorded` | `TypeOK`, `RunningHasTask`, `ExclusiveDeploy`, `GatewaySiteRecorded` |
| | `ConfigurationWhole`, `OwnLinesStay`, `DeployedStaysDefended`, `ScriptAgreesWithTemplate` | `FangyuWhole`, `OwnLinesKept`, `DeployedIsDefended`, `CopiesAgree` |
| | `FilesReferencedExist` (`ServerNameIsDomain = TRUE`) | `ReferencedFilesExist` |
| | `DefencesInvariant`, `DefencesTypeCorrect` | the invariant that carries these; the types |
| | `DeployedWhole`, `DeployedPasses`, `ScriptUndone` | what the editing code makes of every configuration |
| `Provision_proofs` | `TypeCorrect`, `RunningRowsHaveTasks`, `ProvisioningsAreExclusive` | `TypeOK`, `RunningHasTask`, `ExclusiveProvision` |
| | `CreatedSitesAreOnPanel`, `SuccessesAreCreated` | `CreatedIsOnPanel`, `SuccessMeansCreated` |
| `SiteBuild_proofs` | `BuiltSitesWork` | `BuiltSiteWorks` |
| `SiteLifecycle_proofs` | `ResolvedCanBeReliedOn` | `ResolvedIsReady` |
| `Catalogue_proofs` | `ImportedIsThere`, `CountsAreDisjoint` | `SuccessIsOnShop`, `CountedOnce` |
| `SiteResources_proofs` | `ResourcesTyped`, `ProxiesStayApart` | `TypeOK`, `ProxiesApart` |
| | `CodeIsOfItsNumber`, `IdentityIsItsOutlooks` | `CodeOfItsNumber`, `IdentityOfItsOutlook` |
| `StartUp_proofs` | `TypeSafe`, `SynchronisedByOne`, `GrantedLeast` | `TypeOK`, `OneSynchronises`, `LeastPrivilege` |

They use only the named assumptions of the modules on their constants: that "none" is no
id, that ids which are compared and bounds are naturals, that the products and the sources are
two tables (`TablesAssumption`), that a query lists finitely many sites and proxies
(`RequestsAssumption`, `ProxyAssumption`), and which menus and APIs there are (StartUp).
One theorem has a hypothesis on a constant. `FilesReferencedExist` assumes that the site's
first `server_name` is its domain: the script uploads to a directory named after the one and
refers to a directory named after the other, so without it the property does not hold (see
*Copies of code* above).

None of the properties is inductive as it stands, and nearly always for the same reason:
the code reads a row, waits, and saves it whole. What the property says of the table
must therefore be said of every copy somebody may still save. What is added to that:

*HubJobs.* `TypeInv` strengthens `TypeOK` by what a handler at each place holds (a job it
read was issued, and so on). `ClaimInv` numbers the queueings of a job: a job in the queue
has a queueing nobody has claimed, so the winner of the compare-and-set holds a turn no
earlier winner holds. One lemma treats every step but the compare-and-set and its answer,
since none of them makes a new holder. The refinement maps each step to `Queue`, `Take`,
`Close`, `Withdraw` or `Forget`, or a stutter, and needs that a fresh id has no history and
that an open job has an outcome to come. It excludes the server's own executor:
`_execute_job_sync` marks a job running without a condition, so with it a settled job may be
opened again. `Owners` says who owns the present queueing of a running job that is not
orphaned, and rests on `Pairing`: the request an agent waits for is served for that agent
and about the job it has. `SitesInv` says of each copy of a site's row, the ones that
requests by hand hold included, that an id which is a job's is that of a job of this site
that succeeded (`Backed`), which stays so because successes are only added (`WinsGrow`).
`PaidInv` counts with the successes that the task centre shows those that accepted reports
have still to write (`Owing`): each was paid for by the success it was accepted with, and
`OpRowsInv` has that the row a report picked is still one of the right site and action when
it is saved.

*GatewayTasks, Provision.* Exclusion is inductive with the type invariant alone: a
row starts to run only at `Create`, which comes before the check, and a check that
passes has seen no other running row. What fails without strengthening is the
agreement with the outside. `RunsInv` says that on an undisturbed site every task
before its `Complete` still has a running row; with exclusion it is the only one
there, so what it holds cannot be made stale. `GateInv` then says that the id it is about
to save is the site's first. `PanelInv` (Provision) says that until
its thread deletes anything the panel is as the row says (`Before`), that the id its thread
brings back (`Answered`) and the one in its copy (`Held`) is the panel's, and that its
site is saved before its job is completed (`Closing`).

*Defences.* Two layers. The first is about the editing code, `FangyuConf`, and holds for
every configuration, that is every sequence of lines of any length. What the removal leaves
(`Without`) is described by what it drops, what it keeps and how it goes through two parts
(`WithoutLines`, `WithoutNone`, `WithoutAll`, `WithoutSame`, `WithoutConcat`); what the
three insertions do to the brace depth gives where the server block and `location /` are
afterwards. Together: from a configuration that has the whole defence or no trace of it
(`Sound`), both deployments write the whole defence or their own text check refuses the
result (`DeployedWhole`), and the owner's lines stay in their order unless the removal ran;
where a server name and a `location /` are found it is not refused (`DeployedPasses`),
wherever in the server block the name stands. The second layer is the interleaving of runs,
`DefencesInv`. `ConfInv`: every configuration a run has read and is about to put back is
`Sound` as the one on the panel is, which is what makes the last writer harmless whoever it
is. `FilesInv`: a run that may write has uploaded both files to the directory it will name.
`MainInv`: past its steps about `nginx.conf` a run leaves in that file every line the file has a
place for, unless an upload
failed or overlapped another one. `OutcomeInv`: a run marks the row deployed from its
verdict, some steps after it was true, so the verdict must stay true until the save.
`RouteInv` and `WorkerInv` are the same for Cloudflare: an id is given to one route only, so
that the route a Worker run deletes is the one it listed, and a deployment never deletes a
route that leads to the site's own Worker.

Induction along a sequence cannot cite the library's theorems, which take an operator. The
lemmas take the least counterexample instead: a set of naturals that is not empty has a
least element (`HasLeast`), and the positions at which a claim fails are such a set. The
proofs also showed that in four definitions (`Save`, `SaveSite`, `Want`, `Applied`) the
guards of a CASE overlapped: TLC takes the first that holds, TLA+ leaves the choice open,
and nothing could be proved of them. They are IFs now, in the order of the code.

*SiteBuild.* `BuildInv` says of every stage what is settled by then, and is not claimed of a
build that has failed. `ThreadsInv`: only the awaited stage's threads are at work, and the
removals, since each stage's thread is awaited to its end or the build fails. The parts are
made in one place and relied on in another: `ScriptsInv` (the script that answered is in the
directory the task works in, so the directory was the right one), `TextInv`, `ConfigInv` and
`PluginInv` (the domain, where the rewriting got to all texts, the `wp-config` and the
plugin survive the rebuilds and the second restore), `KeyedInv` (the key was made by the
script that answered). The weakest point is `PluginInv`, which holds only where no older app
of the domain is listed.

*SiteLifecycle.* `LifeInv` adds to the rows what each thread has done so far: the records
it counts as set are set (`RunOk`), and the copies its job still holds may say resolved
only if that is so (`ItemOk`). That a record stays set while other jobs write is the
relation `Grows`: every step only adds to a domain's zone, registrar and history of
addresses. It is what the condition of `ResolvedIsReady`, that all jobs of the domain asked
for the same address, is for.

*Catalogue.* `ImportInv` says of every copy a task holds what `SuccessIsOnShop` says of the
table (`SoundRow`), and that a task past its assignments has copies that name its site, or
the success of one site's import would be written beside another's name. Products are only
added to shops. `CountInv` says that a collector's page and what it is about to insert are
disjoint from what it has counted, and that what was counted is in a table: an insert that
succeeds is thus of a row that nobody has counted.

*SiteResources.* `AskingInv` has the shape of the requests and what each operation may be
of. `RegInv` says of every registration's row, in the table or in a request, that its code
and its identity are its own; a wait for a code that is saved after another number was
bought is right, because number and code are saved together. `PoolInv` has the types of the
pools and of what requests hold of them. `ApartInv` speaks of the middle of a batch, when
two of its sites may share a proxy for a moment: the sites it has done with, and all
outside it, have proxies of their own, and the list it still has to give out is nobody's
of these. Sites whose proxy an update named are excepted, and what a request holds of a row is
either such a site's or as in the table.

*StartUp.* `LockInv`: the lock of a process that synchronises and was not outlived is its
own. `PrivilegeInv`: the menus from which a process is about to match a role's APIs, in
either of the two places that do so, have been granted to the role before (`MenusFirst`).
`TypeOK` contains that only existing menus and APIs are granted, and only to roles there are.

Checked by TLC only:

- liveness (`PendingIsTaken`, `RunningIsSettled`, `AcceptedSettles`, `BuildSettles`, `JobsSettle`),
  which the prover cannot treat;
- the two findings and the other divergences, which are counterexamples.

Every safety invariant of a passing run is the statement of a theorem.

## What is not modelled

The content of what is deployed or restored, payloads, logs and step lists, back-off
times; components with status `not_modelled` in `PROJECT.json`, with the reason. Of the
modelled ones: the heartbeat table, the permanent deletion of a row, listings and
synchronisation of status columns from the panel, `batch_assign` of users, uploads of
account files, and code without callers (`undeploy` is modelled, for it is the pair of
`deploy`; `provision_dns` and `rollback.py` are not). A panel id the list did not show
within a minute is recorded as 0 (`wait_site_id`); `CreatedIsOnPanel` says nothing of
such a row. Provision and SiteBuild are not composed: the one has the stages of the
other as `Build`, with the saves of the site's row that they make. Not among the faults: a last
`job.save()` of the site controller's batches that fails (`site_pipeline.py:801`, `858`, `1017`),
which would leave the job running, and a failing statement of a collection, in or before its
handler (`shopify_collect.py:84`). Zone statuses other than `active`, `pending` and
`invalid_nameservers` (with which the jobs leave the registrar alone) are left out.

## Plan

Done: the modules above, their runs, and the proofs of every safety property the runs
check. Next:

1. Proofs: a common abstract task (accepted, run, settled) that GatewayTasks and Provision
   implement.
2. `OperationQueue`: the task centre's worker API (`claim_next_pending` and
   `report_result` without conditions), once the repository has a worker for it.
3. Pure modules: the departments' closure table against the parent relation, the two
   rate-limit windows against one.
