# Verification of the configuration management service

TLA+ models of the multi-tenant configuration service in `src/`, the TLC runs
that check them on small instances, and proofs that TLAPS checks for every
instance. `PROJECT.json` lists the runs, for each modelled definition the
source lines it stands for, for each property a plausible bug that breaks it
(the operators named `Mut...`, which no specification uses), and the hazards
of the code with the properties that watch them.

Contents: [the system](#1-the-system), [the modules](#2-the-modules),
[the runs](#3-the-runs), [fairness](#4-fairness), [the proofs](#5-the-proofs),
[what disagrees with the documentation](#6-where-the-code-and-its-documentation-disagree),
[what is not modelled](#7-what-is-not-modelled), [what comes next](#8-plan).

## 1. The system

Paths are relative to `src/`.

    HTTP client ──> order-service ──gRPC, caller's token──> config-service ──> DynamoDB
                     cache, orders                           guards, pipes      (per tenant)
                                                             two maps  ───────> SSM
                                                                ^              (parameters)
                       refreshConfig, one call per task         |                  |
                     refresh Lambda ────────────────────────────┘                  |
                        ^    looks the tasks up in Cloud Map                       |
                        └──────────────── EventBridge rules <──────────────────────┘

Every process is a single-threaded Node.js program. What runs between two
`await`s cannot be interrupted; at an `await` anything may happen: other
requests, commits of other loads, changes of the stores, the end of the
process. That is where the hard behaviour is.

### Components

**Parameter cache of the config-service** (`ssm-config.strategy.ts`,
`ssm.service.ts`, `configuration.service.ts:109`, `param-mapper.ts`,
`new-parma-mapper.util.ts`).
*State:* `parameters` (pairs grouped by service, read by `retrieveConfig`) and
`newParameters` (a tree along the paths, read by `retrieveConfigs`).
*Operations:* a load, started by the constructor without being awaited and by
every refresh; it reads SSM page by page, then replaces one map and then the
other. *Hard:* overlapping loads, changes between pages, failed pages, a mapper
that throws before the two assignments or between them (colliding paths, refused
segments, services named as something every object inherits), the unhandled
rejection of the first load, empty pages. *Correct when:* what is served was in the
store while its load ran; the two maps belong together unless a mapper threw; a
refresh that SSM fails changes nothing; loads end; a task comes to serve in the end
if the mappers let it.

**Retrieval** (`configuration.controller.ts`, the guards of `libs/auth`, the
interceptor, the pipes, `config-strategy.factory.ts`, the strategies,
`libs/filters/.../grpc.exception.filter.ts`).
*State:* per call the token, the tenant that was found in it, what is awaited;
shared: the maps and the cached signing key. *Operations:* the four gRPC calls.
*Hard:* the token may expire while the signing key is fetched, the maps may be
replaced while a call is under way, DynamoDB's queries are eventually
consistent, errors must become the right status. *Correct when:* only callers
with a token that held are served, with their own active configuration; a batch
is of one load and complete.

**Order service** (`orders.service.ts`, `config-client.service.ts`,
`orders.controller.ts`). *State:* `configCache` (key -> data, no tenant, no
expiry) and the list `orders`. *Operations:* create, findAll, findOne, each after
`ensureConfigsLoaded`. *Hard:* what is missing is decided once, before three
awaits; failed fetches are swallowed; `create` reads the cache twice. *Correct
when:* a create adds exactly one order, lists are what there was at one moment,
no order is seen by another tenant, an order follows its tenant's configuration.

**HTTP side of the order service** (`app.module.ts`, the guards and decorators of
`libs/auth`, `custom-validation.pipe.ts`, the filters of `libs/filters`).
*State:* per request its token, its tenant, its response. *Operations:* guards,
pipe, handler, filter. *Hard:* the token is verified on entry and again by the
config-service at each of the three fetches, and may expire in between; requests
may name a tenant, and the body of a create is spread over what the token says;
each exception must meet the right filter. *Correct when:* the status tells what
became of the request, users act for the tenant of their token and nobody sees
another's orders, and an order goes unchecked only for a cause.

**Propagation of changes** (`infrastructure/event-driven-refresh.yaml`,
`infrastructure/lambda/refresh-trigger/src/index.ts`, discovery and tasks in
`app-infrastructure.yaml`). *State:* events with their attempts, invocations of
the Lambda, DNS answers, tasks and their loads. *Operations:* rule, resolve,
one call after the other, retry, dead-letter queue; ECS starts and stops tasks.
*Hard:* deadlines that pass while the load goes on, a Lambda that is killed half
way, tasks that come and go while addresses are cached, events side by side, a
change the mappers throw for.
*Correct when:* an event is settled in the end; "done" means a task has read the
change; every task serves the last change in the end.

**Seed script** (`infrastructure/scripts/seed-tenants.ts`). *State:* the three
stores, and how far each run of the script has come. *Operations:* one AWS call
after the other. *Hard:* a run stops at the first error and is repeated on what it
left behind; runs overlap; an answer may be lost after the call took effect;
administrators change things meanwhile. *Correct when:* a run that succeeds leaves
everything seeded, as far as the script writes it, and nobody can log in to a tenant
that is seeded by half.

**Others**: the rest of `libs/filters`, `libs/logger`, `libs/proto`, health
endpoints, bootstrap, deployment scripts, static resources. Section 7 says why
they are left out.

## 2. The modules

| module | models | lines of |
|---|---|---|
| `CacheContract` | abstract: what readers of the cache may rely on | - |
| `ParameterCache` | one process, its loads with their pages, SSM, restarts | config-service |
| `ParameterCacheProofs` | the theorems about it | - |
| `ParamMaps` | both mappers and both lookups, parameter by parameter | config-service |
| `ParamMapsProofs` | the theorems about it | - |
| `Retrieval` | the calls from the guards to the answer, beside refreshes | config-service, auth, filters |
| `RetrievalProofs` | the theorems about it | - |
| `OrderBook` | abstract: what clients of the order service may rely on | - |
| `OrderService` | concurrent handlers, the cache, the list | order-service |
| `OrderServiceProofs` | the theorems about it | - |
| `OrderApi` | the requests around the handlers: guards, pipe, filters, tokens | order-service, auth, filters |
| `OrderApiProofs` | the theorems about it | - |
| `SeedTenants` | runs of the seed script, the three stores | scripts |
| `SeedTenantsProofs` | the theorems about it | - |
| `RefreshPipeline` | events, the Lambda, discovery, tasks | infrastructure |
| `RefreshPipelineProofs` | the theorems about it | - |
| `MC*` | constants, symmetry for TLC | - |

The modules are composed by abstraction: each uses of another component what that
component's own module shows it to do. `ParameterCache` knows of the mappers only
which parameters collide, are refused or are shadowed, and `ParamMaps` shows that this
is what the loops do (`TreeThrowsOnCollision`, `TreeServes`). `Retrieval` and
`RefreshPipeline` take a load as one read and a later commit, for which a mapper may
throw. `OrderService` takes an answer of the config-service for what `Retrieval`'s
`OwnActiveConfiguration` says: the caller's own configuration, or an error. `OrderApi`
extends `OrderService`: each of its steps that touches a handler is a step of
`OrderService`, and a fetch succeeds only if the config-service may accept the token,
as `Retrieval`'s `OnlyVerifiedCallersAreServed` has it. That `OrderApi` implements
`OrderService` is proved (`HandlersBehindGuards`). `ParameterCache` implements
`CacheContract` and `OrderService` implements `OrderBook`, under the mappings at their
ends.

### ParameterCache

`hist` is the store's history, its last element the store. A load is `idle`,
`asked` (a request to SSM is out), `answered` (the page is on its way back) or
`failed`. `Start` and `Refresh` begin loads, `Serve` and `Fail` are SSM,
`NextPage`, `Finish` and `GiveUp` the continuations in `getParameter` and
`loadParamters`, `Kill` and `Exit` the end of the process. `Commit` has the
order of the assignments. `paramMapper` comes first; it throws a TypeError for a
service named as something every object inherits (`Inherited`, `GroupThrows`), and
then neither map is replaced. `newParamMapper` comes after `parameters` has been
replaced; it throws for colliding paths and for refused segments (`Refused`,
`TreeThrows`). The rejection (`Reject`) ends the process if nobody awaits it, which
is the case for the constructor's load only. `asOf` and `acked` are history
variables. SSM lists parameters in a fixed order and a page ends anywhere; with
`EmptyPages` it may also send an empty page with more to follow.

### ParamMaps

`Take(p)` is one round of both loops over SSM's answer. A path is the sequence
of its segments, and a value is named by its path, so an answer tells where it
came from. `getConfig` and `getConfigs` are the lookups. The key
`param_config_all`, which returns a whole group, is not a definition of its own:
`GroupsServe` says what a group contains.

### Retrieval

A call is `verifying` (awaiting the signing key), `admitted` (awaiting the
pipe), `querying` (awaiting DynamoDB), `loading`/`loaded` (a refresh), `done`.
A key is the name of a parameter, "tenant" (the `tenant_config_` key that is
asked for), "other" (another prefix) or "empty". `items[t]` is the history of
`isActive` of a tenant's item; a query finds any version from `settled[t]` on,
because dynamoose does not ask for consistent reads. `maps` is the history of the two
maps, `ssm` what they are built from, and `stray` what else SSM may hold: nothing, a
path with a segment `newParamMapper` refuses, or one `paramMapper` throws for. A
refresh that SSM fails (`LoadFails`) ends with INTERNAL, because `ssm.service.ts`
throws its own exception with status 500; `Commit` has three ends: OK with both maps,
INVALID_ARGUMENT with the groups replaced and the tree not, UNKNOWN with neither. The
second guard can never
refuse a gRPC call (the tenant it compares with is the one the first has put
there), so the branch that answers PERMISSION_DENIED is translated but not
reached. Malformed tokens are `None`: they end with the same answer before
anything is awaited.

### OrderService

A request is `fetching` (the config-service has to answer), `answered`
(the continuation is due), `loaded`, `validated` (between the two reads of the
cache) or `done`. `missing` has the positions in `Keys` that are still to be
fetched, lowest first (`At`). A configuration is what an order depends on: whose
it is, the minimum, the first gateway.

`create` spreads the body over the id it has made and the tenant it was given
(`orders.service.ts:93-100`), and the pipe takes away no field it does not know. So a
body has a `tenant` and an `id` here, or None, and `Spread` says which one the order
gets. Past the guard a body's tenant may be that of the token, any other's when an
administrator sends it, or no tenant's at all (`Blank`: the empty string or null, which
the guard takes for not given). An id is a new uuid, called by its request, or one that
bodies give (`GivenId`), which several orders may have; `Order` keeps by which request
(`by`) it was made.

`OrderBook` has no cache, no fetches and no awaits: a request is asked (`Ask`) and
is answered in one step (`Accept`, `Refuse`, `List`, `Find`). `Accept` writes the
tenant who asks unless the body gives one, and an id no order has unless the body gives
one; `Find` returns the oldest of the tenant's orders with the id. `ImplementsOrderBook`
says that clients see nothing else. The book is `orders`; `Enter` is `Ask`, `Push`
is `Accept`, a rejecting `Validate` is `Refuse`, and everything about fetches and
the cache is a stutter.

### OrderApi

A request is `verifying` (awaiting the signing key), `admitted` (awaiting the
pipe), `handling` (in `OrderService`) or `done` with a status and messages.
`Arrive`, `Verify`, `Handle` are the guards and the pipe, `Fetched` is an answer of
the config-service, `Resume` and `Work` the handler going on. `FilterOf` is Nest's
choice among the filters that `app.module.ts` registers: the last one that fits,
so `AllExceptionsFilter` answers for all classes that have no filter of their own.
The guards, the handlers and most helpers throw Nest's exceptions while the
filters for Unauthorized, Forbidden and InternalServerError catch the classes of
`libs/filters` of the same name; hence these three are never asked.

### SeedTenants

`main` is the list of what is seeded, in the order of the script's loops; a run
has the rest of it (`todo`) and the call it is about to make (`next`). Each action
is one AWS call with the branch the script takes on its answer: `PutParameter`
falls through to `Overwrite`, `CreateUser` to `UpdateUser`. A user has the two
attributes `UpdateUser` writes (`seeded`: tenant and role), the ones only creation
writes (`email`, with its verification) and a group (`inGroup`). `AnswerLost` is a call
that took effect and is sent again by the SDK. `known`, `touched` and `raced` are
history: what was there before the script, what others changed and no run has put
right, which users' creations went unanswered and which parameters were deleted between
two calls.

### RefreshPipeline

An event is `none`, `queued`, `running`, `done`, `ignored` or `dead` (in the
dead-letter queue). `Invoke` resolves, `Call` starts the next call, and it ends
by the load's `Commit`, by `CallFails`, by its own `Deadline` or by the Lambda's
`Timeout`; `Finish` throws only if every call failed. `Deadlines` is how many
of the 10-second call deadlines fit into the Lambda's 30 seconds
(`index.ts:82`, `event-driven-refresh.yaml`); `MaxAttempts` the first delivery
and its retries; `Concurrency` the reserved concurrency. `confirmed` is history.
A change may leave the store with what a mapper throws for (kind "clash"), until
another parameter changes (`Clashes`): a load that reads it then is rejected
(`MapperThrows`), which answers an error to a refresh and ends a task that has just
started. `served` is the last load a task has taken up in both maps; that such a
rejected load may have replaced the groups alone is `ParameterCache`'s subject.

## 3. The runs

Twelve runs: six that must hold, and six that must find a violation
(section 6).

| run | instance | distinct states | shows |
|---|---|---|---|
| `MCParameterCache` | 3 parameters, one refused and above another's path, one with an inherited name; 2 loads, 2 writes, 1 fault | 672 k | loads, maps |
| `MCParamMaps` | answers of up to 5 of 9 paths, every order | 19 k | trees and groups |
| `MCRetrieval` | 2 calls, 4 tokens, 2 tenants, 1 change, 1 fault, clock 0..1 | 3.0 M | answers |
| `MCOrderApi` | 2 HTTP requests of 18 kinds, 2 tenants, 1 change, 1 tick, 1 fault | 3.2 M | requests, orders, lists, `OrderBook` |
| `MCRefreshPipeline` | 2 tasks, 2 changes of three kinds, 1 fault, 1 start or stop, 2 invocations at a time | 924 k | events, propagation |
| `MCSeedTenants` | 2 runs, 1 fault, 1 change by others | 806 k | what runs leave behind |

**MCParameterCache.** `CacheWasReadable`: each value that is served was the store's
after the load behind it began. `MapsAgree`: unless `newParamMapper` threw for what
the grouped map holds, the tree is the one of the grouped map.
`FailedRefreshKeepsMaps`: a refresh that SSM fails changes neither.
`ImplementsContract`: the steps are those of `CacheContract`. `NeverOlderWhenSerial`:
as long as loads do not overlap, nothing older than a confirmed refresh is served.
`LoadsEnd`, `EventuallyServes`: liveness; the latter excepts a store that keeps a
parameter one of the mappers throws for, since then every first load ends its process.
*Bounds:* two loads are what it takes to overlap; three parameters with pages of any
length give a first page, further pages and a change between them, and each way a
mapper can throw; two writes allow a change between any two steps that matter and one
after it; one fault covers a failed page or a killed process. For any number of each,
the invariants are proved. Pages that are empty although more follows are excluded
(`EmptyPages` is FALSE): with them `CacheWasReadable` and `ImplementsContract` are
false (section 6).

**MCParamMaps.** `TreeThrowsOnCollision`: the tree is refused exactly if a value
comes before something below it or a segment is refused. `TreeServes`: otherwise
a tenant finds its own parameter, unless one above it shadows it, and never
another's. `ObjectsHaveAValueBelow`: what is not a value is answered only for a
key at which the tree goes on, and there is a parameter below it. `GroupsServe`:
groups lose nothing that has a service. *Bounds:* the
nine paths have values at three depths of a branch, short and long paths, two
tenants with the same key, refused segments and an inherited name (`toString`);
five of them in every order have every pair of them in both orders with
something before, between and after. For any paths, and answers of any length,
all five are proved.

**MCRetrieval.** `OnlyVerifiedCallersAreServed`, `OwnActiveConfiguration`,
`BatchIsOfOneLoad`, as their comments state; `ErrorsHaveTheirCause`: UNKNOWN,
INVALID_ARGUMENT, NOT_FOUND and INTERNAL come of their own causes only, for a refresh
too, which is OK only if both maps became what it had read. An outage of the key
endpoint that is reported as UNAUTHENTICATED is allowed, because that is what happens.
*Bounds:* a second call is needed for a refresh, or another tenant's call, beside the
first; the clock passes one token's expiry and not the other's; at the beginning the
maps are empty or all of their values out of date, so one refresh changes every value
of a batch; the one change may also be a path one of the mappers throws for, added or
removed. Deadlock is off: when both calls are done nothing is left to do. For any
number of calls, tokens, tenants and refreshes, all of it is proved.

**MCOrderApi.** `StatusTells`: the status of a response tells what became of the
request and of its order. `NobodyActsForOthers`: an order that is another tenant's than
the token's is an administrator's, for the tenant the body names, or no tenant's; and
whoever asks and whatever the request names, only orders of the token's tenant are
shown. `UncheckedHasACause`: an order goes unchecked only if a fetch failed, the token
expired on the way or the tenant had no configuration. `ErrorsTellAll`: each
broken constraint has its message. Beside these, the invariants of the handlers,
with the guards in front of them: `NoConfigMeansFetchFailed` (an order was created
without a configuration, or unchecked, only by a request whose own fetch of it
failed), `ListsAreCurrent` (a list is the tenant's part of what the list of orders
held at one moment after the request came), `OwnOrderIsFound` (findOne returns an order
of the tenant with that id if there was one when it was called, the oldest of them, and
never another's), `OneOrderPerCreate`, and the refinement `ImplementsOrderBook`.
*Bounds:* each property relates at most two requests (the order and who reads it,
the fetch and who uses its entry); per tenant there are a user, an administrator
and a forged token, requests that name the own or the other tenant, a valid and a
broken body; the tokens expire at the one tick, which may be anywhere between two
fetches. An administrator's create names the other tenant; a user's gives an id, or
names the other tenant in the body behind its own in the query. Two orders with one
id and a reader make three requests, and a body whose tenant is blank is one kind more:
these are left to the proofs. No gateways: they decide nothing these properties read.
Symmetry in tenants and requests is sound, nothing chooses among them. For any number of
requests, tenants and constraints all of them are proved.

**MCRefreshPipeline.** `DoneMeansLoaded`: an event reported as done was loaded
by a task after the change, also when a call of an earlier attempt answers late.
`EventsSettle`: every event ends as done, ignored or dead. `PropagatesWhenQuiet`:
if nothing fails, no task comes or goes, events are handled one after the other and
what a mapper throws for does not stay, every task serves the last change in the end,
also one that puts right what was thrown for. *Bounds:* two tasks make a
partial success; two events overtake each other; two attempts are a first and a
last; one fault and one move suffice for each of the failures, alone and beside
one another. Of the two tasks either one is as good as the other, so `Initial` has one
of them, both or none running at first. `DoneMeansLoaded` is proved for all bounds.

**MCSeedTenants.** `SuccessMeansSeeded`: after a run that exited with 0 each of its
configurations is the script's, each parameter has its value, and each user its tenant,
its role and, unless it was made by hand, its email, whatever runs before or beside it
did. Excepted is what somebody has changed and no run has put right, and a user whose
update failed (which is swallowed). Groups and tags are the subject of the last two:
`UsersComeLast`: a user of the script exists only when everything else has been
there. `NoGroupHasACause`, `NoTagsHaveACause`: a user without a group, a parameter
without tags come from what happened between two calls only: a run that ended there or
a creation whose answer was lost; a deletion. *Bounds:* two runs
are an interrupted one and its repetition, or two side by side; all elements of
the script are there; one fault and one change by others, anywhere; one parameter
or user may have been made by hand before. For any number of runs, faults and
changes, all of it is proved. Nothing here is about liveness: the script is run by
hand and nobody promises to run it again.

The runs without deadlock checking are those whose systems may really stop:
when every request, call, change or parameter of the instance has been used up.
`ParameterCache` never stops, and is checked for it.

## 4. Fairness

Fairness is given to what a scheduler or a service provider runs, never to
writers, callers or faults.

- *The event loop* runs every continuation that is due: weak fairness on the
  continuations of each load (`NextPage`, `Finish`, `GiveUp`; `Tasks` of the
  pipeline).
- *AWS answers or fails* each call: the SDK's own timeouts see to that. `Ssm(l)`
  is fair with its failure as one of its outcomes, so it is not assumed to
  succeed.
- *ECS* keeps a task running (`Start`), and *EventBridge and Lambda* deliver and
  run (`Lambda(e)`); *DNS* catches up (`DnsUpdate`).

Nothing is assumed, and nothing is shown, of when requests to the order service are
answered: `fetchConfig` sets no deadline (`config-client.service.ts:70`), so that would
rest on the fairness of the config-service alone.

## 5. The proofs

### ParameterCache

`ParameterCacheProofs` proves about `ParameterCache`, for any number of
parameters, loads, writes and faults:

| theorem | says |
|---|---|
| `TypeCorrect` | `Spec => []TypeOK` |
| `CacheIsReadable` | `Spec => []CacheWasReadable`, if SSM sends no empty page before the last |
| `MapsCommitTogether` | `Spec => []MapsAgree` |
| `FailedRefreshIsHarmless` | `Spec => FailedRefreshKeepsMaps` |
| `SerialNeverGoesBack` | `Spec => NeverOlderWhenSerial`, under the same condition |
| `ContractKept` | `Spec => ImplementsContract`, under the same condition |

They use the module's assumptions on its constants: bounds are natural numbers,
`Absent` is no value, `NoLoad` no load, `Prefix` a relation on the parameters, of which
`Refused` and `Inherited` are any subsets. `MapsCommitTogether` is about every answer
for which `newParamMapper` does not throw; when it does, the two maps really differ
(section 6).

`CacheWasReadable` is not inductive: when a load commits, that its answer was
readable has to come from somewhere. The invariant `IInv` adds what a load under
way has (`LoadsOK`): of every parameter up to its cursor it holds a value the
store had since the load began, of those after it nothing (`GotOK`); the page on
its way back continues that up to its end, and without a NextToken everything
after it was missing (`PageOK`); an idle load holds nothing (`IdleOK`). `DownOK`
says that a process that is down has no loads. A page can be the last although
more follows only if it is empty: that is where `~EmptyPages` is needed, and
without it the theorem is false (section 6).

The rest of the argument is that the history only grows (`NextGrows`), so what
was readable stays readable (`ReadableStays`, `LoadStays`); that joining two
disjoint pages keeps both parts (`JoinedReads`); and that the last page makes
the answer readable as a whole (`AnswerReadable`). `NextIInv` has one step per
action. `MapsAgree` is inductive as it stands and does not need `IInv`.
`ContractKept` maps a load's `start` to `since`: beginning a load is `Begin`, its
commit `Install`, the pages between are stutters, and `CacheIsReadable` gives the
guard of `Install`.

`SerialNeverGoesBack` is about the runs in which loads never overlap, so its
invariant may use that they do not. `AgeOK`: what is served is as new as anything
confirmed, and no load under way began before what is served. A commit keeps that
only if no other load is under way; otherwise the other may be the older one, which is
the counterexample of `MCParameterCacheOverlap` (section 6).

### ParamMaps

`ParamMapsProofs` proves about `ParamMaps`, for any set of paths and tenants and
answers of any length:

| theorem | says |
|---|---|
| `TypeCorrect` | `Spec => []TypeOK` |
| `RefusedExactly` | `Spec => []TreeThrowsOnCollision` |
| `OwnIsServed` | `Spec => []TreeServes` |
| `ObjectsHold` | `Spec => []ObjectsHaveAValueBelow` |
| `GroupsFind` | `Spec => []GroupsServe` |

Assumed of the constants: a path is a sequence that is not empty, and what a lookup
ends with when it finds nothing is no path.

The properties compare a lookup with the answer SSM gave; the loops only see the maps
as they have become. `MInv` says what the maps are in terms of the answer. While
nothing has collided (`TreeOK`), the leaves are the parameters that no later one
shadows, the inner objects are what lies above these, and at or above every
parameter there is a leaf. The last part is what `PlantThrows` needs: the loop looks
for a value on the way among the leaves, and the parameter it would collide with may
be shadowed by now; then the one that shadows it is there to collide with (`Throws`).
`Planted` rebuilds `TreeOK` for a parameter that replaces whatever is below it. It
rests on the facts about prefixes at the module's beginning; the one that does the
work is `OneLine`, that of two paths above a third one lies above the other. For the
groups (`GroupsOK`), every pair is of a parameter of its service, and the *first* pair
with a parameter's name is of one that came no later. That the first one exists is
part of the invariant.
A lookup follows a path to its end exactly if a leaf lies at it or below (`Reached`).

### Retrieval

`RetrievalProofs` proves about `Retrieval`, for any number of tenants, parameters,
tokens, calls, changes and faults, and any lists of keys:

| theorem | says |
|---|---|
| `TypeCorrect` | `Spec => []TypeOK` |
| `OnlyVerifiedAreServed` | `Spec => []OnlyVerifiedCallersAreServed` |
| `OwnActiveServed` | `Spec => []OwnActiveConfiguration` |
| `BatchesAreOfOneLoad` | `Spec => []BatchIsOfOneLoad` |
| `ErrorsAreExplained` | `Spec => []ErrorsHaveTheirCause` |

Assumed of the constants: tokens have their fields, bounds are natural numbers, a
batch is a list of keys, and `None` and the keys with other prefixes are no names.

`RInv` has the stores (`StoresOK`) and three parts for each call. `AsksOK`: the call
keeps what it asked, and where the stores were when it came (`from`, `base`) is a
place in their history. `PlaceOK`: past the guards it has a genuine token that had not
expired when the key had come, and the tenant of that token; only a `tenant_config_`
key is in a query. `DoneOK`: each property, about this call. The argument is the same
for all of them: the stores and the maps only grow and time only passes (`Grows`), so
what was true of an answer stays true while others step (`RestStays`); and what a
handler reads when it answers lies between the call's arrival and now. `Answers` and
`Ends` put that together for a call that ends with whatever status, and there is a
lemma for each action. A refresh, of which the properties of keys say nothing, has
lemmas of its own: the maps grow by one pair whatever `Commit` does (`MapsGrow`), and
`Refreshed` leaves to show of its three ends, and of `LoadFails`, only that the status
has its cause. `OnlyVerifiedCallersAreServed` needs the guards' two steps apart: the
token is checked against the clock of `Verify`, not of the answer, and the invariant
carries `at` from the one to the other.

### OrderService

`OrderServiceProofs` proves about `OrderService`, for any number of tenants,
requests, gateways and changes:

| theorem | says |
|---|---|
| `TypeCorrect` | `Spec => []TypeOK` |
| `BookKept` | `Spec => ImplementsOrderBook` |
| `CreatesAddOne` | `Spec => []OneOrderPerCreate` |
| `ListsAreOfOneMoment` | `Spec => []ListsAreCurrent` |
| `OwnOrdersAreFound` | `Spec => []OwnOrderIsFound` |
| `UncheckedFetchFailed` | `Spec => []NoConfigMeansFetchFailed` |

Their assumptions on the constants say that bounds are natural numbers, that `None` and
`Error` are none of the configurations, questions and orders, and that no body gives the
uuid of a request; bodies may give whatever else they like, each other's ids included.

`IInv` is the type invariant with what the handlers rely on: an answer under way
fits the key it was asked for, so the payment-gateway entry is a configuration or
nothing (`CacheOK`); a request keeps its question (`AsksOK`) and has no answer
before it is done (`AnswerOK`). `RequestStep` and `HandlerIInv` rebuild it after a
step of one request; there is a lemma for each action.

For `BookKept` each action is shown to be its step of the book. `BookInv` has what that
needs: by `IInv` a request that has come and is not done waits (`WaitsInBook`); by
`OneOrder` it has no order yet, and by `IdOK` an id that is a uuid is that of the
request that made it. The last two make the uuid new, where no body gives an id.
For the other theorems `StepCases` sorts the steps into quiet ones and the four
ways in which a request ends. `CreatesAddOne` needs that a request has no order
before it is done (`OneOrder`). The two theorems about answers rest on `OrdersGrow`
(the book only grows, so what an answer was taken from stays) and `DoneStays`.

`KeptElements` says of the filter in `findAll` that it keeps the tenant's orders, all
of them and nothing else, for a list of any length. `OfTenant` is a recursive function,
so this is an induction: that the function exists (`SomeKeeps`) and what it has kept
after n orders are both shown for the least n at which they would fail, and `Least`,
from the library's theorem that < is well founded, says that there is one.

`NoConfigMeansFetchFailed` is the one that is far from inductive: it speaks of
orders, and what makes it true happens three awaits before. `EntryInv` follows the
payment-gateway entry through a request: as long as it fetches, the entry is
cached, or still among the missing, or its own fetch has failed; from then on it
is cached or the fetch has failed (`EntryOK`). That needs `EntryStays`: once
cached, an entry is replaced but never removed, by whichever request.

### OrderApi

`OrderApiProofs` proves about `OrderApi`, for any number of tokens, HTTP requests,
faults and ticks of the clock:

| theorem | says |
|---|---|
| `HandlersBehindGuards` | `ApiSpec => Spec` |
| `ApiKeepsBook` | `ApiSpec => ImplementsOrderBook` |
| `ApiTypeCorrect` | `ApiSpec => []ApiTypeOK` |
| `StatusIsTrue` | `ApiSpec => []StatusTells` |
| `UncheckedIsExplained` | `ApiSpec => []UncheckedHasACause` |
| `OthersAreAdministrators` | `ApiSpec => []NobodyActsForOthers` |
| `ErrorsAreComplete` | `ApiSpec => []ErrorsTellAll` |

The assumptions on the constants: tokens, headers and requests have their fields, a
request asks only what its kind asks, `None` is no token and no header, and there are
finitely many constraints.

The first theorem says that the guards, the pipe and the filters only ever hold
requests back or respond to them: each step of `ApiNext` is a step of
`OrderService`'s `Next` or leaves its variables alone. It carries every invariant and
the refinement over to HTTP requests (`ApiKeepsBook`, and the lemmas below). What it
needs is that the request and its handler keep step: `LinkOK` says in which phases of
the one the other has been entered, and that the handler has the kind, and the
tenant of the token, of what came.

The other parts of `AInv` follow a request on its way. `PassedOK`: past the guards the
token was genuine and held when it was looked at. `StatusOK`: once there is a
response, its status fits what the guards, the pipe or the handler did; with
`OneOrder` of `OrderServiceProofs`, 201 stands for exactly one order. `CauseOK`: a
payment-gateway fetch that failed, or whose failure is on its way back, has one of
the three causes. A cause, once there, stays (`CauseStays`), which is why the orders
that follow from it can still be explained later: `EntryInv` of
`OrderServiceProofs` leads from the order to the failed fetch, `CauseOK` from there to
the cause, and `OwnersStay` that the order is of a create that is done.

`OthersAreAdministrators` puts together what is known of orders and answers. `OwnerOK`
says that an order's tenant is the body's, if the body names one, and otherwise that of
the request, which `LinkOK` says is the token's. If it is another's, then the body has
passed `TenantAccessGuard` (`DonePassed`), which takes what it names for given unless it
is blank, and lets only administrators name somebody else. What is shown is by
`FoundOK` and `ListOK` of the tenant of the request, the latter with `KeptElements`. For
`ErrorsAreComplete`, the one 400 that comes from no handler is the pipe's
(`ErrorsStay`); its class is that of `libs/filters`, so the filter asked before
`AllExceptionsFilter` takes it and keeps all messages (`PipesFilter`), and the pipe has
made one of each broken constraint (`SetToSeqRange`).

### SeedTenants

`SeedTenantsProofs` proves about `SeedTenants`, for any number of runs, faults and
changes by others, and whatever parameters and users had been made by hand:

| theorem | says |
|---|---|
| `TypeCorrect` | `Spec => []TypeOK` |
| `ExitZeroMeansSeeded` | `Spec => []SuccessMeansSeeded` |
| `UsersAreLast` | `Spec => []UsersComeLast` |
| `MissingGroupExplained` | `Spec => []NoGroupHasACause` |
| `MissingTagsExplained` | `Spec => []NoTagsHaveACause` |

What is seeded is the script's own data, so it is a definition and no constant;
assumed are the bounds, that what was made by hand is something the script seeds, and
that nothing stored equals what stands for its absence.

None of the properties is inductive: they speak of runs that have ended or of what is
in the stores, and the reason is what other calls have done before. `SInv` says of a
run under way that what it has left is a final part of the script's list (`PlaceOK`),
that everything before it is seeded, unless touched or unsaid (`BehindOK`), and that
between the two calls for an element the first has left what the second builds on
(`BetweenOK`). An update leaves a user's email as it finds it, so that it is the
script's needs that it has been since the user was made (`EmailKept`). A run that ends
has nothing left, so everything is behind it. `UsersComeLast` follows because a run
that has come to a user has everything else behind it (`MainFacts`), and nothing that
has been put ever becomes `Absent` again, only `Gone` (`AllThere`, `Grows`). An
overlapping run may overwrite, but only with what the script has (`TableWritten`,
`ParamsWritten`, `PoolWritten`). The two causes are inductive beside that: a user or a
parameter is left between its two calls only while a run is about to make the second
(`Thens`) or where one has ended (`Stops`).

### RefreshPipeline

`RefreshPipelineProofs` proves about `RefreshPipeline`, for any number of tasks,
changes, faults and moves, and any concurrency, attempts and deadlines that are
not zero (`BoundsAssumption`), as long as there are finitely many tasks:

| theorem | says |
|---|---|
| `TypeCorrect` | `Spec => []TypeOK` |
| `DoneIsLoaded` | `Spec => []DoneMeansLoaded` |

`PInv` has a part for each event and one for each load. `EventOK`: a queued event
has attempts left; the calls made and the addresses still to be called are
together no more than the tasks, so none is called twice in an invocation; what
succeeded, a call or the whole, is confirmed. `LoadOK`: a load that was started
for change e has read version e or a later one. The last two meet in `CommitPInv`:
the load whose answer is heard was started for the event that waits, so its
version covers the change. `SettleOK`, `GoesOn` and `CallEndsOK` rebuild the event's
part after the three kinds of steps an invocation makes.

### Only model-checked

Liveness (fairness and ENABLED are beyond the prover): `LoadsEnd`, `EventuallyServes`,
`EventsSettle`, `PropagatesWhenQuiet`. Every invariant, every action property and both
refinements of the passing runs have a theorem.

## 6. Where the code and its documentation disagree

Each has a run whose violation is the evidence; `PROJECT.json` has the quotes.

- `MCParameterCacheOverlap`, `NeverOlderThanAcked`: loads are neither serialised
  nor numbered. One that read SSM before another may commit after it, and the
  older answer stays until the next refresh.
- `MCParamMapsTenant`, `OwnParameterIsReturned`: the groups are keyed by service
  alone and the single lookup knows no tenant. With the seeded parameters of two
  tenants one gets the other's.
- `MCOrderServiceTenant`, `OrdersUseOwnConfig`: `configCache` is keyed without
  the tenant; the second tenant's orders follow the first tenant's configuration.
- `MCOrderApiTenant`, `OrderTenantIsTokens`: `create` spreads the body over the tenant
  of the token (`orders.service.ts:93-97`) and nothing takes the field away, so an
  administrator, whom `TenantAccessGuard` lets pass, stores an order for the tenant the
  body names; README.md:122 says that a request's tenantId is never accepted. What
  holds instead is `NobodyActsForOthers`.
- `MCOrderServiceMinimum`, `OrderMeetsItsMinimum`: `create` validates against one
  read of the cache and takes the gateway from a second; a fetch of another
  request may fill the cache in between.
- `MCRefreshPipelineNewTask`, `Propagates`: a task that has read SSM before a
  change and is registered after the Lambda has resolved misses the change.

Seen while modelling, too small for a run of their own:

- SSM may send an empty page with a NextToken; `ssm.service.ts:53` ends the loop
  there and the parameters that follow are missing. With `EmptyPages` TRUE
  `CacheWasReadable` and `ImplementsContract` are false; the theorems
  about these carry the condition.
- A path with a segment `newParamMapper` refuses (`__proto__`, `constructor`,
  `prototype`) or one that collides makes every load throw after `parameters` has been
  replaced, and a service named as something every object inherits makes `paramMapper`
  throw before. A refresh then ends with INVALID_ARGUMENT or UNKNOWN, the first with the
  two maps of different loads; a process that starts then ends at once, and so does the
  next, until the parameter is removed (`MapsAgree`, `EventuallyServes` and
  `ErrorsHaveTheirCause` except or list these).
- Whatever goes wrong while a token is verified is reported as UNAUTHENTICATED or 401, an
  outage of the key endpoint included (`cognito-jwt.guard.ts:76`).
- An event is done if one call of many succeeded: a task whose load failed stays
  stale until the next change (`index.ts:136`; this is why `PropagatesWhenQuiet`
  excludes faults).
- Three call deadlines of ten seconds, one after the other, are as long as the
  Lambda's whole timeout, so with several slow tasks it is killed in the middle.
- Failed fetches of configurations are logged and the order is created unchecked
  (`orders.service.ts:41`).
- `retrieveConfigs` with a single `tenant_config_` key passes the pipe and fails
  with a TypeError, status UNKNOWN (`configuration.controller.ts:83`); an empty
  key or list ends the same way (`ErrorsHaveTheirCause` counts these).
- A key that names an inner object of the tree is answered with the object
  (`ObjectsHaveAValueBelow`).
- Names of secrets pass the rule (`config-service/`,
  `event-driven-refresh.yaml:265`) and never the handler (`/config-service/`,
  `index.ts:173`), so a change of a secret, which the Lambda's README names
  too, refreshes nothing.
- An administrator who names another tenant is let through, as the comment at
  `tenant-access.guard.ts:24` has it. Lists and lookups, and the configuration a create
  is checked against, are nevertheless those of the token's tenant; the order that is
  created is stored for the tenant the body names.
- A blank tenantId in a body passes the guard as not given and the spread as given: the
  order is nobody's, and nobody is shown it. An orderId in a body replaces the uuid: two
  orders may share an id, and a tenant that has both finds the older one only.
- `fetchConfig` sets no deadline (`config-client.service.ts:70`): a request waits as long
  as the config-service says nothing.
- A token that expires between a request's fetches leaves the order unchecked.
- The Unauthorized, Forbidden and InternalServerError filters are never asked:
  what is thrown are Nest's classes of these names.
- HTTP requests with a bare token are accepted: the branch of `extractToken` that
  is meant for gRPC metadata tests for a `get`, which Express requests have too.
- The seed script never repairs a user it has created and not yet added to a group,
  nor one whose creation was answered by a second call; of a user that exists it
  writes the tenant and the role only, so an email that was never the script's, or is
  no longer, stays; a failed update of a user is logged and the run succeeds; a
  parameter deleted between the two calls comes back without tags; a repeated run
  revives items that were soft-deleted and sets their version back to 1.
- A comment in `param-mapper.ts` and the number of segments it accepts are one
  apart; the maximum amount of a configuration is never enforced.

## 7. What is not modelled

- *Health checks, bootstrap, module wiring, schema, logger, proto:* constant
  answers, configuration and generated code; no state changes.
- *Filters and exceptions that nothing throws or registers, the factories of
  codes and texts, the response formatter, trace ids:* they lay out a response.
  `OrderApi` and `Retrieval` have the choice among filters, the status and which
  messages survive, since clients act on these.
- *Decorators for roles and users:* no handler uses them.
- *`getConfiguration`, `listConfigurationsByTenant`, `fetchConfigs`,
  `clearCache`:* nothing calls them.
- *The texts of orders, configurations of other keys:* nothing depends on them.
- *Roles, networks, alarms, the load balancer, deployment scripts:* static
  resources and commands run by hand.
- *The rate limit of the key client:* it is one of the faults of `NoSigningKey`.

## 8. Plan

In this order, because what comes first carries what follows.

1. `ParameterCache` with its contract and proofs - done. It is the state every
   other part reads, and the one with the subtlest interleavings.
2. `OrderService`, `RefreshPipeline`, `ParamMaps`, `Retrieval` - done.
3. The seed script - done (`SeedTenants`).
4. The HTTP side of the order service, with tokens that expire between its
   fetches - done (`OrderApi`).
5. The order book and the proofs about `OrderService` and `OrderApi` - done.
6. Several `ParameterCache`s below `RefreshPipeline`, with a load's commit refining
   the pipeline's; a propagation contract (an event is settled once).
7. The proofs about `RefreshPipeline`, `Retrieval`, `SeedTenants` and `ParamMaps` -
   done.
8. That the parameter cache is never older than the last confirmed load while loads
   are serial; that only administrators create orders for others and everybody is shown
   the orders of the tenant of the token; that a response names every broken constraint
   - done.
