# TLA+ specifications of porto-sdk

These modules specify the parts of the Porto SDK (`src/porto_sdk`) in which
something can go wrong that a unit test would hardly reach: buying a stamp over
an unreliable network, the local configuration file that several CLI processes
share, the resolution of a letter to a product and a price with the cache in
front of it, what is offered and advised before a letter is ordered, the client
that hands all of this out and marks one letter or many, and the services around
it: loading the catalog, fetching a mark's document, checking an address,
tracking, restrictions, and what a client says of itself. Their safety properties
are proved with TLAPS for every value of the constants (section 4), some of them
for catalogs that satisfy what the code does not check; everything is model-checked
with TLC on small instances.

Run a check with `tlc -config MCx.cfg MCx` (or the named `.cfg`), a proof with
`tlapm XProofs.tla`, in this directory.

## 1. The system

| Component | State | Operations | Interacts through |
|---|---|---|---|
| HTTP transport (`transport/http_client.py`) | none across requests; the attempt in progress | `request` | `await` on the network; called by every adapter |
| Internetmarke wire (`adapters/deutschepost/internetmarke`) | a session per call; `last_many_trace` on the shared adapter | `mark`, `mark_many`, `identify` | three POSTs per purchase through the transport; the wallet at the provider |
| Execution (`services/porto_execution.py`, `execution.py`) | none | `execute`, `mark`, `mark_many` | chooses a wire, turns its answer into a mark or an error |
| Capabilities (`services/execution_binding.py`, `adapters/execution_registry.py`, `wire_selection.py`, `billing.py`) | the execution manifest, on disk | `capabilities`, `balance`, the choice of a wire | asked before `mark`, from other sources than `mark` asks |
| Mark content (`mark_content.py`) | none | download a mark, by a coroutine or a plain function | the coroutine: transport; the function: a loop of its own over httpx |
| Resolution (`services/porto_resolver.py`, `services/resolution`) | the catalog (immutable once loaded) | `resolve`, read-only lists | called by pricing, options, advice and execution |
| Resolution cache (`services/resolution/cache.py`) | an ordered map | `get`, `set`, `clear` | between `resolve` and its pipeline; the wall clock |
| Client (`client.py`, `provider_client.py`, `config.py`) | configuration, resolvers, adapters | `provider`, `update_credentials`, `clear_cache` | owns all of the above |
| CLI configuration (`cli/_config_store.py`, `_bootstrap.py`, `_commands.py`) | `~/.porto/config.json` | `auth login/logout/status`, `config init/check`, and the reading by every other command | a file without a lock, shared by processes |
| Product options, pricing, advice (`services/product_*.py`, `pricing.py`) | none | `options`, `estimate`, `price`, `recommend` | the same catalog as resolution; only `price` goes through `resolve` |
| Tracking (`adapters/tracking`, `services/tracking.py`) | an adapter per provider; nothing between two polls | `track` | transport; the carrier's list grows between polls |
| Datafactory (`adapters/datafactory.py`) | a token and its expiry, shared by concurrent calls | `validate_address` | transport |
| Catalog loading (`data`) | files on disk; one cache of compiled schemas per process | validate, order, load | read once per loader; the files may be upgraded meanwhile |
| Restrictions (`services/restrictions`, `data/entities/restrictions.py`) | the policy, once accepted | load, `check` | catalog loading; the date |
| Envelopes, validation, errors | none | pure functions | called by resolution |

What is hard about it: a purchase is two requests, each of which may be
retried, delayed, executed without an answer or cancelled, and only one of them
charges; an error must tell the caller whether it may try again. The
configuration file is read, changed and written back without a lock, and
truncated before it is filled. The key of the cache forgets the order of a
request's lists, and joins what is in them without an escape. The resolver binds services before it chooses the product that has to
take them, and options, estimates and advice each decide once more what it
decides. The catalog is verified file by file while a package manager may be
replacing it. What a carrier has told once must not be told differently later,
although nothing of it is kept.

## 2. The modules

```
HttpClient  InternetmarkeErrors        CredentialStore      Resolution   ResolutionCache
      \        /                            ^ (abstract)       /        \      /      \
     Internetmarke --> Purchase             |        UncachedResolver  PortoResolver  ResolutionCacheProofs
      /         \    (abstract)        ConfigStore          |               |
MCInternetmarke  InternetmarkeProofs   /       \     ProductOptions  MCPortoResolver
                          MCConfigStore  ConfigStoreProofs  |
                                                   MCUncachedResolver    (both on the catalog of MCCatalog)

ProductOptions, PortoResolver, ResolutionCacheProofs <-- ResolutionProofs

PortoClient <-- PortoExecution <-- MCPortoExecution, PortoExecutionProofs

CatalogLoading  MarkContent  Datafactory  Tracking  Restrictions  Capabilities
      |    \________|____________|____________|__________|____________/  |
      |             |____________|__MCServices|__________|_______________|
      |                                       |
CatalogLoadingProofs                    ServicesProofs

Sublists <-- Resolution, CatalogLoading, Tracking, DataLemmas
DataLemmas <-- ResolutionProofs, ServicesProofs, PortoExecutionProofs, CatalogLoadingProofs
```

`Sublists` is the list comprehension with a condition (`Keep`) and the list without
repetitions (`Distinct`), which several services use. `DataLemmas` holds what the
proofs need to know of lists, sets and sums (section 4).

### Buying a stamp: `HttpClient`, `InternetmarkeErrors`, `Internetmarke`, `Purchase`

`HttpClient` is one `HttpClient.request` per caller. `pending[c]` is the request,
`attempt[c]` the `attempt` of the loop, `phase[c]` where the coroutine is (`sent`:
it awaits the answer, `backoff`: it sleeps before the next attempt), `reply[c]`
the answer of the current attempt. `wire` holds the attempts that the provider
has not taken: an attempt that timed out stays there, so the provider may
execute it after a later one, or never. `Attempts` is line 83 (`retries` for an
idempotent or keyed request, otherwise one), `HttpRefuse` the way out with
`retries = 0` (138-146).

`InternetmarkeErrors` is `map_internetmarke_error_code` and `is_retryable_error`.
A vendor code is the set of the tokens the code searches it for.

`Internetmarke` is `mark()` of call `c`: `stage[c]` walks through `user` (POST
/user), `cart` (POST /app/shoppingcart), `checkout` (the POST with
`directCheckout=true`) to `done`; one action per answer the code tells apart
(`Authenticated`, `AuthRejected`, `CartOpened`, `CartWithoutId`, `CheckedOut`,
`CheckedOutWithoutLink`, `AnswerFailed`, `NetworkFailed`), `Abandon` for a
cancelled task, `MarkStartRefused` for what fails before the first request. The
provider is external: `Serve` takes an attempt off the wire, acts or fails,
and answers or loses the answer. `KeyScope` is what it does with the
`Idempotency-Key`, which the code sends with both POSTs: ignore it, replay per
endpoint, or replay across endpoints.

`Purchase` is what a caller is promised: an order is paid once, marks are for
paid orders, a refusal is final, everything else leaves payment open.
`Internetmarke` maps to it by `StateOf` and `PayerOf` (an order is a key, or an
unkeyed call).

### The configuration file: `ConfigStore`, `CredentialStore`

`file` is the content of `config.json` (or `Missing`, `Blank` after a
truncation, `Garbled` when two writers mixed). Each process runs one command
after another: `Bootstrap` (first read, resolves the provider), then the
command's own read (`LoginRead`, `LogoutRead`, `Status`, `CheckList`), then
`Truncate` and `Fill` for the two halves of `write_text`. `CheckWire` is the
loop of `config check`, which reads the file once per wire. `Load` is what the
remaining commands read. `Crash` ends a process anywhere. `CredentialStore` is
the abstract map of credentials; commands that do not overlap implement it even
if they die, a death between truncation and filling being the loss of the
store.

The model leaves out files whose `default_provider` is an explicit `null` or
whose entries are not objects: no command writes one.

### Resolution: `Resolution`, `ResolutionCache`, `PortoResolver`

`Resolution` is the pipeline as a pure operator `Resolve(request)`: zone, tier,
candidates of the graph, binding of services, selection by preference,
compatibility, price, mark profile, and the code that is bought (`WireCode`).
The catalog is a record, a constant. Each step refuses with the code of the
PortoError the source raises, in the source's order. Left out: country
restrictions, features, currency, delivery hints and billing facts, which are
attached to the answer and decide nothing, and the translation of dimensions to
an envelope.

`ResolutionCache` is the ordered map (`cache`, the entry used longest ago
first), with `Hit`, `Miss`, `Renew` (an expired entry), `Uncached` (disabled) and
`ClearCache` for the ways through `resolve`; `now` and `shift` are the true time
and what the wall clock is ahead of it. `PortoResolver` gives it the answers
that the pipeline gives and the keys that `generate_key` makes. A key is a text, as in
the source: the fields joined with colons (`**`), among them the kinds and the pins,
each list sorted and joined with commas (`Csv`). A text is the sequence of its
`Pieces`: every comma, every colon, and what stands between two of them. Nothing is
escaped, so that different requests may have one key; the requests of the run have
a pin with a comma in it and an envelope with a colon. `Alphabet` is the order of
`sorted()` and `Decimal` the digits of a weight. `UncachedResolver` is the resolver with the cache disabled, about which the
pipeline's own properties are stated.

`ProductOptions` extends it by what a client asks before it orders. `told` is the
last question and its answer: `ListOptions` (`list_product_options`), `Estimate`
(`estimate_price`) and `Advise` (`recommend_product_for_weight`). Each of them
works out zones, tiers, services and prices from the catalog by itself, as the
source does, and the properties compare the answers with `Resolve`, through
`Price`. Where the source takes the first of several equally light products, the
model takes any.

### The client and its marks: `PortoClient`, `PortoExecution`

`PortoClient` keeps `config` (`Open` is a configuration without `providers`), the
`resolvers` by provider and the `clients` by provider; `issued` is every
ProviderClient that was ever handed out, with the wires and the resolver it was
made with, because its holder goes on using it. `ProviderKnown`, `ProviderMade`
and `ProviderRefused` are the ways through `provider(id)`, `UpdateCredentials` and
`ClearCache` the methods of that name; `warm` is the resolvers whose caches
hold answers, which `ResolveThrough` fills. The wires of a provider are one value,
complete or `NoWires`.

`PortoExecution` is `mark()` of task `t` through an issued ProviderClient. `Start`
is everything up to the first order: the empty list, the wire, and `prepare` of
every item, which only reads. `AtOnce` is whether the adapter has `mark_many`: then
one order holds the whole list (`Batch`), otherwise `next[t]` walks through it.
`OrderRefused` is what the adapter checks before it opens a cart; `Send` and then
`Accepted`, `AcceptedWithoutLink`, `Refused` or `Doubtful` are the await on the
checkout. How an order may end is taken from `Purchase`, which `Internetmarke` is
shown to implement: a refused one is unpaid, one in doubt may be either. `trace` is
`last_many_trace`, one per adapter and so one per issued ProviderClient. The
adapters of the repository that execute all have `mark_many`; the items are
ordered one by one for those of an application or a test
(`tests/marks/test_batch_identity.py:92`).

### The services around it: `CatalogLoading` to `Capabilities`

`CatalogLoading` is a process that makes one `PortoDataLoader` after another while
the package of data is upgraded under it. `disk` is the publication, 1 or 2, of
every file; `Upgrade` replaces one file at a time, in any order and at any time, since
nothing in the repository or in a package manager orders it. In strict
mode (`OpenStrict`) a mapped file is read (`ReadFile`), and then its copy on the disk
is compared with the checksum of `metadata` (`Verified`): two steps, as in the
source; `overtaken` records the files that were replaced between the two. The table
of the graph may be another one for each loader; `mappings.json` is the same in both
publications. `compiled` is the cache of schemas of the process, which keeps the first
one of a path. Once the documents agree (`Consistent`) the names of the graph are
worked off in `LoadOrder`, the source's topological sort with its queue, its one
broken cycle and the rest as it stands; `Meant` finds the mapped file of a name,
and `Dispatch` is what a load does to the entities that are `held`. A name that is
not mapped is compared first and read then (`VerifyUnmapped`, `LoadUnmapped`).
Relaxed mode (`OpenRelaxed`) reads a fixed list and passes over what is missing.

`MarkContent` puts the two ways to fetch a document, `async` through `HttpClient` and
`sync` through httpx, before the same `script` of answers. `requests` and `outcome`
are kept per way; `Marks` is the mark with the options and the client a caller
gives. `Final` is what the last answer becomes, `Normalized` the check that the bytes are
a document.

`Datafactory` is the adapter with its one `token` and `expiry` and several checks:
`CheckWithToken`, or `StartRenewal`, the server's `Issue`, `IssueNone` and `RefuseToken`,
and `Renewed`, which overwrites what another check has put there. `ends` is the
server's own account of the tokens, `used` and `sentAt` what a check was sent with
and when; an answer is at most `Lag` old when it is received. The module has the
token only: the conversions of addresses in `services/address.py` are left out.

`Tracking` is the choice of an adapter and the snapshot that is made of each
answer. The carrier appends to `list` (`Record`) and may show a current event beside it
(`Announce`); `Poll` makes `shown` of both, from nothing else. `EventId`, `First`, `Changed`
are `build_event_id`, the removal of repeated ids, and the walk back to the last
change of status.

`Restrictions` has the acceptance of a policy (`LoadPolicy`, one bad row refuses all) and
`Check` for a region, the `origin` of the provider and a `day`; `NextDay` lets
instruments begin and end.

`Capabilities` has the `manifest` of the catalog, the wires that are `configured` and the
adapter the client is `wired` to since it was made. `StateCapabilities` looks at the
active wire among the configured ones, `Try` (mark or balance) selects from the
manifest alone.

`MCServices` instantiates the six. They share no state, so the first step of a
behaviour chooses its `subject`: the instances add up and do not multiply.

## 3. What is checked

| Run | Module, cfg | Checks | Shows |
|---|---|---|---|
| `purchase` | `MCInternetmarkePurchase` | `TypeOK`, `UnkeyedChargedOnce`, `RefusalIsFinal`, `RetryAdviceIsHonest`, `NoFundsMeansUnpaid`, `MarkMeansPaid`, `PurchaseKept` | a call with and one without a key: without a key a purchase is charged at most once; a definite refusal never turns into a charge; a retryable label without a 5xx never hides one; an empty wallet is not reported for one's own charged order; a mark is for a charge of its order and amount; the calls implement `Purchase` |
| `shared_key` | `MCInternetmarkeShared` | `KeyChargedOnce`, `PurchaseKept` | two concurrent calls with one key are charged once |
| `ends` | `MCInternetmarkeEnds` | `MarkMeansPaid`, `EveryCallEnds` | with keys that span endpoints, the cart's answer replayed to the checkout mints no mark, while a call without a key next to it pays and gets one; every call ends, with zero retries too |
| `auth_retryable` | `MCInternetmarkeAuth` | `AuthErrorNeverRetryable`, violated | see section 6 |
| `config_overlap` | `MCConfigStoreOverlap` | `TypeOK`, `NothingInvented` | overlapping and dying processes lose credentials, but never give them to another provider or wire |
| `config_alone` | `MCConfigStoreAlone` | `CheckIsTrue`, `StoreKept` | commands one by one do what they say, crashes included |
| `config_logout`, `config_env` | `MCConfigStoreLogout`, `MCConfigStoreEnv` | `LogoutRemoves`, `EnvBeforeDefault`, violated | see section 6 |
| `resolver` | `MCPortoResolver` | `SizeBounded`, `NotOverAge`, `LeastRecentlyUsedGo`, `SameWhateverTheOrder` | the cache at its limit, with expiry and an adjusted clock; a request without a comma or a colon gets an answer that differs from its own at most in the order of lists, though others that have some may share its key |
| `pipeline` | `MCUncachedResolver` | `ServesRequest`, `UnsupportedIsHonest`, `NamingChangesNothing`, `ListedIsOrderable`, `AdviceCovers` | every answer delivers what was asked; every "unsupported" is true; naming the product changes nothing; options and estimates are what an order costs, and leave out nothing that an order would pick; advice never names a product too small while one covers the weight, and keeps a selection that fits |
| `services` | `MCServices` | `OldOnlyIfOvertaken`, `EveryFileIsHeld`, `WaysAgree`, `SentWithALiveToken`, `EventsStay`, `ChangeIsDated`, `BlockIsExact`, `CapabilitiesAreHonest` | of a catalog upgraded while it is loaded, in any order, only a file replaced between its reading and its comparison is held in another publication than that of the metadata; a well-formed catalog is held whole; the two ways to fetch a mark end alike; checks that renew each other's token are never sent with a dead one; what tracking has shown it shows again, and it dates a change of status once; a destination is blocked exactly by a law in force; a client does what it says it can |
| `client` | `MCPortoExecution` | `TypeOK`, `CurrentCredentials`, `OneResolver`, `OthersKept`, `RefusedAsAWhole`, `MarksAddUp`, `KeyKept`, `TraceIsAccepted` | `provider(id)` never returns replaced credentials, `clear_cache()` reaches the caches of old ProviderClients, and updating one provider leaves the others alone; a list with an item that cannot be prepared orders nothing, its marks add up to what was paid, and a key of any item is not dropped; the trace is of an accepted order although calls overlap |

### Bounds

- Internetmarke: two calls with two attempts each, or (`ends`) three, the
  unkeyed one with one attempt and the keyed ones with none and two; a wallet of 3 or 4 for totals of 1 and 2. Two calls are the
  least that can share a key or compete for the wallet; two attempts are the
  least with a late first one; the wallets are chosen so that both orders can
  be paid (4), or that one of them cannot be paid twice (3). `AllFailures` has one
  answer of each class that the code tells apart; `TwoFailures` is one that the
  transport retries after a 5xx and one after a 429.
- ConfigStore: two processes and two providers with one wire (`Overlap`), or one
  process with two wires. A mixture of two writers needs two processes; a
  logout that leaves a wire behind needs two wires. One payload is enough
  because `NothingInvented` asks where credentials stand.
- PortoResolver: six requests. Two have the same lists in another order, and a third
  with one pin that holds a comma has their key too but is refused by itself; one has
  an envelope with a colon, and two differ in their indemnity only. There are
  two places, eviction of `Batch` = 1 (10 in the code; the proofs cover every
  batch and size), a time to live of 1, a clock up to `MaxTime` = 3 that may be
  adjusted by `Drift` = 1. That is the least in which an entry can expire, an
  older one can be kept alive by mistake, and some of several entries go.
  `MaxTime` bounds the model, not the code.
- Resolution: `SmallCatalog` has five products, four services, two zones and
  three tiers and contains each feature of the providers' catalogs that a step
  of the pipeline reads (see the comment in `MCCatalog`); `AllRequests` is the
  product of the values each field is tested for. `pipeline` resolves one
  request per behaviour, which is enough because answers depend on nothing else.
- PortoExecution: two tasks, because `last_many_trace` needs two to be
  overwritten; two providers, of which one orders lists at once and the other
  one by one, because `OthersKept` needs one that is not updated; `MaxBound` = 2
  ProviderClients, the least with one from before and one from after an
  update_credentials; lists of two items, of which the second is the one with
  a key, that cannot be prepared, or that the adapter does not sell; with and
  without credentials of the call. The tasks are symmetric.

- ProductOptions: every country, weight, envelope and preference of `AllRequests`,
  every product and one that is not in the catalog, every set of candidates.
- CatalogLoading: two loaders, because the cache of schemas reaches from one to
  the next; two publications; six files with the names of the repository's
  catalogs, two of which share their last segment; six tables: an order that
  suits the prices, one that the queue has to find, one that does not suit them,
  a cycle, a file that exists but is not mapped, a file that does not exist.
- MarkContent: two attempts, the least with a last one that differs from the one
  before; an answer for each class that the code tells apart.
- Datafactory: two checks and two tokens, the least with one that is overwritten;
  tokens that end before (1) and after (3) the next check; a lag of 1; four ticks.
- Tracking: four rows, so that a status can change, change back and be followed
  by an unknown one; eleven rows with ids, sequence numbers, or neither, in and
  out of time order. The whole run has about 1,250,000 states.
- Restrictions: four days for instruments that begin on the second and third,
  and end on the first, second or third; a row for each reason to refuse one.
- Capabilities: every manifest over two wires, one known to the SDK, and the
  lists of configured wires with the known one first, second or missing.

`CHECK_DEADLOCK FALSE` is set where the system may stop: calls that are all
done, the single request of `pipeline`, and the services, each of which ends when
its bound is reached.

### Fairness

`FairSpec` gives each call weak fairness of its own steps (`Step`): the event
loop runs a coroutine that can go on, and a request that is waited for ends in
an answer or a timeout. Nothing is assumed of the provider, which may never
answer, nor is it assumed that a call is started.

## 4. What is proved

`InternetmarkeProofs` proves `TypeCorrect`, `UnkeyedOnceCorrect`,
`KeyedOnceCorrect`, `MarkPaidCorrect` and `RefusalCorrect` for any set of calls,
keys, retries, totals, failures and funds. They assume `CallsAssumption`,
`KeyAssumption` (calls that share a key ask for the same total), `ScopeAssumption`
and `FailureAssumption`. None of these four safety properties is inductive: that a
charge is the only one depends on what is still on the wire. `IInv` adds
`TransportInv` (the request in progress is that of the call's stage and within its
attempts), `WireInv` and `LedgerInv` (every checkout on the wire and every charge
is an attempt of the call's one checkout request, so an unkeyed call has only
number 1), `ChargedOffWire` (an attempt is either charged or still on the wire),
`AnswerInv` (what an answer tells about the attempt it answers) and `DoneInv`.
The proof has one lemma per group of actions; the provider's steps use that at
most one charge exists per key, the client's steps that a refusal below 500 was
not executed.

Three theorems rest on that invariant. `RetryAdviceCorrect` adds `LabelInv` (a network error
and an answer without a link are not labelled retryable): every other error without a
5xx is definite, so `RefusalIsFinal` applies. `NoFundsCorrect` adds `FundsInv`: when an
empty wallet was answered, the wallet could not pay for the call and its order was
unpaid, and both stay so, because the wallet only shrinks and calls with one
key ask for one total; it assumes `WalletNamed`, that no other failure
speaks of the wallet. `PurchaseCorrect` is the refinement: `Spec` implies `PurchaseKept`, for
overlapping calls and late executions, if keys are honoured per endpoint
(`Promised`). It adds `PaidInv`, that an answer with a link, and a mark, are for an order
that is paid; each kind of step is then one of `Purchase` or changes nothing it sees.

`ConfigStoreProofs` proves `StoreTypeCorrect` and `NothingInventedCorrect` for
any processes, providers, wires and payloads, overlapping and dying. The
strengthening is `BoundInv`: a process past its bootstrap has a provider, and only
`config init` writes without one. `DefaultsAssumption` and
`NamesAssumption` are used. `StoreCorrect` is the refinement `StoreKept` and `CheckCorrect` is
`CheckIsTrue`, both for commands that do not overlap (`~Overlap`) but may die
anywhere. They add `AloneInv`: one process at most is inside a command; the file
it truncated is blank until it fills it; the copy it is about to write differs from
the file in what its command is for, and in nothing else; a check has yet to look at every
wire that holds credentials. Truncating the file is then the abstract login,
logout or new start, filling it shows nothing, and dying in between is a new start.

`ResolutionCacheProofs` proves `CacheCorrect` (type, size, age) and
`LeastRecentlyUsedCorrect` for any requests, sizes, batches and clocks. `CacheInv` says that the keys of the cache are distinct, in
the order of their last use, and that no entry is dated later than its
computation plus the adjustment. `AnswerInvAlways` adds what a cache can promise
without knowing its keys: an answer is the request's own, or a porto that was
computed for some request with the same key. `ResolutionProofs` knows what this is worth.

`PortoExecutionProofs` proves `ClientCorrect` (`CurrentCredentials` and
`OneResolver`), `OthersKeptCorrect`, `RefusedCorrect`, `KeyKeptCorrect`,
`TraceCorrect`, `ExecutionTypes` and `MarksAddUpCorrect` for any providers,
ProviderClients, overlapping calls and lists of any length. `ClientInv` is inductive
by itself; that `update_credentials` always means the same provider rests on the
first of a finite or infinite set of ids existing (`Least`, from the
well-foundedness of the naturals). `TaskInv` is needed for the rest: a call that
orders at once is at its first item until it has ordered, everything that is
ordered was prepared, and a call that has ordered never changes. `MarksInv` is for
`MarksAddUp`: while a call is on its way its marks are those of the items before
`next`, and add up to the orders of its own that were paid; an order is of one
call and one item, so that a payment adds to one sum only. They assume
`ProvidersAssumption` (with it that `MaxBound` is a number), `OpenAssumption` and
`AsksAssumption` (what is not a list is one request, and has a total).

`CatalogLoadingProofs` proves `OldOnlyIfOvertakenCorrect` for any mapping, tables and
number of loaders, and for files replaced in any order. `LoadingInv` follows a document
from the disk to the entities: the one at hand is what the disk has, or older than that
and `overtaken`; so when the comparison accepts the disk, the document is of the
publication of `metadata`, or older than it and overtaken, and it stays so in the list
of documents and in what is `held`. It assumes `MappingAssumption`: the metadata and
the graph are not mapped, and the list of the providers holds no prices.

`EveryFileIsHeldCorrect` is about any table, in whatever order it is written. It has
three parts. What a name waits for, by however many steps, is computed in as many
rounds as there are names (`ReachesClosed`: until nothing is added, each round adds a
name) and is the least set that is closed (`ReachesLeast`). The sort keeps `SortInv`:
what is processed or queued are the names whose dependencies are all processed,
each once, and what is processed stands after what it waits for; so without a cycle
it ends with every name (`SortedInOrder`), because the name of those left that
reaches the fewest would wait for nothing left. The loads keep `HeldInv`: of the names already
loaded, each type holds its document, and service prices are held only if their file was
loaded, so that product prices, which come before, drop nothing. The theorem assumes
`OneFileForAType`: a table does not load two files of one type, of which the second
would replace the first. The code does not compare the types; the catalogs of the
run satisfy it.

`ResolutionProofs` is about the pipeline and what is offered beside it, for every
catalog and every request: `ServesRequestCorrect`, `UnsupportedIsHonestCorrect`,
`NamingChangesNothingCorrect`, `ListedIsOrderableCorrect`, `AdviceTakesTheWeight` and
`AdviceCoversCorrect`. Nothing is kept between two questions, so the invariants
(`ReturnedWell`, `ToldWell`, `AnswersWell`) only say that what was answered is what
the operators give, and the work is a lemma for each step of the pipeline:
what binding takes and refuses, which candidates remain, that the product selected
is one of them, and that a request which names it has it as its only candidate and
finds the same. For the lists, an option's price and each of its services' is traced to the
price of the order that names them, and what discovery picks to a link that an option
was made from. They assume
`CatalogAssumption` (links name products and tiers that exist, a service id
belongs to one service), `QuestionsAssumption` and `OptionsAssumption`, which say of
which types requests and prices are.

With the cache in front, `SameOfferWhateverTheOrder` says for every catalog whose
ids are plain (`IdsArePlain`) that a request without a comma or a colon has the product,
the price and the services of its own answer, whoever asked first and whatever stands in
other requests, and `SameWhateverTheOrderCorrect` (`SameWhateverTheOrder`) adds the
profile and the code. `KeysReadAlike` takes the joined texts apart: the key of a plain
request has as many colons as there are separators, so a request with the same key
has none in its fields either, and the keys agree field by field; a list without
a comma is read from its text again, but the other request may still have one pin for
two. Such a request is not answered, because a porto is for pins that are ids
(`PinsOfPortos`), and ids have no comma; so what the cache gives away is of a request
for the same kinds and pins, in some order.
`BindAlike`, `PickAlike` and `OfferAlike` follow the pipeline with two such
requests, which asks of the lists only what is in them: the services that are bound are
the same set, their faults the same, and so are the candidates and the amount. The order
is read in two places, where the last service with a row of its own decides
(`Override`): the profile of the mark, and the code of a provider that sells services
under codes of their own. `ServicesAgree` says that services that may be ordered
together do not differ there.

Four of these theorems have hypotheses that the code does not check.
`AdviceCoversCorrect` needs `OwnTierReaches`: no link goes to a tier above the product's
own, since a product's own tier replaces those of the links where weights are compared.
`ListedIsOrderableCorrect` needs `IdsAreNoKinds`: no service has the name of a kind as its
id, or a listed service could not be pinned. `SameOfferWhateverTheOrder` and
`SameWhateverTheOrderCorrect` need `IdsArePlain`, the second of them `ServicesAgree` too.
TLC evaluates all four for the catalog of the runs.

`ServicesProofs` has the services that share no state:

- `WaysAgreeCorrect` for any answers and retries: as long as no answer was 429,
  both ways have made the same requests or one of them has ended.
- `TokensAlive` and `DatafactoryTypes` for any number of checks, lifetimes and lag: an
  answer on its way is at most `Lag` old, so the expiry that is kept exceeds the
  end of the token kept by no more than `Lag`, whichever check wrote it.
- `CapabilitiesHonest` for any manifests and wires, from what was stated and tried
  being computed from the manifest that still stands.
- `BlockIsExactCorrect` for any policy, provider and day: the policy that is held
  was accepted with its instruments, and a check finds the ones that are in force
  on the day, at the country or at its region. It assumes
  `RestrictionsAssumption`, the shape of a row.
- `EventsStayCorrect` for any rows and any number of them. That a poll shows the events of the
  poll before, in their order and with their ids, follows from what is kept of a list
  being the beginning of what is kept of a longer one (`KeepPrefix`).
- `ChangeIsDatedCorrect` for the same carriers, lists and status maps. What is shown is
  always what assembling its history gives (`SnapshotInv`); a carrier that numbers its
  events repeats beside the list only what is in it (`NothingBeside`), so each event
  with a status that the poll before did not show is one of `News` (`NewsOnly`), and where
  the last run of one status begins only moves into `News`, or not at all
  (`ChangedMeans`, `ChangedStays`).

`CacheTypeCorrect` and `SizeCorrect` (ResolutionCacheProofs) and `OneResolverCorrect`
(PortoExecutionProofs) state parts of `CacheInv` and `ClientInv` by themselves. The type invariant
of the cache is proved only; no run repeats it.

`DataLemmas` is what these proofs stand on. The induction theorems of the library take
an operator as a parameter, which the provers do not instantiate. Here induction is a
lemma about a set of numbers (`Induction`, from `Least`: the least number outside it
would be neither 0 nor the successor of one in it), recursion one about a function
on pairs (`Recursion`) and induction over a finite set one about a set of its subsets
(`SetInduction`). With these, what a recursive function computes is provable for every input:
`KeepType`, `KeepOrder`, `KeepPrefix` and `KeepOnce` for the list comprehension,
`DistinctRange` and `DistinctOnce`, `FlattenRange` for joined lists, `SumTakes` for sums
over a set. A recursive function is a CHOOSE, so each of them first shows that a
function with its equation exists.

Only model-checked:

- `EveryCallEnds` is liveness under fairness, out of the prover's reach.
- The three properties of section 6 are false.

## 5. What is not modelled, and why

- Addresses (`services/address.py`): conversions between shapes of an address and a
  table of independent rules per country; nothing happens in an order or twice.
- Envelopes (`envelopes`, `envelope_resolver.py`): matching of dimensions is a search
  in a table of intervals, identification and layout are arithmetic on
  millimetres; the model has the envelope that was found (`EnvelopeMatches`).
- Request validation: whether a request is well formed is the set of requests that
  the models begin with.
- Positions and documents of Internetmarke: the layout of a page and the shape of a
  payload.
- JSON, schemas and the rules among the rows of a catalog: a file satisfies its
  schema and the documents agree, or not (`RefuseFile`, `Inconsistent`).
- `can()` and the lists of features: lookups without a decision.
- CLI commands other than those that touch the configuration file, output, and
  the build scripts: formatting and I/O.
- `identify` of Internetmarke: one request that charges nothing.

- `mappings.json` during an upgrade: another mapping would be another set of files. The
  types `weights` and `weight_tiers`, which share a loader, and `prices`, which drops both
  tables of prices: `Dispatch` keeps every type apart from the others, except that
  product prices drop the service prices. A file that is not mapped is taken to have
  none of the types of the mapped ones, whose rows it might replace otherwise.

Some hazards are behaviour of the code that no property speaks against: with `retries`
= 0 a request is never sent, `config init` may write back the file without a login that
another process has just stored, and `update_credentials` closes an allow-list that was
open. A login that is overwritten by an overlapping one, and the whole store after a death
between truncation and filling, are lost; `NothingInvented` and `StoreKept` say what may
not happen besides. Without `mark_many`, the marks of a list that fails at a later item
are lost, though paid. A 5xx that answers a checkout is labelled retryable;
`RetryAdviceIsHonest` exempts it.

## 6. Where the code and its documents disagree

Three runs show a disagreement:

- `auth_retryable`: a comment (`utils.py:180`) says that authentication errors
  are never retryable; an answer that cannot be read is raised as
  `PORTO_AUTH_FAILED` with `retryable=True` (`auth.py:171-180`).
- `config_logout`: `auth logout` promises to "Remove stored credentials for
  provider" (`_runner.py:115`) but clears the default wire only, while login
  takes any `--wire` (`_commands.py:144-170`).
- `config_env`: the "Merge order: explicit > file > env > SDK default"
  (`_config_store.py:4`) is not followed by a file without a default provider,
  because the default is filled in first (`_config_store.py:38`).

Two more are in the models, and the properties allow them and nothing else:

- `generate_key` joins with commas and colons that it does not escape
  (`cache.py:34-37`, `61-64`), though the key is to be the "fields that change a resolution
  result (order-independent for lists)" (`cache.py:48`). A request with the single pin
  `einschreiben,receipt`, which no service has as its id, is refused by itself, and is
  given the porto of the request with the two pins when that is in the cache. Without
  the premise `PlainRequest`, TLC shows it for `SameWhateverTheOrder` in the run `resolver`.
- `validate_mapped_file` reads the document and then takes the checksum of what is on
  the disk (`porto_data_validator.py:56-60`). If `metadata.json` is replaced before the
  loader starts and a mapped file between the two, the old document is accepted, and a
  strict loader is ready with rows of two publications. Without the second disjunct of
  `Excusable`, TLC shows it for `OldOnlyIfOvertaken` in the run `services`.

The following were met while the models were written. They contradict no
document; the models have them as they are, and the properties are stated so that
they show where they matter.

- Address checks: a refused renewal or check ends in a `TypeError`, because
  `PortoError` takes no `vendor` (`datafactory.py:50-56`, `87-93`); a token that the server
  refuses is kept until its expiry, so every check until then is refused
  (`Judge`).
- Catalog loading: what is left of a broken cycle is appended in the order of the
  table (`base_loader.py:250-254`), loading product prices drops the service prices
  (`EveryFileIsHeld` asks that the table order them), compiled schemas are kept under a
  path whatever the catalog (`schema_validator.py:19`), so that a second loader of an
  upgraded catalog may be refused (`RefuseFile`), and a file that is not mapped is
  verified before it is read (`OldOnlyIfOvertaken` is about the mapped ones).
- Marks: neither way follows a redirect, and the body of a 3xx is taken for the
  document; a mark that declares itself a PDF is not looked at; 429 is repeated
  by the plain function only; the last timeout is reported as not retryable, the
  last 5xx as retryable.
- Tracking: a sequence number 0 counts as none (`shipment.py:107`), and a current event
  without an id gets one from its place after the list, which moves as the list
  grows. `EventsStay` is therefore about the list, `ChangeIsDated` about carriers that
  number their events.
- Restrictions: a date that cannot be read bounds nothing; a law for the whole
  country only warns until a region is named (`BlockIsExact`).
- Advice: with nothing that covers the weight, advice still says `AUTO_UPGRADE` to the
  smallest product when the selection is unknown (`product_advice.py:85-91`). A
  product's own tier replaces those the graph links it with.
- Options: a country that is not in the catalog is a `ValueError`, a letter too heavy
  an empty list, where `resolve` raises a `PortoError` for both.
- Capabilities: if wires are configured and that of the manifest is not among them,
  `capabilities()` says unsupported though `mark()` works; a wire of the manifest that
  the SDK has no adapter for is said to be supported though `mark()` refuses.
  `CapabilitiesAreHonest` excludes both.
