# A formal model of the Oculus app store services

TLA+ modules, TLC configurations and TLAPS proofs for the parts of this
repository whose correctness depends on the order in which things happen.
`PROJECT.json` maps every definition to the lines it translates, lists the
runs, the mutants that show each property can fail, the hazards and the
theorems.

1. [The system](#1-the-system)
2. [Modules](#2-modules)
3. [The wallet](#3-the-wallet)
4. [The promise runtime](#4-the-promise-runtime)
5. [The transaction manager](#5-the-transaction-manager)
6. [Dual writing](#6-dual-writing)
7. [A payment](#7-a-payment)
8. [An offer of the catalog](#8-an-offer-of-the-catalog)
9. [What is proved, and what is only model-checked](#9-what-is-proved-and-what-is-only-model-checked)
10. [Disagreements between the code and its texts](#10-disagreements-between-the-code-and-its-texts)
11. [Plan](#11-plan)
12. [What is not modelled](#12-what-is-not-modelled)

Run one model: `tlc -workers 2 -config MCWallet_refund.cfg MCWallet`.
Check one proof: `tlapm WalletProofs.tla`.

## 1. The system

A store for digital goods, built of REST services (Groovy and Java, Spring) over
relational databases in shards and a document store (Cloudant). A service has a
`-spec` (the interface, with a generated HTTP client), `-rest` (resources),
`-core` (logic) and `-db` or Cloudant repositories. Every call between two
components is an HTTP call that returns a promise, also when both are in one
process; the shared libraries are in `silkcloud`.

How a purchase flows:

    client -> store / order -> rating, risk
                            -> billing -> tax
                                       -> payment -> provider (cards, PayPal, eWallet)
                            -> fulfilment -> entitlement, eWallet credit, shipping

`order` keeps the order and its items and events, asks `billing` for a balance,
`billing` asks `payment` for a transaction, `payment` asks a provider (the
eWallet service is one of them), and the answers travel back; when the order is
charged, `fulfilment` grants entitlements or credits a wallet. Jobs
(`order-jobs`, `payment-jobs`, `silkcloud-jobs`) finish what was left pending.
There is no transaction over two services: each step of the chain is retried
under a *tracking UUID*, and the service that gets it twice has to recognise it.

### Components

| component | keeps | operations | hard because |
| --- | --- | --- | --- |
| eWallet | wallets, lots (with an expiration), transactions, lot transactions | create, update, credit, debit, refund, correct the balance | requests race on rows read in an outer transaction and written in an inner one; retries; crashes; lots expire |
| promise runtime (`langur`) | thread locals, looper queue, lock per context, the worker pool | register, run, wait for and complete continuations | several pools, a lock held over user code, waits that must run other work, time limits |
| distributed transactions (`sharding/transaction`) | current and suspended transactions, enlisted connections, pools | begin, suspend, enlist, commit, roll back, resume | one-phase commit over several connections, partial failure, crash, exhausted pools |
| billing | balances, items, tax, transactions | create, charge, authorise, capture, confirm, cancel, refund, asynchronous charge, status check | status checked before and written after calls to payment; duplicate deliveries |
| payment | payments, events, tracking UUIDs | authorise, capture, charge, refund, reverse, credit, report | provider call between two database transactions; retries; late answers |
| payment providers | nothing of their own (state is at the provider) | map requests and results, notifications, callbacks | answers lost, late, or learned twice: by the answer, a notification and a poll |
| order | orders, items, events, billing and fulfilment histories | create, settle, complete, capture, refund, cancel | a workflow over three services with retries |
| order subledger jobs | subledgers, items, payouts | aggregate, export | batch jobs racing with refunds |
| fulfilment | requests, items, actions | fulfil, revoke | dispatch after store, retried until each action succeeds |
| entitlement | entitlements | grant, update, revoke, search | duplicates of a grant |
| dual write (`sharding/dualwrite`) | pending actions beside the primary row | save, replay at commit, replay by job | two stores, replays out of order, crash between |
| Cloudant cache and sniffer | memcached copies of documents | get, put, invalidate by the feed of changes | stale entries |
| identifier generation | time section, global counter (database), local counter | next id | wrap-around, restart, two servers |
| tokens | token sets, items, consumptions | generate, activate, consume | usage limit read before the consumption is stored |
| catalog | items, offers, their revisions; an admin page that edits them | draft, submit, approve, make obsolete, delete | an approval is two writes to two documents; pages out of date; which revision is current depends on the time |
| rating | nothing | price an order | arithmetic and selection of promotions |
| cart | carts | add, merge, update | revisions of one document |
| subscription | subscriptions | cycle, cancel | largely a stub |
| identity | users, organisations, devices, addresses | CRUD, validation, migration | mostly validation |
| OAuth | codes, access and refresh tokens, flow state | grant, refresh, revoke | single use of codes |
| crypto | keys | encrypt, sign | values out of reach of a model checker |
| email, notification | messages | send through an external provider | external |
| store, customer support, DRM, restriction, authorization | nothing, or logs | orchestrate calls, evaluate policies | stateless |
| host, data loader, generators, emulators, scripts | - | start, generate, load | not part of the running logic |

### What makes each of the important ones correct

* **eWallet**: money is neither lost nor made; no more is refunded than was
  debited; a tracking UUID posts once; a locked wallet does not move.
* **Promise runtime**: each continuation runs once and eventually; two of one
  context never overlap; a wait always ends.
* **Transactions**: every connection comes back; what is reported is what
  happened; a transaction marked for rollback commits nowhere.
* **Billing and payment**: a balance is charged at most once whatever is
  retried; nothing is captured that was not authorised; the stored status claims
  nothing the provider has not accepted, and its events tell of all it was asked.
* **Order and fulfilment**: what is charged is fulfilled or refunded; a refund is
  created once.
* **Dual write, cache**: the secondary store and the cache converge to the
  primary; a reader never goes back.
* **Catalog**: what is approved stays as it was approved; the offer lists what is
  approved; an offer on sale does not drop out of it by an accident of timing.

The hazards of `PROJECT.json` name the lines where these can go wrong. Those
without a property belong to modules that are still to be written (section 11).

## 2. Modules

| module | contents |
| --- | --- |
| `Wallet` | one wallet, its lots and transactions, concurrent requests |
| `WalletLedger` | the atomic account a wallet promises; `Wallet` implements it |
| `Totals` | the sum of a table of amounts, as the number of its units (the cardinality of a set, which proofs can reason about) |
| `MCWallet` | inputs for TLC; `MCWallet_refund.cfg`, `_retry.cfg`, `_correct.cfg` |
| `TotalsTheorems` | laws of totals |
| `WalletProofs` | the inductive invariant of `Wallet`, types, updates, locks |
| `WalletMoneyProofs` | conservation, the books, refunds, single posting, the refinement |
| `Looper` | continuations, looper, lock and pool of one request context |
| `MCLooper` | three programs for TLC; `MCLooper_chain.cfg`, `_link.cfg`, `_reentry.cfg`, `_waiting.cfg` |
| `LooperProofs` | the invariants of `Looper`, all of its safety properties, what is left at rest |
| `TxManager` | transactions over several data sources, connection pools |
| `MCTxManager` | an instance with one shared pool of two connections |
| `TxManagerProofs` | the inductive invariant of `TxManager`, all of its safety properties, how a transaction ends |
| `DualWrite` | the primary row, pending actions, their replay, the secondary store and its cache |
| `Replica` | a store that follows another; `DualWrite` implements it |
| `MCDualWrite` | `MCDualWrite.cfg`, `MCDualWrite_settled.cfg` |
| `DualWriteProofs` | the inductive invariant of `DualWrite`, its safety properties, the refinement |
| `Payment` | a payment, the requests about it, its adapter, the provider |
| `PaymentLedger` | what may be accepted, carried out and answered for; `Payment` implements it |
| `MCPayment` | fifteen combinations of an adapter and four requests |
| `PaymentProofs` | the inductive invariant of `Payment`, its safety properties, the refinement |
| `Offers` | an offer, its revisions, and the users who edit them |
| `MCOffers` | the forms two users fill in for two revisions |
| `OffersProofs` | the inductive invariant of `Offers` and all of its properties |

`Wallet` uses `Totals`; `Wallet`, `DualWrite` and `Payment` state their abstract
specifications, `WalletLedger`, `Replica` and `PaymentLedger`, through
`INSTANCE ... WITH`. The systems do not share variables. What one takes from
another: `Wallet`, `Payment` and `DualWrite` that a transaction on one data source
commits or not as a whole, and an inner REQUIRES_NEW one on its own (`TxManager`);
`TxManager` that the code of a context is executed one piece at a time
(`Looper`); `Offers` that the document store takes a write only with the tag of
the version it replaces, which is the `Accepted` of `DualWrite`.

Small operators with names such as `Unchecked`, `Nobody` or `Overrun` are the
mutated forms that `PROJECT.json` puts in the place of a definition to see that a
property notices. No specification uses them otherwise.

## 3. The wallet

`src/ewallet`. The state is the four tables as they are committed, for one
wallet: `wallet` (table `ewallet`), `lots`, `txns`, `lotTxns`; and, per request,
where it is (`pc`), its input (`in`), the rows it holds (`snap`, `tsnap`,
`valid`) and its `answer`. Rows are indexed by the request that created them, as
a request creates at most one transaction and one lot.

A handler is split where other requests can come between, and only there:

| action | code |
| --- | --- |
| `Arrive` | `WalletResourceImpl.credit/debit/refund`: the look-up by tracking UUID; the client's read before a `PUT` |
| `ReadDebit` | `WalletServiceImpl.refund`: the debit that is refunded, and its check |
| `ReadWallet` | `WalletServiceImpl.credit/debit/refund`: the wallet, the check of its status and balance |
| `Credit`, `Debit`, `Refund` | the inner transaction of `WalletRepositoryFacade`: version check, balance, transaction, lots, lot transactions |
| `CorrectRead`, `CorrectGet`, `CorrectWrite` | `correctBalance` after a debit that ran out of lots |
| `Put`, `Update` | `updateWallet`, which an operator uses to lock and unlock |
| `Expire` | the expiration date of a lot passes |
| `Answer` | what follows that commit: the end of the outer transaction, the response |
| `Crash` | the server of the request dies, or its outer transaction fails, before or after the inner commit; what it has not committed is lost |

Each writing transaction is one step. That is sound because its first statement
updates the wallet row where the version is the one that was read: either no row
matches and the transaction fails (`Conflict`), or the row stays locked until
commit, and every other writer of these tables begins with the same row. The
loops over lots are given by what they produce (`DebitShares`, `RefundShares`):
all the ways to spread an amount that the order of the query allows, the lots used
up one after another. `getValidLot` sorts by what remains; the query of `refund`
has an order that leaves ties open, so the model lets it take any lot next.

Time is the one thing abstracted further than the code: a lot is `dated`,
`expired` or `never`, and `Expire` may happen at any moment.

### Runs

* **wallet_refund** - two credits, one of them of a dated lot, a debit of two or
  three units, and two refunds of it, of two units and of one, in every
  interleaving, with crashes and expiry. `TypeOK` (no amount below zero),
  `LotsConserved`, `BooksBalance` (over all requests, what the lots hold and what
  was debited is what was credited and refunded), `DebitsBacked`,
  `NoLostUpdate`, and `ImplementsLedger`. The
  amounts are the smallest for which a debit spans two lots, uses one up, falls
  short after an expiry (the correction runs), and two refunds together exceed
  the debit.
* **wallet_retry** - a credit and a debit, one of them sent again under its
  tracking UUID (or a second debit without one), also after its server died
  between commit and answer; and two status updates that lock, repeat the lock or
  unlock. `PostedOnce`: a UUID posts at most one transaction, a client told
  "posted" may rely on it, and one told "refused" or "conflict" may send the
  request again under another UUID. `LockedFrozen`, and
  `BalanceIsMoney`: none of these credits expires, so the stored balance is what
  the lots hold at every moment and no debit is ever corrected.
* **wallet_correct** - the instance of the first run, and the property that a
  correction never writes off money which lots still hold; it is violated
  (section 10).

More requests add no new kind of conflict: every property speaks of at most two
writers racing for a version and of one that follows; the proofs of section 9
cover any number.

### What the model made visible

* A refund to an expired lot enables the lot for good, also the part that had
  expired unspent. Conservation is therefore stated of all lots, expired or
  not, and `WalletLedger` holds that money.
* The stored balance may exceed what may be spent until a debit fails and
  corrects it; it is `LotsConserved`, and not the balance, that says where the
  money is.
* A `PUT` whose tracking UUID is the one the wallet already carries changes
  nothing and answers as if it had.

## 4. The promise runtime

`src/silkcloud/.../langur/core/promise` and `JunboThreadPool`. A continuation
given to `Promise.then` captures the thread locals of the code that registers it
and with them one lock and one looper. `Looper` models one such context: its
threads (workers of the pool, and outsiders such as the threads of the HTTP
client), the futures, and the program (which continuation listens to what, and
which body waits in `get()`) as constants.

`stack[t]` is the call stack of thread `t`, of frames that matter: a body, the
loop inside a `get()`, the listeners a completed future still has to fire.
`queue`, `nested` and `asleep` are `Looper.runnableWrapperQueue`, `nestedLevel`
and the waiters of `notEmpty`; `ran` is the flag of `RunnableOnce`; `pool` is the
work queue.

| action | code |
| --- | --- |
| `Register` | `ListenableFutureWrapper.addListener`: at once if the future is done |
| `Get`, `Sleep`, `Poll`, `Leave`, `Expire` | `Looper.tryToWait`, `pollRunnable`, `run`, and the 30 second limit |
| `Finish` | a body returns; its future is completed and its listeners fire on this thread |
| `Answer` | an outside thread completes a call |
| `Stop` | the listener of a `get()`: `Looper.stop` |
| `Inline` | `RunnableWrapper.run` with the lock, on a worker or for links that Guava runs in place |
| `Offer` | `JunboThreadPool.execute`: the looper first, the pool if nobody waits, dropped if the pool is full |
| `Take` | a worker takes work from the pool |

### Runs

* **looper_chain** (two workers, two outside threads, five continuations, three
  calls) - two continuations of one call each wait for what another call starts.
  A nested continuation is queued both in the looper and in the pool when it
  arrives before the wait begins, so the double queueing, the lock and the
  wake-up are all exercised; the pool has room for all. `TypeOK`, `RunOnce`, `NotReentrant`,
  `NeverStranded`, and under fairness `AllRun`. Waits do not
  time out here: what is shown is that no *time limit* is needed.
* **looper_link** (a pool queue of one, waits that may time out) - a `get()`
  waits for a link that the thread which completes it must run, and that thread
  blocks on the lock the waiting one holds. Only the limit of 30 seconds ends
  this, and `EveryGetEnds` shows that it does, also when the pool drops work.
  The request waits in a `get()` of its own beside it, so two threads sleep on
  one condition, and `signal()` wakes the older. For an offered continuation either
  will do: `NoLostWakeup`, while a thread sleeps there are as many threads awake
  in their loops as there are continuations queued. For a `stop()` it matters,
  and nothing in the code helps: the wrong sleeper may be woken, and the `get()`
  of a completed future then sleeps until its limit and throws. The run reaches
  that state; that it does not last is the other half of `EveryGetEnds`.
* **looper_reentry**, **looper_waiting** - two violations (section 10).

The programs are small but contain every shape a chain of `then` has: listener
of a call, of a continuation, registered by the request or by a continuation,
waited for or not. Deadlock is not checked since every program ends.

Fairness: each thread takes its steps (the operating system schedules it), an
outside thread answers every call (the client has a request timeout and then
completes the future exceptionally), and a wait that lasts times out (the clock).
`Slow` turns the last one off where a property should hold without it.

## 5. The transaction manager

`src/silkcloud/.../sharding/transaction`, driven by Spring's
`JtaTransactionManager`. A context has a stack of transactions, the current one
last; `cons` is the ordered map of connections a transaction has enlisted, `out`
what has happened in the database to the first of them while it is completed,
`fault` which one threw first, `want` the source a context waits for, and `free`
the idle connections of all pools. Which sources share a pool is a constant: the
factory bean makes one pool per JDBC URL and one proxy per schema.

| action | code |
| --- | --- |
| `Start` | `begin`, after `suspend` for REQUIRES_NEW |
| `Ask`, `Connect`, `SchemaFails`, `TimeOut` | `SimpleDataSourceProxy.getConnection`: refused if marked; the pool; `SET SCHEMA` fails; connection timeout |
| `SetRollbackOnly` | an inner REQUIRED method throws |
| `Commit`, `Rollback` | the entry of `SimpleTransactionObject.commit`, `rollback`, `beforeCompletion` included |
| `CommitNext`, `RollbackNext` | one round of their loops; a commit that throws may or may not have taken effect |
| `Complete` | the final status, `cleanup`, the suspended transaction resumed |
| `Crash` | the process dies; databases roll back what was not committed |

### Run

* **tx_manager** (two contexts, two transactions begun, two sources over one pool
  of two connections) - `TypeOK`, `ConnectionsAccounted`, `CommittedPrefix`,
  `VerdictTrue`, `MarkedNeverCommits`, `EveryTxEnds`. Two is the smallest
  number at which each transaction holds a connection and waits for the other's,
  a commit fails on the second connection after the first is committed, and
  one transaction is suspended by another that needs the same pool. `MaxTx` and
  `MaxDepth` bound the transactions begun and their nesting; the proofs have no
  bound on either. Deadlock is not checked since `MaxTx` ends every behaviour.

`CommittedPrefix` is what "Just One Phase Commit" amounts to: the commit of a
transaction is not atomic over its connections, but what is committed is a
prefix of the order of enlistment. `VerdictTrue` says the status reported is
honest about it, and where it is not precise: after a failure on the *first*
connection the code reports a rollback although that commit may have happened.

Fairness: a context that is completing or waits for a connection goes on (weak);
code that has a transaction ends it sooner or later (strong, for it may be
interrupted by waits over and over, but asks for connections a finite number of
times). `EveryTxEnds` fails without the connection timeout, which is the only
thing that breaks a hold-and-wait on an exhausted pool.

## 6. Dual writing

`src/silkcloud/.../sharding/dualwrite`, `common/cloudant/client` and the
`DualWriteJob` of `silkcloud-jobs`. A repository in this mode writes the SQL
database, and in the same transaction a *pending action*; after the commit, and
by a job for as long as the action is pending, the action is replayed on Cloudant,
which is read and written through memcached. The state is the row (`sql`), the
action of the open transaction (`tx`), the table `pending`, the tasks registered
by `afterCommit` (`tasks`), the document (`store`) and its cache entry (`cache`);
and of each replaying thread where it is (`phase`), its copy of the action
(`act`), the document it has read (`seen`) and written (`wrote`). An age is
`resourceAge` plus one, so that 0 means absence.

| action | code |
| --- | --- |
| `Save`, `Delete`, `Commit`, `Rollback` | `SyncDualWriteStrategy`, `DualWriteQueue`, its `afterCommit` |
| `StartTask` | the replay a request does after its commit |
| `StartJob` | `DualWriteJob`, `DualWriteProcessorImpl`: any action not retried too often; one without its entity type only counts a retry |
| `Read`, `Fill` | `CloudantClientCached.cloudantGet`: the cache, or the store and then the cache |
| `Skip`, `Write`, `FindGone`, `Conflict` | `replaySave`, `replayDelete`: nothing to write; POST, PUT or DELETE with the revision read; a DELETE answered 404, which is a success; refused |
| `Sync` | the cache after the write |
| `Forget` | the pending action is deleted |
| `Lose`, `Abort`, `Crash` | an answer is lost, the deleting transaction fails, the process stops |
| `Evict` | an entry expires (3600 s), is evicted, or the sniffer drops it |

### Runs

* **dual_write** (one document of two ages, two replaying threads, one retry, one
  fault) - `TypeOK`, `NothingForgotten`, `RetriesCounted`, `DroppedWhenDone`,
  `IsReplica`, and `CatchesUp` under fairness. Documents do not touch each other, so one is
  enough; two ages and two threads are what it takes for an older save to be
  replayed after a newer one, from a stale entry, with a deletion in between.
* **dual_write_settled** - once nothing is left to replay, the stores agree:
  violated (section 10).

Fairness: the threads go on, tasks and the job start (the job is a timer), and
cache entries do not last for ever. `CatchesUp` depends on the last: a stale entry
makes every write a conflict for as long as it lives.

### What the model made visible

* A save and a deletion of one document in one transaction lose the entity type
  of the deletion (`DualWriteQueue.groovy:73`); such an action can be replayed by
  the request, and never by the job.
* A failed request to Cloudant is recovered to `false` before the retry counter
  is reached, so `retryCount` stays 0 and the job reads the same page of
  candidates first each time (`DualWriteJob.groovy:69-71`).
* Of an entry that is there, `addCache` drops it rather than keep it: the reason
  why two readers who fill the cache one after the other cannot leave the older
  answer in it.

Left out: transactions over several documents (their actions are replayed one by
one), several data centres, and `CloudantClientForDualWrite`, which nothing uses.

## 7. A payment

`src/payment`: `PaymentTransactionServiceImpl` and its base class, the callback
service, the adapters of the providers, and the two jobs that reconcile. The
model is one payment, a set of requests about it (the first makes it), one of the
six adapters, and the provider behind it. `status`, `token`, `log` and `tracked`
are the row of the payment, its tokens (`external`, or the parameters of the
callback), its events and the tracking UUIDs; `held` is the provider's own status,
`notes` are the notifications under way, and `asked` is the call of each request as
the provider has it: not made, sent, taken (received and not yet carried out),
done, or taken and then failed. The rest is local to a request: what it read
(`read`, and in `named` whether there was an external token to name the payment by)
and what it was answered (`ans`).

| action | code |
| --- | --- |
| `Create`; `Read`, `Refuse`, `Announce` | the payment, or the new status of it, is committed with an event before the provider is called |
| `Send`, `Receive`, `Redirect`, `Unacknowledged`, `NoAnswer`, `Fail` | the call of the adapter and its answers |
| `Succeed`, `Decline`, `Overrule`, `Restore` | what is written after the answer; the paths of `handleProviderException` |
| `Look`, `Learn`, `LearnNothing`, `Report` | `getUpdatedTransaction`: a client polls, the provider is asked |
| `Return`, `WriteBack`, `ConfirmNotify` | the user comes back from the provider's page |
| `Deliver` | `processNotification` and the settlement reports |
| `Take`, `Perform`, `Reject`, `Settle`, `Expire`, `Review` | the provider acts, perhaps after the service has given up |
| `Crash` | the process stops, a transaction fails, an adapter throws before it calls |

What an adapter decides is in operators of its name, so that the control above them
is one for all: `Serves` (what has more than an exception), `Redirects` (a charge
at Adyen or PayPal sends the user away, and is UNCONFIRMED until he returns),
`Reaches` (which calls name the payment by the token read), `Recovers` (which
failures are caught), `Results` (what is answered), `Told` and `Askable` (the query
and the mapping of its answer, refusals included).

Three things differ most from adapter to adapter. *Adyen* answers a capture, a
cancellation and a refund with "[capture-received]" and its like (`Queued`), and the
adapter makes a success of it: the operation is carried out later (`Perform`) or
fails (`Reject`), and CAPTURE_FAILED and REFUND_FAILED arrive as notifications
(`NotedFailed`). A refund may be reported as done and then as failed. *Braintree and
PayPal* have a query; the others return null from `getByTransactionToken`, so a poll
of theirs learns nothing. *Facebook* may hold a payment back for a review of the
risk, and release or block it with a notification (`Review`).

### Run

* **payment** - four requests in fifteen combinations of an adapter and the
  requests (an authorisation with two captures, a capture and a reversal, a charge
  with a callback and a refund, and so on; every operation, every adapter, a
  callback where users are sent away, and a poll in ten). One request makes the
  payment, two race about it, and a poll or a callback comes in between;
  notifications, settlement, late failures and lost answers come on top of each.
  `TypeOK`, `StatusBacked`, `AuditTrail`, `CaptureBacked`, `IsLedger`, and `Heals`.

Nothing orders the writers of the status, and the last one wins; the properties
say what is true all the same. `StatusBacked`: the status claims only what the
provider has accepted or done, and where the service says more than that
(REFUNDED for a refund that Adyen has received, SETTLED for a charge that has just
been made) the property says which of the two it is. `AuditTrail`: whatever the row
says was said in an event, and that an operation is under way or was refused it says
only if a request of that operation has committed the event, or the provider has
failed what it had accepted. `CaptureBacked`: only what was authorized is captured.
`IsLedger`: the provider accepts only what a committed event announces, carries out
only what it has accepted, and nothing is kept as a success under its tracking UUID
that was not accepted. That it was carried out is not so, and `PaymentLedger` does
not promise it. `Heals`: while a payment is open and can be asked about, the status
agrees with the provider's again and again, be it a refusal.

Fairness: the client polls and its server answers (weak), and a provider asked
again and again answers at last (strong: a single query may fail). It is assumed of
`Learn` alone, which needs an adapter with a query and the token the query names
the payment by (`Askable`); of other payments nothing is claimed. That leaves out
every Adyen, Facebook and eWallet payment, a Braintree payment whose server died
between the answer and the write, and a PayPal payment that already has an external
token. A declined status recorded for a lost answer is not open, and stays.

### What the model made visible

* A refund, a cancellation or a capture that Adyen has received is recorded as
  REFUNDED, REVERSED or SETTLEMENT_SUBMITTED, and its tracking UUID kept as a
  success, before it is carried out and whether or not it is
  (`AdyenProviderServiceImpl:279-283, 317-321`). CAPTURE_FAILED and REFUND_FAILED
  correct the status later, if they come, and nothing corrects the UUID. There is
  no notification for a cancellation that fails.
* The notifications are written in the order in which they arrive: a REFUND that is
  delivered after its REFUND_FAILED leaves REFUNDED.
* An authorisation by `AdyenCCProivderServiceImpl` calls Adyen before it makes a
  promise (:264-271). What it throws is not recovered from, and the payment stays
  AUTH_CREATED.
* A capture by it that is not acknowledged returns the request as it came
  (:302-309), and so SETTLEMENT_SUBMIT_CREATED is written as the answer.
* A reversal that the provider declines is recorded as declined and then
  overruled by REVERSED: `handleProviderException` returns a failed promise that
  nobody looks at (`PaymentTransactionServiceImpl:285-298`).
* Requests are never recognised as retries: the look-up by tracking UUID compares
  a `String` with an enum (`AbstractPaymentTransactionServiceImpl:119`), and
  the UUID is stored only after the answer although the comments at :54 and :94
  say the transaction is committed with it before.
* Adyen's notification of an authorisation is recorded as SETTLEMENT_SUBMITTED
  (`AdyenProviderServiceImpl:438`), and so is Facebook's release of one: after it a
  capture is refused.
* Two captures, or a capture and a reversal, may both pass the checks and be sent.
  It is the provider that carries out one of them, and no property covers it.
* Nothing in the code writes CHARGE_BACK, which would refuse a refund.

Left out: amounts, requests for several payments, the maintenance of payment
instruments. `getUpdatedTransaction` would also report an unchanged status when the
provider's answer brings the first external token (:341-344): no adapter answers a
query with one, so the branch is not taken.

## 8. An offer of the catalog

`src/catalog`: `OfferServiceImpl`, `BaseRevisionedServiceImpl`, the validators, the
Cloudant repositories, and the admin page. An offer has revisions, each with a
status and an interval of time; the offer lists the approved ones, and which of
them is current is either persisted or found at each GET from the clock. The state
is the two kinds of documents with their tags (`_rev`), the page or request of
each user with the copies it holds, the clock, and `torn`, a history of requests
that stopped between their two writes.

| action | code |
| --- | --- |
| `Create`, `Open` | a draft; the admin page of a revision, with the tag it shows |
| `Submit` | `updateRevision` up to its first write: the rules of statuses, validation, the dates stamped |
| `ReadOffer`, `PutOffer` | `updateOfferForApprovedRevision`, `updateOfferForObsoleteRevision`: the offer is read, and written if its tag is the one read |
| `PutRevision` | the revision, likewise |
| `Stop` | refused, in conflict (409), or the server died |
| `CheckDelete`, `Delete` | `deleteRevision`: the status is checked, then the document read again and deleted |
| `EditOffer`, `Tick` | the rest of the offer is edited; time passes |

### Run

* **offers** - two users, two revisions, two instants, three writes of the offer,
  drafts written twice, and six forms: draft, submitted, obsolete, approved for
  ever, until 2, and from 2 on (`Entered`; a rejection is a draft as far as the
  code goes). Users and revisions are symmetric. 1.5 million states; with four
  writes of the offer (4.6 million) nothing changes. `TypeOK`,
  `DocumentsAgree`, `ServedIsApproved`, `ApprovedIsFinal`, `ApprovalsKept`,
  `StaysOnSale`. Two users are enough for one to overtake the other between any two steps; the
  proofs have no bound.

### What the model made visible

The five properties carry the exceptions the code has, and each exception is a
behaviour of the model:

* A crash or a conflict between the two writes leaves the offer serving a revision
  that is not approved; nothing undoes it (`torn`, in `DocumentsAgree` and
  `ServedIsApproved`).
* A deletion accepted while a revision was a draft removes it after it has been
  approved, against "Cannot delete an approved revision."
  (`BaseRevisionedServiceImpl:80`).
* A second approval of the revision on sale, submitted before the first was done,
  may move its start into the future and take the offer off sale.
* Obsoleting a revision stores as *current* whatever was current at that moment,
  also one that ends (`OfferServiceImpl:247-260`), though the comment at :266
  keeps that for revisions without an end; it is then served after its end, and
  also when it is made obsolete after its end, since the offer is not told of
  that (:241). `ServedIsApproved` therefore does not say that what is served is
  in force: it says that everything else is, and that this one case needs another
  revision to have been made obsolete before (`Retired`). The run reaches it.
* An approval that overlaps an approval and an obsoletion of the same revision
  puts the obsolete one back into the list.

Left out: the deletion of a whole offer (`deleteEntity`), after which nothing is
served and every write of it is in conflict; prices, categories and other
contents, the search index and the copy of the active revision made for it, the
caches (off by default; a stale read is caught by the tag), items (the same
pattern without dates).

## 9. What is proved, and what is only model-checked

All proofs are checked by TLAPS for every value of the constants that satisfies the
named assumptions of the modules: finitely many requests and positive amounts
(`RequestsAssumption`, `AmountsAssumption`), well-formed menus, a distinguished "no
UUID"; for continuations, that links run in place do nothing but complete a future
(`LinksAssumption`), and what a theorem says itself; for transactions, natural
bounds and that `NoSource` is not a source; for dual writing, payments and offers,
natural bounds, markers distinct from values and from the participants, and menus
and forms made of operations, statuses and dates.

**Wallet.** `TypeOK` is not inductive: a balance stays natural only because what
a request decided about a wallet it read is still true when it writes.
`WalletProofs!IInv` adds, for each request: the row it holds is the committed one
unless the version moved (`SnapSound`); a request about to write has validated
that row (`Checked`); a refund holds a debit with enough left (`DebitRead`); a
request that has not reached its commit has posted nothing and none is answered
before it ends (`Unposted`), and each is in a step of its own operation
(`Placed`). From it:

* `WalletInvariant`, `WalletTypes` - the invariant, no amount below zero;
* `WalletNoLostUpdate` - a posting moves the balance by exactly its amount;
* `WalletLockedFrozen` - nothing is posted while locked.

`WalletMoneyProofs!MoneyInv` adds the money itself, with `RefundsOfDebits`. Its
steps add and subtract entries in tables of amounts, by the laws in
`TotalsTheorems` (`TotalUpdate`: changing one entry moves the total by the
difference; `TotalSum`, `TotalDifference`). From it:

* `WalletLotsConserved`, `WalletDebitsBacked`;
* `WalletPostedOnce` - with `Backed`: between commit and answer the transaction
  is posted, so "posted" is told of nothing else;
* `WalletBooksBalance` - a posting moves the total of the lots and the total of
  its type by the same amount, and no other step moves any (`NextMoves`);
* `WalletBalanceIsMoney` - the correction is dead code where nothing expires: the
  stored balance is then the total of the lots, so a debit that passed its check
  finds enough lots to pay from;
* `WalletImplementsLedger` - initial states map to initial states, and every step
  is a step of `WalletLedger` or a stutter: crashes, expiry, corrections and
  conflicts are stutters, `Update` is a freeze or a thaw.

**Transactions.** `TxManagerProofs!IInv` adds to the types what a completion has
done so far, by status (`Shape`), that a live transaction is on one stack, once
(`Stacks`), and `ConnectionsAccounted`. From it: `TxTypes`, `TxConnections`,
`TxPrefix`, `TxVerdict`, and `TxMarked`, an action argument: once marked, only
"rolling" can follow, and a completion that rolls commits nothing. And how a
transaction ends, which no run states: `TxAllVisited`, no connection goes back to
its pool with a transaction still open in its database; `TxFinal`, an end and
what was done by then never change, and nothing is enlisted once a transaction
is marked; `TxNoLeak`, the pools are whole when nobody is in a transaction. They
rest on `TouchesCurrent`: a step touches only what is current somewhere.

**Promise runtime.** Any program of continuations, any threads. A step moves one
stack, and one lemma per action says what becomes of its frames and of the
listeners it still has to fire; the invariants of `LooperProofs` follow from that.

* `CodeRunsOnce`, from `Entered`: a body is on one stack, once, and its future is
  not done.
* `ContinuationsNeverOverlap`, from `OneLock`: the lock of the context is below
  every body of a continuation and every wait. It needs that the request's own
  code does not wait in `get()`; run `looper_reentry` shows what happens when it does.
* `WakeupsReach`, from `Awake`, for any number of sleepers: an offer queues one
  continuation and wakes one thread, a poll takes one away with its thread, and
  a thread leaves or falls asleep only beside an empty queue. (It says nothing of
  the signal of a `stop()`, which may wake the wrong sleeper.)
* `TypesHold`: `nested` is the number of `get()`s whose listener is in the list of
  its future or in the hands of the thread that completed it (`Counts`), each of
  them in one place only (`Placed`), and a second `get()` of the same body cannot
  begin meanwhile (`Waiting`). So `nestedLevel` never goes below zero, also when
  waits throw.
* `NothingStranded`, from `Deliveries`: when no wait throws, a counted `get()` has
  its loop on a stack (`Looping`), so what the looper keeps from the pool will be
  polled. The pool must have room for all continuations; that a full one drops
  work is part of `looper_link`.
* `NothingIsLeft`, the safety half of `AllRun`, under the same hypotheses and for
  any program: once the calls are answered the threads do not come to rest before
  every registered continuation has run to its end, and has registered all it
  was to register. A body that was entered is on a stack until it is over
  (`Carried`), and of any set of continuations not yet run one listens to a
  future outside of the set (`Rooted`), which is done; `NeverStranded` then says
  that the threads are not at rest. That they do come to rest stays with TLC.

**Dual writing.** That no change is forgotten depends on what a replay knows: what it
has read, perhaps from a stale entry, is a version the document once had.
`DualWriteProofs!IInv` says so of cache entries (`CacheKnown`) and of replays
(`WorkersKnow`, `WorkersRest`); that every action anywhere belongs to a committed
age (`ActionsCovered`), an open transaction is ahead of the row (`TxAhead`), the
document behind it (`CopyBehind`); and that a replay about to delete a save has
seen the store at its age or later (`SaveDone`). From it: `DualWriteTyped`,
`NothingIsForgotten`, `DroppedOnlyWhenDone`, and `ImplementsReplica`. Further:
`RetriesAreFaults` (a pending save is retried once more for each fault at most),
so that `NeverGivenUp` (with no more faults than retries allowed the job still
selects it); `QuietMeansSettled`, when nothing is pending a document that lives
is in Cloudant as it is in its row (the part of `Settled` that holds; the run
`dual_write_settled` shows that deletions are the other part); and
`OnlyCommittedIsRead`: no age of a transaction that is open, or was rolled back,
reaches store, cache or replay.

**Payments.** What the provider has accepted, carried out or failed, and what the
log says, only grow (`NextGrows`), so a status the provider once backed stays backed
wherever it is remembered: the row, a request that has read or heard it, a
notification under way (`Memories`). `PaymentProofs!IInv` adds what the provider's
own status tells of the requests taken or carried out (`Holds`), which calls have
been announced and of what adapter they are (`Announced`, `Capturing`), which have
not been made (`Unasked`), and what an answer means (`Answered`, `Overruled`). From
it: `PaymentTyped`, `StatusIsBacked`, `CaptureIsBacked`, and `ImplementsLedger`.
`TrailIsKept`, of `AuditTrail`, needs `TrailInv` besides: what the row says, and
what any request has read of it, is trailed, and what an adapter answers or notifies
is either no word of the service's own, or that of the operation asked, or tells of
a failure. `OnlyAnnouncedIsTaken` is proved of the ledger alone, in two lines, and
carried to the service by the refinement.

**Offers.** Each write raises the tag of the document, and is taken only with the tag
of the version it was made from. `OffersProofs!IInv` therefore speaks of a
pending write only while its tag is the present one: then the revision still
allows it (`Based`), the offer in the request was made from the present offer
(`CopyBased`), and a request between its two writes has listed the dates it is
about to give the revision (`Finishing`, unless another request on the same
revision is there too, or was left there). From it: `OffersTyped`,
`OfferAndRevisionsAgree`, `ApprovalIsFinal`, `ApprovalsAreKept`,
`OnlyApprovedIsServed` (with `Ended`: what is obsolete, or about to be written so,
has ended by the clock, so an entry in force is of a revision that is not; and
`Stored`: a stored current revision is listed and has begun, and if it has an end
an obsoletion of another revision stored it, whichever copy of the offer it comes
from), and `SaleStays`; the
last needs that of the entries in force one was approved last, which is shown
with the well-foundedness of the natural numbers.

**Only model-checked**: the liveness properties `AllRun`, `EveryGetEnds`,
`EveryTxEnds`, `CatchesUp` and `Heals` (liveness under fairness is out of the
prover's reach). Their safety halves are proved where they have one: of `AllRun`
`NothingIsLeft`, of `CatchesUp` `NeverGivenUp` and `QuietMeansSettled`.

The proofs use the library's theorems on sequences, finite sets and well-founded
relations, and nothing unproved.

## 10. Disagreements between the code and its texts

* **A correction can erase a credit** (run `wallet_correct`). `correctBalance`
  sums the valid lots and then reads the wallet and its version. A credit or a
  refund committed between the two passes the version check and its amount is
  missing from the stored balance, though its lot is valid. The service says the
  correction is there "because some of the walletLots have expired".
* **Two continuations of one context overlap** (run `looper_reentry`).
  `PromiseTest` expects that continuations never re-enter. A thread waiting in
  `get()` runs what it polls without the context's lock; if it is the request's
  own thread, which holds no lock, a worker of the pool can run another
  continuation at the same time. When the thread that waits is itself running a
  continuation the lock is held and the expectation holds (`looper_chain`).
* **"No thread waiting"** (run `looper_waiting`). The looper reads a positive
  `nestedLevel` as a thread that waits; after a wait that timed out the level
  stays up until the future completes, and what is offered in the meantime is
  kept from the pool and polled by nobody.

* **A deleted document comes back** (run `dual_write_settled`). The strategy says of
  the secondary store that "there is still a backend job" if a write fails. The
  replay of a deletion that finds no document succeeds and leaves no trace; when
  the replay of the save before it comes later, it creates the document. No
  action is left, and Cloudant keeps what the primary has deleted.

Those without a run, met while modelling, are in sections 6 to 8.

## 11. Plan

Done: `Wallet`, `Looper`, `TxManager`, `DualWrite`, `Payment` and `Offers`, each with
its proofs.

Next:

1. `Billing` - balances over the payments of `Payment`. Facts the model has to
   take up: the message is published before the status QUEUING is stored
   (`BalanceServiceImpl:174-180`), so a fast consumer's COMPLETED may be
   overwritten; `updateBalance` overwrites without a version
   (`BalanceRepositoryFacadeImpl:201-226`); each charge goes out under a fresh
   random UUID (`TransactionServiceImpl:366`).
2. `Order` with `Fulfilment` - composed: an order is charged, fulfilled, refunded;
   jobs and retries as actions of their own.
3. `WalletDirectory`, `Token` - creation of wallets and consumption of tokens,
   both a check followed by an insert.
4. `IdGenerator` - uniqueness of ids with counters of fixed width.

Each has one passing run of the interleavings its hazards name, at most one run
for a disagreement met on the way, and theorems for its safety properties.

## 12. What is not modelled

* Of the eWallet: creation of wallets, and the read-only resources.
* Of the promise runtime: more than one context (`Promise.all` opens scopes with
  `ThreadLocalRequireNew`), the asynchronous executor, the contents of the thread
  locals that are captured and restored.
* Of dual writing, payments and the catalog: what sections 6 to 8 say is left out.
* Of transactions: asynchronous transactions of one context that end out of
  order, and connections used outside any transaction.
* Everything `PROJECT.json` lists as `not_modelled`, each with its reason: either
  planned above, or stateless, or a thin layer over something external.
* The JavaScript files of the repository, but for the admin page of the catalog
  (`controllers.js`), are libraries it carries along (Angular, Swagger UI) and
  their like; the services are written in Java and Groovy, and those are what the
  modules translate.
