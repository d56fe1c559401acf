# BCAudit / FastChainDB in TLA+

A verification development for the repository under `src/fastchaindb`: a
notarization service that stores the hash of files on a Hyperledger Fabric
channel and keeps the bookkeeping in MySQL.

Paths below are relative to `src/fastchaindb`.

## 1. The system

| part | where | state it keeps | operations |
|---|---|---|---|
| certificate application | `fastchaindb-cert` (`cert/*`) | `cert_file`, `cert_info`, the upload directory | upload, save a certificate, delete certificate or file, download, refresh |
| SDK client | `fastchaindb-sdk` | one HTTP client per JVM | `sendTransaction`, `getChainByTransactionId` over HTTP, 30 s limit |
| Fabric gateway: submit pipeline | `fastchaindb-fabric` (`FabricService`, `FabricHandler`, `FabricTaskRun`) | in-memory queue, `EHCache` of proposal responses, ten worker threads, table `cert_block` | `sendTransactionProposal` (request thread), `sendTransaction` (workers), chain queries |
| Fabric gateway: bootstrap | `FabricStartConfig.hfClient` | `fabric_monitor`, `fabric_monitor_peer`, `fabric_monitor_order` | create channel, join peers, install and instantiate the chaincode, test it |
| Fabric network | external, behind the vendored Java SDK | ledger, peers, orderers | endorse, order, commit, events |
| users, roles, permissions | `fastchaindb-cert` (`system/*`, `common/shiro`) | tables of users, roles, authorities; in Redis the rights of a user as of a login, the authorization cache, the sessions | register, change users, roles and authorities, login, permission check, logout |
| proof of evidence | `cert/*/Proof*` | `proof_*` tables | a clone of the certificate classes |
| main page and router | `static/module/index.js`, `admin.js`, `static/assets/libs/q.js` | the address, the body of the page, the loading icon | navigate, refresh, show a reply |
| upload dialog | `templates/cert/certinfo_form.html` with the plugin `jquery.uploadifive.js` | the plugin's queue and counters, the id of the stored file, two buttons | select, drop, replace, cancel, replies of the server, submit |
| tree of authorities | `templates/system/authorities.html`, `treetable.js` | which rows are shown, which directories are open | render, click, search |
| role form | `templates/system/user_form.html`, `formSelects-v4.js` | the selection, three times | open, click, all, none, reverse, save |
| dashboard, public lookup, audit, Ethereum gateway, chaincode | see `PROJECT.json` | | statistics, reads, single statements, forwarding |

How they interact.  The application calls the gateway synchronously over HTTP,
once per file, from inside a database transaction.  The gateway asks the peers
to endorse; then either the request thread itself orders the transaction and
waits for its event (`fastchaindb.async=false`, the default) or it caches the
responses, offers the transaction to the queue and answers at once, and a
worker orders it later.  The outcome is a row of `cert_block`.  A download or
refresh hashes the stored file and compares it with the transaction on the
chain.  In the browser a router replaces the body of the main page with what the
server sends; the pages open dialogs over it, each with state of its own.

What is hard here: the hand-over between request threads and workers through
two shared structures; the two time limits (30 s in the client, 50 s in the
gateway) against a ledger that may answer later; failing inserts next to
effects on the ledger that cannot be rolled back; restarts that empty queue and
cache; saves, deletions and checks of the same rows that overlap; a bootstrap
that writes its tables after each irreversible network call; rights that exist
three times, in MySQL, in the copy a login makes and in the authorization cache,
and are filled in several steps while administrators change them; in the
browser, replies that arrive in any order between the clicks of a user, and
counters and marks that several handlers keep by hand.

What makes each part correct:

* pipeline: success is recorded only for what the ledger holds as valid, once;
  nothing is given to the SDK twice; an accepted transaction is settled or lost for
  a known cause; a synchronous answer means "notarized and recorded";
* certificates: a row's certificate and transaction belong together, no row
  dangles, a certificate is all or nothing, what is served was verified;
* bootstrap: the tables never claim more than the network has, lag by at most
  one step, and a gateway that is up is usable;
* users: a login that nothing of the same user overlaps, and that finds nothing of an
  earlier one cached, is not checked against rights older than itself; a session's
  checks find the rights they read; no authority is left under a deleted parent;
* browser: no form is posted while its file is on the way, a file waits only with
  a reason, a row of the tree is visible when the directories above it are open,
  a save changes the roles that were switched and no others.

`PROJECT.json` lists every component, modelled or not, and under `hazards` the
places in the code where these things could go wrong.

## 2. Modules

```
SubmitPromise            what the gateway promises about a transaction
   ^ implemented by            ^ used as the gateway by
FabricSubmit             CertNotary
   |  \                       |  ^ MCCertNotary, CertNotaryProofs
   |   +---- Notarization ----+     both processes together
   |            ^ MCNotarization, NotarizationProofs
   ^ MCFabricSubmit, FabricSubmitProofs
   ^ ChainLookup, MCChainLookup
   ^ FabricPromiseProofs (also about ChainLookup)

FabricStart              the start of the gateway
   ^ FabricStartProofs

Access                   who is logged in, and with which rights
   ^ MCAccess, AccessProofs

UploadPage    TreeTable    RolePicker      three pages of the browser
      \            |            /
                Console                    and the window they live in
   ^ MCUploadPage, MCConsole
   ^ UploadPageProofs, ConsoleProofs (the tree included)
```

Mutated definitions (`Peek`, `BindEveryRow`, ...) stand beside the action they
spoil, each with a comment "Mutant"; no specification uses them.

### FabricSubmit

A request thread is identified with the transaction its proposal creates.
`req` is the stage of the request, `pc`/`held` the stage and local variable of
a worker, `queue`, `cache`, `certBlock` the shared structures, `ledger` the
network's view, `sends` and `lost` history variables.

| action | code |
|---|---|
| `Propose`, `ProposeFails` | `FabricHandler.sendTransactionProposal` up to the answers; exceptions and the null result dereferenced in `FabricInstance` |
| `CacheResponses`, `Offer`, `Reply` | `FabricService` 109-113 and the return, as three steps: workers run in between |
| `SyncCheckFails`, `SyncSubmit`, `SyncEvent`, `SyncAwaitFails`, `SyncSave`, `SyncSaveFails` | `orderConsensus` and the insert in the request thread |
| `Poll` | `FabricTaskRun` takes the head of the queue |
| `CheckFails`, `Submit`, `Event`, `AwaitFails` | `FabricHandler.sendTransaction`: missing or failed responses, the call of the SDK, event, 50 s or invalid |
| `OrdererAccepts`, `BroadcastThrows` | the two ends of the SDK's `Channel.sendTransaction` |
| `RecordSuccess`, `RecordSuccessFails`, `RecordFailure`, `RecordFailureFails` | the insert in the try block, and the catch block |
| `Commit` | the network commits a block with the transaction, valid or invalid, at any later time |
| `Crash` | the process is killed and started again |

`Channel.sendTransaction` (in the copy of the SDK beside the gateway) tries the
orderers of the channel in a shuffled order until one answers SUCCESS, and goes on
to the next after an exception or another status.  The list has `Orderers` entries;
on a first start `FabricStartConfig` puts the first orderer on it twice.  So an
envelope whose acknowledgement is lost goes out again, and several copies may be
ordered; the peers accept the first, and the block with a later one changes nothing
but may end a wait early, as `AwaitFails` may at any time.  The loop is one step,
since nothing reads how far it is; `sends` notes for every call how many orderers
it went to.  `BroadcastThrows` is the call that ends without a SUCCESS, which an
envelope may survive all the same.  What `SubmittedAtMostOnce` says is that the
pipeline makes at most one such call per transaction, not that only one copy of the
envelope exists.
`SaveThrows` lets an insert fail before or after its commit (`SaveFaults`), and
stands for a `splitBlock` that throws as well.  The branch of
`FabricService.sendTransaction` behind a null event cannot be reached
(`FabricHandler.sendTransaction` dereferences the event) and has no action.
Which entry the full cache evicts is left open; the new one is never the victim.

### SubmitPromise

The same promise without threads: `status`, `answered`, `onLedger`.
`FabricSubmit!KeepsPromise` is its specification under the refinement mapping
`Status` (what the first row of `cert_block` says, else lost, else pending
while it is queued or held).

### ChainLookup

A query beside the pipeline, over the variables of `FabricSubmit`: `AskById` for
an id that was answered, `AskByData` for any set of rows that match (the
statement of `CertBlockMapper.xml` does not look at their status), then one
`QueryBlock` or `QueryMissing` per row while the pipeline goes on.  The code goes
through the rows in the order of `create_time`; the module in any order, since one
missing block ends the query wherever it stands.  `doubtful` remembers whether a
row without status 1 was among them: `SuccessesAreFound` is about the queries
without one.  With one, the whole answer may be lost, or hold a transaction that
the ledger marks invalid, because `getXChainBlock` never asks for the validation
code.

### CertNotary

The application over the *promise* rather than over the pipeline: `status`,
`answered` and `onLedger` are SubmitPromise's variables, `GatewayStep` and
`GatewayLoses` (a restart takes several transactions at once) its actions.  A save is `StartSave`, then `Send`/`Answered` per file, then `Bind`
(the update and the commit) or a failure that rolls back.  `TakeId` is the half of
`Answered` that happens in the application.  MySQL rows become
visible at the commit, so the insert into `cert_info` is part of `Bind`.
`DeleteCert` is one step: the sign id it reads first never changes.  A download
or refresh is `ReadRow`, `HashFile`, `CheckAgrees` or `CheckFails`, `Serve`,
`Finish`.  `Tamper` changes or removes a stored file.  `delete_flag` is left
out; `last_check_time` is represented by the transaction it is about
(`checked`), because that is what could be wrong with it.  A gateway error, a
time-out and a lost connection all reach the code as data that is missing:
`SendFails`.

Facts of the code the model keeps: an upload whose file cannot be stored still
returns an id (`StoreFileFails`), and a certificate then covers the files that
have a row; rolled back saves leave their transactions on the chain; the file is
read again after the check (`Serve`); the check accepts the block of an invalid
transaction (`InBlock`); of two saves over one file the last commit wins.

### Notarization

The application and the gateway as two processes: `FabricSubmit` extended with the
variables and the actions of an instance of `CertNotary` (`App`), in which the
promise is replaced by the real gateway.  They have a database each and share only
the HTTP calls.  A transaction is a pair of a save and a file; `GatewayStep` starts
a request thread only for a pair that was sent (`requested`), and `Receive` is the
application's half of an answer, for a thread that has replied.  Either process
restarts alone, and the application may have given up a call (`SendFails`) whose
thread goes on to the ledger and to `cert_block`.  `KeepsNotary` says that the
whole, seen from the application, is `CertNotary`; an answer counts there from the
moment the application has the id, since until then nothing depends on it.

### FabricStart

One start of the gateway at a time.  `channel`, `joined`, `installed`,
`instantiated` are the network; `channelRow`, `orderRow`, `peerRow`, `ccRow` the
tables; `seen` what the start read from them.  A peer is its position in
`peer.name`.  Every call and every row is a step of its own; `Crash` before and
after each of them stands for a killed process as well as for an exception
before or after the effect, since any exception ends the start.  Fabric refuses
to create a channel, join a peer or instantiate a chaincode twice; a peer that
has the package refuses it, which the code only logs.  `Extend` appends a peer
between two starts.  `began` and `clean` are history variables for the
properties.

What the model shows besides its properties: a start that died between
`CreateChannel` and `RecordChannel`, or between `JoinPeer` and `RecordPeer`, is
refused from then on; one that died between `Install` and `RecordInstall` comes
up once and never again; one that died after `RecordInstall` and before
`Initialize` never instantiates the chaincode.  No start repairs the tables.

### Access

The tables of MySQL are `account` and `row` (sys_user: the state, and the rest of
the row as the number of the change that first gave it that content),
`userRoles`, `grants` and `menu` (sys_authorities).  Redis holds `copy` (key
`authorities:<id>`, written by a login) and `info` (Shiro's authorization cache,
whose key is the serialised principal: the user with the row read at login).
`stage`, `who` and `got` are a browser's login, `check` the permission check
under way for it (one at a time per browser).  `since`, `alone` and `hit` are
history variables.

| action | code |
|---|---|
| `AddUser`, `Register` | `UserServiceImpl.add`, for an administrator and for `/register/add` with role 3 |
| `UpdateUser`, `UpdatePsw`, `UpdateState` | the methods of `UserServiceImpl`; a user always keeps a role, since an empty list fails in `insertBatch` or `parseInt`; `UserController.update` would write a state it is sent, but the form sends none |
| `DeleteRole`, `UpdateRoleAuth` | `RoleServiceImpl.updateState`, `AuthoritiesServiceImpl.updateRoleAuth` with the rights of a page that may be out of date |
| `AddAuthority`, `FindNoChild`, `DropAuthority` | `AuthoritiesServiceImpl.add` and the two halves of `delete` |
| `Find`, `ReadRights`, `WriteCopy` | `doGetAuthenticationInfo`: row and state, the rights, the copy |
| `Enter`, `Refuse` | Shiro compares the password and creates the session; a wrong password or a failing store ends the attempt |
| `LoadRights`, `StoreInfo` | `doGetAuthorizationInfo` reads the copy, and Shiro stores the result |
| `Logout`, `EndSession`, `Expire` | Shiro's logout removes the cached rights, then the session; an expiry only the session |
| `Flush` | Redis loses its data |

A transaction of MySQL is one step except `delete`, whose check for children and
deletes are two: another transaction may commit in between.  Facts of the code
the model keeps: the copy is replaced before the password is looked at;
locking a user ends no session; an expired session leaves its cached rights
behind, a session of the same principal finds them, and a changed row makes
another principal; a check under way may store its rights after the logout
removed them; the users of a deleted role keep it, and `UpdateRoleAuth` from an
old page gives it rights again.  `FreshRights` is therefore about a login with
its user to itself and nothing cached for its principal (`alone`): for the others
the code promises nothing, and two logins of one user may leave the older rights
in the copy.

### UploadPage

The dialog for one certificate.  A file of the browser is an element of `Files`;
`st` is its stage, `inputs` the files the plugin can still find under their name,
`count`, `current` and `uploaded` its counters `queue.count`, `uploads.current`
and `uploads.count`.  `canSubmit` and `canSelect` are the two buttons, `fileId` the
hidden field.  The page loads the minified build of the plugin; the lines are
those of the readable file beside it, of the same version.

| action | code |
|---|---|
| `Select`, `Drop` | the `change` event of the file chooser and `$data.drop`: the queue limit, `addQueueItem` with the replacement of files of the same name and the size limit, and the automatic `methods.upload` |
| `Cancel` | the cross of an item: `methods.cancel`, `removeQueueItem`, `onCancel` |
| `ReplyStored`, `ReplyRefused`, `ReplyError`, `ReplyUnread` | the `load` event: code 200, another code, another status, an answer that is no JSON |
| `OpenDialog`, `Submit`, `SubmitRefused`, `CloseDialog` | the frame and its form |

`Upload` is `methods.upload`, which the handlers call; the order of the waiting
files is left open.  Facts of the code the model keeps: a file over the limit is
not counted when added and subtracted when removed, so `count` may be negative and
a second file be queued; dropped files are never found again by name; a failed
upload is never subtracted from `current`, after which the dialog sends nothing
more; a request that breaks off without a `load` event leaves its file uploading,
which here is a reply that never comes.

### TreeTable

`shown` and `open` for the rows of one list of authorities.  `treetable.js` is
loops and recursions over the rows of the table; the module says with one least
set (`Reached`) what such a run reaches, and `MCConsole` has the loops themselves,
row by row, to compare (`TreeStepsAsCoded`).  Rows below a deleted parent or in a
cycle get no place (`Placed`).  Indents, icons and highlighting are left out.

### RolePicker

The roles of one user: `live` and `granted` are the tables, `row` what the table on
the page holds (nothing until it is loaded), `loaded` and `options` what the form was opened with, `values`,
`marked` and `hidden` the three copies of the selection.  `OpenForm` takes the
select from its insertion into the page (`DOMNodeInserted`) to the end of
`formSelects.value`.  `touched` is a history variable.  The rows of a deleted role
stay with the user until the next save.

### Console

The router.  `asked` are the pages asked for, `waiting` those without a reply,
`body` whose reply is shown.  `MainStep` replaces the body and with it the tables of
the pages (`TreeGone`, `TableGone`); `UploadStep`, `TreeStep` and `RoleStep` are the steps of the
pages, each only where the body shows the page and no other dialog covers it.  A
dialog outlives the page below it.  Two simplifications: the reply that renders the
table of authorities is taken when no dialog is open, and other administrators act
on a user's roles from the first look at the user page on.

## 3. Runs

| run | question | instance |
|---|---|---|
| `submit_async` | safety of the asynchronous pipeline, and of queries beside it | 3 transactions, 2 workers, 1 orderer, cache of 1, both insert faults, restarts, one query at a time; symmetric |
| `submit_async_live` | hand-over, one submission, progress, `SubmitPromise` | 2 transactions, 2 workers, 2 orderers, cache of 2, refused inserts, restarts |
| `submit_sync` | the synchronous mode alone: answers and progress | 2 transactions, both insert faults, restarts |
| `submit_retry` | the comment on five submissions (violated) | 1 transaction |
| `notary_sync` | certificates that share a file, deletions, tampering | 2 files, 2 saves, 1 reader, synchronous gateway |
| `notary_async` | certificates with files of their own; a save ends | 2 files, 2 saves, asynchronous gateway |
| `notary_fabric` | both processes: the agreement of their tables, and `CertNotary` implemented | 1 file, 2 saves (2 transactions), 1 reader, both insert faults, restarts and time limits on both sides |
| `start_crash` | repeated starts that die anywhere | 3 peers |
| `access_edits` | rights revoked and granted between the steps of logins, sessions that end, Redis flushed | 1 user, 2 browsers, 1 role, 1 authority, 3 changes; symmetric |
| `access_orphan` | children of deleted authorities (violated) | 2 authorities, one the parent of the other, 3 changes |
| `console` | the upload dialog, the tree and the role form below the router | 3 files, 2 of one name; 3 rows with every list of parents; 2 roles; 3 views; symmetric in the files of one name |
| `upload_cancel` | a cancelled upload is not notarized (violated) | 4 files, 2 of one name |

Why these bounds are enough to meet the interesting cases: two workers and
three transactions let both workers be busy while a third transaction is queued
or evicted; a cache of one overflows at the second transaction; two orderers let the
SDK go on to a second one after a lost answer (one is enough in `submit_async`, whose
properties do not look at `sends`); with two saves
over `{f1, f2}` and `{f2}` every order of reads, sends, commits and deletions of
a shared row occurs; a reader meets every one of them; three peers give a start
that dies before, at and after a middle peer, and two extensions; three changes
revoke a right, grant it and revoke it again within one login (that the rights of
two users are not mixed up is in the theorems, which are for any users); with
three files, one is replaced or cancelled while it is sent, one waits and a third
is refused or too large; three rows make every tree of three levels, cycles and
lost parents; three views let a reply be overtaken by two later ones. In
`notary_fabric` two saves over one file are enough for a call that was given up,
and whose transaction still reaches the ledger, to meet a second certificate over
the same row. `notary_fabric` has the synchronous gateway; its theorems are for
both modes. `notary_async` has no reader: `ServedIsNotarized` is checked in
`notary_sync`, and proved for both modes of the gateway. The theorems below are
for every value of the constants. The transactions, saves and readers of an
instance are used up, and the changes of an administrator are bounded by
`MaxChanges`, so the runs but `start_crash` and `upload_cancel` do not check
deadlock; the views of `console` are bounded by `MaxViews`.

`submit_retry` is a disagreement between a comment and the code: the comment at
`FabricService.java:187` says that a transaction is given up after five failed
submissions; the counter's branch is dead, and the first failure is recorded as
final.  (`CertBlock.blockStatus` is documented as 0 and 1; the code writes 1 and
-1.)

`access_orphan` is a defect: `AuthoritiesServiceImpl.delete` asks the
administrator to delete the children first (line 69), but the insert of a child
never asks for its parent.  A child is added after its parent is gone, from a form
opened before, or between the check and the delete, and hangs under nothing.

`upload_cancel` is another: after a file was uploaded its cross can still be
clicked, and an alert says that the upload, named with its id, is cancelled
(`certinfo_form.html:53`).  The field with the id is not cleared and the form can be
submitted: the certificate is made for that file.  A file selected in its place is
never sent, since the limit of one upload is used up (`IdIsKept`).

### Fairness

* `FabricSubmit`: weak fairness of every request thread and every worker.  The
  JVM schedules them, and `get(50, SECONDS)` ends every wait, so `AwaitFails` is
  always enabled while a thread waits.  Nothing is assumed of the network or of
  new requests; that is why `AcceptedIsSettled` and `RequestIsAnswered` hold of
  a network that never answers.
* `CertNotary`: weak fairness of each save request; every wait is bounded by the
  client's limit of 30 s.
* `Notarization`: that of `FabricSubmit`; nothing is assumed of the application.
* `FabricStart`: weak fairness of the thread that creates the bean, whose calls
  return or throw.
* `Access`, `ChainLookup` and the modules of the browser: none.  A user need not
  click and a reply need not come.  `Access` has no liveness property, since every step of a login is the
  user's or a store's to fail.

## 4. Theorems

All for any number of transactions, workers, files, saves, readers, peers, users,
roles, authorities, rows, views and browsers.

* `FabricSubmitProofs`.  The invariants the runs check are not inductive.  The
  strengthening `IInv` says where a transaction can be: before the hand-over it
  is with its request and nowhere else (`Untouched`), after it (`HandedOver`) it
  is in the queue once or held by one worker (`QueueInv`, `WorkerInv`), and its
  row, its submission and its ledger state follow from the stage
  (`RequestInv`, `RowInv`).  One lemma per action shows the step keeps `IInv`;
  the safety invariants follow from it.  `PendingHaveResponses` needs a second
  invariant (`CacheInv`) and a counting lemma (`RoomForAll`: a cache with room
  for all transactions never evicts).
* `FabricPromiseProofs`.  `Spec => KeepsPromise`: under `Status` the initial
  state maps to the initial state and every step to a step of the promise or a
  stutter; most steps need `IInv` to show that the mapped transaction is in the
  abstract state the promise's action starts from.  Two facts follow from the
  promise rather than from the code's actions: the ledger keeps what is valid, and
  `OutcomeIsFinal`, an action property: the first row of a transaction, or its
  loss, is the last word.  The module also holds the proofs about `ChainLookup`: its
  steps are those of the pipeline or leave it alone, so `IInv` holds beside a query
  (`PipelineHoldsBesideQueries` states four invariants of the pipeline for the
  specification with a query in it), a transaction with status 1 is valid on the ledger
  (`SuccessRowIsOnLedger`), and what is valid stays so while the query goes through
  its rows.
* `CertNotaryProofs`.  `IInv` ties rows to certificates, save requests, readers
  and the gateway; the seven invariants of the runs follow.  The theorems are about
  `Safety`, the specification without its fairness, so that they apply to the
  instance in the next module.
* `NotarizationProofs`.  The two specifications are proved about once and joined.
  `BothInv` is the invariant of `FabricSubmit`, that of `CertNotary` under the mapping,
  and `CallsInv`, which relates the two: a transaction that was never sent has no
  request thread, and an id the application holds belongs to a thread that replied,
  which no step of the gateway takes back (`RepliedStays`).  With them every step of the gateway is a step of `CertNotary`'s gateway under
  the mapping (`GatewayMaps`, from `StepMaps`), `Receive` is its `Answered`
  (`ReceiveMaps`, where `CallsInv` gives the guard of the promise's `Answer`), and the
  other steps of the application leave the gateway alone.  Hence `NotaryImplemented`
  and, by citing the theorems of `CertNotaryProofs` through an instance of it,
  `CertificatesHold`; `GatewayIsFabricSubmit` gives the other direction.
  `TablesOfBothAgree` needs both halves: a transaction in `cert_file` was answered,
  and what was answered is in `cert_block`.
* `FabricStartProofs`.  What a stage may rely on was left behind by earlier
  stages and by earlier starts, so none of the properties is inductive.
  `NetInv` relates tables and network at all times (the one joined peer that may
  be unrecorded has only recorded peers before it, so every later start stops at
  it); `StageInv` says how far the tables are at each stage and loop position;
  `SmoothInv` follows a start without a fault, from tables in step or with new
  peers, to its end, and carries the two properties of such starts.

* `UploadPageProofs`.  `UploadInv` says what the counters of the plugin count:
  `uploads.current` is 1 exactly while a file was sent and not completed, a failed
  one included, `uploads.count` is 1 once one completed, and no second one was
  sent; and that the button is disabled while one runs.  One lemma for `Upload`, which ends nearly every handler, carries most of
  the steps.  Beside the invariants of the run it gives `PostedIsStored` (what is
  posted was stored by the server) and `IdIsKept`.
* `ConsoleProofs`.  For the tree: that every row is visible when all directories
  above it are open is not inductive as it stands; `LocalInv` looks one level up: a
  row is shown exactly when its parent is open, and only shown directories are open.
  Clicks keep it (`CloseDirKeeps`: what a closing click reaches is closed and hidden
  with it), and the lemmas about `Reached` carry it up to the root.  Then `PickInv`
  for the role form, `NavInv` for the router, and `ConsoleKeepsPages`: every step of
  the window is a step or a stutter of each page's own specification (the tree that
  goes with its page is the render of an empty list), so what was proved of the pages
  alone holds in the window.

* `AccessProofs`.  `FreshRights` speaks of three places at once, and each is
  filled from another: the database through `got` into `copy`, `copy` through
  `check` into `info`.  `FlowInv` says, for a login that is alone, that each of
  the four holds rights the user had since it began, at the stages where it may
  be used; `AloneInv` that nobody else writes them; `NowInv` that the present
  rights are always among them; `CopyInv` carries `SessionHasCopy`.  The
  administrator's actions are treated together: they only add to `since`.

Assumptions: the named ASSUMEs of the modules (`SubmitAssumption`,
`NotaryAssumption`, `NotarizationAssumption`, `StartAssumption`, `AccessAssumption`,
`UploadAssumption`, `TreeAssumption`), which TLC evaluates in the runs.

Only model-checked: the liveness properties (`AcceptedIsSettled`,
`RequestIsAnswered`, `SaveEnds`, `StartEnds`), which rest on fairness, and
`TreeStepsAsCoded`, whose reference is recursive.

## 5. What is left out

Not modelled, with the reason, per component in `PROJECT.json`.  In short:

* proof of evidence repeats the certificate classes over tables of its own, and
  certificate audit is a create and a delete of one statement each;
* the public lookup only reads; `certcheck` repeats the check of `CertNotary`
  without its update;
* adding a role inserts its row and sends a record to the chain, once, where a save
  of `CertNotary` does so for every file;
* of the vendored Fabric SDK the loop over the orderers and the query for a block are
  modelled from its source; the rest of it and MyBatis-Plus appear as what their
  callers see; generated models and list queries keep no state the properties are
  about; the Ethereum gateway forwards calls and keeps nothing; the chaincode is one
  put or get per call;
* in the browser: `umeditor.js`, by far the longest script, is loaded by its own
  sample page only, and `common.js`, `pagecore.js`, `combox-multiple.js` and
  `formSelects-v4.all.js` by no page; of `global-public.js` the pages call two
  functions that format a date and fill a form; layui, echarts, zTree and
  My97DatePicker are third-party.  `foldAll` and `treeLinkage` of the tree, the tabs
  of the main page and the checkScript of the uploader are switched off or never
  called.  `admin.ajax` has a branch for code 401 that nothing sends, because
  `MyLoginFilter` is not registered.

What could follow: a refinement of `CertNotary` to an abstract registry of
certificates; `CertNotary` and `UploadPage` joined over the upload request, so that
a file stored by an upload whose reply was lost is seen as the orphan it is.
