# Verification of kube-desktop

kube-desktop installs a single-node Kubernetes with a CI stack on a developer's
machine or in a cloud, and holds in `TODO/` the services that are meant to run on
it. This directory models the parts of it that have behaviour of their own: TLA+
modules translated from the source, TLC configurations that explore small
instances, and theorems that TLAPS proves for every instance. `PROJECT.json` maps
each definition to the lines it stands for.

Paths below are relative to the repository (`src/` in `PROJECT.json`).

## 1. The system

| part | where | state it keeps | operations | modelled in |
|---|---|---|---|---|
| jwt-to-rbac, `/rbac` | `TODO/jwt-to-rbac/pkg/rbachandler/rbac_handler.go`, `internal/rbacapi` | none; all in Kubernetes: ServiceAccounts, ClusterRoles, ClusterRoleBindings with a label | POST, DELETE, GET | `RbacProvisioning`, `AccessLedger` |
| jwt-to-rbac, `/tokens` and watcher | `rbac_handler.go`, `rbac_watcher.go`, `internal/tokenapi` | token secrets, annotated with a deletion time | POST, GET, a sweep each minute | `TokenLifecycle` |
| jwt-to-rbac, names and roles | `rbac_handler.go:308-407` | the configuration | what a token stands for | `RbacResources`, `JwtToRbac` |
| jwt-to-rbac, process | `cmd/main.go` | `run.Group` of three actors | start, signal, shutdown | `Shutdown`, `JwtToRbac` |
| jwt-to-rbac, verification of tokens | `pkg/tokenhandler` | - | one library call | no |
| installation | `install-kubeadm.sh`, `install-k3sup.sh`, `install-kube-components.sh`, `deploy-ingresses.sh`, `nuke/nuke-kube.sh` | the host's files, the cluster | run, run again, nuke | `KubeInstall` |
| CI stack | `deploy-ci-stack.sh`, `charts/docker-registry/files/Makefile` | helm releases, certificates, a secret, a file in minio | run, run again | `CiStack` |
| provisioning of cloud nodes | `terraform-*/bootstrap.tf`, `scripts/`, `ansible/`, `bin/` | marker files in `/tmp` | apply, apply again | `NodeProvisioning` |
| OpenLDAP container | `TODO/ldap/osixia/image/service/slapd/startup.sh`, `process.sh` | two volumes, marker files, the container's files | first start, restart, replacement | `SlapdStartup` |
| LAM's browser client, uploads | `.../lam/templates/lib/130_jquery-fineuploader-3.0.js` | files, queue, links, timers | choose, send, retry, cancel, reset | `UploadQueue` |
| LAM's browser client, undo in texts | `.../ckeditor/plugins/undo/plugin.js`, `.../ckeditor/core/creators/themedui.js` | snapshots, lock, keys that are down | type, click, paste, undo, redo, commands, mode | `UndoManager`, `UndoHistory` |
| LAM's browser client, callback lists | `.../lam/templates/lib/100_jquery-3.3.1.js:3225-3408` | list, queue, index, memory | add, remove, empty, fire, lock, disable | `Callbacks`, `CallbackRuns` |
| manifests, charts, terraform resources | `addons/`, `charts/`, `terraform-*` | - | declarative | only where a script depends on them |
| other vendored software | the rest of LDAP Account Manager, mail, media, chat | - | - | no |

`...` is `TODO/ldap/docker-ldap-account-manager/upstream`, the copy of LDAP Account
Manager (LAM) in the repository.

How the parts interact:

- Every HTTP request to **jwt-to-rbac** is a goroutine that makes one call of the
  Kubernetes API after another. Goroutines share nothing but the cluster. They meet
  each other there, and administrators, the garbage collector (which deletes a
  binding when the UID in its owner reference is gone) and the token controller
  (which fills and drops token secrets). The watcher is one more goroutine, woken
  by a ticker.
- **The installers** run commands one after another with `errexit` and call
  `install-kube-components.sh` and `deploy-ingresses.sh`. What they leave on the
  host (apt's list, kubeconfig) and in the cluster is what the next run and
  `deploy-ci-stack.sh` start from.
- **`deploy-ci-stack.sh`** has no `errexit`. It needs the cluster, helm and minio-mc
  of the installer, and shares with later runs the checkout (the CA's key), docker's
  trusted CA and the cluster's secret.
- **terraform** starts `bootstrap.sh` on every node while a second resource waits
  for node 0 and runs ansible on all; marker files are the only synchronisation.
- **The OpenLDAP container** prepares its volumes in `startup.sh` and serves them in
  `process.sh`; markers on the volume tell the next container what the last has done.
- **LAM's pages** run in one thread of the browser. The three parts share nothing;
  inside each of them timers, answers of the server, events of the keyboard and
  callbacks come in any order.

What is hard here, and what makes each part correct:

| part | hard behaviour | correct means |
|---|---|---|
| `/rbac` | calls of requests interleave, get-then-create by name, faults and lost replies, crashes between calls, deletion by name, asynchronous collection | only roles that were asked for, and not revoked since, are bound; foreign objects are left alone; retries converge; an account that is gone leaves nothing |
| `/tokens` | timeout against a late answer, an orphaned secret, sweeps that stop at the first error, a clock cut to seconds | every token ends, none much too early; every request is answered |
| installers | any command fails with or without its effect; reruns on what is left; nuke in between | no false success; a rerun does no harm; nuke is a way out |
| CI stack | failures are passed over; certificates outlive clusters and checkouts; an endless wait | an undisturbed first run deploys all; reruns do not break the registry; the wait ends |
| provisioning | several nodes, two resources and stale markers | nobody waits for ever; no node is installed half-prepared |
| names | different users and groups with one derived name, a configuration that changes | nobody is bound to what was not asked for him; roles keep their rules |
| process | interrupt functions that panic | the process ends, and drains first |
| OpenLDAP | crashes between a change and its marker, volumes that are lost, containers with other names | what serves is configured as it was asked for; the database is never made anew; no start hangs |
| uploads | retries by timer against cancels and resets; a queue of which the first entries are being sent | exactly the connections there are, one request per file, a true page |
| undo | keys, locks, scripts and changes of mode in any order | undo and redo walk the contents that were recorded |
| callback lists | a list that changes while it is calling its members | each member is called once, in order, with the right value |

`PROJECT.json` lists under `hazards` each place where this can go wrong, with the
properties that cover it.

## 2. The modules

### RbacProvisioning and AccessLedger

One action is one API call together with the local code up to the next. `req[r]`
is the goroutine of request `r`: `pc` names the call it is about to make, `sa`,
`asked` the account and the groups that survive `generateRbacResources`, `todo` and
`group` the loop over roles or bindings, `owner` the UID read by `getSAReference`.

| code | action |
|---|---|
| `handleRBACResources` POST, `generateRbacResources` | `Post`, `RespondCreated` |
| `createServiceAccount` | `GetSA`, `CreateSA` |
| `createClusterRole` | `GetRole`, `CreateRole` |
| `createClusterRoleBinding`, `getSAReference` | `GetBinding`, `GetOwner`, `CreateBinding` |
| DELETE, `removeServiceAccount` | `Delete`, `CheckSA`, `DeleteSA` |
| process | `Crash` |
| administrator, garbage collector (external) | `AdminCreatesSA`, `AdminDeletesSA`, `Collect` |

Each call has the outcomes `reply`, `error` (no effect) and `lost` (effect without
a reply). Objects are `absent`, `managed` (with the label of jwt-to-rbac) or
`foreign`. Initially any role or binding may be foreign. Loops visit their elements in
any order, which covers every order of groups in a token. `mandate` is a history
variable: the roles asked for since the last DELETE of the account that was
answered with 202; a POST that was being handled at that moment keeps its claim, because
nothing orders it before or after the DELETE.

`AccessLedger` is what all of this promises, without accounts, UIDs, calls or
failures: a role is *claimed*, a claimed role may be *granted*, a *revocation*
takes all grants of an account at once. A grant of the detailed module is a `Live`
binding: managed, with the UID of the account that exists now.

### TokenLifecycle

POST `/tokens/<account>`: `Post`, `CheckSA` (with `calculateDeleteTime`),
`CreateSecret`, then `Poll` per tick or `Timeout`, in either order when both are
ready. The watcher: `StartSweep`, `ListSecrets`, and `CheckTTL` and `DeleteSecret`
for each secret. `Clock` moves time; a secret keeps the ticks left until its
annotated time (so that time may pass for ever), and `cut` remembers what RFC 3339
lost of it. `FillToken` and `DropToken` are the token controller. `overdue` is a
history variable: what had expired when the sweep made its list, emptied when a
sweep stops at an error. Names of secrets are random in the code; here a slot is
reused only when nobody refers to it any more.

### KubeInstall

A script is a sequence of commands (`Script`); `pos` counts those left. `Try`
is any command: it works if its condition holds and no fault happens, and else it
fails, without an effect or with all of it (`lost`, which is also `^C` or a reboot
after it). `Fail` is `errexit`. `Run` starts the installer again at any time it does not
run; `Nuke` is `nuke-kube.sh`. Consecutive commands with a common effect are one
action, for instance all manifests of rook. `DeployIngresses` runs twice, once
from `install-kube-components.sh` and once from the installer, and its status is
that of its last manifest. Where an object's meaning makes a rerun fail, that is in
the condition: a binding's role is immutable (`Dashboard`), `create namespace` and
the storage class of the nfs chart meet what is there (`CreateNamespace`, `Nfs`),
no node has the taint any more (`Untaint`). A failed command in the middle of an
`&&` list or of a pipe (`install-kubeadm.sh:17-18`) does not stop the script;
as those commands change nothing that later ones depend on, this is the same as
their success.

### CiStack

`CiStack` extends `KubeInstall`: the installer, nuke and `deploy-ci-stack.sh` alternate in
any order on one host. `deploy` is the command the script is at, `GoOn` passes to
the next one whatever happened. A certificate is represented by the number of the CA
key that signed it (`Lost` signed the one that is committed to the repository,
without its key), `Make` may stop after any of its three targets, `Clone` replaces the
checkout, `Interrupt` ends the script. `clean` is a history variable: the run was
the first one on an installed cluster, without a fault so far.

### RbacResources, Shutdown and JwtToRbac

`RbacResources` derives accounts, roles and bindings from a token and the
configuration, with names as sequences of words and signs, so that names collide as
they do in the code: `SaName` replaces both `@` and `.`, `githubRoleParser` takes
the groups of one organisation, the name of a binding joins those of account and
role. A POST takes the calls of `CreateRBAC` one by one, as in `RbacProvisioning`, but
with objects of jwt-to-rbac only: `Begin` (what the token stands for in the
configuration of now), `MakeAccount`, `MakeRole` for each custom group, then for each
role `FindBinding`, which accepts a binding by its name, or `ReadOwner` and
`MakeBinding` with the UID that was read. `Fail` is the error of any call, with or without
its effect. `Delete` takes the account only; `Collect` is the garbage collector. Of
UIDs the model keeps whether they are that of the account that is there (`live`).
History variables: `mandates` is all that POSTs have asked for; `post[u].sure` says that
when the POST began nothing of a deleted account of that name was left (`Fresh`), and
that the account was not deleted since; `granted` holds the users whose last
such POST was answered 201.

`Shutdown` is the `run.Group` of `cmd/main.go`: an actor returns, the group calls the
interrupt functions in order, and two of them dereference a nil error. `JwtToRbac`
composes the two: the requests that Shutdown waits for are the POSTs of users, objects are
made before the answer is written, a handler may go on after its connection was closed, and
a process that ended, with its handlers wherever they were, is followed by another one,
perhaps with another configuration, over the same cluster.

### NodeProvisioning

`node[n]` is what is on a node: markers, software, apt's lock. `kube[n]` and `play` are
where terraform's resources are, or `new`, `ok` or `tainted`. One action is one command
of `userdata.sh`, `bootstrap.sh`, `kube-provisioner.sh` or one task of the playbook;
`Apply` starts what is new or tainted, on nodes as they were left; `Interrupt` ends an
apply and taints what was running. Commands of
`bootstrap.sh` may fail unnoticed, a task that fails on one node ends the play.
`deploy-ci-stack.sh`, which `kube-provisioner.sh` calls last, goes on when helm has not
installed minio (`CiStack`), and then waits for it for ever (`WaitMinio`).

### SlapdStartup

`ct` is the environment of the container, `fs` its own files, `conf`, `data` and
`marks` are on the volumes, `proc` is where `startup.sh` is and `slapd` whether it
listens. Every branch of the script has its action, in the order of the file: check
of the directories (131-189), start of slapd with what the previous configuration
needs (218-266), schemas and ldif files (271-328), TLS, enforcing and replication
with their markers (333-447), the password (449-464), stop, clients and cleaning.
`Crash` comes at any moment, `Fault` is a command that fails; `Restart` and
`NewContainer` are what docker does afterwards, the latter perhaps without one of the
volumes. The `ldapmodify ... || true` of replication may fail by itself, unnoticed, and its
marker changes all the same (`Unnoticed`). `budget` counts what is left of the bounds. Names of files, hosts and
passwords are told apart by what uses them.

### UploadQueue

`widget` holds the fields of the uploader and its handler, `pending` the open requests
and running timers, as the closures they are: with the id and with the file they were
made for. `Submit`, `UploadStored`, `LastByte`, `Answer`, `TimerFires`,
`Cancel`, `ManualRetry` and `Reset` are the handlers of the corresponding events; they are
written on the record `[w, p]`, because they call one another (`Dequeue` uploads
the next file). An exception ends a handler where it is thrown. Three calls leave the
widget inconsistent; the ghost `astray` marks them, and the properties say nothing of what
follows:

- a file is chosen in a list for one file (`multiple: false`, as LAM asks for photos and
  certificates in `lib/modules/inetOrgPerson.inc:2988` and
  `ldapPublicKey.inc:439`) while another one is queued: the item of the first is
  removed, the handlers of its progress and answer throw, and the counter that guards the
  page never returns to 0;
- a stored file is cancelled while others are queued: it is not in the queue, and
  `splice(-1, 1)` takes the last entry of it;
- `reset` while requests or timers are pending, which go on for ids that are given
  to other files.

### UndoManager and UndoHistory

`um` is the manager's fields, `keyStack` the keys that are down with the inputs
counted for each. A snapshot is a content and a selection. Actions are the
editor's events (`Keydown`, `Input`, `Keyup`, `Click`, `Paste`, `AfterPaste`,
`Undo`, `Redo`, the change of mode) and what scripts do (`ScriptBegins` ...
`ScriptEnds`, `TakeLock` ... `ReleaseLock`). `UndoHistory` is what the user is
promised: contents of the past, the present one and those undone; `H!Back`,
`H!Forward`, `H!Record`, `H!Amend` and `H!Edit` are the ways in which these may
change. `GoTo` loads a snapshot, and the content that the browser makes of it may be
another one; `Restore` then amends the snapshot (`restoreImage` calls `update` for this
reason). `stray` marks the changes that were kept from the manager; they are not
explored, and nothing is claimed of them:

- a cancelled paste leaves `ignoreInputEvent` set (`plugin.js:1048`), so that the
  next input is not seen;
- `updateSelection` (`plugin.js:573`) amends the last snapshot without a look at the lock or
  at the index;
- undo during a lock that is held over events clears it (`plugin.js:422`), and so may a
  change of mode;
- a script changes the document under a lock that will not update.

The record of an input without a key, key 0, is never removed (`plugin.js:982`); this
is part of the model and harms nothing that is claimed.

### Callbacks and CallbackRuns

`loop` is where `fire` is: before the `for`, in the `while`, or in a callback, from
which all operations may be called again. `CallbackRuns` says the same without indices: who
is still to be called in this run, with what, and what waits. Two things a user of the list
might not expect are behaviour of both: a callback that throws leaves the list
firing, so that later values are only queued; and what is added in a run after `empty` may
be skipped, because the index stays.

## 3. What TLC shows

Every property has a mutant in `PROJECT.json`: a plausible bug in one
definition, with which TLC finds the property violated in the same run.

| run | instance | properties | distinct states |
|---|---|---|---|
| `rbac` | 2 requests, 1 account, 3 groups (an alias of a built-in role, a custom and an unknown one), 2 disturbances | `TypeOK`, `GrantsMandated`, `OwnersManaged`, `BoundRolesGenerated`, `ForeignObjectsKept`, `LedgerSpec`, `Answered`, `DeleteRevokes`, `Converges` | 246,933 |
| `rbac_created` | 1 request, 1 disturbance (the DELETE) | `CreatedMeansBound` is violated | - |
| `token` | 1 request, 2 secrets, TTL 0 or 2 ticks, 2 ticks to a second, 2 disturbances | `SweepComplete`, `NotEarly`, `TokensEnd`, `Answered` | 282,789 |
| `jwt_to_rbac` | 2 users (from GitHub and from LDAP, with a role each whose bindings share their name), 2 configurations | `CutByDeadline`, `GroupStops`, `RolesBound`, `GrantsTraceable`, `RulesKept` | 376,750 |
| `install` | both installers, 2 ingresses, 4 faults, 2 nukes | `Complete`, `Recovers` | 3,293 |
| `install_ingresses` | 2 ingresses, 2 faults | `IngressesApplied` is violated | - |
| `ci` | kubeadm, 2 faults, 1 nuke, 1 new checkout | `CleanDeploy`, `RerunKeeps`, `DeployEnds` | 720,323 |
| `ci_kubeconfig` | kubeadm, another home than root's, no fault | `KubeconfigUploaded` is violated | - |
| `nodes` | 2 nodes, 2 applies, 2 faults | `ProvisionedOnReady`, `MarkedTogether`, `AppliesEnd` | 247,036 |
| `slapd` | 7 environments, 3 containers or restarts, 2 kills, 1 fault, 1 lost volume or kept configuration | `ConfigMatches`, `Serves`, `DirectoryKept`, `StartEnds`, `ServesAsAsked`, `ComesUp` | 465,515 |
| `slapd_dh` | 2 environments whose DH parameters have different names, no kill | `ComesUp` is violated | - |
| `browser` | see below | `ConnectionsUsed`, `PageTrue`, `UploadsEnd`, `StackOK`, `UndoOffered`, `HistoryKept`, `LockKeeps`, `RunsInOrder` | 274,313 |

A type invariant is stated in `TokenLifecycle`, `KubeInstall`, `CiStack`,
`NodeProvisioning`, `SlapdStartup` and `Shutdown` too; they document the
variables and are not among the properties of the runs, but theorems (section 4) or
parts of their invariants.

Bounds, and why they are enough:

- Requests are slots that are used again and again, so that two of them give every
  interleaving of pairs, of any number of requests one after another. Accounts do
  not share objects except roles, and one account with two requests has all the conflicts
  there are; collisions of names are the subject of `jwt_to_rbac`.
- `MaxDisturbances` bounds DELETEs, faults, lost replies, crashes and acts of
  administrators together. Two are enough for the stories of the mutants (a
  DELETE or a crash, and a re-creation by another party). POSTs are unbounded.
- In `token` the TTL 0 is expired at once and 2 ticks span a second and a period of
  the watcher; a second of 2 ticks makes rounding matter. Constants
  are far smaller than those of the code (5 s, 500 ms, 1 min), but every order of
  timeout, poll and sweep occurs: a poll may be delayed without a limit.
- In `install` 4 faults allow both faults of a rerun after those of a first
  run; beyond this the state (what is there, and where the script is) repeats. Two
  ingresses distinguish the last manifest of the loop from the others.
- In `jwt_to_rbac` two users are enough for a collision of names, and for each to be
  disturbed by another one's POST at each call; the GitHub user's groups mean different roles
  in the two configurations, of which one drops a group and changes the rules of the
  other, and the process may go back and forth between them. Lifetimes, POSTs and DELETEs
  are unbounded.
- In `nodes` one node is the one that ansible waits for and the other is any other;
  two applies are one with markers and taints of the one before.
- In `slapd` the environments have every option once on and once off, two of them with
  other names of certificates and hosts; a third start meets what the second left after a
  kill. Two kills allow one in the start that repairs what the first has left.
- `browser` explores one of its parts at a time, as they share nothing. Uploads: two
  connections and three files, so that a file waits; one automatic and one manual
  retry, one reset; all modes. Undo: three contents, two selections, a key of each kind
  (printable, functional, navigation), a stack of three and a limit of two strokes, so that
  both are exceeded; two changes of the document, those that the browser makes of a restored
  content included, and one of the other things `MaxTurns` counts. One key is held
  at a time (`MaxHeld`), besides the key 0 of inputs without a key; a keyup may come
  without its keydown. Callback lists: two functions
  (also twice in one call of `add`), two calls of `add` and of `fire`, one of remove,
  empty, lock or disable; all options, with `unique` and `stopOnFalse` on together or
  off together, since they concern different operations.

Fairness:

- `RbacProvisioning!FairSpec`: weak fairness of each goroutine's next call (Go's
  scheduler; client-go's calls end), and of the garbage collector. Clients,
  administrators, faults and crashes are not fair. `Converges` has a hypothesis
  about users, `UsersReturn`: each logs in with all groups again and again (strong
  fairness of `Post`, as requests of others may take the slot in between).
- `TokenLifecycle!FairSpec`: time passes, goroutines are scheduled, and a `select`
  whose timeout stays ready takes it in the end (Go chooses among ready cases at
  random). The token controller and clients are not fair.
- `JwtToRbac!FairSpec`: the main goroutine and the clock run on. A handler may take as
  long as it likes, and nobody has to start the next process.
- `KubeInstall!FairSpec`: a command that is started ends, and somebody runs the
  installer again after a failure; faults are bounded, and `Recovers` speaks of what
  follows the last of them. `CiFairSpec`: commands of the script end, and a minio
  pod that can start does.
- `NodeProvisioning!FairSpec`: commands end, on each node and in the play; nobody has to
  apply again.
- `SlapdStartup!FairSpec`: commands of `startup.sh` end, and slapd in the background
  comes up if it can. Nobody has to start a container.
- `UploadFairness`: requests end, by an answer or by a broken connection, and timers
  fire. The user is not fair. Nothing is claimed of the editor and of callback lists that
  would need fairness.

The four violations are about what the repository says of itself:

- `CreatedMeansBound` (`TODO/jwt-to-rbac/README.md:267`): after POST, DELETE, POST the
  second POST finds the old binding by its name and answers 201 although its
  owner's UID is that of the deleted account; the garbage collector then takes the
  binding. `Converges` shows that logging in again repairs this.
- `IngressesApplied` (`README.md:57`): `deploy-ingresses.sh` reports only its last
  manifest.
- `KubeconfigUploaded` (`deploy-ci-stack.sh:60`): the script looks for the kubeconfig in
  `/root`, where an ordinary user's installer has not put it.
- `ComesUp` in `slapd_dh` (`startup.sh:231-233`): where the previous configuration names
  DH parameters that the new container lacks, they are generated under the new name,
  `chmod` of the old one fails, and so does every start. With the same names for DH
  parameters `ComesUp` holds (`slapd`).

Things that the models show and that are easily taken for granted:

- A rerun of the installer does no harm because it *stops* at the manifest of the
  dashboard, and not because the commands are idempotent; so `Complete` is reached by a
  rerun only after the failure was before the dashboard, or after a nuke.
- `RerunKeeps` excludes the step of a new checkout: after it, docker is given a new CA while
  the old secret stays.
- `CutByDeadline` holds because of the order of the interrupt functions: the one that
  panics first is the one that has just drained the server.
- An apply may hang in two places, which `AppliesEnd` names (`Stuck`): `kube-bootstrap`
  waits for ever for the marker of a playbook that has failed, and `deploy-ci-stack.sh`
  for a minio that helm has not installed. It requires that nothing else lasts.
- A 201 does not always mean that the account has its roles. `RolesBound` says exactly when
  the code is excused: when something of a deleted account of the same name was left
  during the POST (the story of `CreatedMeansBound`), and when the binding's name was
  taken by another grant. Without either excuse TLC finds it violated.
- A start whose `ldapmodify` for replication failed hands over to `process.sh` all the
  same, with a configuration that may name no host of this container: slapd does
  not start then. `Serves` therefore claims `CanServe` only if no command has failed, but in
  any case that the directory and slapd's files are there. At debug level, where slapd
  runs in the background, a stale `slapd.pid` is taken for its own after a kill.
- `ConfigMatches` excludes nothing that was killed, but `ServesAsAsked` does: a kill after
  `dpkg-reconfigure` leaves both directories filled, and the next start serves a
  directory without the schemas and the ldif files that were to come.
- `GrantsTraceable` speaks of accounts, not of users: two users whose addresses
  differ by `@` and `.` only have one account and each other's roles.

## 4. What is proved

Eight modules hold theorems. They are proved for all values of the constants that
satisfy the assumptions below, hence for any number of requests, nodes, secrets,
environments, files or texts, and any bounds on faults and restarts. Each proof goes by
an inductive invariant, whose name is in the table.

| module | theorem | statement | invariant |
|---|---|---|---|
| `RbacProvisioningProofs` | `TypeCorrect` | `Spec => []TypeOK` | `TypeOK` |
| | `GrantsAreMandated` | `Spec => []GrantsMandated` | `GrantInv` |
| | `OwnersAreManaged` | `Spec => []OwnersManaged` | `GrantInv` |
| | `BoundRolesAreGenerated` | `Spec => []BoundRolesGenerated` | `RoleInv` |
| | `ForeignObjectsAreKept` | `Spec => ForeignObjectsKept`, an action property | `ForeignInv` |
| | `ImplementsLedger` | `Spec => LedgerSpec`: the handlers implement `AccessLedger` | `GrantInv` |
| `TokenLifecycleProofs` | `DeletesExpiredHolds` | `Spec => []DeletesExpired` | `SweepInv` |
| | `SweepCompleteHolds` | `Spec => []SweepComplete` | `SweepInv` |
| | `NotEarlyHolds` | `Spec => NotEarly`, an action property | `SweepInv` |
| `JwtToRbacProofs` | `CutByDeadlineHolds` | `Spec => []CutByDeadline` | `ProcessInv` |
| | `GrantsTraceableHolds` | `Spec => []GrantsTraceable` | `AskedInv` |
| | `RulesKeptHolds` | `Spec => RulesKept`, an action property | none |
| | `RolesBoundHolds` | `Spec => []RolesBound` | `AskedInv`, `SureInv` |
| `NodeProvisioningProofs` | `TypeCorrect` | `Spec => []NodeTypeOK` | `NodeTypeOK` |
| | `MarkedTogetherHolds` | `Spec => []MarkedTogether` | `NodeInv` |
| | `ProvisionedOnReadyHolds` | `Spec => []ProvisionedOnReady` | `NodeInv` |
| `InstallProofs` | `InstallTypeCorrect` | `Spec => []TypeOK` | `InstallInv`, `Budget` |
| | `CompleteHolds` | `Spec => []Complete` | `InstallInv` |
| | `CompleteInCi` | `CiSpec => []Complete` | `InstallInv`, `CiInv` |
| | `CleanDeployHolds` | `CiSpec => []CleanDeploy` | `InstallInv`, `CiInv` |
| | `RerunKeepsHolds` | `CiSpec => RerunKeeps`, an action property | `InstallInv`, `CiInv` |
| `SlapdStartupProofs` | `SlapdTypeCorrect` | `Spec => []SlapdTypeOK` | `Types`, `Flow` |
| | `DirectoryKeptHolds` | `Spec => DirectoryKept`, an action property | `Flow` |
| | `ConfigMatchesHolds` | `Spec => []ConfigMatches` | `Flow`, `TlsInv` |
| | `ServesHolds` | `Spec => []Serves` | `Flow`, `ServeInv` |
| | `ServesAsAskedHolds` | `Spec => []ServesAsAsked` | `Flow`, `AskedInv` |
| `UndoManagerProofs` | `StackOKHolds` | `UndoSpec => []StackOK` | `UndoInv` |
| | `UndoOfferedHolds` | `UndoSpec => []UndoOffered` | `UndoInv` |
| | `LockKeepsHolds` | `UndoSpec => LockKeeps`, an action property | `UndoInv` |
| `UploadQueueProofs` | `ConnectionsUsedHolds` | `UploadSpec => []ConnectionsUsed` | `UploadInv` |
| | `PageTrueHolds` | `UploadSpec => []PageTrue` | `UploadInv` |

`UndoSpec` and `UploadSpec` are `Init /\ [][Next]_vars` of their component; the `browser`
run explores both, one at a time, with callback lists in the third place.

Assumptions. All are `ASSUME`s of the component that declares the constants, and TLC
evaluates them in the runs.

| assumption | says | because |
|---|---|---|
| `DisturbancesAssumption`, `BoundsAssumption`, and the bounds in `CiAssumption`, `NodeAssumption`, `SlapdAssumption`, `UndoAssumption`, `UploadAssumption` | bounds are natural numbers | they limit the exploration only |
| `AdminAssumption` | administrators make accounts with names of accounts | - |
| `TimeAssumption`, `NoneAssumption` | lifetimes are natural, a second, the period and the timeout are not 0; "no secret" is not a secret | parsed durations, the constants of the code |
| `UsersAssumption`, `RequestsOfUsers`, `ShutdownAssumption` | tokens have the four claims that are read; the requests of the server are POSTs of users, finitely many | `User` in `rbac_handler.go` |
| `NodeAssumption` | finitely many nodes, one of them is node 0 | terraform's `count` |
| `InstallersAssumption`, `IngressesAssumption` | one of two installers; finitely many ingresses | the scripts; `find` |
| `SlapdAssumption` | an environment has its fields, and with replication hosts its own host is among them | slapd knows by its own URL which `olcServerID` it is (`startup.sh:418`, `process.sh:12`) |
| `UndoAssumption` | there is a content and a selection; the limits are not 0 | `undoStackSize`, `strokesLimit` |
| `UploadAssumption` | there is a connection | option `maxConnections` |

The arguments, and why the invariants are needed:

**RbacProvisioningProofs**

- `TypeOK` is inductive by itself. It includes `LocalsOK`, which ties the local variables
  to `pc`.
- `GrantsMandated` and `OwnersManaged` are not inductive: a request that is about
  to create a binding could hold a UID or a group nobody asked for. `GrantInv` adds
  `UidsUsed` (all UIDs in use, also those in local variables, are below `nextUid`; so a
  new account cannot bring an old binding into force) and `RequestsMandated` (what
  a POST is about to bind is in the mandate, and the UID it holds, if it still is
  the account's, was read from a managed account). Most calls change a request and
  no object; the lemmas `LoopsFollow`, `FollowKeeps` and `FollowInv` deal with all of these at
  once, `NewAccount` and `GoneAccount` with the two ways in which an account changes.
- `BoundRolesGenerated` needs `RoleInv`: by the time a POST is at its bindings, the
  roles of all its custom groups are managed (`RolesMade`). Nothing in the
  code deletes a role, so that this stays true.
- `ForeignObjectsKept` needs `ForeignInv`: a foreign binding has no owner, so that the
  collector does not come into it. `RoleSteps` and `BindingSteps` say what any step may
  do to a role and a binding.
- `ImplementsLedger` maps every step to a step of `AccessLedger` or a stutter,
  using `GrantInv`: a binding created for the account that exists is a grant and the
  invariant says that it is claimed; an account that goes away is a revocation,
  because a UID is not used again; a collected binding was not in force.

**TokenLifecycleProofs.** Between `CheckTTL` and `DeleteSecret` other goroutines run, and a
name may be used again. `DeletesExpired` says that the secret in hand, if it is there, has
expired; it is kept because a slot that the watcher refers to is not used again
(names are random), and because what has expired stays so (`StillExpired`).
`NotEarly` follows from it and from what `cut` may be: less than a second.

**JwtToRbacProofs.** `CutByDeadline` is about an order. `ShutdownInv` says that a server
without a listener has no requests, so that its panic cuts none off, and that the
group passes on to the next interrupt functions, of which one panics, only after the
deadline; `Drained` panics when no request is left.
`AskedInv` says of each POST that what it still has to bind belongs to its token under the
configuration of its process (`Asked`; a process that ends takes its handlers along,
`Quiet`), and of each binding that it has the name of what it grants and that somebody has
asked for that (`Named`). `GrantsTraceable` follows. `RolesBound` is not inductive: it has to
follow a POST from its first call to its answer. `SureInv` says of each POST
that is still `sure` that nothing of a deleted account is about (`Fresh`: neither a binding
nor a UID in some handler's hands), that its account is there, and that each role that it
has dealt with is bound, or that the name of the binding is shared (`Done`). A binding
accepted by its name is then live, and by `Named` it is the one that is wanted or
the name is shared. A DELETE of the account takes `sure` away, and with it all claims.

**NodeProvisioningProofs.** `PlayInv`: at each task of the playbook the tasks before it
have done their work on all nodes, and the present one on the nodes where it has run.
Hence `MarkInv`, from which what is behind the wait of `kube-bootstrap` (`WaitInv`) has
all it needs. Both outlast interrupts and applies, because nothing is uninstalled and no
marker removed (`StepGrows`).

**InstallProofs.** `RunInv` is the assertion of a Floyd-style proof: `WorkDone(pos, ...)` says
what the commands up to `pos` have done, for each installer, and every command
establishes its own line. It holds for reruns as for first runs, as it does not ask
which run has done it; `Nuke` only comes when no run is under way. `CiInv` has the same
shape for an undisturbed run of `deploy-ci-stack.sh` (`Stage`), with `CaInv`: `make`
signs by the key that the CA's certificate is of, so that docker trusts what the
registry shows. `CiKeepsInstall` carries `InstallInv` over to the composed system.
`SettledStays` is `RerunKeeps`: the rules of the Makefile leave a checkout alone that is
complete, and `create secret` fails where there is one.

**SlapdStartupProofs.** `Flow` says which volumes are there at which command, and which local
flags may be set; all else rests on it.

- `ConfigMatches` needs `TlsInv`: on the way through TLS, enforcing and replication
  the configuration is changed first and the marker after it, and a kill between the two
  is what the next start repairs; so the two agree from the end of each part on.
- `Serves` needs `ServeInv`, which has four parts: the files that the configuration names are
  there whenever a slapd has come up with them or startup.sh is past its start (`FilesKept`);
  the pid file is that of the slapd of this start, unless this is in the background and
  something was killed, so that the slapd that is stopped is the one that was started
  (`PidOwn`); the marker of the password is there before the ldif files are removed
  (`AdminMarked`), so that no later start needs them; and if no command has failed, the
  configuration has just the hosts of this container's replication (`HostsOwn`), so that slapd
  finds itself among them. `DisableEffect` and `EnableEffect` say what the two parts of
  replication do, failed or not.
- `ServesAsAsked` needs `AskedInv`: a directory that nobody has disturbed is `Untouched`, is
  `Bootstrapping`, or is `Settled`, and the marker of the password parts the last two.

**UndoManagerProofs.** Three reasons keep the undo command enabled: an earlier content
(`RecordedOffers`), a document that is not recorded (`AheadOffers`), and typing
(`TypingOffers`). Scripts and `reset` switch the flag off between them, and the counts
of keys that are down stand in for the flag until it is set; so the
invariant says of each state which of the reasons counts. `LockTrue` is what the
end of a lock compares with, and `ModeInv` that the document changes under a lock only
if an update follows. `TotalInputs` sums over a set recursively; `Sums` is the same
as a function.

**UploadQueueProofs.** `QueueSound(s, R, M)` ties the queue to the closures: the
queue has no file twice, and `id`s that wait outside of it (`R`) are not in it; there
is one closure for each of the first `maxConnections` entries but those in `M`, which
a handler is about to send, and it has the file and the request of its id. `PageSound`
ties the links and the counter to the queue. Operators that handlers call have
a lemma each, `UploadSound` and `DequeueSound` (the entry that comes up is sent, with
`M` its id), and so have the events (`SubmitSound`, `AnswerOK`, `TimerOK`, `CancelOK`,
`ManualRetryOK`). `UploadStored` is a fold of `Upload` over the stored files, the prefixes
of which keep `Sound` with the rest as `R`.

Recursive functions and folds (`Sums`, `UploadStored`) are reasoned about by the least
counterexample, with the theorems on well-founded relations that take no operator as a
parameter (`WFMin`).

What TLC alone checks:

- liveness under fairness, which is out of this prover's reach: `Answered`,
  `DeleteRevokes`, `Converges`, `TokensEnd`, `Recovers`, `DeployEnds`, `AppliesEnd`,
  `GroupStops`, `StartEnds`, `ComesUp`, `UploadsEnd`;
- two properties about sequences of events, `HistoryKept` (the undo manager and
  `UndoHistory`) and `RunsInOrder` (`Callbacks` implements `CallbackRuns`): they have no
  theorem yet;
- the four violations, whose counterexamples need an instance.

## 5. What is not modelled, and why

- GET handlers: they change nothing. `ListRBACResources` mixes three moments, but only
  shows the result.
- A remedy for names that are ambiguous in the binding only: the account `17` with the role
  `other-dev-from-jwt` and the account `17-other` with `dev-from-jwt` share the name of a
  binding, and whoever comes second is taken for the first, and stays unbound. This is in
  the models and in the run; `RolesBound` excuses it, as nothing in the code prevents it.
- The rules inside roles: they are taken from the configuration as they are.
- Secrets with the label of jwt-to-rbac that others have made: one without an
  annotation ends every sweep at it (`rbac_watcher.go:70`).
- Verification of tokens: one call of the OpenID Connect library.
- `deploy-ci-stack.sh:70-87`, and the desktop's helper scripts: single commands on
  which nothing depends.
- The digitalocean, packet and scaleway variants of the bootstrap, which run the playbook
  from each node; `terraform-gcp` differs from `terraform-aws` in names.
- `TODO/ldap/openldap`, an older copy of the OpenLDAP image.
- What runs in the cluster, apart from the readiness of minio; declarative
  configuration, and the example projects.
- An answer to an upload that is the JSON `null`: reading `response.success` of it throws
  in `_onComplete`, and the file then stays in the queue.
- Two keys of the keyboard held at the same time: `UndoManager` has them, but the run bounds
  them by one.
- Of the uploader: `UploadHandlerForm` for browsers without XMLHttpRequest 2, drag and drop,
  and `cancelAll`, which nothing calls. Of the editor's undo: workarounds for Internet
  Explorer and the read-only mode. Of jQuery's asynchronous layer: `Deferred`, queues and
  requests, which are built from callback lists.
- The rest of LAM, and mail, media and chat servers: third-party software. Nearly all of the
  repository's JavaScript, some 177,000 lines, is of this kind: jQuery UI, jQuery's
  selectors and effects, cropper.js, CKEditor with its DOM layer, dialogs and language
  files, and configuration for them. It is widgets, layout and DOM manipulation
  with little state that events could bring out of order, and it could only be
  translated by modelling the DOM. The modules take those parts that are
  protocols (uploads, undo, callback lists), some thousand lines of them; a larger
  share of the JavaScript is not within reach of models of this kind. The
  repository's own code, in Go and shell, is covered nearly completely.

## 6. Plan

All modules planned so far exist. What is left:

1. Theorems: `HistoryKept`, from `UndoInv` and a map of the stack to `UndoHistory`;
   `RunsInOrder`, step by step like `ImplementsLedger`.
2. An abstract specification of an installer (a run ends with all components or with an
   error), and of a directory that is bootstrapped once and configured as the last start
   asked.
3. jQuery's `Deferred` over `Callbacks`.
