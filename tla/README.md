# GhostWhistle: specifications, model checks and proofs

GhostWhistle lets an employee or a security researcher send an anonymous report
to an official mailbox. A browser proves to a Midnight (Compact) contract that
it holds a credential of the organisation, or that the mailbox was approved,
and gets a one-time *ticket*; a small issuer server hands out credentials,
approves mailboxes, pays for transactions and mails the report of an accepted
ticket. This directory specifies the parts whose correctness is about order,
interleaving, crashes and retries, checks them with TLC on small instances, and
proves their main safety properties with TLAPS for all instances.

    tlc -config MCReportDelivery_concurrent.cfg MCReportDelivery
    tlapm ReportDelivery_proofs.tla

`PROJECT.json` says, for each definition, which lines of the repository it
translates, and for each property which slip in those lines would break it.

## 1. The system

| Component | Source | State | Operations |
|---|---|---|---|
| Ledger contract | `packages/contract/src/ghostwhistle.compact` | role keys, credentials, revocations, approved mailboxes, nullifiers, tickets, counter | issue, revoke, approve, submitInternal, submitWhitehat |
| Demo adapter | `packages/core/src/demo-midnight.ts`, `commitments.ts` | the same in memory | the same, and `verify` of a mail |
| OTP qualification | `packages/core/src/otp.ts`, `use-cases.ts`; `apps/midnight-cli/src/file-otp-store.ts`, `issuer-server.ts` 127-156 | a file per challenge | request a code, verify a code, register the credential |
| Report delivery | `report-delivery-store.ts`, `issuer-server.ts` 241-267; `packages/adapters/src/resend.ts`, `http.ts` | `.lock` and `.done` file per ticket | claim, verify, mail, complete, release |
| Transaction submission | `apps/midnight-cli/src/submission.ts` | a loop's locals | submit, watch, look up, retry |
| Rate limiters | `packages/core/src/rate-limit.ts`, `file-rate-limiter.ts` | event times per key, in memory or in a file | consume |
| Sponsored relay | `issuer-server.ts` 201-240, 286-316 | none of its own | check the proof of work and the call, pay, submit |
| Mailbox qualification | `issuer-server.ts` 157-189, `security-txt*.ts`, `public-destinations.ts` | none | find a contact, approve it |
| Ledger client | `packages/midnight/src/client.ts` | none | circuit calls, ticket derivation, `verifyRelayMessage` |
| Local relay | `local-report-relay.ts` | a directory per ticket | write attachments, then `report.json` |
| Browser session | `apps/web/src/App.tsx`, `lib/midnight.ts`, `lib/receipt-storage.ts` | mode, step, qualification, wallet connection, receipt | qualify, verify code, connect, submit, retry delivery |
| Admin console, CLI, vault | `apps/midnight-admin`, `apps/midnight-cli/src/{cli,deploy,vault,config}.ts` | operator secrets, backup | deploy, back up, register DUST, issue/revoke by hand |
| Pure code | `pow.ts`, `validation.ts`, `moderation.ts`, `gemini.ts`, `evidence.ts` | none | checks and filters |

How they interact. The browser asks the issuer over HTTP for a credential (OTP)
or an approved mailbox; the issuer calls the contract with its role secrets.
The browser then builds a submission transaction, either sends it through the
wallet or lets the issuer sponsor it (`/api/relay/submit`, which goes through
the submission loop), and finally posts the report and its ticket to
`/api/report/deliver`. That endpoint asks the ledger whether the ticket exists
and was made for this mailbox and content, and mails the report. The issuer is
one Node process: no two handlers run at once, but every `await` lets another
one in, and the files are all that survives a restart.

What is hard, and the property each component owes its neighbours:

* **Contract**: long sequences of calls by parties that do not trust each
  other. A nullifier buys one ticket; every ticket is entitled; a revoked
  credential is useless for ever.
* **Demo adapter**: the same, without transactions. Checks and updates are
  separated by awaits.
* **OTP**: concurrent guesses, an attempt counter in a file, mails that fail
  but arrive. Bounded guesses, one use per code, nothing registered that was
  not proven, challenges survive a restart. A limiter whose window slides, over
  challenges that outlive the moment they were charged for.
* **Delivery**: concurrent retries, stale locks, crashes, answers that time out
  after the mail was taken. Delivered means mailed, or saved whole in the local
  inbox; nothing is lost; retries do not deliver twice; no report stays locked
  for ever.
* **Submission**: three sources of truth (watcher, node, indexer) that lag each
  other. The caller is told the truth; nothing is submitted twice for nothing.
* **Browser session**: results that arrive after the user went elsewhere, one
  authorization shared by all submissions, an accepted report whose caller was
  told it failed, a browser that refuses to store the receipt. The receipt is
  true, a retry can succeed, the destination is the qualified one, no flag is
  left behind.
* **Command line program**: vaults written in place, crashes anywhere, waits for
  the network. Seeds and role secrets are on disk before anything depends on
  them; what is retried is not retried for ever.
* **Issuer routes**: overlapping approvals. Answers are true.
* **Admin console**: buttons that stay enabled while something is awaited. What
  is deployed was backed up.
* **Rate limiter**: a file, a queue, a clock. No window is overdrawn.

`PROJECT.json` lists all of these as hazards with the line where they bite.

## 2. The modules

| Module | What it is |
|---|---|
| `OneTimeReceipts` | abstract: a table of one-time keys exchanged for tickets |
| `GhostWhistleLedger` | the contract; implements `OneTimeReceipts` (proved) |
| `OneTimeChallenge` | abstract: one challenge, opened once, judged a bounded number of times, accepted at most once, closed for good |
| `AtLeastOnceDelivery` | abstract: mailed, then recorded, then told |
| `ReportDelivery` | the delivery endpoint with its store and either relay (e-mail or local inbox), file operation by file operation; implements `AtLeastOnceDelivery` (proved) |
| `OtpIssuance` | both OTP endpoints over the challenge files; each challenge implements `OneTimeChallenge` (proved) |
| `DemoMidnight` | the demo adapter, await by await; implements `OneTimeReceipts` while submissions of one proof do not overlap (proved) |
| `RpcSubmission` | `submitWithRpcRecovery` against node, chain and indexer |
| `BrowserSession` | the reporter's page, handler by handler and await by await |
| `SlidingWindow` | the file-backed rate limiter with its queue and clock |
| `AdminSecrets` | what the two ways to deploy share: pairs of role secrets, contracts |
| `WalletCli` | the command line program: vaults, wallet, DUST, modes; EXTENDS `AdminSecrets` |
| `IssuerRoutes` | the issuer's other routes; EXTENDS `WalletCli`, whose process serves them |
| `AdminConsole` | the administrator's page; EXTENDS `AdminSecrets` |
| `Operator` | `IssuerRoutes` over `WalletCli`, beside `AdminConsole` and `SlidingWindow` |
| `MC*` | small instances for TLC |
| `*_proofs` | theorems and proofs |

**GhostWhistleLedger.** A circuit call is one atomic transaction: one action
per circuit, its assertions as guards, its inserts as primed sets. A failed
assertion leaves no trace and is no step. Hashes are represented by the words
they are computed from: `persistentHash([a, b])` is `<<a, b>>`, and
`persistentCommit(v, opening)` is `<<opening>>` followed by `v`. Two derivations
differ only if their preimages do; no label is added that the code does not
hash. Any caller may present any role secret. The proof rests on something the
code never states: an internal nullifier has three words and a whitehat nullifier
two, so the two kinds of submission can share one nullifier set.

**ReportDelivery.** A request runs through `claim()` (is there a `.done`? create
the lock with `open('wx')`; on EEXIST look for `.done` again, look at the lock's
age, remove it if it is older than 30 minutes, look a third time, create it
again), the ticket check, the mail, `complete()` (rename the lock to `.done`;
if it is gone, look for `.done`) and `release()`. Each file operation is an
action. A lock file remembers its creator (`Nobody` once that process died) and
whether it is stale. The history variable `troubled` collects tickets that saw a
failed delivery or a stale lock. Faults are crashes and file operations that
fail: of the claim (`ClaimFails`, or after `open('wx')`, which leaves the lock
behind), of the relay (`SaveFails`), of `complete()` and of `release()`. An
`access()` that fails on a file that is there is a fault too: `exists()` then says
no, and `misread` remembers the ticket. The mail provider may take a mail and the
answer still be lost (`PostFailed`).

The relay is chosen at the start, as the server's options do. The local one
looks for `report.json`, and if there is none writes the evidence and then
`report.json`. `writeFile` opens with `w`, so each write is two steps: the file
is truncated (`cut`, by this request), then written. When another request has
truncated the file in between, what is left at the end may be whole or not. The
evidence is one file for all attachments. As `claim()` does not exclude for
ever, two requests may write the same directory at once; the model has that, and
`InboxIsWhole` says up to when it cannot happen.

**OtpIssuance.** Store operations run through one queue (`serial()`), so each is
atomic except for a crash or a failed write; mails and ledger calls happen between
them. The model keeps for every challenge its file (or `Torn` after a crash or a
failure in `writeFile`), its owner and when it was drawn, and whether its code was
mailed. There is a clock: `verify()` reads it before its operation is queued, a
challenge expires `TtlMs` after it was drawn, and the limiter charges a mailbox at
most `MaxEvents` times in any `WindowMs` (`Recent`), by what `SlidingWindow`
proves of it. Two things are assumed of time: a challenge lives no longer than
a window lasts (`TimesAssumption`; 5 and 10 minutes in the code), and a charge
and the drawing of its challenge, one file write apart, read the same clock. An
operation that fails is answered with 500 and is no verdict on a candidate. A
candidate is right or wrong, and right only if its code was mailed; how often
somebody without the mail may try is what the two bounds on guesses limit.

**DemoMidnight.** Calls are split at their awaits: eligibility, nullifier check,
recording. `verify` is evaluated on every message the recorded tickets could be
presented with.

**RpcSubmission.** The loop with its attempt counter, the lookup identifier by
identifier, the break on refusals and on the last attempt, the wait and the
next round. Node, chain, indexer and SDK are not in the repository; the model
lets copies get lost, transactions be pooled, dropped and included with any
result, the indexer lag, and the watcher fail at any time with either kind of
error. `createLazySubmissionService` in the same file has no caller and is left
out.

**BrowserSession.** A React handler is a closure over the render it started in.
It runs up to its first await and lives on as a *call* (a slot of `Calls`); each
answer is an action of its own, which writes into whatever form is on the screen
by then, as the code's state setters do. The form record holds the React state,
`busy` the flags that disable buttons, `authorization` the module variable
`activeSponsorAuthorization`, `stored` the receipt in `localStorage`. The
handlers' guards are the conditions under which the render enables their
buttons. Wallet, issuer and ledger may accept, refuse, or do their work and lose
the answer. `strayed` remembers that the form was left while a submission or a
retry was running; the code cancels neither. Abstracted: a report is "sample or
edited" and a set of files; blank fields, messages and progress texts are left
out (they end in a message); the sample texts of all modes and languages are
one; the shared `connectionPromise` heals itself and decides nothing the page
keeps. `Sponsored` says whether a sponsor is configured; without one the wallet
submits and needs no authorization. `Refused` names the tickets whose receipt
`localStorage` refuses: that exception comes after the receipt was put on the
form and is taken for a failed submission (`NotSaved`), and `unsaved` remembers
it. Assumed configured: a contract address (with an empty one the page only
shows a message).

**WalletCli.** One process at a time, with a `stage` for each await of `main()`:
open or create the wallet vault, build and synchronise the wallet, fund and
register it, then the admin vault and the mode. A vault is torn from the start
of its `writeFile` to its end. `passwords` is the memo of the one-time password
file, which is read once and removed. `printed` collects the seeds whose address
the operator has seen, because from then on money may arrive there. A wait may
end with what it waited for or throw; inside `main`'s try block that leads to
its `finally`. The process may die at any stage (`ProcessCrash`).
`RegistrationDeadline` is the clock of the registration loop, `retryLater` its
wait between two tries.

**IssuerRoutes.** While the process serves, requests overlap (slots of
`Handlers`) and each await is a step: two requests may both find a mailbox not
approved and call the circuit; the slower one's error counts as success only if
the ledger says so (`AlreadyApproved`). Moderation decides by the set of patterns
a text matches, the sponsor by the list of actions of a transaction. (Reports are
delivered in `ReportDelivery`, credentials issued in `OtpIssuance`.) `answer` is
what the last step claimed, so `AnswersAreTrue` is about the moment of answering.

**AdminConsole.** The page's variables, which controls are enabled, and the
handlers that wait for the encryption (`encrypting`, `rebinding`) and for the
deployment (`deploying`), each with the pair it works on. `downloads` are the
backups the browser was given to save: whether the file was kept, the page
cannot know and asks the operator with the check box.

**SlidingWindow.** `consume()` queues behind the calls before it, reads the clock
and then the file, and writes the file by rename before it grants. `granted` is
the history of all grants, `state` what the file keeps of them. The program
replaces the file whole, so one that does not parse (which `readState` takes for
empty) was damaged by somebody else, and is left out.

**Operator.** Program, console and limiter share no state that one could change
under the other, and an operator deploys one way or the other; so the variable
`program`, chosen in `Init`, says which of the three a behaviour is about. This
keeps the state space a sum instead of a product and loses no interaction the
code has: the routes take any answer of the limiter (`Admitted` or `Rejected`).

## 3. The runs

| Run | Bounds | What it shows |
|---|---|---|
| `ledger` | 2 domains, 2 mailboxes, 2 secrets, 1 report under 2 salts, 3 role secrets | No order of calls with right and wrong role secrets breaks one-time receipts, entitlement or the finality of revocation |
| `delivery_concurrent` | 1 ticket, 3 requests, 3 faults, either relay | Whatever interleaves: told ⇒ recorded ⇒ mailed or saved; no request leaves its lock behind unless a fault struck it; until the first trouble claims exclude each other and the inbox is whole |
| `delivery_sequential` | 2 tickets, 1 request at a time, 2 faults, either relay, fairness | Retries one after the other never send a recorded report again, no `report.json` stands beside evidence that is not whole, and every report is acknowledged in the end, also past a dead request's lock |
| `delivery_claim_after_done` | 1 ticket, 2 requests, no fault | **violation**, see below |
| `otp_concurrent` | 1 mailbox, 2 commitments, 3 challenges, 1 requester, 2 verifiers, 2 attempts, 1 request a window; window 3, challenges live 2, clock to 3; 1 crash, 1 failed file operation | Guesses per challenge, and per mailbox in any window, are bounded, a code leads to one credential, what is registered was proven, each challenge moves as a `OneTimeChallenge` does: judged only while its file is there, never reopened |
| `otp_restart` | 1 challenge, 1 crash | **violation** |
| `demo_concurrent` | 2 callers, 2 domains, 1 secret, 1 report | What `verify` accepts is entitled; nullifiers and tickets go together; what was settled before a call is refused |
| `demo_replay` | 2 callers, 1 domain | **violation** |
| `rpc_recovery` | 3 attempts, 2 identifiers, fairness | The caller is always answered, verdicts are the chain's, nothing is sent again that the lookup could have known, the loop neither stops early nor runs over |
| `rpc_duplicate` | the same | **violation** |
| `browser` | 2 waiting handlers, 1 file, 2 tickets, the first receipt may be refused, demo and sponsored live builds | Whatever overlaps, fails, is left or reloaded: flags mean running handlers, screen, storage and retry agree on one receipt, the destination is the qualified one, the sponsor's authorization does not leak; receipts are true and retries can succeed unless the form was left under a running submission |
| `operator` | 4 starts, 2 seeds, 2 pairs of secrets, 2 requests; limiter: 2 callers, 2 keys, 2 events, window 2, clock to 4, 4 grants; fairness of the registration's timers | Keys that cannot be made again are kept over crashes at any step; answers are true; no window is overdrawn; the registration loop ends unless a call in it never does |

Why these bounds suffice to be interesting. *Ledger*: replays need one proof and
two places to spend it (two domains, two mailboxes); a second secret and salt
give every ticket a neighbour to be confused with. *Delivery*: the races need a
holder, a taker-over and a late-comer, hence three requests; three faults let a
crash, a failed write and a failed release meet. Tickets share no file; the
sequential run has two of them all the same. *OTP*: two verifiers race for a
file; two attempts separate the first, the last and one too many. A window of 3
and challenges that live 2 let a challenge be drawn before a window, guessed in
it, and another be drawn and guessed there too, so that the bound of
`GuessesPerMailbox`, twice what one window charges, is reached; the third
challenge is the one too many. *RPC*: a first, a middle and a last attempt, one
identifier that fails and one that is answered. *Browser*: stale answers need a handler and another one
started after the form was left, hence two slots; two tickets let a retry of the
first meet the receipt of the second; one receipt that is refused meets one that is
not. The `VIEW` of that run forgets what became
of tickets that neither the form nor a handler names any more, and whether the
directory is being loaded while it is not on the screen, as every way back
reloads it: no action and no property looks at either. *Operator*: a run that
prepares, one that deploys and one that serves, and one that died, make four
starts; a second seed and a second pair are what a
replaced vault would hold; two requests race for one approval.
*Limiter*: with 2 events in a window of 2 the clock passes events in, at the edge
of, and beyond the window; two callers read and write in turn. The data constants carry no order or arithmetic, so they are
symmetric; the runs that check only safety use that (`SYMMETRY`). Those with
`CHECK_DEADLOCK FALSE` are of systems that may really come to rest: all tickets
minted, all challenges used, the loop over.

Bounds that are not in the code: `MaxFaults`, `MaxCrashes` (how often the world
may fail), `MaxTickets`, `MaxSeeds`, `MaxStarts`, `MaxSecrets`, `MaxGrants`,
`MaxTime` and the number of ids and slots. `MaxAttempts`, `MaxEvents`,
`MaxFiles`, `maxEvents` and `windowMs` exist in the code with larger values.

### Fairness

*Delivery.* Weak fairness of each request's next step: Node runs every pending
callback, and both the ticket check and the mail end with a result or an error.
Weak fairness of a lock's ageing: clocks advance. Strong fairness of receiving
a request for a ticket nobody was told about: the reporter keeps pressing
retry. Strong fairness of a ticket check that succeeds and of a mail that is
accepted: verifier and provider do not fail for ever. Faults need no fairness;
they are bounded. The liveness run has one request at a time. With two
requests that retry for ever, each may keep finding the other's lock or remove
it, and `EventuallyDelivered` would not follow from these assumptions.

*Submission.* Weak fairness of the loop, which says that the SDK settles the
promise of `submitTransaction` (nothing in the repository times it out) and
that an indexer request ends (it has a 5 s timeout). Nothing is assumed of
node, chain or indexer.

*Operator.* Weak fairness of the two timers of the registration loop and nothing
else: its deadline passes (`DeadlinePasses`), and a wait between two tries ends
(`WaitEnds`; `sleep`, or `waitForGeneratedDust` with a `timeoutMs`). No call into
the wallet, the ledger or the network is assumed to come back: `cli.ts` gives a
timer to the waits for tNIGHT, for spendable DUST and for the tip, but none to
building the wallet, to the call that builds the registration (441), to its
submission (475) and to `wallet.stop()` (700); `client.ts` gives none to
deploying, joining and approving (59, 112) and to its look at the ledger (85); and
`server.close` (`issuer-server.ts:320`) waits for every open request. So no
property says that a run ends. `RegistrationEnds` says that the loop does, or
stays in a call that does not come back.

*Browser.* No fairness and no liveness property: `fetch` in `issuer-api.ts` has no
timeout, so a handler may wait for ever and its flag with it.

## 4. Where the code and its documentation disagree

Each is a `violation` run; TLC prints the trace.

* `delivery_claim_after_done`: `claim()` looks for the `.done` file before it
  creates the lock. If another request is completed in between, the lock is
  gone and the second request claims a delivered report and mails it again.
  `README.md:173` says the claim prevents that. (The mail carries an
  idempotency key; whether it suppresses the second mail is up to the provider.)
* `otp_restart`: a wrong candidate rewrites the challenge in place, so a crash
  in that write loses the challenge; `README.md:175` says a restart does not
  invalidate one.
* `demo_replay`: the demo adapter looks for the nullifier, awaits some hashes
  and then adds it; two overlapping submissions of one proof to two mailboxes
  get two tickets. `README.md:82` lists the replay defence for contract and
  adapter alike.
* `rpc_duplicate`: the lookup comes right after the failure and before the
  wait. An accepted transaction that the indexer does not have yet is submitted
  again. The comment at `submission.ts:171` says that the lookup prevents this.

Found while modelling, part of the models, and stated as the conditions of the
properties rather than as violations:

* `vault.ts:230` and `:279`: with the password file missing, the error of
  reading it (ENOENT, kept and thrown again by `getSessionPasswords`) reaches
  the `catch` that takes ENOENT for a missing vault, and a new seed (under
  `--deploy`, new role secrets) replaces the old one. `KeysSurvive` exempts it
  (`misread`).
* `main.ts:54`: the console generates a new pair before it looks at the passphrase,
  and its button stays enabled while a backup is encrypted. Pressed again, the
  pair in memory is not the one whose backup was downloaded, yet the check box
  enables the deployment; `docs/MIDNIGHT_PREPROD.md:123` wants the backup of what is
  deployed. `KeysSurvive` exempts it (`overlapped`). The check box also enables
  the button again while a deployment is running.
* `local-report-relay.ts:21`: a `report.json` that exists counts as delivered,
  also one that a crash cut short; `InboxInOrder` leaves just this open.
* `local-report-relay.ts:28`: evidence is truncated in place. Two requests that
  both hold the claim (see the end of this section) write the same directory: the first is
  answered with 200 while the second has emptied the evidence, for good if the
  process then dies. `InboxIsWhole` ends at the ticket's first failed delivery
  or stale lock for that reason.
* `report-delivery-store.ts:118` and `local-report-relay.ts:64`: `exists()` takes every
  error for "no such file", so a `.done` file that cannot be accessed lets a
  delivered report be sent again (`misread` in `NoClaimOnceDelivered`).
* `App.tsx:418`: if `localStorage` refuses the receipt, the page says that the
  submission failed although the ledger has the ticket; the receipt is on the
  form but not shown (`unsaved` in `OneReceipt`).
* `vault.ts:236`: a vault torn by a crash does not parse and every later run
  ends there (`OpenWalletVault`, `OpenAdminVault`).
* `cli.ts:226`: `waitForDustSync` applies its timeout after the filter, so that
  the limit for the first event bounds the whole synchronisation, contrary to the
  comment before it. The model lets the wait end at any time.
* `App.tsx:694` and `:680`: a retry answers into whatever receipt is on the
  screen, and the retry after leaving the form posts another draft. `ReceiptIsTrue` and
  `RetryCanSucceed` hold only while the form was not left (`strayed`).

A limit of the delivery store that no document denies, and which is why
`ExclusiveUntilDelivered` excludes troubled tickets: two requests that both
found the lock stale each remove "the" lock and create it; the second removes
the lock the first has just created, and both hold the claim. The same happens
after a failed delivery, when one request has seen a lock that is released
before it looks at its age.

## 5. What is proved

All theorems hold for every value of the constants under the modules' named
assumptions, which say that special values (`NoLock`, `Nobody`) are not
ordinary ones, that role secrets belong to the set callers draw from, and that
limits are natural numbers.

* `GhostWhistleLedger_proofs`: type correctness, `CountersAgree` (counter, nullifiers
  and tickets go together; not a property of the run, as one circuit updates all three),
  `OneTicketPerNullifier`, `TicketsAreEntitled`, `RevocationIsFinal` and
  `Spec => Receipts!Spec`. The invariant `IInv` joins these with the finiteness
  of nullifiers and tickets, which the counting needs. Both submission
  circuits are reduced to one lemma, `SubmissionRecords`: the step adds one new
  nullifier and one entitled ticket that carries it. The rest of the proof never
  looks at a circuit again. Refinement follows because a new nullifier is an
  unspent key.
* `ReportDelivery_proofs`: type correctness, `NoLeakedLock`, the refinement of
  `AtLeastOnceDelivery`, `ExclusiveUntilDelivered`, and two theorems about the local
  inbox. The first invariant adds to
  the properties what each label of the handler may rely on
  (`DeliveredInOrder`) and that a request whose rename found no lock did not
  create the one that is there now (`LostLockIsLost`). Exclusion needs a second
  one, `ExclusionInv`: on an untroubled ticket no lock is stale, a request that
  lost the race for the lock sees the lock or the `.done` file until it gives
  up (`LosersWait`), and whoever holds the claim of an undelivered ticket owns
  the lock file (`HoldersOwn`). One file per ticket has one creator, so there
  is one holder. `NoClaimOnceDelivered`, which the run
  `delivery_claim_after_done` refutes for overlapping requests, is proved under
  `[]OneAtATime` (the requests about one ticket follow each other; those about
  others may overlap): then a request between its look for `.done` and its
  lock is the only one that could deliver its ticket (`ClaimsUndelivered`).
  `LocalInboxIsWhole` rests on `ExclusionInv`: on an untroubled ticket the holder is
  the only writer, so what it wrote stays whole, and what it finds is what an
  earlier holder or a crash left (a crash leaves a lock that must grow stale before
  the next holder comes, and a stale lock is trouble). `SequentialInboxInOrder`
  needs no such condition but `[]OneAtATime`: over crashes and failed writes
  `report.json` is there only if the evidence before it was finished.
* `OtpIssuance_proofs`: type correctness, `GuessesPerChallenge`, `AcceptedOnce`,
  `RegisteredWasProven`, `NoReopening`. The invariant ties the counter in the
  file to the candidates that were judged (`CountedInFile`), an accepted code to
  a file that is gone, and a file to a drawn id that only its request may still
  write (`Drawn`, `Fresh`), which is why it never comes back.
  `GuessesPerMailbox` follows by counting pairs (challenge, guess number). Every
  wrong candidate was heard while its challenge lived (`HeardInLife`), so a
  challenge guessed at in the window from `t` was drawn after `t - TtlMs`, hence
  either in that window or in the one before it. Any window has at most
  `MaxEvents` draws of a mailbox (`Charged`), each gives at most `MaxAttempts`
  pairs: at most twice `MaxEvents * MaxAttempts` in all. And each challenge
  implements `OneTimeChallenge` (`ChallengesImplementOneTime`): `PhaseOf` calls
  it new until its file is put, open while the file can be read, and closed
  after; any request, mail, expiry or crash moves each challenge by one step or
  not at all. The property `ChallengesAreOneTime` is this for all challenges at
  once, in the form TLC can check. `CountingTearsOne` delimits what the run
  `otp_restart` shows: a crash or a failed write tears at most one file, of a challenge whose
  wrong candidate was being counted, and leaves the others as they were.
* `DemoMidnight_proofs`: type correctness, `SpentForATicket`,
  `RefusesWhatWasSettled`, `VerifiedMailIsEntitled`. A call past the eligibility
  check was eligible once (`EligibleInCall`) and remembers what had been settled before
  it (`SettledInCall`); every ticket is that of an entitled submission
  (`TicketsEntitled`), and a mail that verifies hashes to one. The replay that
  the run `demo_replay` shows needs two overlapping submissions of one proof;
  under `[]ProofsFollow`, which excludes just those, a nullifier that was free
  stays free while its call runs (`UnspentInCall`), and the adapter implements
  `OneTimeReceipts` like the contract it "mirrors"
  (`FollowingProofsImplementReceipts`, `FollowingProofsBuyOneTicket`).
* `SlidingWindow_proofs`: type correctness and `WindowLimit` of `LimiterSpec`. The
  operation that has read is at the head of the queue (`ReadsAtHead`), so what it
  read is what the file holds (`ReadIsCurrent`); an event the file no longer
  holds has left the window (`ForgottenHaveLeft`). Hence the count before a
  grant is the true count of its window. The converse too: the file holds only
  events of the key's history (`FileIsHistory`) and none from the future
  (`ClockIsAhead`), so what an operation counts is exactly what was granted in
  its window (`LimiterCountsExactly`) and a call is refused only at the limit
  (`NeverUnderTheLimit`).
* `BrowserSession_proofs`: all seven properties of the run. The invariant adds
  which stages a submission goes through and that a ticket's report is that of its
  call (`TicketsKnown`), that qualification, file reading and retry run once at a
  time (`AtMostOne`), what a demo build cannot have (`SleepsInDemo`,
  `DemoPretends`), and `OnCourse`: as long as the form was not left, the step of
  the form tells which handlers can be running and that they carry the
  report on the screen. A receipt that localStorage refused leaves an older one
  there, which a reload shows: `StoredIsTrue` says that it is as true as the one on the
  form, and `RetryMatches` that nothing edits the report under a receipt.
* `Operator_proofs`: type correctness, `KeysSurvive`, `AnswersAreTrue` and
  `WindowLimit` of the composition. For the keys the invariant says at which
  stages the vault must already be whole (`SeedKept`, `SecretKept`) and what the
  console's enabled controls imply about downloads (`BackedUp`). The limiter's
  invariants are carried over: the composition runs it as `SlidingWindow` does.
* `RpcSubmission_proofs`: type correctness (the attempt limit, and no more
  copies than attempts), `VerdictsAreReal`, `GivesUpForCause` and
  `NoBlindResend`. The invariant says that what is indexed is in a block, and
  that a lookup which goes on or has ended empty found nothing. The comment the
  run `rpc_duplicate` refutes is proved under `[]LookupsSee`: no lookup begins
  between acceptance and the indexer's block, and one that begins later gets an
  answer (`SeeingLookupsPreventDuplicates`). `LoopIsBounded` is the safety half
  of `AlwaysAnswered`: `StepsLeft` is a natural number, starts at
  `MaxAttempts * (Identifiers + 4)`, falls with every step of the loop and is
  not touched by node, chain or indexer.

The four conditional theorems (`OneAtATime`, `ProofsFollow`, `LookupsSee` and the
single slot of `OneSlotSendsOnce`) say under which circumstances the promises of section 4
hold. The conditions are about the environment (what overlaps, how fast the
indexer is), are met by many behaviours (every sequential one), and the violation runs
show that without them the promise fails.

Only model-checked: liveness (`EventuallyDelivered`, `AlwaysAnswered`, `RegistrationEnds`:
the proof system has no fairness or `ENABLED` reasoning) and the four violations. Every
safety property of a passing run is a theorem.

Taken as given: hashes are injective (they are modelled by their preimages); a
zero-knowledge proof of a circuit is as good as its execution; the file system
does `open('wx')` and `rename` atomically and keeps them over a process crash;
the mail provider's idempotency is outside.

## 6. Not modelled

* Cryptography, zero-knowledge proofs, the ledger's fees and UTXOs, the wallet SDK.
* The proof of work (`pow.ts`): a loop of SHA-256 tests. Both sides of it appear as
  a step that may fail.
* Formats and size limits of messages, e-mail addresses and security.txt files;
  which contact a security.txt yields and which addresses its fetch avoids; the
  normalisation of the public directory. They are stateless; the routes have
  their failure as `Rejected`.
* Gemini's verdict: external. The fallback is modelled.
* `--revoke-credential` of the command line (its effect is `revokeCredential` of
  `GhostWhistleLedger`), the Windows password store (it answers a prompt),
  `createLazySubmissionService` (no caller).
* The development OTP code shown by local demos (`exposeDevelopmentOtp`) as a
  map between mailboxes; that the page may go straight on with it is modelled.
* Rendering, translations, styling, e-mail templates.
* The generated JavaScript of the contract: `GhostWhistleLedger` translates its source.
* Two issuer processes on one directory: the documentation asks for one.
* Files damaged or changed by anything but the program; a backup the browser was given
  and did not keep; a `localStorage` that refuses the receipt of a retry, one word
  longer or shorter than the one it has.
* In the demo adapter, a report commitment under another salt than the nullifier's:
  `submitReport` (`use-cases.ts:175`) checks that they are one before each call.

## 7. What could come next

1. The page composed with the ledger and the submission loop: after a
   misreported failure (`NotSubmitted` with an accepted ticket) a reporter who submits
   again gets a second ticket. `BrowserSession` and `RpcSubmission` each have
   their half of it; the page could only know better if the contract were asked.
2. An abstract rate limiter that `SlidingWindow` and the limiter in memory both
   implement; what it would promise is proved of `SlidingWindow`.
3. A pure check of the public directory's normalisation and of the contact choice of
   `security-txt.ts` against reference definitions over small inputs.
